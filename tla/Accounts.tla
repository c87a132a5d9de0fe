----------------------------- MODULE Accounts -------------------------------
(***************************************************************************)
(* Logins and refresh tokens: services/auth.py and core/security.py.       *)
(*                                                                         *)
(* The rows of the users are in MySQL and change when a request commits;   *)
(* the tokens are in Redis and change at once, whatever becomes of the     *)
(* request.  Access tokens carry no state: get_current_user reads the row  *)
(* again.                                                                  *)
(***************************************************************************)
EXTENDS AccountLife, FiniteSets, Sequences, Integers

CONSTANTS
    User,
    Slot,           \* slots for requests in flight
    MaxTokens       \* bound on the refresh tokens ever issued

VARIABLES
    user,       \* how the row of a user stands
    token,      \* the refresh tokens, in the order of their issue
    call,       \* requests in flight
    ended,      \* history: logins whose live token a logout named at rest
    forked      \* history: logins one of whose tokens was used twice at once

vars == <<user, token, call, ended, forked>>

\* `login` is the place of the token with which the session began.
RefreshToken == [user : User, login : 1 .. MaxTokens, live : BOOLEAN]

Idle == [op |-> "idle"]

\* A row that get_by_email and get_with_roles_permissions find.
Found(u) == user[u] \in {"active", "inactive"}

\* get_with_roles_permissions and the check of is_active.
Active(u) == user[u] = "active"

Init ==
    /\ user = [u \in User |-> "none"]
    /\ token = <<>>
    /\ call = [r \in Slot |-> Idle]
    /\ ended = {}
    /\ forked = {}

Begin(r, c) ==
    /\ call[r] = Idle
    /\ call' = [call EXCEPT ![r] = c]

End(r) == call' = [call EXCEPT ![r] = Idle]

-----------------------------------------------------------------------------
(* Sessions *)

\* create_refresh_token: SETEX of a new key.
Store(u, login) ==
    /\ Len(token) < MaxTokens
    /\ token' = Append(token, [user |-> u, login |-> login, live |-> TRUE])

\* revoke_refresh_token: DEL, of a key that need not be there.
Revoked(t) == [token EXCEPT ![t].live = FALSE]

\* The logins of which some request is rotating a token.
Rotating == {token[call[r].token].login : r \in {s \in Slot : call[s].op \in {"verified", "revoked"}}}

\* AuthService.login.  It does not look at is_active; a wrong password or an
\* unknown address changes nothing, because the attempt that was recorded is
\* rolled back with the request.
Login(r, u) ==
    /\ Found(u)
    /\ Begin(r, [op |-> "login", user |-> u])
    /\ UNCHANGED <<user, token, ended, forked>>

Issue(r) ==
    /\ call[r].op = "login"
    /\ Store(call[r].user, Len(token) + 1)
    /\ End(r)
    /\ UNCHANGED <<user, ended, forked>>

\* AuthService.refresh, up to the GET of verify_refresh_token.
Verify(r, t) ==
    /\ token[t].live
    /\ Begin(r, [op |-> "verified", token |-> t])
    /\ forked' = IF \E s \in Slot : call[s] = [op |-> "verified", token |-> t]
                 THEN forked \cup {token[t].login}
                 ELSE forked
    /\ UNCHANGED <<user, token, ended>>

\* A variant of Revoke: the old token stays until the new one is there.
RevokeLater(r) ==
    /\ call[r].op = "verified"
    /\ call' = [call EXCEPT ![r] = [op |-> "revoked", token |-> call[r].token]]
    /\ UNCHANGED <<user, token, ended, forked>>

\* The DEL, and the query for the user: the snapshot begins only here.
Revoke(r) ==
    /\ call[r].op = "verified"
    /\ LET t == call[r].token IN
           /\ token' = Revoked(t)
           /\ call' = [call EXCEPT ![r] = IF Active(token[t].user)
                                          THEN [op |-> "revoked", token |-> t]
                                          ELSE Idle]
    /\ UNCHANGED <<user, ended, forked>>

Rotate(r) ==
    /\ call[r].op = "revoked"
    /\ LET t == token[call[r].token] IN Store(t.user, t.login)
    /\ End(r)
    /\ UNCHANGED <<user, ended, forked>>

\* A logout names any token that was ever issued: it may be one that a refresh
\* has replaced, or that one is replacing just now.
Logout(t) ==
    /\ token' = Revoked(t)
    /\ ended' = IF token[t].live /\ token[t].login \notin Rotating
                THEN ended \cup {token[t].login}
                ELSE ended
    /\ UNCHANGED <<user, call, forked>>

\* A demo reset flushes the database of the tokens.
Flush ==
    /\ token' = [t \in DOMAIN token |-> [token[t] EXCEPT !.live = FALSE]]
    /\ UNCHANGED <<user, call, ended, forked>>

\* A request that fails: nothing that Redis has done is undone.
Abort(r) ==
    /\ call[r] # Idle
    /\ End(r)
    /\ UNCHANGED <<user, token, ended, forked>>

\* What becomes of a user's row meanwhile: UserAdmin.
Administer(u, standing) ==
    /\ <<user[u], standing>> \in AccountMoves
    /\ user' = [user EXCEPT ![u] = standing]
    /\ UNCHANGED <<token, call, ended, forked>>

Next ==
    \/ \E r \in Slot, u \in User : Login(r, u)
    \/ \E r \in Slot : Issue(r) \/ Revoke(r) \/ Rotate(r) \/ Abort(r)
    \/ \E r \in Slot, t \in DOMAIN token : Verify(r, t)
    \/ \E t \in DOMAIN token : Logout(t)
    \/ Flush
    \/ \E u \in User, standing \in Standings : Administer(u, standing)

Spec == Init /\ [][Next]_vars

-----------------------------------------------------------------------------
(* What must hold *)

\* A login is worth one refresh token at a time, whatever fails between the
\* deletion of the old and the creation of the new one, and none any more once
\* a logout named its live token while none was being rotated: a second live
\* token would be a session that no logout ends.  Only where two refreshes of
\* one token overlap, both of which find it, are there two.
OneTokenPerLogin ==
    \A l \in (1 .. Len(token)) \ forked :
       Cardinality({t \in DOMAIN token : token[t].login = l /\ token[t].live})
          <= IF l \in ended THEN 0 ELSE 1
=============================================================================
