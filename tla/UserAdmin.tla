----------------------------- MODULE UserAdmin ------------------------------
(***************************************************************************)
(* The users and their roles: routers/users.py with require_role of        *)
(* core/deps.py.                                                           *)
(*                                                                         *)
(* A user stands for an address, which may have a row.  A request reads    *)
(* the caller's row and the one that it is about in one snapshot, and      *)
(* decides; other requests may commit before it does.                      *)
(***************************************************************************)
EXTENDS Access, AccountLife

CONSTANTS
    User,
    Founder,    \* the administrator of the seed
    Grants,     \* the sets of roles that are given
    Slot        \* slots for requests in flight

VARIABLES
    user,       \* table users with user_roles
    call        \* requests in flight

vars == <<user, call>>

NoRow == [known |-> FALSE, active |-> FALSE, deleted |-> FALSE, roles |-> {}]
UserRow == [known : BOOLEAN, active : BOOLEAN, deleted : BOOLEAN, roles : SUBSET Role]

Idle == [op |-> "idle"]

\* A row that get_with_roles_permissions and _get_user_or_404 find.
Found(row) == row.known /\ ~row.deleted

\* get_current_user and require_role(ADMIN).
Administers(row) == Found(row) /\ row.active /\ May(row.roles, Users["update"])

\* A row as create_user and the seed make it.
NewRow(roles) == [known |-> TRUE, active |-> TRUE, deleted |-> FALSE, roles |-> roles]

Init ==
    /\ user = [u \in User |-> IF u = Founder THEN NewRow({"ADMIN"}) ELSE NoRow]
    /\ call = [r \in Slot |-> Idle]

\* `seen` is the row that the request read, `row` what it makes of it.
Begin(r, by, on, row) ==
    /\ call[r] = Idle
    /\ Administers(user[by])
    /\ call' = [call EXCEPT ![r] =
                   [op |-> "save", by |-> by, on |-> on, seen |-> user[on], row |-> row]]
    /\ UNCHANGED user

End(r) == call' = [call EXCEPT ![r] = Idle]

\* create_user looks for a row that is not deleted; the constraint on the
\* address, which Save knows, makes any row an obstacle.
CreateUser(r, by, on, roles) ==
    /\ ~user[on].known
    /\ Begin(r, by, on, NewRow(roles))

\* A variant of NotSelf: the caller's own account is an account like any other.
NotSelfForgotten(by, on) == {by, on} \subseteq User

\* The check of update_user and soft_delete.
NotSelf(by, on) == by # on

\* update_user: `active` and `roles` may each be left as they are.
UpdateUser(r, by, on, active, roles) ==
    /\ Found(user[on])
    /\ ~active => NotSelf(by, on)
    /\ Begin(r, by, on, [user[on] EXCEPT !.active = active, !.roles = roles])

\* soft_delete; reset_password changes nothing that is modelled.
DeleteUser(r, by, on) ==
    /\ Found(user[on])
    /\ NotSelf(by, on)
    /\ Begin(r, by, on, [user[on] EXCEPT !.active = FALSE, !.deleted = TRUE])

\* The flush writes the columns and the rows of user_roles that differ from
\* what was read; nothing compares what was read with what is there now.
Merged(now, c) ==
    [known   |-> TRUE,
     active  |-> IF c.row.active = c.seen.active THEN now.active ELSE c.row.active,
     deleted |-> IF c.row.deleted = c.seen.deleted THEN now.deleted ELSE c.row.deleted,
     roles   |-> (now.roles \ (c.seen.roles \ c.row.roles)) \cup (c.row.roles \ c.seen.roles)]

\* Flush and commit.  An address is unique, also among the deleted rows, and
\* so is a role of a user.
Save(r) ==
    /\ call[r].op = "save"
    /\ LET c == call[r] IN
       /\ ~c.seen.known => ~user[c.on].known
       /\ (c.row.roles \ c.seen.roles) \cap user[c.on].roles = {}
       /\ user' = [user EXCEPT ![c.on] = Merged(user[c.on], c)]
    /\ End(r)

\* A constraint, a deadlock or a lost connection: the request is rolled back.
Abort(r) ==
    /\ call[r] # Idle
    /\ End(r)
    /\ UNCHANGED user

Next ==
    \/ \E r \in Slot : Save(r) \/ Abort(r)
    \/ \E r \in Slot, by, on \in User :
          \/ DeleteUser(r, by, on)
          \/ \E roles \in Grants : CreateUser(r, by, on, roles)
          \/ \E roles \in Grants \cup {user[on].roles}, active \in BOOLEAN :
                UpdateUser(r, by, on, active, roles)

Spec == Init /\ [][Next]_vars

-----------------------------------------------------------------------------
(* What must hold *)

\* Somebody can administer the users: nobody can undo it otherwise, since
\* accounts are made by administrators only.
SomeoneAdministers == \E u \in User : Administers(user[u])

GivesUpRole(c) == c.by = c.on /\ c.row.active /\ "ADMIN" \notin c.row.roles

\* Whoever takes the last administrator away has either given up the role
\* himself or is, by the time of the commit, no administrator any more: as long
\* as neither happens, no interleaving of requests leaves the system without.

LastGoes ==
    SomeoneAdministers /\ ~SomeoneAdministers' =>
        \E r \in Slot : /\ Save(r)
                        /\ GivesUpRole(call[r]) \/ ~Administers(user[call[r].by])

LastAdministrator == [][LastGoes]_vars

Standing(row) ==
    IF ~row.known THEN "none"
    ELSE IF row.deleted THEN "deleted"
    ELSE IF row.active THEN "active" ELSE "inactive"

\* A row never comes back from its deletion and is never there unmade, however
\* the requests about it overlap: what Accounts relies on.
StandingsMove ==
    [][\A u \in User : LET now == Standing(user[u])
                           next == Standing(user'[u])
                       IN  now = next \/ <<now, next>> \in AccountMoves]_user
=============================================================================
