--------------------------- MODULE Services_proofs --------------------------
(***************************************************************************)
(* Proofs about the specifications in Services, each about its own part,   *)
(* and, at the end, that the whole keeps what its parts keep.              *)
(***************************************************************************)
EXTENDS Services, StockRow_proofs, FiniteSetTheorems, SequenceTheorems, TLAPS

(* The ledger of the stock                                                  *)

\* Every statement leaves a well-formed row: no guard is missing that keeps a
\* column nonnegative.
LEMMA AfterRow ==
    ASSUME NEW s \in Row, NEW q \in Nat, NEW f \in AllFamilies,
           NEW n \in After(f, s, q)
    PROVE  n \in Row
<1>1. CASE f = "sell"
  BY <1>1, ReserveRow, UnreserveRow, SalesOutRow DEF After, Sell
<1>2. CASE f = "buy"
  BY <1>2, AdjustIncomingRow, PurchaseInRow DEF After, Buy
<1>3. CASE f = "return"
  BY <1>3, SalesReturnRow DEF After
<1>4. CASE f = "undo return"
  BY <1>4, SalesReturnReverseRow DEF After, UndoReturn
<1>5. CASE f = "send"
  BY <1>5, ShipOutRow DEF After, Send
<1>6. CASE f = "take in"
  BY <1>6, ShipInRow, ReceiveRow DEF After, TakeIn
<1>7. CASE f = "count up"
  BY <1>7, IncreaseRow DEF After
<1>8. CASE f = "count down"
  BY <1>8, DecreaseRow DEF After, CountDown
<1>. QED  BY <1>1, <1>2, <1>3, <1>4, <1>5, <1>6, <1>7, <1>8 DEF AllFamilies

\* A statement of a safe family takes nothing that is reserved.
LEMMA SafeRow ==
    ASSUME NEW s \in Row, NEW q \in Nat, NEW f \in SafeFamilies,
           NEW n \in After(f, s, q), Available(s) >= 0
    PROVE  Available(n) >= 0
<1>0. Available(s) \in Int
  BY DEF Available, Row
<1>1. CASE f = "sell"
  <2>1. CASE ReserveOK(s, q) /\ n = Reserve(s, q)
    <3>1. Available(n) = Available(s) - q
      BY <2>1, ReserveRow
    <3>2. Available(s) >= q
      BY <2>1 DEF ReserveOK
    <3>. QED  BY <1>0, <3>1, <3>2
  <2>2. CASE UnreserveOK(s, q) /\ n = Unreserve(s, q)
    BY <1>0, <2>2, UnreserveRow
  <2>3. CASE SalesOutOK(s, s.version, q) /\ n = SalesOut(s, q)
    BY <1>0, <2>3, SalesOutRow
  <2>. QED  BY <1>1, <2>1, <2>2, <2>3 DEF After, Sell
<1>2. CASE f = "buy"
  <2>0. n \in Buy(s, q)
    BY <1>2 DEF After
  <2>1. CASE n = AdjustIncoming(s, q)
    BY <2>1, AdjustIncomingRow
  <2>2. CASE n = AdjustIncoming(s, -q)
    <3>1. -q \in Int
      OBVIOUS
    <3>. QED  BY <2>2, <3>1, AdjustIncomingRow
  <2>3. CASE n = PurchaseIn(s, q)
    <3>1. Available(n) = Available(s) + q
      BY <2>3, PurchaseInRow
    <3>. QED  BY <1>0, <3>1
  <2>. QED  BY <2>0, <2>1, <2>2, <2>3 DEF Buy
<1>3. CASE f = "return"
  <2>1. Available(n) = Available(s) + q
    BY <1>3, SalesReturnRow DEF After
  <2>. QED  BY <1>0, <2>1
<1>4. CASE f = "take in"
  <2>0. n \in TakeIn(s, q)
    BY <1>4 DEF After
  <2>1. CASE n = ShipIn(s, q)
    BY <2>1, ShipInRow
  <2>2. CASE ReceiveOK(s, s.version, q) /\ n = Receive(s, q)
    <3>1. Available(n) = Available(s) + q
      BY <2>2, ReceiveRow
    <3>. QED  BY <1>0, <3>1
  <2>. QED  BY <2>0, <2>1, <2>2 DEF TakeIn
<1>5. CASE f = "count up"
  <2>1. Available(n) = Available(s) + q
    BY <1>5, IncreaseRow DEF After
  <2>. QED  BY <1>0, <2>1
<1>. QED  BY <1>1, <1>2, <1>3, <1>4, <1>5 DEF SafeFamilies

\* What a commit leaves of a row that it changes.
LEMMA StatementRow ==
    ASSUME NEW s \in Row, NEW n, Statement(s, n)
    PROVE  /\ n \in Row
           /\ Families \subseteq SafeFamilies /\ Available(s) >= 0 => Available(n) >= 0
<1>1. PICK f \in Families, q \in Nat : n \in After(f, s, q)
  BY DEF Statement, Moved
<1>. QED  BY <1>1, AfterRow, SafeRow, FamiliesAssumption

\* Rows at the start.
LEMMA InitRow == Init => TypeOK /\ NoOversell
<1>1. [EmptyRow EXCEPT !.on_hand = InitialOnHand] \in Row
      /\ Available([EmptyRow EXCEPT !.on_hand = InitialOnHand]) >= 0
  BY InitialAssumption DEF EmptyRow, Row, Available
<1>. QED  BY <1>1 DEF Init, TypeOK, NoOversell

\* One commit, of any number of rows.
LEMMA CommitType == TypeOK /\ [Commit]_stock => TypeOK'
<1>. SUFFICES ASSUME TypeOK, Commit PROVE TypeOK'
  BY DEF TypeOK
<1>1. \A c \in Cell : stock'[c] \in Row
  BY StatementRow DEF TypeOK, Commit
<1>. QED  BY <1>1 DEF TypeOK, Commit

\* Whatever documents are processed together, no quantity but `incoming` ever
\* becomes negative: the WHERE clauses of services/inventory.py suffice.
THEOREM QuantitiesNonNegative == Spec => []TypeOK
<1>. QED  BY InitRow, CommitType, PTL DEF Spec

\* As long as only safe families of statements are in use, no stock row is
\* ever oversold, by whatever mixture of requests.
THEOREM SafeFamiliesNeverOversell ==
    ASSUME Families \subseteq SafeFamilies
    PROVE  Spec => []NoOversell
<1>1. TypeOK /\ NoOversell /\ [Commit]_stock => NoOversell'
  <2>. SUFFICES ASSUME TypeOK, NoOversell, Commit PROVE NoOversell'
    BY DEF NoOversell
  <2>1. \A c \in Cell : Available(stock'[c]) >= 0
    BY StatementRow DEF TypeOK, NoOversell, Commit
  <2>. QED  BY <2>1 DEF NoOversell
<1>. QED  BY <1>1, InitRow, CommitType, PTL DEF Spec

-----------------------------------------------------------------------------
(* Accounts                                                                 *)

Stored == [user : Holder, login : Nat, live : BOOLEAN]
OnToken == {"verified", "revoked"}
Calls == {Accounts!Idle} \cup [op : {"login"}, user : Holder] \cup [op : OnToken, token : Nat]

TokensTyped ==
    /\ token \in Seq(Stored)
    /\ session \in [Slot -> Calls]
    /\ \A t \in DOMAIN token : token[t].login \in 1 .. t
    /\ ended \subseteq 1 .. Len(token)
    /\ \A r \in Slot : session[r].op \in OnToken => session[r].token \in DOMAIN token

\* The login of the token that a request is about.
LoginOf(r) == token[session[r].token].login

\* Where no two refreshes shared a token, only the last token of a login lives,
LastLives ==
    \A s, t \in DOMAIN token :
        token[s].login \notin forked /\ token[s].login = token[t].login /\ s < t
            => ~token[s].live

\* and none once it was ended, when nobody is rotating any either.
EndedIsDead ==
    /\ \A t \in DOMAIN token : token[t].login \in ended \ forked => ~token[t].live
    /\ \A r \in Slot : session[r].op \in OnToken => LoginOf(r) \notin ended \ forked

\* A refresh has verified the last token, and from the time that it revoked it
\* until it stores the next there is no live one.
RotationFits ==
    \A r \in Slot : session[r].op \in OnToken /\ LoginOf(r) \notin forked =>
        /\ session[r].op = "verified" =>
              \A t \in DOMAIN token : token[t].login = LoginOf(r) => t <= session[r].token
        /\ session[r].op = "revoked" =>
              \A t \in DOMAIN token : token[t].login = LoginOf(r) => ~token[t].live

\* Two refreshes are about two logins.
Apart ==
    \A r, s \in Slot :
        r # s /\ session[r].op \in OnToken /\ session[s].op \in OnToken /\ LoginOf(r) = LoginOf(s)
            => LoginOf(r) \in forked

TokenInv == TokensTyped /\ LastLives /\ EndedIsDead /\ RotationFits /\ Apart

-----------------------------------------------------------------------------
(* What the operations on Redis do *)

LEMMA StoreFacts ==
    ASSUME TokensTyped, NEW u \in Holder, NEW l \in 1 .. (Len(token) + 1), Accounts!Store(u, l)
    PROVE  /\ token' \in Seq(Stored)
           /\ Len(token') = Len(token) + 1
           /\ \A t \in DOMAIN token : t \in DOMAIN token' /\ token'[t] = token[t]
           /\ \A t \in DOMAIN token' : t \in DOMAIN token \/ t = Len(token) + 1
           /\ Len(token) + 1 \in DOMAIN token'
           /\ token'[Len(token) + 1] = [user |-> u, login |-> l, live |-> TRUE]
<1>. DEFINE new == [user |-> u, login |-> l, live |-> TRUE]
<1>1. new \in Stored /\ token' = Append(token, new) /\ token \in Seq(Stored)
  BY DEF Accounts!Store, Stored, TokensTyped
<1>. HIDE DEF new
<1>. QED BY <1>1 DEF new

LEMMA RevokeFacts ==
    ASSUME TokensTyped, NEW t \in DOMAIN token, token' = Accounts!Revoked(t)
    PROVE  /\ token' \in Seq(Stored)
           /\ Len(token') = Len(token)
           /\ DOMAIN token' = DOMAIN token
           /\ ~token'[t].live
           /\ \A s \in DOMAIN token : /\ token'[s].login = token[s].login
                                      /\ s # t => token'[s] = token[s]
                                      /\ token'[s].live => token[s].live
<1>1. token \in [1 .. Len(token) -> Stored] /\ Len(token) \in Nat
  BY DEF TokensTyped
<1>2. /\ token' \in [1 .. Len(token) -> Stored]
      /\ DOMAIN token' = 1 .. Len(token)
  BY <1>1 DEF Accounts!Revoked, Stored
<1>3. token' \in Seq(Stored) /\ Len(token') = Len(token)
  BY <1>1, <1>2
<1>4. ~token'[t].live
  BY <1>1 DEF Accounts!Revoked, Stored
<1>5. ASSUME NEW s \in DOMAIN token
      PROVE  /\ token'[s].login = token[s].login
             /\ s # t => token'[s] = token[s]
             /\ token'[s].live => token[s].live
  BY <1>1, <1>5 DEF Accounts!Revoked, Stored
<1>. QED BY <1>1, <1>2, <1>3, <1>4, <1>5

-----------------------------------------------------------------------------
(* Every action preserves the invariant *)

LEMMA LoginStep ==
    ASSUME TokenInv, NEW r \in Slot, NEW u \in Holder, Accounts!Login(r, u)
    PROVE  TokenInv'
<1>1. /\ session' = [session EXCEPT ![r] = [op |-> "login", user |-> u]]
      /\ UNCHANGED <<token, ended, forked>>
  BY DEF Accounts!Login, Accounts!Begin
<1>2. session' \in [Slot -> Calls]
  BY <1>1 DEF TokenInv, TokensTyped, Calls
<1>3. \A s \in Slot : session'[s].op \in OnToken => session'[s] = session[s]
  BY <1>1 DEF TokenInv, TokensTyped, OnToken
<1>. QED BY <1>1, <1>2, <1>3
         DEF TokenInv, TokensTyped, LastLives, EndedIsDead, RotationFits, Apart, LoginOf

\* A request ends without having touched a token.
LEMMA AbortStep ==
    ASSUME TokenInv, NEW r \in Slot, Accounts!Abort(r)
    PROVE  TokenInv'
<1>1. /\ session' = [session EXCEPT ![r] = Accounts!Idle]
      /\ UNCHANGED <<token, ended, forked>>
  BY DEF Accounts!Abort, Accounts!End
<1>2. session' \in [Slot -> Calls]
  BY <1>1 DEF TokenInv, TokensTyped, Calls
<1>3. \A s \in Slot : session'[s].op \in OnToken => session'[s] = session[s]
  BY <1>1 DEF TokenInv, TokensTyped, OnToken, Accounts!Idle
<1>. QED BY <1>1, <1>2, <1>3
         DEF TokenInv, TokensTyped, LastLives, EndedIsDead, RotationFits, Apart, LoginOf

\* What storing a token for login l keeps, if l has no live token and no request
\* but perhaps one that ends with it.
LEMMA StoredFits ==
    ASSUME TokenInv, NEW r \in Slot, NEW u \in Holder, NEW l \in 1 .. (Len(token) + 1),
           Accounts!Store(u, l),
           session' = [session EXCEPT ![r] = Accounts!Idle],
           UNCHANGED <<ended, forked>>,
           l \notin forked => /\ \A t \in DOMAIN token : token[t].login = l => ~token[t].live
                              /\ \A s \in Slot \ {r} : session[s].op \in OnToken => LoginOf(s) # l,
           l \notin ended \ forked
    PROVE  TokenInv'
<1>. DEFINE n == Len(token) + 1
<1>1. Len(token) \in Nat /\ DOMAIN token = 1 .. Len(token)
  BY DEF TokenInv, TokensTyped
<1>2. /\ token' \in Seq(Stored)
      /\ Len(token') = n
      /\ \A t \in DOMAIN token : t \in DOMAIN token' /\ token'[t] = token[t]
      /\ \A t \in DOMAIN token' : t \in DOMAIN token \/ t = n
      /\ token'[n].login = l /\ token'[n].live
  <2>1. TokensTyped
    BY DEF TokenInv
  <2>. HIDE DEF n
  <2>2. /\ token' \in Seq(Stored)
        /\ Len(token') = Len(token) + 1
        /\ \A t \in DOMAIN token : t \in DOMAIN token' /\ token'[t] = token[t]
        /\ \A t \in DOMAIN token' : t \in DOMAIN token \/ t = Len(token) + 1
        /\ token'[Len(token) + 1] = [user |-> u, login |-> l, live |-> TRUE]
    BY <2>1, StoreFacts
  <2>. QED BY <2>2 DEF n
<1>. HIDE DEF n
<1>3. /\ \A s \in Slot : session'[s].op \in OnToken => s # r /\ session'[s] = session[s]
      /\ session' \in [Slot -> Calls]
  BY DEF TokenInv, TokensTyped, Calls, OnToken, Accounts!Idle
<1>4. \A s \in Slot : session'[s].op \in OnToken =>
          session[s].token \in DOMAIN token /\ LoginOf(s)' = LoginOf(s)
  BY <1>2, <1>3 DEF TokenInv, TokensTyped, LoginOf
<1>5. TokensTyped'
  <2>1. \A t \in DOMAIN token' : token'[t].login \in 1 .. t
    BY <1>1, <1>2 DEF TokenInv, TokensTyped, n
  <2>2. ended' \subseteq 1 .. Len(token')
    BY <1>1, <1>2 DEF TokenInv, TokensTyped, n
  <2>3. \A s \in Slot : session'[s].op \in OnToken => session'[s].token \in DOMAIN token'
    BY <1>2, <1>3, <1>4
  <2>. QED BY <1>2, <1>3, <2>1, <2>2, <2>3 DEF TokensTyped
<1>6. LastLives'
  BY <1>1, <1>2 DEF TokenInv, LastLives, n
<1>7. EndedIsDead'
  BY <1>2, <1>3, <1>4 DEF TokenInv, EndedIsDead
<1>8. RotationFits'
  <2>. SUFFICES ASSUME NEW s \in Slot, session'[s].op \in OnToken, LoginOf(s)' \notin forked,
                       NEW t \in DOMAIN token', token'[t].login = LoginOf(s)'
                PROVE  /\ session'[s].op = "verified" => t <= session'[s].token
                       /\ session'[s].op = "revoked" => ~token'[t].live
    BY DEF RotationFits
  <2>1. s # r /\ session'[s] = session[s] /\ LoginOf(s)' = LoginOf(s) /\ LoginOf(s) # l
    BY <1>3, <1>4
  <2>2. t \in DOMAIN token /\ token'[t] = token[t]
    BY <1>2, <2>1
  <2>. QED BY <2>1, <2>2 DEF TokenInv, RotationFits
<1>9. Apart'
  BY <1>3, <1>4 DEF TokenInv, Apart
<1>. QED BY <1>5, <1>6, <1>7, <1>8, <1>9 DEF TokenInv

LEMMA IssueStep ==
    ASSUME TokenInv, NEW r \in Slot, Accounts!Issue(r)
    PROVE  TokenInv'
<1>. DEFINE n == Len(token) + 1
<1>1. session[r] \in [op : {"login"}, user : Holder]
  BY DEF TokenInv, TokensTyped, Accounts!Issue, Calls, Accounts!Idle, OnToken
<1>2. n \in 1 .. (Len(token) + 1) /\ n \notin 1 .. Len(token)
  BY DEF TokenInv, TokensTyped
<1>3. \A t \in DOMAIN token : token[t].login # n
  BY <1>2 DEF TokenInv, TokensTyped
<1>4. /\ Accounts!Store(session[r].user, n)
      /\ session' = [session EXCEPT ![r] = Accounts!Idle]
      /\ UNCHANGED <<ended, forked>>
  BY DEF Accounts!Issue, Accounts!End
<1>5. n \notin ended
  BY <1>2 DEF TokenInv, TokensTyped
<1>6. \A s \in Slot : session[s].op \in OnToken => LoginOf(s) # n
  BY <1>3 DEF TokenInv, TokensTyped, LoginOf
<1>7. session[r].user \in Holder
  BY <1>1
<1>. HIDE DEF n
<1>. QED BY <1>2, <1>3, <1>4, <1>5, <1>6, <1>7, StoredFits

LEMMA RotateStep ==
    ASSUME TokenInv, NEW r \in Slot, Accounts!Rotate(r)
    PROVE  TokenInv'
<1>. DEFINE t == session[r].token
            l == token[t].login
<1>1. session[r].op = "revoked" /\ session[r].op \in OnToken /\ t \in DOMAIN token /\ l = LoginOf(r)
  BY DEF Accounts!Rotate, TokenInv, TokensTyped, OnToken, LoginOf
<1>2. Len(token) \in Nat /\ DOMAIN token = 1 .. Len(token) /\ token[t] \in Stored
  BY <1>1 DEF TokenInv, TokensTyped
<1>3. l \in 1 .. (Len(token) + 1) /\ token[t].user \in Holder
  BY <1>1, <1>2 DEF TokenInv, TokensTyped, Stored
<1>4. /\ Accounts!Store(token[t].user, l)
      /\ session' = [session EXCEPT ![r] = Accounts!Idle]
      /\ UNCHANGED <<ended, forked>>
  BY DEF Accounts!Rotate, Accounts!End
<1>5. l \notin ended \ forked
  BY <1>1 DEF TokenInv, EndedIsDead
<1>6. ASSUME l \notin forked
      PROVE  /\ \A s \in DOMAIN token : token[s].login = l => ~token[s].live
             /\ \A s \in Slot \ {r} : session[s].op \in OnToken => LoginOf(s) # l
  BY <1>1, <1>6 DEF TokenInv, RotationFits, Apart
<1>. HIDE DEF l, t
<1>. QED BY <1>3, <1>4, <1>5, <1>6, StoredFits

\* Two requests that find one and the same token fork its login; otherwise it
\* is the last token, and nobody else is about the login.
LEMMA VerifyStep ==
    ASSUME TokenInv, NEW r \in Slot, NEW t \in DOMAIN token, Accounts!Verify(r, t)
    PROVE  TokenInv'
<1>. DEFINE l == token[t].login
            c == [op |-> "verified", token |-> t]
<1>1. /\ token[t].live
      /\ session[r] = Accounts!Idle
      /\ session' = [session EXCEPT ![r] = c]
      /\ UNCHANGED <<token, ended>>
      /\ forked \subseteq forked' /\ forked' \subseteq forked \cup {l}
      /\ (\E s \in Slot : session[s] = c) => l \in forked'
  BY DEF Accounts!Verify, Accounts!Begin
<1>2. /\ \A s \in Slot \ {r} : session'[s] = session[s]
      /\ session'[r] = c
      /\ session' \in [Slot -> Calls]
  BY <1>1 DEF TokenInv, TokensTyped, Calls, OnToken
<1>3. DOMAIN token \subseteq Nat /\ t \in DOMAIN token
  BY DEF TokenInv, TokensTyped
<1>4. l \notin forked => \A s \in DOMAIN token : token[s].login = l => s <= t
  <2>. SUFFICES ASSUME l \notin forked, NEW s \in DOMAIN token, token[s].login = l, t < s
                PROVE  FALSE
    BY <1>3
  <2>. QED BY <1>1 DEF TokenInv, LastLives
<1>5. l \notin ended \ forked
  BY <1>1 DEF TokenInv, EndedIsDead
<1>6. ASSUME NEW s \in Slot, session[s].op \in OnToken, LoginOf(s) = l, l \notin forked'
      PROVE  FALSE
  <2>1. l \notin forked /\ session[s].token \in DOMAIN token
    BY <1>1, <1>6 DEF TokenInv, TokensTyped
  <2>2. session[s].op = "verified"
    BY <1>1, <1>6, <2>1 DEF TokenInv, RotationFits, OnToken
  <2>3. t <= session[s].token
    BY <1>6, <2>1, <2>2 DEF TokenInv, RotationFits
  <2>4. session[s].token <= t
    BY <1>4, <1>6, <2>1 DEF LoginOf
  <2>5. session[s].token = t
    BY <1>3, <2>1, <2>3, <2>4
  <2>6. session[s] \in [op : OnToken, token : Nat]
    BY <2>2 DEF TokenInv, TokensTyped, Calls, OnToken, Accounts!Idle
  <2>7. session[s] = c
    BY <2>2, <2>5, <2>6
  <2>. QED BY <1>1, <1>6, <2>7
<1>7. TokensTyped'
  BY <1>1, <1>2 DEF TokenInv, TokensTyped, OnToken
<1>8. /\ LoginOf(r)' = l
      /\ \A s \in Slot \ {r} : LoginOf(s)' = LoginOf(s)
  BY <1>1, <1>2 DEF LoginOf
<1>. HIDE DEF l
<1>9. LastLives'
  BY <1>1 DEF TokenInv, LastLives
<1>10. EndedIsDead'
  <2>1. \A s \in Slot : session'[s].op \in OnToken => LoginOf(s)' \notin ended \ forked
    BY <1>2, <1>5, <1>8 DEF TokenInv, EndedIsDead
  <2>. QED BY <1>1, <2>1 DEF TokenInv, EndedIsDead
<1>11. RotationFits'
  <2>. SUFFICES ASSUME NEW s \in Slot, session'[s].op \in OnToken, LoginOf(s)' \notin forked',
                       NEW v \in DOMAIN token, token[v].login = LoginOf(s)'
                PROVE  /\ session'[s].op = "verified" => v <= session'[s].token
                       /\ session'[s].op = "revoked" => ~token[v].live
    BY <1>1 DEF RotationFits
  <2>1. CASE s = r
    BY <1>1, <1>2, <1>4, <1>8, <2>1
  <2>2. CASE s # r
    BY <1>1, <1>2, <1>8, <2>2 DEF TokenInv, RotationFits
  <2>. QED BY <2>1, <2>2
<1>12. Apart'
  <2>. SUFFICES ASSUME NEW s \in Slot, NEW v \in Slot, s # v, session'[s].op \in OnToken,
                       session'[v].op \in OnToken, LoginOf(s)' = LoginOf(v)', LoginOf(s)' \notin forked'
                PROVE  FALSE
    BY DEF Apart
  <2>1. CASE s # r /\ v # r
    BY <1>1, <1>2, <1>8, <2>1 DEF TokenInv, Apart
  <2>2. CASE s = r
    BY <1>2, <1>6, <1>8, <2>2
  <2>3. CASE v = r
    BY <1>2, <1>6, <1>8, <2>3
  <2>. QED BY <2>1, <2>2, <2>3
<1>. QED BY <1>7, <1>9, <1>10, <1>11, <1>12 DEF TokenInv

\* Revoking the last token of a login leaves it none.
LEMMA RevokedFits ==
    ASSUME TokenInv, NEW t \in DOMAIN token, token' = Accounts!Revoked(t), UNCHANGED forked
    PROVE  /\ token' \in Seq(Stored) /\ Len(token') = Len(token) /\ DOMAIN token' = DOMAIN token
           /\ \A s \in DOMAIN token : /\ token'[s].login = token[s].login
                                      /\ token'[s].live => token[s].live
           /\ LastLives'
           /\ token[t].login \notin forked
              /\ (token[t].live \/ \A s \in DOMAIN token : token[s].login = token[t].login => s <= t)
                 => \A s \in DOMAIN token : token[s].login = token[t].login => ~token'[s].live
<1>1. /\ token' \in Seq(Stored) /\ Len(token') = Len(token)
      /\ DOMAIN token' = DOMAIN token
      /\ ~token'[t].live
      /\ \A s \in DOMAIN token : /\ token'[s].login = token[s].login
                                 /\ s # t => token'[s] = token[s]
                                 /\ token'[s].live => token[s].live
  BY RevokeFacts DEF TokenInv
<1>2. DOMAIN token \subseteq Nat
  BY DEF TokenInv, TokensTyped
<1>3. LastLives'
  BY <1>1 DEF TokenInv, LastLives
<1>4. ASSUME token[t].login \notin forked,
             token[t].live \/ \A s \in DOMAIN token : token[s].login = token[t].login => s <= t,
             NEW s \in DOMAIN token, token[s].login = token[t].login
      PROVE  ~token'[s].live
  <2>1. CASE s = t
    BY <1>1, <2>1
  <2>2. CASE s < t
    BY <1>1, <1>4, <2>2 DEF TokenInv, LastLives
  <2>3. CASE t < s
    BY <1>2, <1>4, <2>3 DEF TokenInv, LastLives
  <2>. QED BY <1>2, <2>1, <2>2, <2>3
<1>. QED BY <1>1, <1>3, <1>4

LEMMA RevokeStep ==
    ASSUME TokenInv, NEW r \in Slot, Accounts!Revoke(r)
    PROVE  TokenInv'
<1>. DEFINE t == session[r].token
<1>1. /\ session[r].op = "verified" /\ session[r].op \in OnToken
      /\ t \in DOMAIN token /\ token[t].login = LoginOf(r)
  BY DEF Accounts!Revoke, TokenInv, TokensTyped, OnToken, LoginOf
<1>2. /\ token' = Accounts!Revoked(t)
      /\ UNCHANGED <<ended, forked>>
      /\ \/ session' = [session EXCEPT ![r] = [op |-> "revoked", token |-> t]]
         \/ session' = [session EXCEPT ![r] = Accounts!Idle]
  BY DEF Accounts!Revoke
<1>3. /\ \A s \in Slot \ {r} : session'[s] = session[s]
      /\ session'[r] = [op |-> "revoked", token |-> t] \/ session'[r] = Accounts!Idle
      /\ session' \in [Slot -> Calls]
  <2>1. t \in Nat /\ session \in [Slot -> Calls]
    BY <1>1 DEF TokenInv, TokensTyped
  <2>2. [op |-> "revoked", token |-> t] \in Calls /\ Accounts!Idle \in Calls
    BY <2>1 DEF Calls, OnToken
  <2>. QED BY <1>2, <2>1, <2>2
<1>4. \A s \in Slot : session'[s].op \in OnToken =>
          session[s].op \in OnToken /\ session'[s].token = session[s].token
  BY <1>1, <1>3 DEF Accounts!Idle, OnToken
<1>. HIDE DEF t
<1>5. /\ token' \in Seq(Stored) /\ Len(token') = Len(token) /\ DOMAIN token' = DOMAIN token
      /\ \A s \in DOMAIN token : /\ token'[s].login = token[s].login
                                 /\ token'[s].live => token[s].live
      /\ LastLives'
      /\ token[t].login \notin forked
         /\ (token[t].live \/ \A s \in DOMAIN token : token[s].login = token[t].login => s <= t)
            => \A s \in DOMAIN token : token[s].login = token[t].login => ~token'[s].live
  BY <1>1, <1>2, RevokedFits
<1>6. token[t].login \notin forked =>
          \A s \in DOMAIN token : token[s].login = token[t].login => ~token'[s].live
  BY <1>1, <1>5 DEF TokenInv, RotationFits, t
<1>7. \A s \in Slot : session'[s].op \in OnToken =>
          session[s].token \in DOMAIN token /\ LoginOf(s)' = LoginOf(s)
  BY <1>4, <1>5 DEF TokenInv, TokensTyped, LoginOf
<1>8. TokensTyped'
  BY <1>2, <1>3, <1>4, <1>5, <1>7 DEF TokenInv, TokensTyped
<1>9. EndedIsDead'
  <2>1. \A s \in DOMAIN token' : token'[s].login \in ended' \ forked' => ~token'[s].live
    BY <1>2, <1>5 DEF TokenInv, EndedIsDead
  <2>2. \A s \in Slot : session'[s].op \in OnToken => LoginOf(s)' \notin ended' \ forked'
    BY <1>2, <1>4, <1>7 DEF TokenInv, EndedIsDead
  <2>. QED BY <2>1, <2>2 DEF EndedIsDead
<1>10. RotationFits'
  <2>. SUFFICES ASSUME NEW s \in Slot, session'[s].op \in OnToken, LoginOf(s)' \notin forked,
                       NEW v \in DOMAIN token, token'[v].login = LoginOf(s)'
                PROVE  /\ session'[s].op = "verified" => v <= session'[s].token
                       /\ session'[s].op = "revoked" => ~token'[v].live
    BY <1>2, <1>5 DEF RotationFits
  <2>1. token[v].login = LoginOf(s) /\ session[s].op \in OnToken /\ LoginOf(s) \notin forked
    BY <1>4, <1>5, <1>7
  <2>2. CASE s = r
    BY <1>1, <1>3, <1>6, <2>1, <2>2 DEF Accounts!Idle
  <2>3. CASE s # r
    BY <1>3, <1>5, <2>1, <2>3 DEF TokenInv, RotationFits
  <2>. QED BY <2>2, <2>3
<1>11. Apart'
  BY <1>2, <1>4, <1>7 DEF TokenInv, Apart
<1>. QED BY <1>5, <1>8, <1>9, <1>10, <1>11 DEF TokenInv

LEMMA LogoutStep ==
    ASSUME TokenInv, NEW t \in DOMAIN token, Accounts!Logout(t)
    PROVE  TokenInv'
<1>. DEFINE l == token[t].login
<1>1. /\ token' = Accounts!Revoked(t)
      /\ UNCHANGED <<session, forked>>
      /\ \/ ended' = ended
         \/ /\ ended' = ended \cup {l}
            /\ token[t].live
            /\ l \notin Accounts!Rotating
  BY DEF Accounts!Logout
<1>2. l \notin Accounts!Rotating => \A s \in Slot : session[s].op \in OnToken => LoginOf(s) # l
  BY DEF Accounts!Rotating, OnToken, LoginOf
<1>3. /\ token' \in Seq(Stored) /\ Len(token') = Len(token) /\ DOMAIN token' = DOMAIN token
      /\ \A s \in DOMAIN token : /\ token'[s].login = token[s].login
                                 /\ token'[s].live => token[s].live
      /\ LastLives'
      /\ l \notin forked
         /\ (token[t].live \/ \A s \in DOMAIN token : token[s].login = l => s <= t)
            => \A s \in DOMAIN token : token[s].login = l => ~token'[s].live
  BY <1>1, RevokedFits
<1>4. l \in 1 .. Len(token)
  BY DEF TokenInv, TokensTyped
<1>5. \A s \in Slot : session[s].op \in OnToken =>
          session[s].token \in DOMAIN token /\ LoginOf(s)' = LoginOf(s)
  BY <1>1, <1>3 DEF TokenInv, TokensTyped, LoginOf
<1>. HIDE DEF l
<1>6. TokensTyped'
  BY <1>1, <1>3, <1>4, <1>5 DEF TokenInv, TokensTyped
<1>7. EndedIsDead'
  <2>1. \A s \in DOMAIN token' : token'[s].login \in ended' \ forked' => ~token'[s].live
    BY <1>1, <1>3 DEF TokenInv, EndedIsDead
  <2>2. \A s \in Slot : session'[s].op \in OnToken => LoginOf(s)' \notin ended' \ forked'
    BY <1>1, <1>2, <1>5 DEF TokenInv, EndedIsDead
  <2>. QED BY <2>1, <2>2 DEF EndedIsDead
<1>8. RotationFits'
  BY <1>1, <1>3, <1>5 DEF TokenInv, RotationFits
<1>9. Apart'
  BY <1>1, <1>5 DEF TokenInv, Apart
<1>. QED BY <1>3, <1>6, <1>7, <1>8, <1>9 DEF TokenInv

LEMMA FlushStep == TokenInv /\ Accounts!Flush => TokenInv'
<1>. SUFFICES ASSUME TokenInv, Accounts!Flush PROVE TokenInv'
  OBVIOUS
<1>1. /\ token' = [t \in DOMAIN token |-> [token[t] EXCEPT !.live = FALSE]]
      /\ UNCHANGED <<session, ended, forked>>
  BY DEF Accounts!Flush
<1>2. token \in [1 .. Len(token) -> Stored] /\ Len(token) \in Nat
  BY DEF TokenInv, TokensTyped
<1>3. token' \in [1 .. Len(token) -> Stored]
  BY <1>1, <1>2 DEF Stored
<1>4. token' \in Seq(Stored) /\ Len(token') = Len(token)
  BY <1>2, <1>3
<1>5. /\ DOMAIN token' = DOMAIN token
      /\ \A t \in DOMAIN token : token'[t].login = token[t].login /\ ~token'[t].live
  BY <1>1, <1>2 DEF Stored
<1>6. \A s \in Slot : session[s].op \in OnToken =>
          session[s].token \in DOMAIN token /\ LoginOf(s)' = LoginOf(s)
  BY <1>1, <1>5 DEF TokenInv, TokensTyped, LoginOf
<1>7. TokensTyped'
  BY <1>1, <1>4, <1>5 DEF TokenInv, TokensTyped
<1>8. LastLives' /\ EndedIsDead' /\ RotationFits' /\ Apart'
  BY <1>1, <1>5, <1>6 DEF TokenInv, LastLives, EndedIsDead, RotationFits, Apart
<1>. QED BY <1>7, <1>8 DEF TokenInv

LEMMA TokensInductive == Accounts!Spec => []TokenInv
<1>1. Accounts!Init => TokenInv
  BY DEF Accounts!Init, TokenInv, TokensTyped, LastLives, EndedIsDead, RotationFits,
         Apart, Calls, Accounts!Idle, OnToken
<1>2. TokenInv /\ [Accounts!Next]_(Accounts!vars) => TokenInv'
  <2>. SUFFICES ASSUME TokenInv, [Accounts!Next]_(Accounts!vars) PROVE TokenInv'
    OBVIOUS
  <2>1. CASE UNCHANGED <<token, session, ended, forked>>
    BY <2>1 DEF TokenInv, TokensTyped, LastLives, EndedIsDead, RotationFits, Apart, LoginOf
  <2>2. CASE \E r \in Slot, u \in Holder : Accounts!Login(r, u)
    BY <2>2, LoginStep
  <2>3. CASE \E r \in Slot : Accounts!Issue(r) \/ Accounts!Revoke(r) \/ Accounts!Rotate(r) \/ Accounts!Abort(r)
    BY <2>3, IssueStep, RevokeStep, RotateStep, AbortStep
  <2>4. CASE \E r \in Slot, t \in DOMAIN token : Accounts!Verify(r, t)
    BY <2>4, VerifyStep
  <2>5. CASE \E t \in DOMAIN token : Accounts!Logout(t)
    BY <2>5, LogoutStep
  <2>6. CASE Accounts!Flush
    BY <2>6, FlushStep
  <2>7. CASE \E u \in Holder, to \in Accounts!Standings : Accounts!Administer(u, to)
    BY <2>1, <2>7 DEF Accounts!Administer
  <2>. QED BY <2>1, <2>2, <2>3, <2>4, <2>5, <2>6, <2>7 DEF Accounts!Next, Accounts!vars
<1>. QED BY <1>1, <1>2, PTL DEF Accounts!Spec

\* Cardinality as Accounts sees it.
LEMMA SameCardinality ==
    \A S : /\ Accounts!Cardinality(S) = Cardinality(S)
           /\ Quota!Cardinality(S) = Cardinality(S)
           /\ MasterData!Cardinality(S) = Cardinality(S)
  BY DEF Accounts!Cardinality, Quota!Cardinality, MasterData!Cardinality, Cardinality

\* AuthService: where no two refreshes shared a token, a login has one live
\* refresh token at most, and none after a logout that named it with no refresh
\* under way, whichever of the steps in Redis a failure separates.
LEMMA OneTokenLives == Accounts!Spec => []Accounts!OneTokenPerLogin
<1>1. TokenInv => Accounts!OneTokenPerLogin
  <2>. SUFFICES ASSUME TokenInv, NEW l \in (1 .. Len(token)) \ forked
                PROVE  Cardinality({t \in DOMAIN token : token[t].login = l /\ token[t].live})
                          <= IF l \in ended THEN 0 ELSE 1
    BY SameCardinality DEF Accounts!OneTokenPerLogin
  <2>. DEFINE live == {t \in DOMAIN token : token[t].login = l /\ token[t].live}
  <2>. SUFFICES Cardinality(live) <= IF l \in ended THEN 0 ELSE 1
    OBVIOUS
  <2>1. CASE live = {}
    <3>1. Cardinality(live) = 0
      BY <2>1, FS_EmptySet
    <3>. HIDE DEF live
    <3>. QED BY <3>1
  <2>2. CASE live # {}
    <3>1. PICK t : t \in live
      BY <2>2
    <3>2. l \notin ended
      BY <3>1 DEF TokenInv, EndedIsDead
    <3>3. \A s \in live : ~(s < t) /\ ~(t < s)
      BY <3>1 DEF TokenInv, LastLives
    <3>4. live \subseteq Nat
      BY DEF TokenInv, TokensTyped
    <3>5. live = {t}
      BY <3>1, <3>3, <3>4
    <3>6. Cardinality(live) = 1
      BY <3>5, FS_Singleton
    <3>. HIDE DEF live
    <3>. QED BY <3>2, <3>6
  <2>. QED BY <2>1, <2>2
<1>. QED BY <1>1, TokensInductive, PTL

-----------------------------------------------------------------------------

(* UserAdmin                                                                *)

\* What a request that is about to commit has read and decided.
Decided(c, rows) ==
    /\ c.by \in User /\ c.on \in User
    /\ c.seen \in UserAdmin!UserRow /\ c.row \in UserAdmin!UserRow
    /\ c.by = c.on => c.row.active /\ c.row.deleted = c.seen.deleted
    /\ c.seen.known => ~c.seen.deleted /\ rows[c.on].known
    /\ ~c.seen.known => c.seen = UserAdmin!NoRow /\ c.row.active /\ ~c.row.deleted

AdminInv ==
    /\ user \in [User -> UserAdmin!UserRow]
    /\ \A u \in User : ~user[u].known => user[u] = UserAdmin!NoRow
    /\ DOMAIN administering = Administrator
    /\ \A r \in Administrator :
          \/ administering[r] = UserAdmin!Idle
          \/ administering[r].op = "save" /\ Decided(administering[r], user)

LEMMA AdministersIf ==
    \A row : UserAdmin!Administers(row) <=>
                row.known /\ ~row.deleted /\ row.active /\ "ADMIN" \in row.roles
<1>1. UserAdmin!Users["update"] = {"ADMIN"}
  BY DEF UserAdmin!Users, UserAdmin!Give, UserAdmin!Read, UserAdmin!Write
<1>. QED BY <1>1 DEF UserAdmin!Administers, UserAdmin!Found, UserAdmin!May, UserAdmin!Anyone

\* A request has decided, on rows that nobody changes at that moment.
LEMMA BeginsFit ==
    ASSUME AdminInv, NEW r \in Administrator, NEW by \in User, NEW on \in User,
           NEW row \in UserAdmin!UserRow, UserAdmin!Begin(r, by, on, row),
           by = on => row.active /\ row.deleted = user[on].deleted,
           user[on].known => ~user[on].deleted,
           ~user[on].known => row.active /\ ~row.deleted
    PROVE  AdminInv'
<1>. DEFINE c == [op |-> "save", by |-> by, on |-> on, seen |-> user[on], row |-> row]
<1>1. administering' = [administering EXCEPT ![r] = c] /\ user' = user
  BY DEF UserAdmin!Begin
<1>2. c.op = "save" /\ Decided(c, user)
  BY DEF AdminInv, Decided
<1>. HIDE DEF c
<1>3. /\ DOMAIN administering' = Administrator
      /\ administering'[r] = c
      /\ \A s \in Administrator \ {r} : administering'[s] = administering[s]
  BY <1>1 DEF AdminInv
<1>4. \A s \in Administrator :
          \/ administering'[s] = UserAdmin!Idle
          \/ administering'[s].op = "save" /\ Decided(administering'[s], user')
  BY <1>1, <1>2, <1>3 DEF AdminInv
<1>. QED BY <1>1, <1>3, <1>4 DEF AdminInv

\* A request that ends.
LEMMA EndsFit ==
    ASSUME AdminInv, NEW r \in Administrator, UserAdmin!End(r),
           user' \in [User -> UserAdmin!UserRow],
           \A u \in User : user'[u] = user[u] \/ user'[u].known
    PROVE  AdminInv'
<1>1. /\ DOMAIN administering' = Administrator
      /\ administering'[r] = UserAdmin!Idle
      /\ \A s \in Administrator \ {r} : administering'[s] = administering[s]
  BY DEF UserAdmin!End, AdminInv
<1>2. \A d : Decided(d, user) => Decided(d, user')
  BY DEF Decided
<1>3. \A s \in Administrator :
          \/ administering'[s] = UserAdmin!Idle
          \/ administering'[s].op = "save" /\ Decided(administering'[s], user')
  BY <1>1, <1>2 DEF AdminInv
<1>4. \A u \in User : ~user'[u].known => user'[u] = UserAdmin!NoRow
  BY DEF AdminInv
<1>. QED BY <1>1, <1>3, <1>4 DEF AdminInv

\* The row that a commit leaves behind.
LEMMA SaveFacts ==
    ASSUME AdminInv, NEW r \in Administrator, UserAdmin!Save(r)
    PROVE  LET c == administering[r] IN
           /\ Decided(c, user)
           /\ UserAdmin!Merged(user[c.on], c) \in UserAdmin!UserRow
           /\ UserAdmin!Merged(user[c.on], c).known
           /\ user' \in [User -> UserAdmin!UserRow]
           /\ user'[c.on] = UserAdmin!Merged(user[c.on], c)
           /\ \A u \in User \ {c.on} : user'[u] = user[u]
           /\ ~c.seen.known => ~user[c.on].known
<1>. DEFINE c == administering[r]
            now == user[c.on]
            m == UserAdmin!Merged(now, c)
<1>1. Decided(c, user)
  BY DEF UserAdmin!Save, UserAdmin!Idle, AdminInv
<1>2. user' = [user EXCEPT ![c.on] = m] /\ (~c.seen.known => ~now.known)
  BY DEF UserAdmin!Save
<1>3. now \in UserAdmin!UserRow /\ c.seen \in UserAdmin!UserRow /\ c.row \in UserAdmin!UserRow
  BY <1>1 DEF Decided, AdminInv
<1>4. m \in UserAdmin!UserRow /\ m.known
  <2>. DEFINE active == IF c.row.active = c.seen.active THEN now.active ELSE c.row.active
              deleted == IF c.row.deleted = c.seen.deleted THEN now.deleted ELSE c.row.deleted
              roles == (now.roles \ (c.seen.roles \ c.row.roles)) \cup (c.row.roles \ c.seen.roles)
  <2>1. m = [known |-> TRUE, active |-> active, deleted |-> deleted, roles |-> roles]
    BY DEF UserAdmin!Merged
  <2>2. active \in BOOLEAN /\ deleted \in BOOLEAN
    BY <1>3 DEF UserAdmin!UserRow
  <2>3. roles \in SUBSET UserAdmin!Role
    BY <1>3 DEF UserAdmin!UserRow
  <2>. HIDE DEF m, active, deleted, roles
  <2>. QED BY <2>1, <2>2, <2>3 DEF UserAdmin!UserRow
<1>5. c.on \in User
  BY <1>1 DEF Decided
<1>. HIDE DEF m, now, c
<1>6. /\ user' \in [User -> UserAdmin!UserRow]
      /\ user'[c.on] = m
      /\ \A u \in User \ {c.on} : user'[u] = user[u]
  BY <1>2, <1>4, <1>5 DEF AdminInv
<1>. QED BY <1>1, <1>2, <1>4, <1>6 DEF m, now, c

LEMMA AdminInductive ==
    ASSUME Grants \subseteq SUBSET UserAdmin!Role
    PROVE  UserAdmin!Spec => []AdminInv
<1>1. UserAdmin!Init => AdminInv
  BY DEF UserAdmin!Init, UserAdmin!NewRow, UserAdmin!NoRow, UserAdmin!UserRow, UserAdmin!Role,
         AdminInv
<1>2. ASSUME AdminInv, NEW r \in Administrator, NEW by \in User, NEW on \in User,
             UserAdmin!DeleteUser(r, by, on)
      PROVE  AdminInv'
  <2>1. user[on] \in UserAdmin!UserRow
    BY <1>2 DEF AdminInv
  <2>2. [user[on] EXCEPT !.active = FALSE, !.deleted = TRUE] \in UserAdmin!UserRow
    BY <2>1 DEF UserAdmin!UserRow
  <2>. QED BY <1>2, <2>2, BeginsFit
           DEF UserAdmin!DeleteUser, UserAdmin!NotSelf, UserAdmin!Found
<1>3. ASSUME AdminInv, NEW r \in Administrator, NEW by \in User, NEW on \in User,
             NEW roles \in Grants, UserAdmin!CreateUser(r, by, on, roles)
      PROVE  AdminInv'
  <2>1. UserAdmin!NewRow(roles) \in UserAdmin!UserRow
    BY DEF UserAdmin!NewRow, UserAdmin!UserRow
  <2>2. by # on
    BY <1>3, AdministersIf DEF UserAdmin!CreateUser, UserAdmin!Begin
  <2>3. UserAdmin!NewRow(roles).active /\ ~UserAdmin!NewRow(roles).deleted
    BY DEF UserAdmin!NewRow
  <2>. QED BY <1>3, <2>1, <2>2, <2>3, BeginsFit DEF UserAdmin!CreateUser
<1>4. ASSUME AdminInv, NEW r \in Administrator, NEW by \in User, NEW on \in User,
             NEW roles \in Grants \cup {user[on].roles}, NEW active \in BOOLEAN,
             UserAdmin!UpdateUser(r, by, on, active, roles)
      PROVE  AdminInv'
  <2>. DEFINE row == [user[on] EXCEPT !.active = active, !.roles = roles]
  <2>1. user[on] \in UserAdmin!UserRow
    BY <1>4 DEF AdminInv
  <2>2. roles \in SUBSET UserAdmin!Role
    BY <2>1 DEF UserAdmin!UserRow
  <2>3. row \in UserAdmin!UserRow /\ row.active = active /\ row.deleted = user[on].deleted
    BY <2>1, <2>2 DEF UserAdmin!UserRow
  <2>4. /\ UserAdmin!Begin(r, by, on, row)
        /\ ~active => by # on
        /\ user[on].known /\ ~user[on].deleted
    BY <1>4 DEF UserAdmin!UpdateUser, UserAdmin!NotSelf, UserAdmin!Found
  <2>. HIDE DEF row
  <2>. QED BY <1>4, <2>3, <2>4, BeginsFit
<1>5. ASSUME AdminInv, NEW r \in Administrator, UserAdmin!Save(r) PROVE AdminInv'
  BY <1>5, SaveFacts, EndsFit DEF UserAdmin!Save
<1>6. ASSUME AdminInv, NEW r \in Administrator, UserAdmin!Abort(r) PROVE AdminInv'
  <2>1. user' = user /\ UserAdmin!End(r) /\ user \in [User -> UserAdmin!UserRow]
    BY <1>6 DEF UserAdmin!Abort, AdminInv
  <2>. QED BY <1>6, <2>1, EndsFit
<1>7. AdminInv /\ UNCHANGED UserAdmin!vars => AdminInv'
  BY DEF AdminInv, Decided, UserAdmin!vars
<1>8. AdminInv /\ [UserAdmin!Next]_(UserAdmin!vars) => AdminInv'
  BY <1>2, <1>3, <1>4, <1>5, <1>6, <1>7 DEF UserAdmin!Next
<1>. QED BY <1>1, <1>8, PTL DEF UserAdmin!Spec

\* Only a commit changes a row.
LEMMA OnlySaves ==
    ASSUME [UserAdmin!Next]_(UserAdmin!vars), user' # user
    PROVE  \E r \in Administrator : UserAdmin!Save(r)
  BY DEF UserAdmin!Next, UserAdmin!vars, UserAdmin!Abort, UserAdmin!DeleteUser,
         UserAdmin!CreateUser, UserAdmin!UpdateUser, UserAdmin!Begin

\* routers/users.py: the caller of a request that commits, if he still
\* administers the users and does not give up the role, does so after it.
LEMMA CallerStays ==
    ASSUME AdminInv, NEW r \in Administrator, UserAdmin!Save(r),
           UserAdmin!Administers(user[administering[r].by]),
           ~UserAdmin!GivesUpRole(administering[r])
    PROVE  UserAdmin!SomeoneAdministers'
<1>. DEFINE c == administering[r]
            now == user[c.on]
            m == UserAdmin!Merged(now, c)
<1>1. /\ Decided(c, user)
      /\ user'[c.on] = m
      /\ \A u \in User \ {c.on} : user'[u] = user[u]
  BY SaveFacts
<1>2. c.by \in User
  BY <1>1 DEF Decided
<1>3. CASE c.by # c.on
  <2>1. UserAdmin!Administers(user'[c.by])
    BY <1>1, <1>2, <1>3
  <2>. QED BY <1>2, <2>1 DEF UserAdmin!SomeoneAdministers
<1>4. CASE c.by = c.on
  <2>1. now.known /\ ~now.deleted /\ now.active /\ "ADMIN" \in now.roles
    BY <1>4, AdministersIf
  <2>2. c.row.active /\ c.row.deleted = c.seen.deleted /\ "ADMIN" \in c.row.roles
    BY <1>1, <1>4 DEF Decided, UserAdmin!GivesUpRole
  <2>. HIDE DEF now, c
  <2>3. m.known /\ ~m.deleted /\ m.active /\ "ADMIN" \in m.roles
    BY <2>1, <2>2 DEF UserAdmin!Merged
  <2>. HIDE DEF m
  <2>4. UserAdmin!Administers(user'[c.by])
    BY <1>1, <1>4, <2>3, AdministersIf
  <2>. QED BY <1>2, <2>4 DEF UserAdmin!SomeoneAdministers
<1>. QED BY <1>3, <1>4

LEMMA LastOneGoes ==
    ASSUME Grants \subseteq SUBSET UserAdmin!Role
    PROVE  UserAdmin!Spec => UserAdmin!LastAdministrator
<1>1. AdminInv /\ [UserAdmin!Next]_(UserAdmin!vars) => [UserAdmin!LastGoes]_(UserAdmin!vars)
  <2>. SUFFICES ASSUME AdminInv, [UserAdmin!Next]_(UserAdmin!vars),
                       UserAdmin!SomeoneAdministers, ~UserAdmin!SomeoneAdministers'
                PROVE  \E r \in Administrator :
                          /\ UserAdmin!Save(r)
                          /\ \/ UserAdmin!GivesUpRole(administering[r])
                             \/ ~UserAdmin!Administers(user[administering[r].by])
    BY DEF UserAdmin!LastGoes
  <2>1. user' # user
    BY DEF UserAdmin!SomeoneAdministers
  <2>. QED BY <2>1, OnlySaves, CallerStays
<1>. QED BY <1>1, AdminInductive, PTL DEF UserAdmin!Spec, UserAdmin!LastAdministrator

\* A row stands, and moves, as Accounts takes for granted.
LEMMA StandingsFit ==
    ASSUME Grants \subseteq SUBSET UserAdmin!Role
    PROVE  UserAdmin!Spec => UserAdmin!StandingsMove
<1>. DEFINE Fits(now, next) == now = next \/ <<now, next>> \in UserAdmin!AccountMoves
<1>1. ASSUME AdminInv, NEW r \in Administrator, UserAdmin!Save(r), NEW u \in User
      PROVE  Fits(UserAdmin!Standing(user[u]), UserAdmin!Standing(user'[u]))
  <2>. DEFINE c == administering[r]
              now == user[c.on]
              m == UserAdmin!Merged(now, c)
  <2>1. /\ Decided(c, user)
        /\ user'[c.on] = m /\ m \in UserAdmin!UserRow
        /\ \A v \in User \ {c.on} : user'[v] = user[v]
        /\ ~c.seen.known => ~now.known
    BY <1>1, SaveFacts
  <2>2. CASE u # c.on
    BY <2>1, <2>2
  <2>3. CASE u = c.on
    <3>1. /\ now \in UserAdmin!UserRow /\ c.seen \in UserAdmin!UserRow
          /\ c.row \in UserAdmin!UserRow
          /\ ~now.known => now = UserAdmin!NoRow
      BY <1>1, <2>1 DEF Decided, AdminInv
    <3>2. CASE c.seen.known
      <4>1. now.known /\ ~c.seen.deleted
        BY <2>1, <3>2 DEF Decided
      <4>. HIDE DEF now, c
      <4>2. m.known /\ (now.deleted => m.deleted)
        BY <3>1, <4>1 DEF UserAdmin!Merged, UserAdmin!UserRow
      <4>. HIDE DEF m
      <4>3. Fits(UserAdmin!Standing(now), UserAdmin!Standing(m))
        BY <4>1, <4>2 DEF UserAdmin!Standing, UserAdmin!AccountMoves
      <4>. QED BY <2>1, <2>3, <4>3 DEF now
    <3>3. CASE ~c.seen.known
      <4>1. /\ now = UserAdmin!NoRow /\ c.seen = UserAdmin!NoRow
            /\ c.row.active /\ ~c.row.deleted
        BY <2>1, <3>1, <3>3 DEF Decided
      <4>. HIDE DEF now, c
      <4>2. m.known /\ ~m.deleted /\ m.active /\ ~now.known
        BY <3>1, <4>1 DEF UserAdmin!Merged, UserAdmin!NoRow, UserAdmin!UserRow
      <4>. HIDE DEF m
      <4>3. Fits(UserAdmin!Standing(now), UserAdmin!Standing(m))
        BY <4>2 DEF UserAdmin!Standing, UserAdmin!AccountMoves
      <4>. QED BY <2>1, <2>3, <4>3 DEF now
    <3>. QED BY <3>2, <3>3
  <2>. QED BY <2>2, <2>3
<1>2. AdminInv /\ [UserAdmin!Next]_(UserAdmin!vars) =>
          [\A u \in User : LET now == UserAdmin!Standing(user[u])
                               next == UserAdmin!Standing(user'[u])
                           IN  now = next \/ <<now, next>> \in UserAdmin!AccountMoves]_user
  BY <1>1, OnlySaves
<1>. QED BY <1>2, AdminInductive, PTL DEF UserAdmin!Spec, UserAdmin!StandingsMove

-----------------------------------------------------------------------------
(* Numbers                                                                  *)

\* Requests that saw the tables as they were left by the last disturbance.
Fresh(r) == Numbers!InFlight(r) /\ drawing[r].side # "before"

\* A request that waited for the others is alone with those that began since.
AfterIsAlone ==
    \A r, s \in Drawer :
        Numbers!InFlight(r) /\ drawing[r].side = "after" /\ Numbers!InFlight(s) => drawing[s].side # "before"

\* Since the last disturbance the counter has only risen.
DrawnSince ==
    \A r \in Drawer : Fresh(r) /\ Numbers!Drawn(r) =>
        /\ drawing[r].number <= number
        /\ \A s \in Drawer \ {r} : Fresh(s) /\ Numbers!Drawn(s) => drawing[s].number # drawing[r].number

\* What the seed of such a request misses, the counter has passed.
SeedCovers ==
    \A r \in Drawer : drawing[r].at = "begun" /\ drawing[r].side = "after" =>
        \A d \in docs : d <= drawing[r].seed \/ d <= number

NotTaken ==
    \A r \in Drawer : Numbers!Drawn(r) /\ drawing[r].side = "after" => drawing[r].number \notin docs

NumbersInv == Numbers!TypeOK /\ AfterIsAlone /\ DrawnSince /\ SeedCovers /\ NotTaken

-----------------------------------------------------------------------------

LEMMA NumbersTypeStep ==
    ASSUME Numbers!TypeOK, [Numbers!Next]_(Numbers!vars)
    PROVE  Numbers!TypeOK'
<1>. USE DEF Numbers!TypeOK, Numbers!Held, Numbers!Side, Numbers!Idle
<1>1. CASE UNCHANGED Numbers!vars
  BY <1>1 DEF Numbers!vars
<1>2. ASSUME NEW r \in Drawer, Numbers!Begin(r) PROVE Numbers!TypeOK'
  BY <1>2 DEF Numbers!Begin, Numbers!Seeds
<1>3. ASSUME NEW r \in Drawer, Numbers!Draw(r) PROVE Numbers!TypeOK'
  <2>1. drawing[r] \in Numbers!Held
    BY <1>3 DEF Numbers!Draw
  <2>2. number' \in Nat
    BY <1>3, <2>1 DEF Numbers!Draw, Numbers!Floor
  <2>. QED BY <1>3, <2>1, <2>2 DEF Numbers!Draw
<1>4. ASSUME NEW r \in Drawer, Numbers!Commit(r) PROVE Numbers!TypeOK'
  <2>1. drawing[r] \in Numbers!Held
    BY <1>4 DEF Numbers!Commit, Numbers!Drawn
  <2>. QED BY <1>4, <2>1 DEF Numbers!Commit
<1>5. ASSUME NEW r \in Drawer, Numbers!Rollback(r) PROVE Numbers!TypeOK'
  BY <1>5 DEF Numbers!Rollback
<1>6. ASSUME Numbers!Disturb PROVE drawing' \in [Drawer -> Numbers!Held \cup {Numbers!Idle}]
  BY <1>6 DEF Numbers!Disturb, Numbers!InFlight
<1>7. CASE Numbers!LoseRedis
  BY <1>6, <1>7 DEF Numbers!LoseRedis
<1>8. ASSUME NEW n \in Numbers!Number, Numbers!OutOfBand(n) PROVE Numbers!TypeOK'
  BY <1>6, <1>8 DEF Numbers!OutOfBand, Numbers!Number
<1>9. CASE Numbers!Wipe
  BY <1>6, <1>9 DEF Numbers!Wipe
<1>. QED
  BY <1>1, <1>2, <1>3, <1>4, <1>5, <1>7, <1>8, <1>9 DEF Numbers!Next

\* After a disturbance nobody in flight is "after" or fresh.
LEMMA DisturbStep ==
    ASSUME Numbers!TypeOK, Numbers!TypeOK', Numbers!Disturb
    PROVE  (AfterIsAlone /\ DrawnSince /\ SeedCovers /\ NotTaken)'
<1>1. \A r \in Drawer : (Numbers!InFlight(r) => drawing[r].side = "before")'
  BY DEF Numbers!Disturb, Numbers!InFlight, Numbers!TypeOK, Numbers!Held, Numbers!Side,
         Numbers!Idle
<1>2. \A r \in Drawer : drawing'[r].at \in {"begun", "drawn"} => drawing'[r].side = "before"
  BY <1>1, Zenon DEF Numbers!InFlight
<1>. QED
  BY <1>1, <1>2 DEF AfterIsAlone, DrawnSince, SeedCovers, NotTaken, Fresh, Numbers!Drawn,
                    Numbers!InFlight

LEMMA BeginDrawing ==
    ASSUME NumbersInv, Numbers!TypeOK', NEW r \in Drawer, Numbers!Begin(r)
    PROVE  NumbersInv'
<1>. USE DEF NumbersInv, Numbers!TypeOK, Numbers!Held, Numbers!Side
<1>1. PICK n \in Numbers!Seeds : drawing' =
        [drawing EXCEPT ![r] = [at |-> "begun", seed |-> n, row |-> sequenceRow, number |-> 0,
            side |-> IF \E s \in Drawer : Numbers!InFlight(s) /\ drawing[s].side = "before"
                     THEN "beside" ELSE "after"]]
  BY DEF Numbers!Begin
<1>2. \A s \in Drawer \ {r} : drawing'[s] = drawing[s]
  BY <1>1
<1>3. /\ drawing'[r].at = "begun" /\ drawing'[r].seed = n
      /\ drawing'[r].side \in {"beside", "after"}
      /\ drawing'[r].side = "after" =>
            \A s \in Drawer : Numbers!InFlight(s) => drawing[s].side # "before"
  BY <1>1
<1>4. number' = number /\ docs' = docs /\ \A d \in docs : d <= n
  BY DEF Numbers!Begin, Numbers!Seeds
<1>5. AfterIsAlone'
  BY <1>2, <1>3 DEF AfterIsAlone, Numbers!InFlight
<1>6. DrawnSince'
  BY <1>2, <1>3, <1>4 DEF DrawnSince, Fresh, Numbers!Drawn, Numbers!InFlight
<1>7. SeedCovers'
  BY <1>2, <1>3, <1>4 DEF SeedCovers
<1>8. NotTaken'
  BY <1>2, <1>3, <1>4 DEF NotTaken, Numbers!Drawn
<1>. QED BY <1>5, <1>6, <1>7, <1>8

LEMMA DrawStep ==
    ASSUME NumbersInv, Numbers!TypeOK', NEW r \in Drawer, Numbers!Draw(r)
    PROVE  NumbersInv'
<1>. USE DEF NumbersInv, Numbers!TypeOK, Numbers!Held, Numbers!Side
<1>1. drawing[r] \in Numbers!Held /\ drawing[r].at = "begun"
  BY DEF Numbers!Draw, Numbers!Idle
<1>2. /\ number' > number /\ number' > drawing[r].seed
      /\ docs' = docs
  BY <1>1 DEF Numbers!Draw, Numbers!Floor
<1>3. /\ \A s \in Drawer \ {r} : drawing'[s] = drawing[s]
      /\ drawing'[r].at = "drawn" /\ drawing'[r].number = number'
      /\ drawing'[r].side = drawing[r].side
  BY <1>1 DEF Numbers!Draw
<1>4. AfterIsAlone'
  BY <1>1, <1>3 DEF AfterIsAlone, Numbers!InFlight
<1>5. \A s \in Drawer : Numbers!Drawn(s) => drawing[s].number \in Nat
  BY DEF Numbers!Drawn, Numbers!Idle
<1>6. DrawnSince'
  BY <1>1, <1>2, <1>3, <1>5 DEF DrawnSince, Fresh, Numbers!Drawn, Numbers!InFlight
<1>7. SeedCovers'
  <2>. SUFFICES ASSUME NEW s \in Drawer, (drawing[s].at = "begun" /\ drawing[s].side = "after")',
                       NEW d \in docs
                PROVE  d <= drawing'[s].seed \/ d <= number'
    BY <1>2 DEF SeedCovers
  <2>1. s # r /\ drawing'[s] = drawing[s]
    BY <1>3
  <2>. QED BY <1>2, <2>1 DEF SeedCovers
<1>8. NotTaken'
  <2>. SUFFICES ASSUME NEW s \in Drawer, (Numbers!Drawn(s) /\ drawing[s].side = "after")'
                PROVE  drawing'[s].number \notin docs
    BY <1>2 DEF NotTaken
  <2>1. CASE s = r
    BY <1>1, <1>2, <1>3, <2>1 DEF SeedCovers
  <2>2. CASE s # r
    BY <1>3, <2>2 DEF NotTaken, Numbers!Drawn
  <2>. QED BY <2>1, <2>2
<1>. QED BY <1>4, <1>6, <1>7, <1>8

\* The request is gone, and its number has perhaps become a document's.
LEMMA EndDrawing ==
    ASSUME NumbersInv, Numbers!TypeOK', NEW r \in Drawer, Numbers!Commit(r) \/ Numbers!Rollback(r)
    PROVE  NumbersInv'
<1>. USE DEF NumbersInv, Numbers!TypeOK, Numbers!Held, Numbers!Side
<1>1. /\ \A s \in Drawer \ {r} : drawing'[s] = drawing[s]
      /\ drawing'[r] = Numbers!Idle
      /\ number' = number
      /\ Numbers!InFlight(r)
  BY DEF Numbers!Commit, Numbers!Rollback, Numbers!Drawn, Numbers!InFlight
<1>2. docs' = docs \/ (Numbers!Drawn(r) /\ docs' = docs \cup {drawing[r].number})
  BY DEF Numbers!Commit, Numbers!Rollback
<1>3. ~Numbers!InFlight(r)' /\ ~Numbers!Drawn(r)' /\ drawing'[r].at # "begun"
  BY <1>1 DEF Numbers!InFlight, Numbers!Drawn, Numbers!Idle
<1>4. AfterIsAlone'
  BY <1>1, <1>3 DEF AfterIsAlone, Numbers!InFlight
<1>5. DrawnSince'
  BY <1>1, <1>3 DEF DrawnSince, Fresh, Numbers!Drawn, Numbers!InFlight
<1>6. ASSUME NEW s \in Drawer \ {r}, Numbers!InFlight(s), drawing[s].side = "after", Numbers!Drawn(r)
      PROVE  Fresh(r) /\ drawing[r].number <= number
  BY <1>1, <1>6 DEF AfterIsAlone, DrawnSince, Fresh
<1>7. SeedCovers'
  <2>. SUFFICES ASSUME NEW s \in Drawer, (drawing[s].at = "begun" /\ drawing[s].side = "after")',
                       NEW d \in docs'
                PROVE  d <= drawing[s].seed \/ d <= number
    BY <1>1, <1>3 DEF SeedCovers
  <2>1. s # r /\ drawing'[s] = drawing[s]
    BY <1>1, <1>3
  <2>2. Numbers!InFlight(s)
    BY <2>1 DEF Numbers!InFlight
  <2>. QED BY <1>2, <1>6, <2>1, <2>2 DEF SeedCovers
<1>8. NotTaken'
  <2>. SUFFICES ASSUME NEW s \in Drawer, (Numbers!Drawn(s) /\ drawing[s].side = "after")'
                PROVE  drawing[s].number \notin docs'
    BY <1>1, <1>3 DEF NotTaken
  <2>1. s # r /\ drawing'[s] = drawing[s]
    BY <1>1, <1>3
  <2>2. Numbers!Drawn(s) /\ Numbers!InFlight(s)
    BY <2>1 DEF Numbers!Drawn, Numbers!InFlight
  <2>. QED BY <1>2, <1>6, <2>1, <2>2 DEF NotTaken, DrawnSince, Fresh
<1>. QED BY <1>4, <1>5, <1>7, <1>8

LEMMA NumbersInductive == Numbers!Spec => []NumbersInv
<1>1. Numbers!Init => NumbersInv
  BY DEF Numbers!Init, NumbersInv, Numbers!TypeOK, Numbers!Held, Numbers!Side,
         Numbers!Idle, AfterIsAlone, DrawnSince, SeedCovers,
         NotTaken, Numbers!Drawn, Numbers!InFlight
<1>2. NumbersInv /\ [Numbers!Next]_(Numbers!vars) => NumbersInv'
  <2>. SUFFICES ASSUME NumbersInv, [Numbers!Next]_(Numbers!vars) PROVE NumbersInv'
    OBVIOUS
  <2>1. Numbers!TypeOK'
    BY NumbersTypeStep DEF NumbersInv
  <2>2. CASE UNCHANGED Numbers!vars
    BY <2>2 DEF Numbers!vars, NumbersInv, Numbers!TypeOK, AfterIsAlone, DrawnSince,
                SeedCovers, NotTaken,
                Fresh, Numbers!Drawn, Numbers!InFlight
  <2>3. CASE \E r \in Drawer : Numbers!Begin(r)
    BY <2>1, <2>3, BeginDrawing
  <2>4. CASE \E r \in Drawer : Numbers!Draw(r)
    BY <2>1, <2>4, DrawStep
  <2>5. CASE \E r \in Drawer : Numbers!Commit(r) \/ Numbers!Rollback(r)
    BY <2>1, <2>5, EndDrawing
  <2>6. CASE Numbers!LoseRedis \/ Numbers!Wipe \/ \E n \in Numbers!Number : Numbers!OutOfBand(n)
    BY <2>1, <2>6, DisturbStep DEF Numbers!LoseRedis, Numbers!Wipe, Numbers!OutOfBand,
                                   NumbersInv
  <2>. QED BY <2>2, <2>3, <2>4, <2>5, <2>6 DEF Numbers!Next
<1>. QED BY <1>1, <1>2, PTL DEF Numbers!Spec

\* next_document_no: whatever Redis loses, whatever is inserted or deleted
\* behind its back and whichever requests fail, a request that began after the
\* dust had settled draws a number that nobody else has.
LEMMA FreshDraws == Numbers!Spec => []Numbers!NumbersFresh
<1>1. NumbersInv => Numbers!NumbersFresh
  <2>. SUFFICES ASSUME NumbersInv, NEW r \in Drawer, Numbers!Drawn(r), drawing[r].side = "after"
                PROVE  /\ drawing[r].number \notin docs
                       /\ \A s \in Drawer \ {r} :
                             Numbers!Drawn(s) => drawing[s].number # drawing[r].number
    BY DEF Numbers!NumbersFresh
  <2>1. drawing[r].number \notin docs
    BY DEF NumbersInv, NotTaken
  <2>2. Fresh(r) /\ \A s \in Drawer : Numbers!Drawn(s) => Fresh(s)
    BY DEF NumbersInv, AfterIsAlone, Fresh, Numbers!Drawn, Numbers!InFlight
  <2>. QED BY <2>1, <2>2 DEF NumbersInv, DrawnSince
<1>. QED BY <1>1, NumbersInductive, PTL

-----------------------------------------------------------------------------
(* Quota                                                                    *)

ScansTyped == scanning \in [Scanner -> [at : Quota!At, today : BOOLEAN]]

CountsTyped == units \in Int /\ granted \in Nat /\ late \in Nat

\* Every unit that was handed out is in the counter, beside the increments that
\* will be taken back.
Counted == granted + Cardinality(Quota!Over) <= units + late

\* If Redis was lost under nobody's refusal, units are missing from the counter
\* only when all of them were handed out.
NoneWasted == late = 0 => granted = Limit \/ (granted = units /\ Quota!Over = {})

QuotaInv == ScansTyped /\ CountsTyped /\ Counted /\ granted <= Limit + late /\ NoneWasted

-----------------------------------------------------------------------------

\* The refusals of today are finitely many.
LEMMA OverFinite ==
    ASSUME IsFiniteSet(Scanner)
    PROVE  /\ IsFiniteSet(Quota!Over) /\ Cardinality(Quota!Over) \in Nat
           /\ Cardinality(Quota!Over) = 0 <=> Quota!Over = {}
<1>1. Quota!Over \subseteq Scanner
  BY DEF Quota!Over
<1>2. IsFiniteSet(Quota!Over)
  BY <1>1, FS_Subset
<1>. QED BY <1>2, FS_CardinalityType, FS_EmptySet

\* A step that leaves the counts alone and starts no refusal.
LEMMA ScanStep ==
    ASSUME IsFiniteSet(Scanner), QuotaInv, ScansTyped', Quota!Over' \subseteq Quota!Over,
           UNCHANGED <<units, granted, late>>
    PROVE  QuotaInv'
<1>1. IsFiniteSet(Quota!Over) /\ Cardinality(Quota!Over) \in Nat
  BY OverFinite
<1>2. Cardinality(Quota!Over') \in Nat /\ Cardinality(Quota!Over') <= Cardinality(Quota!Over)
  BY <1>1, FS_Subset, FS_CardinalityType
<1>3. Counted' /\ (granted <= Limit + late)'
  BY <1>1, <1>2 DEF QuotaInv, CountsTyped, Counted
<1>4. NoneWasted'
  BY DEF QuotaInv, NoneWasted
<1>. QED BY <1>3, <1>4 DEF QuotaInv, CountsTyped

LEMMA IncrementStep ==
    ASSUME IsFiniteSet(Scanner), Limit \in Nat, QuotaInv,
           NEW r \in Scanner, Quota!Increment(r)
    PROVE  QuotaInv'
<1>1. /\ scanning[r].at = "admitted" /\ r \notin Quota!Over
      /\ late' = late
  BY DEF Quota!Increment, Quota!Over
<1>2. IsFiniteSet(Quota!Over) /\ Cardinality(Quota!Over) \in Nat
  BY OverFinite
<1>3. PICK at \in {"over", "granted"} :
        /\ scanning' = [scanning EXCEPT ![r].at = at]
        /\ scanning[r].today =>
             /\ units' = units + 1
             /\ units' > Limit => at = "over" /\ granted' = granted
             /\ ~(units' > Limit) => at = "granted" /\ granted' = granted + 1
        /\ ~scanning[r].today => UNCHANGED <<units, granted>>
  <2>1. CASE scanning[r].today
    <3>1. units' > Limit \/ ~(units' > Limit)
      OBVIOUS
    <3>. QED BY <2>1, <3>1 DEF Quota!Increment, Quota!Goto
  <2>2. CASE ~scanning[r].today
    BY <2>2 DEF Quota!Increment, Quota!Goto
  <2>. QED BY <2>1, <2>2
<1>4. ScansTyped' /\ scanning'[r] = [scanning[r] EXCEPT !.at = at]
      /\ \A s \in Scanner \ {r} : scanning'[s] = scanning[s]
  BY <1>3 DEF QuotaInv, ScansTyped, Quota!At
<1>5. CASE ~scanning[r].today
  <2>1. Quota!Over' = Quota!Over
    BY <1>1, <1>4, <1>5 DEF Quota!Over, QuotaInv, ScansTyped
  <2>. QED BY <1>1, <1>3, <1>4, <1>5, <2>1, ScanStep
<1>6. CASE scanning[r].today /\ units' > Limit
  <2>1. Quota!Over' = Quota!Over \cup {r}
    BY <1>3, <1>4, <1>6 DEF Quota!Over, QuotaInv, ScansTyped
  <2>2. Cardinality(Quota!Over') = Cardinality(Quota!Over) + 1
    BY <1>1, <1>2, <2>1, FS_AddElement
  <2>3. units' = units + 1 /\ granted' = granted /\ units >= Limit
    BY <1>3, <1>6 DEF QuotaInv, CountsTyped
  <2>4. NoneWasted'
    BY <1>1, <2>3 DEF QuotaInv, CountsTyped, NoneWasted
  <2>. QED BY <1>1, <1>2, <1>4, <2>2, <2>3, <2>4 DEF QuotaInv, CountsTyped, Counted
<1>7. CASE scanning[r].today /\ ~(units' > Limit)
  <2>1. Quota!Over' = Quota!Over
    BY <1>1, <1>3, <1>4, <1>7 DEF Quota!Over, QuotaInv, ScansTyped
  <2>2. units' = units + 1 /\ granted' = granted + 1 /\ units + 1 <= Limit
    BY <1>3, <1>7 DEF QuotaInv, CountsTyped
  <2>3. NoneWasted'
    <3>1. CASE Quota!Over = {}
      BY <1>1, <1>2, <2>1, <2>2, <3>1, OverFinite
         DEF QuotaInv, CountsTyped, NoneWasted, Counted
    <3>2. CASE Quota!Over # {}
      BY <1>1, <1>2, <2>1, <2>2, <3>2, OverFinite
         DEF QuotaInv, CountsTyped, NoneWasted, Counted
    <3>. QED BY <3>1, <3>2
  <2>. QED BY <1>1, <1>2, <1>4, <2>1, <2>2, <2>3 DEF QuotaInv, CountsTyped, Counted
<1>. QED BY <1>5, <1>6, <1>7

LEMMA RefuseStep ==
    ASSUME IsFiniteSet(Scanner), Limit \in Nat, QuotaInv, NEW r \in Scanner, Quota!Refuse(r)
    PROVE  QuotaInv'
<1>1. /\ scanning[r].at = "over"
      /\ scanning' = [scanning EXCEPT ![r] = Quota!Idle]
      /\ UNCHANGED <<granted, late>>
  BY DEF Quota!Refuse, Quota!End
<1>2. IsFiniteSet(Quota!Over) /\ Cardinality(Quota!Over) \in Nat
  BY OverFinite
<1>3. ScansTyped' /\ scanning'[r] = Quota!Idle /\ \A s \in Scanner \ {r} : scanning'[s] = scanning[s]
  BY <1>1 DEF QuotaInv, ScansTyped, Quota!At, Quota!Idle
<1>4. Quota!Over' = Quota!Over \ {r}
  BY <1>3 DEF Quota!Over, Quota!Idle, QuotaInv, ScansTyped
<1>5. CASE ~scanning[r].today
  <2>1. units' = units /\ Quota!Over' \subseteq Quota!Over
    BY <1>4, <1>5 DEF Quota!Refuse
  <2>. QED BY <1>1, <1>3, <2>1, ScanStep
<1>6. CASE scanning[r].today
  <2>1. r \in Quota!Over /\ units' = units - 1
    BY <1>1, <1>6 DEF Quota!Over, Quota!Refuse
  <2>2. Cardinality(Quota!Over') = Cardinality(Quota!Over) - 1
    BY <1>2, <1>4, <2>1, FS_RemoveElement
  <2>3. NoneWasted'
    BY <1>1, <2>1 DEF QuotaInv, NoneWasted
  <2>. QED BY <1>1, <1>2, <1>3, <2>1, <2>2, <2>3 DEF QuotaInv, CountsTyped, Counted
<1>. QED BY <1>5, <1>6

\* The counts of a new key: nothing, but for the refusals that are under way.
LEMMA NewKeyStep ==
    ASSUME IsFiniteSet(Scanner), Limit \in Nat, ScansTyped',
           units' = 0, granted' = 0, late' = Cardinality(Quota!Over')
    PROVE  QuotaInv'
<1>1. Quota!Over' \subseteq Scanner
  BY DEF Quota!Over
<1>2. IsFiniteSet(Quota!Over') /\ Cardinality(Quota!Over') \in Nat
  BY <1>1, FS_Subset, FS_CardinalityType
<1>3. Cardinality(Quota!Over') = 0 => Quota!Over' = {}
  BY <1>2, FS_EmptySet
<1>. QED BY <1>2, <1>3 DEF QuotaInv, CountsTyped, Counted, NoneWasted

\* incr and decr of services/quota.py: whatever mixes, at midnight or when the
\* process dies between the two, the quota of the day is not exceeded and nobody
\* is refused before it was handed out.
LEMMA ExactUnits ==
    ASSUME IsFiniteSet(Scanner), Limit \in Nat
    PROVE  Quota!Spec => []Quota!QuotaExact
<1>1. Quota!Init => QuotaInv
  <2>. SUFFICES ASSUME Quota!Init PROVE QuotaInv
    OBVIOUS
  <2>1. ScansTyped /\ Quota!Over = {}
    BY DEF Quota!Init, ScansTyped, Quota!Over, Quota!Idle, Quota!At
  <2>2. Cardinality(Quota!Over) = 0
    BY <2>1, FS_EmptySet
  <2>. QED BY <2>1, <2>2 DEF Quota!Init, QuotaInv, CountsTyped, Counted, NoneWasted
<1>2. QuotaInv /\ [Quota!Next]_(Quota!vars) => QuotaInv'
  <2>. SUFFICES ASSUME QuotaInv, [Quota!Next]_(Quota!vars) PROVE QuotaInv'
    OBVIOUS
  <2>1. scanning \in [Scanner -> [at : Quota!At, today : BOOLEAN]]
    BY DEF QuotaInv, ScansTyped
  <2>2. CASE UNCHANGED <<units, granted, late, scanning>>
    BY <2>2, ScanStep DEF QuotaInv, ScansTyped, Quota!Over
  <2>3. ASSUME NEW r \in Scanner,
               \/ Quota!Admit(r) \/ Quota!Upload(r) \/ Quota!Ask(r) \/ Quota!Answer(r)
        PROVE  QuotaInv'
    <3>1. UNCHANGED <<units, granted, late>>
      BY <2>3 DEF Quota!Admit, Quota!Upload, Quota!Ask, Quota!Answer
    <3>2. ScansTyped' /\ Quota!Over' \subseteq Quota!Over
      <4>1. PICK c \in [at : Quota!At \ {"over"}, today : BOOLEAN] : scanning' = [scanning EXCEPT ![r] = c]
        <5>1. Quota!Idle \in [at : Quota!At \ {"over"}, today : BOOLEAN]
          BY DEF Quota!Idle, Quota!At
        <5>2. [at |-> "admitted", today |-> TRUE] \in [at : Quota!At \ {"over"}, today : BOOLEAN]
          BY DEF Quota!At
        <5>3. \A at \in {"uploaded", "asking"} :
                [scanning[r] EXCEPT !.at = at] \in [at : Quota!At \ {"over"}, today : BOOLEAN]
          BY <2>1 DEF Quota!At
        <5>. QED BY <2>1, <2>3, <5>1, <5>2, <5>3
                    DEF Quota!Admit, Quota!Upload, Quota!Ask, Quota!Answer, Quota!Goto,
                        Quota!End
      <4>. QED BY <2>1, <4>1 DEF ScansTyped, Quota!Over, Quota!At
    <3>. QED BY <3>1, <3>2, ScanStep
  <2>4. CASE Quota!Crash
    <3>1. ScansTyped' /\ Quota!Over' \subseteq Quota!Over /\ UNCHANGED <<units, granted, late>>
      BY <2>4 DEF Quota!Crash, ScansTyped, Quota!Over, Quota!Idle, Quota!At
    <3>. QED BY <3>1, ScanStep
  <2>5. CASE Quota!LoseRedis
    <3>1. ScansTyped' /\ Quota!Over' = Quota!Over
      BY <2>1, <2>5 DEF Quota!LoseRedis, ScansTyped, Quota!Over
    <3>. QED BY <2>5, <3>1, NewKeyStep, SameCardinality DEF Quota!LoseRedis
  <2>6. CASE Quota!Midnight
    <3>1. ScansTyped' /\ Quota!Over' = {}
      BY <2>1, <2>6 DEF Quota!Midnight, ScansTyped, Quota!Over
    <3>2. Cardinality(Quota!Over') = 0
      BY <3>1, FS_EmptySet
    <3>. QED BY <2>6, <3>1, <3>2, NewKeyStep DEF Quota!Midnight
  <2>7. CASE Quota!Switch
    BY <2>2, <2>7 DEF Quota!Switch
  <2>. QED BY <2>2, <2>3, <2>4, <2>5, <2>6, <2>7, IncrementStep, RefuseStep
              DEF Quota!Next, Quota!vars
<1>3. QuotaInv => Quota!QuotaExact
  <2>. SUFFICES ASSUME QuotaInv PROVE Quota!QuotaExact
    OBVIOUS
  <2>. QED BY DEF QuotaInv, NoneWasted, Quota!QuotaExact
<1>. QED BY <1>1, <1>2, <1>3, PTL DEF Quota!Spec

-----------------------------------------------------------------------------
(* Domain events                                                            *)

Task == [commit : Nat, do : {"cache", "notice", "notify"} \cup Events!Rows]
Entry(t) == <<t.commit, t.do>>

\* Queues q: a row is to be written by one handler at most.
QueueFits(q) ==
    /\ q \in [Writer -> Seq(Task)]
    /\ \A r, s \in Writer : \A i \in DOMAIN q[r], j \in DOMAIN q[s] :
          q[r][i].do \in Events!Rows /\ q[r][i] = q[s][j] => r = s /\ i = j

Pending(q) == UNION {Events!Entries(q[r]) : r \in Writer}

LEMMA InEntries ==
    ASSUME NEW tasks, NEW e
    PROVE  e \in Events!Entries(tasks) <=>
             \E i \in DOMAIN tasks : tasks[i].do # "cache" /\ e = Entry(tasks[i])
  BY DEF Events!Entries, Entry

LEMMA InPending ==
    ASSUME NEW q, NEW e
    PROVE  e \in Pending(q) <=>
             \E r \in Writer : \E i \in DOMAIN q[r] :
                q[r][i].do # "cache" /\ e = Entry(q[r][i])
  BY InEntries DEF Pending

LEMMA InOneEntry ==
    ASSUME NEW t \in Task, NEW e
    PROVE  e \in Events!Entries(<<t>>) <=> t.do # "cache" /\ e = Entry(t)
<1>1. DOMAIN <<t>> = {1} /\ <<t>>[1] = t
  OBVIOUS
<1>. QED BY <1>1, InEntries

LEMMA EntryOfOne == ASSUME NEW t \in Task, NEW u \in Task, Entry(t) = Entry(u) PROVE t = u
<1>1. t.commit = u.commit /\ t.do = u.do
  BY DEF Entry
<1>. QED BY <1>1 DEF Task

Done(q, r) == [q EXCEPT ![r] = Tail(@)]

\* A handler has run: its task is gone, and it alone.
LEMMA AfterTask ==
    ASSUME NEW q, QueueFits(q), NEW r \in Writer, q[r] # <<>>,
           NEW p, p = Done(q, r)
    PROVE  /\ Head(q[r]) \in Task
           /\ QueueFits(p)
           /\ Pending(p) \subseteq Pending(q)
           /\ Pending(q) \subseteq Pending(p) \cup Events!Entries(<<Head(q[r])>>)
           /\ Events!Entries(<<Head(q[r])>>) \subseteq Pending(q)
           /\ Head(q[r]).do \in Events!Rows => Entry(Head(q[r])) \notin Pending(p)
<1>. DEFINE h == Head(q[r])
<1>1. /\ q \in [Writer -> Seq(Task)] /\ q[r] \in Seq(Task) /\ Tail(q[r]) \in Seq(Task)
      /\ h = q[r][1] /\ 1 \in DOMAIN q[r] /\ h \in Task
  BY DEF QueueFits
<1>2. /\ p \in [Writer -> Seq(Task)]
      /\ \A s \in Writer : p[s] = IF s = r THEN Tail(q[r]) ELSE q[s]
  BY <1>1 DEF Done
<1>3. \A i \in DOMAIN Tail(q[r]) : i + 1 \in DOMAIN q[r] /\ Tail(q[r])[i] = q[r][i + 1] /\ i \in Nat
  BY <1>1
<1>4. \A i \in DOMAIN q[r] : i = 1 \/ (i - 1 \in DOMAIN Tail(q[r]) /\ Tail(q[r])[i - 1] = q[r][i])
  BY <1>1
<1>. HIDE DEF h
<1>5. \A s \in Writer : \A i \in DOMAIN p[s] :
        \E j \in DOMAIN q[s] : j = (IF s = r THEN i + 1 ELSE i) /\ p[s][i] = q[s][j]
  BY <1>2, <1>3
<1>6. QueueFits(p)
  <2>1. ASSUME NEW s \in Writer, NEW t \in Writer, NEW i \in DOMAIN p[s], NEW j \in DOMAIN p[t],
               p[s][i].do \in Events!Rows, p[s][i] = p[t][j]
        PROVE  s = t /\ i = j
    <3>1. PICK k \in DOMAIN q[s] : k = (IF s = r THEN i + 1 ELSE i) /\ p[s][i] = q[s][k]
      BY <1>5
    <3>2. PICK l \in DOMAIN q[t] : l = (IF t = r THEN j + 1 ELSE j) /\ p[t][j] = q[t][l]
      BY <1>5
    <3>3. s = t /\ k = l
      <4>1. q[s][k].do \in Events!Rows /\ q[s][k] = q[t][l]
        BY <2>1, <3>1, <3>2
      <4>2. \A x, y \in Writer : \A m \in DOMAIN q[x], n \in DOMAIN q[y] :
              q[x][m].do \in Events!Rows /\ q[x][m] = q[y][n] => x = y /\ m = n
        BY DEF QueueFits
      <4>. QED BY <4>1, <4>2
    <3>4. p[s] \in Seq(Task)
      BY <1>2
    <3>5. i \in Nat /\ j \in Nat
      BY <3>3, <3>4
    <3>. QED BY <3>1, <3>2, <3>3, <3>5
  <2>. QED BY <1>2, <2>1 DEF QueueFits
<1>7. Pending(p) \subseteq Pending(q)
  <2>. SUFFICES ASSUME NEW e \in Pending(p) PROVE e \in Pending(q)
    OBVIOUS
  <2>1. PICK s \in Writer : \E i \in DOMAIN p[s] : p[s][i].do # "cache" /\ e = Entry(p[s][i])
    BY InPending
  <2>2. PICK i \in DOMAIN p[s] : p[s][i].do # "cache" /\ e = Entry(p[s][i])
    BY <2>1
  <2>3. PICK j \in DOMAIN q[s] : p[s][i] = q[s][j]
    BY <1>5
  <2>. QED BY <2>2, <2>3, InPending
<1>8. Pending(q) \subseteq Pending(p) \cup Events!Entries(<<h>>)
  <2>. SUFFICES ASSUME NEW e \in Pending(q) PROVE e \in Pending(p) \cup Events!Entries(<<h>>)
    OBVIOUS
  <2>1. PICK s \in Writer : \E i \in DOMAIN q[s] : q[s][i].do # "cache" /\ e = Entry(q[s][i])
    BY InPending
  <2>2. PICK i \in DOMAIN q[s] : q[s][i].do # "cache" /\ e = Entry(q[s][i])
    BY <2>1
  <2>3. CASE s = r /\ i = 1
    BY <1>1, <2>2, <2>3, InOneEntry
  <2>4. CASE s = r /\ i # 1
    <3>1. i - 1 \in DOMAIN p[s] /\ p[s][i - 1] = q[s][i]
      BY <1>2, <1>4, <2>4
    <3>. QED BY <2>2, <3>1, InPending
  <2>5. CASE s # r
    BY <1>2, <2>2, <2>5, InPending
  <2>. QED BY <2>3, <2>4, <2>5
<1>9. Events!Entries(<<h>>) \subseteq Pending(q)
  BY <1>1, InOneEntry, InPending
<1>10. ASSUME h.do \in Events!Rows, Entry(h) \in Pending(p) PROVE FALSE
  <2>1. PICK s \in Writer : \E i \in DOMAIN p[s] : Entry(h) = Entry(p[s][i])
    BY <1>10, InPending
  <2>2. PICK i \in DOMAIN p[s] : Entry(h) = Entry(p[s][i])
    BY <2>1
  <2>3. p[s] \in Seq(Task) /\ p[s][i] \in Task
    BY <1>2
  <2>4. p[s][i] = h
    BY <1>1, <2>2, <2>3, EntryOfOne
  <2>5. PICK j \in DOMAIN q[s] : j = (IF s = r THEN i + 1 ELSE i) /\ p[s][i] = q[s][j]
    BY <1>5
  <2>6. s = r /\ j = 1
    <3>1. q[s][j].do \in Events!Rows /\ q[s][j] = q[r][1]
      BY <1>1, <1>10, <2>4, <2>5
    <3>2. \A x, y \in Writer : \A m \in DOMAIN q[x], n \in DOMAIN q[y] :
            q[x][m].do \in Events!Rows /\ q[x][m] = q[y][n] => x = y /\ m = n
      BY DEF QueueFits
    <3>. QED BY <1>1, <3>1, <3>2
  <2>7. i \in Nat /\ i >= 1
    BY <2>3
  <2>. QED BY <2>5, <2>6, <2>7
<1>. QED BY <1>1, <1>6, <1>7, <1>8, <1>9, <1>10 DEF h

\* A handler has found that it has to insert a notice.
Looked(q, r) == [q EXCEPT ![r][1].do = "notify"]

LEMMA AfterLook ==
    ASSUME NEW q, QueueFits(q), NEW r \in Writer, q[r] # <<>>, Head(q[r]).do = "notice",
           NEW p, p = Looked(q, r)
    PROVE  /\ QueueFits(p)
           /\ Pending(p) \subseteq Pending(q) \cup {<<Head(q[r]).commit, "notify">>}
           /\ Pending(q) \subseteq Pending(p) \cup {<<Head(q[r]).commit, "notice">>}
           /\ <<Head(q[r]).commit, "notice">> \in Pending(q)
           /\ <<Head(q[r]).commit, "notify">> \in Pending(p)
<1>. DEFINE h == Head(q[r])
            u == [h EXCEPT !.do = "notify"]
            w == [q[r] EXCEPT ![1] = u]
<1>1. /\ q \in [Writer -> Seq(Task)] /\ q[r] \in Seq(Task)
      /\ h = q[r][1] /\ 1 \in DOMAIN q[r] /\ h \in Task
  BY DEF QueueFits
<1>2. /\ u \in Task /\ u.do = "notify" /\ u.commit = h.commit
      /\ "notify" \notin Events!Rows /\ "notice" \notin Events!Rows
  BY <1>1 DEF Task, Events!Rows
<1>3. p = [q EXCEPT ![r] = w]
  BY <1>1 DEF Looked
<1>. HIDE DEF u
<1>4. w \in Seq(Task) /\ DOMAIN w = DOMAIN q[r]
  BY <1>1, <1>2
<1>5. \A i \in DOMAIN w : w[i] = IF i = 1 THEN u ELSE q[r][i]
  BY <1>1
<1>. HIDE DEF w
<1>6. /\ p \in [Writer -> Seq(Task)]
      /\ \A s \in Writer : p[s] = IF s = r THEN w ELSE q[s]
  BY <1>1, <1>3, <1>4
<1>7. /\ \A s \in Writer : DOMAIN p[s] = DOMAIN q[s]
      /\ \A s \in Writer : \A i \in DOMAIN p[s] :
           p[s][i] = IF s = r /\ i = 1 THEN u ELSE q[s][i]
  BY <1>4, <1>5, <1>6
<1>. HIDE DEF h
<1>8. QueueFits(p)
  <2>1. ASSUME NEW s \in Writer, NEW t \in Writer, NEW i \in DOMAIN p[s], NEW j \in DOMAIN p[t],
               p[s][i].do \in Events!Rows, p[s][i] = p[t][j]
        PROVE  s = t /\ i = j
    <3>1. q[s][i].do \in Events!Rows /\ q[s][i] = q[t][j] /\ i \in DOMAIN q[s] /\ j \in DOMAIN q[t]
      BY <1>2, <1>7, <2>1
    <3>2. \A x, y \in Writer : \A m \in DOMAIN q[x], n \in DOMAIN q[y] :
            q[x][m].do \in Events!Rows /\ q[x][m] = q[y][n] => x = y /\ m = n
      BY DEF QueueFits
    <3>. QED BY <3>1, <3>2
  <2>. QED BY <1>6, <2>1 DEF QueueFits
<1>9. Entry(h) = <<h.commit, "notice">> /\ Entry(u) = <<h.commit, "notify">>
  BY <1>2 DEF Entry, h
<1>10. Pending(p) \subseteq Pending(q) \cup {Entry(u)}
  <2>. SUFFICES ASSUME NEW e \in Pending(p), e # Entry(u) PROVE e \in Pending(q)
    OBVIOUS
  <2>1. PICK s \in Writer : \E i \in DOMAIN p[s] : p[s][i].do # "cache" /\ e = Entry(p[s][i])
    BY InPending
  <2>2. PICK i \in DOMAIN p[s] : p[s][i].do # "cache" /\ e = Entry(p[s][i])
    BY <2>1
  <2>3. p[s][i] = q[s][i] /\ i \in DOMAIN q[s]
    BY <1>7, <2>2
  <2>. QED BY <2>2, <2>3, InPending
<1>11. Pending(q) \subseteq Pending(p) \cup {Entry(h)}
  <2>. SUFFICES ASSUME NEW e \in Pending(q), e # Entry(h) PROVE e \in Pending(p)
    OBVIOUS
  <2>1. PICK s \in Writer : \E i \in DOMAIN q[s] : q[s][i].do # "cache" /\ e = Entry(q[s][i])
    BY InPending
  <2>2. PICK i \in DOMAIN q[s] : q[s][i].do # "cache" /\ e = Entry(q[s][i])
    BY <2>1
  <2>3. p[s][i] = q[s][i] /\ i \in DOMAIN p[s]
    BY <1>1, <1>7, <2>2
  <2>. QED BY <2>2, <2>3, InPending
<1>12. Entry(h) \in Pending(q)
  BY <1>1, InPending DEF h
<1>13. Entry(u) \in Pending(p)
  <2>1. p[r][1] = u /\ 1 \in DOMAIN p[r] /\ u.do # "cache"
    BY <1>1, <1>2, <1>7
  <2>. QED BY <2>1, InPending
<1>. QED BY <1>8, <1>9, <1>10, <1>11, <1>12, <1>13 DEF h

\* What a request has published waits.
Publishing(q, r, c, todo) == [q EXCEPT ![r] = Events!Tasks(c, todo)]

Work == {"cache", "notice"} \cup Events!Rows

LEMMA PublishedOnce ==
    ASSUME NEW todo \in Events!Published
    PROVE  /\ todo \in Seq(Work)
           /\ \A i, j \in DOMAIN todo : todo[i] \in Events!Rows /\ todo[i] = todo[j] => i = j
<1>. DEFINE m == Events!OfMovement
            s == Events!OfStatus
            n == Events!OfScan
<1>1. m \in Seq(Work) /\ Len(m) = 3 /\ m[1] = "cache" /\ m[2] = "notice" /\ m[3] = "movement log"
  BY DEF Events!OfMovement, Work, Events!Rows
<1>2. s \in Seq(Work) /\ Len(s) = 3 /\ s[1] = "audit" /\ s[2] = "cache" /\ s[3] = "status log"
  BY DEF Events!OfStatus, Work, Events!Rows
<1>3. n \in Seq(Work) /\ Len(n) = 2 /\ n[1] = "cache" /\ n[2] = "status log"
  BY DEF Events!OfScan, Work, Events!Rows
<1>4. todo = m \o s \/ todo = s \/ todo = n
  BY DEF Events!Published
<1>. HIDE DEF m, s, n
<1>5. CASE todo = m \o s
  <2>1. todo \in Seq(Work) /\ Len(todo) = Len(m) + Len(s)
    BY <1>1, <1>2, <1>5, ConcatProperties, Zenon
  <2>2. \A i \in 1..Len(m) + Len(s) : todo[i] = IF i <= Len(m) THEN m[i] ELSE s[i - Len(m)]
    BY <1>1, <1>2, <1>5, ConcatProperties, Zenon
  <2>3. todo \in Seq(Work) /\ Len(todo) = 6 /\ Len(m) = 3 /\ Len(s) = 3
    <3>1. Len(m) = 3 /\ Len(s) = 3
      BY <1>1, <1>2
    <3>. QED BY ONLY <2>1, <3>1
  <2>4. /\ todo[1] = m[1] /\ todo[2] = m[2] /\ todo[3] = m[3]
        /\ todo[4] = s[1] /\ todo[5] = s[2] /\ todo[6] = s[3]
    BY ONLY <2>2, <2>3
  <2>5. \A i \in DOMAIN todo : i = 1 \/ i = 2 \/ i = 3 \/ i = 4 \/ i = 5 \/ i = 6
    BY ONLY <2>3
  <2>. QED BY ZenonT(40), <1>1, <1>2, <2>3, <2>4, <2>5 DEF Events!Rows
<1>6. CASE todo = s
  <2>1. todo \in Seq(Work) /\ Len(todo) = 3
    BY <1>2, <1>6
  <2>2. \A i \in DOMAIN todo : i = 1 \/ i = 2 \/ i = 3
    BY ONLY <2>1
  <2>. QED BY <1>2, <1>6, <2>1, <2>2 DEF Events!Rows
<1>7. CASE todo = n
  <2>1. todo \in Seq(Work) /\ Len(todo) = 2
    BY <1>3, <1>7
  <2>2. \A i \in DOMAIN todo : i = 1 \/ i = 2
    BY ONLY <2>1
  <2>. QED BY <1>3, <1>7, <2>1, <2>2 DEF Events!Rows
<1>. QED BY <1>4, <1>5, <1>6, <1>7

LEMMA AfterCommit ==
    ASSUME NEW q, QueueFits(q), NEW r \in Writer, q[r] = <<>>, NEW c \in Nat,
           \A e \in Pending(q) : e[1] # c,
           NEW todo \in Events!Published, NEW p, p = Publishing(q, r, c, todo)
    PROVE  /\ QueueFits(p)
           /\ Pending(p) = Pending(q) \cup Events!Entries(p[r])
           /\ \A e \in Events!Entries(p[r]) : e[1] = c
<1>. DEFINE w == Events!Tasks(c, todo)
<1>1. /\ w \in Seq(Task) /\ DOMAIN w = DOMAIN todo
      /\ \A i \in DOMAIN w : w[i].commit = c /\ w[i].do = todo[i]
  <2>1. w = [i \in DOMAIN todo |-> [commit |-> c, do |-> todo[i]]]
    BY DEF Events!Tasks
  <2>2. \A i \in DOMAIN todo : [commit |-> c, do |-> todo[i]] \in Task
    BY PublishedOnce DEF Task, Work
  <2>3. todo \in Seq(Work) /\ DOMAIN todo = 1..Len(todo) /\ Len(todo) \in Nat
    BY PublishedOnce
  <2>. HIDE DEF w
  <2>4. DOMAIN w = DOMAIN todo /\ \A i \in DOMAIN w : w[i] = [commit |-> c, do |-> todo[i]]
    BY <2>1
  <2>5. w \in [1..Len(todo) -> Task]
    BY <2>1, <2>2, <2>3
  <2>6. w \in Seq(Task)
    BY <2>3, <2>5
  <2>. QED BY <2>4, <2>6
<1>2. \A i, j \in DOMAIN w : w[i].do \in Events!Rows /\ w[i] = w[j] => i = j
  BY <1>1, PublishedOnce
<1>3. /\ q \in [Writer -> Seq(Task)]
      /\ p = [q EXCEPT ![r] = w]
  BY DEF QueueFits, Publishing
<1>. HIDE DEF w
<1>4. /\ p \in [Writer -> Seq(Task)] /\ p[r] = w
      /\ \A s \in Writer : p[s] = IF s = r THEN w ELSE q[s]
  BY <1>1, <1>3
<1>5. \A s \in Writer : \A i \in DOMAIN q[s] : q[s][i].do \in Events!Rows => q[s][i].commit # c
  <2>. SUFFICES ASSUME NEW s \in Writer, NEW i \in DOMAIN q[s], q[s][i].do \in Events!Rows
                PROVE  q[s][i].commit # c
    OBVIOUS
  <2>1. Entry(q[s][i]) \in Pending(q)
    BY InPending DEF Events!Rows
  <2>. QED BY <2>1 DEF Entry
<1>6. QueueFits(p)
  <2>1. ASSUME NEW s \in Writer, NEW t \in Writer, NEW i \in DOMAIN p[s], NEW j \in DOMAIN p[t],
               p[s][i].do \in Events!Rows, p[s][i] = p[t][j]
        PROVE  s = t /\ i = j
    <3>1. CASE s = r /\ t = r
      BY <1>2, <1>4, <2>1, <3>1
    <3>2. CASE s # r /\ t # r
      <4>1. \A x, y \in Writer : \A m \in DOMAIN q[x], n \in DOMAIN q[y] :
              q[x][m].do \in Events!Rows /\ q[x][m] = q[y][n] => x = y /\ m = n
        BY DEF QueueFits
      <4>. QED BY <1>4, <2>1, <3>2, <4>1
    <3>3. CASE s = r /\ t # r
      BY <1>1, <1>4, <1>5, <2>1, <3>3
    <3>4. CASE s # r /\ t = r
      BY <1>1, <1>4, <1>5, <2>1, <3>4
    <3>. QED BY <3>1, <3>2, <3>3, <3>4
  <2>. QED BY <1>4, <2>1 DEF QueueFits
<1>7. \A s \in Writer : Events!Entries(p[s]) =
        IF s = r THEN Events!Entries(p[r]) ELSE Events!Entries(q[s])
  BY <1>4
<1>8. Events!Entries(q[r]) = {}
  <2>1. \A e : e \notin Events!Entries(q[r])
    BY InEntries
  <2>. QED BY <2>1
<1>9. Pending(p) = Pending(q) \cup Events!Entries(p[r])
  BY <1>7, <1>8 DEF Pending
<1>10. \A e \in Events!Entries(p[r]) : e[1] = c
  BY <1>1, <1>4, InEntries DEF Entry
<1>. QED BY <1>6, <1>9, <1>10

\* After n commits: what is owed is waiting, written or failed, and once.
Accounted(n, owed, written, failed, waiting) ==
    /\ \A e \in owed \cup failed \cup waiting : e[1] \in Nat /\ e[1] <= n
    /\ \A e \in owed : e[2] \in Events!Rows
    /\ \A e \in waiting : e[2] \in Events!Rows => e \in owed
    /\ owed \ waiting = written \cup (failed \cap owed)

\* A dip d whose notice is neither waiting nor failed was told.
Warned(d, fresh, said, undone) ==
    /\ d # Events!None /\ fresh => said
    /\ d # Events!None /\ <<d, "notice">> \notin undone /\ <<d, "notify">> \notin undone => said

EventsInv ==
    /\ commits \in Nat
    /\ unread \in BOOLEAN /\ told \in BOOLEAN
    /\ QueueFits(queue)
    /\ Accounted(commits, due, trail, missing, Pending(queue))
    /\ Warned(dipped, unread, told, Pending(queue) \cup missing)

\* What waits no more has failed, or owed nothing.
LEMMA GivenUp ==
    ASSUME NEW n, NEW owed, NEW written, NEW failed, NEW waiting,
           Accounted(n, owed, written, failed, waiting),
           NEW left, left \subseteq waiting, NEW lost, lost \subseteq waiting,
           waiting \subseteq left \cup lost,
           \A e \in lost : e[2] \in Events!Rows => e \notin left
    PROVE  Accounted(n, owed, written, failed \cup lost, left)
<1>1. owed \ left = written \cup ((failed \cup lost) \cap owed)
  BY DEF Accounted
<1>. QED BY <1>1 DEF Accounted

\* Notices are not owed to the trail.
LEMMA NotOfTrail ==
    ASSUME NEW n, NEW owed, NEW written, NEW failed, NEW waiting,
           Accounted(n, owed, written, failed, waiting),
           NEW c \in Nat, c <= n,
           NEW left, left \subseteq waiting \cup {<<c, "notify">>},
           waiting \subseteq left \cup {<<c, "notice">>, <<c, "notify">>}
    PROVE  Accounted(n, owed, written, failed, left)
<1>1. <<c, "notify">> \notin owed /\ <<c, "notice">> \notin owed
  BY DEF Accounted, Events!Rows
<1>2. owed \ left = owed \ waiting
  BY <1>1
<1>3. ASSUME NEW e \in left
      PROVE  e[1] \in Nat /\ e[1] <= n /\ (e[2] \in Events!Rows => e \in owed)
  <2>1. CASE e \in waiting
    BY <2>1 DEF Accounted
  <2>2. CASE e = <<c, "notify">>
    BY <2>2 DEF Events!Rows
  <2>. QED BY <2>1, <2>2
<1>. QED BY <1>2, <1>3 DEF Accounted

LEMMA WriteStep ==
    ASSUME EventsInv, NEW r \in Writer, NEW kind \in Events!Rows, Events!Write(r, kind)
    PROVE  EventsInv'
<1>. DEFINE h == Head(queue[r])
            e == <<h.commit, kind>>
<1>1. /\ queue[r] # <<>> /\ h.do = kind /\ queue' = Done(queue, r) /\ trail' = trail \cup {e}
      /\ UNCHANGED <<commits, dipped, due, missing, unread, told>>
  BY DEF Events!Write, Events!Turn, Events!Finish, Done
<1>2. /\ h \in Task /\ QueueFits(queue') /\ Pending(queue') \subseteq Pending(queue)
      /\ Pending(queue) \subseteq Pending(queue') \cup Events!Entries(<<h>>)
      /\ Events!Entries(<<h>>) \subseteq Pending(queue)
      /\ h.do \in Events!Rows => Entry(h) \notin Pending(queue')
  BY <1>1, AfterTask DEF EventsInv
<1>3. Events!Entries(<<h>>) = {e} /\ Entry(h) = e
  <2>1. Entry(h) = e /\ h.do # "cache"
    BY <1>1 DEF Entry, Events!Rows
  <2>2. \A x : x \in Events!Entries(<<h>>) <=> x = e
    BY <1>2, <2>1, InOneEntry
  <2>. QED BY <2>1, <2>2
<1>4. e[2] = kind
  OBVIOUS
<1>. HIDE DEF h, e
<1>5. Pending(queue') = Pending(queue) \ {e} /\ e \in Pending(queue)
  BY <1>1, <1>2, <1>3
<1>6. Accounted(commits, due, trail \cup {e}, missing, Pending(queue'))
  <2>1. e \in due
    BY <1>4, <1>5 DEF EventsInv, Accounted
  <2>. QED BY <1>5, <2>1 DEF EventsInv, Accounted
<1>7. Warned(dipped, unread, told, Pending(queue') \cup missing)
  <2>1. \A x \in Pending(queue) : x[2] = "notice" \/ x[2] = "notify" => x \in Pending(queue')
    BY <1>4, <1>5 DEF Events!Rows
  <2>2. \A d : <<d, "notice">>[2] = "notice" /\ <<d, "notify">>[2] = "notify"
    OBVIOUS
  <2>. QED BY <2>1, <2>2 DEF EventsInv, Warned
<1>. QED BY <1>1, <1>2, <1>6, <1>7 DEF EventsInv

LEMMA DropStep ==
    ASSUME EventsInv, NEW r \in Writer, Events!DropCache(r)
    PROVE  EventsInv'
<1>. DEFINE h == Head(queue[r])
<1>1. /\ queue[r] # <<>> /\ h.do = "cache" /\ queue' = Done(queue, r)
      /\ UNCHANGED <<commits, dipped, due, trail, missing, unread, told>>
  BY DEF Events!DropCache, Events!Turn, Events!Finish, Done
<1>2. /\ h \in Task /\ QueueFits(queue') /\ Pending(queue') \subseteq Pending(queue)
      /\ Pending(queue) \subseteq Pending(queue') \cup Events!Entries(<<h>>)
  BY <1>1, AfterTask DEF EventsInv
<1>3. \A x : x \notin Events!Entries(<<h>>)
  BY <1>1, <1>2, InOneEntry
<1>4. Pending(queue') = Pending(queue)
  BY <1>2, <1>3
<1>. QED BY <1>1, <1>2, <1>4 DEF EventsInv

LEMMA FailStep ==
    ASSUME EventsInv, NEW r \in Writer, Events!Fail(r)
    PROVE  EventsInv'
<1>. DEFINE h == Head(queue[r])
            lost == Events!Entries(<<h>>)
<1>1. /\ queue[r] # <<>> /\ queue' = Done(queue, r) /\ missing' = missing \cup lost
      /\ UNCHANGED <<commits, dipped, due, trail, unread, told>>
  BY DEF Events!Fail, Events!Finish, Done
<1>2. /\ h \in Task /\ QueueFits(queue') /\ Pending(queue') \subseteq Pending(queue)
      /\ Pending(queue) \subseteq Pending(queue') \cup lost
      /\ lost \subseteq Pending(queue)
      /\ h.do \in Events!Rows => Entry(h) \notin Pending(queue')
  BY <1>1, AfterTask DEF EventsInv
<1>3. \A x \in lost : x[2] \in Events!Rows => x \notin Pending(queue')
  <2>. SUFFICES ASSUME NEW x \in lost, x[2] \in Events!Rows PROVE x \notin Pending(queue')
    OBVIOUS
  <2>1. x = Entry(h)
    BY <1>2, InOneEntry
  <2>2. x[2] = h.do
    BY <2>1 DEF Entry
  <2>. QED BY <1>2, <2>1, <2>2
<1>. HIDE DEF lost
<1>4. Accounted(commits, due, trail, missing \cup lost, Pending(queue'))
  BY <1>2, <1>3, GivenUp DEF EventsInv
<1>5. Warned(dipped, unread, told, Pending(queue') \cup (missing \cup lost))
  BY <1>2 DEF EventsInv, Warned
<1>. QED BY <1>1, <1>2, <1>4, <1>5 DEF EventsInv

LEMMA CrashStep ==
    ASSUME EventsInv, Events!Crash
    PROVE  EventsInv'
<1>1. /\ missing' = missing \cup Pending(queue)
      /\ queue' = [r \in Writer |-> <<>>]
      /\ UNCHANGED <<commits, dipped, due, trail, unread, told>>
  BY DEF Events!Crash, Pending
<1>2. QueueFits(queue')
  BY <1>1 DEF QueueFits
<1>3. Pending(queue') = {}
  <2>1. \A e : e \notin Pending(queue')
    BY <1>1, InPending
  <2>. QED BY <2>1
<1>4. Accounted(commits, due, trail, missing \cup Pending(queue), {})
  BY GivenUp DEF EventsInv
<1>5. Warned(dipped, unread, told, {} \cup (missing \cup Pending(queue)))
  BY DEF EventsInv, Warned
<1>. QED BY <1>1, <1>2, <1>3, <1>4, <1>5 DEF EventsInv

LEMMA LookStep ==
    ASSUME EventsInv, NEW r \in Writer, Events!LookAtStock(r)
    PROVE  EventsInv'
<1>. DEFINE h == Head(queue[r])
<1>1. /\ queue[r] # <<>> /\ h.do = "notice"
      /\ UNCHANGED <<commits, dipped, due, trail, missing, unread, told>>
  BY DEF Events!LookAtStock, Events!Turn
<1>2. h \in Task /\ Entry(h) = <<h.commit, "notice">> /\ Entry(h) \in Pending(queue)
  <2>1. /\ h \in Task /\ Events!Entries(<<h>>) \subseteq Pending(queue)
    BY <1>1, AfterTask DEF EventsInv
  <2>2. Entry(h) \in Events!Entries(<<h>>)
    BY <1>1, <2>1, InOneEntry
  <2>. QED BY <1>1, <2>1, <2>2 DEF Entry
<1>3. h.commit \in Nat /\ h.commit <= commits
  BY <1>2 DEF EventsInv, Accounted
<1>4. CASE Events!NeedsNotice
  <2>1. queue' = Looked(queue, r)
    BY <1>4 DEF Events!LookAtStock, Looked
  <2>2. /\ QueueFits(queue')
        /\ Pending(queue') \subseteq Pending(queue) \cup {<<h.commit, "notify">>}
        /\ Pending(queue) \subseteq Pending(queue') \cup {<<h.commit, "notice">>}
        /\ <<h.commit, "notify">> \in Pending(queue')
    BY <1>1, <2>1, AfterLook DEF EventsInv
  <2>. HIDE DEF h
  <2>3. Accounted(commits, due, trail, missing, Pending(queue'))
    <3>1. Pending(queue) \subseteq
            Pending(queue') \cup {<<h.commit, "notice">>, <<h.commit, "notify">>}
      BY <2>2
    <3>. QED BY <1>3, <2>2, <3>1, NotOfTrail DEF EventsInv
  <2>4. Warned(dipped, unread, told, Pending(queue') \cup missing)
    <3>. DEFINE was == Pending(queue) \cup missing
                now == Pending(queue') \cup missing
    <3>1. was \subseteq now \cup {<<h.commit, "notice">>} /\ <<h.commit, "notify">> \in now
      BY <2>2
    <3>2. Warned(dipped, unread, told, was)
      BY DEF EventsInv
    <3>. HIDE DEF was, now
    <3>3. Warned(dipped, unread, told, now)
      <4>1. ASSUME <<dipped, "notice">> \notin now, <<dipped, "notify">> \notin now
            PROVE  <<dipped, "notice">> \notin was /\ <<dipped, "notify">> \notin was
        <5>1. dipped # h.commit
          BY <3>1, <4>1
        <5>. QED BY <3>1, <4>1, <5>1
      <4>. QED BY <3>2, <4>1 DEF Warned
    <3>. QED BY <3>3 DEF now
  <2>. QED BY <1>1, <2>2, <2>3, <2>4 DEF EventsInv
<1>5. CASE ~Events!NeedsNotice
  <2>1. queue' = Done(queue, r)
    BY <1>5 DEF Events!LookAtStock, Events!Finish, Done
  <2>2. /\ QueueFits(queue')
        /\ Pending(queue') \subseteq Pending(queue)
        /\ Pending(queue) \subseteq Pending(queue') \cup Events!Entries(<<h>>)
    BY <1>1, <2>1, AfterTask DEF EventsInv
  <2>3. \A x \in Events!Entries(<<h>>) : x = <<h.commit, "notice">>
    BY <1>2, InOneEntry
  <2>. HIDE DEF h
  <2>4. Accounted(commits, due, trail, missing, Pending(queue'))
    <3>1. /\ Pending(queue) \subseteq
               Pending(queue') \cup {<<h.commit, "notice">>, <<h.commit, "notify">>}
          /\ Pending(queue') \subseteq Pending(queue) \cup {<<h.commit, "notify">>}
      BY <2>2, <2>3
    <3>. QED BY <1>3, <3>1, NotOfTrail DEF EventsInv
  <2>5. Warned(dipped, unread, told, Pending(queue') \cup missing)
    BY <1>5 DEF Events!NeedsNotice, EventsInv, Warned
  <2>. QED BY <1>1, <2>2, <2>4, <2>5 DEF EventsInv
<1>. QED BY <1>4, <1>5

LEMMA NotifyStep ==
    ASSUME EventsInv, NEW r \in Writer, Events!Notify(r)
    PROVE  EventsInv'
<1>. DEFINE h == Head(queue[r])
<1>1. /\ queue[r] # <<>> /\ h.do = "notify" /\ queue' = Done(queue, r)
      /\ unread' = TRUE /\ told' = (dipped # Events!None)
      /\ UNCHANGED <<commits, dipped, due, trail, missing>>
  BY DEF Events!Notify, Events!Turn, Events!Finish, Done
<1>2. /\ h \in Task /\ QueueFits(queue') /\ Pending(queue') \subseteq Pending(queue)
      /\ Pending(queue) \subseteq Pending(queue') \cup Events!Entries(<<h>>)
      /\ Events!Entries(<<h>>) \subseteq Pending(queue)
  BY <1>1, AfterTask DEF EventsInv
<1>3. /\ Entry(h) = <<h.commit, "notify">>
      /\ \A x : x \in Events!Entries(<<h>>) <=> x = Entry(h)
  BY <1>1, <1>2, InOneEntry DEF Entry
<1>4. h.commit \in Nat /\ h.commit <= commits
  BY <1>2, <1>3 DEF EventsInv, Accounted
<1>. HIDE DEF h
<1>5. Accounted(commits, due, trail, missing, Pending(queue'))
  <2>1. /\ Pending(queue) \subseteq
             Pending(queue') \cup {<<h.commit, "notice">>, <<h.commit, "notify">>}
        /\ Pending(queue') \subseteq Pending(queue) \cup {<<h.commit, "notify">>}
    BY <1>2, <1>3
  <2>. QED BY <1>4, <2>1, NotOfTrail DEF EventsInv
<1>6. Warned(dipped, TRUE, dipped # Events!None, Pending(queue') \cup missing)
  BY DEF Warned
<1>7. (dipped # Events!None) \in BOOLEAN
  OBVIOUS
<1>. QED BY <1>1, <1>2, <1>5, <1>6, <1>7 DEF EventsInv

LEMMA CommitStep ==
    ASSUME EventsInv, NEW r \in Writer, NEW todo \in Events!Published, Events!Commit(r, todo)
    PROVE  EventsInv'
<1>. DEFINE new == Events!Entries(queue'[r])
            owed == {e \in new : e[2] \in Events!Rows}
<1>1. /\ queue[r] = <<>> /\ commits' = commits + 1
      /\ queue' = Publishing(queue, r, commits', todo)
      /\ due' = due \cup owed
      /\ UNCHANGED <<trail, missing, unread>>
  BY DEF Events!Commit, Publishing
<1>2. /\ commits \in Nat /\ commits' \in Nat /\ commits < commits' /\ commits <= commits'
  BY <1>1 DEF EventsInv
<1>3. \A e \in due \cup missing \cup Pending(queue) :
        e[1] \in Nat /\ e[1] <= commits' /\ e[1] # commits'
  BY <1>2 DEF EventsInv, Accounted
<1>4. /\ QueueFits(queue')
      /\ Pending(queue') = Pending(queue) \cup new
      /\ \A e \in new : e[1] = commits'
  BY <1>1, <1>2, <1>3, AfterCommit DEF EventsInv
<1>5. Accounted(commits', due \cup owed, trail, missing, Pending(queue) \cup new)
  <2>. HIDE DEF new
  <2>1. \A e \in new : e \notin due \cup missing \cup Pending(queue)
    BY <1>3, <1>4
  <2>2. \A e \in new : e[1] \in Nat /\ e[1] <= commits'
    BY <1>2, <1>4
  <2>3. (due \cup owed) \ (Pending(queue) \cup new) = due \ Pending(queue)
    BY <2>1
  <2>4. missing \cap (due \cup owed) = missing \cap due
    BY <2>1
  <2>. HIDE DEF owed
  <2>5. \A e \in owed : e \in new /\ e[2] \in Events!Rows
    BY DEF owed
  <2>6. \A e \in new : e[2] \in Events!Rows => e \in owed
    BY DEF owed
  <2>. QED BY <1>3, <2>2, <2>3, <2>4, <2>5, <2>6 DEF EventsInv, Accounted
<1>6. told' \in BOOLEAN /\ Warned(dipped', unread, told', Pending(queue) \cup new \cup missing)
  <2>1. CASE UNCHANGED <<dipped, told>>
    BY <2>1 DEF EventsInv, Warned
  <2>2. CASE <<commits', "notice">> \in new /\ dipped' = commits' /\ told' = unread
    BY <2>2 DEF EventsInv, Warned
  <2>3. CASE dipped' = Events!None /\ told' = FALSE
    BY <2>3 DEF Warned
  <2>. QED BY <2>1, <2>2, <2>3 DEF Events!Commit, Events!Moved
<1>. QED BY <1>1, <1>2, <1>4, <1>5, <1>6 DEF EventsInv

\* Whatever happens to commits, to handlers and to the process, what was owed is
\* accounted for.
LEMMA TrailStays == Events!Spec => []Events!NothingForgotten
<1>1. Events!Init => EventsInv
  <2>. SUFFICES ASSUME Events!Init PROVE EventsInv
    OBVIOUS
  <2>1. QueueFits(queue)
    BY DEF Events!Init, QueueFits
  <2>2. Pending(queue) = {}
    <3>1. \A e : e \notin Pending(queue)
      BY InPending DEF Events!Init
    <3>. QED BY <3>1
  <2>. QED BY <2>1, <2>2 DEF Events!Init, EventsInv, Accounted, Warned
<1>2. EventsInv /\ [Events!Next]_(Events!vars) => EventsInv'
  <2>. SUFFICES ASSUME EventsInv, [Events!Next]_(Events!vars) PROVE EventsInv'
    OBVIOUS
  <2>1. CASE UNCHANGED <<commits, dipped, queue, due, trail, missing, unread, told>>
    BY <2>1 DEF EventsInv
  <2>2. CASE Events!CommitSilently
    <3>1. \A e \in due \cup missing \cup Pending(queue) : e[1] <= commits + 1
      BY DEF EventsInv, Accounted
    <3>2. Accounted(commits + 1, due, trail, missing, Pending(queue))
      BY <3>1 DEF EventsInv, Accounted
    <3>. QED BY <2>2, <3>2 DEF Events!CommitSilently, EventsInv
  <2>3. CASE Events!NoticeGone
    BY <2>3 DEF Events!NoticeGone, EventsInv, Warned
  <2>4. ASSUME NEW v \in Viewer,
               Events!Overview(v) \/ Events!ReadCache(v) \/ Events!FillCache(v)
        PROVE  EventsInv'
    BY <2>1, <2>4 DEF Events!Overview, Events!ReadCache, Events!FillCache
  <2>5. CASE Events!Expire
    BY <2>1, <2>5 DEF Events!Expire
  <2>6. ASSUME NEW r \in Writer, Events!Run(r) PROVE EventsInv'
    BY <2>6, WriteStep, DropStep, LookStep, NotifyStep, FailStep DEF Events!Run
  <2>. QED BY <2>1, <2>2, <2>3, <2>4, <2>5, <2>6, CommitStep, CrashStep
              DEF Events!Next, Events!vars
<1>3. EventsInv => Events!NothingForgotten
  BY DEF EventsInv, Accounted, Warned, Pending, Events!NothingForgotten, Events!TrailKept,
         Events!StockWarned, Events!Waiting, Events!Undone
<1>. QED BY <1>1, <1>2, <1>3, PTL DEF Events!Spec

-----------------------------------------------------------------------------
(* Master data                                                              *)

\* Two defaults are one.
RatesInv ==
    /\ rate \in [Rate -> {"none", "plain", "default"}]
    /\ \A s, t \in Rate : rate[s] = "default" /\ rate[t] = "default" => s = t

LEMMA RatesStep ==
    ASSUME RatesInv, [MasterData!Next]_(MasterData!vars)
    PROVE  RatesInv'
<1>1. ASSUME NEW r \in Editor, MasterData!SaveRate(r) PROVE RatesInv'
  <2>. DEFINE c == saving[r]
  <2>1. rate' = MasterData!RatesAfter(c)
    BY <1>1 DEF MasterData!SaveRate
  <2>. HIDE DEF c
  <2>2. CASE c.default
    <3>. DEFINE plain == MasterData!Cleared(c.seen)
    <3>1. /\ plain \in [Rate -> {"none", "plain", "default"}]
          /\ \A t \in Rate : plain[t] # "default"
      BY DEF MasterData!Cleared
    <3>2. rate' = [plain EXCEPT ![c.rate] = "default"]
      BY <2>1, <2>2 DEF MasterData!RatesAfter
    <3>. HIDE DEF plain
    <3>. QED BY <3>1, <3>2 DEF RatesInv
  <2>3. CASE ~c.default
    <3>1. rate' = [rate EXCEPT ![c.rate] = "plain"] \/ rate' = rate
      BY <2>1, <2>3 DEF MasterData!RatesAfter
    <3>. QED BY <3>1 DEF RatesInv
  <2>. QED BY <2>2, <2>3
<1>2. CASE ~ \E r \in Editor : MasterData!SaveRate(r)
  <2>1. rate' = rate
    BY <1>2 DEF MasterData!Next, MasterData!vars, MasterData!BeginRate, MasterData!BeginCreate,
                MasterData!BeginMove, MasterData!BeginDelete, MasterData!Begin,
                MasterData!SaveCategory, MasterData!Rollback
  <2>. QED BY <2>1 DEF RatesInv
<1>. QED BY <1>1, <1>2

\* Whatever overlaps, one tax rate at most is the default.
LEMMA DefaultStays == MasterData!Spec => []MasterData!OneDefault
<1>1. MasterData!Init => RatesInv
  BY DEF MasterData!Init, RatesInv
<1>2. RatesInv /\ [MasterData!Next]_(MasterData!vars) => RatesInv'
  BY RatesStep
<1>3. RatesInv => MasterData!OneDefault
  <2>. SUFFICES ASSUME RatesInv PROVE MasterData!OneDefault
    OBVIOUS
  <2>. DEFINE D == MasterData!Defaults
  <2>1. \A s, t \in D : s = t
    BY DEF RatesInv, MasterData!Defaults
  <2>. HIDE DEF D
  <2>2. CASE D = {}
    BY <2>2, FS_EmptySet, SameCardinality DEF D, MasterData!OneDefault
  <2>3. CASE D # {}
    <3>1. PICK t \in D : D = {t}
      BY <2>1, <2>3
    <3>2. Cardinality(D) = 1
      BY <3>1, FS_Singleton
    <3>. QED BY <3>2, SameCardinality DEF D, MasterData!OneDefault
  <2>. QED BY <2>2, <2>3
<1>. QED BY <1>1, <1>2, <1>3, PTL DEF MasterData!Spec

\* One request about categories at a time, and what it read of the tree.
InTree(c) == c.op \in MasterData!CategoryOps

TreeFits(c) ==
    /\ InTree(c) => c.category \in Category
    /\ c.op = "create" => /\ c.parent \in Category \cup {Root}
                          /\ c.parent = Root \/ MasterData!Live(c.parent)
    /\ c.op = "move" => c.parent = Root
    /\ c.op = "delete" => MasterData!Children(c.category) = {}

TreeInv ==
    /\ category \in [Category -> MasterData!CategoryRow]
    /\ saving = [r \in Editor |-> saving[r]]
    /\ MasterData!TreeSound
    /\ \A r, s \in Editor : InTree(saving[r]) /\ InTree(saving[s]) => r = s
    /\ \A r \in Editor : TreeFits(saving[r])

LEMMA TreeBegins ==
    ASSUME ~Together, TreeInv, NEW r \in Editor, NEW c, MasterData!Begin(r, c), TreeFits(c)
    PROVE  TreeInv'
<1>1. /\ saving' = [saving EXCEPT ![r] = c] /\ category' = category
      /\ InTree(c) => \A s \in Editor : ~InTree(saving[s])
  BY DEF MasterData!Begin, InTree
<1>2. \A s \in Editor : saving'[s] = IF s = r THEN c ELSE saving[s]
  BY <1>1 DEF TreeInv
<1>3. saving' = [s \in Editor |-> saving'[s]]
  BY <1>1 DEF TreeInv
<1>4. MasterData!TreeSound'
  BY <1>1 DEF TreeInv, MasterData!TreeSound, MasterData!Live
<1>5. \A s \in Editor : TreeFits(saving[s])'
  BY <1>1, <1>2 DEF TreeInv, TreeFits, InTree, MasterData!Live, MasterData!Children
<1>6. \A s, t \in Editor : InTree(saving'[s]) /\ InTree(saving'[t]) => s = t
  BY <1>1, <1>2 DEF TreeInv
<1>. QED BY <1>1, <1>3, <1>4, <1>5, <1>6 DEF TreeInv

LEMMA TreeSaved ==
    ASSUME TreeInv, NEW r \in Editor, MasterData!SaveCategory(r)
    PROVE  TreeInv'
<1>. DEFINE c == saving[r]
<1>1. /\ InTree(c) /\ TreeFits(c) /\ c.category \in Category
      /\ saving' = [saving EXCEPT ![r] = MasterData!Idle]
  BY DEF MasterData!SaveCategory, MasterData!End, InTree, TreeInv, TreeFits
<1>2. /\ saving' = [s \in Editor |-> saving'[s]]
      /\ \A s \in Editor : ~InTree(saving'[s])
  BY <1>1 DEF TreeInv, InTree, MasterData!Idle, MasterData!CategoryOps
<1>3. \A s \in Editor : TreeFits(saving[s])'
  BY <1>2 DEF TreeFits, InTree, MasterData!CategoryOps
<1>4. /\ category' \in [Category -> MasterData!CategoryRow]
      /\ MasterData!TreeSound'
  <2>1. CASE c.op = "create"
    <3>. DEFINE row == [known |-> TRUE, live |-> TRUE, parent |-> c.parent]
    <3>1. category' = [category EXCEPT ![c.category] = row]
      BY <2>1 DEF MasterData!SaveCategory
    <3>2. /\ row \in MasterData!CategoryRow /\ row.live /\ row.parent = c.parent
          /\ c.parent = Root \/ category[c.parent].live
      BY <1>1, <2>1 DEF TreeFits, MasterData!CategoryRow, MasterData!Live
    <3>. HIDE DEF row, c
    <3>. QED BY <1>1, <3>1, <3>2 DEF TreeInv, MasterData!TreeSound, MasterData!Live,
                MasterData!CategoryRow
  <2>2. CASE c.op = "move"
    <3>. DEFINE row == [category[c.category] EXCEPT !.parent = c.parent]
    <3>1. category' = [category EXCEPT ![c.category] = row]
      BY <2>2 DEF MasterData!SaveCategory
    <3>2. /\ row \in MasterData!CategoryRow /\ row.live = category[c.category].live
          /\ row.parent = Root
      BY <1>1, <2>2 DEF TreeFits, TreeInv, MasterData!CategoryRow
    <3>. HIDE DEF row, c
    <3>. QED BY <1>1, <3>1, <3>2 DEF TreeInv, MasterData!TreeSound, MasterData!Live
  <2>3. CASE c.op = "delete"
    <3>. DEFINE row == [category[c.category] EXCEPT !.live = FALSE]
    <3>1. category' = [category EXCEPT ![c.category] = row]
      BY <2>3 DEF MasterData!SaveCategory
    <3>2. /\ row \in MasterData!CategoryRow /\ ~row.live
          /\ \A d \in Category : category[d].live => category[d].parent # c.category
      BY <1>1, <2>3 DEF TreeFits, TreeInv, MasterData!CategoryRow, MasterData!Children,
                        MasterData!Live
    <3>. HIDE DEF row, c
    <3>. QED BY <1>1, <3>1, <3>2 DEF TreeInv, MasterData!TreeSound, MasterData!Live
  <2>. QED BY <1>1, <2>1, <2>2, <2>3 DEF InTree, MasterData!CategoryOps
<1>. QED BY <1>2, <1>3, <1>4 DEF TreeInv

\* If requests about categories follow each other and none moves one under
\* another, no live category hangs under a deleted one.
LEMMA TreeStays ==
    ASSUME ~Together, ~Moves
    PROVE  MasterData!Spec => []MasterData!TreeSound
<1>1. MasterData!Init => TreeInv
  BY DEF MasterData!Init, TreeInv, MasterData!NoCategory, MasterData!CategoryRow,
         MasterData!TreeSound, MasterData!Live, MasterData!Idle, TreeFits, InTree,
         MasterData!CategoryOps
<1>2. TreeInv /\ [MasterData!Next]_(MasterData!vars) => TreeInv'
  <2>. SUFFICES ASSUME TreeInv, [MasterData!Next]_(MasterData!vars) PROVE TreeInv'
    OBVIOUS
  <2>1. CASE UNCHANGED MasterData!vars
    BY <2>1 DEF TreeInv, TreeFits, InTree, MasterData!vars, MasterData!TreeSound,
                MasterData!Live, MasterData!Children
  <2>2. ASSUME NEW r \in Editor, NEW t \in Rate, NEW default \in BOOLEAN,
               NEW op \in {"new rate", "edit rate"}, MasterData!BeginRate(r, t, op, default)
        PROVE  TreeInv'
    <3>. DEFINE c == [op |-> op, rate |-> t, default |-> default,
                      seen |-> MasterData!Defaults]
    <3>1. MasterData!Begin(r, c) /\ TreeFits(c)
      BY <2>2 DEF MasterData!BeginRate, TreeFits, InTree, MasterData!CategoryOps
    <3>. HIDE DEF c
    <3>. QED BY <3>1, TreeBegins
  <2>3. ASSUME NEW r \in Editor, NEW d \in Category, MasterData!BeginDelete(r, d)
        PROVE  TreeInv'
    <3>. DEFINE c == [op |-> "delete", category |-> d]
    <3>1. MasterData!Begin(r, c) /\ TreeFits(c)
      BY <2>3 DEF MasterData!BeginDelete, TreeFits
    <3>. HIDE DEF c
    <3>. QED BY <3>1, TreeBegins
  <2>4. ASSUME NEW r \in Editor, NEW d \in Category, NEW p \in Category \cup {Root},
               MasterData!BeginCreate(r, d, p)
        PROVE  TreeInv'
    <3>. DEFINE c == [op |-> "create", category |-> d, parent |-> p]
    <3>1. MasterData!Begin(r, c) /\ TreeFits(c)
      BY <2>4 DEF MasterData!BeginCreate, TreeFits
    <3>. HIDE DEF c
    <3>. QED BY <3>1, TreeBegins
  <2>5. ASSUME NEW r \in Editor, NEW d \in Category, NEW p \in Category \cup {Root},
               MasterData!BeginMove(r, d, p)
        PROVE  TreeInv'
    <3>. DEFINE c == [op |-> "move", category |-> d, parent |-> p]
    <3>1. MasterData!Begin(r, c) /\ TreeFits(c)
      BY <2>5 DEF MasterData!BeginMove, TreeFits
    <3>. HIDE DEF c
    <3>. QED BY <3>1, TreeBegins
  <2>6. ASSUME NEW r \in Editor, MasterData!SaveRate(r) \/ MasterData!Rollback(r)
        PROVE  TreeInv'
    <3>1. category' = category /\ saving' = [saving EXCEPT ![r] = MasterData!Idle]
      BY <2>6 DEF MasterData!SaveRate, MasterData!Rollback, MasterData!End
    <3>2. \A s \in Editor : saving'[s] = saving[s] \/ ~InTree(saving'[s])
      BY <3>1 DEF TreeInv, InTree, MasterData!Idle, MasterData!CategoryOps
    <3>3. saving' = [s \in Editor |-> saving'[s]]
      BY <3>1 DEF TreeInv
    <3>4. \A s \in Editor : TreeFits(saving[s])'
      BY <3>1, <3>2 DEF TreeInv, TreeFits, InTree, MasterData!Live, MasterData!Children,
                        MasterData!CategoryOps
    <3>5. MasterData!TreeSound'
      BY <3>1 DEF TreeInv, MasterData!TreeSound, MasterData!Live
    <3>. QED BY <3>1, <3>2, <3>3, <3>4, <3>5 DEF TreeInv
  <2>. QED BY <2>1, <2>2, <2>3, <2>4, <2>5, <2>6, TreeSaved DEF MasterData!Next
<1>3. TreeInv => MasterData!TreeSound
  BY DEF TreeInv
<1>. QED BY <1>1, <1>2, <1>3, PTL DEF MasterData!Spec

-----------------------------------------------------------------------------
(* Database                                                                 *)

\* The tables that a row of e refers to.
Targets(e) == e.needs \cup e.may
\* The names of the tables of a migration.
NamesOf(s) == {e.name : e \in DB!ToSet(s)}

\* Every table comes after those it refers to, or refers to itself.
Grounded(s) ==
    \A n \in DOMAIN s : Targets(s[n]) \subseteq {s[i].name : i \in 1 .. n}

\* One migration after another: their tables, their names, their number.
LEMMA Joined ==
    ASSUME NEW s, NEW r, s \in Seq(DB!ToSet(s)), r \in Seq(DB!ToSet(r))
    PROVE  /\ s \o r \in Seq(DB!ToSet(s \o r))
           /\ DB!ToSet(s \o r) = DB!ToSet(s) \cup DB!ToSet(r)
           /\ NamesOf(s \o r) = NamesOf(s) \cup NamesOf(r)
           /\ Len(s \o r) = Len(s) + Len(r)
<1>. DEFINE S == DB!ToSet(s) \cup DB!ToSet(r)
<1>1. s \in Seq(S) /\ r \in Seq(S)
  OBVIOUS
<1>2. /\ s \o r \in Seq(S) /\ Len(s \o r) = Len(s) + Len(r)
      /\ \A i \in 1 .. Len(s) : (s \o r)[i] = s[i]
      /\ \A i \in 1 .. Len(r) : (s \o r)[Len(s) + i] = r[i]
  BY <1>1
<1>3. /\ DOMAIN s = 1 .. Len(s) /\ DOMAIN r = 1 .. Len(r)
      /\ DOMAIN (s \o r) = 1 .. Len(s) + Len(r) /\ Len(s) \in Nat /\ Len(r) \in Nat
  BY <1>1, <1>2
<1>4. DB!ToSet(s \o r) \subseteq S
  BY <1>2, <1>3 DEF DB!ToSet
<1>5. DB!ToSet(s) \subseteq DB!ToSet(s \o r)
  BY <1>2, <1>3 DEF DB!ToSet
<1>6. DB!ToSet(r) \subseteq DB!ToSet(s \o r)
  <2>. SUFFICES ASSUME NEW i \in 1 .. Len(r) PROVE r[i] \in DB!ToSet(s \o r)
    BY <1>3 DEF DB!ToSet
  <2>1. Len(s) + i \in DOMAIN (s \o r)
    BY <1>3
  <2>. QED BY <2>1, <1>2 DEF DB!ToSet
<1>7. DB!ToSet(s \o r) = S
  BY <1>4, <1>5, <1>6
<1>8. NamesOf(s \o r) = NamesOf(s) \cup NamesOf(r)
  BY <1>7 DEF NamesOf
<1>. QED BY <1>2, <1>7, <1>8

\* Tables that refer to earlier migrations only may follow them.
LEMMA Grounds ==
    ASSUME NEW s, NEW r, s \in Seq(DB!ToSet(s)), r \in Seq(DB!ToSet(r)), Grounded(s),
           \A e \in DB!ToSet(r) : Targets(e) \subseteq NamesOf(s)
    PROVE  Grounded(s \o r)
<1>. DEFINE S == DB!ToSet(s) \cup DB!ToSet(r)
            x == s \o r
<1>1. s \in Seq(S) /\ r \in Seq(S)
  OBVIOUS
<1>2. /\ Len(x) = Len(s) + Len(r) /\ x \in Seq(S)
      /\ \A i \in 1 .. Len(s) : x[i] = s[i]
      /\ \A i \in 1 .. Len(x) : i > Len(s) => x[i] = r[i - Len(s)]
  BY <1>1
<1>3. /\ DOMAIN s = 1 .. Len(s) /\ DOMAIN r = 1 .. Len(r)
      /\ DOMAIN x = 1 .. Len(x) /\ Len(s) \in Nat /\ Len(r) \in Nat
  BY <1>1, <1>2
<1>. HIDE DEF x
<1>. SUFFICES ASSUME NEW n \in 1 .. Len(x)
              PROVE  Targets(x[n]) \subseteq {x[i].name : i \in 1 .. n}
  BY <1>3 DEF Grounded, x
<1>4. CASE n <= Len(s)
  <2>1. n \in DOMAIN s /\ x[n] = s[n]
    BY <1>4, <1>2, <1>3
  <2>2. {s[i].name : i \in 1 .. n} \subseteq {x[i].name : i \in 1 .. n}
    BY <1>4, <1>2, <1>3
  <2>. QED BY <2>1, <2>2 DEF Grounded
<1>5. CASE n > Len(s)
  <2>1. n - Len(s) \in DOMAIN r /\ x[n] = r[n - Len(s)]
    BY <1>5, <1>2, <1>3
  <2>2. Targets(x[n]) \subseteq NamesOf(s)
    BY <2>1 DEF DB!ToSet
  <2>3. NamesOf(s) \subseteq {x[i].name : i \in 1 .. n}
    BY <1>5, <1>2, <1>3 DEF NamesOf, DB!ToSet
  <2>. QED BY <2>2, <2>3
<1>6. n <= Len(s) \/ n > Len(s)
  BY <1>3
<1>. QED BY <1>4, <1>5, <1>6

\* The migrations are sequences.
LEMMA Pieces ==
    /\ DB!Roots \in Seq(DB!ToSet(DB!Roots)) /\ DB!People \in Seq(DB!ToSet(DB!People))
    /\ DB!Articles \in Seq(DB!ToSet(DB!Articles)) /\ DB!Places \in Seq(DB!ToSet(DB!Places))
    /\ DB!Orders \in Seq(DB!ToSet(DB!Orders)) /\ DB!Movements \in Seq(DB!ToSet(DB!Movements))
    /\ DB!Invoicing \in Seq(DB!ToSet(DB!Invoicing)) /\ DB!Lines \in Seq(DB!ToSet(DB!Lines))
    /\ DB!Settlement \in Seq(DB!ToSet(DB!Settlement)) /\ DB!EventLogs \in Seq(DB!ToSet(DB!EventLogs))
<1>1. DB!Roots \in Seq(DB!ToSet(DB!Roots))
  BY DEF DB!Roots, DB!ToSet
<1>2. DB!People \in Seq(DB!ToSet(DB!People))
  BY DEF DB!People, DB!ToSet
<1>3. DB!Articles \in Seq(DB!ToSet(DB!Articles))
  BY DEF DB!Articles, DB!ToSet
<1>4. DB!Places \in Seq(DB!ToSet(DB!Places))
  BY DEF DB!Places, DB!ToSet
<1>5. DB!Orders \in Seq(DB!ToSet(DB!Orders))
  BY DEF DB!Orders, DB!ToSet
<1>6. DB!Movements \in Seq(DB!ToSet(DB!Movements))
  BY DEF DB!Movements, DB!ToSet
<1>7. DB!Invoicing \in Seq(DB!ToSet(DB!Invoicing))
  BY DEF DB!Invoicing, DB!ToSet
<1>8. DB!Lines \in Seq(DB!ToSet(DB!Lines))
  BY DEF DB!Lines, DB!ToSet
<1>9. DB!Settlement \in Seq(DB!ToSet(DB!Settlement))
  BY DEF DB!Settlement, DB!ToSet
<1>10. DB!EventLogs \in Seq(DB!ToSet(DB!EventLogs))
  BY DEF DB!EventLogs, DB!ToSet
<1>. QED BY <1>1, <1>2, <1>3, <1>4, <1>5, <1>6, <1>7, <1>8, <1>9, <1>10

\* How many tables each migration creates.
LEMMA Lengths ==
    /\ Len(DB!Roots) = 9 /\ Len(DB!People) = 6 /\ Len(DB!Articles) = 5 /\ Len(DB!Places) = 4
    /\ Len(DB!Orders) = 4 /\ Len(DB!Movements) = 5 /\ Len(DB!Invoicing) = 4 /\ Len(DB!Lines) = 5
    /\ Len(DB!Settlement) = 2 /\ Len(DB!EventLogs) = 1
<1>1. Len(DB!Roots) = 9 /\ Len(DB!People) = 6 /\ Len(DB!Articles) = 5 /\ Len(DB!Places) = 4
  BY DEF DB!Roots, DB!People, DB!Articles, DB!Places
<1>2. Len(DB!Orders) = 4 /\ Len(DB!Movements) = 5 /\ Len(DB!Invoicing) = 4 /\ Len(DB!Lines) = 5
      /\ Len(DB!Settlement) = 2 /\ Len(DB!EventLogs) = 1
  BY DEF DB!Orders, DB!Movements, DB!Invoicing, DB!Lines, DB!Settlement, DB!EventLogs
<1>. QED BY <1>1, <1>2

\* The first two migrations refer to tables of their own.
LEMMA PeopleGrounded == Grounded(DB!Roots \o DB!People)
  BY DEF DB!Roots, DB!People, Grounded, Targets, DB!T, DB!OrgOnly, DB!Actor


\* The tables that each migration creates.
LEMMA Known ==
    /\ {"currencies", "login_attempts", "msic_codes", "organizations",
        "permissions", "brands", "categories", "document_sequences", "roles"}
        \subseteq NamesOf(DB!Roots)
    /\ {"tax_rates", "uoms", "users", "ai_call_logs", "audit_logs", "customers"}
        \subseteq NamesOf(DB!People)
    /\ {"demo_reset_logs", "exchange_rates", "notifications", "role_permissions",
        "skus"} \subseteq NamesOf(DB!Articles)
    /\ {"suppliers", "uploaded_files", "user_roles", "warehouses"} \subseteq
        NamesOf(DB!Places)
    /\ {"payments", "purchase_orders", "sales_orders", "stock_adjustments"}
        \subseteq NamesOf(DB!Orders)
    /\ {"stock_movements", "stock_transfers", "stocks", "delivery_orders",
        "goods_receipts"} \subseteq NamesOf(DB!Movements)
    /\ {"invoices", "purchase_order_lines", "sales_order_lines",
        "stock_adjustment_lines"} \subseteq NamesOf(DB!Invoicing)
    /\ {"stock_transfer_lines", "credit_notes", "delivery_order_lines",
        "goods_receipt_lines", "invoice_lines"} \subseteq NamesOf(DB!Lines)
    /\ {"credit_note_lines", "payment_allocations"} \subseteq NamesOf(DB!Settlement)
    /\ {"event_logs"} \subseteq NamesOf(DB!EventLogs)
<1>1. {"currencies", "login_attempts", "msic_codes", "organizations", "permissions",
       "brands", "categories", "document_sequences", "roles"} \subseteq
       NamesOf(DB!Roots)
  BY DEF NamesOf, DB!ToSet, DB!T, DB!Roots
<1>2. {"tax_rates", "uoms", "users", "ai_call_logs", "audit_logs", "customers"}
       \subseteq NamesOf(DB!People)
  BY DEF NamesOf, DB!ToSet, DB!T, DB!People
<1>3. {"demo_reset_logs", "exchange_rates", "notifications", "role_permissions",
       "skus"} \subseteq NamesOf(DB!Articles)
  BY DEF NamesOf, DB!ToSet, DB!T, DB!Articles
<1>4. {"suppliers", "uploaded_files", "user_roles", "warehouses"} \subseteq
       NamesOf(DB!Places)
  BY DEF NamesOf, DB!ToSet, DB!T, DB!Places
<1>5. {"payments", "purchase_orders", "sales_orders", "stock_adjustments"} \subseteq
       NamesOf(DB!Orders)
  BY DEF NamesOf, DB!ToSet, DB!T, DB!Orders
<1>6. {"stock_movements", "stock_transfers", "stocks", "delivery_orders",
       "goods_receipts"} \subseteq NamesOf(DB!Movements)
  BY DEF NamesOf, DB!ToSet, DB!T, DB!Movements
<1>7. {"invoices", "purchase_order_lines", "sales_order_lines",
       "stock_adjustment_lines"} \subseteq NamesOf(DB!Invoicing)
  BY DEF NamesOf, DB!ToSet, DB!T, DB!Invoicing
<1>8. {"stock_transfer_lines", "credit_notes", "delivery_order_lines",
       "goods_receipt_lines", "invoice_lines"} \subseteq NamesOf(DB!Lines)
  BY DEF NamesOf, DB!ToSet, DB!T, DB!Lines
<1>9. {"credit_note_lines", "payment_allocations"} \subseteq NamesOf(DB!Settlement)
  BY DEF NamesOf, DB!ToSet, DB!T, DB!Settlement
<1>10. {"event_logs"} \subseteq NamesOf(DB!EventLogs)
  BY DEF NamesOf, DB!ToSet, DB!T, DB!EventLogs
<1>. QED BY <1>1, <1>2, <1>3, <1>4, <1>5, <1>6, <1>7, <1>8, <1>9, <1>10

\* The tables that each later migration refers to.
LEMMA TargetsOf ==
    /\ \A e \in DB!ToSet(DB!Articles) : Targets(e) \subseteq
          {"organizations", "currencies", "users", "permissions", "roles",
           "tax_rates", "uoms", "brands", "categories", "msic_codes"}
    /\ \A e \in DB!ToSet(DB!Places) : Targets(e) \subseteq
          {"organizations", "users", "roles"}
    /\ \A e \in DB!ToSet(DB!Orders) : Targets(e) \subseteq
          {"organizations", "users", "customers", "suppliers", "warehouses",
           "uploaded_files"}
    /\ \A e \in DB!ToSet(DB!Movements) : Targets(e) \subseteq
          {"organizations", "users", "skus", "warehouses", "sales_orders",
           "purchase_orders"}
    /\ \A e \in DB!ToSet(DB!Invoicing) : Targets(e) \subseteq
          {"organizations", "customers", "users", "sales_orders",
           "uploaded_files", "warehouses", "skus", "tax_rates", "uoms",
           "purchase_orders", "stock_adjustments"}
    /\ \A e \in DB!ToSet(DB!Lines) : Targets(e) \subseteq
          {"skus", "uoms", "tax_rates", "stock_transfers", "organizations",
           "customers", "invoices", "users", "uploaded_files",
           "delivery_orders", "sales_order_lines", "goods_receipts",
           "purchase_order_lines"}
    /\ \A e \in DB!ToSet(DB!Settlement) : Targets(e) \subseteq
          {"skus", "uoms", "credit_notes", "invoice_lines", "payments", "users",
           "invoices", "purchase_orders"}
    /\ \A e \in DB!ToSet(DB!EventLogs) : Targets(e) = {}
<1>1. \A e \in DB!ToSet(DB!Articles) : Targets(e) \subseteq
          {"organizations", "currencies", "users", "permissions", "roles",
           "tax_rates", "uoms", "brands", "categories", "msic_codes"}
  BY DEF DB!ToSet, Targets, DB!T, DB!OrgOnly, DB!Actor, DB!Ordered, DB!Articles
<1>2. \A e \in DB!ToSet(DB!Places) : Targets(e) \subseteq
          {"organizations", "users", "roles"}
  BY DEF DB!ToSet, Targets, DB!T, DB!OrgOnly, DB!Actor, DB!Ordered, DB!Places
<1>3. \A e \in DB!ToSet(DB!Orders) : Targets(e) \subseteq
          {"organizations", "users", "customers", "suppliers", "warehouses",
           "uploaded_files"}
  BY DEF DB!ToSet, Targets, DB!T, DB!OrgOnly, DB!Actor, DB!Ordered, DB!Orders
<1>4. \A e \in DB!ToSet(DB!Movements) : Targets(e) \subseteq
          {"organizations", "users", "skus", "warehouses", "sales_orders",
           "purchase_orders"}
  BY DEF DB!ToSet, Targets, DB!T, DB!OrgOnly, DB!Actor, DB!Ordered, DB!Movements
<1>5. \A e \in DB!ToSet(DB!Invoicing) : Targets(e) \subseteq
          {"organizations", "customers", "users", "sales_orders",
           "uploaded_files", "warehouses", "skus", "tax_rates", "uoms",
           "purchase_orders", "stock_adjustments"}
  BY DEF DB!ToSet, Targets, DB!T, DB!OrgOnly, DB!Actor, DB!Ordered, DB!Invoicing
<1>6. \A e \in DB!ToSet(DB!Lines) : Targets(e) \subseteq
          {"skus", "uoms", "tax_rates", "stock_transfers", "organizations",
           "customers", "invoices", "users", "uploaded_files",
           "delivery_orders", "sales_order_lines", "goods_receipts",
           "purchase_order_lines"}
  BY DEF DB!ToSet, Targets, DB!T, DB!OrgOnly, DB!Actor, DB!Ordered, DB!Lines
<1>7. \A e \in DB!ToSet(DB!Settlement) : Targets(e) \subseteq
          {"skus", "uoms", "credit_notes", "invoice_lines", "payments", "users",
           "invoices", "purchase_orders"}
  BY DEF DB!ToSet, Targets, DB!T, DB!OrgOnly, DB!Actor, DB!Ordered, DB!Settlement
<1>8. \A e \in DB!ToSet(DB!EventLogs) : Targets(e) = {}
  BY DEF DB!ToSet, Targets, DB!T, DB!OrgOnly, DB!Actor, DB!Ordered, DB!EventLogs
<1>. QED BY <1>1, <1>2, <1>3, <1>4, <1>5, <1>6, <1>7, <1>8

\* alembic/versions: every table is created after those it refers to.
LEMMA CreationWhole ==
    /\ DB!Creation \in Seq(DB!Entries)
    /\ Len(DB!Creation) = 45
    /\ Grounded(DB!Creation)
    /\ DB!Entries = DB!ToSet(DB!Roots) \cup DB!ToSet(DB!People) \cup DB!ToSet(DB!Articles)
                 \cup DB!ToSet(DB!Places) \cup DB!ToSet(DB!Orders) \cup DB!ToSet(DB!Movements) \cup DB!ToSet(DB!Invoicing)
                 \cup DB!ToSet(DB!Lines) \cup DB!ToSet(DB!Settlement) \cup DB!ToSet(DB!EventLogs)
<1>. DEFINE p2 == DB!Roots \o DB!People
            p3 == p2 \o DB!Articles
            p4 == p3 \o DB!Places
            p5 == p4 \o DB!Orders
            p6 == p5 \o DB!Movements
            p7 == p6 \o DB!Invoicing
            p8 == p7 \o DB!Lines
            p9 == p8 \o DB!Settlement
<1>0. DB!Creation = p9 \o DB!EventLogs
  BY DEF DB!Creation
<1>1. /\ p2 \in Seq(DB!ToSet(p2)) /\ Len(p2) = Len(DB!Roots) + 6
      /\ DB!ToSet(p2) = DB!ToSet(DB!Roots) \cup DB!ToSet(DB!People)
      /\ NamesOf(p2) = NamesOf(DB!Roots) \cup NamesOf(DB!People)
  BY Pieces, Joined, Lengths, ZenonT(60)
<1>. HIDE DEF p2
<1>2. /\ p3 \in Seq(DB!ToSet(p3)) /\ Len(p3) = Len(p2) + 5
      /\ DB!ToSet(p3) = DB!ToSet(p2) \cup DB!ToSet(DB!Articles)
      /\ NamesOf(p3) = NamesOf(p2) \cup NamesOf(DB!Articles)
  BY Pieces, Joined, Lengths, <1>1, ZenonT(60)
<1>. HIDE DEF p3
<1>3. /\ p4 \in Seq(DB!ToSet(p4)) /\ Len(p4) = Len(p3) + 4
      /\ DB!ToSet(p4) = DB!ToSet(p3) \cup DB!ToSet(DB!Places)
      /\ NamesOf(p4) = NamesOf(p3) \cup NamesOf(DB!Places)
  BY Pieces, Joined, Lengths, <1>2, ZenonT(60)
<1>. HIDE DEF p4
<1>4. /\ p5 \in Seq(DB!ToSet(p5)) /\ Len(p5) = Len(p4) + 4
      /\ DB!ToSet(p5) = DB!ToSet(p4) \cup DB!ToSet(DB!Orders)
      /\ NamesOf(p5) = NamesOf(p4) \cup NamesOf(DB!Orders)
  BY Pieces, Joined, Lengths, <1>3, ZenonT(60)
<1>. HIDE DEF p5
<1>5. /\ p6 \in Seq(DB!ToSet(p6)) /\ Len(p6) = Len(p5) + 5
      /\ DB!ToSet(p6) = DB!ToSet(p5) \cup DB!ToSet(DB!Movements)
      /\ NamesOf(p6) = NamesOf(p5) \cup NamesOf(DB!Movements)
  BY Pieces, Joined, Lengths, <1>4, ZenonT(60)
<1>. HIDE DEF p6
<1>6. /\ p7 \in Seq(DB!ToSet(p7)) /\ Len(p7) = Len(p6) + 4
      /\ DB!ToSet(p7) = DB!ToSet(p6) \cup DB!ToSet(DB!Invoicing)
      /\ NamesOf(p7) = NamesOf(p6) \cup NamesOf(DB!Invoicing)
  BY Pieces, Joined, Lengths, <1>5, ZenonT(60)
<1>. HIDE DEF p7
<1>7. /\ p8 \in Seq(DB!ToSet(p8)) /\ Len(p8) = Len(p7) + 5
      /\ DB!ToSet(p8) = DB!ToSet(p7) \cup DB!ToSet(DB!Lines)
      /\ NamesOf(p8) = NamesOf(p7) \cup NamesOf(DB!Lines)
  BY Pieces, Joined, Lengths, <1>6, ZenonT(60)
<1>. HIDE DEF p8
<1>8. /\ p9 \in Seq(DB!ToSet(p9)) /\ Len(p9) = Len(p8) + 2
      /\ DB!ToSet(p9) = DB!ToSet(p8) \cup DB!ToSet(DB!Settlement)
      /\ NamesOf(p9) = NamesOf(p8) \cup NamesOf(DB!Settlement)
  BY Pieces, Joined, Lengths, <1>7, ZenonT(60)
<1>. HIDE DEF p9
<1>9. /\ DB!Creation \in Seq(DB!ToSet(DB!Creation)) /\ Len(DB!Creation) = Len(p9) + 1
      /\ DB!ToSet(DB!Creation) = DB!ToSet(p9) \cup DB!ToSet(DB!EventLogs)
      /\ NamesOf(DB!Creation) = NamesOf(p9) \cup NamesOf(DB!EventLogs)
  BY Pieces, Joined, Lengths, <1>8, <1>0, ZenonT(60)
<1>11. Grounded(p2)
  BY PeopleGrounded DEF p2
<1>12. Grounded(p3)
  <2>. \A e \in DB!ToSet(DB!Articles) : Targets(e) \subseteq NamesOf(p2)
    BY TargetsOf, Known, <1>1
  <2>. QED BY <1>1, <1>11, Pieces, Grounds DEF p3
<1>13. Grounded(p4)
  <2>. \A e \in DB!ToSet(DB!Places) : Targets(e) \subseteq NamesOf(p3)
    BY TargetsOf, Known, <1>1, <1>2
  <2>. QED BY <1>2, <1>12, Pieces, Grounds DEF p4
<1>14. Grounded(p5)
  <2>. \A e \in DB!ToSet(DB!Orders) : Targets(e) \subseteq NamesOf(p4)
    BY TargetsOf, Known, <1>1, <1>2, <1>3
  <2>. QED BY <1>3, <1>13, Pieces, Grounds DEF p5
<1>15. Grounded(p6)
  <2>. \A e \in DB!ToSet(DB!Movements) : Targets(e) \subseteq NamesOf(p5)
    BY TargetsOf, Known, <1>1, <1>2, <1>3, <1>4
  <2>. QED BY <1>4, <1>14, Pieces, Grounds DEF p6
<1>16. Grounded(p7)
  <2>. \A e \in DB!ToSet(DB!Invoicing) : Targets(e) \subseteq NamesOf(p6)
    BY TargetsOf, Known, <1>1, <1>2, <1>3, <1>4, <1>5
  <2>. QED BY <1>5, <1>15, Pieces, Grounds DEF p7
<1>17. Grounded(p8)
  <2>. \A e \in DB!ToSet(DB!Lines) : Targets(e) \subseteq NamesOf(p7)
    BY TargetsOf, Known, <1>1, <1>2, <1>3, <1>4, <1>5, <1>6
  <2>. QED BY <1>6, <1>16, Pieces, Grounds DEF p8
<1>18. Grounded(p9)
  <2>. \A e \in DB!ToSet(DB!Settlement) : Targets(e) \subseteq NamesOf(p8)
    BY TargetsOf, Known, <1>1, <1>2, <1>3, <1>4, <1>5, <1>6, <1>7
  <2>. QED BY <1>7, <1>17, Pieces, Grounds DEF p9
<1>19. Grounded(DB!Creation)
  <2>. \A e \in DB!ToSet(DB!EventLogs) : Targets(e) \subseteq NamesOf(p9)
    BY TargetsOf, Known, <1>1, <1>2, <1>3, <1>4, <1>5, <1>6, <1>7, <1>8
  <2>. QED BY <1>8, <1>18, Pieces, Grounds, <1>0
<1>. QED BY Lengths, <1>19, <1>1, <1>2, <1>3, <1>4, <1>5, <1>6, <1>7, <1>8, <1>9 DEF DB!Entries

\* In this order e comes before every other table that it refers to.
Comes(e, order) ==
    \A n \in DOMAIN order : order[n] \in Targets(e) \ {e.name} =>
        \E m \in 1 .. n - 1 : order[m] = e.name

\* downgrade drops a table before those it refers to.
LEMMA OrderDropping ==
    /\ \A e \in DB!ToSet(DB!Roots) : Comes(e, DB!Dropping)
    /\ \A e \in DB!ToSet(DB!People) : Comes(e, DB!Dropping)
    /\ \A e \in DB!ToSet(DB!Articles) : Comes(e, DB!Dropping)
    /\ \A e \in DB!ToSet(DB!Places) : Comes(e, DB!Dropping)
    /\ \A e \in DB!ToSet(DB!Orders) : Comes(e, DB!Dropping)
    /\ \A e \in DB!ToSet(DB!Movements) : Comes(e, DB!Dropping)
    /\ \A e \in DB!ToSet(DB!Invoicing) : Comes(e, DB!Dropping)
    /\ \A e \in DB!ToSet(DB!Lines) : Comes(e, DB!Dropping)
    /\ \A e \in DB!ToSet(DB!Settlement) : Comes(e, DB!Dropping)
    /\ \A e \in DB!ToSet(DB!EventLogs) : Comes(e, DB!Dropping)
<1>1. \A e \in DB!ToSet(DB!Roots) : Comes(e, DB!Dropping)
  BY DEF Comes, DB!ToSet, Targets, DB!T, DB!OrgOnly, DB!Actor, DB!Ordered, DB!Roots,
         DB!Dropping
<1>2. \A e \in DB!ToSet(DB!People) : Comes(e, DB!Dropping)
  BY DEF Comes, DB!ToSet, Targets, DB!T, DB!OrgOnly, DB!Actor, DB!Ordered, DB!People,
         DB!Dropping
<1>3. \A e \in DB!ToSet(DB!Articles) : Comes(e, DB!Dropping)
  BY DEF Comes, DB!ToSet, Targets, DB!T, DB!OrgOnly, DB!Actor, DB!Ordered, DB!Articles,
         DB!Dropping
<1>4. \A e \in DB!ToSet(DB!Places) : Comes(e, DB!Dropping)
  BY DEF Comes, DB!ToSet, Targets, DB!T, DB!OrgOnly, DB!Actor, DB!Ordered, DB!Places,
         DB!Dropping
<1>5. \A e \in DB!ToSet(DB!Orders) : Comes(e, DB!Dropping)
  BY DEF Comes, DB!ToSet, Targets, DB!T, DB!OrgOnly, DB!Actor, DB!Ordered, DB!Orders,
         DB!Dropping
<1>6. \A e \in DB!ToSet(DB!Movements) : Comes(e, DB!Dropping)
  BY DEF Comes, DB!ToSet, Targets, DB!T, DB!OrgOnly, DB!Actor, DB!Ordered, DB!Movements,
         DB!Dropping
<1>7. \A e \in DB!ToSet(DB!Invoicing) : Comes(e, DB!Dropping)
  BY DEF Comes, DB!ToSet, Targets, DB!T, DB!OrgOnly, DB!Actor, DB!Ordered, DB!Invoicing,
         DB!Dropping
<1>8. \A e \in DB!ToSet(DB!Lines) : Comes(e, DB!Dropping)
  BY DEF Comes, DB!ToSet, Targets, DB!T, DB!OrgOnly, DB!Actor, DB!Ordered, DB!Lines,
         DB!Dropping
<1>9. \A e \in DB!ToSet(DB!Settlement) : Comes(e, DB!Dropping)
  BY DEF Comes, DB!ToSet, Targets, DB!T, DB!OrgOnly, DB!Actor, DB!Ordered, DB!Settlement,
         DB!Dropping
<1>10. \A e \in DB!ToSet(DB!EventLogs) : Comes(e, DB!Dropping)
  BY DEF Comes, DB!ToSet, Targets, DB!T, DB!OrgOnly, DB!Actor, DB!Ordered, DB!EventLogs,
         DB!Dropping
<1>. QED BY <1>1, <1>2, <1>3, <1>4, <1>5, <1>6, <1>7, <1>8, <1>9, <1>10

\* RESET_TABLES empties a table before those it refers to.
LEMMA OrderWipe ==
    /\ \A e \in DB!ToSet(DB!Roots) : Comes(e, DB!Wipe)
    /\ \A e \in DB!ToSet(DB!People) : Comes(e, DB!Wipe)
    /\ \A e \in DB!ToSet(DB!Articles) : Comes(e, DB!Wipe)
    /\ \A e \in DB!ToSet(DB!Places) : Comes(e, DB!Wipe)
    /\ \A e \in DB!ToSet(DB!Orders) : Comes(e, DB!Wipe)
    /\ \A e \in DB!ToSet(DB!Movements) : Comes(e, DB!Wipe)
    /\ \A e \in DB!ToSet(DB!Invoicing) : Comes(e, DB!Wipe)
    /\ \A e \in DB!ToSet(DB!Lines) : Comes(e, DB!Wipe)
    /\ \A e \in DB!ToSet(DB!Settlement) : Comes(e, DB!Wipe)
    /\ \A e \in DB!ToSet(DB!EventLogs) : Comes(e, DB!Wipe)
<1>1. \A e \in DB!ToSet(DB!Roots) : Comes(e, DB!Wipe)
  BY DEF Comes, DB!ToSet, Targets, DB!T, DB!OrgOnly, DB!Actor, DB!Ordered, DB!Roots,
         DB!Wipe, DB!WipeSales, DB!WipeRest
<1>2. \A e \in DB!ToSet(DB!People) : Comes(e, DB!Wipe)
  BY DEF Comes, DB!ToSet, Targets, DB!T, DB!OrgOnly, DB!Actor, DB!Ordered, DB!People,
         DB!Wipe, DB!WipeSales, DB!WipeRest
<1>3. \A e \in DB!ToSet(DB!Articles) : Comes(e, DB!Wipe)
  BY DEF Comes, DB!ToSet, Targets, DB!T, DB!OrgOnly, DB!Actor, DB!Ordered, DB!Articles,
         DB!Wipe, DB!WipeSales, DB!WipeRest
<1>4. \A e \in DB!ToSet(DB!Places) : Comes(e, DB!Wipe)
  BY DEF Comes, DB!ToSet, Targets, DB!T, DB!OrgOnly, DB!Actor, DB!Ordered, DB!Places,
         DB!Wipe, DB!WipeSales, DB!WipeRest
<1>5. \A e \in DB!ToSet(DB!Orders) : Comes(e, DB!Wipe)
  BY DEF Comes, DB!ToSet, Targets, DB!T, DB!OrgOnly, DB!Actor, DB!Ordered, DB!Orders,
         DB!Wipe, DB!WipeSales, DB!WipeRest
<1>6. \A e \in DB!ToSet(DB!Movements) : Comes(e, DB!Wipe)
  BY DEF Comes, DB!ToSet, Targets, DB!T, DB!OrgOnly, DB!Actor, DB!Ordered, DB!Movements,
         DB!Wipe, DB!WipeSales, DB!WipeRest
<1>7. \A e \in DB!ToSet(DB!Invoicing) : Comes(e, DB!Wipe)
  BY DEF Comes, DB!ToSet, Targets, DB!T, DB!OrgOnly, DB!Actor, DB!Ordered, DB!Invoicing,
         DB!Wipe, DB!WipeSales, DB!WipeRest
<1>8. \A e \in DB!ToSet(DB!Lines) : Comes(e, DB!Wipe)
  BY DEF Comes, DB!ToSet, Targets, DB!T, DB!OrgOnly, DB!Actor, DB!Ordered, DB!Lines,
         DB!Wipe, DB!WipeSales, DB!WipeRest
<1>9. \A e \in DB!ToSet(DB!Settlement) : Comes(e, DB!Wipe)
  BY DEF Comes, DB!ToSet, Targets, DB!T, DB!OrgOnly, DB!Actor, DB!Ordered, DB!Settlement,
         DB!Wipe, DB!WipeSales, DB!WipeRest
<1>10. \A e \in DB!ToSet(DB!EventLogs) : Comes(e, DB!Wipe)
  BY DEF Comes, DB!ToSet, Targets, DB!T, DB!OrgOnly, DB!Actor, DB!Ordered, DB!EventLogs,
         DB!Wipe, DB!WipeSales, DB!WipeRest
<1>. QED BY <1>1, <1>2, <1>3, <1>4, <1>5, <1>6, <1>7, <1>8, <1>9, <1>10



\* What the rows that the seeds insert need.
Modest(e) ==
    /\ e.name \in {"organizations", "permissions", "currencies", "msic_codes"} => e.needs = {}
    /\ e.name \in {"roles", "users", "warehouses", "tax_rates", "uoms", "brands", "categories",
                   "suppliers", "customers"} => e.needs = {"organizations"}
    /\ e.name = "role_permissions" => e.needs = {"permissions", "roles"}
    /\ e.name = "user_roles" => e.needs = {"roles", "users"}
    /\ e.name = "skus" => e.needs = {"organizations", "tax_rates", "uoms"}
    /\ e.name \in {"stocks", "stock_movements"} =>
          e.needs = {"organizations", "skus", "warehouses"}

\* ... as the migrations have it.
LEMMA NeedsKnown ==
    \A e \in DB!Entries : Modest(e)
<1>1. \A e \in DB!ToSet(DB!Roots) : Modest(e)
  BY DEF DB!ToSet, DB!T, DB!OrgOnly, DB!Actor, DB!Ordered, DB!Roots, Modest
<1>2. \A e \in DB!ToSet(DB!People) : Modest(e)
  BY DEF DB!ToSet, DB!T, DB!OrgOnly, DB!Actor, DB!Ordered, DB!People, Modest
<1>3. \A e \in DB!ToSet(DB!Articles) : Modest(e)
  BY DEF DB!ToSet, DB!T, DB!OrgOnly, DB!Actor, DB!Ordered, DB!Articles, Modest
<1>4. \A e \in DB!ToSet(DB!Places) : Modest(e)
  BY DEF DB!ToSet, DB!T, DB!OrgOnly, DB!Actor, DB!Ordered, DB!Places, Modest
<1>5. \A e \in DB!ToSet(DB!Orders) : Modest(e)
  BY DEF DB!ToSet, DB!T, DB!OrgOnly, DB!Actor, DB!Ordered, DB!Orders, Modest
<1>6. \A e \in DB!ToSet(DB!Movements) : Modest(e)
  BY DEF DB!ToSet, DB!T, DB!OrgOnly, DB!Actor, DB!Ordered, DB!Movements, Modest
<1>7. \A e \in DB!ToSet(DB!Invoicing) : Modest(e)
  BY DEF DB!ToSet, DB!T, DB!OrgOnly, DB!Actor, DB!Ordered, DB!Invoicing, Modest
<1>8. \A e \in DB!ToSet(DB!Lines) : Modest(e)
  BY DEF DB!ToSet, DB!T, DB!OrgOnly, DB!Actor, DB!Ordered, DB!Lines, Modest
<1>9. \A e \in DB!ToSet(DB!Settlement) : Modest(e)
  BY DEF DB!ToSet, DB!T, DB!OrgOnly, DB!Actor, DB!Ordered, DB!Settlement, Modest
<1>10. \A e \in DB!ToSet(DB!EventLogs) : Modest(e)
  BY DEF DB!ToSet, DB!T, DB!OrgOnly, DB!Actor, DB!Ordered, DB!EventLogs, Modest
<1>. QED BY CreationWhole, <1>1, <1>2, <1>3, <1>4, <1>5, <1>6, <1>7, <1>8, <1>9, <1>10


\* How many steps the scripts and the reset have.
LEMMA ScriptSteps ==
    /\ DOMAIN DB!Dropping = 1 .. 45 /\ Len(DB!Dropping) = 45
    /\ DOMAIN DB!Wipe = 1 .. 28 /\ Len(DB!Wipe) = 28
    /\ Len(DB!Scripts) = 6
    /\ \A n \in 1 .. 28 : DB!Wipe[n] # "warehouses"
  BY DEF DB!Dropping, DB!Wipe, DB!WipeSales, DB!WipeRest, DB!Scripts

\* A reference is one of the migrations, or the one that is added late.
LEMMA ReferencesOf ==
    ASSUME NEW s \in DB!Table, NEW t \in DB!References[s]
    PROVE  \/ \E e \in DB!Entries : e.name = s /\ t \in Targets(e)
           \/ s = DB!LateReference[1] /\ t = DB!LateReference[2]
  BY DEF DB!References, Targets

\* What refers to a table comes before it, in an order that keeps Comes.
LEMMA Refers ==
    ASSUME NEW order, \A e \in DB!Entries : Comes(e, order),
           NEW n \in DOMAIN order, NEW s \in DB!Table,
           order[n] \in DB!References[s], order[n] # s, <<s, order[n]>> # DB!LateReference
    PROVE  \E m \in 1 .. n - 1 : order[m] = s
<1>1. ~(s = DB!LateReference[1] /\ order[n] = DB!LateReference[2])
  BY DEF DB!LateReference
<1>. QED BY <1>1, ReferencesOf DEF Comes

\* What the rows that the seeds insert need, by table.
LEMMA NeedsOf ==
    /\ \A t \in {"organizations", "permissions", "currencies", "msic_codes"} \cap DB!Table :
          DB!Needs[t] = {}
    /\ \A t \in {"roles", "users", "warehouses", "tax_rates", "uoms", "brands", "categories",
                 "suppliers", "customers"} \cap DB!Table : DB!Needs[t] \subseteq {"organizations"}
    /\ "role_permissions" \in DB!Table =>
          DB!Needs["role_permissions"] \subseteq {"permissions", "roles"}
    /\ "user_roles" \in DB!Table => DB!Needs["user_roles"] \subseteq {"roles", "users"}
    /\ "skus" \in DB!Table => DB!Needs["skus"] \subseteq {"organizations", "tax_rates", "uoms"}
    /\ \A t \in {"stocks", "stock_movements"} \cap DB!Table :
          DB!Needs[t] \subseteq {"organizations", "skus", "warehouses"}
<1>1. \A t \in DB!Table : DB!Needs[t] = UNION {e.needs : e \in {x \in DB!Entries : x.name = t}}
  BY DEF DB!Needs
<1>. QED BY <1>1, NeedsKnown DEF Modest

\* The tables are those of the ten migrations.
LEMMA TableOf ==
    DB!Table = NamesOf(DB!Roots) \cup NamesOf(DB!People) \cup NamesOf(DB!Articles)
            \cup NamesOf(DB!Places) \cup NamesOf(DB!Orders) \cup NamesOf(DB!Movements) \cup NamesOf(DB!Invoicing)
            \cup NamesOf(DB!Lines) \cup NamesOf(DB!Settlement) \cup NamesOf(DB!EventLogs)
  BY CreationWhole DEF DB!Table, NamesOf

\* The seeds fill tables that exist.
LEMMA Seedable ==
    {"organizations", "permissions", "currencies", "msic_codes", "roles", "users", "warehouses",
     "tax_rates", "uoms", "brands", "categories", "suppliers", "customers", "role_permissions",
     "user_roles", "skus", "stocks", "stock_movements"} \subseteq DB!Table
  BY TableOf, Known

\* So do the reseed, requests and the log.
LEMMA Filling ==
    /\ \A n \in 1 .. 6 : DB!Tables(DB!Scripts[n]) \subseteq DB!Table
    /\ DB!Tables(DB!Reseed) \subseteq DB!Table
    /\ DB!Written \subseteq DB!Table
    /\ "demo_reset_logs" \in DB!Table
<1>1. \A n \in 1 .. 6 : DB!Tables(DB!Scripts[n]) \subseteq DB!Table
  BY Seedable
     DEF DB!Tables, DB!Scripts, DB!Fill, DB!SeedOrg, DB!SeedPermissions, DB!SeedRoles, DB!SeedUsers,
         DB!SeedWarehouses, DB!SeedCurrencies, DB!SeedTaxRates, DB!SeedUoms, DB!SeedBrands,
         DB!SeedCategories, DB!SeedMsicCodes,
         DB!SeedSkus, DB!SeedSuppliers, DB!SeedCustomers, DB!SeedStock
<1>2. DB!Tables(DB!Reseed) \subseteq DB!Table
  BY TableOf, Known
     DEF DB!Tables, DB!Reseed, DB!Fill, DB!SeedStock, DB!SeedPurchases, DB!SeedSales
<1>3. DB!Written \subseteq DB!Table
  <2>1. \A n \in 1 .. 10 : DB!WipeSales[n] \in DB!Table
    BY TableOf, Known DEF DB!WipeSales
  <2>2. \A n \in 1 .. 18 : DB!WipeRest[n] \in DB!Table
    BY TableOf, Known DEF DB!WipeRest
  <2>3. \A n \in 1 .. 28 : DB!Wipe[n] \in DB!ToSet(DB!WipeSales) \cup DB!ToSet(DB!WipeRest)
    BY DEF DB!Wipe, DB!WipeSales, DB!WipeRest, DB!ToSet
  <2>4. DOMAIN DB!WipeSales = 1 .. 10 /\ DOMAIN DB!WipeRest = 1 .. 18
    BY DEF DB!WipeSales, DB!WipeRest
  <2>. QED BY <2>1, <2>2, <2>3, <2>4, ScriptSteps DEF DB!Written, DB!ToSet
<1>4. "demo_reset_logs" \in DB!Table
  BY TableOf, Known
<1>. QED BY <1>1, <1>2, <1>3, <1>4

\* What the steps of a script before the i-th fill.
LEMMA Earlier ==
    ASSUME NEW script, script \in Seq(DB!ToSet(script)), NEW i \in DOMAIN script
    PROVE  DB!Tables(SubSeq(script, 1, i - 1)) = UNION {script[j].tables : j \in 1 .. i - 1}
<1>1. /\ DOMAIN SubSeq(script, 1, i - 1) = 1 .. i - 1
      /\ \A j \in 1 .. i - 1 : SubSeq(script, 1, i - 1)[j] = script[j]
  OBVIOUS
<1>. QED BY <1>1 DEF DB!Tables

\* A script runs if each step finds what it reads and what its rows need.
LEMMA RunsIf ==
    ASSUME NEW script, script \in Seq(DB!ToSet(script)), NEW f,
           \A i \in DOMAIN script :
              LET there == f \cup UNION {script[j].tables : j \in 1 .. i - 1}
              IN  /\ script[i].reads \subseteq there
                  /\ \A t \in script[i].tables : DB!Needs[t] \subseteq there \cup script[i].tables
    PROVE  DB!Runs(script, f)
  BY Earlier DEF DB!Runs

\* What the later seeds find of the earlier ones.
LEMMA ScriptTables ==
    /\ {"organizations", "permissions", "roles", "users", "warehouses"}
          \subseteq DB!Tables(DB!Scripts[1])
    /\ {"tax_rates", "uoms", "brands", "categories"} \subseteq DB!Tables(DB!Scripts[2])
    /\ {"skus"} \subseteq DB!Tables(DB!Scripts[3])
<1>1. {"organizations", "permissions", "roles", "users", "warehouses"}
          \subseteq DB!Tables(DB!Scripts[1])
  BY DEF DB!Tables, DB!Scripts, DB!Fill, DB!SeedOrg, DB!SeedPermissions, DB!SeedRoles,
         DB!SeedUsers, DB!SeedWarehouses
<1>2. {"tax_rates", "uoms", "brands", "categories"} \subseteq DB!Tables(DB!Scripts[2])
  BY DEF DB!Tables, DB!Scripts, DB!Fill, DB!SeedCurrencies, DB!SeedTaxRates, DB!SeedUoms,
         DB!SeedBrands, DB!SeedCategories, DB!SeedMsicCodes
<1>3. {"skus"} \subseteq DB!Tables(DB!Scripts[3])
  BY DEF DB!Tables, DB!Scripts, DB!Fill, DB!SeedSkus
<1>. QED BY <1>1, <1>2, <1>3

\* seed_all_master: each script runs after the ones before it.
LEMMA SeedsRun ==
    ASSUME NEW n \in 1 .. 6, NEW f, \A i \in 1 .. n - 1 : DB!Tables(DB!Scripts[i]) \subseteq f
    PROVE  DB!Runs(DB!Scripts[n], f)
<1>. DEFINE First == {"organizations", "permissions", "roles", "users", "warehouses"}
            Second == {"tax_rates", "uoms", "brands", "categories"}
<1>0. /\ n > 1 => First \subseteq f
      /\ n > 2 => Second \subseteq f
      /\ n > 3 => "skus" \in f
  BY ScriptTables
<1>1. CASE n = 1
  <2>. DEFINE s == DB!Scripts[1]
              there(i) == f \cup UNION {s[j].tables : j \in 1 .. i - 1}
  <2>1. /\ s \in Seq(DB!ToSet(s)) /\ DOMAIN s = 1 .. 5
        /\ s[1] = DB!SeedOrg /\ s[2] = DB!SeedPermissions /\ s[3] = DB!SeedRoles /\ s[4] = DB!SeedUsers
        /\ s[5] = DB!SeedWarehouses
    BY DEF DB!Scripts, DB!ToSet
  <2>. HIDE DEF s
  <2>2. /\ \A i \in 2 .. 5 : "organizations" \in there(i)
        /\ \A i \in 3 .. 5 : "permissions" \in there(i)
        /\ \A i \in 4 .. 5 : "roles" \in there(i)
    BY <2>1 DEF DB!SeedOrg, DB!SeedPermissions, DB!SeedRoles, DB!Fill
  <2>. HIDE DEF there
  <2>3. \A i \in 1 .. 5 : /\ s[i].reads \subseteq there(i)
                          /\ \A t \in s[i].tables : DB!Needs[t] \subseteq there(i) \cup s[i].tables
    BY <2>1, <2>2, NeedsOf, Seedable
       DEF DB!SeedOrg, DB!SeedPermissions, DB!SeedRoles, DB!SeedUsers, DB!SeedWarehouses, DB!Fill
  <2>. QED BY <1>1, <2>1, <2>3, RunsIf DEF s, there
<1>2. CASE n = 2
  <2>. DEFINE s == DB!Scripts[2]
  <2>1. /\ s \in Seq(DB!ToSet(s)) /\ DOMAIN s = 1 .. 6
        /\ s[1] = DB!SeedCurrencies /\ s[2] = DB!SeedTaxRates /\ s[3] = DB!SeedUoms
        /\ s[4] = DB!SeedBrands
        /\ s[5] = DB!SeedCategories /\ s[6] = DB!SeedMsicCodes
    BY DEF DB!Scripts, DB!ToSet
  <2>. HIDE DEF s
  <2>3. \A i \in 1 .. 6 : /\ s[i].reads = {}
                          /\ \A t \in s[i].tables : DB!Needs[t] \subseteq f
    BY <1>0, <1>2, <2>1, NeedsOf, Seedable
       DEF DB!SeedCurrencies, DB!SeedTaxRates, DB!SeedUoms, DB!SeedBrands, DB!SeedCategories,
           DB!SeedMsicCodes, DB!Fill
  <2>. QED BY <1>2, <2>1, <2>3, RunsIf DEF s
<1>3. CASE n \in 3 .. 6
  <2>1. PICK x \in {DB!SeedSkus, DB!SeedSuppliers, DB!SeedCustomers, DB!SeedStock} :
            DB!Scripts[n] = <<x>> /\ (x = DB!SeedStock => n = 6)
    <3>1. /\ DB!Scripts[3] = <<DB!SeedSkus>> /\ DB!Scripts[4] = <<DB!SeedSuppliers>>
          /\ DB!Scripts[5] = <<DB!SeedCustomers>> /\ DB!Scripts[6] = <<DB!SeedStock>>
      BY DEF DB!Scripts
    <3>2. DB!SeedStock \notin {DB!SeedSkus, DB!SeedSuppliers, DB!SeedCustomers}
      <4>1. "stocks" \in DB!SeedStock.tables
        BY DEF DB!SeedStock, DB!Fill
      <4>2. /\ "stocks" \notin DB!SeedSkus.tables /\ "stocks" \notin DB!SeedSuppliers.tables
            /\ "stocks" \notin DB!SeedCustomers.tables
        BY DEF DB!SeedSkus, DB!SeedSuppliers, DB!SeedCustomers, DB!Fill
      <4>. QED BY <4>1, <4>2
    <3>. QED BY <3>1, <3>2, <1>3
  <2>2. x.reads \subseteq f /\ \A t \in x.tables : DB!Needs[t] \subseteq f
    BY <1>0, <1>3, <2>1, NeedsOf, Seedable
       DEF DB!SeedSkus, DB!SeedSuppliers, DB!SeedCustomers, DB!SeedStock, DB!Fill
  <2>. DEFINE s == <<x>>
  <2>3. s \in Seq(DB!ToSet(s)) /\ DOMAIN s = 1 .. 1 /\ s[1] = x
    BY DEF DB!ToSet
  <2>. HIDE DEF s
  <2>4. DB!Runs(s, f)
    BY <2>2, <2>3, RunsIf
  <2>. QED BY <2>1, <2>4 DEF s
<1>. QED BY <1>1, <1>2, <1>3

\* The scripts that are run by hand.
ByHand == {"upgrade", "seed", "downgrade"}

Kind == {"idle", "reset"} \cup ByHand

\* A table whose rows refer to another table that the reset empties.
Referring(s) == \E n \in DOMAIN DB!Wipe : DB!Wipe[n] \in DB!References[s] \ {s}

\* The types, as far as the proof needs them.
JobsTyped ==
    /\ job \in [Job -> [kind : Kind, next : Nat]]
    /\ \A j \in Job : job[j].next > 0
    /\ filled \subseteq DB!Table
    /\ exists \subseteq DB!Table

\* A script that is run by hand has the database for itself.
ByHandAlone ==
    \A j, k \in Job : job[j].kind \in ByHand /\ k # j => job[k].kind = "idle"

\* How far a script has come says what is there.
ScriptsOnTheirWay ==
    \A j \in Job :
        /\ job[j].kind = "upgrade" =>
              /\ job[j].next <= 45
              /\ exists = {DB!Creation[i].name : i \in 1 .. job[j].next - 1}
        /\ job[j].kind = "downgrade" =>
              /\ job[j].next <= 45
              /\ exists = DB!Table \ {DB!Dropping[i] : i \in 1 .. job[j].next - 1}
        /\ job[j].kind = "seed" =>
              /\ job[j].next <= 6
              /\ \A i \in 1 .. job[j].next - 1 : DB!Tables(DB!Scripts[i]) \subseteq filled

\* What a reset has emptied is empty, or somebody else has filled it again.
WipedStaysWiped ==
    \A j \in Job : job[j].kind = "reset" /\ job[j].next <= 28 =>
        \A n \in 1 .. job[j].next - 1 :
            DB!Wipe[n] \in filled /\ Referring(DB!Wipe[n]) => DB!Wipe[n] \in touched

DatabaseInv ==
    /\ JobsTyped
    /\ ByHandAlone
    /\ ScriptsOnTheirWay
    /\ WipedStaysWiped
    /\ DB!ReferencesHold


\* The log of the resets refers to nothing that a reset empties.
LEMMA NotReferring == ~Referring("demo_reset_logs")
<1>1. \A e \in DB!Entries : e.name = "demo_reset_logs" => Targets(e) \subseteq {"users"}
  <2>. DEFINE P(e) == e.name = "demo_reset_logs" => Targets(e) \subseteq {"users"}
  <2>1. \A e \in DB!ToSet(DB!Roots) \cup DB!ToSet(DB!People) \cup DB!ToSet(DB!Articles)
                \cup DB!ToSet(DB!Places) : P(e)
    BY DEF DB!ToSet, DB!T, DB!OrgOnly, DB!Actor, DB!Roots, DB!People, DB!Articles,
           DB!Places, Targets
  <2>2. \A e \in DB!ToSet(DB!Orders) \cup DB!ToSet(DB!Movements) \cup DB!ToSet(DB!Invoicing) : P(e)
    BY DEF DB!ToSet, DB!T, DB!OrgOnly, DB!Actor, DB!Ordered, DB!Orders, DB!Movements,
           DB!Invoicing, Targets
  <2>3. \A e \in DB!ToSet(DB!Lines) \cup DB!ToSet(DB!Settlement)
                \cup DB!ToSet(DB!EventLogs) : P(e)
    BY DEF DB!ToSet, DB!T, DB!OrgOnly, DB!Actor, DB!Ordered, DB!Lines, DB!Settlement,
           DB!EventLogs, Targets
  <2>. QED BY <2>1, <2>2, <2>3, CreationWhole
<1>2. \A n \in 1 .. 28 : DB!Wipe[n] # "users"
  BY DEF DB!Wipe, DB!WipeSales, DB!WipeRest
<1>3. \A t \in DB!References["demo_reset_logs"] : t = "users"
  BY <1>1, ReferencesOf, Filling DEF DB!LateReference
<1>. QED BY <1>2, <1>3, ScriptSteps DEF Referring

\* CREATE TABLE finds the tables that the new one refers to.
LEMMA UpgradeFits ==
    ASSUME NEW n \in 1 .. 45
    PROVE  /\ DB!Creation[n].needs \cup DB!Creation[n].may
                 \subseteq {DB!Creation[i].name : i \in 1 .. n}
           /\ DB!Creation[n].name \in DB!Table
<1>1. n \in DOMAIN DB!Creation
  BY CreationWhole
<1>2. DB!Creation[n] \in DB!Entries
  BY <1>1 DEF DB!Entries, DB!ToSet
<1>. QED BY <1>1, <1>2, CreationWhole DEF Grounded, Targets, DB!Table

\* Nothing that is still there refers to the table that is dropped.
LEMMA DowngradeFits ==
    ASSUME NEW n \in 1 .. 45, NEW s \in DB!Table,
           s \notin {DB!Dropping[i] : i \in 1 .. n - 1}, s # DB!Dropping[n],
           DB!Dropping[n] \in DB!References[s], <<s, DB!Dropping[n]>> # DB!LateReference
    PROVE  FALSE
<1>1. \A e \in DB!Entries : Comes(e, DB!Dropping)
  BY OrderDropping, CreationWhole
<1>2. \E m \in 1 .. n - 1 : DB!Dropping[m] = s
  BY <1>1, Refers, ScriptSteps
<1>. QED BY <1>2

\* What refers to the table being truncated was truncated before.
LEMMA TruncateFits ==
    ASSUME NEW n \in 1 .. 28, NEW s \in DB!Table, s # DB!Wipe[n], DB!Wipe[n] \in DB!References[s]
    PROVE  Referring(s) /\ \E m \in 1 .. n - 1 : DB!Wipe[m] = s
<1>1. \A e \in DB!Entries : Comes(e, DB!Wipe)
  BY OrderWipe, CreationWhole
<1>2. <<s, DB!Wipe[n]>> # DB!LateReference
  BY ScriptSteps DEF DB!LateReference
<1>3. \E m \in 1 .. n - 1 : DB!Wipe[m] = s
  BY <1>1, <1>2, Refers, ScriptSteps
<1>. QED BY <1>3, ScriptSteps DEF Referring

\* The empty database satisfies the invariant.
LEMMA DatabaseStarts == DB!Init => DatabaseInv
<1>. SUFFICES ASSUME DB!Init PROVE DatabaseInv
  OBVIOUS
<1>1. \A j \in Job : job[j] = [kind |-> "idle", next |-> 1]
  BY DEF DB!Init, DB!Idle
<1>2. JobsTyped
  BY DEF DB!Init, DB!Idle, JobsTyped, Kind
<1>3. ByHandAlone /\ ScriptsOnTheirWay /\ WipedStaysWiped
  BY <1>1 DEF ByHandAlone, ScriptsOnTheirWay, WipedStaysWiped, ByHand
<1>. QED BY <1>2, <1>3 DEF DatabaseInv, DB!ReferencesHold, DB!Init

\* Where a slot gets a job or goes on with one, the others stay what they are.
LEMMA StartJob ==
    ASSUME DatabaseInv, NEW j \in Job, NEW kind \in Kind, DB!Start(j, kind)
    PROVE  /\ job' \in [Job -> [kind : Kind, next : Nat]]
           /\ \A k \in Job : job'[k].next > 0
           /\ job'[j].kind = kind /\ job'[j].next = 1
           /\ \A k \in Job \ {j} : job'[k] = job[k]
  BY DEF DB!Start, DatabaseInv, JobsTyped

\* ... and the same where a job goes on to its next step.
LEMMA AdvanceJob ==
    ASSUME DatabaseInv, NEW j \in Job, NEW steps \in Nat, DB!Advance(j, steps)
    PROVE  /\ job' \in [Job -> [kind : Kind, next : Nat]]
           /\ \A k \in Job : job'[k].next > 0
           /\ job[j].next = steps => job'[j].kind = "idle"
           /\ job[j].next # steps =>
                 job'[j].kind = job[j].kind /\ job'[j].next = job[j].next + 1
           /\ \A k \in Job \ {j} : job'[k] = job[k]
<1>1. job[j] \in [kind : Kind, next : Nat] /\ job[j].next > 0
  BY DEF DatabaseInv, JobsTyped
<1>2. CASE job[j].next = steps
  <2>1. job' = [job EXCEPT ![j] = DB!Idle]
    BY <1>2 DEF DB!Advance
  <2>. QED BY <1>2, <2>1 DEF DatabaseInv, JobsTyped, DB!Idle, Kind
<1>3. CASE job[j].next # steps
  <2>1. job' = [job EXCEPT ![j] = [kind |-> @.kind, next |-> @.next + 1]]
    BY <1>3 DEF DB!Advance
  <2>. QED BY <1>1, <1>3, <2>1 DEF DatabaseInv, JobsTyped
<1>. QED BY <1>2, <1>3

\* Each step preserves the invariant: a script starts,
LEMMA StartByHandKeeps ==
    ASSUME DatabaseInv, NEW j \in Job, NEW kind \in ByHand, DB!StartByHand(j, kind)
    PROVE  DatabaseInv'
<1>. USE DEF DB!StartByHand
<1>1. \A k \in Job : job[k].kind = "idle"
  BY DEF DB!Alone, DB!Idle
<1>2. /\ job' \in [Job -> [kind : Kind, next : Nat]]
      /\ \A k \in Job : job'[k].next > 0
      /\ job'[j].kind = kind /\ job'[j].next = 1
      /\ \A k \in Job \ {j} : job'[k] = job[k]
  BY StartJob DEF Kind
<1>3. JobsTyped'
  BY <1>2 DEF DatabaseInv, JobsTyped
<1>4. ByHandAlone'
  BY <1>1, <1>2 DEF ByHandAlone, ByHand
<1>5. ScriptsOnTheirWay'
  <2>1. /\ exists' = exists
        /\ kind = "upgrade" => exists = {}
        /\ kind = "downgrade" => exists = DB!Table
    OBVIOUS
  <2>. QED BY <2>1, <1>1, <1>2 DEF ScriptsOnTheirWay, ByHand
<1>6. WipedStaysWiped'
  BY <1>1, <1>2 DEF WipedStaysWiped, ByHand
<1>. QED BY <1>3, <1>4, <1>5, <1>6 DEF DatabaseInv, DB!ReferencesHold

\* the next table is created,
LEMMA UpgradeKeeps ==
    ASSUME DatabaseInv, NEW j \in Job, DB!Upgrade(j)
    PROVE  DatabaseInv'
<1>. DEFINE n == job[j].next
<1>0. job[j].kind = "upgrade"
  BY DEF DB!Upgrade
<1>1. n \in 1 .. 45 /\ exists = {DB!Creation[i].name : i \in 1 .. n - 1}
  BY <1>0 DEF DatabaseInv, JobsTyped, ScriptsOnTheirWay
<1>2. \A k \in Job \ {j} : job[k].kind = "idle"
  BY <1>0 DEF DatabaseInv, ByHandAlone, ByHand
<1>3. /\ job' \in [Job -> [kind : Kind, next : Nat]]
      /\ \A k \in Job : job'[k].next > 0
      /\ n = 45 => job'[j].kind = "idle"
      /\ n # 45 => job'[j].kind = "upgrade" /\ job'[j].next = n + 1
      /\ \A k \in Job \ {j} : job'[k] = job[k]
  BY <1>0, AdvanceJob, CreationWhole DEF DB!Upgrade
<1>4. /\ exists' = exists \cup {DB!Creation[n].name}
      /\ refused' = (refused \/ ~(DB!Creation[n].needs \cup DB!Creation[n].may \subseteq exists'))
      /\ UNCHANGED <<filled, dangling, touched>>
  BY DEF DB!Upgrade
<1>5. exists' = {DB!Creation[i].name : i \in 1 .. n}
  BY <1>1, <1>4
<1>6. ~refused'
  BY <1>1, <1>4, <1>5, UpgradeFits DEF DatabaseInv, DB!ReferencesHold
<1>7. JobsTyped'
  BY <1>1, <1>3, <1>4, UpgradeFits DEF DatabaseInv, JobsTyped
<1>8. ByHandAlone' /\ WipedStaysWiped'
  BY <1>2, <1>3 DEF ByHandAlone, WipedStaysWiped, ByHand
<1>9. ScriptsOnTheirWay'
  <2>. HIDE DEF n
  <2>1. \A k \in Job : job'[k].kind \in ByHand => k = j /\ n # 45
    BY <1>2, <1>3 DEF ByHand
  <2>. QED BY <2>1, <1>1, <1>3, <1>5 DEF ScriptsOnTheirWay, ByHand
<1>. QED BY <1>4, <1>6, <1>7, <1>8, <1>9 DEF DatabaseInv, DB!ReferencesHold

\* or dropped,
LEMMA DowngradeKeeps ==
    ASSUME DatabaseInv, NEW j \in Job, DB!Downgrade(j)
    PROVE  DatabaseInv'
<1>. DEFINE n == job[j].next
            t == DB!Dropping[n]
            inTheWay == {s \in exists \ {t} : t \in DB!References[s] /\ <<s, t>> # DB!LateReference}
<1>0. job[j].kind = "downgrade"
  BY DEF DB!Downgrade
<1>1. n \in 1 .. 45 /\ exists = DB!Table \ {DB!Dropping[i] : i \in 1 .. n - 1}
  BY <1>0 DEF DatabaseInv, JobsTyped, ScriptsOnTheirWay
<1>2. \A k \in Job \ {j} : job[k].kind = "idle"
  BY <1>0 DEF DatabaseInv, ByHandAlone, ByHand
<1>3. /\ job' \in [Job -> [kind : Kind, next : Nat]]
      /\ \A k \in Job : job'[k].next > 0
      /\ n = 45 => job'[j].kind = "idle"
      /\ n # 45 => job'[j].kind = "downgrade" /\ job'[j].next = n + 1
      /\ \A k \in Job \ {j} : job'[k] = job[k]
  BY <1>0, AdvanceJob, ScriptSteps DEF DB!Downgrade
<1>4. /\ exists' = exists \ {t} /\ filled' = filled \ {t}
      /\ refused' = (refused \/ inTheWay # {})
      /\ UNCHANGED <<dangling, touched>>
  BY DEF DB!Downgrade
<1>5. exists' = DB!Table \ {DB!Dropping[i] : i \in 1 .. n}
  BY <1>1, <1>4
<1>6. inTheWay = {}
  BY <1>1, DowngradeFits
<1>7. JobsTyped'
  BY <1>3, <1>4 DEF DatabaseInv, JobsTyped
<1>8. ByHandAlone' /\ WipedStaysWiped'
  BY <1>2, <1>3 DEF ByHandAlone, WipedStaysWiped, ByHand
<1>9. ScriptsOnTheirWay'
  <2>. HIDE DEF n
  <2>1. \A k \in Job : job'[k].kind \in ByHand => k = j /\ n # 45
    BY <1>2, <1>3 DEF ByHand
  <2>. QED BY <2>1, <1>1, <1>3, <1>5 DEF ScriptsOnTheirWay, ByHand
<1>. QED BY <1>4, <1>6, <1>7, <1>8, <1>9 DEF DatabaseInv, DB!ReferencesHold

\* the next script is run,
LEMMA SeedKeeps ==
    ASSUME DatabaseInv, NEW j \in Job, DB!Seed(j)
    PROVE  DatabaseInv'
<1>. DEFINE n == job[j].next
<1>0. job[j].kind = "seed"
  BY DEF DB!Seed
<1>1. n \in 1 .. 6 /\ \A i \in 1 .. n - 1 : DB!Tables(DB!Scripts[i]) \subseteq filled
  BY <1>0 DEF DatabaseInv, JobsTyped, ScriptsOnTheirWay
<1>2. \A k \in Job \ {j} : job[k].kind = "idle"
  BY <1>0 DEF DatabaseInv, ByHandAlone, ByHand
<1>3. /\ job' \in [Job -> [kind : Kind, next : Nat]]
      /\ \A k \in Job : job'[k].next > 0
      /\ n = 6 => job'[j].kind = "idle"
      /\ n # 6 => job'[j].kind = "seed" /\ job'[j].next = n + 1
      /\ \A k \in Job \ {j} : job'[k] = job[k]
  BY <1>0, AdvanceJob, ScriptSteps DEF DB!Seed
<1>4. DB!Runs(DB!Scripts[n], filled)
  BY <1>1, SeedsRun
<1>5. /\ filled' = filled \cup DB!Tables(DB!Scripts[n])
      /\ UNCHANGED <<exists, dangling, touched, refused>>
  BY <1>4 DEF DB!Seed
<1>7. JobsTyped'
  BY <1>1, <1>3, <1>5, Filling DEF DatabaseInv, JobsTyped
<1>8. ByHandAlone' /\ WipedStaysWiped'
  BY <1>2, <1>3 DEF ByHandAlone, WipedStaysWiped, ByHand
<1>9. ScriptsOnTheirWay'
  <2>. HIDE DEF n
  <2>1. \A k \in Job : job'[k].kind \in ByHand => k = j /\ n # 6
    BY <1>2, <1>3 DEF ByHand
  <2>. QED BY <2>1, <1>1, <1>3, <1>5 DEF ScriptsOnTheirWay, ByHand
<1>. QED BY <1>5, <1>7, <1>8, <1>9 DEF DatabaseInv, DB!ReferencesHold

\* documents are written,
LEMMA TradeKeeps == DatabaseInv /\ DB!Trade => DatabaseInv'
<1>. SUFFICES ASSUME DatabaseInv, DB!Trade PROVE DatabaseInv'
  OBVIOUS
<1>1. /\ filled' = filled \cup DB!Written
      /\ UNCHANGED <<exists, job, dangling, touched, refused>>
  BY DEF DB!Trade
<1>2. \A k \in Job : job'[k].kind = "idle"
  BY DEF DB!Trade, DB!Alone, DB!Idle
<1>3. JobsTyped'
  BY <1>1, Filling DEF DatabaseInv, JobsTyped
<1>4. ByHandAlone' /\ ScriptsOnTheirWay' /\ WipedStaysWiped'
  BY <1>2 DEF ByHandAlone, ScriptsOnTheirWay, WipedStaysWiped, ByHand
<1>. QED BY <1>1, <1>3, <1>4 DEF DatabaseInv, DB!ReferencesHold

\* (while a reset runs, no script does,)
LEMMA NoneByHand ==
    ASSUME DatabaseInv, NEW j \in Job, job[j].kind = "reset"
    PROVE  \A k \in Job : job[k].kind \notin ByHand
  BY DEF DatabaseInv, ByHandAlone, ByHand

\* a request writes behind the wipe,
LEMMA InsertKeeps ==
    ASSUME DatabaseInv, NEW t \in DB!Written, DB!Insert(t)
    PROVE  DatabaseInv'
<1>1. /\ filled' = filled \cup {t} /\ touched' = touched \cup {t}
      /\ UNCHANGED <<exists, job, dangling, refused>>
  BY DEF DB!Insert
<1>2. \A k \in Job : job[k].kind \notin ByHand
  BY NoneByHand DEF DB!Insert, DB!Running
<1>3. JobsTyped'
  BY <1>1, Filling DEF DatabaseInv, JobsTyped
<1>4. ByHandAlone' /\ ScriptsOnTheirWay'
  BY <1>1, <1>2 DEF ByHandAlone, ScriptsOnTheirWay, ByHand
<1>5. WipedStaysWiped'
  BY <1>1 DEF DatabaseInv, WipedStaysWiped, Referring
<1>. QED BY <1>1, <1>3, <1>4, <1>5 DEF DatabaseInv, DB!ReferencesHold

\* a reset starts,
LEMMA StartResetKeeps ==
    ASSUME DatabaseInv, NEW j \in Job, DB!StartReset(j)
    PROVE  DatabaseInv'
<1>1. /\ filled' = filled \cup {"demo_reset_logs"}
      /\ UNCHANGED <<exists, dangling, touched, refused>>
  BY DEF DB!StartReset
<1>2. \A k \in Job : job[k].kind \notin ByHand
  BY DEF DB!StartReset, DB!Running, ByHand
<1>3. /\ job' \in [Job -> [kind : Kind, next : Nat]]
      /\ \A k \in Job : job'[k].next > 0
      /\ job'[j].kind = "reset" /\ job'[j].next = 1
      /\ \A k \in Job \ {j} : job'[k] = job[k]
  BY StartJob DEF DB!StartReset, Kind
<1>4. JobsTyped'
  BY <1>1, <1>3, Filling DEF DatabaseInv, JobsTyped
<1>5. \A k \in Job : job'[k].kind \notin ByHand
  BY <1>2, <1>3 DEF ByHand
<1>6. ByHandAlone' /\ ScriptsOnTheirWay'
  BY <1>5 DEF ByHandAlone, ScriptsOnTheirWay, ByHand
<1>7. WipedStaysWiped'
  BY <1>1, <1>3, NotReferring DEF DatabaseInv, WipedStaysWiped, Referring
<1>. QED BY <1>1, <1>4, <1>6, <1>7 DEF DatabaseInv, DB!ReferencesHold

\* A reset in its wipe, and what becomes of its slot at the next step.
LEMMA ResetGoesOn ==
    ASSUME DatabaseInv, NEW j \in Job, job[j].kind = "reset", DB!Advance(j, DB!LogStep)
    PROVE  /\ job' \in [Job -> [kind : Kind, next : Nat]]
           /\ \A k \in Job : job'[k].next > 0
           /\ job[j].next < 30 => job'[j].kind = "reset" /\ job'[j].next = job[j].next + 1
           /\ job[j].next = 30 => job'[j].kind = "idle"
           /\ \A k \in Job \ {j} : job'[k] = job[k]
           /\ \A k \in Job : job[k].kind \notin ByHand
           /\ job[j].next <= 30 => \A k \in Job : job'[k].kind \notin ByHand
<1>1. DB!LogStep = 30
  BY ScriptSteps DEF DB!LogStep
<1>2. job[j].next \in Nat
  BY DEF DatabaseInv, JobsTyped
<1>. QED BY <1>1, <1>2, AdvanceJob, NoneByHand DEF ByHand

\* truncates the next table,
LEMMA TruncateKeeps ==
    ASSUME DatabaseInv, NEW j \in Job, DB!Truncate(j)
    PROVE  DatabaseInv'
<1>. DEFINE n == job[j].next
            t == DB!Wipe[n]
            lost == {s \in filled \ {t} : t \in filled /\ t \in DB!References[s]}
<1>0. job[j].kind = "reset" /\ n \in 1 .. 28
  BY ScriptSteps DEF DB!Truncate, DB!Resetting
<1>1. /\ filled' = filled \ {t} /\ touched' = touched \ {t}
      /\ dangling' = {p \in dangling : p[1] # t} \cup {<<s, t>> : s \in lost}
      /\ UNCHANGED <<exists, refused>>
  BY DEF DB!Truncate
<1>2. DB!Advance(j, DB!LogStep)
  BY DEF DB!Truncate
<1>3. /\ job' \in [Job -> [kind : Kind, next : Nat]]
      /\ \A k \in Job : job'[k].next > 0
      /\ job'[j].kind = "reset" /\ job'[j].next = n + 1
      /\ \A k \in Job \ {j} : job'[k] = job[k]
      /\ \A k \in Job : job'[k].kind \notin ByHand
  BY <1>0, <1>2, ResetGoesOn
<1>4. JobsTyped'
  BY <1>1, <1>3 DEF DatabaseInv, JobsTyped
<1>5. ByHandAlone' /\ ScriptsOnTheirWay'
  BY <1>3 DEF ByHandAlone, ScriptsOnTheirWay, ByHand
<1>6. WipedStaysWiped'
  <2>. SUFFICES ASSUME NEW k \in Job, job'[k].kind = "reset", job'[k].next <= 28,
                       NEW m \in 1 .. job'[k].next - 1, DB!Wipe[m] \in filled', Referring(DB!Wipe[m])
                PROVE  DB!Wipe[m] \in touched'
    BY DEF WipedStaysWiped, Referring
  <2>1. DB!Wipe[m] # t /\ DB!Wipe[m] \in filled
    BY <1>1
  <2>2. m # n
    BY <2>1
  <2>3. job[k].kind = "reset" /\ job[k].next <= 28 /\ m \in 1 .. job[k].next - 1
    BY <1>0, <1>3, <2>2
  <2>4. DB!Wipe[m] \in touched
    BY <2>1, <2>3 DEF DatabaseInv, WipedStaysWiped
  <2>. QED BY <1>1, <2>1, <2>4
<1>7. \A s \in lost : s \in touched'
  <2>. SUFFICES ASSUME NEW s \in filled, s # t, t \in DB!References[s]
                PROVE  s \in touched
    BY <1>1
  <2>1. s \in DB!Table
    BY DEF DatabaseInv, JobsTyped
  <2>2. Referring(s) /\ \E m \in 1 .. n - 1 : DB!Wipe[m] = s
    BY <1>0, <2>1, TruncateFits
  <2>. QED BY <1>0, <2>2 DEF DatabaseInv, WipedStaysWiped
<1>8. \A p \in dangling' : p[1] \in touched'
  <2>. HIDE DEF lost, t
  <2>. QED BY <1>1, <1>7 DEF DatabaseInv, DB!ReferencesHold
<1>. QED BY <1>1, <1>4, <1>5, <1>6, <1>8 DEF DatabaseInv, DB!ReferencesHold

\* reseeds,
LEMMA ReseedKeeps ==
    ASSUME DatabaseInv, NEW j \in Job, DB!ReseedAll(j)
    PROVE  DatabaseInv'
<1>0. job[j].kind = "reset" /\ job[j].next = 29 /\ DB!Advance(j, DB!LogStep)
  BY ScriptSteps DEF DB!ReseedAll, DB!Resetting
<1>1. /\ filled \subseteq filled' /\ filled' \subseteq filled \cup DB!Tables(DB!Reseed)
      /\ touched \subseteq touched'
      /\ UNCHANGED <<exists, dangling, refused>>
  BY DEF DB!ReseedAll
<1>2. /\ job' \in [Job -> [kind : Kind, next : Nat]]
      /\ \A k \in Job : job'[k].next > 0
      /\ job'[j].kind = "reset" /\ job'[j].next = 30
      /\ \A k \in Job \ {j} : job'[k] = job[k]
      /\ \A k \in Job : job'[k].kind \notin ByHand
  BY <1>0, ResetGoesOn
<1>3. JobsTyped'
  BY <1>1, <1>2, Filling DEF DatabaseInv, JobsTyped
<1>4. ByHandAlone' /\ ScriptsOnTheirWay'
  BY <1>2 DEF ByHandAlone, ScriptsOnTheirWay, ByHand
<1>5. WipedStaysWiped'
  <2>. SUFFICES ASSUME NEW k \in Job, job'[k].kind = "reset", job'[k].next <= 28,
                       NEW m \in 1 .. job'[k].next - 1, DB!Wipe[m] \in filled', Referring(DB!Wipe[m])
                PROVE  DB!Wipe[m] \in touched'
    BY DEF WipedStaysWiped, Referring
  <2>1. k # j /\ job[k] = job'[k]
    BY <1>2
  <2>2. DB!Running("reset") # {j}
    BY <2>1 DEF DB!Running
  <2>3. touched' = touched \cup DB!Tables(DB!Reseed)
    BY <2>2 DEF DB!ReseedAll
  <2>4. DB!Wipe[m] \in filled => DB!Wipe[m] \in touched
    BY <2>1 DEF DatabaseInv, WipedStaysWiped
  <2>. QED BY <1>1, <2>3, <2>4
<1>. QED BY <1>1, <1>3, <1>4, <1>5 DEF DatabaseInv, DB!ReferencesHold

\* fails in its wipe or its reseed,
LEMMA FailKeeps ==
    ASSUME DatabaseInv, NEW j \in Job, DB!WipeFails(j) \/ DB!ReseedFails(j)
    PROVE  DatabaseInv'
<1>. DEFINE flushed(n) == DB!Tables(SubSeq(DB!Reseed, 1, n))
<1>1. job[j].kind = "reset" /\ job' = [job EXCEPT ![j] = DB!Idle]
  BY DEF DB!WipeFails, DB!ReseedFails, DB!Resetting
<1>2. PICK new \in SUBSET DB!Tables(DB!Reseed) :
          /\ filled' = filled \cup new \cup {"demo_reset_logs"}
          /\ touched' = IF DB!Running("reset") = {j} THEN touched ELSE touched \cup new
          /\ UNCHANGED <<exists, dangling, refused>>
  <2>1. CASE DB!WipeFails(j)
    <3>. DEFINE none == {}
    <3>1. /\ filled' = filled \cup none \cup {"demo_reset_logs"}
          /\ touched' = IF DB!Running("reset") = {j} THEN touched ELSE touched \cup none
          /\ UNCHANGED <<exists, dangling, refused>>
      BY <2>1 DEF DB!WipeFails
    <3>2. none \in SUBSET DB!Tables(DB!Reseed)
      OBVIOUS
    <3>. HIDE DEF none
    <3>. QED BY <3>1, <3>2
  <2>2. CASE DB!ReseedFails(j)
    <3>1. PICK n \in 0 .. Len(DB!Reseed) :
              /\ filled' = filled \cup flushed(n) \cup {"demo_reset_logs"}
              /\ touched' = IF DB!Running("reset") = {j} THEN touched ELSE touched \cup flushed(n)
              /\ UNCHANGED <<exists, dangling, refused>>
      BY <2>2 DEF DB!ReseedFails
    <3>2. flushed(n) \subseteq DB!Tables(DB!Reseed)
      <4>1. Len(DB!Reseed) = 3 /\ DB!Reseed \in Seq(DB!ToSet(DB!Reseed))
        BY DEF DB!Reseed, DB!ToSet
      <4>2. /\ DOMAIN SubSeq(DB!Reseed, 1, n) = 1 .. n /\ n \in 0 .. 3
            /\ \A i \in 1 .. n : SubSeq(DB!Reseed, 1, n)[i] = DB!Reseed[i] /\ i \in DOMAIN DB!Reseed
        BY <4>1
      <4>. QED BY <4>2 DEF DB!Tables
    <3>. DEFINE new == flushed(n)
    <3>3. /\ filled' = filled \cup new \cup {"demo_reset_logs"}
          /\ touched' = IF DB!Running("reset") = {j} THEN touched ELSE touched \cup new
          /\ UNCHANGED <<exists, dangling, refused>>
      BY <3>1
    <3>4. new \in SUBSET DB!Tables(DB!Reseed)
      BY <3>2
    <3>. HIDE DEF new
    <3>. QED BY <3>3, <3>4
  <2>. QED BY <2>1, <2>2
<1>3. /\ job'[j].kind = "idle"
      /\ \A k \in Job \ {j} : job'[k] = job[k]
  BY <1>1 DEF DB!Idle, DatabaseInv, JobsTyped
<1>4. JobsTyped'
  BY <1>1, <1>2, Filling DEF DatabaseInv, JobsTyped, DB!Idle, Kind
<1>5. \A k \in Job : job'[k].kind \notin ByHand
  BY <1>1, <1>3, NoneByHand DEF ByHand
<1>6. ByHandAlone' /\ ScriptsOnTheirWay'
  BY <1>5 DEF ByHandAlone, ScriptsOnTheirWay, ByHand
<1>7. WipedStaysWiped'
  <2>. SUFFICES ASSUME NEW k \in Job, job'[k].kind = "reset", job'[k].next <= 28,
                       NEW m \in 1 .. job'[k].next - 1, DB!Wipe[m] \in filled', Referring(DB!Wipe[m])
                PROVE  DB!Wipe[m] \in touched'
    BY DEF WipedStaysWiped, Referring
  <2>1. k # j /\ job[k] = job'[k]
    BY <1>3
  <2>2. DB!Running("reset") # {j}
    BY <2>1 DEF DB!Running
  <2>3. DB!Wipe[m] # "demo_reset_logs"
    BY NotReferring
  <2>4. DB!Wipe[m] \in filled => DB!Wipe[m] \in touched
    BY <2>1 DEF DatabaseInv, WipedStaysWiped
  <2>. QED BY <1>2, <2>2, <2>3, <2>4
<1>8. \A p \in dangling' : p[1] \in touched'
  BY <1>2 DEF DatabaseInv, DB!ReferencesHold
<1>. QED BY <1>2, <1>4, <1>6, <1>7, <1>8 DEF DatabaseInv, DB!ReferencesHold

\* writes its log,
LEMMA LogKeeps ==
    ASSUME DatabaseInv, NEW j \in Job, DB!Log(j)
    PROVE  DatabaseInv'
<1>0. job[j].kind = "reset" /\ job[j].next = 30 /\ DB!Advance(j, DB!LogStep)
  BY ScriptSteps DEF DB!Log, DB!Resetting, DB!LogStep
<1>1. /\ filled' = filled \cup {"demo_reset_logs"}
      /\ UNCHANGED <<exists, dangling, touched, refused>>
  BY DEF DB!Log
<1>2. /\ job' \in [Job -> [kind : Kind, next : Nat]]
      /\ \A k \in Job : job'[k].next > 0
      /\ job'[j].kind = "idle"
      /\ \A k \in Job \ {j} : job'[k] = job[k]
      /\ \A k \in Job : job'[k].kind \notin ByHand
  BY <1>0, ResetGoesOn
<1>3. JobsTyped'
  BY <1>1, <1>2, Filling DEF DatabaseInv, JobsTyped
<1>4. ByHandAlone' /\ ScriptsOnTheirWay'
  BY <1>2 DEF ByHandAlone, ScriptsOnTheirWay, ByHand
<1>5. WipedStaysWiped'
  BY <1>1, <1>2, NotReferring DEF DatabaseInv, WipedStaysWiped, Referring
<1>. QED BY <1>1, <1>3, <1>4, <1>5 DEF DatabaseInv, DB!ReferencesHold

\* and whatever runs may die.
LEMMA DieKeeps ==
    ASSUME DatabaseInv, NEW j \in Job, DB!Die(j)
    PROVE  DatabaseInv'
<1>1. /\ job' = [job EXCEPT ![j] = DB!Idle]
      /\ UNCHANGED <<exists, filled, dangling, touched, refused>>
  BY DEF DB!Die
<1>2. /\ job'[j].kind = "idle"
      /\ \A k \in Job \ {j} : job'[k] = job[k]
  BY <1>1 DEF DB!Idle, DatabaseInv, JobsTyped
<1>3. JobsTyped'
  BY <1>1 DEF DatabaseInv, JobsTyped, DB!Idle, Kind
<1>4. ByHandAlone'
  BY <1>2 DEF DatabaseInv, ByHandAlone, ByHand
<1>5. ScriptsOnTheirWay'
  BY <1>1, <1>2 DEF DatabaseInv, ScriptsOnTheirWay
<1>6. WipedStaysWiped'
  BY <1>1, <1>2 DEF DatabaseInv, WipedStaysWiped, Referring
<1>. QED BY <1>1, <1>3, <1>4, <1>5, <1>6 DEF DatabaseInv, DB!ReferencesHold

\* So does every step of the whole.
LEMMA DatabaseInductive == DB!Spec => []DatabaseInv
<1>1. DatabaseInv /\ [DB!Next]_(DB!vars) => DatabaseInv'
  <2>. SUFFICES ASSUME DatabaseInv, [DB!Next]_(DB!vars) PROVE DatabaseInv'
    OBVIOUS
  <2>1. ASSUME NEW j \in Job, NEW kind \in {"upgrade", "seed", "downgrade"},
               DB!StartByHand(j, kind)
        PROVE  DatabaseInv'
    BY <2>1, StartByHandKeeps DEF ByHand
  <2>2. CASE UNCHANGED DB!vars
    BY <2>2
       DEF DB!vars, DatabaseInv, JobsTyped, ByHandAlone, ScriptsOnTheirWay, WipedStaysWiped,
                DB!ReferencesHold, Referring
  <2>. QED BY <2>1, <2>2, UpgradeKeeps, DowngradeKeeps, SeedKeeps, StartResetKeeps, TruncateKeeps,
              ReseedKeeps, FailKeeps, LogKeeps, DieKeeps, TradeKeeps, InsertKeeps
           DEF DB!Next
<1>. QED BY <1>1, DatabaseStarts, PTL DEF DB!Spec

\* Whatever resets and requests do, for any number of them: nothing is refused,
\* and rows lose what they refer to only where somebody wrote behind a wipe.
LEMMA ReferencesStay == DB!Spec => []DB!ReferencesHold
<1>1. DatabaseInv => DB!ReferencesHold
  BY DEF DatabaseInv
<1>. QED BY <1>1, DatabaseInductive, PTL

\* Nobody writes behind a wipe where requests wait for the reset and there is
\* one at a time.
LEMMA NobodyTouches ==
    ASSUME MaxInserts = 0, \A i, j \in Job : i = j
    PROVE  DB!Spec => []DB!NothingDangles
<1>. DEFINE Inv == touched = {} /\ inserts \in Nat
<1>1. DB!Init => Inv
  BY DEF DB!Init
<1>2. Inv /\ [DB!Next]_(DB!vars) => Inv'
  <2>. SUFFICES ASSUME Inv, [DB!Next]_(DB!vars) PROVE Inv'
    OBVIOUS
  <2>1. \A t : ~DB!Insert(t)
    BY DEF DB!Insert
  <2>2. ASSUME NEW j \in Job, job[j].kind = "reset" PROVE DB!Running("reset") = {j}
    BY <2>2 DEF DB!Running
  <2>3. ASSUME NEW j \in Job, DB!ReseedAll(j) \/ DB!ReseedFails(j) PROVE Inv'
    BY <2>2, <2>3 DEF DB!ReseedAll, DB!ReseedFails, DB!Resetting
  <2>4. ASSUME NEW j \in Job, DB!Truncate(j) \/ DB!WipeFails(j) \/ DB!Log(j) \/ DB!Die(j)
        PROVE  Inv'
    BY <2>4 DEF DB!Truncate, DB!WipeFails, DB!Log, DB!Die
  <2>5. ASSUME NEW j \in Job,
               \/ \E kind \in {"upgrade", "seed", "downgrade"} : DB!StartByHand(j, kind)
               \/ DB!Upgrade(j) \/ DB!Downgrade(j) \/ DB!Seed(j) \/ DB!StartReset(j)
        PROVE  Inv'
    BY <2>5 DEF DB!StartByHand, DB!Upgrade, DB!Downgrade, DB!Seed, DB!StartReset
  <2>6. CASE DB!Trade \/ UNCHANGED DB!vars
    BY <2>6 DEF DB!Trade, DB!vars
  <2>. QED BY <2>1, <2>3, <2>4, <2>5, <2>6 DEF DB!Next
<1>3. Inv /\ DB!ReferencesHold => DB!NothingDangles
  BY DEF DB!ReferencesHold, DB!NothingDangles
<1>. QED BY <1>1, <1>2, <1>3, ReferencesStay, PTL DEF DB!Spec

-----------------------------------------------------------------------------
(* The parts side by side                                                   *)

\* A behaviour of the whole is a behaviour of every part.
LEMMA EachPart ==
    /\ ServicesSpec => BoundedSpec
    /\ ServicesSpec => Accounts!Spec
    /\ ServicesSpec => UserAdmin!Spec
    /\ ServicesSpec => Numbers!Spec
    /\ ServicesSpec => Events!Spec
    /\ ServicesSpec => DB!Spec
    /\ ServicesSpec => Quota!Spec
    /\ ServicesSpec => MasterData!Spec
<1>1. ServicesInit => /\ Init
                      /\ Accounts!Init
                      /\ UserAdmin!Init
                      /\ Numbers!Init
                      /\ Events!Init
                      /\ DB!Init
                      /\ Quota!Init
                      /\ MasterData!Init
  BY DEF ServicesInit
<1>2. [ServicesNext]_all => [BoundedNext]_stock
  BY DEF ServicesNext, Only, all
<1>3. [ServicesNext]_all => [Accounts!Next]_(Accounts!vars)
  BY DEF ServicesNext, Only, all, ofAccounts, Accounts!vars
<1>4. [ServicesNext]_all => [Numbers!Next]_(Numbers!vars)
  BY DEF ServicesNext, Only, all, ofNumbers, Numbers!vars
<1>5. [ServicesNext]_all => [Events!Next]_(Events!vars)
  BY DEF ServicesNext, Only, all, ofEvents, Events!vars
<1>6. [ServicesNext]_all => [DB!Next]_(DB!vars)
  BY DEF ServicesNext, Only, all, ofDatabase, DB!vars
<1>7. [ServicesNext]_all => [Quota!Next]_(Quota!vars)
  BY DEF ServicesNext, Only, all, ofQuota, Quota!vars
<1>8. [ServicesNext]_all => [MasterData!Next]_(MasterData!vars)
  BY DEF ServicesNext, Only, all, ofMasterData, MasterData!vars
<1>9. [ServicesNext]_all => [UserAdmin!Next]_(UserAdmin!vars)
  BY DEF ServicesNext, Only, all, ofUserAdmin, UserAdmin!vars
<1>. QED
  BY <1>1, <1>2, <1>3, <1>4, <1>5, <1>6, <1>7, <1>8, <1>9, PTL
     DEF ServicesSpec, BoundedSpec, Accounts!Spec, UserAdmin!Spec, Numbers!Spec, Events!Spec,
         DB!Spec, Quota!Spec,
         MasterData!Spec

\* services/auth.py, core/security.py: unless two refreshes of one of its tokens
\* overlap, a login has one live refresh token at most, and none after a logout
\* that named it with no refresh under way - whichever of the steps in Redis a
\* failure separates, and whatever else is logged out, flushed or administered.
THEOREM LoginsHaveOneToken == ServicesSpec => []OneTokenPerLogin
<1>. QED BY EachPart, OneTokenLives, PTL DEF OneTokenPerLogin

\* routers/users.py: whichever requests overlap, the last administrator goes only
\* by a request of his own that gives up the role or by one whose caller is no
\* administrator any more when it commits.
THEOREM LastAdministratorGoes ==
    ASSUME Grants \subseteq SUBSET UserAdmin!Role
    PROVE  ServicesSpec => LastAdministrator
<1>. QED BY EachPart, LastOneGoes, PTL DEF LastAdministrator

\* routers/users.py: the rows of the users move as Accounts takes for granted,
\* however the requests about them overlap.
THEOREM AccountsAreLed ==
    ASSUME Grants \subseteq SUBSET UserAdmin!Role
    PROVE  ServicesSpec => UserAdmin!StandingsMove
<1>. QED BY EachPart, StandingsFit, PTL

\* next_document_no: whatever Redis loses, whatever is inserted or deleted
\* behind its back and whichever requests fail, a request that began after the
\* dust had settled draws a number that nobody else has.
THEOREM NumbersAreFresh == ServicesSpec => []NumbersFresh
<1>. QED BY EachPart, FreshDraws, PTL DEF NumbersFresh

\* incr and decr of services/quota.py: whatever mixes, at midnight or when the
\* process dies between the two, the quota of the day is not exceeded and nobody
\* is refused before it was handed out.
THEOREM QuotaIsExact ==
    ASSUME IsFiniteSet(Scanner), Limit \in Nat
    PROVE  ServicesSpec => []QuotaExact
<1>. QED BY EachPart, ExactUnits, PTL DEF QuotaExact

\* drain_after_commit and its handlers: whatever fails, dies or is drained in
\* another order, of every commit an entry of the trail is written, waiting or its
\* own handler's failure, and stock that ran low was told about.
THEOREM NothingIsForgotten == ServicesSpec => []NothingForgotten
<1>. QED BY EachPart, TrailStays, PTL DEF NothingForgotten

\* alembic, scripts/seed_*.py, services/demo_reset.py: migrations and seeds are
\* never refused, and wherever any number of resets are cut off, the only tables
\* with rows that refer to a lost one are those that requests, or another reset,
\* filled behind the wipe.
THEOREM ReferencesAreKept == ServicesSpec => []ReferencesHold
<1>. QED BY EachPart, ReferencesStay, PTL DEF ReferencesHold

\* ... so that none refers to a lost row at all, wherever a reset fails or dies,
\* if requests wait for the reset and there is one at a time.
THEOREM QuietResetsAreWhole ==
    ASSUME MaxInserts = 0, \A i, j \in Job : i = j
    PROVE  ServicesSpec => []DB!NothingDangles
<1>. QED BY EachPart, NobodyTouches, PTL

\* services/tax_rate.py, services/category.py: one tax rate at most is the
\* default, whatever overlaps; and no live category hangs under a deleted one, if
\* requests about categories follow each other and move none under another.
THEOREM MastersAreSound ==
    ASSUME ~Together, ~Moves
    PROVE  ServicesSpec => []MastersSound
<1>1. MasterData!Spec => []MasterData!MastersSound
  BY DefaultStays, TreeStays, PTL DEF MasterData!MastersSound
<1>. QED BY <1>1, EachPart, PTL DEF MastersSound
=============================================================================
