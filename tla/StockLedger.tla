---------------------------- MODULE StockLedger -----------------------------
(***************************************************************************)
(* What the whole system may do to the table `stocks`: the contract that   *)
(* every document service keeps, because it changes a row only through the *)
(* statements of services/inventory.py and _adjust_incoming.               *)
(*                                                                         *)
(* A step is the commit of some request: any set of rows changes at once,  *)
(* each by one statement whose WHERE clause held.  Documents, requests and *)
(* snapshots are gone; which families of statements are in use is a        *)
(* parameter, so that one specification answers for the sales side alone   *)
(* and for all services working on the same rows.                          *)
(***************************************************************************)
EXTENDS Integers, StockRow

CONSTANTS
    Cell,           \* stock rows
    Families,       \* the statements in use, a subset of AllFamilies
    InitialOnHand,
    MaxOnHand,      \* bound, for TLC: quantities stay within it
    MaxVersion      \* bound, for TLC: statements per row

AllFamilies == {"sell", "buy", "return", "undo return", "send", "take in",
                "count up", "count down"}

ASSUME InitialAssumption == InitialOnHand \in Nat
ASSUME FamiliesAssumption == Families \subseteq AllFamilies

VARIABLE stock

TypeOK == stock \in [Cell -> Row]

Init == stock = [c \in Cell |-> [EmptyRow EXCEPT !.on_hand = InitialOnHand]]

\* The rows that one statement of a family, for quantity q, can leave behind.
\* The version a request read is the current one, or else it has no effect.
Sell(s, q) == {n \in {Reserve(s, q)} : ReserveOK(s, q)}
         \cup {n \in {Unreserve(s, q)} : UnreserveOK(s, q)}
         \cup {n \in {SalesOut(s, q)} : SalesOutOK(s, s.version, q)}

Buy(s, q) == {AdjustIncoming(s, q), AdjustIncoming(s, -q), PurchaseIn(s, q)}

UndoReturn(s, q) ==
    {n \in {SalesReturnReverse(s, q)} : SalesReturnReverseOK(s, s.version, q)}

Send(s, q) == {n \in {ShipOut(s, q)} : ShipOutOK(s, s.version, q)}

TakeIn(s, q) == {ShipIn(s, q)}
           \cup {n \in {Receive(s, q)} : ReceiveOK(s, s.version, q)}

CountDown(s, q) == {n \in {Decrease(s, q)} : DecreaseOK(s, s.version, q)}

After(family, s, q) ==
    CASE family = "sell"        -> Sell(s, q)
      [] family = "buy"         -> Buy(s, q)
      [] family = "return"      -> {SalesReturn(s, q)}
      [] family = "undo return" -> UndoReturn(s, q)
      [] family = "send"        -> Send(s, q)
      [] family = "take in"     -> TakeIn(s, q)
      [] family = "count up"    -> {Increase(s, q)}
      [] family = "count down"  -> CountDown(s, q)

\* The quantities by which the columns of a row moved.
Distance(i, j) == IF i < j THEN j - i ELSE i - j

Moved(s, n) == {Distance(s.on_hand, n.on_hand), Distance(s.reserved, n.reserved),
                Distance(s.incoming, n.incoming),
                Distance(s.in_transit, n.in_transit)} \cap Nat

\* n is what one statement makes of s.
Statement(s, n) == \E f \in Families, q \in Moved(s, n) : n \in After(f, s, q)

\* One commit.
Commit ==
    /\ stock' = [c \in Cell |-> stock'[c]]
    /\ \A c \in Cell : stock'[c] = stock[c] \/ Statement(stock[c], stock'[c])

Spec == Init /\ [][Commit]_stock

-----------------------------------------------------------------------------
(* For TLC: commits of one row at a time, within the bounds *)

Bounded(s) == /\ s.on_hand \in 0 .. MaxOnHand
              /\ s.in_transit \in 0 .. MaxOnHand
              /\ s.incoming \in -MaxOnHand .. MaxOnHand
              /\ s.version \in 0 .. MaxVersion

CommitRow(c, f, q) == \E n \in After(f, stock[c], q) :
                         /\ Bounded(n)
                         /\ stock' = [stock EXCEPT ![c] = n]

BoundedNext == \E c \in Cell, f \in Families, q \in 1 .. MaxOnHand : CommitRow(c, f, q)

BoundedSpec == Init /\ [][BoundedNext]_stock

-----------------------------------------------------------------------------
\* The families that leave the goods under a reservation alone.
SafeFamilies == {"sell", "buy", "return", "take in", "count up"}

\* Nothing reserved is missing from the warehouse.  It needs every family in
\* use to be a safe one: sending, counting down and undoing a return look at
\* on_hand without looking at what is reserved of it.
NoOversell == \A c \in Cell : Available(stock[c]) >= 0
=============================================================================
