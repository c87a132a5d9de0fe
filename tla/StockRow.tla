------------------------------ MODULE StockRow ------------------------------
(***************************************************************************)
(* One row of the table `stocks` (one SKU in one warehouse) and the        *)
(* atomic UPDATE statements that services/inventory.py issues against it.  *)
(*                                                                         *)
(* Every apply_* helper of the service is one UPDATE whose WHERE clause    *)
(* decides, on the row as committed by everybody else, whether the update  *)
(* happens.  Each is modelled here by two operators: XxxOK is the WHERE    *)
(* clause (a false one is "rowcount == 0", which raises and rolls the      *)
(* request back) and Xxx is the SET list.  Parameter v is the version the  *)
(* request read earlier, in its own snapshot of the database.              *)
(*                                                                         *)
(* Quantities are integers: the columns are DECIMAL(18,4), that is, whole  *)
(* multiples of 0.0001.  The cost columns are left out; the StockMovement  *)
(* audit row and the event of each helper carry no control.                *)
(***************************************************************************)
LOCAL INSTANCE Integers

\* The quantity columns and the optimistic-lock column of a row.  Nothing in
\* the schema keeps `incoming` from becoming negative.
Row == [on_hand      : Nat,
        reserved     : Nat,
        quality_hold : Nat,
        incoming     : Int,
        in_transit   : Nat,
        version      : Nat]

\* The computed column `available`.
Available(s) == s.on_hand - s.reserved - s.quality_hold

\* A row that _get_or_create_stock inserts: every quantity zero.
EmptyRow == [on_hand |-> 0, reserved |-> 0, quality_hold |-> 0,
             incoming |-> 0, in_transit |-> 0, version |-> 0]

\* `version = version + 1`, part of every UPDATE but that of _adjust_incoming.
Bump(s) == [s EXCEPT !.version = @ + 1]

-----------------------------------------------------------------------------
(* Purchasing *)

\* purchase._adjust_incoming: PO confirmed (d > 0) or cancelled (d < 0).
\* No WHERE beyond the primary key, and the version is left alone.
AdjustIncoming(s, d) == [s EXCEPT !.incoming = @ + d]

\* Variants: no optimistic lock; the two columns mixed up.
PurchaseInUnlocked(s, v) == TRUE
PurchaseInMixedUp(s, q) == Bump([s EXCEPT !.on_hand = @ - q, !.incoming = @ + q])

PurchaseInOK(s, v) == s.version = v
PurchaseIn(s, q) == Bump([s EXCEPT !.on_hand = @ + q, !.incoming = @ - q])

-----------------------------------------------------------------------------
(* Sales *)

\* Variant: `on_hand` taken for `available`.
ReserveOnHand(s, q) == s.on_hand >= q

\* The guard against overselling: capacity only, whatever version was read.
ReserveOK(s, q) == Available(s) >= q
Reserve(s, q) == Bump([s EXCEPT !.reserved = @ + q])

\* Variant: no guard against releasing twice.
UnreserveUnguarded(s, q) == TRUE

UnreserveOK(s, q) == s.reserved >= q
Unreserve(s, q) == Bump([s EXCEPT !.reserved = @ - q])

\* Variant: no optimistic lock.
SalesOutUnlocked(s, v, q) == s.reserved >= q /\ s.on_hand >= q

SalesOutOK(s, v, q) == s.version = v /\ s.reserved >= q /\ s.on_hand >= q
SalesOut(s, q) == Bump([s EXCEPT !.on_hand = @ - q, !.reserved = @ - q])

-----------------------------------------------------------------------------
(* Credit notes *)

SalesReturnOK(s, v) == s.version = v
SalesReturn(s, q) == Bump([s EXCEPT !.on_hand = @ + q])

\* Variant: the lock is trusted to protect the quantity too.
ReverseUnguarded(s, v, q) == s.version = v

\* Undoing a return looks at on_hand alone: the goods may be reserved again.
SalesReturnReverseOK(s, v, q) == s.version = v /\ s.on_hand >= q
SalesReturnReverse(s, q) == Bump([s EXCEPT !.on_hand = @ - q])

-----------------------------------------------------------------------------
(* Transfers between warehouses and manual adjustments *)

\* The sending row: on_hand alone is checked, not what is reserved of it.
ShipOutOK(s, v, q) == s.version = v /\ s.on_hand >= q
ShipOut(s, q) == Bump([s EXCEPT !.on_hand = @ - q])

\* The receiving row while the goods travel: no guard at all.
ShipIn(s, q) == Bump([s EXCEPT !.in_transit = @ + q])

ReceiveKeepsTransit(s, q) == Bump([s EXCEPT !.on_hand = @ + q])

ReceiveOK(s, v, q) == s.version = v /\ s.in_transit >= q
Receive(s, q) == Bump([s EXCEPT !.on_hand = @ + q, !.in_transit = @ - q])

IncreaseOK(s, v) == s.version = v
Increase(s, q) == Bump([s EXCEPT !.on_hand = @ + q])

DecreaseOK(s, v, q) == s.version = v /\ s.on_hand >= q
Decrease(s, q) == Bump([s EXCEPT !.on_hand = @ - q])
=============================================================================
