----------------------------- MODULE SalesFlow ------------------------------
(***************************************************************************)
(* Sales orders, the stock they reserve and the delivery orders that ship  *)
(* them: services/sales.py, services/delivery_order.py and the part of     *)
(* services/inventory.py they call.                                        *)
(*                                                                         *)
(* One HTTP request is one database transaction (core/deps.get_db commits  *)
(* after the handler, or rolls back when it raises).  MySQL runs it under  *)
(* REPEATABLE READ: plain SELECTs see the snapshot of the request's first  *)
(* read, while UPDATE, INSERT and DELETE act on the rows as last committed *)
(* and keep them locked until the end.  A handler is therefore two steps:  *)
(*                                                                         *)
(*   Begin...  takes the snapshot and makes the checks on what was read;   *)
(*   the rest  evaluates every WHERE clause and constraint on the current  *)
(*             rows, writes, and commits - or nothing happens (Rollback).  *)
(*                                                                         *)
(* Requests on the same order may overlap: no handler locks the order row. *)
(* An order has one line per SKU, a stock row that does not exist yet is   *)
(* an empty row, and money is left out.                                    *)
(***************************************************************************)
EXTENDS Integers, FiniteSets, Functions, StockRow

CONSTANTS
    Order,          \* sales orders that may be created
    Sku, Warehouse,
    Request,        \* slots for requests in flight
    Baskets,        \* the line sets a user may enter: functions Sku -> Nat
    InitialOnHand,  \* on_hand of every stock row at the start
    MaxOnHand,      \* bound: goods receipts stop at this on_hand
    MaxEdits,       \* bound: how often the lines of one draft are replaced
    EditWarehouse,  \* whether draft edits may carry a warehouse_id
    Overlap         \* the operations that may overlap on one order

NoLines == [s \in Sku |-> 0]

ASSUME OrderAssumption ==
    IsFiniteSet(Order)
ASSUME BasketsAssumption ==
    Baskets \subseteq [Sku -> Nat] \ {NoLines}
ASSUME BoundsAssumption ==
    InitialOnHand \in Nat /\ MaxOnHand \in Nat /\ MaxEdits \in Nat
ASSUME FlagAssumption ==
    EditWarehouse \in BOOLEAN

VARIABLES
    stock,      \* table stocks
    so,         \* tables sales_orders and sales_order_lines
    delivered,  \* table delivery_order_lines: total posted per order line
    req         \* requests in flight

vars == <<stock, so, delivered, req>>

Cell == Warehouse \X Sku

Status == {"DRAFT", "CONFIRMED", "PARTIAL_SHIPPED", "FULLY_SHIPPED",
           "CANCELLED"}

\* `gen` is the identity of the line rows: an edit deletes and re-creates them.
OrderRow == [status  : Status \cup {"NONE"},
             gen     : Nat,
             wh      : Warehouse,
             ordered : [Sku -> Nat],
             shipped : [Sku -> Nat]]

Idle == [op |-> "idle"]

\* A request: what it read (the order and the stock versions) and its payload.
InFlight == [op    : {"confirm", "cancel", "edit", "ship"},
             order : Order,
             row   : OrderRow,
             ver   : [Cell -> Nat],
             lines : [Sku -> Nat],
             wh    : Warehouse]

TypeOK ==
    /\ stock \in [Cell -> Row]
    /\ so \in [Order -> OrderRow]
    /\ delivered \in [Order -> [Sku -> Nat]]
    /\ req \in [Request -> InFlight \cup {Idle}]

Outstanding(row, s) == row.ordered[s] - row.shipped[s]

\* What `lines` asks of the stock row c, for an order in warehouse w.
QtyAt(w, lines, c) == IF c[1] = w THEN lines[c[2]] ELSE 0

Init ==
    /\ stock = [c \in Cell |-> [EmptyRow EXCEPT !.on_hand = InitialOnHand]]
    /\ \E w \in Warehouse :
          so = [o \in Order |-> [status |-> "NONE", gen |-> 0, wh |-> w,
                                 ordered |-> NoLines, shipped |-> NoLines]]
    /\ delivered = [o \in Order |-> NoLines]
    /\ req = [r \in Request |-> Idle]

-----------------------------------------------------------------------------
(* Reading: the snapshot and the checks the handlers make on it *)

\* create_so reads nothing that can be stale: one step, status DRAFT.
CreateSO(o) ==
    /\ so[o].status = "NONE"
    /\ \E lines \in Baskets, w \in Warehouse :
          so' = [so EXCEPT ![o] = [status |-> "DRAFT", gen |-> 0, wh |-> w,
                                   ordered |-> lines, shipped |-> NoLines]]
    /\ UNCHANGED <<stock, delivered, req>>

Begin(r, op, o, lines, w) ==
    /\ req[r] = Idle
    /\ \A q \in Request : req[q] # Idle /\ req[q].order = o =>
                               {op, req[q].op} \subseteq Overlap
    /\ req' = [req EXCEPT ![r] =
                  [op |-> op, order |-> o, row |-> so[o],
                   ver |-> [c \in Cell |-> stock[c].version],
                   lines |-> lines, wh |-> w]]
    /\ UNCHANGED <<stock, so, delivered>>

BeginConfirm(r, o) ==
    /\ so[o].status = "DRAFT"
    /\ Begin(r, "confirm", o, NoLines, so[o].wh)

\* Only a Manager or Admin may cancel what is already CONFIRMED.
BeginCancel(r, o, privileged) ==
    /\ \/ so[o].status = "DRAFT"
       \/ so[o].status = "CONFIRMED" /\ privileged
    /\ Begin(r, "cancel", o, NoLines, so[o].wh)

\* lines = NoLines stands for an edit that carries no lines.
BeginUpdate(r, o, lines, w) ==
    /\ so[o].status = "DRAFT"
    /\ ~EditWarehouse => w = so[o].wh
    /\ lines # NoLines => so[o].gen < MaxEdits
    /\ Begin(r, "edit", o, lines, w)

BeginDO(r, o, lines) ==
    /\ so[o].status \in {"CONFIRMED", "PARTIAL_SHIPPED"}
    /\ lines # NoLines
    /\ \A s \in Sku : lines[s] <= Outstanding(so[o], s)
    /\ Begin(r, "ship", o, lines, so[o].wh)

-----------------------------------------------------------------------------
(* Writing: guards on the current rows, effects, commit *)

Done(r) == req' = [req EXCEPT ![r] = Idle]

\* Variant: the stock is believed to be there.
CanReserveUnchecked(t) == TRUE

\* Each reservation is one guarded UPDATE; one that fails fails the request.
CanReserve(t) ==
    \A c \in Cell :
        QtyAt(t.row.wh, t.row.ordered, c) > 0 =>
            ReserveOK(stock[c], QtyAt(t.row.wh, t.row.ordered, c))

\* confirm_so: reserve every line as it was read, then set the status.
ConfirmSO(r) ==
    LET t == req[r]
    IN  /\ t.op = "confirm"
        /\ CanReserve(t)
        /\ stock' = [c \in Cell |->
              IF QtyAt(t.row.wh, t.row.ordered, c) > 0
              THEN Reserve(stock[c], QtyAt(t.row.wh, t.row.ordered, c))
              ELSE stock[c]]
        /\ so' = [so EXCEPT ![t.order].status = "CONFIRMED"]
        /\ Done(r)
        /\ UNCHANGED delivered

\* Variant: a cancelled order keeps its reservations.
ToReleaseNothing(row) == NoLines

\* What cancel_so releases: the unshipped rest, if the order was read CONFIRMED.
ToRelease(row) == [s \in Sku |->
    IF row.status = "CONFIRMED" /\ Outstanding(row, s) > 0
    THEN Outstanding(row, s) ELSE 0]

CancelSO(r) ==
    LET t == req[r]
        rest == ToRelease(t.row)
    IN  /\ t.op = "cancel"
        /\ \A c \in Cell :
              QtyAt(t.row.wh, rest, c) > 0 =>
                  UnreserveOK(stock[c], QtyAt(t.row.wh, rest, c))
        /\ stock' = [c \in Cell |->
              IF QtyAt(t.row.wh, rest, c) > 0
              THEN Unreserve(stock[c], QtyAt(t.row.wh, rest, c))
              ELSE stock[c]]
        /\ so' = [so EXCEPT ![t.order].status = "CANCELLED"]
        /\ Done(r)
        /\ UNCHANGED delivered

\* update_so.  Deleting lines that a delivery order refers to breaks a foreign
\* key; re-inserting line 1 after a concurrent edit breaks uq_sol_so_lineno.
UpdateSO(r) ==
    LET t == req[r]
        o == t.order
    IN  /\ t.op = "edit"
        /\ t.lines # NoLines => /\ delivered[o] = NoLines
                                /\ so[o].gen = t.row.gen
        /\ so' = [so EXCEPT ![o] =
                    [status  |-> so[o].status,
                     gen     |-> IF t.lines = NoLines THEN so[o].gen
                                 ELSE so[o].gen + 1,
                     wh      |-> IF t.wh = t.row.wh THEN so[o].wh ELSE t.wh,
                     ordered |-> IF t.lines = NoLines THEN so[o].ordered
                                 ELSE t.lines,
                     shipped |-> IF t.lines = NoLines THEN so[o].shipped
                                 ELSE NoLines]]
        /\ Done(r)
        /\ UNCHANGED <<stock, delivered>>

\* Variant: only the lines of this delivery are looked at.
FullyShippedHere(t) ==
    \A s \in Sku : t.lines[s] > 0 =>
        t.row.shipped[s] + t.lines[s] >= t.row.ordered[s]

\* Whether every line is shipped, judged on the lines as this request has them.
FullyShipped(t) ==
    \A s \in Sku : t.row.shipped[s] + t.lines[s] >= t.row.ordered[s]

\* qty_shipped of the lines: as read plus this shipment, where it has the line.
ShippedAfter(t) ==
    [s \in Sku |-> IF t.lines[s] > 0 THEN t.row.shipped[s] + t.lines[s]
                   ELSE so[t.order].shipped[s]]

\* create_do: post the delivery lines (a foreign key to the order lines), take
\* the goods out of stock, write qty_shipped, and write the status only if it
\* differs from the one that was read.
CreateDO(r) ==
    LET t == req[r]
        o == t.order
        status == IF FullyShipped(t) THEN "FULLY_SHIPPED" ELSE "PARTIAL_SHIPPED"
    IN  /\ t.op = "ship"
        /\ so[o].gen = t.row.gen
        /\ \A c \in Cell :
              QtyAt(t.row.wh, t.lines, c) > 0 =>
                  SalesOutOK(stock[c], t.ver[c], QtyAt(t.row.wh, t.lines, c))
        /\ stock' = [c \in Cell |->
              IF QtyAt(t.row.wh, t.lines, c) > 0
              THEN SalesOut(stock[c], QtyAt(t.row.wh, t.lines, c))
              ELSE stock[c]]
        /\ so' = [so EXCEPT ![o] = [@ EXCEPT
                    !.shipped = ShippedAfter(t),
                    !.status = IF status # t.row.status THEN status
                               ELSE so[o].status]]
        /\ delivered' = [delivered EXCEPT ![o] =
                            [s \in Sku |-> delivered[o][s] + t.lines[s]]]
        /\ Done(r)

\* Any exception - a guard that matches no row, a constraint, a deadlock
\* victim, a dropped connection, a crash - ends the request without effect.
Rollback(r) ==
    /\ req[r] # Idle
    /\ Done(r)
    /\ UNCHANGED <<stock, so, delivered>>

\* A goods receipt committed by the purchasing side (apply_purchase_in).
Supply(c, q) ==
    /\ stock[c].on_hand + q <= MaxOnHand
    /\ stock' = [stock EXCEPT ![c] = PurchaseIn(stock[c], q)]
    /\ UNCHANGED <<so, delivered, req>>

Next ==
    \/ \E o \in Order : CreateSO(o)
    \/ \E r \in Request, o \in Order :
          \/ BeginConfirm(r, o)
          \/ \E privileged \in BOOLEAN : BeginCancel(r, o, privileged)
          \/ \E lines \in Baskets \cup {NoLines}, w \in Warehouse :
                BeginUpdate(r, o, lines, w)
          \/ \E lines \in [Sku -> 0 .. MaxOnHand] : BeginDO(r, o, lines)
    \/ \E r \in Request :
          ConfirmSO(r) \/ CancelSO(r) \/ UpdateSO(r) \/ CreateDO(r) \/ Rollback(r)
    \/ \E c \in Cell, q \in 1 .. MaxOnHand : Supply(c, q)

Spec == Init /\ [][Next]_vars

-----------------------------------------------------------------------------
(* What the sales side promises about the stock it shares with the others *)

Ledger == INSTANCE StockLedger WITH Families <- {"sell", "buy"}, MaxVersion <- 0

\* Every request changes each stock row by at most one statement of the ledger,
\* on the row as it is, however old what the request read.
KeepsLedger == Ledger!Spec

-----------------------------------------------------------------------------
(* Properties that hold however requests overlap *)

\* The promise of apply_reserve: what is reserved or held back is in the
\* warehouse, so a confirmed order never counts on goods that are not there.
NoOversell == \A c \in Cell : Available(stock[c]) >= 0

\* create_do writes qty_shipped from what it read, not from the current row;
\* the version of the stock row is what keeps a concurrent shipment of the
\* same line from being overwritten.
ShipmentsRecorded == \A o \in Order : so[o].shipped = delivered[o]

\* No line is ever shipped beyond what was ordered (DO_OVER_SHIPMENT), though
\* the check is made on a snapshot.
NoOverShipment ==
    \A o \in Order, s \in Sku : delivered[o][s] <= so[o].ordered[s]

\* No shipment is lost and none is made twice.
ShipmentsSafe == ShipmentsRecorded /\ NoOverShipment

\* Why they hold.  A request in flight either has an outdated snapshot of its
\* order's lines (another gen) or, for each line, an outdated stock version,
\* or the very quantities the line still has.
SnapshotFits(t) ==
    LET cur == so[t.order]
    IN  /\ cur.status # "NONE"
        /\ t.row.gen <= cur.gen
        /\ t.op = "edit" => t.wh = t.row.wh
        /\ t.op = "ship" => \A s \in Sku : t.lines[s] <= Outstanding(t.row, s)
        /\ \A c \in Cell : t.ver[c] <= stock[c].version
        /\ t.row.gen = cur.gen =>
              /\ t.row.wh = cur.wh
              /\ t.row.ordered = cur.ordered
              /\ \A s \in Sku :
                    t.ver[<<cur.wh, s>>] = stock[<<cur.wh, s>>].version =>
                        t.row.shipped[s] = cur.shipped[s]

\* Every request in flight fits, and no delivery precedes its order.
SnapshotInv ==
    /\ \A o \in Order : so[o].status = "NONE" => delivered[o] = NoLines
    /\ \A r \in Request : req[r] # Idle => SnapshotFits(req[r])

-----------------------------------------------------------------------------
(* Properties that hold when some requests on one order do not overlap *)

Open == {"CONFIRMED", "PARTIAL_SHIPPED"}

\* What an order has reserved of a stock row.
Claim(row, c) ==
    IF row.status \in Open /\ row.wh = c[1] THEN Outstanding(row, c[2]) ELSE 0

\* `reserved` is exactly what open orders still have to ship from the row:
\* confirming, shipping and cancelling neither leak nor steal a reservation.
\* Confirmations and cancellations must have the order to themselves.
ReservationsExact ==
    \A c \in Cell :
        stock[c].reserved = SumFunctionOnSet([o \in Order |-> Claim(so[o], c)], Order)

AllShipped(o) == \A s \in Sku : delivered[o][s] = so[o].ordered[s]

\* create_do re-evaluates the order: when all lines are fully shipped the
\* order says so, and it says so only then.
FullyShippedIsRecorded ==
    \A o \in Order : so[o].status \in Open \cup {"FULLY_SHIPPED"} =>
        (so[o].status = "FULLY_SHIPPED" <=> AllShipped(o))

\* cancel_so: orders with shipments go through credit notes, so a cancelled
\* order never has a delivery.
CancelledNeverShipped ==
    \A o \in Order : so[o].status = "CANCELLED" => delivered[o] = NoLines

\* The status of an order is what was delivered of it.  Shipments must have the
\* order to themselves.
StatusTrue == FullyShippedIsRecorded /\ CancelledNeverShipped
=============================================================================
