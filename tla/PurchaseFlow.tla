---------------------------- MODULE PurchaseFlow ----------------------------
(***************************************************************************)
(* Purchase orders and the goods receipts that fulfil them:                *)
(* services/purchase.py, services/goods_receipt.py and apply_purchase_in.  *)
(*                                                                         *)
(* As in SalesFlow a request is a snapshot with its checks (Begin...) and  *)
(* a step that writes on the current rows and commits.  Every stock row    *)
(* exists already, an order has one line per SKU, prices are left out.     *)
(***************************************************************************)
EXTENDS Integers, FiniteSets, Functions, StockRow

CONSTANTS
    Order,          \* purchase orders that may be created
    Sku, Warehouse,
    Request,        \* slots for requests in flight
    Baskets,        \* the line sets a user may enter: functions Sku -> Nat
    Tolerance,      \* GR_OVER_RECEIPT_TOLERANCE, in percent
    MaxReceipt,     \* bound: units per line of one goods receipt
    MaxEdits,       \* bound: how often the lines of one draft are replaced
    EditWarehouse,  \* whether draft edits may carry a warehouse_id
    Overlap         \* the operations that may overlap on one order

NoLines == [s \in Sku |-> 0]

ASSUME OrderAssumption ==
    IsFiniteSet(Order)
ASSUME BasketsAssumption ==
    Baskets \subseteq [Sku -> Nat] \ {NoLines}
ASSUME BoundsAssumption ==
    MaxReceipt \in Nat /\ MaxEdits \in Nat
ASSUME ToleranceAssumption ==
    Tolerance \in 0 .. 100
ASSUME FlagAssumption ==
    EditWarehouse \in BOOLEAN

VARIABLES
    stock,      \* table stocks
    po,         \* tables purchase_orders and purchase_order_lines
    received,   \* table goods_receipt_lines: total posted per order line
    req         \* requests in flight

vars == <<stock, po, received, req>>

Cell == Warehouse \X Sku

Status == {"DRAFT", "CONFIRMED", "PARTIAL_RECEIVED", "FULLY_RECEIVED",
           "CANCELLED"}

\* `gen` is the identity of the line rows: an edit deletes and re-creates them.
OrderRow == [status  : Status \cup {"NONE"},
             gen     : Nat,
             wh      : Warehouse,
             ordered : [Sku -> Nat],
             arrived : [Sku -> Nat]]     \* qty_received of the order lines

Idle == [op |-> "idle"]

InFlight == [op    : {"confirm", "cancel", "edit", "receive"},
             order : Order,
             row   : OrderRow,
             ver   : [Cell -> Nat],
             lines : [Sku -> Nat],
             wh    : Warehouse]

TypeOK ==
    /\ stock \in [Cell -> Row]
    /\ po \in [Order -> OrderRow]
    /\ received \in [Order -> [Sku -> Nat]]
    /\ req \in [Request -> InFlight \cup {Idle}]

Remaining(row, s) == row.ordered[s] - row.arrived[s]

QtyAt(w, lines, c) == IF c[1] = w THEN lines[c[2]] ELSE 0

Init ==
    /\ stock = [c \in Cell |-> EmptyRow]
    /\ \E w \in Warehouse :
          po = [o \in Order |-> [status |-> "NONE", gen |-> 0, wh |-> w,
                                 ordered |-> NoLines, arrived |-> NoLines]]
    /\ received = [o \in Order |-> NoLines]
    /\ req = [r \in Request |-> Idle]

-----------------------------------------------------------------------------
(* Reading: the snapshot and the checks the handlers make on it *)

CreatePO(o) ==
    /\ po[o].status = "NONE"
    /\ \E lines \in Baskets, w \in Warehouse :
          po' = [po EXCEPT ![o] = [status |-> "DRAFT", gen |-> 0, wh |-> w,
                                   ordered |-> lines, arrived |-> NoLines]]
    /\ UNCHANGED <<stock, received, req>>

Begin(r, op, o, lines, w) ==
    /\ req[r] = Idle
    /\ \A q \in Request : req[q] # Idle /\ req[q].order = o =>
                               {op, req[q].op} \subseteq Overlap
    /\ req' = [req EXCEPT ![r] =
                  [op |-> op, order |-> o, row |-> po[o],
                   ver |-> [c \in Cell |-> stock[c].version],
                   lines |-> lines, wh |-> w]]
    /\ UNCHANGED <<stock, po, received>>

BeginConfirm(r, o) ==
    /\ po[o].status = "DRAFT"
    /\ Begin(r, "confirm", o, NoLines, po[o].wh)

\* Only a Manager or Admin may cancel what is already CONFIRMED.
BeginCancel(r, o, privileged) ==
    /\ \/ po[o].status = "DRAFT"
       \/ po[o].status = "CONFIRMED" /\ privileged
    /\ Begin(r, "cancel", o, NoLines, po[o].wh)

\* lines = NoLines stands for an edit that carries no lines.
BeginUpdate(r, o, lines, w) ==
    /\ po[o].status = "DRAFT"
    /\ ~EditWarehouse => w = po[o].wh
    /\ lines # NoLines => po[o].gen < MaxEdits
    /\ Begin(r, "edit", o, lines, w)

\* remaining * (1 + tolerance), rounded half up to the smallest unit.
MaxAllowed(remaining) == (2 * remaining * (100 + Tolerance) + 100) \div 200

\* _check_over_receipt passes: the line is not full, and the excess is within
\* the tolerance on what remains of it.
WithinTolerance(row, s, qty) ==
    Remaining(row, s) > 0 /\ qty <= MaxAllowed(Remaining(row, s))

BeginGR(r, o, lines) ==
    /\ po[o].status \in {"CONFIRMED", "PARTIAL_RECEIVED"}
    /\ lines # NoLines
    /\ \A s \in Sku : lines[s] > 0 => WithinTolerance(po[o], s, lines[s])
    /\ Begin(r, "receive", o, lines, po[o].wh)

-----------------------------------------------------------------------------
(* Writing: guards on the current rows, effects, commit *)

Done(r) == req' = [req EXCEPT ![r] = Idle]

\* Variants: the wrong column; the sign forgotten.
AdjustOnHand(row, sign) ==
    stock' = [c \in Cell |->
        [stock[c] EXCEPT !.on_hand = @ + sign * QtyAt(row.wh, row.ordered, c)]]

AdjustUp(row, sign) ==
    stock' = [c \in Cell |->
        AdjustIncoming(stock[c], QtyAt(row.wh, row.ordered, c))]

\* _adjust_incoming over the lines as they were read.
AdjustAll(row, sign) ==
    stock' = [c \in Cell |->
        AdjustIncoming(stock[c], sign * QtyAt(row.wh, row.ordered, c))]

ConfirmPO(r) ==
    LET t == req[r]
    IN  /\ t.op = "confirm"
        /\ AdjustAll(t.row, 1)
        /\ po' = [po EXCEPT ![t.order].status = "CONFIRMED"]
        /\ Done(r)
        /\ UNCHANGED received

\* cancel_po takes the whole order out of `incoming` if it was read CONFIRMED.
CancelPO(r) ==
    LET t == req[r]
    IN  /\ t.op = "cancel"
        /\ IF t.row.status = "CONFIRMED" THEN AdjustAll(t.row, -1)
           ELSE UNCHANGED stock
        /\ po' = [po EXCEPT ![t.order].status = "CANCELLED"]
        /\ Done(r)
        /\ UNCHANGED received

\* update_po.  Deleting lines that a goods receipt refers to breaks a foreign
\* key; re-inserting line 1 after a concurrent edit breaks uq_pol_po_lineno.
UpdatePO(r) ==
    LET t == req[r]
        o == t.order
    IN  /\ t.op = "edit"
        /\ t.lines # NoLines => /\ received[o] = NoLines
                                /\ po[o].gen = t.row.gen
        /\ po' = [po EXCEPT ![o] =
                    [status  |-> po[o].status,
                     gen     |-> IF t.lines = NoLines THEN po[o].gen
                                 ELSE po[o].gen + 1,
                     wh      |-> IF t.wh = t.row.wh THEN po[o].wh ELSE t.wh,
                     ordered |-> IF t.lines = NoLines THEN po[o].ordered
                                 ELSE t.lines,
                     arrived |-> IF t.lines = NoLines THEN po[o].arrived
                                 ELSE NoLines]]
        /\ Done(r)
        /\ UNCHANGED <<stock, received>>

\* Variant: what arrived before is not counted.
FullyReceivedNow(t) == \A s \in Sku : t.lines[s] >= t.row.ordered[s]

\* Whether every line has arrived, judged on the lines as this request has them.
FullyReceived(t) ==
    \A s \in Sku : t.row.arrived[s] + t.lines[s] >= t.row.ordered[s]

\* qty_received of the lines: as read plus this receipt, where it has the line.
ArrivedAfter(t) ==
    [s \in Sku |-> IF t.lines[s] > 0 THEN t.row.arrived[s] + t.lines[s]
                   ELSE po[t.order].arrived[s]]

\* create_gr: post the receipt lines (a foreign key to the order lines), bring
\* the goods into stock under the version that was read, write qty_received,
\* and write the status only if it differs from the one that was read.
CreateGR(r) ==
    LET t == req[r]
        o == t.order
        status == IF FullyReceived(t) THEN "FULLY_RECEIVED"
                  ELSE "PARTIAL_RECEIVED"
    IN  /\ t.op = "receive"
        /\ po[o].gen = t.row.gen
        /\ \A c \in Cell :
              QtyAt(t.row.wh, t.lines, c) > 0 => PurchaseInOK(stock[c], t.ver[c])
        /\ stock' = [c \in Cell |->
              IF QtyAt(t.row.wh, t.lines, c) > 0
              THEN PurchaseIn(stock[c], QtyAt(t.row.wh, t.lines, c))
              ELSE stock[c]]
        /\ po' = [po EXCEPT ![o] = [@ EXCEPT
                    !.arrived = ArrivedAfter(t),
                    !.status = IF status # t.row.status THEN status
                               ELSE po[o].status]]
        /\ received' = [received EXCEPT ![o] =
                            [s \in Sku |-> received[o][s] + t.lines[s]]]
        /\ Done(r)

\* Any exception ends the request without effect.
Rollback(r) ==
    /\ req[r] # Idle
    /\ Done(r)
    /\ UNCHANGED <<stock, po, received>>

Next ==
    \/ \E o \in Order : CreatePO(o)
    \/ \E r \in Request, o \in Order :
          \/ BeginConfirm(r, o)
          \/ \E privileged \in BOOLEAN : BeginCancel(r, o, privileged)
          \/ \E lines \in Baskets \cup {NoLines}, w \in Warehouse :
                BeginUpdate(r, o, lines, w)
          \/ \E lines \in [Sku -> 0 .. MaxReceipt] : BeginGR(r, o, lines)
    \/ \E r \in Request :
          ConfirmPO(r) \/ CancelPO(r) \/ UpdatePO(r) \/ CreateGR(r) \/ Rollback(r)

Spec == Init /\ [][Next]_vars

-----------------------------------------------------------------------------
(* What these requests promise about the stock they share with the others *)

Ledger == INSTANCE StockLedger WITH Families <- {"buy"},
                                    InitialOnHand <- 0, MaxOnHand <- 0,
                                    MaxVersion <- 0

\* Every request changes each stock row by at most one statement of the ledger,
\* on the row as it is, however old what the request read.
KeepsLedger == Ledger!Spec

-----------------------------------------------------------------------------
(* Properties that hold however requests overlap, as long as drafts stay in
   their warehouse *)

\* qty_received, written from a snapshot, is what the goods receipts posted:
\* the version of the stock row keeps concurrent receipts apart.
ReceiptsRecorded == \A o \in Order : po[o].arrived = received[o]

\* However a delivery is split into receipts, and though the tolerance is
\* granted afresh on what remains each time, a line never takes in more than
\* the ordered quantity plus the tolerance (GR_OVER_RECEIPT_EXCEEDED).
ReceiptBound ==
    \A o \in Order, s \in Sku : received[o][s] <= MaxAllowed(po[o].ordered[s])

\* No receipt is lost, and they stay within the tolerance.
ReceiptsSafe == ReceiptsRecorded /\ ReceiptBound

-----------------------------------------------------------------------------
(* Properties that need the requests on one order kept apart; goods receipts
   may overlap *)

Receivable == {"CONFIRMED", "PARTIAL_RECEIVED"}

Live == Receivable \cup {"FULLY_RECEIVED"}

\* What an order still brings to a stock row; an over-received line counts
\* negative until the end of time.
Awaited(row, c) ==
    IF row.status \in Live /\ row.wh = c[1] THEN Remaining(row, c[2]) ELSE 0

\* The incoming part of a row is what its live orders still have to bring.
IncomingExact ==
    \A c \in Cell :
        stock[c].incoming =
            SumFunctionOnSet([o \in Order |-> Awaited(po[o], c)], Order)

AllReceived(o) == \A s \in Sku : received[o][s] >= po[o].ordered[s]

\* create_gr re-evaluates the order: when all lines are fully received the
\* order says so, and it says so only then.  Holds for overlapping receipts of
\* the same line; those of different lines each miss the other's.
FullyReceivedIsRecorded ==
    \A o \in Order : po[o].status \in Live =>
        (po[o].status = "FULLY_RECEIVED" <=> AllReceived(o))

\* Only an order nothing was received against can be cancelled.
CancelledNeverReceived ==
    \A o \in Order : po[o].status = "CANCELLED" => received[o] = NoLines

\* The status of an order is what happened to it.
StatusTrue == FullyReceivedIsRecorded /\ CancelledNeverReceived
=============================================================================
