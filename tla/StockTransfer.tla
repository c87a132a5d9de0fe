--------------------------- MODULE StockTransfer ----------------------------
(***************************************************************************)
(* Transfers of goods between warehouses: services/stock_transfer.py with  *)
(* apply_transfer_ship_out and apply_transfer_receive.                     *)
(*                                                                         *)
(* Requests are modelled as in SalesFlow: Begin... takes the snapshot and  *)
(* makes the checks, the other actions write on the current rows.  `out`   *)
(* and `landed` are what the stock movements of a transfer add up to       *)
(* (TRANSFER_OUT and TRANSFER_IN).  A transfer has one line per SKU;       *)
(* costs are left out.                                                     *)
(***************************************************************************)
EXTENDS Integers, FiniteSets, Functions, StockRow

CONSTANTS
    Transfer,          \* transfers that may be created
    Sku, Warehouse,
    Request,           \* slots for requests in flight
    Baskets,           \* the line sets a user may enter: functions Sku -> Nat
    InitialOnHand,     \* on_hand of every stock row at the start
    MaxReceipt,        \* bound: units per line of one receive request
    MaxEdits,          \* bound: how often the lines of one draft are replaced
    EditWarehouses,    \* whether draft edits may change the two warehouses
    Overlap            \* the operations that may overlap on one transfer

NoLines == [s \in Sku |-> 0]

ASSUME FiniteAssumption ==
    IsFiniteSet(Transfer) /\ IsFiniteSet(Warehouse)
ASSUME BasketsAssumption ==
    Baskets \subseteq [Sku -> Nat] \ {NoLines}
ASSUME BoundsAssumption ==
    InitialOnHand \in Nat /\ MaxReceipt \in Nat /\ MaxEdits \in Nat
ASSUME FlagAssumption ==
    EditWarehouses \in BOOLEAN

VARIABLES
    stock,      \* table stocks
    tr,         \* tables stock_transfers and stock_transfer_lines
    out,        \* per transfer: total of its TRANSFER_OUT movements
    landed,     \* per transfer: total of its TRANSFER_IN movements
    req         \* requests in flight

vars == <<stock, tr, out, landed, req>>

Cell == Warehouse \X Sku

\* Where a transfer comes from and goes to.  _validate_warehouses_distinct lets
\* users enter only pairs of distinct warehouses.
Route == Warehouse \X Warehouse
ValidRoute == {p \in Route : p[1] # p[2]}

Status == {"DRAFT", "CONFIRMED", "IN_TRANSIT", "RECEIVED", "CANCELLED"}

\* `gen` is the identity of the line rows: an edit deletes and re-creates them.
TransferRow == [status : Status \cup {"NONE"},
                gen    : Nat,
                route  : Route,
                sent   : [Sku -> Nat],
                got    : [Sku -> Nat]]     \* qty_received of the lines

Idle == [op |-> "idle"]

InFlight == [op    : {"confirm", "cancel", "edit", "ship", "receive"},
             tr    : Transfer,
             row   : TransferRow,
             ver   : [Cell -> Nat],
             lines : [Sku -> Nat],
             route : Route]

TypeOK ==
    /\ stock \in [Cell -> Row]
    /\ tr \in [Transfer -> TransferRow]
    /\ out \in [Transfer -> [Sku -> Nat]]
    /\ landed \in [Transfer -> [Sku -> Nat]]
    /\ req \in [Request -> InFlight \cup {Idle}]

QtyAt(w, lines, c) == IF c[1] = w THEN lines[c[2]] ELSE 0

Init ==
    /\ stock = [c \in Cell |-> [EmptyRow EXCEPT !.on_hand = InitialOnHand]]
    /\ \E p \in ValidRoute :
          tr = [o \in Transfer |-> [status |-> "NONE", gen |-> 0, route |-> p,
                                    sent |-> NoLines, got |-> NoLines]]
    /\ out = [o \in Transfer |-> NoLines]
    /\ landed = [o \in Transfer |-> NoLines]
    /\ req = [r \in Request |-> Idle]

-----------------------------------------------------------------------------
(* Reading: the snapshot and the checks the handlers make on it *)

CreateTransfer(o) ==
    /\ tr[o].status = "NONE"
    /\ \E lines \in Baskets, p \in ValidRoute :
          tr' = [tr EXCEPT ![o] = [status |-> "DRAFT", gen |-> 0, route |-> p,
                                   sent |-> lines, got |-> NoLines]]
    /\ UNCHANGED <<stock, out, landed, req>>

Begin(r, op, o, lines, p) ==
    /\ req[r] = Idle
    /\ \A q \in Request : req[q] # Idle /\ req[q].tr = o =>
                               {op, req[q].op} \subseteq Overlap
    /\ req' = [req EXCEPT ![r] =
                  [op |-> op, tr |-> o, row |-> tr[o],
                   ver |-> [c \in Cell |-> stock[c].version],
                   lines |-> lines, route |-> p]]
    /\ UNCHANGED <<stock, tr, out, landed>>

BeginConfirm(r, o) ==
    /\ tr[o].status = "DRAFT"
    /\ Begin(r, "confirm", o, NoLines, tr[o].route)

BeginCancel(r, o, privileged) ==
    /\ \/ tr[o].status = "DRAFT"
       \/ tr[o].status = "CONFIRMED" /\ privileged
    /\ Begin(r, "cancel", o, NoLines, tr[o].route)

\* Variant: confirmed transfers may be edited too, and so may moving ones.
BeginUpdateMoving(r, o, lines, p) ==
    /\ tr[o].status \in {"DRAFT", "CONFIRMED", "IN_TRANSIT"}
    /\ lines # NoLines => tr[o].gen < MaxEdits
    /\ Begin(r, "edit", o, lines, p)

\* lines = NoLines stands for an edit that carries no lines.
BeginUpdate(r, o, lines, p) ==
    /\ tr[o].status = "DRAFT"
    /\ ~EditWarehouses => p = tr[o].route
    /\ lines # NoLines => tr[o].gen < MaxEdits
    /\ Begin(r, "edit", o, lines, p)

BeginShip(r, o) ==
    /\ tr[o].status = "CONFIRMED"
    /\ Begin(r, "ship", o, tr[o].sent, tr[o].route)

\* TRANSFER_RECEIVE_OVER: never more than was sent, as far as the snapshot says.
BeginReceive(r, o, lines) ==
    /\ tr[o].status = "IN_TRANSIT"
    /\ lines # NoLines
    /\ \A s \in Sku : lines[s] > 0 => tr[o].got[s] + lines[s] <= tr[o].sent[s]
    /\ Begin(r, "receive", o, lines, tr[o].route)

-----------------------------------------------------------------------------
(* Writing: guards on the current rows, effects, commit *)

Done(r) == req' = [req EXCEPT ![r] = Idle]

SetStatus(o, status) == tr' = [tr EXCEPT ![o].status = status]

ConfirmTransfer(r) ==
    /\ req[r].op = "confirm"
    /\ SetStatus(req[r].tr, "CONFIRMED")
    /\ Done(r)
    /\ UNCHANGED <<stock, out, landed>>

CancelTransfer(r) ==
    /\ req[r].op = "cancel"
    /\ SetStatus(req[r].tr, "CANCELLED")
    /\ Done(r)
    /\ UNCHANGED <<stock, out, landed>>

\* update_transfer writes a warehouse only if it differs from the one read.
RouteAfter(t) ==
    [i \in {1, 2} |-> IF t.route[i] = t.row.route[i] THEN tr[t.tr].route[i]
                      ELSE t.route[i]]

\* The old lines have no other table referring to them and are simply replaced,
\* unless a concurrent edit has taken line number 1 (uq_trl_tr_lineno).
UpdateTransfer(r) ==
    LET t == req[r]
        cur == tr[t.tr]
    IN  /\ t.op = "edit"
        /\ t.lines # NoLines => cur.gen = t.row.gen
        /\ tr' = [tr EXCEPT ![t.tr] =
                    [status |-> cur.status,
                     gen    |-> IF t.lines = NoLines THEN cur.gen ELSE cur.gen + 1,
                     route  |-> RouteAfter(t),
                     sent   |-> IF t.lines = NoLines THEN cur.sent ELSE t.lines,
                     got    |-> IF t.lines = NoLines THEN cur.got ELSE NoLines]]
        /\ Done(r)
        /\ UNCHANGED <<stock, out, landed>>

\* Variant: the goods are believed to be there.
CanShipUnchecked(t) == TRUE

\* Each line leaves by one guarded UPDATE; one that fails fails the request.
CanShip(t) ==
    \A c \in Cell :
        QtyAt(t.row.route[1], t.lines, c) > 0 =>
            ShipOutOK(stock[c], t.ver[c], QtyAt(t.row.route[1], t.lines, c))

\* ship_out_transfer: every line leaves the sending row under the version that
\* was read and shows up in transit on the receiving row.  Writing the cost
\* snapshot to lines that were replaced meanwhile fails (StaleDataError).
ShipOutTransfer(r) ==
    LET t == req[r]
        leaving(c) == QtyAt(t.row.route[1], t.lines, c)
        coming(c) == QtyAt(t.row.route[2], t.lines, c)
    IN  /\ t.op = "ship"
        /\ t.row.route \in ValidRoute       \* checked by the inventory service
        /\ tr[t.tr].gen = t.row.gen
        /\ CanShip(t)
        /\ stock' = [c \in Cell |->
              IF leaving(c) > 0 THEN ShipOut(stock[c], leaving(c))
              ELSE IF coming(c) > 0 THEN ShipIn(stock[c], coming(c))
              ELSE stock[c]]
        /\ SetStatus(t.tr, "IN_TRANSIT")
        /\ out' = [out EXCEPT ![t.tr] = [s \in Sku |-> out[t.tr][s] + t.lines[s]]]
        /\ Done(r)
        /\ UNCHANGED landed

\* Variant: what landed before is not counted.
FullyReceivedNow(t) == \A s \in Sku : t.lines[s] >= t.row.sent[s]

\* Whether all lines have landed, judged on the lines as this request has them.
FullyReceived(t) ==
    \A s \in Sku : t.row.got[s] + t.lines[s] >= t.row.sent[s]

\* qty_received of the lines: as read plus this receipt, where it has the line.
GotAfter(t) ==
    [s \in Sku |-> IF t.lines[s] > 0 THEN t.row.got[s] + t.lines[s]
                   ELSE tr[t.tr].got[s]]

\* receive_transfer writes the status only when all lines are full.
ReceiveTransfer(r) ==
    LET t == req[r]
        arriving(c) == QtyAt(t.row.route[2], t.lines, c)
    IN  /\ t.op = "receive"
        /\ tr[t.tr].gen = t.row.gen
        /\ \A c \in Cell :
              arriving(c) > 0 => ReceiveOK(stock[c], t.ver[c], arriving(c))
        /\ stock' = [c \in Cell |->
              IF arriving(c) > 0 THEN Receive(stock[c], arriving(c)) ELSE stock[c]]
        /\ tr' = [tr EXCEPT ![t.tr] = [@ EXCEPT
                    !.got = GotAfter(t),
                    !.status = IF FullyReceived(t) THEN "RECEIVED"
                               ELSE tr[t.tr].status]]
        /\ landed' = [landed EXCEPT ![t.tr] =
                        [s \in Sku |-> landed[t.tr][s] + t.lines[s]]]
        /\ Done(r)
        /\ UNCHANGED out

\* Any exception ends the request without effect.
Rollback(r) ==
    /\ req[r] # Idle
    /\ Done(r)
    /\ UNCHANGED <<stock, tr, out, landed>>

Next ==
    \/ \E o \in Transfer : CreateTransfer(o)
    \/ \E r \in Request, o \in Transfer :
          \/ BeginConfirm(r, o)
          \/ \E privileged \in BOOLEAN : BeginCancel(r, o, privileged)
          \/ \E lines \in Baskets \cup {NoLines}, p \in ValidRoute :
                BeginUpdate(r, o, lines, p)
          \/ BeginShip(r, o)
          \/ \E lines \in [Sku -> 0 .. MaxReceipt] : BeginReceive(r, o, lines)
    \/ \E r \in Request :
          \/ ConfirmTransfer(r)
          \/ CancelTransfer(r)
          \/ UpdateTransfer(r)
          \/ ShipOutTransfer(r)
          \/ ReceiveTransfer(r)
          \/ Rollback(r)

Spec == Init /\ [][Next]_vars

-----------------------------------------------------------------------------
(* What these requests promise about the stock they share with the others *)

Ledger == INSTANCE StockLedger WITH Families <- {"send", "take in"},
                                    MaxOnHand <- 0, MaxVersion <- 0

\* Every request changes each stock row by at most one statement of the ledger,
\* on the row as it is, however old what the request read.
KeepsLedger == Ledger!Spec

-----------------------------------------------------------------------------
(* Properties of the goods: the first holds however requests overlap; the
   others while confirmations and edits are kept apart from the rest *)

\* What a row holds, and what travels towards it.
GoodsIn(row) == row.on_hand + row.in_transit

\* Goods change place but never number: what the warehouses hold of a SKU and
\* what travels between them is what there was at the start, in every state
\* and whatever becomes of the transfer documents.
GoodsConserved ==
    \A s \in Sku :
        SumFunctionOnSet([w \in Warehouse |-> GoodsIn(stock[<<w, s>>])], Warehouse)
            = InitialOnHand * Cardinality(Warehouse)

\* A transfer ships at most once, and exactly the lines it now shows, although
\* two ship_out requests may both have read it CONFIRMED.
ShippedAsWritten ==
    \A o \in Transfer : out[o] = NoLines \/ out[o] = tr[o].sent

\* No transfer lands more than it shipped: the check of receive_transfer is made
\* on a snapshot, and in_transit of the row is shared by all transfers.
LandedWithinShipped ==
    \A o \in Transfer, s \in Sku : landed[o][s] <= out[o][s]

\* qty_received, written from a snapshot, is what the movements add up to.
ReceiptsRecorded == \A o \in Transfer : tr[o].got = landed[o]

\* The movements of a transfer are what it shows: it is shipped once, lands no
\* more than that, and no receipt is lost.
MovedAsWritten == ShippedAsWritten /\ LandedWithinShipped /\ ReceiptsRecorded

-----------------------------------------------------------------------------
(* Properties of the documents: they need the requests on one transfer kept
   apart; those that ship or receive may overlap *)

\* What a transfer under way still owes to a stock row.
Owed(row, c) ==
    IF row.status = "IN_TRANSIT" /\ row.route[2] = c[1]
    THEN row.sent[c[2]] - row.got[c[2]] ELSE 0

\* `in_transit` of a row is exactly what the transfers under way still owe it.
TransitExact ==
    \A c \in Cell :
        stock[c].in_transit =
            SumFunctionOnSet([o \in Transfer |-> Owed(tr[o], c)], Transfer)

\* Nothing vanishes on the way, in total and per destination.
GoodsAccounted == GoodsConserved /\ TransitExact

\* When all lines have landed the transfer is RECEIVED, and only then: a
\* transfer left IN_TRANSIT with nothing under way could never be closed.
\* Holds for overlapping receipts of the same line; those of different lines
\* each miss the other's.
ReceivedIsRecorded ==
    \A o \in Transfer : out[o] # NoLines =>
        (tr[o].status = "RECEIVED" <=> landed[o] = out[o])

\* Goods that are physically moving belong to no cancelled transfer.
CancelledNeverShipped ==
    \A o \in Transfer : tr[o].status = "CANCELLED" => out[o] = NoLines

\* The status of a transfer is what happened to it.
StatusTrue == ReceivedIsRecorded /\ CancelledNeverShipped
=============================================================================
