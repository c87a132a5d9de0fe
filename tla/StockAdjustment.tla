-------------------------- MODULE StockAdjustment ---------------------------
(***************************************************************************)
(* Stock-take adjustments: services/stock_adjustment.py with               *)
(* apply_adjustment_increase and apply_adjustment_decrease.                *)
(*                                                                         *)
(* Requests are modelled as in SalesFlow.  Only the difference of a line   *)
(* (qty_after - qty_before, both typed in by the user) reaches the stock,  *)
(* so a line is that difference; the warehouse is part of it, because the  *)
(* document is for one warehouse and an edit may replace both (edits that  *)
(* carry no lines are left out).  `applied` is what the ADJUSTMENT_IN and  *)
(* ADJUSTMENT_OUT movements of a document add up to.                       *)
(***************************************************************************)
EXTENDS Integers, FiniteSets, StockRow

CONSTANTS
    Adjustment,     \* documents that may be created
    Cell,           \* stock rows: (SKU, warehouse) pairs
    Request,        \* slots for requests in flight
    Counts,         \* the differences a user may enter: functions Cell -> Int
    InitialOnHand,  \* on_hand of every stock row at the start
    MaxOnHand,      \* bound on on_hand
    MaxEdits,       \* bound: how often the lines of one draft are replaced
    Overlap         \* the operations that may overlap on one document

NoChange == [c \in Cell |-> 0]

ASSUME CountsAssumption == Counts \subseteq [Cell -> Int] \ {NoChange}
ASSUME BoundsAssumption ==
    InitialOnHand \in Nat /\ MaxOnHand \in Nat /\ MaxEdits \in Nat

VARIABLES
    stock,      \* table stocks
    adj,        \* tables stock_adjustments and stock_adjustment_lines
    applied,    \* per document: net total of its stock movements
    req         \* requests in flight

vars == <<stock, adj, applied, req>>

Status == {"DRAFT", "CONFIRMED", "CANCELLED"}

DocRow == [status : Status \cup {"NONE"}, gen : Nat, diff : [Cell -> Int]]

Idle == [op |-> "idle"]

InFlight == [op   : {"confirm", "cancel", "edit"},
             doc  : Adjustment,
             row  : DocRow,
             ver  : [Cell -> Nat],
             diff : [Cell -> Int]]

TypeOK ==
    /\ stock \in [Cell -> Row]
    /\ adj \in [Adjustment -> DocRow]
    /\ applied \in [Adjustment -> [Cell -> Int]]
    /\ req \in [Request -> InFlight \cup {Idle}]

Init ==
    /\ stock = [c \in Cell |-> [EmptyRow EXCEPT !.on_hand = InitialOnHand]]
    /\ adj = [o \in Adjustment |-> [status |-> "NONE", gen |-> 0, diff |-> NoChange]]
    /\ applied = [o \in Adjustment |-> NoChange]
    /\ req = [r \in Request |-> Idle]

CreateAdjustment(o) ==
    /\ adj[o].status = "NONE"
    /\ \E d \in Counts :
          adj' = [adj EXCEPT ![o] = [status |-> "DRAFT", gen |-> 0, diff |-> d]]
    /\ UNCHANGED <<stock, applied, req>>

\* All three operations on a document are for drafts only, as far as they read.
Begin(r, op, o, d) ==
    /\ req[r] = Idle
    /\ \A q \in Request : req[q] # Idle /\ req[q].doc = o =>
                               {op, req[q].op} \subseteq Overlap
    /\ adj[o].status = "DRAFT"
    /\ req' = [req EXCEPT ![r] =
                  [op |-> op, doc |-> o, row |-> adj[o],
                   ver |-> [c \in Cell |-> stock[c].version], diff |-> d]]
    /\ UNCHANGED <<stock, adj, applied>>

\* Manager or Admin only, which is why a confirmation is worth a model.
BeginConfirm(r, o) == Begin(r, "confirm", o, adj[o].diff)
BeginCancel(r, o) == Begin(r, "cancel", o, NoChange)
BeginUpdate(r, o, d) == adj[o].gen < MaxEdits /\ Begin(r, "edit", o, d)

Done(r) == req' = [req EXCEPT ![r] = Idle]

\* Variants: no optimistic lock; the lock trusted to protect the quantity too.
LineUnlocked(s, v, d) == d < 0 => s.on_hand >= -d
LineUnguarded(s, v, d) == s.version = v

\* The guard and the effect of one line; a difference of zero is skipped.
LineOK(s, v, d) ==
    /\ d > 0 => IncreaseOK(s, v)
    /\ d < 0 => DecreaseOK(s, v, -d)

AfterLine(s, d) ==
    IF d > 0 THEN Increase(s, d) ELSE IF d < 0 THEN Decrease(s, -d) ELSE s

\* confirm_adjustment applies the lines as they were read.
ConfirmAdjustment(r) ==
    LET t == req[r]
    IN  /\ t.op = "confirm"
        /\ \A c \in Cell : LineOK(stock[c], t.ver[c], t.diff[c])
        /\ stock' = [c \in Cell |-> AfterLine(stock[c], t.diff[c])]
        /\ adj' = [adj EXCEPT ![t.doc].status = "CONFIRMED"]
        /\ applied' = [applied EXCEPT ![t.doc] = [c \in Cell |-> @[c] + t.diff[c]]]
        /\ Done(r)

CancelAdjustment(r) ==
    /\ req[r].op = "cancel"
    /\ adj' = [adj EXCEPT ![req[r].doc].status = "CANCELLED"]
    /\ Done(r)
    /\ UNCHANGED <<stock, applied>>

\* update_adjustment replaces the lines, unless a concurrent edit has taken line
\* number 1 (uq_adjl_adj_lineno).
UpdateAdjustment(r) ==
    LET t == req[r]
    IN  /\ t.op = "edit"
        /\ adj[t.doc].gen = t.row.gen
        /\ adj' = [adj EXCEPT ![t.doc].gen = @ + 1, ![t.doc].diff = t.diff]
        /\ Done(r)
        /\ UNCHANGED <<stock, applied>>

\* Any exception ends the request without effect.
Rollback(r) ==
    /\ req[r] # Idle
    /\ Done(r)
    /\ UNCHANGED <<stock, adj, applied>>

\* Goods that come in meanwhile (apply_purchase_in).
Supply(c, q) ==
    /\ stock[c].on_hand + q <= MaxOnHand
    /\ stock' = [stock EXCEPT ![c] = PurchaseIn(stock[c], q)]
    /\ UNCHANGED <<adj, applied, req>>

Next ==
    \/ \E o \in Adjustment : CreateAdjustment(o)
    \/ \E r \in Request, o \in Adjustment :
          \/ BeginConfirm(r, o)
          \/ BeginCancel(r, o)
          \/ \E d \in Counts : BeginUpdate(r, o, d)
    \/ \E r \in Request :
          \/ ConfirmAdjustment(r)
          \/ CancelAdjustment(r)
          \/ UpdateAdjustment(r)
          \/ Rollback(r)
    \/ \E c \in Cell, q \in 1 .. MaxOnHand : Supply(c, q)

Spec == Init /\ [][Next]_vars

-----------------------------------------------------------------------------
(* What these requests promise about the stock they share with the others *)

Ledger == INSTANCE StockLedger WITH Families <- {"count up", "count down", "buy"},
                                    MaxVersion <- 0

\* Every request changes each stock row by at most one statement of the ledger,
\* on the row as it is, however old what the request read.
KeepsLedger == Ledger!Spec

-----------------------------------------------------------------------------
\* A document changes the stock at most once, by what its lines say, although
\* nothing locks it and two confirmations may both have read it as a draft.
\* (Edits and cancellations are kept apart from them.)
AppliedAsWritten ==
    \A o \in Adjustment : applied[o] = NoChange \/ applied[o] = adj[o].diff

\* "CONFIRMED is terminal (irreversible)": what has changed the stock is
\* CONFIRMED for good, and nothing else has changed it.
AppliedIffConfirmed ==
    \A o \in Adjustment : applied[o] # NoChange <=> adj[o].status = "CONFIRMED"

\* Exactly the confirmed documents have changed the stock, once and as written.
AppliedOnce == AppliedAsWritten /\ AppliedIffConfirmed
=============================================================================
