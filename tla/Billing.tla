------------------------------ MODULE Billing -------------------------------
(***************************************************************************)
(* From shipped goods to invoices and credit notes: drafting and monthly   *)
(* consolidation in services/einvoice.py, and services/credit_note.py.     *)
(*                                                                         *)
(* Requests are modelled as in SalesFlow: Begin... is the snapshot and the *)
(* checks made on it, the next action of the request is its writes on the  *)
(* current rows and the commit.  An order has one line; what happens       *)
(* between a draft invoice and the tax authority is in EInvoice, and here  *)
(* only the status that it leaves (InvoiceLife).  `moved` is what the      *)
(* stock movements of a credit note add up to.                             *)
(***************************************************************************)
EXTENDS InvoiceLife, Integers, FiniteSets, Sequences, Functions, StockRow

CONSTANTS
    Order,          \* sales orders with one line each
    Customer,
    Retail,         \* the customers of type B2C
    Sku,
    Warehouse,
    CustomerOf,     \* per order: its customer,
    SkuOf,          \*            the SKU of its line,
    WarehouseOf,    \*            the warehouse it is delivered from,
    Ordered,        \*            its quantity
    Request,        \* slots for requests in flight
    Payloads,       \* the lines a credit note may ask for
    MaxInvoices,    \* bound on invoices
    MaxNotes,       \* bound on credit notes
    Overlap         \* the operations that may overlap on one document

NoOrder == "no order"
Cell == Sku \X Warehouse

\* CreditNoteLineIn: the invoice line (here its order) and a positive quantity.
CreditLine == [line : Order, qty : Nat \ {0}]

ASSUME OrderAssumption == IsFiniteSet(Order)
ASSUME RetailAssumption == Retail \subseteq Customer
ASSUME PlacesAssumption ==
    /\ CustomerOf \in [Order -> Customer]
    /\ SkuOf \in [Order -> Sku]
    /\ WarehouseOf \in [Order -> Warehouse]
    /\ Ordered \in [Order -> Nat]
    /\ NoOrder \notin Order
ASSUME PayloadsAssumption == Payloads \subseteq Seq(CreditLine) \ {<<>>}
ASSUME BoundsAssumption == MaxInvoices \in Nat /\ MaxNotes \in Nat

VARIABLES
    shipped,    \* qty_shipped per order line
    invoiced,   \* qty_invoiced per order line
    inv,        \* tables invoices and invoice_lines, in order of their ids
    note,       \* tables credit_notes and credit_note_lines
    stock,      \* table stocks
    moved,      \* per credit note: net total of its stock movements
    req         \* requests in flight

vars == <<shipped, invoiced, inv, note, stock, moved, req>>

\* DRAFT includes SUBMITTED and VALIDATED includes FINAL: what can be credited
\* is all that matters here.
InvoiceStatus == {Stage(s) : s \in Status}
NoteStatus == {"DRAFT", "SUBMITTED", "VALIDATED", "CANCELLED"}

\* A consolidated invoice has no order of its own, only lines.
InvoiceRow == [status : InvoiceStatus, so : Order \cup {NoOrder},
               warehouse : Warehouse, lines : [Order -> Nat]]

NoteRow == [status : NoteStatus, invoice : Nat \ {0}, lines : Seq(CreditLine)]

Idle == [op |-> "idle"]
Nothing == [o \in Order |-> 0]

\* What a request is about: an order, an invoice or a credit note.
Document == ({"order"} \X Order) \cup ({"invoice", "note"} \X (Nat \ {0}))

InFlight ==
    [op : {"draft"}, on : SUBSET Document, order : Order, qty : Nat, before : Nat]
    \cup [op : {"consolidate"}, on : SUBSET Document, lines : [Order -> Nat]]
    \cup [op : {"credit"}, on : SUBSET Document, invoice : Nat \ {0},
          lines : Seq(CreditLine), ver : [Cell -> Nat]]
    \cup [op : {"submit", "cancel"}, on : SUBSET Document, note : Nat \ {0},
          ver : [Cell -> Nat]]

TypeOK ==
    /\ shipped \in [Order -> Nat]
    /\ invoiced \in [Order -> Nat]
    /\ inv \in Seq(InvoiceRow)
    /\ note \in Seq(NoteRow)
    /\ stock \in [Cell -> Row]
    /\ moved \in Seq([Cell -> Int])
    /\ req \in [Request -> InFlight \cup {Idle}]

Init ==
    /\ shipped = Nothing
    /\ invoiced = Nothing
    /\ inv = <<>>
    /\ note = <<>>
    /\ stock = [c \in Cell |-> EmptyRow]
    /\ moved = <<>>
    /\ req = [r \in Request |-> Idle]

-----------------------------------------------------------------------------
(* Queries *)

\* get_by_so_id: the invoice for this order alone.
Individually(o) == \E i \in DOMAIN inv : inv[i].so = o

\* _so_already_consolidated: a line of the order is on a consolidated invoice.
Consolidated(o) == \E i \in DOMAIN inv : inv[i].so = NoOrder /\ inv[i].lines[o] > 0

\* What the lines of a request or a note ask for: per line, of one invoice line.
Asked(lines) == [k \in DOMAIN lines |-> lines[k].qty]
QtyOf(lines, o) ==
    SumFunctionOnSet(Asked(lines), {k \in DOMAIN lines : lines[k].line = o})

\* What a note that is not cancelled credits of a line of invoice i.
CreditedBy(row, i, o) ==
    IF row.invoice = i /\ row.status # "CANCELLED" THEN QtyOf(row.lines, o) ELSE 0

\* sum_credited_qty_per_invoice_line
Credited(i, o) ==
    SumFunctionOnSet([n \in DOMAIN note |-> CreditedBy(note[n], i, o)], DOMAIN note)

\* The lines that concern stock row c, if the goods return to warehouse w.
LinesAt(w, lines, c) == {k \in DOMAIN lines : <<SkuOf[lines[k].line], w>> = c}

TotalAt(w, lines, c) == SumFunctionOnSet(Asked(lines), LinesAt(w, lines, c))

\* Where the goods of a note are: in the warehouse of its invoice.
PlaceOf(n) == inv[note[n].invoice].warehouse

-----------------------------------------------------------------------------
(* What the rest of the system does meanwhile *)

\* create_do: more of an order is delivered, and its status follows.
Deliver(o) ==
    /\ shipped[o] < Ordered[o]
    /\ shipped' = [shipped EXCEPT ![o] = @ + 1]
    /\ UNCHANGED <<invoiced, inv, note, stock, moved, req>>

\* The invoice on its way through EInvoice, requests that are late included.
Advance(i) ==
    /\ \E m \in StageMoves : m[1] = inv[i].status
                             /\ inv' = [inv EXCEPT ![i].status = m[2]]
    /\ UNCHANGED <<shipped, invoiced, note, stock, moved, req>>

\* Some other document takes goods that came back.
Take(c) ==
    /\ DecreaseOK(stock[c], stock[c].version, 1)
    /\ stock' = [stock EXCEPT ![c] = Decrease(@, 1)]
    /\ UNCHANGED <<shipped, invoiced, inv, note, moved, req>>

-----------------------------------------------------------------------------
(* Reading: the checks of each handler, on its snapshot *)

Begin(r, t) ==
    /\ req[r] = Idle
    /\ \A q \in Request : req[q] # Idle /\ req[q].on \cap t.on # {} =>
                               {t.op, req[q].op} \subseteq Overlap
    /\ req' = [req EXCEPT ![r] = t]
    /\ UNCHANGED <<shipped, invoiced, inv, note, stock, moved>>

Versions == [c \in Cell |-> stock[c].version]

\* Variant: an order that was consolidated may be billed on its own, too.
MayDraftAgain(o) == shipped[o] > 0 /\ ~Individually(o)

\* SO_NOT_INVOICEABLE, the idempotent return and SO_ALREADY_CONSOLIDATED.
MayDraft(o) == shipped[o] > 0 /\ ~Individually(o) /\ ~Consolidated(o)

BeginDraft(r, o) ==
    /\ MayDraft(o)
    /\ Begin(r, [op |-> "draft", on |-> {<<"order", o>>}, order |-> o, qty |-> shipped[o],
                 before |-> invoiced[o]])

\* The orders that the monthly roll-up picks, with everything shipped of them.
Candidates == {o \in Order : /\ CustomerOf[o] \in Retail
                             /\ shipped[o] > 0
                             /\ ~Individually(o) /\ ~Consolidated(o)}

BeginConsolidate(r) ==
    /\ Candidates # {}
    /\ Begin(r, [op |-> "consolidate", on |-> {<<"order", o>> : o \in Order},
                 lines |-> [o \in Order |-> IF o \in Candidates THEN shipped[o] ELSE 0]])

\* Each line of the request is compared with what the other notes leave of it.
Creditable(i, lines) ==
    \A k \in DOMAIN lines :
        lines[k].qty <= inv[i].lines[lines[k].line] - Credited(i, lines[k].line)

BeginCredit(r, i, lines) ==
    /\ inv[i].status = "VALIDATED"
    /\ Creditable(i, lines)
    /\ Begin(r, [op |-> "credit", on |-> {<<"invoice", i>>}, invoice |-> i,
                 lines |-> lines, ver |-> Versions])

\* Variant: the status of the note is not looked at.
BeginNoteAny(r, op, n) ==
    Begin(r, [op |-> op, on |-> {<<"note", n>>}, note |-> n, ver |-> Versions])

\* Submitting and cancelling are for drafts.
BeginNote(r, op, n) ==
    /\ note[n].status = "DRAFT"
    /\ Begin(r, [op |-> op, on |-> {<<"note", n>>}, note |-> n, ver |-> Versions])

-----------------------------------------------------------------------------
(* Writing: constraints and guards on the current rows, effects, commit *)

Done(r) == req' = [req EXCEPT ![r] = Idle]

\* uq_inv_so keeps a second invoice for one order out.
GenerateDraft(r) ==
    LET t == req[r]
    IN  /\ t.op = "draft"
        /\ Len(inv) < MaxInvoices
        /\ ~Individually(t.order)
        /\ inv' = Append(inv, [status |-> "DRAFT", so |-> t.order,
                               warehouse |-> WarehouseOf[t.order],
                               lines |-> [Nothing EXCEPT ![t.order] = t.qty]])
        /\ invoiced' = [invoiced EXCEPT ![t.order] = t.before + t.qty]
        /\ Done(r)
        /\ UNCHANGED <<shipped, note, stock, moved>>

\* The invoice for the customer of `first`, whichever of the orders comes first.
Rollup(lines, first) ==
    [status |-> "DRAFT", so |-> NoOrder, warehouse |-> WarehouseOf[first],
     lines |-> [o \in Order |->
                   IF CustomerOf[o] = CustomerOf[first] THEN lines[o] ELSE 0]]

\* One invoice per customer; generate_monthly_consolidated leaves qty_invoiced
\* alone.
Consolidate(r) ==
    LET t == req[r]
        billed == {o \in Order : t.lines[o] > 0}
        new == 1 .. Cardinality({CustomerOf[o] : o \in billed})
    IN  /\ t.op = "consolidate"
        /\ Len(inv) + Cardinality(new) <= MaxInvoices
        /\ \E first \in [new -> billed] :
              /\ \A j, k \in new : CustomerOf[first[j]] = CustomerOf[first[k]] => j = k
              /\ inv' = inv \o [k \in new |-> Rollup(t.lines, first[k])]
        /\ Done(r)
        /\ UNCHANGED <<shipped, invoiced, note, stock, moved>>

\* Variant: no optimistic lock on the row the goods return to.
ReturnUnlocked(w, lines, ver) == TRUE

\* Every stock row the lines touch is still as it was read.
ReturnOK(w, lines, ver) ==
    \A c \in Cell : LinesAt(w, lines, c) # {} => SalesReturnOK(stock[c], ver[c])

\* One statement per line; those on one stock row count as one, for versions
\* are only compared.
Return(w, lines) ==
    [c \in Cell |-> IF LinesAt(w, lines, c) = {} THEN stock[c]
                    ELSE SalesReturn(stock[c], TotalAt(w, lines, c))]

\* create_credit_note: a DRAFT, and the goods are back at once.
CreateCreditNote(r) ==
    LET t == req[r]
        w == inv[t.invoice].warehouse
    IN  /\ t.op = "credit"
        /\ Len(note) < MaxNotes
        /\ ReturnOK(w, t.lines, t.ver)
        /\ stock' = Return(w, t.lines)
        /\ note' = Append(note, [status |-> "DRAFT", invoice |-> t.invoice,
                                 lines |-> t.lines])
        /\ moved' = Append(moved, [c \in Cell |-> TotalAt(w, t.lines, c)])
        /\ Done(r)
        /\ UNCHANGED <<shipped, invoiced, inv>>

\* submit_credit_note_to_myinvois: the verdict is there or it is not.
SubmitCreditNote(r) ==
    /\ req[r].op = "submit"
    /\ \E status \in {"VALIDATED", "SUBMITTED"} :
          note' = [note EXCEPT ![req[r].note].status = status]
    /\ Done(r)
    /\ UNCHANGED <<shipped, invoiced, inv, stock, moved>>

UndoOK(w, lines, ver) ==
    \A c \in Cell : LinesAt(w, lines, c) # {} =>
        SalesReturnReverseOK(stock[c], ver[c], TotalAt(w, lines, c))

Undo(w, lines) ==
    [c \in Cell |-> IF LinesAt(w, lines, c) = {} THEN stock[c]
                    ELSE SalesReturnReverse(stock[c], TotalAt(w, lines, c))]

\* cancel_credit_note takes the goods out again, if they are still there.
CancelCreditNote(r) ==
    LET n == req[r].note
        lines == note[n].lines
    IN  /\ req[r].op = "cancel"
        /\ UndoOK(PlaceOf(n), lines, req[r].ver)
        /\ stock' = Undo(PlaceOf(n), lines)
        /\ note' = [note EXCEPT ![n].status = "CANCELLED"]
        /\ moved' = [moved EXCEPT ![n] =
                        [c \in Cell |-> moved[n][c] - TotalAt(PlaceOf(n), lines, c)]]
        /\ Done(r)
        /\ UNCHANGED <<shipped, invoiced, inv>>

\* Any exception ends the request without effect.
Rollback(r) ==
    /\ req[r] # Idle
    /\ Done(r)
    /\ UNCHANGED <<shipped, invoiced, inv, note, stock, moved>>

Next ==
    \/ \E o \in Order : Deliver(o)
    \/ \E i \in DOMAIN inv : Advance(i)
    \/ \E c \in Cell : Take(c)
    \/ \E r \in Request :
          \/ \E o \in Order : BeginDraft(r, o)
          \/ BeginConsolidate(r)
          \/ \E i \in DOMAIN inv, lines \in Payloads : BeginCredit(r, i, lines)
          \/ \E n \in DOMAIN note, op \in {"submit", "cancel"} : BeginNote(r, op, n)
          \/ GenerateDraft(r)
          \/ Consolidate(r)
          \/ CreateCreditNote(r)
          \/ SubmitCreditNote(r)
          \/ CancelCreditNote(r)
          \/ Rollback(r)

Spec == Init /\ [][Next]_vars

-----------------------------------------------------------------------------
(* Properties *)

\* No customer pays twice for the same goods: an order is on one invoice at
\* most, for no more than was shipped, and qty_invoiced tells what the invoice
\* of its own bills.  No constraint says so across the two kinds of invoice.
BilledOnce ==
    \A o \in Order :
        /\ Cardinality({i \in DOMAIN inv : inv[i].lines[o] > 0}) <= 1
        /\ \A i \in DOMAIN inv :
              /\ inv[i].lines[o] <= shipped[o]
              /\ inv[i].so = o => invoiced[o] = inv[i].lines[o]

\* A customer is never credited for more units than an invoice line bills: the
\* sum is checked on a snapshot, and only the version of the stock row that the
\* goods return to tells two credit notes for one line apart.
CreditBound ==
    \A i \in DOMAIN inv, o \in Order : Credited(i, o) <= inv[i].lines[o]

\* The goods of a credit note are back in the warehouse of its invoice as long
\* as the note stands, once; a cancelled note has taken them out again, once.
ReturnsMatch ==
    \A n \in DOMAIN note, c \in Cell :
        moved[n][c] = IF note[n].status = "CANCELLED" THEN 0
                      ELSE TotalAt(PlaceOf(n), note[n].lines, c)
=============================================================================
