-------------------------- MODULE Billing_proofs ---------------------------
(***************************************************************************)
(* Proofs about Billing, for any finite set of orders and any number of    *)
(* customers, SKUs, warehouses, requests and lines of a credit note.  The  *)
(* bounds on invoices and credit notes play no part in them.               *)
(***************************************************************************)
EXTENDS Billing, StockRow_proofs, SequenceTheorems, TLAPS

\* What a request in flight holds.
LEMMA ActiveRequest ==
    ASSUME TypeOK, NEW r \in Request
    PROVE  /\ req[r].op = "draft" =>
                 /\ req[r].order \in Order
                 /\ req[r].qty \in Nat
                 /\ req[r].before \in Nat
           /\ req[r].op = "consolidate" => req[r].lines \in [Order -> Nat]
           /\ req[r].op = "credit" =>
                 /\ req[r].invoice \in Nat \ {0}
                 /\ req[r].lines \in Seq(CreditLine)
                 /\ req[r].ver \in [Cell -> Nat]
           /\ req[r].op \in {"submit", "cancel"} =>
                 /\ req[r].note \in Nat \ {0}
                 /\ req[r].ver \in [Cell -> Nat]
<1>1. req[r] \in InFlight \cup {Idle}
  BY DEF TypeOK
<1>. QED BY <1>1 DEF InFlight, Idle

\* Every sum over lines is a natural number.
LEMMA AskedNat ==
    ASSUME NEW lines \in Seq(CreditLine), NEW S, S \subseteq DOMAIN lines
    PROVE  /\ IsFiniteSet(S)
           /\ \A k \in S : Asked(lines)[k] \in Nat /\ Asked(lines)[k] = lines[k].qty
           /\ SumFunctionOnSet(Asked(lines), S) \in Nat
<1>1. DOMAIN lines = 1 .. Len(lines) /\ Len(lines) \in Nat
  OBVIOUS
<1>2. IsFiniteSet(S)
  <2>1. IsFiniteSet(1 .. Len(lines))
    BY <1>1, FS_Interval
  <2>. QED BY <1>1, <2>1, FS_Subset
<1>3. \A k \in S : Asked(lines)[k] \in Nat /\ Asked(lines)[k] = lines[k].qty
  <2>1. \A k \in DOMAIN lines : lines[k] \in CreditLine
    OBVIOUS
  <2>2. \A k \in DOMAIN lines : lines[k].qty \in Nat
    BY <2>1 DEF CreditLine
  <2>. QED BY <2>2 DEF Asked
<1>. HIDE DEF Asked
<1>. QED BY <1>2, <1>3, SumNonNegative

LEMMA TotalsNat ==
    ASSUME NEW lines \in Seq(CreditLine)
    PROVE  /\ \A o \in Order : QtyOf(lines, o) \in Nat
           /\ \A w \in Warehouse, c \in Cell : TotalAt(w, lines, c) \in Nat
  BY AskedNat DEF QtyOf, TotalAt, LinesAt

-----------------------------------------------------------------------------
(* Types *)

\* Documents that are named exist, and every note has its movements.
TypeInv ==
    /\ TypeOK
    /\ Len(moved) = Len(note)
    /\ \A n \in DOMAIN note : note[n].invoice \in DOMAIN inv
    /\ \A r \in Request :
          /\ req[r].op = "credit" => req[r].invoice \in DOMAIN inv
          /\ req[r].op \in {"submit", "cancel"} => req[r].note \in DOMAIN note

LEMMA TypeInit == Init => TypeInv
<1>. SUFFICES ASSUME Init PROVE TypeInv
  OBVIOUS
<1>1. EmptyRow \in Row
  BY DEF EmptyRow, Row
<1>2. TypeOK
  BY <1>1 DEF Init, TypeOK, Nothing
<1>. QED BY <1>2 DEF Init, TypeInv, Idle

\* What every request that begins is like.
Began(r, t) ==
    /\ Begin(r, t)
    /\ t \in InFlight
    /\ t.op = "credit" => t.invoice \in DOMAIN inv
    /\ t.op \in {"submit", "cancel"} => t.note \in DOMAIN note

LEMMA VersionsType ==
    ASSUME TypeOK
    PROVE  Versions \in [Cell -> Nat] /\ \A c \in Cell : Versions[c] = stock[c].version
  BY DEF TypeOK, Versions, Row

LEMMA DraftBegins ==
    ASSUME TypeInv, NEW r \in Request, NEW o \in Order, BeginDraft(r, o)
    PROVE  Began(r, [op |-> "draft", on |-> {<<"order", o>>}, order |-> o,
                     qty |-> shipped[o], before |-> invoiced[o]])
<1>. DEFINE t == [op |-> "draft", on |-> {<<"order", o>>}, order |-> o,
                  qty |-> shipped[o], before |-> invoiced[o]]
<1>1. shipped[o] \in Nat /\ invoiced[o] \in Nat
  BY DEF TypeInv, TypeOK
<1>2. {<<"order", o>>} \in SUBSET Document
  BY DEF Document
<1>3. t \in InFlight
  BY <1>1, <1>2 DEF InFlight
<1>4. Begin(r, t)
  BY DEF BeginDraft
<1>. QED BY <1>3, <1>4 DEF Began

LEMMA ConsolidateBegins ==
    ASSUME TypeInv, NEW r \in Request, BeginConsolidate(r)
    PROVE  Began(r, [op |-> "consolidate", on |-> {<<"order", o>> : o \in Order},
                     lines |-> [o \in Order |-> IF o \in Candidates THEN shipped[o] ELSE 0]])
<1>. DEFINE lines == [o \in Order |-> IF o \in Candidates THEN shipped[o] ELSE 0]
            on == {<<"order", o>> : o \in Order}
            t == [op |-> "consolidate", on |-> on, lines |-> lines]
<1>1. lines \in [Order -> Nat]
  BY DEF TypeInv, TypeOK
<1>2. on \in SUBSET Document
  BY DEF Document
<1>3. Begin(r, t)
  BY DEF BeginConsolidate
<1>. HIDE DEF lines, on
<1>4. t \in InFlight
  BY <1>1, <1>2 DEF InFlight
<1>5. Began(r, t)
  BY <1>3, <1>4 DEF Began
<1>. QED BY <1>5 DEF lines, on

LEMMA CreditBegins ==
    ASSUME TypeInv, NEW r \in Request, NEW i \in DOMAIN inv, NEW lines \in Payloads,
           BeginCredit(r, i, lines)
    PROVE  Began(r, [op |-> "credit", on |-> {<<"invoice", i>>}, invoice |-> i,
                     lines |-> lines, ver |-> Versions])
<1>. DEFINE t == [op |-> "credit", on |-> {<<"invoice", i>>}, invoice |-> i,
                  lines |-> lines, ver |-> Versions]
<1>1. i \in Nat \ {0}
  BY DEF TypeInv, TypeOK
<1>2. lines \in Seq(CreditLine) /\ Versions \in [Cell -> Nat]
  BY PayloadsAssumption, VersionsType DEF TypeInv
<1>3. {<<"invoice", i>>} \in SUBSET Document
  BY <1>1 DEF Document
<1>4. t \in InFlight
  BY <1>1, <1>2, <1>3 DEF InFlight
<1>5. Begin(r, t)
  BY DEF BeginCredit
<1>. QED BY <1>4, <1>5 DEF Began

LEMMA NoteBegins ==
    ASSUME TypeInv, NEW r \in Request, NEW n \in DOMAIN note, NEW op \in {"submit", "cancel"},
           BeginNote(r, op, n)
    PROVE  Began(r, [op |-> op, on |-> {<<"note", n>>}, note |-> n, ver |-> Versions])
<1>. DEFINE t == [op |-> op, on |-> {<<"note", n>>}, note |-> n, ver |-> Versions]
<1>1. n \in Nat \ {0}
  BY DEF TypeInv, TypeOK
<1>2. Versions \in [Cell -> Nat]
  BY VersionsType DEF TypeInv
<1>3. {<<"note", n>>} \in SUBSET Document
  BY <1>1 DEF Document
<1>4. t \in InFlight
  BY <1>1, <1>2, <1>3 DEF InFlight
<1>5. Begin(r, t)
  BY DEF BeginNote
<1>. QED BY <1>4, <1>5 DEF Began

LEMMA BeginType ==
    ASSUME TypeInv, NEW r \in Request, NEW t, Began(r, t)
    PROVE  TypeInv'
<1>. DEFINE new == [req EXCEPT ![r] = t]
<1>1. /\ req' = new /\ t \in InFlight
      /\ UNCHANGED <<shipped, invoiced, inv, note, stock, moved>>
  BY DEF Began, Begin
<1>2. /\ new \in [Request -> InFlight \cup {Idle}]
      /\ \A q \in Request : new[q] = IF q = r THEN t ELSE req[q]
  BY <1>1 DEF TypeInv, TypeOK
<1>. HIDE DEF new
<1>3. TypeOK'
  BY <1>1, <1>2 DEF TypeInv, TypeOK
<1>4. ASSUME NEW q \in Request
      PROVE  /\ new[q].op = "credit" => new[q].invoice \in DOMAIN inv
             /\ new[q].op \in {"submit", "cancel"} => new[q].note \in DOMAIN note
  BY <1>2 DEF TypeInv, Began
<1>. QED BY <1>1, <1>3, <1>4 DEF TypeInv

\* A request that ends is gone, and the others are what they were.
LEMMA DoneType ==
    ASSUME TypeOK, NEW r \in Request, Done(r)
    PROVE  /\ req' \in [Request -> InFlight \cup {Idle}]
           /\ req'[r].op = "idle"
           /\ \A q \in Request : q # r => req'[q] = req[q]
  BY DEF TypeOK, Done, Idle

\* Invoices are added or change their status, and nothing else about them.
LEMMA InvoicesType ==
    ASSUME TypeInv, inv' \in Seq(InvoiceRow), DOMAIN inv \subseteq DOMAIN inv',
           shipped' \in [Order -> Nat], invoiced' \in [Order -> Nat],
           UNCHANGED <<note, stock, moved>>,
           \/ UNCHANGED req
           \/ \E r \in Request : Done(r)
    PROVE  TypeInv'
<1>1. /\ req' \in [Request -> InFlight \cup {Idle}]
      /\ \A q \in Request : req'[q] = req[q] \/ req'[q].op = "idle"
  <2>1. CASE UNCHANGED req
    BY <2>1 DEF TypeInv, TypeOK
  <2>2. ASSUME NEW r \in Request, Done(r)
        PROVE  /\ req' \in [Request -> InFlight \cup {Idle}]
               /\ \A q \in Request : req'[q] = req[q] \/ req'[q].op = "idle"
    BY <2>2, DoneType DEF TypeInv
  <2>. QED BY <2>1, <2>2
<1>2. TypeOK'
  BY <1>1 DEF TypeInv, TypeOK
<1>3. ASSUME NEW q \in Request
      PROVE  /\ req'[q].op = "credit" => req'[q].invoice \in DOMAIN inv'
             /\ req'[q].op \in {"submit", "cancel"} => req'[q].note \in DOMAIN note'
  BY <1>1 DEF TypeInv
<1>. QED BY <1>2, <1>3 DEF TypeInv

LEMMA DraftStatus == "DRAFT" \in InvoiceStatus
<1>1. "DRAFT" \in Status /\ Stage("DRAFT") = "DRAFT"
  BY DEF Status, Stage
<1>. QED BY <1>1 DEF InvoiceStatus

LEMMA AdvanceType ==
    ASSUME TypeInv, NEW i \in DOMAIN inv, Advance(i)
    PROVE  /\ TypeInv'
           /\ DOMAIN inv' = DOMAIN inv
           /\ \A j \in DOMAIN inv : /\ inv'[j].so = inv[j].so
                                    /\ inv'[j].warehouse = inv[j].warehouse
                                    /\ inv'[j].lines = inv[j].lines
<1>1. PICK m \in StageMoves : inv' = [inv EXCEPT ![i].status = m[2]]
  BY DEF Advance
<1>2. inv \in Seq(InvoiceRow) /\ \A j \in DOMAIN inv : inv[j] \in InvoiceRow
  BY DEF TypeInv, TypeOK
<1>3. m[2] \in InvoiceStatus
  BY DEF StageMoves, Moves, StaleMoves, InvoiceStatus, Status
<1>. DEFINE row == [inv[i] EXCEPT !.status = m[2]]
<1>4. /\ row \in InvoiceRow
      /\ row.so = inv[i].so /\ row.warehouse = inv[i].warehouse /\ row.lines = inv[i].lines
  BY <1>2, <1>3 DEF InvoiceRow
<1>5. inv' = [inv EXCEPT ![i] = row]
  BY <1>1
<1>. HIDE DEF row
<1>6. inv' \in Seq(InvoiceRow) /\ DOMAIN inv' = DOMAIN inv
  BY <1>2, <1>4, <1>5
<1>7. TypeInv'
  <2>1. /\ shipped' \in [Order -> Nat] /\ invoiced' \in [Order -> Nat]
        /\ UNCHANGED <<note, stock, moved>> /\ UNCHANGED req
    BY DEF Advance, TypeInv, TypeOK
  <2>. QED BY <1>6, <2>1, InvoicesType
<1>. QED BY <1>2, <1>4, <1>5, <1>6, <1>7

LEMMA DraftType ==
    ASSUME TypeInv, NEW r \in Request, GenerateDraft(r)
    PROVE  /\ TypeInv'
           /\ Len(inv') = Len(inv) + 1
           /\ \A i \in DOMAIN inv : inv'[i] = inv[i]
           /\ inv'[Len(inv')].so = req[r].order
           /\ \A o \in Order : inv'[Len(inv')].lines[o] = IF o = req[r].order
                                                          THEN req[r].qty ELSE 0
<1>. DEFINE t == req[r]
            lines == [Nothing EXCEPT ![t.order] = t.qty]
            row == [status |-> "DRAFT", so |-> t.order,
                    warehouse |-> WarehouseOf[t.order], lines |-> lines]
<1>1. t.order \in Order /\ t.qty \in Nat /\ t.before \in Nat
  BY ActiveRequest DEF TypeInv, GenerateDraft
<1>2. lines \in [Order -> Nat] /\ \A o \in Order : lines[o] = IF o = t.order THEN t.qty ELSE 0
  BY <1>1 DEF Nothing
<1>3. inv' = Append(inv, row) /\ Done(r) /\ UNCHANGED <<shipped, note, stock, moved>>
  BY DEF GenerateDraft
<1>4. invoiced' \in [Order -> Nat]
  BY <1>1 DEF GenerateDraft, TypeInv, TypeOK
<1>. HIDE DEF t, lines
<1>5. row \in InvoiceRow
  BY <1>1, <1>2, PlacesAssumption, DraftStatus DEF InvoiceRow
<1>6. row.so = t.order /\ row.lines = lines
  OBVIOUS
<1>. HIDE DEF row
<1>7. /\ inv' \in Seq(InvoiceRow) /\ Len(inv') = Len(inv) + 1
      /\ DOMAIN inv \subseteq DOMAIN inv'
      /\ \A i \in DOMAIN inv : inv'[i] = inv[i]
      /\ inv'[Len(inv')] = row
  BY <1>3, <1>5 DEF TypeInv, TypeOK
<1>8. TypeInv'
  BY <1>3, <1>4, <1>7, InvoicesType DEF TypeInv, TypeOK
<1>. QED BY <1>2, <1>6, <1>7, <1>8 DEF t

\* How many invoices a roll-up adds.
LEMMA CustomersFinite ==
    ASSUME NEW S, S \subseteq Order
    PROVE  Cardinality({CustomerOf[o] : o \in S}) \in Nat
<1>. DEFINE T == {CustomerOf[o] : o \in S}
            f == [o \in S |-> CustomerOf[o]]
<1>1. IsFiniteSet(S)
  BY OrderAssumption, FS_Subset
<1>2. f \in [S -> T] /\ \A x \in T : \E o \in S : f[o] = x
  OBVIOUS
<1>3. f \in Surjection(S, T)
  BY <1>2 DEF Surjection
<1>. HIDE DEF T, f
<1>4. IsFiniteSet(T)
  BY <1>1, <1>3, FS_Surjection
<1>5. Cardinality(T) \in Nat
  BY <1>4, FS_CardinalityType
<1>. QED BY <1>5 DEF T

\* One new invoice per entry of `first`, and no two of them for one customer.
LEMMA ConsolidateType ==
    ASSUME TypeInv, NEW r \in Request, Consolidate(r)
    PROVE  /\ TypeInv'
           /\ UNCHANGED <<shipped, invoiced>> /\ Done(r)
           /\ DOMAIN inv \subseteq DOMAIN inv'
           /\ \A i \in DOMAIN inv : inv'[i] = inv[i]
           /\ \A i \in DOMAIN inv' \ DOMAIN inv :
                 /\ inv'[i].so = NoOrder
                 /\ \A o \in Order : inv'[i].lines[o] \in {0, req[r].lines[o]}
           /\ \A i, j \in DOMAIN inv' \ DOMAIN inv, o \in Order :
                 inv'[i].lines[o] > 0 /\ inv'[j].lines[o] > 0 => i = j
<1>. DEFINE t == req[r]
            billed == {o \in Order : t.lines[o] > 0}
            n == Cardinality({CustomerOf[o] : o \in billed})
            new == 1 .. n
<1>1. t.lines \in [Order -> Nat]
  BY ActiveRequest DEF TypeInv, Consolidate
<1>2. n \in Nat
  BY CustomersFinite
<1>3. PICK first \in [new -> billed] :
         /\ \A j, k \in new : CustomerOf[first[j]] = CustomerOf[first[k]] => j = k
         /\ inv' = inv \o [k \in new |-> Rollup(t.lines, first[k])]
  BY DEF Consolidate
<1>4. Done(r) /\ UNCHANGED <<shipped, invoiced, note, stock, moved>>
  BY DEF Consolidate
<1>. DEFINE rows == [k \in new |-> Rollup(t.lines, first[k])]
<1>. HIDE DEF t, n
<1>5. ASSUME NEW k \in new
      PROVE  /\ rows[k] \in InvoiceRow
             /\ rows[k].so = NoOrder
             /\ \A o \in Order : rows[k].lines[o] = IF CustomerOf[o] = CustomerOf[first[k]]
                                                    THEN t.lines[o] ELSE 0
  <2>1. first[k] \in Order
    BY <1>3
  <2>. DEFINE lines == [o \in Order |->
                           IF CustomerOf[o] = CustomerOf[first[k]] THEN t.lines[o] ELSE 0]
  <2>2. lines \in [Order -> Nat]
    BY <1>1
  <2>3. rows[k] = [status |-> "DRAFT", so |-> NoOrder, warehouse |-> WarehouseOf[first[k]],
                   lines |-> lines]
    BY DEF Rollup
  <2>4. WarehouseOf[first[k]] \in Warehouse
    BY <2>1, PlacesAssumption
  <2>5. \A o \in Order : lines[o] = IF CustomerOf[o] = CustomerOf[first[k]]
                                    THEN t.lines[o] ELSE 0
    OBVIOUS
  <2>. HIDE DEF rows, lines
  <2>. QED BY <2>2, <2>3, <2>4, <2>5, DraftStatus DEF InvoiceRow
<1>6. rows \in Seq(InvoiceRow) /\ Len(rows) = n
  <2>1. rows \in [1 .. n -> InvoiceRow]
    BY <1>5
  <2>. HIDE DEF rows
  <2>. QED BY <1>2, <2>1
<1>7. inv' = inv \o rows
  BY <1>3
<1>. HIDE DEF rows
<1>8. inv \in Seq(InvoiceRow) /\ Len(inv) \in Nat /\ DOMAIN inv = 1 .. Len(inv)
  BY DEF TypeInv, TypeOK
<1>9. /\ inv' \in Seq(InvoiceRow) /\ Len(inv') = Len(inv) + n
      /\ DOMAIN inv' = 1 .. Len(inv) + n
      /\ \A i \in 1 .. Len(inv) + n :
            inv'[i] = IF i <= Len(inv) THEN inv[i] ELSE rows[i - Len(inv)]
  BY <1>6, <1>7, <1>8, ConcatProperties
<1>10. DOMAIN inv \subseteq DOMAIN inv' /\ \A i \in DOMAIN inv : inv'[i] = inv[i]
  BY <1>2, <1>8, <1>9
<1>11. \A i \in DOMAIN inv' \ DOMAIN inv : i - Len(inv) \in new /\ inv'[i] = rows[i - Len(inv)]
  BY <1>2, <1>8, <1>9
<1>12. TypeInv'
  BY <1>4, <1>9, <1>10, InvoicesType DEF TypeInv, TypeOK
<1>13. ASSUME NEW i \in DOMAIN inv' \ DOMAIN inv
       PROVE  /\ inv'[i].so = NoOrder
              /\ \A o \in Order : inv'[i].lines[o] \in {0, t.lines[o]}
  BY <1>5, <1>11
<1>14. ASSUME NEW i \in DOMAIN inv' \ DOMAIN inv, NEW j \in DOMAIN inv' \ DOMAIN inv,
              NEW o \in Order, inv'[i].lines[o] > 0, inv'[j].lines[o] > 0
       PROVE  i = j
  <2>1. /\ i - Len(inv) \in new /\ j - Len(inv) \in new
        /\ CustomerOf[o] = CustomerOf[first[i - Len(inv)]]
        /\ CustomerOf[o] = CustomerOf[first[j - Len(inv)]]
    BY <1>5, <1>11, <1>14
  <2>2. i - Len(inv) = j - Len(inv)
    BY <1>3, <2>1
  <2>. QED BY <1>8, <1>9, <2>2
<1>. QED BY <1>4, <1>10, <1>12, <1>13, <1>14 DEF t

\* Goods come back: every row the lines concern gets what they say, and a new
\* version.
LEMMA ReturnRows ==
    ASSUME TypeOK, NEW w \in Warehouse, NEW lines \in Seq(CreditLine)
    PROVE  /\ Return(w, lines) \in [Cell -> Row]
           /\ \A c \in Cell : Return(w, lines)[c].version =
                 IF LinesAt(w, lines, c) = {} THEN stock[c].version ELSE stock[c].version + 1
<1>. SUFFICES ASSUME NEW c \in Cell
              PROVE  /\ Return(w, lines)[c] \in Row
                     /\ Return(w, lines)[c].version =
                           IF LinesAt(w, lines, c) = {} THEN stock[c].version
                           ELSE stock[c].version + 1
  BY DEF Return
<1>1. stock[c] \in Row /\ TotalAt(w, lines, c) \in Nat
  BY TotalsNat DEF TypeOK
<1>. QED BY <1>1, SalesReturnRow DEF Return

LEMMA UndoRows ==
    ASSUME TypeOK, NEW w \in Warehouse, NEW lines \in Seq(CreditLine), NEW ver,
           UndoOK(w, lines, ver)
    PROVE  /\ Undo(w, lines) \in [Cell -> Row]
           /\ \A c \in Cell : Undo(w, lines)[c].version =
                 IF LinesAt(w, lines, c) = {} THEN stock[c].version ELSE stock[c].version + 1
<1>. SUFFICES ASSUME NEW c \in Cell
              PROVE  /\ Undo(w, lines)[c] \in Row
                     /\ Undo(w, lines)[c].version =
                           IF LinesAt(w, lines, c) = {} THEN stock[c].version
                           ELSE stock[c].version + 1
  BY DEF Undo
<1>1. stock[c] \in Row /\ TotalAt(w, lines, c) \in Nat
  BY TotalsNat DEF TypeOK
<1>2. LinesAt(w, lines, c) # {} => SalesReturnReverseOK(stock[c], ver[c], TotalAt(w, lines, c))
  BY DEF UndoOK
<1>. QED BY <1>1, <1>2, SalesReturnReverseRow DEF Undo

LEMMA TakeType ==
    ASSUME TypeInv, NEW c \in Cell, Take(c)
    PROVE  TypeInv' /\ \A d \in Cell : stock[d].version <= stock'[d].version
<1>1. /\ stock[c] \in Row /\ Decrease(stock[c], 1) \in Row
      /\ Decrease(stock[c], 1).version = stock[c].version + 1
  BY DecreaseRow DEF TypeInv, TypeOK, Take
<1>2. /\ stock' = [stock EXCEPT ![c] = Decrease(stock[c], 1)]
      /\ UNCHANGED <<shipped, invoiced, inv, note, moved, req>>
  BY DEF Take
<1>. DEFINE row == Decrease(stock[c], 1)
<1>. HIDE DEF row
<1>3. stock' \in [Cell -> Row] /\ \A d \in Cell : stock[d].version <= stock'[d].version
  <2>1. \A d \in Cell : stock[d] \in Row /\ stock[d].version \in Nat
    BY DEF TypeInv, TypeOK, Row
  <2>2. /\ stock' = [stock EXCEPT ![c] = row]
        /\ row \in Row /\ row.version = stock[c].version + 1
    BY <1>1, <1>2 DEF row
  <2>3. \A d \in Cell : stock'[d] = IF d = c THEN row ELSE stock[d]
    BY <2>2 DEF TypeInv, TypeOK
  <2>4. stock' \in [Cell -> Row]
    BY <2>1, <2>2 DEF TypeInv, TypeOK
  <2>. QED BY <2>1, <2>2, <2>3, <2>4
<1>. QED BY <1>2, <1>3 DEF TypeInv, TypeOK

LEMMA CreateType ==
    ASSUME TypeInv, NEW r \in Request, CreateCreditNote(r)
    PROVE  /\ TypeInv'
           /\ Len(note') = Len(note) + 1
           /\ \A n \in DOMAIN note : note'[n] = note[n] /\ moved'[n] = moved[n]
           /\ note'[Len(note')] = [status |-> "DRAFT", invoice |-> req[r].invoice,
                                   lines |-> req[r].lines]
           /\ \A c \in Cell : moved'[Len(note')][c] =
                 TotalAt(inv[req[r].invoice].warehouse, req[r].lines, c)
           /\ \A c \in Cell : stock'[c].version =
                 IF LinesAt(inv[req[r].invoice].warehouse, req[r].lines, c) = {}
                 THEN stock[c].version ELSE stock[c].version + 1
           /\ Done(r) /\ UNCHANGED inv
           /\ DOMAIN note' = DOMAIN note \cup {Len(note')} /\ Len(note') \notin DOMAIN note
<1>. DEFINE t == req[r]
            w == inv[t.invoice].warehouse
            row == [status |-> "DRAFT", invoice |-> t.invoice, lines |-> t.lines]
            back == [c \in Cell |-> TotalAt(w, t.lines, c)]
<1>1. /\ t.invoice \in Nat \ {0} /\ t.lines \in Seq(CreditLine)
      /\ t.invoice \in DOMAIN inv
  BY ActiveRequest DEF TypeInv, CreateCreditNote
<1>2. w \in Warehouse
  <2>1. inv[t.invoice] \in InvoiceRow
    BY <1>1 DEF TypeInv, TypeOK
  <2>. QED BY <2>1 DEF InvoiceRow
<1>3. /\ stock' = Return(w, t.lines) /\ note' = Append(note, row)
      /\ moved' = Append(moved, back) /\ Done(r)
      /\ UNCHANGED <<shipped, invoiced, inv>>
  BY DEF CreateCreditNote
<1>4. back \in [Cell -> Int]
  BY <1>1, <1>2, TotalsNat
<1>5. row \in NoteRow /\ row.invoice = t.invoice
  BY <1>1 DEF NoteRow, NoteStatus
<1>. HIDE DEF t, w, row, back
<1>6. /\ stock' \in [Cell -> Row]
      /\ \A c \in Cell : stock'[c].version = IF LinesAt(w, t.lines, c) = {}
                                            THEN stock[c].version ELSE stock[c].version + 1
  BY <1>1, <1>2, <1>3, ReturnRows DEF TypeInv
<1>7. /\ note' \in Seq(NoteRow) /\ Len(note') = Len(note) + 1
      /\ \A n \in DOMAIN note : n \in DOMAIN note' /\ note'[n] = note[n]
      /\ note'[Len(note')] = row
      /\ DOMAIN note' = DOMAIN note \cup {Len(note')}
      /\ Len(note') \notin DOMAIN note
  BY <1>3, <1>5 DEF TypeInv, TypeOK
<1>8. /\ moved' \in Seq([Cell -> Int]) /\ Len(moved') = Len(note')
      /\ \A n \in DOMAIN note : moved'[n] = moved[n]
      /\ moved'[Len(note')] = back
  <2>1. moved \in Seq([Cell -> Int]) /\ Len(moved) = Len(note) /\ Len(note) \in Nat
        /\ DOMAIN note = 1 .. Len(note)
    BY DEF TypeInv, TypeOK
  <2>. QED BY <1>3, <1>4, <1>7, <2>1
<1>9. TypeOK'
  BY <1>3, <1>6, <1>7, <1>8, DoneType DEF TypeInv, TypeOK
<1>10. \A n \in DOMAIN note' : note'[n].invoice \in DOMAIN inv'
  BY <1>1, <1>3, <1>5, <1>7 DEF TypeInv
<1>11. ASSUME NEW q \in Request
       PROVE  /\ req'[q].op = "credit" => req'[q].invoice \in DOMAIN inv'
              /\ req'[q].op \in {"submit", "cancel"} => req'[q].note \in DOMAIN note'
  BY <1>3, <1>7, DoneType DEF TypeInv
<1>12. TypeInv'
  BY <1>8, <1>9, <1>10, <1>11 DEF TypeInv
<1>. QED BY <1>3, <1>6, <1>7, <1>8, <1>12 DEF t, w, row, back

\* A note that is submitted or cancelled changes its status and nothing else.
WithStatus(notes, n, status) == [notes EXCEPT ![n].status = status]

LEMMA StatusType ==
    ASSUME TypeInv, NEW r \in Request, NEW n \in DOMAIN note, NEW status \in NoteStatus,
           note' = WithStatus(note, n, status), Done(r),
           UNCHANGED <<shipped, invoiced, inv>>,
           stock' \in [Cell -> Row], moved' \in Seq([Cell -> Int]), Len(moved') = Len(note)
    PROVE  /\ TypeInv'
           /\ DOMAIN note' = DOMAIN note
           /\ \A m \in DOMAIN note : /\ note'[m].invoice = note[m].invoice
                                     /\ note'[m].lines = note[m].lines
                                     /\ note'[m].status = IF m = n THEN status
                                                          ELSE note[m].status
<1>1. note \in Seq(NoteRow) /\ \A m \in DOMAIN note : note[m] \in NoteRow
  BY DEF TypeInv, TypeOK
<1>. DEFINE row == [note[n] EXCEPT !.status = status]
<1>2. /\ row \in NoteRow
      /\ row.invoice = note[n].invoice /\ row.lines = note[n].lines /\ row.status = status
  BY <1>1 DEF NoteRow
<1>3. note' = [note EXCEPT ![n] = row]
  BY DEF WithStatus
<1>. HIDE DEF row
<1>4. note' \in Seq(NoteRow) /\ DOMAIN note' = DOMAIN note /\ Len(note') = Len(note)
  <2>1. DOMAIN note' = DOMAIN note /\ Len(note') = Len(note)
    BY <1>1, <1>3
  <2>2. note' \in Seq(NoteRow)
    BY <1>1, <1>2, <1>3
  <2>. QED BY <2>1, <2>2
<1>5. \A m \in DOMAIN note : note'[m] = IF m = n THEN row ELSE note[m]
  BY <1>3
<1>6. TypeOK'
  BY <1>4, DoneType DEF TypeInv, TypeOK
<1>7. ASSUME NEW q \in Request
      PROVE  /\ req'[q].op = "credit" => req'[q].invoice \in DOMAIN inv'
             /\ req'[q].op \in {"submit", "cancel"} => req'[q].note \in DOMAIN note'
  BY <1>4, DoneType DEF TypeInv
<1>8. TypeInv'
  BY <1>2, <1>4, <1>5, <1>6, <1>7 DEF TypeInv
<1>. QED BY <1>2, <1>4, <1>5, <1>8

LEMMA SubmitType ==
    ASSUME TypeInv, NEW r \in Request, SubmitCreditNote(r)
    PROVE  /\ TypeInv'
           /\ UNCHANGED <<inv, stock, moved>> /\ Done(r)
           /\ \A m \in DOMAIN note : /\ note'[m].invoice = note[m].invoice
                                     /\ note'[m].lines = note[m].lines
                                     /\ \/ note'[m].status = note[m].status
                                        \/ /\ m = req[r].note
                                           /\ note'[m].status # "CANCELLED"
           /\ DOMAIN note' = DOMAIN note
<1>1. PICK status \in {"VALIDATED", "SUBMITTED"} :
         note' = [note EXCEPT ![req[r].note].status = status]
  BY DEF SubmitCreditNote
<1>2. status \in NoteStatus /\ req[r].note \in DOMAIN note
  BY DEF NoteStatus, TypeInv, SubmitCreditNote
<1>3. /\ Done(r) /\ UNCHANGED <<shipped, invoiced, inv, stock, moved>>
      /\ stock' \in [Cell -> Row] /\ moved' \in Seq([Cell -> Int]) /\ Len(moved') = Len(note)
  BY DEF TypeInv, TypeOK, SubmitCreditNote
<1>. DEFINE n == req[r].note
<1>4. /\ TypeInv'
      /\ DOMAIN note' = DOMAIN note
      /\ \A m \in DOMAIN note : /\ note'[m].invoice = note[m].invoice
                                /\ note'[m].lines = note[m].lines
                                /\ note'[m].status = IF m = n THEN status
                                                     ELSE note[m].status
  <2>1. n \in DOMAIN note /\ note' = WithStatus(note, n, status)
    BY <1>1, <1>2 DEF WithStatus
  <2>2. /\ Done(r) /\ UNCHANGED <<shipped, invoiced, inv>>
        /\ stock' \in [Cell -> Row] /\ moved' \in Seq([Cell -> Int]) /\ Len(moved') = Len(note)
    BY <1>3
  <2>. HIDE DEF n
  <2>3. status \in NoteStatus
    BY <1>2
  <2>. QED BY <2>1, <2>2, <2>3, StatusType
<1>. QED BY <1>1, <1>3, <1>4

LEMMA CancelType ==
    ASSUME TypeInv, NEW r \in Request, CancelCreditNote(r)
    PROVE  /\ TypeInv'
           /\ UNCHANGED inv /\ Done(r)
           /\ DOMAIN note' = DOMAIN note
           /\ \A m \in DOMAIN note : /\ note'[m].invoice = note[m].invoice
                                     /\ note'[m].lines = note[m].lines
                                     /\ note'[m].status = IF m = req[r].note THEN "CANCELLED"
                                                          ELSE note[m].status
           /\ \A m \in DOMAIN note, c \in Cell :
                 moved'[m][c] = IF m = req[r].note
                                THEN moved[m][c] - TotalAt(PlaceOf(m), note[m].lines, c)
                                ELSE moved[m][c]
           /\ \A c \in Cell : stock'[c].version =
                 IF LinesAt(PlaceOf(req[r].note), note[req[r].note].lines, c) = {}
                 THEN stock[c].version ELSE stock[c].version + 1
<1>. DEFINE n == req[r].note
            lines == note[n].lines
            w == PlaceOf(n)
            back == [c \in Cell |-> moved[n][c] - TotalAt(w, lines, c)]
<1>1. n \in DOMAIN note
  BY DEF TypeInv, CancelCreditNote
<1>2. lines \in Seq(CreditLine) /\ w \in Warehouse
  <2>1. note[n] \in NoteRow /\ note[n].invoice \in DOMAIN inv
    BY <1>1 DEF TypeInv, TypeOK
  <2>2. inv[note[n].invoice] \in InvoiceRow
    BY <2>1 DEF TypeInv, TypeOK
  <2>. QED BY <2>1, <2>2 DEF NoteRow, InvoiceRow, PlaceOf
<1>3. /\ UndoOK(w, lines, req[r].ver) /\ stock' = Undo(w, lines)
      /\ note' = [note EXCEPT ![n].status = "CANCELLED"]
      /\ moved' = [moved EXCEPT ![n] = back]
      /\ Done(r) /\ UNCHANGED <<shipped, invoiced, inv>>
  BY DEF CancelCreditNote
<1>4. /\ moved \in Seq([Cell -> Int]) /\ Len(moved) = Len(note)
      /\ DOMAIN moved = DOMAIN note
      /\ moved[n] \in [Cell -> Int]
  BY <1>1 DEF TypeInv, TypeOK
<1>5. back \in [Cell -> Int]
  BY <1>2, <1>4, TotalsNat
<1>. HIDE DEF lines, w
<1>6. /\ stock' \in [Cell -> Row]
      /\ \A c \in Cell : stock'[c].version =
            IF LinesAt(w, lines, c) = {} THEN stock[c].version ELSE stock[c].version + 1
  BY <1>2, <1>3, UndoRows DEF TypeInv
<1>7. \A c \in Cell : back[c] = moved[n][c] - TotalAt(w, lines, c)
  OBVIOUS
<1>. HIDE DEF back
<1>8. /\ moved' \in Seq([Cell -> Int]) /\ Len(moved') = Len(note)
      /\ \A m \in DOMAIN note : moved'[m] = IF m = n THEN back ELSE moved[m]
  BY <1>1, <1>3, <1>4, <1>5
<1>. HIDE DEF n
<1>9. PICK status \in NoteStatus : status = "CANCELLED"
  BY DEF NoteStatus
<1>10. /\ TypeInv'
       /\ DOMAIN note' = DOMAIN note
       /\ \A m \in DOMAIN note : /\ note'[m].invoice = note[m].invoice
                                 /\ note'[m].lines = note[m].lines
                                 /\ note'[m].status = IF m = n THEN "CANCELLED"
                                                      ELSE note[m].status
  <2>1. note' = WithStatus(note, n, status)
    BY <1>3, <1>9 DEF WithStatus
  <2>2. /\ TypeInv'
        /\ DOMAIN note' = DOMAIN note
        /\ \A m \in DOMAIN note : /\ note'[m].invoice = note[m].invoice
                                  /\ note'[m].lines = note[m].lines
                                  /\ note'[m].status = IF m = n THEN status
                                                       ELSE note[m].status
    <3>1. Done(r) /\ UNCHANGED <<shipped, invoiced, inv>>
      BY <1>3
    <3>2. n \in DOMAIN note /\ stock' \in [Cell -> Row]
          /\ moved' \in Seq([Cell -> Int]) /\ Len(moved') = Len(note)
      BY <1>1, <1>6, <1>8
    <3>. QED BY <2>1, <3>1, <3>2, StatusType
  <2>. QED BY <1>9, <2>2
<1>11. \A m \in DOMAIN note, c \in Cell :
          moved'[m][c] = IF m = n THEN moved[m][c] - TotalAt(PlaceOf(m), note[m].lines, c)
                         ELSE moved[m][c]
  BY <1>7, <1>8 DEF w, lines
<1>. QED BY <1>3, <1>6, <1>10, <1>11 DEF n, w, lines

LEMMA TypeNext == TypeInv /\ [Next]_vars => TypeInv'
<1>. SUFFICES ASSUME TypeInv, [Next]_vars PROVE TypeInv'
  OBVIOUS
<1>1. ASSUME NEW o \in Order, Deliver(o) PROVE TypeInv'
  <2>1. shipped' \in [Order -> Nat]
    BY <1>1 DEF Deliver, TypeInv, TypeOK
  <2>. QED BY <1>1, <2>1, InvoicesType DEF Deliver, TypeInv, TypeOK
<1>2. ASSUME NEW i \in DOMAIN inv, Advance(i) PROVE TypeInv'
  BY <1>2, AdvanceType
<1>3. ASSUME NEW c \in Cell, Take(c) PROVE TypeInv'
  BY <1>3, TakeType
<1>4. ASSUME NEW r \in Request, NEW o \in Order, BeginDraft(r, o) PROVE TypeInv'
  BY <1>4, DraftBegins, BeginType
<1>5. ASSUME NEW r \in Request, BeginConsolidate(r) PROVE TypeInv'
  BY <1>5, ConsolidateBegins, BeginType
<1>6. ASSUME NEW r \in Request, NEW i \in DOMAIN inv, NEW lines \in Payloads,
             BeginCredit(r, i, lines)
      PROVE  TypeInv'
  BY <1>6, CreditBegins, BeginType
<1>7. ASSUME NEW r \in Request, NEW n \in DOMAIN note, NEW op \in {"submit", "cancel"},
             BeginNote(r, op, n)
      PROVE  TypeInv'
  BY <1>7, NoteBegins, BeginType
<1>8. ASSUME NEW r \in Request, GenerateDraft(r) PROVE TypeInv'
  BY <1>8, DraftType
<1>9. ASSUME NEW r \in Request, Consolidate(r) PROVE TypeInv'
  BY <1>9, ConsolidateType
<1>10. ASSUME NEW r \in Request, CreateCreditNote(r) PROVE TypeInv'
  BY <1>10, CreateType
<1>11. ASSUME NEW r \in Request, SubmitCreditNote(r) PROVE TypeInv'
  BY <1>11, SubmitType
<1>12. ASSUME NEW r \in Request, CancelCreditNote(r) PROVE TypeInv'
  BY <1>12, CancelType
<1>13. ASSUME NEW r \in Request, Rollback(r) PROVE TypeInv'
  BY <1>13, InvoicesType DEF Rollback, TypeInv, TypeOK
<1>14. CASE UNCHANGED vars
  BY <1>14 DEF vars, TypeInv, TypeOK
<1>. QED BY <1>1, <1>2, <1>3, <1>4, <1>5, <1>6, <1>7, <1>8, <1>9, <1>10, <1>11, <1>12,
            <1>13, <1>14 DEF Next

\* Requests, documents, stock rows and movements are well typed, however
\* requests overlap; no quantity becomes negative, also when returned goods
\* are taken out again.
THEOREM TypeCorrect == Spec => []TypeOK
<1>1. TypeInv => TypeOK
  BY DEF TypeInv
<1>. QED BY <1>1, TypeInit, TypeNext, PTL DEF Spec

-----------------------------------------------------------------------------
(* An order is billed once *)

\* What a draft request knows of its order stays true until it commits: the
\* order was not on any invoice, and more may have been shipped since.
Alone == {o \in Order : Individually(o)}
Rolled == {o \in Order : Consolidated(o)}

DraftFits(t, sent, rolled) ==
    /\ t.on = {<<"order", t.order>>}
    /\ t.qty > 0 /\ t.qty <= sent[t.order]
    /\ t.before = 0
    /\ t.order \notin rolled

RollupFits(t, sent, taken) ==
    /\ t.on = {<<"order", o>> : o \in Order}
    /\ \E o \in Order : t.lines[o] > 0
    /\ \A o \in Order : t.lines[o] > 0 => o \notin taken /\ t.lines[o] <= sent[o]

\* Who makes invoices: drafts of different orders, or one roll-up alone.
Bills(t) == t.op \in {"draft", "consolidate"}

LinesFit ==
    /\ \A i \in DOMAIN inv, o \in Order :
          /\ inv[i].lines[o] > 0 => inv[i].so \in {o, NoOrder}
          /\ inv[i].lines[o] <= shipped[o]
          /\ inv[i].so = o => invoiced[o] = inv[i].lines[o]
    /\ \A i, j \in DOMAIN inv, o \in Order :
          inv[i].lines[o] > 0 /\ inv[j].lines[o] > 0 => i = j
    /\ \A o \in Order : Individually(o) \/ invoiced[o] = 0

BilledInv ==
    /\ TypeInv
    /\ LinesFit
    /\ \A r \in Request :
          /\ req[r].op = "draft" => DraftFits(req[r], shipped, Rolled)
          /\ req[r].op = "consolidate" =>
                /\ RollupFits(req[r], shipped, Alone \cup Rolled)
                /\ \A q \in Request : q # r => ~Bills(req[q])

LEMMA BilledInit == Init => BilledInv
<1>. SUFFICES ASSUME Init PROVE BilledInv
  OBVIOUS
<1>1. TypeInv
  BY TypeInit
<1>2. inv = <<>> /\ invoiced = Nothing /\ \A r \in Request : req[r].op = "idle"
  BY DEF Init, Idle
<1>3. DOMAIN inv = {} /\ \A o \in Order : invoiced[o] = 0
  BY <1>2 DEF Nothing
<1>. QED BY <1>1, <1>2, <1>3 DEF BilledInv, LinesFit

LEMMA InvoiceLines ==
    ASSUME TypeOK
    PROVE  \A i \in DOMAIN inv, o \in Order : inv[i].lines[o] \in Nat
<1>1. \A i \in DOMAIN inv : inv[i] \in InvoiceRow
  BY DEF TypeOK
<1>2. \A i \in DOMAIN inv : inv[i].lines \in [Order -> Nat]
  BY <1>1 DEF InvoiceRow
<1>. QED BY <1>2

\* An order without an invoice has no line on one.
LEMMA Unbilled ==
    ASSUME BilledInv, NEW o \in Order, ~Individually(o), ~Consolidated(o)
    PROVE  \A i \in DOMAIN inv : inv[i].so # o /\ inv[i].lines[o] = 0
<1>. SUFFICES ASSUME NEW i \in DOMAIN inv
              PROVE  inv[i].so # o /\ inv[i].lines[o] = 0
  OBVIOUS
<1>1. inv[i] \in InvoiceRow
  BY DEF BilledInv, TypeInv, TypeOK
<1>2. inv[i].lines[o] \in Nat
  BY <1>1 DEF InvoiceRow
<1>3. inv[i].so # o
  BY DEF Individually
<1>4. ~(inv[i].so = NoOrder /\ inv[i].lines[o] > 0)
  BY DEF Consolidated
<1>5. inv[i].lines[o] > 0 => inv[i].so \in {o, NoOrder}
  BY DEF BilledInv, LinesFit
<1>. QED BY <1>2, <1>3, <1>4, <1>5

\* Steps that make no invoice: the lines stay, more may be shipped, and no
\* request that bills begins.
LEMMA BilledKept ==
    ASSUME BilledInv, TypeInv',
           UNCHANGED invoiced,
           DOMAIN inv' = DOMAIN inv,
           \A i \in DOMAIN inv : inv'[i].so = inv[i].so /\ inv'[i].lines = inv[i].lines,
           \A o \in Order : shipped[o] <= shipped'[o],
           \A q \in Request : Bills(req'[q]) => req'[q] = req[q]
    PROVE  BilledInv'
<1>1. Alone' = Alone /\ Rolled' = Rolled
  BY DEF Alone, Rolled, Individually, Consolidated
<1>2. \A o \in Order : shipped[o] \in Nat /\ shipped'[o] \in Nat
  BY DEF BilledInv, TypeInv, TypeOK
<1>3. \A i \in DOMAIN inv, o \in Order : inv[i].lines[o] \in Nat
  BY InvoiceLines DEF BilledInv, TypeInv
<1>4. LinesFit'
  <2>1. \A i \in DOMAIN inv', o \in Order :
           /\ inv'[i].lines[o] > 0 => inv'[i].so \in {o, NoOrder}
           /\ inv'[i].so = o => invoiced'[o] = inv'[i].lines[o]
    BY DEF BilledInv, LinesFit
  <2>2. ASSUME NEW i \in DOMAIN inv', NEW o \in Order
        PROVE  inv'[i].lines[o] <= shipped'[o]
    <3>1. inv[i].lines[o] <= shipped[o] /\ inv'[i].lines[o] = inv[i].lines[o]
      BY DEF BilledInv, LinesFit
    <3>. QED BY <1>2, <1>3, <3>1
  <2>3. \A i, j \in DOMAIN inv', o \in Order :
           inv'[i].lines[o] > 0 /\ inv'[j].lines[o] > 0 => i = j
    BY DEF BilledInv, LinesFit
  <2>4. \A o \in Order : Individually(o)' \/ invoiced'[o] = 0
    BY DEF BilledInv, LinesFit, Individually
  <2>. QED BY <2>1, <2>2, <2>3, <2>4 DEF LinesFit
<1>5. ASSUME NEW q \in Request, req'[q].op = "draft"
      PROVE  DraftFits(req'[q], shipped', Rolled')
  <2>1. req'[q] = req[q] /\ DraftFits(req[q], shipped, Rolled)
    BY <1>5 DEF Bills, BilledInv
  <2>2. req[q].order \in Order /\ req[q].qty \in Nat
    BY <1>5, <2>1, ActiveRequest DEF BilledInv, TypeInv
  <2>3. req[q].qty <= shipped'[req[q].order]
    BY <1>2, <2>1, <2>2 DEF DraftFits
  <2>. QED BY <1>1, <2>1, <2>2, <2>3 DEF DraftFits
<1>6. ASSUME NEW q \in Request, req'[q].op = "consolidate"
      PROVE  RollupFits(req'[q], shipped', Alone' \cup Rolled') /\ req'[q] = req[q]
  <2>1. req'[q] = req[q] /\ RollupFits(req[q], shipped, Alone \cup Rolled)
    BY <1>6 DEF Bills, BilledInv
  <2>2. req[q].lines \in [Order -> Nat]
    BY <1>6, <2>1, ActiveRequest DEF BilledInv, TypeInv
  <2>3. \A o \in Order : req[q].lines[o] > 0 =>
           o \notin Alone' \cup Rolled' /\ req[q].lines[o] <= shipped'[o]
    BY <1>1, <1>2, <2>1, <2>2 DEF RollupFits
  <2>. QED BY <2>1, <2>3 DEF RollupFits
<1>7. ASSUME NEW q \in Request, req'[q].op = "consolidate", NEW p \in Request, p # q
      PROVE  ~Bills(req'[p])
  <2>1. req[q].op = "consolidate"
    BY <1>6, <1>7
  <2>2. ~Bills(req[p])
    BY <1>7, <2>1 DEF BilledInv
  <2>. QED BY <2>2
<1>. QED BY <1>4, <1>5, <1>6, <1>7 DEF BilledInv

\* A draft begins: no roll-up is under way, or it would be about this order too.
LEMMA DraftStarts ==
    ASSUME BilledInv, "consolidate" \notin Overlap,
           NEW r \in Request, NEW o \in Order, BeginDraft(r, o)
    PROVE  BilledInv'
<1>. DEFINE t == [op |-> "draft", on |-> {<<"order", o>>}, order |-> o,
                  qty |-> shipped[o], before |-> invoiced[o]]
<1>1. TypeInv' /\ Began(r, t)
  BY DraftBegins, BeginType DEF BilledInv
<1>2. /\ t.op = "draft" /\ t.on = {<<"order", o>>} /\ t.order = o
      /\ t.qty = shipped[o] /\ t.before = invoiced[o]
  OBVIOUS
<1>. HIDE DEF t
<1>3. /\ req' = [req EXCEPT ![r] = t] /\ req[r] = Idle
      /\ UNCHANGED <<shipped, invoiced, inv, note, stock, moved>>
      /\ \A q \in Request : req[q] # Idle /\ req[q].on \cap t.on # {} =>
            {t.op, req[q].op} \subseteq Overlap
  BY <1>1 DEF Began, Begin
<1>4. \A q \in Request : req'[q] = IF q = r THEN t ELSE req[q]
  BY <1>3 DEF BilledInv, TypeInv, TypeOK
<1>5. DraftFits(t, shipped, Rolled)
  <2>1. shipped[o] > 0 /\ ~Individually(o) /\ ~Consolidated(o)
    BY DEF BeginDraft, MayDraft
  <2>2. shipped[o] \in Nat /\ invoiced[o] = 0
    BY <2>1 DEF BilledInv, LinesFit, TypeInv, TypeOK
  <2>. QED BY <1>2, <2>1, <2>2 DEF DraftFits, Rolled
<1>6. \A q \in Request : req[q].op # "consolidate"
  <2>. SUFFICES ASSUME NEW q \in Request, req[q].op = "consolidate" PROVE FALSE
    OBVIOUS
  <2>1. req[q].on = {<<"order", p>> : p \in Order}
    BY DEF BilledInv, RollupFits
  <2>2. <<"order", o>> \in req[q].on \cap t.on
    BY <1>2, <2>1
  <2>3. req[q] # Idle
    BY DEF Idle
  <2>. QED BY <1>3, <2>2, <2>3
<1>7. LinesFit' /\ Rolled' = Rolled
  BY <1>3 DEF BilledInv, LinesFit, Rolled, Individually, Consolidated
<1>8. ASSUME NEW q \in Request
      PROVE  /\ req'[q].op = "draft" => DraftFits(req'[q], shipped', Rolled')
             /\ req'[q].op # "consolidate"
  <2>1. CASE q = r
    BY <1>2, <1>3, <1>4, <1>5, <1>7, <2>1
  <2>2. CASE q # r
    <3>1. req'[q] = req[q]
      BY <1>4, <2>2
    <3>2. req[q].op = "draft" => DraftFits(req[q], shipped, Rolled)
      BY DEF BilledInv
    <3>. QED BY <1>3, <1>6, <1>7, <3>1, <3>2
  <2>. QED BY <2>1, <2>2
<1>. QED BY <1>1, <1>7, <1>8 DEF BilledInv

\* A roll-up begins: nobody else is making invoices.
LEMMA RollupStarts ==
    ASSUME BilledInv, "consolidate" \notin Overlap, NEW r \in Request, BeginConsolidate(r)
    PROVE  BilledInv'
<1>. DEFINE lines == [o \in Order |-> IF o \in Candidates THEN shipped[o] ELSE 0]
            on == {<<"order", o>> : o \in Order}
            t == [op |-> "consolidate", on |-> on, lines |-> lines]
<1>1. TypeInv' /\ Began(r, t)
  BY ConsolidateBegins, BeginType DEF BilledInv
<1>2. t.op = "consolidate" /\ t.on = on /\ t.lines = lines
  OBVIOUS
<1>3. \A o \in Order : lines[o] = IF o \in Candidates THEN shipped[o] ELSE 0
  OBVIOUS
<1>. HIDE DEF t, lines
<1>4. /\ req' = [req EXCEPT ![r] = t] /\ req[r] = Idle
      /\ UNCHANGED <<shipped, invoiced, inv, note, stock, moved>>
      /\ \A q \in Request : req[q] # Idle /\ req[q].on \cap t.on # {} =>
            {t.op, req[q].op} \subseteq Overlap
  BY <1>1 DEF Began, Begin
<1>5. \A q \in Request : req'[q] = IF q = r THEN t ELSE req[q]
  BY <1>4 DEF BilledInv, TypeInv, TypeOK
<1>6. RollupFits(t, shipped, Alone \cup Rolled)
  <2>1. \A o \in Candidates : /\ o \in Order /\ shipped[o] > 0
                              /\ ~Individually(o) /\ ~Consolidated(o)
    BY DEF Candidates
  <2>2. \A o \in Order : shipped[o] \in Nat
    BY DEF BilledInv, TypeInv, TypeOK
  <2>3. PICK o \in Candidates : TRUE
    BY DEF BeginConsolidate
  <2>4. o \in Order /\ t.lines[o] > 0
    BY <1>2, <1>3, <2>1, <2>3
  <2>5. \A p \in Order : t.lines[p] > 0 =>
           p \notin Alone \cup Rolled /\ t.lines[p] <= shipped[p]
    BY <1>2, <1>3, <2>1, <2>2 DEF Alone, Rolled
  <2>. QED BY <1>2, <2>4, <2>5 DEF RollupFits
<1>7. \A q \in Request : ~Bills(req[q])
  <2>. SUFFICES ASSUME NEW q \in Request, Bills(req[q]) PROVE FALSE
    OBVIOUS
  <2>1. PICK o \in Order : <<"order", o>> \in req[q].on
    <3>1. CASE req[q].op = "draft"
      <4>1. DraftFits(req[q], shipped, Rolled) /\ req[q].order \in Order
        BY <3>1, ActiveRequest DEF BilledInv, TypeInv
      <4>. QED BY <4>1 DEF DraftFits
    <3>2. CASE req[q].op = "consolidate"
      <4>1. RollupFits(req[q], shipped, Alone \cup Rolled)
        BY <3>2 DEF BilledInv
      <4>. QED BY <4>1 DEF RollupFits
    <3>. QED BY <3>1, <3>2 DEF Bills
  <2>2. <<"order", o>> \in req[q].on \cap t.on
    BY <1>2, <2>1
  <2>3. req[q] # Idle
    BY DEF Bills, Idle
  <2>. QED BY <1>2, <1>4, <2>2, <2>3
<1>8. LinesFit' /\ Alone' = Alone /\ Rolled' = Rolled
  BY <1>4 DEF BilledInv, LinesFit, Alone, Rolled, Individually, Consolidated
<1>9. ASSUME NEW q \in Request
      PROVE  /\ req'[q].op # "draft"
             /\ req'[q].op = "consolidate" => q = r
             /\ q # r => ~Bills(req'[q])
  BY <1>2, <1>5, <1>7 DEF Bills
<1>10. RollupFits(req'[r], shipped', Alone' \cup Rolled')
  BY <1>4, <1>5, <1>6, <1>8
<1>. QED BY <1>1, <1>8, <1>9, <1>10 DEF BilledInv

\* uq_inv_so has let the draft through, and no roll-up was under way meanwhile.
LEMMA DraftBilled ==
    ASSUME BilledInv, NEW r \in Request, GenerateDraft(r)
    PROVE  BilledInv'
<1>. DEFINE o == req[r].order
            qty == req[r].qty
            new == Len(inv')
<1>1. /\ TypeInv' /\ new = Len(inv) + 1
      /\ \A i \in DOMAIN inv : inv'[i] = inv[i]
      /\ inv'[new].so = o
      /\ \A p \in Order : inv'[new].lines[p] = IF p = o THEN qty ELSE 0
  BY DraftType DEF BilledInv
<1>2. /\ Len(inv) \in Nat /\ DOMAIN inv = 1 .. Len(inv)
      /\ DOMAIN inv' = 1 .. Len(inv')
  BY <1>1 DEF BilledInv, TypeInv, TypeOK
<1>3. DOMAIN inv' = DOMAIN inv \cup {new} /\ new \notin DOMAIN inv
  BY <1>1, <1>2
<1>4. /\ req[r].op = "draft" /\ DraftFits(req[r], shipped, Rolled)
      /\ o \in Order /\ qty \in Nat /\ req[r].before \in Nat
  BY ActiveRequest DEF GenerateDraft, BilledInv, TypeInv
<1>5. /\ qty > 0 /\ qty <= shipped[o] /\ ~Individually(o) /\ ~Consolidated(o)
      /\ invoiced' = [invoiced EXCEPT ![o] = qty]
      /\ Done(r) /\ UNCHANGED shipped
  <2>1. qty > 0 /\ qty <= shipped[o] /\ o \notin Rolled /\ req[r].before = 0
    BY <1>4 DEF DraftFits
  <2>2. /\ ~Individually(o) /\ Done(r) /\ UNCHANGED shipped
        /\ invoiced' = [invoiced EXCEPT ![o] = req[r].before + qty]
    BY DEF GenerateDraft
  <2>3. req[r].before + qty = qty
    BY <1>4, <2>1
  <2>. QED BY <1>4, <2>1, <2>2, <2>3 DEF Rolled
<1>6. \A i \in DOMAIN inv : inv[i].so # o /\ inv[i].lines[o] = 0
  BY <1>4, <1>5, Unbilled
<1>7. \A p \in Order : /\ invoiced'[p] = IF p = o THEN qty ELSE invoiced[p]
                       /\ shipped[p] \in Nat
  BY <1>5 DEF BilledInv, TypeInv, TypeOK
<1>8. o # NoOrder
  BY <1>4, PlacesAssumption
<1>. HIDE DEF o, qty, new
<1>9. LinesFit'
  <2>1. ASSUME NEW i \in DOMAIN inv', NEW p \in Order
        PROVE  /\ inv'[i].lines[p] > 0 => inv'[i].so \in {p, NoOrder}
               /\ inv'[i].lines[p] <= shipped'[p]
               /\ inv'[i].so = p => invoiced'[p] = inv'[i].lines[p]
    <3>1. CASE i = new
      BY <1>1, <1>4, <1>5, <1>7, <3>1
    <3>2. CASE i \in DOMAIN inv
      <4>1. /\ inv[i].lines[p] > 0 => inv[i].so \in {p, NoOrder}
            /\ inv[i].lines[p] <= shipped[p]
            /\ inv[i].so = p => invoiced[p] = inv[i].lines[p]
        BY <3>2 DEF BilledInv, LinesFit
      <4>. QED BY <1>1, <1>5, <1>6, <1>7, <3>2, <4>1
    <3>. QED BY <1>3, <3>1, <3>2
  <2>2. ASSUME NEW i \in DOMAIN inv', NEW j \in DOMAIN inv', NEW p \in Order,
               inv'[i].lines[p] > 0, inv'[j].lines[p] > 0
        PROVE  i = j
    <3>1. CASE i = new
      <4>1. p = o
        BY <1>1, <2>2, <3>1
      <4>. QED BY <1>1, <1>3, <1>6, <2>2, <3>1, <4>1
    <3>2. CASE j = new
      <4>1. p = o
        BY <1>1, <2>2, <3>2
      <4>. QED BY <1>1, <1>3, <1>6, <2>2, <3>2, <4>1
    <3>3. CASE i \in DOMAIN inv /\ j \in DOMAIN inv
      BY <1>1, <2>2, <3>3 DEF BilledInv, LinesFit
    <3>. QED BY <1>3, <3>1, <3>2, <3>3
  <2>3. ASSUME NEW p \in Order
        PROVE  Individually(p)' \/ invoiced'[p] = 0
    <3>1. CASE p = o
      BY <1>1, <1>3, <3>1 DEF Individually
    <3>2. CASE p # o
      <4>1. Individually(p) \/ invoiced[p] = 0
        BY DEF BilledInv, LinesFit
      <4>2. Individually(p) => Individually(p)'
        BY <1>1, <1>3 DEF Individually
      <4>. QED BY <1>7, <3>2, <4>1, <4>2
    <3>. QED BY <3>1, <3>2
  <2>. QED BY <2>1, <2>2, <2>3 DEF LinesFit
<1>10. Rolled' = Rolled
  BY <1>1, <1>3, <1>8 DEF Rolled, Consolidated
<1>11. ASSUME NEW q \in Request
       PROVE  /\ req'[q].op = "draft" => DraftFits(req'[q], shipped', Rolled')
              /\ req'[q].op # "consolidate"
  <2>1. CASE q = r
    <3>1. req'[q].op = "idle"
      BY <1>5, <2>1, DoneType DEF BilledInv, TypeInv
    <3>. QED BY <3>1
  <2>2. CASE q # r
    <3>1. req'[q] = req[q]
      BY <1>5, <2>2, DoneType DEF BilledInv, TypeInv
    <3>2. req[q].op = "draft" => DraftFits(req[q], shipped, Rolled)
      BY DEF BilledInv
    <3>3. req[q].op # "consolidate"
      <4>1. Bills(req[r])
        BY <1>4 DEF Bills
      <4>. QED BY <2>2, <4>1 DEF BilledInv
    <3>. QED BY <1>5, <1>10, <3>1, <3>2, <3>3
  <2>. QED BY <2>1, <2>2
<1>. QED BY <1>1, <1>9, <1>11 DEF BilledInv

\* The orders of a roll-up were unbilled, and each is on the one invoice of its
\* customer now.
LEMMA RollupBilled ==
    ASSUME BilledInv, NEW r \in Request, Consolidate(r)
    PROVE  BilledInv'
<1>. DEFINE lines == req[r].lines
            New == DOMAIN inv' \ DOMAIN inv
<1>1. /\ TypeInv' /\ UNCHANGED <<shipped, invoiced>> /\ Done(r)
      /\ DOMAIN inv \subseteq DOMAIN inv'
      /\ \A i \in DOMAIN inv : inv'[i] = inv[i]
      /\ \A i \in New : /\ inv'[i].so = NoOrder
                        /\ \A o \in Order : inv'[i].lines[o] \in {0, lines[o]}
      /\ \A i, j \in New, o \in Order :
            inv'[i].lines[o] > 0 /\ inv'[j].lines[o] > 0 => i = j
  BY ConsolidateType DEF BilledInv
<1>2. /\ req[r].op = "consolidate" /\ lines \in [Order -> Nat]
      /\ RollupFits(req[r], shipped, Alone \cup Rolled)
      /\ \A q \in Request : q # r => ~Bills(req[q])
  BY ActiveRequest DEF Consolidate, BilledInv, TypeInv
<1>3. \A o \in Order : lines[o] > 0 =>
         /\ lines[o] <= shipped[o]
         /\ \A i \in DOMAIN inv : inv[i].lines[o] = 0
  <2>. SUFFICES ASSUME NEW o \in Order, lines[o] > 0
                PROVE  /\ lines[o] <= shipped[o]
                       /\ \A i \in DOMAIN inv : inv[i].lines[o] = 0
    OBVIOUS
  <2>1. lines[o] <= shipped[o] /\ ~Individually(o) /\ ~Consolidated(o)
    BY <1>2 DEF RollupFits, Alone, Rolled
  <2>. QED BY <2>1, Unbilled
<1>4. \A o \in Order : shipped[o] \in Nat /\ lines[o] \in Nat
  BY <1>2 DEF BilledInv, TypeInv, TypeOK
<1>5. NoOrder \notin Order
  BY PlacesAssumption
<1>. HIDE DEF lines, New
<1>6. DOMAIN inv' = DOMAIN inv \cup New
  BY <1>1 DEF New
<1>7. LinesFit'
  <2>1. ASSUME NEW i \in DOMAIN inv', NEW p \in Order
        PROVE  /\ inv'[i].lines[p] > 0 => inv'[i].so \in {p, NoOrder}
               /\ inv'[i].lines[p] <= shipped'[p]
               /\ inv'[i].so = p => invoiced'[p] = inv'[i].lines[p]
    <3>1. CASE i \in New
      BY <1>1, <1>3, <1>4, <1>5, <3>1
    <3>2. CASE i \in DOMAIN inv
      BY <1>1, <3>2 DEF BilledInv, LinesFit
    <3>. QED BY <1>6, <3>1, <3>2
  <2>2. ASSUME NEW i \in DOMAIN inv', NEW j \in DOMAIN inv', NEW p \in Order,
               inv'[i].lines[p] > 0, inv'[j].lines[p] > 0
        PROVE  i = j
    <3>1. CASE i \in New /\ j \in New
      BY <1>1, <2>2, <3>1
    <3>2. CASE i \in DOMAIN inv /\ j \in DOMAIN inv
      BY <1>1, <2>2, <3>2 DEF BilledInv, LinesFit
    <3>3. ASSUME NEW a \in New, NEW b \in DOMAIN inv,
                 inv'[a].lines[p] > 0, inv'[b].lines[p] > 0
          PROVE  FALSE
      <4>1. lines[p] > 0
        BY <1>1, <1>4, <3>3
      <4>2. inv'[b].lines[p] = 0
        BY <1>1, <1>3, <4>1
      <4>. QED BY <3>3, <4>2
    <3>. QED BY <1>6, <2>2, <3>1, <3>2, <3>3
  <2>3. ASSUME NEW p \in Order
        PROVE  Individually(p)' \/ invoiced'[p] = 0
    <3>1. Individually(p) \/ invoiced[p] = 0
      BY DEF BilledInv, LinesFit
    <3>2. Individually(p) => Individually(p)'
      BY <1>1 DEF Individually
    <3>. QED BY <1>1, <3>1, <3>2
  <2>. QED BY <2>1, <2>2, <2>3 DEF LinesFit
<1>8. \A q \in Request : ~Bills(req'[q])
  BY <1>1, <1>2, DoneType DEF BilledInv, TypeInv, Bills
<1>. QED BY <1>1, <1>7, <1>8 DEF BilledInv, Bills

LEMMA BilledNext ==
    "consolidate" \notin Overlap /\ BilledInv /\ [Next]_vars => BilledInv'
<1>. SUFFICES ASSUME "consolidate" \notin Overlap, BilledInv, [Next]_vars
              PROVE  BilledInv'
  OBVIOUS
<1>0. TypeInv' /\ \A o \in Order : shipped[o] \in Nat
  BY TypeNext DEF BilledInv, TypeInv, TypeOK
<1>1. ASSUME NEW o \in Order, Deliver(o) PROVE BilledInv'
  <2>1. \A p \in Order : shipped[p] <= shipped'[p]
    BY <1>0, <1>1 DEF Deliver, BilledInv, TypeInv, TypeOK
  <2>. QED BY <1>0, <1>1, <2>1, BilledKept DEF Deliver
<1>2. ASSUME NEW i \in DOMAIN inv, Advance(i) PROVE BilledInv'
  <2>1. UNCHANGED <<shipped, invoiced, req>>
    BY <1>2 DEF Advance
  <2>2. /\ DOMAIN inv' = DOMAIN inv
        /\ \A j \in DOMAIN inv : inv'[j].so = inv[j].so /\ inv'[j].lines = inv[j].lines
    BY <1>2, AdvanceType DEF BilledInv
  <2>. QED BY <1>0, <2>1, <2>2, BilledKept
<1>3. ASSUME UNCHANGED <<shipped, invoiced, inv>>,
             \A q \in Request : Bills(req'[q]) => req'[q] = req[q]
      PROVE  BilledInv'
  BY <1>0, <1>3, BilledKept
<1>4. ASSUME NEW c \in Cell, Take(c) PROVE BilledInv'
  BY <1>3, <1>4 DEF Take
<1>5. ASSUME NEW r \in Request, NEW o \in Order, BeginDraft(r, o) PROVE BilledInv'
  BY <1>5, DraftStarts
<1>6. ASSUME NEW r \in Request, BeginConsolidate(r) PROVE BilledInv'
  BY <1>6, RollupStarts
<1>7. ASSUME NEW r \in Request, NEW t, Begin(r, t), t.op \notin {"draft", "consolidate"}
      PROVE  BilledInv'
  <2>1. /\ UNCHANGED <<shipped, invoiced, inv>>
        /\ \A q \in Request : req'[q] = IF q = r THEN t ELSE req[q]
    BY <1>7 DEF Begin, BilledInv, TypeInv, TypeOK
  <2>2. \A q \in Request : Bills(req'[q]) => req'[q] = req[q]
    BY <1>7, <2>1 DEF Bills
  <2>. QED BY <1>3, <2>1, <2>2
<1>8. ASSUME NEW r \in Request, NEW i \in DOMAIN inv, NEW lines \in Payloads,
             BeginCredit(r, i, lines)
      PROVE  BilledInv'
  BY <1>7, <1>8 DEF BeginCredit
<1>9. ASSUME NEW r \in Request, NEW n \in DOMAIN note, NEW op \in {"submit", "cancel"},
             BeginNote(r, op, n)
      PROVE  BilledInv'
  BY <1>7, <1>9 DEF BeginNote
<1>10. ASSUME NEW r \in Request, GenerateDraft(r) PROVE BilledInv'
  BY <1>10, DraftBilled
<1>11. ASSUME NEW r \in Request, Consolidate(r) PROVE BilledInv'
  BY <1>11, RollupBilled
<1>12. ASSUME NEW r \in Request, Done(r), UNCHANGED <<shipped, invoiced, inv>>
       PROVE  BilledInv'
  <2>1. \A q \in Request : Bills(req'[q]) => req'[q] = req[q]
    BY <1>12, DoneType DEF Bills, BilledInv, TypeInv
  <2>. QED BY <1>3, <1>12, <2>1
<1>13. ASSUME NEW r \in Request, CreateCreditNote(r) PROVE BilledInv'
  BY <1>12, <1>13 DEF CreateCreditNote
<1>14. ASSUME NEW r \in Request, SubmitCreditNote(r) PROVE BilledInv'
  BY <1>12, <1>14 DEF SubmitCreditNote
<1>15. ASSUME NEW r \in Request, CancelCreditNote(r) PROVE BilledInv'
  BY <1>12, <1>15 DEF CancelCreditNote
<1>16. ASSUME NEW r \in Request, Rollback(r) PROVE BilledInv'
  BY <1>12, <1>16 DEF Rollback
<1>17. CASE UNCHANGED vars
  BY <1>3, <1>17 DEF vars
<1>. QED BY <1>1, <1>2, <1>4, <1>5, <1>6, <1>8, <1>9, <1>10, <1>11, <1>13, <1>14, <1>15,
            <1>16, <1>17 DEF Next

\* If the monthly roll-up runs while nobody else makes invoices for its orders,
\* an order is on one invoice at most, for no more than was shipped, although
\* two requests for a draft of one order may overlap.
THEOREM OrdersBilledOnce ==
    ASSUME "consolidate" \notin Overlap
    PROVE  Spec => []BilledOnce
<1>1. BilledInv /\ [Next]_vars => BilledInv'
  BY BilledNext
<1>2. BilledInv => BilledOnce
  <2>. SUFFICES ASSUME BilledInv, NEW o \in Order
                PROVE  /\ Cardinality({i \in DOMAIN inv : inv[i].lines[o] > 0}) <= 1
                       /\ \A i \in DOMAIN inv :
                             /\ inv[i].lines[o] <= shipped[o]
                             /\ inv[i].so = o => invoiced[o] = inv[i].lines[o]
    BY DEF BilledOnce
  <2>. DEFINE S == {i \in DOMAIN inv : inv[i].lines[o] > 0}
  <2>1. \A i, j \in S : i = j
    BY DEF BilledInv, LinesFit
  <2>2. Cardinality(S) <= 1
    <3>1. CASE S = {}
      BY <3>1, FS_EmptySet
    <3>2. CASE S # {}
      <4>1. PICK i \in S : S = {i}
        BY <2>1, <3>2
      <4>2. Cardinality(S) = 1
        BY <4>1, FS_Singleton
      <4>. QED BY <4>2
    <3>. QED BY <3>1, <3>2
  <2>3. \A i \in DOMAIN inv :
           /\ inv[i].lines[o] <= shipped[o]
           /\ inv[i].so = o => invoiced[o] = inv[i].lines[o]
    BY DEF BilledInv, LinesFit
  <2>. QED BY <2>2, <2>3
<1>. QED BY <1>1, <1>2, BilledInit, PTL DEF Spec

-----------------------------------------------------------------------------
(* Goods come back once *)

Returns(t) == t.op \in {"credit", "submit", "cancel"}
OnNote(t) == t.op \in {"submit", "cancel"}

\* A request about a note still finds it a DRAFT, or another one has cancelled
\* it since: then a stock row of its lines has moved on, too.
NoteFits(t, row, place, rows) ==
    /\ t.on = {<<"note", t.note>>}
    /\ \/ row.status = "DRAFT"
       \/ /\ t.op = "cancel"
          /\ \E c \in Cell : /\ LinesAt(place, row.lines, c) # {}
                             /\ t.ver[c] < rows[c].version

RequestFits(r) ==
    /\ Returns(req[r]) => \A c \in Cell : req[r].ver[c] <= stock[c].version
    /\ req[r].op = "credit" => req[r].lines # <<>>
    /\ OnNote(req[r]) =>
          NoteFits(req[r], note[req[r].note], PlaceOf(req[r].note), stock)
    /\ req[r].op = "submit" =>
          \A q \in Request : q # r /\ OnNote(req[q]) => req[q].note # req[r].note

ReturnInv ==
    /\ TypeInv
    /\ \A n \in DOMAIN note : note[n].lines # <<>>
    /\ \A r \in Request : RequestFits(r)
    /\ ReturnsMatch

LEMMA ReturnInit == Init => ReturnInv
<1>. SUFFICES ASSUME Init PROVE ReturnInv
  OBVIOUS
<1>1. TypeInv
  BY TypeInit
<1>2. note = <<>> /\ \A r \in Request : req[r].op = "idle"
  BY DEF Init, Idle
<1>3. DOMAIN note = {}
  BY <1>2
<1>. QED BY <1>1, <1>2, <1>3 DEF ReturnInv, RequestFits, ReturnsMatch, Returns, OnNote

\* Versions are numbers, before a step and after it.
LEMMA VersionNat ==
    ASSUME TypeOK
    PROVE  \A c \in Cell : stock[c] \in Row /\ stock[c].version \in Nat
  BY DEF TypeOK, Row

LEMMA NotesType ==
    ASSUME TypeInv
    PROVE  /\ DOMAIN note = 1 .. Len(note) /\ Len(note) \in Nat
           /\ \A n \in DOMAIN note : /\ note[n].lines \in Seq(CreditLine)
                                     /\ note[n].invoice \in DOMAIN inv
                                     /\ PlaceOf(n) \in Warehouse
<1>1. \A n \in DOMAIN note : note[n] \in NoteRow /\ note[n].invoice \in DOMAIN inv
  BY DEF TypeInv, TypeOK
<1>2. \A i \in DOMAIN inv : inv[i] \in InvoiceRow
  BY DEF TypeInv, TypeOK
<1>3. \A i \in DOMAIN inv : inv[i].warehouse \in Warehouse
  BY <1>2 DEF InvoiceRow
<1>4. \A n \in DOMAIN note : note[n].lines \in Seq(CreditLine)
  BY <1>1 DEF NoteRow
<1>5. DOMAIN note = 1 .. Len(note) /\ Len(note) \in Nat
  BY DEF TypeInv, TypeOK
<1>. QED BY <1>1, <1>3, <1>4, <1>5 DEF PlaceOf

\* A step in which time goes by: versions grow.
LEMMA NoteFitsKept ==
    ASSUME NEW t, NEW row, NEW place, NEW rows \in [Cell -> Row], NEW rows1 \in [Cell -> Row],
           t.ver \in [Cell -> Nat],
           \A c \in Cell : rows[c].version <= rows1[c].version,
           NoteFits(t, row, place, rows)
    PROVE  NoteFits(t, row, place, rows1)
<1>1. \A c \in Cell : /\ rows[c].version \in Nat /\ rows1[c].version \in Nat
                      /\ t.ver[c] \in Nat
  BY DEF Row
<1>2. \A c \in Cell : t.ver[c] < rows[c].version => t.ver[c] < rows1[c].version
  BY <1>1
<1>. QED BY <1>2 DEF NoteFits

\* Steps that leave the notes alone and begin no request about one.
LEMMA ReturnsKept ==
    ASSUME ReturnInv, TypeInv', UNCHANGED <<note, moved>>,
           DOMAIN inv \subseteq DOMAIN inv',
           \A i \in DOMAIN inv : inv'[i].warehouse = inv[i].warehouse,
           \A c \in Cell : stock[c].version <= stock'[c].version,
           \A q \in Request : Returns(req'[q]) => req'[q] = req[q]
    PROVE  ReturnInv'
<1>1. \A n \in DOMAIN note : PlaceOf(n)' = PlaceOf(n)
  BY NotesType DEF ReturnInv, PlaceOf
<1>2. ReturnsMatch'
  BY <1>1 DEF ReturnInv, ReturnsMatch
<1>3. stock \in [Cell -> Row] /\ stock' \in [Cell -> Row]
  BY DEF ReturnInv, TypeInv, TypeOK
<1>4. ASSUME NEW q \in Request, Returns(req'[q])
      PROVE  /\ req'[q] = req[q] /\ Returns(req[q])
             /\ req[q].ver \in [Cell -> Nat]
             /\ OnNote(req[q]) => req[q].note \in DOMAIN note
  <2>1. req'[q] = req[q]
    BY <1>4
  <2>. QED BY <1>4, <2>1, ActiveRequest DEF ReturnInv, TypeInv, Returns, OnNote
<1>5. \A q \in Request : OnNote(req'[q]) => Returns(req'[q])
  BY DEF OnNote, Returns
<1>6. ASSUME NEW q \in Request
      PROVE  RequestFits(q)'
  <2>1. ASSUME Returns(req'[q])
        PROVE  \A c \in Cell : req'[q].ver[c] <= stock'[c].version
    <3>1. \A c \in Cell : /\ req[q].ver[c] <= stock[c].version /\ req[q].ver[c] \in Nat
                          /\ stock[c].version \in Nat /\ stock'[c].version \in Nat
      BY <1>3, <1>4, <2>1 DEF ReturnInv, RequestFits, Row
    <3>. QED BY <1>4, <2>1, <3>1
  <2>2. req'[q].op = "credit" => req'[q].lines # <<>>
    BY <1>4 DEF Returns, ReturnInv, RequestFits
  <2>3. ASSUME OnNote(req'[q])
        PROVE  NoteFits(req'[q], note'[req'[q].note],
                        inv'[note'[req'[q].note].invoice].warehouse, stock')
    <3>1. req'[q] = req[q] /\ req[q].note \in DOMAIN note /\ req[q].ver \in [Cell -> Nat]
      BY <1>4, <1>5, <2>3
    <3>2. NoteFits(req[q], note[req[q].note], PlaceOf(req[q].note), stock)
      BY <2>3, <3>1 DEF ReturnInv, RequestFits
    <3>3. NoteFits(req[q], note[req[q].note], PlaceOf(req[q].note), stock')
      BY <1>3, <3>1, <3>2, NoteFitsKept
    <3>4. /\ note'[req'[q].note] = note[req[q].note]
          /\ inv'[note'[req'[q].note].invoice].warehouse = PlaceOf(req[q].note)
      BY <1>1, <3>1 DEF PlaceOf
    <3>. QED BY <3>1, <3>3, <3>4
  <2>4. ASSUME req'[q].op = "submit", NEW p \in Request, p # q, OnNote(req'[p])
        PROVE  req'[p].note # req'[q].note
    <3>1. req'[q] = req[q] /\ req'[p] = req[p]
      BY <1>4, <1>5, <2>4 DEF Returns
    <3>. QED BY <2>4, <3>1 DEF ReturnInv, RequestFits
  <2>. QED BY <2>1, <2>2, <2>3, <2>4 DEF RequestFits, PlaceOf
<1>. QED BY <1>2, <1>6 DEF ReturnInv

\* A request begins that read the rows as they are; nobody submits a note that
\* somebody else works on.
LEMMA ReturnStarts ==
    ASSUME ReturnInv, "submit" \notin Overlap, NEW r \in Request, NEW t, Began(r, t),
           Returns(t) => \A c \in Cell : t.ver[c] <= stock[c].version,
           t.op = "credit" => t.lines # <<>>,
           OnNote(t) => NoteFits(t, note[t.note], PlaceOf(t.note), stock)
    PROVE  ReturnInv'
<1>1. TypeInv'
  BY BeginType DEF ReturnInv
<1>2. /\ req' = [req EXCEPT ![r] = t] /\ req[r] = Idle
      /\ UNCHANGED <<shipped, invoiced, inv, note, stock, moved>>
      /\ \A q \in Request : req[q] # Idle /\ req[q].on \cap t.on # {} =>
            {t.op, req[q].op} \subseteq Overlap
  BY DEF Began, Begin
<1>3. \A q \in Request : req'[q] = IF q = r THEN t ELSE req[q]
  BY <1>2 DEF ReturnInv, TypeInv, TypeOK
<1>4. ReturnsMatch'
  BY <1>2 DEF ReturnInv, ReturnsMatch, PlaceOf
<1>5. ASSUME NEW q \in Request, OnNote(req[q]), OnNote(t), req[q].note = t.note
      PROVE  req[q].op # "submit" /\ t.op # "submit"
  <2>1. req[q].on = {<<"note", t.note>>} /\ t.on = {<<"note", t.note>>}
    BY <1>5 DEF ReturnInv, RequestFits, NoteFits
  <2>2. req[q] # Idle
    BY <1>5 DEF OnNote, Idle
  <2>3. {t.op, req[q].op} \subseteq Overlap
    BY <1>2, <2>1, <2>2
  <2>. QED BY <2>3
<1>6. ASSUME NEW q \in Request PROVE RequestFits(q)'
  <2>1. /\ Returns(req'[q]) => \A c \in Cell : req'[q].ver[c] <= stock'[c].version
        /\ req'[q].op = "credit" => req'[q].lines # <<>>
    BY <1>2, <1>3 DEF ReturnInv, RequestFits
  <2>2. OnNote(req'[q]) => NoteFits(req'[q], note'[req'[q].note],
                                    inv'[note'[req'[q].note].invoice].warehouse, stock')
    <3>1. CASE q = r
      BY <1>2, <1>3, <3>1 DEF PlaceOf
    <3>2. CASE q # r
      <4>1. req'[q] = req[q]
        BY <1>3, <3>2
      <4>2. OnNote(req[q]) => NoteFits(req[q], note[req[q].note],
                                       inv[note[req[q].note].invoice].warehouse, stock)
        BY DEF ReturnInv, RequestFits, PlaceOf
      <4>. QED BY <1>2, <4>1, <4>2
    <3>. QED BY <3>1, <3>2
  <2>3. ASSUME req'[q].op = "submit", NEW p \in Request, p # q, OnNote(req'[p])
        PROVE  req'[p].note # req'[q].note
    <3>1. CASE q = r
      <4>1. req'[q] = t /\ req'[p] = req[p]
        BY <1>3, <2>3, <3>1
      <4>2. OnNote(t)
        BY <2>3, <4>1 DEF OnNote
      <4>. QED BY <1>5, <2>3, <4>1, <4>2
    <3>2. CASE p = r
      <4>1. req'[p] = t /\ req'[q] = req[q]
        BY <1>3, <2>3, <3>2
      <4>2. OnNote(req[q])
        BY <2>3, <4>1 DEF OnNote
      <4>. QED BY <1>5, <2>3, <4>1, <4>2
    <3>3. CASE q # r /\ p # r
      <4>1. req'[p] = req[p] /\ req'[q] = req[q]
        BY <1>3, <3>3
      <4>. QED BY <2>3, <4>1 DEF ReturnInv, RequestFits
    <3>. QED BY <3>1, <3>2, <3>3
  <2>. QED BY <2>1, <2>2, <2>3 DEF RequestFits, PlaceOf
<1>. QED BY <1>1, <1>2, <1>4, <1>6 DEF ReturnInv

LEMMA CreditStarts ==
    ASSUME ReturnInv, "submit" \notin Overlap,
           NEW r \in Request, NEW i \in DOMAIN inv, NEW lines \in Payloads,
           BeginCredit(r, i, lines)
    PROVE  ReturnInv'
<1>. DEFINE t == [op |-> "credit", on |-> {<<"invoice", i>>}, invoice |-> i,
                  lines |-> lines, ver |-> Versions]
<1>1. Began(r, t)
  BY CreditBegins DEF ReturnInv
<1>2. t.op = "credit" /\ t.lines = lines /\ t.ver = Versions
  OBVIOUS
<1>3. lines # <<>>
  BY PayloadsAssumption
<1>4. \A c \in Cell : Versions[c] <= stock[c].version
  BY VersionsType, VersionNat DEF ReturnInv, TypeInv
<1>. HIDE DEF t
<1>. QED BY <1>1, <1>2, <1>3, <1>4, ReturnStarts DEF OnNote

LEMMA NoteStarts ==
    ASSUME ReturnInv, "submit" \notin Overlap,
           NEW r \in Request, NEW n \in DOMAIN note, NEW op \in {"submit", "cancel"},
           BeginNote(r, op, n)
    PROVE  ReturnInv'
<1>. DEFINE t == [op |-> op, on |-> {<<"note", n>>}, note |-> n, ver |-> Versions]
<1>1. Began(r, t)
  BY NoteBegins DEF ReturnInv
<1>2. t.op = op /\ t.on = {<<"note", n>>} /\ t.note = n /\ t.ver = Versions
  OBVIOUS
<1>3. note[n].status = "DRAFT"
  BY DEF BeginNote
<1>4. \A c \in Cell : Versions[c] <= stock[c].version
  BY VersionsType, VersionNat DEF ReturnInv, TypeInv
<1>. HIDE DEF t
<1>5. NoteFits(t, note[t.note], PlaceOf(t.note), stock)
  BY <1>2, <1>3 DEF NoteFits
<1>6. t.op # "credit"
  BY <1>2
<1>. QED BY <1>1, <1>2, <1>4, <1>5, <1>6, ReturnStarts

\* Steps that write notes keep a request that they do not end, provided that
\* the note it is about keeps its place and lines, and its status or, for a
\* cancellation, a stock row of its lines moves on.
LEMMA RequestKept ==
    ASSUME ReturnInv, TypeInv', UNCHANGED inv, NEW r \in Request, Done(r),
           DOMAIN note \subseteq DOMAIN note',
           \A n \in DOMAIN note : /\ note'[n].invoice = note[n].invoice
                                  /\ note'[n].lines = note[n].lines,
           \A c \in Cell : stock[c].version <= stock'[c].version,
           NEW q \in Request,
           q # r /\ OnNote(req[q]) =>
               \/ note'[req[q].note].status = note[req[q].note].status
               \/ /\ req[q].op = "cancel"
                  /\ \E c \in Cell :
                        /\ LinesAt(PlaceOf(req[q].note), note[req[q].note].lines, c) # {}
                        /\ stock[c].version < stock'[c].version
    PROVE  RequestFits(q)'
<1>1. req'[r].op = "idle" /\ \A p \in Request : p # r => req'[p] = req[p]
  BY DoneType DEF ReturnInv, TypeInv
<1>2. CASE q = r
  BY <1>1, <1>2 DEF RequestFits, Returns, OnNote
<1>3. CASE q # r
  <2>. DEFINE t == req[q]
              n == t.note
  <2>1. req'[q] = t
    BY <1>1, <1>3
  <2>2. \A c \in Cell : stock[c].version \in Nat /\ stock'[c].version \in Nat
    BY VersionNat DEF ReturnInv, TypeInv, TypeOK, Row
  <2>3. Returns(t) => t.ver \in [Cell -> Nat] /\ \A c \in Cell : t.ver[c] <= stock[c].version
    BY ActiveRequest DEF Returns, ReturnInv, TypeInv, RequestFits
  <2>4. Returns(t) => \A c \in Cell : t.ver[c] <= stock'[c].version
    BY <2>2, <2>3
  <2>5. t.op = "credit" => t.lines # <<>>
    BY DEF ReturnInv, RequestFits
  <2>6. ASSUME OnNote(t)
        PROVE  NoteFits(t, note'[n], inv'[note'[n].invoice].warehouse, stock')
    <3>. DEFINE w == PlaceOf(n)
                Bumped(v, rows) == \E c \in Cell : /\ LinesAt(w, note[n].lines, c) # {}
                                                   /\ v[c] < rows[c].version
    <3>1. n \in DOMAIN note /\ Returns(t)
      BY <2>6 DEF ReturnInv, TypeInv, OnNote, Returns
    <3>2. /\ inv'[note'[n].invoice].warehouse = w
          /\ note'[n].lines = note[n].lines
      BY <3>1 DEF PlaceOf
    <3>3. /\ t.on = {<<"note", n>>}
          /\ note[n].status = "DRAFT" \/ (t.op = "cancel" /\ Bumped(t.ver, stock))
      BY <2>6 DEF ReturnInv, RequestFits, NoteFits
    <3>4. Bumped(t.ver, stock) => Bumped(t.ver, stock')
      BY <2>2, <2>3, <3>1
    <3>5. \/ note'[n].status = note[n].status
          \/ t.op = "cancel" /\ Bumped(t.ver, stock')
      BY <1>3, <2>2, <2>3, <2>6, <3>1
    <3>6. note'[n].status = "DRAFT" \/ (t.op = "cancel" /\ Bumped(t.ver, stock'))
      BY <3>3, <3>4, <3>5
    <3>. HIDE DEF t, w
    <3>. QED BY <3>2, <3>3, <3>6 DEF NoteFits
  <2>7. ASSUME t.op = "submit", NEW p \in Request, p # q, OnNote(req'[p])
        PROVE  req'[p].note # n
    <3>1. p # r /\ req'[p] = req[p]
      BY <1>1, <2>7 DEF OnNote
    <3>. QED BY <2>7, <3>1 DEF ReturnInv, RequestFits
  <2>. QED BY <2>1, <2>4, <2>5, <2>6, <2>7 DEF RequestFits, PlaceOf
<1>. QED BY <1>2, <1>3

LEMMA CreateReturns ==
    ASSUME ReturnInv, NEW r \in Request, CreateCreditNote(r)
    PROVE  ReturnInv'
<1>. DEFINE t == req[r]
<1>0. PICK new : new = Len(note')
  OBVIOUS
<1>1. /\ TypeInv' /\ Done(r) /\ UNCHANGED inv
      /\ DOMAIN note' = DOMAIN note \cup {new} /\ new \notin DOMAIN note
      /\ \A n \in DOMAIN note : note'[n] = note[n] /\ moved'[n] = moved[n]
      /\ note'[new] = [status |-> "DRAFT", invoice |-> t.invoice, lines |-> t.lines]
      /\ \A c \in Cell : moved'[new][c] = TotalAt(inv[t.invoice].warehouse, t.lines, c)
      /\ \A c \in Cell : stock'[c].version \in {stock[c].version, stock[c].version + 1}
  BY <1>0, CreateType DEF ReturnInv
<1>2. t.lines # <<>>
  BY DEF CreateCreditNote, ReturnInv, RequestFits
<1>3. \A c \in Cell : stock[c].version \in Nat
  BY VersionNat DEF ReturnInv, TypeInv
<1>4. \A c \in Cell : stock[c].version <= stock'[c].version
  BY <1>1, <1>3
<1>5. \A n \in DOMAIN note : PlaceOf(n)' = PlaceOf(n)
  BY <1>1 DEF PlaceOf
<1>6. /\ note'[new].status = "DRAFT" /\ note'[new].lines = t.lines
      /\ PlaceOf(new)' = inv[t.invoice].warehouse
  BY <1>1 DEF PlaceOf
<1>. HIDE DEF t
<1>7. \A n \in DOMAIN note' : note'[n].lines # <<>>
  BY <1>1, <1>2, <1>6 DEF ReturnInv
<1>8. ASSUME NEW n \in DOMAIN note', NEW c \in Cell
      PROVE  moved'[n][c] = IF note'[n].status = "CANCELLED" THEN 0
                            ELSE TotalAt(PlaceOf(n)', note'[n].lines, c)
  <2>1. CASE n = new
    BY <1>1, <1>6, <2>1
  <2>2. CASE n \in DOMAIN note
    <3>1. moved[n][c] = IF note[n].status = "CANCELLED" THEN 0
                        ELSE TotalAt(PlaceOf(n), note[n].lines, c)
      BY <2>2 DEF ReturnInv, ReturnsMatch
    <3>. QED BY <1>1, <1>5, <2>2, <3>1
  <2>. QED BY <1>1, <2>1, <2>2
<1>9. \A q \in Request : OnNote(req[q]) => req[q].note \in DOMAIN note
  BY DEF OnNote, ReturnInv, TypeInv
<1>10. \A q \in Request : RequestFits(q)'
  BY <1>1, <1>4, <1>9, RequestKept
<1>11. ReturnsMatch'
  BY <1>8 DEF ReturnsMatch
<1>. QED BY <1>1, <1>7, <1>10, <1>11 DEF ReturnInv

LEMMA SubmitReturns ==
    ASSUME ReturnInv, NEW r \in Request, SubmitCreditNote(r)
    PROVE  ReturnInv'
<1>. DEFINE n == req[r].note
<1>1. /\ TypeInv' /\ Done(r) /\ UNCHANGED <<inv, stock, moved>>
      /\ DOMAIN note' = DOMAIN note
      /\ \A m \in DOMAIN note : /\ note'[m].invoice = note[m].invoice
                                /\ note'[m].lines = note[m].lines
                                /\ \/ note'[m].status = note[m].status
                                   \/ m = n /\ note'[m].status # "CANCELLED"
  BY SubmitType DEF ReturnInv
<1>2. /\ req[r].op = "submit" /\ OnNote(req[r]) /\ n \in DOMAIN note
      /\ note[n].status = "DRAFT"
      /\ \A q \in Request : q # r /\ OnNote(req[q]) => req[q].note # n
  <2>1. req[r].op = "submit" /\ OnNote(req[r])
    BY DEF SubmitCreditNote, OnNote
  <2>. QED BY <2>1 DEF ReturnInv, TypeInv, RequestFits, NoteFits
<1>3. \A m \in DOMAIN note : PlaceOf(m)' = PlaceOf(m)
  BY <1>1 DEF PlaceOf
<1>4. \A c \in Cell : stock[c].version <= stock'[c].version
  BY <1>1, VersionNat DEF ReturnInv, TypeInv
<1>. HIDE DEF n
<1>5. \A m \in DOMAIN note : note'[m].status = "CANCELLED" <=> note[m].status = "CANCELLED"
  BY <1>1, <1>2
<1>6. ReturnsMatch'
  <2>. SUFFICES ASSUME NEW m \in DOMAIN note, NEW c \in Cell
                PROVE  moved[m][c] = IF note'[m].status = "CANCELLED" THEN 0
                                     ELSE TotalAt(PlaceOf(m)', note'[m].lines, c)
    BY <1>1 DEF ReturnsMatch
  <2>1. moved[m][c] = IF note[m].status = "CANCELLED" THEN 0
                      ELSE TotalAt(PlaceOf(m), note[m].lines, c)
    BY DEF ReturnInv, ReturnsMatch
  <2>. QED BY <1>1, <1>3, <1>5, <2>1
<1>7. ASSUME NEW q \in Request, q # r, OnNote(req[q])
      PROVE  note'[req[q].note].status = note[req[q].note].status
  <2>1. req[q].note \in DOMAIN note /\ req[q].note # n
    BY <1>2, <1>7 DEF OnNote, ReturnInv, TypeInv
  <2>. QED BY <1>1, <2>1
<1>8. \A q \in Request : RequestFits(q)'
  BY <1>1, <1>4, <1>7, RequestKept
<1>9. \A m \in DOMAIN note' : note'[m].lines # <<>>
  BY <1>1 DEF ReturnInv
<1>. QED BY <1>1, <1>6, <1>8, <1>9 DEF ReturnInv

\* A note has a line, and so a stock row that its goods are in.
LEMMA SomeRow ==
    ASSUME NEW w \in Warehouse, NEW lines \in Seq(CreditLine), lines # <<>>
    PROVE  \E c \in Cell : LinesAt(w, lines, c) # {}
<1>1. 1 \in DOMAIN lines /\ lines[1] \in CreditLine
  OBVIOUS
<1>2. <<SkuOf[lines[1].line], w>> \in Cell
  BY <1>1, PlacesAssumption DEF CreditLine, Cell
<1>3. 1 \in LinesAt(w, lines, <<SkuOf[lines[1].line], w>>)
  BY <1>1 DEF LinesAt
<1>. QED BY <1>2, <1>3

\* The version of a stock row tells a second cancellation that it is late.
LEMMA CancelReturns ==
    ASSUME ReturnInv, NEW r \in Request, CancelCreditNote(r)
    PROVE  ReturnInv'
<1>. DEFINE n == req[r].note
            lines == note[n].lines
            w == PlaceOf(n)
<1>1. /\ TypeInv' /\ Done(r) /\ UNCHANGED inv
      /\ DOMAIN note' = DOMAIN note
      /\ \A m \in DOMAIN note : /\ note'[m].invoice = note[m].invoice
                                /\ note'[m].lines = note[m].lines
                                /\ note'[m].status = IF m = n THEN "CANCELLED"
                                                     ELSE note[m].status
      /\ \A m \in DOMAIN note, c \in Cell :
            moved'[m][c] = IF m = n THEN moved[m][c] - TotalAt(PlaceOf(m), note[m].lines, c)
                           ELSE moved[m][c]
      /\ \A c \in Cell : stock'[c].version =
            IF LinesAt(w, lines, c) = {} THEN stock[c].version ELSE stock[c].version + 1
  BY CancelType DEF ReturnInv
<1>2. req[r].op = "cancel" /\ OnNote(req[r]) /\ n \in DOMAIN note
  BY DEF CancelCreditNote, OnNote, ReturnInv, TypeInv
<1>3. /\ w \in Warehouse /\ lines \in Seq(CreditLine) /\ lines # <<>>
      /\ \A c \in Cell : stock[c].version \in Nat
  BY <1>2, NotesType, VersionNat DEF ReturnInv, TypeInv
<1>4. \A c \in Cell : LinesAt(w, lines, c) # {} => stock[c].version = req[r].ver[c]
  BY DEF CancelCreditNote, UndoOK, SalesReturnReverseOK
<1>5. note[n].status = "DRAFT"
  <2>1. NoteFits(req[r], note[n], w, stock)
    BY <1>2 DEF ReturnInv, RequestFits
  <2>2. \A c \in Cell : LinesAt(w, lines, c) # {} => ~(req[r].ver[c] < stock[c].version)
    BY <1>3, <1>4
  <2>. QED BY <2>1, <2>2 DEF NoteFits
<1>6. \A m \in DOMAIN note : PlaceOf(m)' = PlaceOf(m)
  BY <1>1 DEF PlaceOf
<1>7. \A m \in DOMAIN note, c \in Cell : TotalAt(PlaceOf(m), note[m].lines, c) \in Nat
  BY NotesType, TotalsNat DEF ReturnInv
<1>8. ReturnsMatch'
  <2>. SUFFICES ASSUME NEW m \in DOMAIN note, NEW c \in Cell
                PROVE  moved'[m][c] = IF note'[m].status = "CANCELLED" THEN 0
                                      ELSE TotalAt(PlaceOf(m)', note'[m].lines, c)
    BY <1>1 DEF ReturnsMatch
  <2>1. moved[m][c] = IF note[m].status = "CANCELLED" THEN 0
                      ELSE TotalAt(PlaceOf(m), note[m].lines, c)
    BY DEF ReturnInv, ReturnsMatch
  <2>. HIDE DEF n
  <2>2. CASE m = n
    <3>1. moved[m][c] = TotalAt(PlaceOf(m), note[m].lines, c)
      BY <1>5, <2>1, <2>2
    <3>2. moved'[m][c] = 0
      BY <1>1, <1>7, <2>2, <3>1
    <3>. QED BY <1>1, <2>2, <3>2
  <2>3. CASE m # n
    BY <1>1, <1>6, <2>1, <2>3
  <2>. QED BY <2>2, <2>3
<1>9. PICK d \in Cell : LinesAt(w, lines, d) # {}
  BY <1>3, SomeRow
<1>10. \A c \in Cell : stock[c].version <= stock'[c].version
  BY <1>1, <1>3
<1>11. ASSUME NEW q \in Request, q # r, OnNote(req[q])
       PROVE  \/ note'[req[q].note].status = note[req[q].note].status
              \/ /\ req[q].op = "cancel"
                 /\ \E c \in Cell :
                       /\ LinesAt(PlaceOf(req[q].note), note[req[q].note].lines, c) # {}
                       /\ stock[c].version < stock'[c].version
  <2>1. req[q].note \in DOMAIN note
    BY <1>11 DEF OnNote, ReturnInv, TypeInv
  <2>2. CASE req[q].note # n
    BY <1>1, <2>1, <2>2
  <2>3. CASE req[q].note = n
    <3>1. req[q].op # "submit"
      BY <1>2, <1>11, <2>3 DEF ReturnInv, RequestFits
    <3>2. stock[d].version < stock'[d].version
      BY <1>1, <1>3, <1>9
    <3>. QED BY <1>9, <1>11, <2>3, <3>1, <3>2 DEF OnNote
  <2>. QED BY <2>2, <2>3
<1>12. \A q \in Request : RequestFits(q)'
  BY <1>1, <1>10, <1>11, RequestKept
<1>13. \A m \in DOMAIN note' : note'[m].lines # <<>>
  BY <1>1 DEF ReturnInv
<1>. QED BY <1>1, <1>8, <1>12, <1>13 DEF ReturnInv

\* The disjuncts of Next that write no note and begin no request about one:
\* what they leave of the rest.
Aside ==
    /\ UNCHANGED <<note, moved>>
    /\ DOMAIN inv \subseteq DOMAIN inv'
    /\ \A i \in DOMAIN inv : /\ inv'[i].warehouse = inv[i].warehouse
                             /\ inv'[i].lines = inv[i].lines
    /\ \A c \in Cell : stock[c].version <= stock'[c].version
    /\ \A q \in Request : Returns(req'[q]) => req'[q] = req[q]

LEMMA NextReturns ==
    ASSUME TypeInv, [Next]_vars
    PROVE  \/ Aside
           \/ \E r \in Request :
                 \/ \E i \in DOMAIN inv, lines \in Payloads : BeginCredit(r, i, lines)
                 \/ \E n \in DOMAIN note, op \in {"submit", "cancel"} : BeginNote(r, op, n)
                 \/ CreateCreditNote(r)
                 \/ SubmitCreditNote(r)
                 \/ CancelCreditNote(r)
<1>0. /\ \A c \in Cell : stock[c].version \in Nat
      /\ TypeOK
  BY VersionNat DEF TypeInv
<1>1. ASSUME UNCHANGED <<note, moved, stock, inv>>,
             \A q \in Request : Returns(req'[q]) => req'[q] = req[q]
      PROVE  Aside
  BY <1>0, <1>1 DEF Aside
<1>2. ASSUME NEW o \in Order, Deliver(o) PROVE Aside
  BY <1>1, <1>2 DEF Deliver
<1>3. ASSUME NEW i \in DOMAIN inv, Advance(i) PROVE Aside
  <2>1. /\ DOMAIN inv' = DOMAIN inv
        /\ \A j \in DOMAIN inv : /\ inv'[j].warehouse = inv[j].warehouse
                                 /\ inv'[j].lines = inv[j].lines
    BY <1>3, AdvanceType
  <2>. QED BY <1>0, <1>3, <2>1 DEF Advance, Aside
<1>4. ASSUME NEW c \in Cell, Take(c) PROVE Aside
  BY <1>4, TakeType DEF Take, Aside
<1>5. ASSUME NEW r \in Request, NEW t, Begin(r, t), t.op \in {"draft", "consolidate"}
      PROVE  Aside
  <2>1. \A q \in Request : req'[q] = IF q = r THEN t ELSE req[q]
    BY <1>0, <1>5 DEF Begin, TypeOK
  <2>2. \A q \in Request : Returns(req'[q]) => req'[q] = req[q]
    BY <1>5, <2>1 DEF Returns
  <2>. QED BY <1>1, <1>5, <2>2 DEF Begin
<1>6. ASSUME NEW r \in Request, NEW o \in Order, BeginDraft(r, o) PROVE Aside
  BY <1>5, <1>6 DEF BeginDraft
<1>7. ASSUME NEW r \in Request, BeginConsolidate(r) PROVE Aside
  BY <1>5, <1>7 DEF BeginConsolidate
<1>8. ASSUME NEW r \in Request, Done(r)
      PROVE  \A q \in Request : Returns(req'[q]) => req'[q] = req[q]
  BY <1>0, <1>8, DoneType DEF Returns
<1>9. ASSUME NEW r \in Request, GenerateDraft(r) PROVE Aside
  <2>1. /\ \A i \in DOMAIN inv : inv'[i] = inv[i]
        /\ Len(inv') = Len(inv) + 1 /\ TypeInv'
    BY <1>9, DraftType
  <2>2. DOMAIN inv \subseteq DOMAIN inv'
    BY <1>0, <2>1 DEF TypeInv, TypeOK
  <2>3. Done(r) /\ UNCHANGED <<note, moved, stock>>
    BY <1>9 DEF GenerateDraft
  <2>4. \A q \in Request : Returns(req'[q]) => req'[q] = req[q]
    BY <1>8, <2>3
  <2>. QED BY <1>0, <2>1, <2>2, <2>3, <2>4 DEF Aside
<1>10. ASSUME NEW r \in Request, Consolidate(r) PROVE Aside
  <2>1. DOMAIN inv \subseteq DOMAIN inv' /\ \A i \in DOMAIN inv : inv'[i] = inv[i]
    BY <1>10, ConsolidateType
  <2>2. Done(r) /\ UNCHANGED <<note, moved, stock>>
    BY <1>10 DEF Consolidate
  <2>3. \A q \in Request : Returns(req'[q]) => req'[q] = req[q]
    BY <1>8, <2>2
  <2>. QED BY <1>0, <2>1, <2>2, <2>3 DEF Aside
<1>11. ASSUME NEW r \in Request, Rollback(r) PROVE Aside
  BY <1>1, <1>8, <1>11 DEF Rollback
<1>12. CASE UNCHANGED vars
  BY <1>1, <1>12 DEF vars
<1>. QED BY <1>2, <1>3, <1>4, <1>6, <1>7, <1>9, <1>10, <1>11, <1>12 DEF Next

LEMMA ReturnNext ==
    "submit" \notin Overlap /\ ReturnInv /\ [Next]_vars => ReturnInv'
<1>. SUFFICES ASSUME "submit" \notin Overlap, ReturnInv, [Next]_vars
              PROVE  ReturnInv'
  OBVIOUS
<1>1. CASE Aside
  <2>1. TypeInv'
    BY TypeNext DEF ReturnInv
  <2>. QED BY <1>1, <2>1, ReturnsKept DEF Aside
<1>2. ASSUME NEW r \in Request, NEW i \in DOMAIN inv, NEW lines \in Payloads,
             BeginCredit(r, i, lines)
      PROVE  ReturnInv'
  BY <1>2, CreditStarts
<1>3. ASSUME NEW r \in Request, NEW n \in DOMAIN note, NEW op \in {"submit", "cancel"},
             BeginNote(r, op, n)
      PROVE  ReturnInv'
  BY <1>3, NoteStarts
<1>4. ASSUME NEW r \in Request, CreateCreditNote(r) PROVE ReturnInv'
  BY <1>4, CreateReturns
<1>5. ASSUME NEW r \in Request, SubmitCreditNote(r) PROVE ReturnInv'
  BY <1>5, SubmitReturns
<1>6. ASSUME NEW r \in Request, CancelCreditNote(r) PROVE ReturnInv'
  BY <1>6, CancelReturns
<1>7. TypeInv
  BY DEF ReturnInv
<1>. QED BY <1>1, <1>2, <1>3, <1>4, <1>5, <1>6, <1>7, NextReturns

\* If a note is submitted while nobody else works on it, its goods are back as
\* long as it stands, and out again once it is cancelled, although two
\* cancellations may both find it a DRAFT.
THEOREM ReturnsAreExact ==
    ASSUME "submit" \notin Overlap
    PROVE  Spec => []ReturnsMatch
<1>1. ReturnInv /\ [Next]_vars => ReturnInv'
  BY ReturnNext
<1>2. ReturnInv => ReturnsMatch
  BY DEF ReturnInv
<1>. QED BY <1>1, <1>2, ReturnInit, PTL DEF Spec

-----------------------------------------------------------------------------
(* Nobody is credited for more than was billed *)

\* A request names an invoice line at most once.
OneEach(lines) ==
    \A k, l \in DOMAIN lines : lines[k].line = lines[l].line => k = l

LEMMA QtyOfOne ==
    ASSUME NEW lines \in Seq(CreditLine), OneEach(lines), NEW o \in Order
    PROVE  \/ \E k \in DOMAIN lines : lines[k].line = o /\ QtyOf(lines, o) = lines[k].qty
           \/ (\A k \in DOMAIN lines : lines[k].line # o) /\ QtyOf(lines, o) = 0
<1>. DEFINE S == {k \in DOMAIN lines : lines[k].line = o}
            f == Asked(lines)
<1>1. IsFiniteSet(S) /\ \A k \in S : f[k] \in Nat /\ f[k] = lines[k].qty
  BY AskedNat
<1>2. QtyOf(lines, o) = SumFunctionOnSet(f, S)
  BY DEF QtyOf
<1>3. CASE S = {}
  <2>1. QtyOf(lines, o) = 0
    BY <1>2, <1>3, SumOfNothing
  <2>. QED BY <1>3, <2>1
<1>4. CASE S # {}
  <2>1. PICK k \in S : TRUE
    BY <1>4
  <2>2. S \ {k} = {}
    BY <2>1 DEF OneEach
  <2>. HIDE DEF f
  <2>3. \A x \in S : f[x] \in Int
    BY <1>1
  <2>. HIDE DEF S
  <2>4. SumFunctionOnSet(f, S) = f[k] + SumFunctionOnSet(f, S \ {k})
    BY <1>1, <2>1, <2>3, SumSplit
  <2>5. SumFunctionOnSet(f, S) = f[k]
    <3>1. SumFunctionOnSet(f, S \ {k}) = 0
      BY ONLY <2>2, SumOfNothing
    <3>2. f[k] \in Int
      BY ONLY <2>1, <2>3
    <3>. QED BY ONLY <2>4, <3>1, <3>2
  <2>6. QtyOf(lines, o) = lines[k].qty
    BY <1>1, <1>2, <2>1, <2>5
  <2>. QED BY <2>1, <2>6 DEF S
<1>. QED BY <1>3, <1>4

\* What the notes credit of a line, note by note and in all.
CreditedOf(notes, i, o) == [n \in DOMAIN notes |-> CreditedBy(notes[n], i, o)]

LEMMA CreditedByNat ==
    ASSUME NEW notes \in Seq(NoteRow), NEW i, NEW o \in Order
    PROVE  /\ IsFiniteSet(DOMAIN notes)
           /\ \A n \in DOMAIN notes : CreditedBy(notes[n], i, o) \in Nat
           /\ SumFunctionOnSet(CreditedOf(notes, i, o), DOMAIN notes) \in Nat
<1>1. \A n \in DOMAIN notes : notes[n] \in NoteRow
  OBVIOUS
<1>2. IsFiniteSet(DOMAIN notes)
  <2>1. DOMAIN notes = 1 .. Len(notes) /\ Len(notes) \in Nat
    OBVIOUS
  <2>. QED BY <2>1, FS_Interval
<1>3. \A n \in DOMAIN notes : CreditedBy(notes[n], i, o) \in Nat
  <2>1. \A n \in DOMAIN notes : notes[n].lines \in Seq(CreditLine)
    BY <1>1 DEF NoteRow
  <2>. QED BY <2>1, TotalsNat DEF CreditedBy
<1>. DEFINE f == CreditedOf(notes, i, o)
<1>4. \A n \in DOMAIN notes : f[n] \in Nat
  BY <1>3 DEF CreditedOf
<1>. HIDE DEF f
<1>5. SumFunctionOnSet(f, DOMAIN notes) \in Nat
  BY <1>2, <1>4, SumNonNegative
<1>. QED BY <1>2, <1>3, <1>5 DEF f

LEMMA CreditedNat ==
    ASSUME TypeInv, NEW i, NEW o \in Order
    PROVE  /\ IsFiniteSet(DOMAIN note)
           /\ \A n \in DOMAIN note : CreditedBy(note[n], i, o) \in Nat
           /\ Credited(i, o) \in Nat
<1>1. note \in Seq(NoteRow)
  BY DEF TypeInv, TypeOK
<1>. QED BY <1>1, CreditedByNat DEF Credited, CreditedOf

LEMMA CreditedNext ==
    ASSUME TypeInv', NEW i, NEW o \in Order
    PROVE  /\ IsFiniteSet(DOMAIN note')
           /\ \A n \in DOMAIN note' : CreditedBy(note'[n], i, o) \in Nat
           /\ Credited(i, o)' \in Nat
<1>1. note' \in Seq(NoteRow)
  BY DEF TypeInv, TypeOK
<1>. QED BY <1>1, CreditedByNat DEF Credited, CreditedOf

\* Notes that only change their status: what they credit changes with them.
LEMMA CreditedChanges ==
    ASSUME TypeInv, TypeInv', NEW i, NEW o \in Order, NEW n \in DOMAIN note,
           DOMAIN note' = DOMAIN note,
           \A m \in DOMAIN note : m # n =>
               CreditedBy(note'[m], i, o) = CreditedBy(note[m], i, o)
    PROVE  Credited(i, o)' = Credited(i, o)
                + (CreditedBy(note'[n], i, o) - CreditedBy(note[n], i, o))
<1>. DEFINE f == [m \in DOMAIN note |-> CreditedBy(note[m], i, o)]
            g == [m \in DOMAIN note |-> CreditedBy(note'[m], i, o)]
<1>1. /\ IsFiniteSet(DOMAIN note)
      /\ \A m \in DOMAIN note : CreditedBy(note[m], i, o) \in Nat
  BY CreditedNat
<1>2. \A m \in DOMAIN note' : CreditedBy(note'[m], i, o) \in Nat
  BY CreditedNext
<1>3. Credited(i, o) = SumFunctionOnSet(f, DOMAIN note)
  BY DEF Credited
<1>4. Credited(i, o)' = SumFunctionOnSet(g, DOMAIN note)
  BY DEF Credited
<1>5. \A m \in DOMAIN note : f[m] \in Int /\ g[m] \in Int
  BY <1>1, <1>2
<1>6. \A m \in DOMAIN note : m # n => g[m] = f[m]
  OBVIOUS
<1>7. f[n] = CreditedBy(note[n], i, o) /\ g[n] = CreditedBy(note'[n], i, o)
  OBVIOUS
<1>. HIDE DEF f, g
<1>8. SumFunctionOnSet(g, DOMAIN note) = SumFunctionOnSet(f, DOMAIN note) + (g[n] - f[n])
  BY <1>1, <1>5, <1>6, SumChange
<1>. QED BY <1>3, <1>4, <1>7, <1>8

\* A new note adds what it credits.
LEMMA CreditedGrows ==
    ASSUME TypeInv, TypeInv', NEW i, NEW o \in Order, NEW new,
           DOMAIN note' = DOMAIN note \cup {new}, new \notin DOMAIN note,
           \A n \in DOMAIN note : note'[n] = note[n]
    PROVE  Credited(i, o)' = Credited(i, o) + CreditedBy(note'[new], i, o)
<1>. DEFINE f == [m \in DOMAIN note |-> CreditedBy(note[m], i, o)]
            g == [m \in DOMAIN note' |-> CreditedBy(note'[m], i, o)]
<1>1. /\ IsFiniteSet(DOMAIN note)
      /\ \A m \in DOMAIN note : CreditedBy(note[m], i, o) \in Nat
  BY CreditedNat
<1>2. \A m \in DOMAIN note' : CreditedBy(note'[m], i, o) \in Nat
  BY CreditedNext
<1>3. Credited(i, o) = SumFunctionOnSet(f, DOMAIN note)
  BY DEF Credited
<1>4. Credited(i, o)' = SumFunctionOnSet(g, DOMAIN note')
  BY DEF Credited
<1>5. \A m \in DOMAIN note' : g[m] \in Int
  BY <1>2
<1>6. \A m \in DOMAIN note : f[m] \in Int /\ g[m] = f[m]
  BY <1>1
<1>7. g[new] = CreditedBy(note'[new], i, o) /\ new \in DOMAIN note'
  OBVIOUS
<1>8. DOMAIN note' \ {new} = DOMAIN note
  OBVIOUS
<1>. HIDE DEF f, g
<1>9. IsFiniteSet(DOMAIN note')
  BY <1>1, FS_AddElement
<1>10. SumFunctionOnSet(g, DOMAIN note') = g[new] + SumFunctionOnSet(g, DOMAIN note' \ {new})
  BY <1>5, <1>7, <1>9, SumSplit
<1>11. SumFunctionOnSet(g, DOMAIN note) = SumFunctionOnSet(f, DOMAIN note)
  BY <1>1, <1>6, SumSame
<1>12. SumFunctionOnSet(f, DOMAIN note) \in Int /\ g[new] \in Int
  BY <1>1, <1>5, <1>6, <1>7, SumSplit
<1>. QED BY <1>3, <1>4, <1>7, <1>8, <1>10, <1>11, <1>12

\* A request for a credit note whose stock row is as it was read still finds
\* what it asks for on the invoice line.
CreditFits(t, w, o, billed, credited, rows) ==
    \A k \in DOMAIN t.lines :
        t.lines[k].line = o /\ t.ver[<<SkuOf[o], w>>] = rows[<<SkuOf[o], w>>].version
            => t.lines[k].qty + credited <= billed

CreditInv ==
    /\ ReturnInv
    /\ CreditBound
    /\ \A r \in Request : req[r].op = "credit" =>
          /\ OneEach(req[r].lines)
          /\ \A i \in DOMAIN inv, o \in Order : req[r].invoice = i =>
                CreditFits(req[r], inv[i].warehouse, o, inv[i].lines[o],
                           Credited(i, o), stock)

LEMMA CreditInit == Init => CreditInv
<1>. SUFFICES ASSUME Init PROVE CreditInv
  OBVIOUS
<1>1. DOMAIN inv = {} /\ \A r \in Request : req[r].op = "idle"
  BY DEF Init, Idle
<1>. QED BY <1>1, ReturnInit DEF CreditInv, CreditBound

LEMMA BilledNat ==
    ASSUME NEW invs \in Seq(InvoiceRow), NEW i \in DOMAIN invs, NEW o \in Order
    PROVE  /\ invs[i].lines[o] \in Nat
           /\ invs[i].warehouse \in Warehouse
           /\ <<SkuOf[o], invs[i].warehouse>> \in Cell
<1>1. invs[i] \in InvoiceRow
  OBVIOUS
<1>2. invs[i].lines \in [Order -> Nat] /\ invs[i].warehouse \in Warehouse
  BY <1>1 DEF InvoiceRow
<1>. QED BY <1>2, PlacesAssumption DEF Cell

\* A request stays in order while less is credited and rows move on.
LEMMA CreditFitsKept ==
    ASSUME NEW t, NEW w \in Warehouse, NEW o \in Order, NEW billed \in Nat,
           t.lines \in Seq(CreditLine), t.ver \in [Cell -> Nat],
           NEW credited \in Nat, NEW credited1 \in Nat,
           NEW rows \in [Cell -> Row], NEW rows1 \in [Cell -> Row],
           t.ver[<<SkuOf[o], w>>] <= rows[<<SkuOf[o], w>>].version,
           \/ /\ credited1 <= credited
              /\ rows[<<SkuOf[o], w>>].version <= rows1[<<SkuOf[o], w>>].version
           \/ rows[<<SkuOf[o], w>>].version < rows1[<<SkuOf[o], w>>].version,
           CreditFits(t, w, o, billed, credited, rows)
    PROVE  CreditFits(t, w, o, billed, credited1, rows1)
<1>. DEFINE c == <<SkuOf[o], w>>
<1>1. c \in Cell
  BY PlacesAssumption DEF Cell
<1>2. rows[c].version \in Nat /\ rows1[c].version \in Nat /\ t.ver[c] \in Nat
  BY <1>1 DEF Row
<1>. SUFFICES ASSUME NEW k \in DOMAIN t.lines, t.lines[k].line = o,
                     t.ver[c] = rows1[c].version
              PROVE  t.lines[k].qty + credited1 <= billed
  BY DEF CreditFits
<1>3. t.lines[k].qty \in Nat
  <2>1. t.lines[k] \in CreditLine
    OBVIOUS
  <2>. QED BY <2>1 DEF CreditLine
<1>. HIDE DEF c
<1>4. t.ver[c] = rows[c].version /\ credited1 <= credited
  BY <1>2 DEF c
<1>5. t.lines[k].qty + credited <= billed
  BY <1>4 DEF CreditFits, c
<1>. DEFINE q == t.lines[k].qty
<1>6. q \in Nat /\ q + credited <= billed
  BY <1>3, <1>5
<1>. HIDE DEF q
<1>7. q + credited1 <= billed
  BY <1>4, <1>6
<1>. QED BY <1>7 DEF q

\* Steps that begin no request for a credit note and credit nothing more.
LEMMA CreditKept ==
    ASSUME CreditInv, ReturnInv', DOMAIN inv \subseteq DOMAIN inv',
           \A i \in DOMAIN inv : /\ inv'[i].warehouse = inv[i].warehouse
                                 /\ inv'[i].lines = inv[i].lines,
           \A i \in DOMAIN inv, o \in Order : Credited(i, o)' <= Credited(i, o),
           \A i \in DOMAIN inv' \ DOMAIN inv, o \in Order : Credited(i, o)' = 0,
           \A c \in Cell : stock[c].version <= stock'[c].version,
           \A q \in Request : req'[q].op = "credit" => req'[q] = req[q]
    PROVE  CreditInv'
<1>0. /\ TypeInv /\ TypeInv'
      /\ stock \in [Cell -> Row] /\ stock' \in [Cell -> Row]
      /\ inv \in Seq(InvoiceRow) /\ inv' \in Seq(InvoiceRow)
  BY DEF CreditInv, ReturnInv, TypeInv, TypeOK
<1>1. ASSUME NEW i \in DOMAIN inv, NEW o \in Order
      PROVE  /\ Credited(i, o) \in Nat /\ Credited(i, o)' \in Nat
             /\ inv[i].lines[o] \in Nat
  BY <1>0, CreditedNat, CreditedNext, BilledNat
<1>2. ASSUME NEW i \in DOMAIN inv', NEW o \in Order
      PROVE  Credited(i, o)' <= inv'[i].lines[o]
  <2>1. CASE i \in DOMAIN inv
    BY <1>1, <2>1 DEF CreditInv, CreditBound
  <2>2. CASE i \notin DOMAIN inv
    <3>1. inv'[i].lines[o] \in Nat
      BY <1>0, BilledNat
    <3>. QED BY <2>2, <3>1
  <2>. QED BY <2>1, <2>2
<1>3. CreditBound'
  BY <1>2 DEF CreditBound
<1>4. ASSUME NEW q \in Request, req'[q].op = "credit"
      PROVE  /\ OneEach(req'[q].lines)
             /\ \A i \in DOMAIN inv', o \in Order : req'[q].invoice = i =>
                   CreditFits(req'[q], inv'[i].warehouse, o, inv'[i].lines[o],
                              Credited(i, o)', stock')
  <2>1. /\ req'[q] = req[q] /\ req[q].op = "credit" /\ OneEach(req[q].lines)
        /\ req[q].invoice \in DOMAIN inv
        /\ req[q].lines \in Seq(CreditLine) /\ req[q].ver \in [Cell -> Nat]
        /\ \A c \in Cell : req[q].ver[c] <= stock[c].version
    <3>1. req'[q] = req[q] /\ req[q].op = "credit"
      BY <1>4
    <3>. QED BY <1>0, <3>1, ActiveRequest DEF CreditInv, ReturnInv, RequestFits, Returns, TypeInv
  <2>2. ASSUME NEW i \in DOMAIN inv', NEW o \in Order, req'[q].invoice = i
        PROVE  CreditFits(req[q], inv[i].warehouse, o, inv[i].lines[o], Credited(i, o)', stock')
    <3>1. i \in DOMAIN inv /\ req[q].invoice = i
      BY <2>1, <2>2
    <3>2. CreditFits(req[q], inv[i].warehouse, o, inv[i].lines[o], Credited(i, o), stock)
      BY <2>1, <3>1 DEF CreditInv
    <3>3. /\ <<SkuOf[o], inv[i].warehouse>> \in Cell /\ inv[i].warehouse \in Warehouse
          /\ inv[i].lines[o] \in Nat
      BY <1>0, <3>1, BilledNat
    <3>4. /\ Credited(i, o)' \in Nat /\ Credited(i, o) \in Nat
          /\ Credited(i, o)' <= Credited(i, o)
      BY <1>1, <3>1
    <3>. QED BY <1>0, <2>1, <3>2, <3>3, <3>4, CreditFitsKept
  <2>3. \A i \in DOMAIN inv' : req'[q].invoice = i =>
            i \in DOMAIN inv /\ inv'[i].lines = inv[i].lines
            /\ inv'[i].warehouse = inv[i].warehouse
    BY <2>1
  <2>. QED BY <2>1, <2>2, <2>3
<1>. QED BY <1>3, <1>4 DEF CreditInv

\* Steps that write no notes: a new invoice has none.
LEMMA AsideCredits ==
    ASSUME CreditInv, ReturnInv', Aside
    PROVE  CreditInv'
<1>0. TypeInv /\ TypeInv' /\ UNCHANGED note
  BY DEF CreditInv, ReturnInv, Aside
<1>1. \A i \in DOMAIN inv, o \in Order : Credited(i, o)' <= Credited(i, o)
  <2>. SUFFICES ASSUME NEW i \in DOMAIN inv, NEW o \in Order
                PROVE  Credited(i, o)' <= Credited(i, o)
    OBVIOUS
  <2>1. Credited(i, o)' = Credited(i, o)
    BY <1>0 DEF Credited
  <2>2. Credited(i, o) \in Nat
    BY <1>0, CreditedNat
  <2>. QED BY <2>1, <2>2
<1>2. ASSUME NEW i \in DOMAIN inv' \ DOMAIN inv, NEW o \in Order
      PROVE  Credited(i, o)' = 0
  <2>. DEFINE f == [n \in DOMAIN note |-> CreditedBy(note[n], i, o)]
  <2>1. \A n \in DOMAIN note : f[n] = 0
    BY <1>0 DEF CreditedBy, TypeInv
  <2>2. Credited(i, o)' = SumFunctionOnSet(f, DOMAIN note)
    BY <1>0 DEF Credited
  <2>3. IsFiniteSet(DOMAIN note)
    BY <1>0, CreditedNat
  <2>. HIDE DEF f
  <2>. QED BY <2>1, <2>2, <2>3, SumOfZeros
<1>3. \A q \in Request : req'[q].op = "credit" => req'[q] = req[q]
  BY DEF Aside, Returns
<1>. QED BY <1>1, <1>2, <1>3, CreditKept DEF Aside

\* One note changes its status, and credits no more than before.
LEMMA StatusCredits ==
    ASSUME CreditInv, ReturnInv', NEW n \in DOMAIN note, DOMAIN note' = DOMAIN note,
           UNCHANGED inv,
           \A m \in DOMAIN note : /\ note'[m].invoice = note[m].invoice
                                  /\ note'[m].lines = note[m].lines
                                  /\ m # n => note'[m].status = note[m].status,
           note[n].status # "CANCELLED",
           \A c \in Cell : stock[c].version <= stock'[c].version,
           NEW r \in Request, Done(r)
    PROVE  CreditInv'
<1>0. TypeInv /\ TypeInv'
  BY DEF CreditInv, ReturnInv
<1>1. ASSUME NEW i \in DOMAIN inv, NEW o \in Order
      PROVE  Credited(i, o)' <= Credited(i, o)
  <2>1. Credited(i, o) \in Nat
    BY <1>0, CreditedNat
  <2>2. \A m \in DOMAIN note : m # n => CreditedBy(note'[m], i, o) = CreditedBy(note[m], i, o)
    BY DEF CreditedBy
  <2>3. CreditedBy(note[n], i, o) \in Nat
    BY <1>0, CreditedNat
  <2>4. CreditedBy(note'[n], i, o) \in {0, CreditedBy(note[n], i, o)}
    BY DEF CreditedBy
  <2>5. Credited(i, o)' = Credited(i, o)
                + (CreditedBy(note'[n], i, o) - CreditedBy(note[n], i, o))
    BY <1>0, <2>2, CreditedChanges
  <2>. QED BY <2>1, <2>3, <2>4, <2>5
<1>2. \A q \in Request : req'[q].op = "credit" => req'[q] = req[q]
  BY <1>0, DoneType DEF TypeInv
<1>. QED BY <1>1, <1>2, CreditKept

\* A request for a credit note begins: its lines fit what the other notes leave.
LEMMA CreditAsked ==
    ASSUME CreditInv, ReturnInv', \A ls \in Payloads : OneEach(ls),
           NEW r \in Request, NEW i \in DOMAIN inv, NEW lines \in Payloads,
           BeginCredit(r, i, lines)
    PROVE  CreditInv'
<1>. DEFINE t == [op |-> "credit", on |-> {<<"invoice", i>>}, invoice |-> i,
                  lines |-> lines, ver |-> Versions]
<1>0. /\ TypeInv /\ inv \in Seq(InvoiceRow)
      /\ lines \in Seq(CreditLine)
  BY PayloadsAssumption DEF CreditInv, ReturnInv, TypeInv, TypeOK
<1>1. /\ req' = [req EXCEPT ![r] = t]
      /\ UNCHANGED <<inv, note, stock>>
      /\ Creditable(i, lines)
  BY DEF BeginCredit, Begin
<1>2. t.invoice = i /\ t.lines = lines /\ OneEach(lines)
  OBVIOUS
<1>. HIDE DEF t
<1>3. \A q \in Request : req'[q] = IF q = r THEN t ELSE req[q]
  BY <1>0, <1>1 DEF TypeInv, TypeOK
<1>4. \A j \in DOMAIN inv, o \in Order : Credited(j, o)' = Credited(j, o)
  BY <1>1 DEF Credited
<1>5. ASSUME NEW o \in Order
      PROVE  CreditFits(t, inv[i].warehouse, o, inv[i].lines[o], Credited(i, o), stock)
  <2>1. Credited(i, o) \in Nat /\ inv[i].lines[o] \in Nat
    BY <1>0, CreditedNat, BilledNat
  <2>. SUFFICES ASSUME NEW k \in DOMAIN lines, lines[k].line = o
                PROVE  lines[k].qty + Credited(i, o) <= inv[i].lines[o]
    BY <1>2 DEF CreditFits
  <2>2. lines[k].qty <= inv[i].lines[o] - Credited(i, o)
    BY <1>1 DEF Creditable
  <2>3. lines[k].qty \in Nat
    <3>1. lines[k] \in CreditLine
      BY <1>0
    <3>. QED BY <3>1 DEF CreditLine
  <2>. DEFINE asked == lines[k].qty
              billed == inv[i].lines[o]
  <2>4. asked \in Nat /\ billed \in Nat /\ asked <= billed - Credited(i, o)
    BY <2>1, <2>2, <2>3
  <2>. HIDE DEF asked, billed
  <2>5. asked + Credited(i, o) <= billed
    BY <2>1, <2>4
  <2>. QED BY <2>5 DEF asked, billed
<1>6. CreditBound'
  BY <1>1, <1>4 DEF CreditInv, CreditBound
<1>7. ASSUME NEW q \in Request, req'[q].op = "credit"
      PROVE  /\ OneEach(req'[q].lines)
             /\ \A j \in DOMAIN inv', o \in Order : req'[q].invoice = j =>
                   CreditFits(req'[q], inv'[j].warehouse, o, inv'[j].lines[o],
                              Credited(j, o)', stock')
  <2>1. CASE q = r
    BY <1>1, <1>2, <1>3, <1>4, <1>5, <2>1
  <2>2. CASE q # r
    <3>1. req'[q] = req[q] /\ req[q].op = "credit"
      BY <1>3, <1>7, <2>2
    <3>2. /\ OneEach(req[q].lines)
          /\ \A j \in DOMAIN inv, o \in Order : req[q].invoice = j =>
                CreditFits(req[q], inv[j].warehouse, o, inv[j].lines[o],
                           Credited(j, o), stock)
      BY <3>1 DEF CreditInv
    <3>. QED BY <1>1, <1>4, <3>1, <3>2
  <2>. QED BY <2>1, <2>2
<1>. QED BY <1>6, <1>7 DEF CreditInv

\* A note that is written adds what it asks for, which still fitted; every
\* other request for the same line has a stock row that moved on.
LEMMA CreateCredits ==
    ASSUME CreditInv, ReturnInv', NEW r \in Request, CreateCreditNote(r)
    PROVE  CreditInv'
<1>. DEFINE t == req[r]
            w == inv[t.invoice].warehouse
<1>0. /\ TypeInv /\ TypeInv' /\ TypeOK /\ inv \in Seq(InvoiceRow)
      /\ stock \in [Cell -> Row] /\ stock' \in [Cell -> Row]
  BY DEF CreditInv, ReturnInv, TypeInv, TypeOK
<1>1. PICK new : new = Len(note')
  OBVIOUS
<1>2. /\ Done(r) /\ UNCHANGED inv
      /\ DOMAIN note' = DOMAIN note \cup {new} /\ new \notin DOMAIN note
      /\ \A n \in DOMAIN note : note'[n] = note[n]
      /\ note'[new] = [status |-> "DRAFT", invoice |-> t.invoice, lines |-> t.lines]
      /\ \A c \in Cell : stock'[c].version =
            IF LinesAt(w, t.lines, c) = {} THEN stock[c].version ELSE stock[c].version + 1
  BY <1>0, <1>1, CreateType
<1>3. /\ t.op = "credit" /\ t.lines \in Seq(CreditLine) /\ t.invoice \in DOMAIN inv
      /\ t.ver \in [Cell -> Nat] /\ OneEach(t.lines)
      /\ \A o \in Order : CreditFits(t, w, o, inv[t.invoice].lines[o],
                                     Credited(t.invoice, o), stock)
      /\ \A c \in Cell : LinesAt(w, t.lines, c) # {} => stock[c].version = t.ver[c]
  <2>1. t.op = "credit" /\ ReturnOK(w, t.lines, t.ver)
    BY DEF CreateCreditNote
  <2>2. /\ t.lines \in Seq(CreditLine) /\ t.ver \in [Cell -> Nat]
        /\ t.invoice \in DOMAIN inv
    BY <1>0, <2>1, ActiveRequest DEF TypeInv
  <2>3. OneEach(t.lines)
    BY <2>1 DEF CreditInv
  <2>4. \A o \in Order : CreditFits(t, w, o, inv[t.invoice].lines[o],
                                    Credited(t.invoice, o), stock)
    BY <2>1, <2>2 DEF CreditInv
  <2>. HIDE DEF t, w
  <2>5. \A c \in Cell : LinesAt(w, t.lines, c) # {} => stock[c].version = t.ver[c]
    BY <2>1 DEF ReturnOK, SalesReturnOK
  <2>. QED BY <2>1, <2>2, <2>3, <2>4, <2>5
<1>4. \A c \in Cell : stock[c].version \in Nat
  BY <1>0, VersionNat
<1>5. note'[new].status = "DRAFT" /\ note'[new].invoice = t.invoice
      /\ note'[new].lines = t.lines
  BY <1>2
<1>6. /\ req'[r].op = "idle"
      /\ \A q \in Request : q # r => req'[q] = req[q]
  BY <1>0, <1>2, DoneType
<1>. HIDE DEF t, w
<1>7. \A i \in DOMAIN inv, o \in Order :
         /\ Credited(i, o) \in Nat /\ Credited(i, o)' \in Nat
         /\ inv[i].lines[o] \in Nat
         /\ inv[i].warehouse \in Warehouse
         /\ <<SkuOf[o], inv[i].warehouse>> \in Cell
         /\ QtyOf(t.lines, o) \in Nat
  BY <1>0, <1>3, CreditedNat, CreditedNext, BilledNat, TotalsNat
<1>8. ASSUME NEW i \in DOMAIN inv, NEW o \in Order
      PROVE  IF i = t.invoice THEN Credited(i, o)' = Credited(i, o) + QtyOf(t.lines, o)
                              ELSE Credited(i, o)' = Credited(i, o)
  <2>1. Credited(i, o)' = Credited(i, o) + CreditedBy(note'[new], i, o)
    BY <1>0, <1>2, CreditedGrows
  <2>2. CreditedBy(note'[new], i, o) = IF i = t.invoice THEN QtyOf(t.lines, o) ELSE 0
    BY <1>5 DEF CreditedBy
  <2>3. Credited(i, o) \in Nat /\ QtyOf(t.lines, o) \in Nat
    BY <1>7
  <2>. QED BY <2>1, <2>2, <2>3
\* A line of the note: its stock row was as read and has moved on.
<1>9. ASSUME NEW o \in Order, QtyOf(t.lines, o) # 0
      PROVE  /\ stock'[<<SkuOf[o], w>>].version = stock[<<SkuOf[o], w>>].version + 1
             /\ QtyOf(t.lines, o) + Credited(t.invoice, o) <= inv[t.invoice].lines[o]
  <2>1. PICK k \in DOMAIN t.lines : t.lines[k].line = o /\ QtyOf(t.lines, o) = t.lines[k].qty
    BY <1>3, <1>9, QtyOfOne
  <2>2. k \in LinesAt(w, t.lines, <<SkuOf[o], w>>)
    BY <2>1 DEF LinesAt
  <2>3. <<SkuOf[o], w>> \in Cell
    BY <1>3, <1>7 DEF w
  <2>4. stock[<<SkuOf[o], w>>].version = t.ver[<<SkuOf[o], w>>]
    BY <1>3, <2>2, <2>3
  <2>5. QtyOf(t.lines, o) + Credited(t.invoice, o) <= inv[t.invoice].lines[o]
    BY <1>3, <2>1, <2>4 DEF CreditFits
  <2>. QED BY <1>2, <2>2, <2>3, <2>5
<1>10. ASSUME NEW i \in DOMAIN inv, NEW o \in Order
       PROVE  Credited(i, o)' <= inv[i].lines[o]
  <2>1. Credited(i, o) <= inv[i].lines[o]
    BY DEF CreditInv, CreditBound
  <2>2. CASE i = t.invoice /\ QtyOf(t.lines, o) # 0
    <3>1. QtyOf(t.lines, o) + Credited(i, o) <= inv[i].lines[o]
      BY <1>9, <2>2
    <3>2. Credited(i, o)' = Credited(i, o) + QtyOf(t.lines, o)
      BY <1>8, <2>2
    <3>3. Credited(i, o) \in Nat /\ QtyOf(t.lines, o) \in Nat
      BY <1>7
    <3>. QED BY <3>1, <3>2, <3>3
  <2>3. CASE i # t.invoice \/ QtyOf(t.lines, o) = 0
    <3>1. Credited(i, o)' = Credited(i, o)
      <4>1. Credited(i, o) \in Nat
        BY <1>7
      <4>. QED BY <1>8, <2>3, <4>1
    <3>. QED BY <2>1, <3>1
  <2>. QED BY <2>2, <2>3
<1>11. CreditBound'
  BY <1>2, <1>10 DEF CreditBound
<1>12. ASSUME NEW q \in Request, req'[q].op = "credit"
       PROVE  /\ OneEach(req'[q].lines)
              /\ \A i \in DOMAIN inv', o \in Order : req'[q].invoice = i =>
                    CreditFits(req'[q], inv'[i].warehouse, o, inv'[i].lines[o],
                               Credited(i, o)', stock')
  <2>1. /\ req'[q] = req[q] /\ req[q].op = "credit" /\ OneEach(req[q].lines)
        /\ req[q].lines \in Seq(CreditLine) /\ req[q].ver \in [Cell -> Nat]
        /\ \A c \in Cell : req[q].ver[c] <= stock[c].version
    <3>1. req'[q] = req[q] /\ req[q].op = "credit"
      BY <1>6, <1>12
    <3>. QED BY <1>0, <3>1, ActiveRequest DEF CreditInv, ReturnInv, RequestFits, Returns
  <2>2. ASSUME NEW i \in DOMAIN inv, NEW o \in Order, req[q].invoice = i
        PROVE  CreditFits(req[q], inv[i].warehouse, o, inv[i].lines[o], Credited(i, o)', stock')
    <3>. DEFINE c == <<SkuOf[o], inv[i].warehouse>>
    <3>1. CreditFits(req[q], inv[i].warehouse, o, inv[i].lines[o], Credited(i, o), stock)
      BY <2>1, <2>2 DEF CreditInv
    <3>2. c \in Cell
      BY <1>7
    <3>3. \/ Credited(i, o)' <= Credited(i, o) /\ stock[c].version <= stock'[c].version
          \/ stock[c].version < stock'[c].version
      <4>1. CASE i = t.invoice /\ QtyOf(t.lines, o) # 0
        <5>1. c = <<SkuOf[o], w>>
          BY <4>1 DEF w
        <5>. QED BY <1>4, <1>9, <3>2, <4>1, <5>1
      <4>2. CASE i # t.invoice \/ QtyOf(t.lines, o) = 0
        <5>1. Credited(i, o)' <= Credited(i, o)
          <6>1. Credited(i, o) \in Nat
            BY <1>7
          <6>2. Credited(i, o)' = Credited(i, o)
            BY <1>8, <4>2, <6>1
          <6>. QED BY <6>1, <6>2
        <5>2. stock[c].version <= stock'[c].version
          BY <1>2, <1>4, <3>2
        <5>. QED BY <5>1, <5>2
      <4>. QED BY <4>1, <4>2
    <3>4. req[q].ver[c] <= stock[c].version
      BY <2>1, <3>2
    <3>. QED BY <1>0, <1>7, <2>1, <3>1, <3>3, <3>4, CreditFitsKept
  <2>. QED BY <1>2, <2>1, <2>2
<1>. QED BY <1>11, <1>12 DEF CreditInv

LEMMA CreditNext ==
    /\ "submit" \notin Overlap
    /\ \A lines \in Payloads : OneEach(lines)
    /\ CreditInv
    /\ [Next]_vars
    => CreditInv'
<1>. SUFFICES ASSUME "submit" \notin Overlap, \A lines \in Payloads : OneEach(lines),
                     CreditInv, [Next]_vars
              PROVE  CreditInv'
  OBVIOUS
<1>0. TypeInv /\ ReturnInv /\ ReturnInv'
  BY ReturnNext DEF CreditInv, ReturnInv
<1>1. CASE Aside
  BY <1>0, <1>1, AsideCredits
<1>2. ASSUME NEW r \in Request, NEW i \in DOMAIN inv, NEW lines \in Payloads,
             BeginCredit(r, i, lines)
      PROVE  CreditInv'
  BY <1>0, <1>2, CreditAsked
<1>3. ASSUME NEW r \in Request, NEW n \in DOMAIN note, NEW op \in {"submit", "cancel"},
             BeginNote(r, op, n)
      PROVE  CreditInv'
  <2>. DEFINE t == [op |-> op, on |-> {<<"note", n>>}, note |-> n, ver |-> Versions]
  <2>1. req' = [req EXCEPT ![r] = t] /\ UNCHANGED <<inv, note, stock>>
    BY <1>3 DEF BeginNote, Begin
  <2>2. t.op # "credit"
    OBVIOUS
  <2>. HIDE DEF t
  <2>3. \A q \in Request : req'[q].op = "credit" => req'[q] = req[q]
    BY <1>0, <2>1, <2>2 DEF TypeInv, TypeOK
  <2>4. \A i \in DOMAIN inv, o \in Order : Credited(i, o)' <= Credited(i, o)
    <3>1. \A i \in DOMAIN inv, o \in Order : Credited(i, o)' = Credited(i, o)
      BY <2>1 DEF Credited
    <3>2. \A i \in DOMAIN inv, o \in Order : Credited(i, o) \in Nat
      BY <1>0, CreditedNat
    <3>. QED BY <3>1, <3>2
  <2>5. \A c \in Cell : stock[c].version <= stock'[c].version
    BY <1>0, <2>1, VersionNat DEF TypeInv
  <2>. QED BY <1>0, <2>1, <2>3, <2>4, <2>5, CreditKept
<1>4. ASSUME NEW r \in Request, CreateCreditNote(r) PROVE CreditInv'
  BY <1>0, <1>4, CreateCredits
<1>5. ASSUME NEW r \in Request, SubmitCreditNote(r) PROVE CreditInv'
  <2>. DEFINE n == req[r].note
  <2>1. req[r].op = "submit" /\ n \in DOMAIN note
    BY <1>0, <1>5 DEF SubmitCreditNote, TypeInv
  <2>2. note[n].status = "DRAFT"
    BY <1>0, <2>1 DEF ReturnInv, RequestFits, NoteFits, OnNote
  <2>3. \A c \in Cell : stock[c].version <= stock'[c].version
    BY <1>0, <1>5, VersionNat DEF SubmitCreditNote, TypeInv
  <2>4. /\ DOMAIN note' = DOMAIN note /\ UNCHANGED inv /\ Done(r)
        /\ \A m \in DOMAIN note : /\ note'[m].invoice = note[m].invoice
                                  /\ note'[m].lines = note[m].lines
                                  /\ m # n => note'[m].status = note[m].status
    BY <1>0, <1>5, SubmitType
  <2>. HIDE DEF n
  <2>. QED BY <1>0, <2>1, <2>2, <2>3, <2>4, StatusCredits
<1>6. ASSUME NEW r \in Request, CancelCreditNote(r) PROVE CreditInv'
  <2>. DEFINE n == req[r].note
              lines == note[n].lines
              w == PlaceOf(n)
  <2>1. req[r].op = "cancel" /\ n \in DOMAIN note
    BY <1>0, <1>6 DEF CancelCreditNote, TypeInv
  <2>2. /\ DOMAIN note' = DOMAIN note /\ UNCHANGED inv /\ Done(r)
        /\ \A m \in DOMAIN note : /\ note'[m].invoice = note[m].invoice
                                  /\ note'[m].lines = note[m].lines
                                  /\ m # n => note'[m].status = note[m].status
        /\ \A c \in Cell : stock'[c].version =
              IF LinesAt(w, lines, c) = {} THEN stock[c].version ELSE stock[c].version + 1
    BY <1>0, <1>6, CancelType
  <2>3. \A c \in Cell : LinesAt(w, lines, c) # {} => stock[c].version = req[r].ver[c]
    BY <1>6 DEF CancelCreditNote, UndoOK, SalesReturnReverseOK
  <2>4. \A c \in Cell : stock[c].version \in Nat
    BY <1>0, VersionNat DEF TypeInv
  <2>5. note[n].status # "CANCELLED"
    <3>1. NoteFits(req[r], note[n], w, stock)
      BY <1>0, <2>1 DEF ReturnInv, RequestFits, OnNote
    <3>2. \A c \in Cell : LinesAt(w, lines, c) # {} => ~(req[r].ver[c] < stock[c].version)
      BY <2>3, <2>4
    <3>. QED BY <3>1, <3>2 DEF NoteFits
  <2>. HIDE DEF n, lines, w
  <2>6. \A c \in Cell : stock[c].version <= stock'[c].version
    BY <2>2, <2>4
  <2>. QED BY <1>0, <2>1, <2>2, <2>5, <2>6, StatusCredits
<1>. QED BY <1>0, <1>1, <1>2, <1>3, <1>4, <1>5, <1>6, NextReturns

\* If a request names an invoice line at most once, and a note is submitted
\* while nobody else works on it, the notes of an invoice line never credit
\* more than it bills, although the sum is checked on a snapshot and any number
\* of notes for one invoice may be on their way at once.
THEOREM CreditsAreBounded ==
    ASSUME "submit" \notin Overlap,
           \A lines \in Payloads : OneEach(lines)
    PROVE  Spec => []CreditBound
<1>1. CreditInv /\ [Next]_vars => CreditInv'
  BY CreditNext
<1>2. CreditInv => CreditBound
  BY DEF CreditInv
<1>. QED BY <1>1, <1>2, CreditInit, PTL DEF Spec
=============================================================================
