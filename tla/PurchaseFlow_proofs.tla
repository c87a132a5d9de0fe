------------------------ MODULE PurchaseFlow_proofs -------------------------
(***************************************************************************)
(* Proofs about PurchaseFlow, for any number of orders, SKUs, warehouses,  *)
(* requests and quantities and any tolerance.  The bounds MaxReceipt and   *)
(* MaxEdits play no part in them.                                          *)
(***************************************************************************)
EXTENDS PurchaseFlow, StockRow_proofs, TLAPS

\* The quantity asked of a row is a quantity.
LEMMA QtyAtNat ==
    ASSUME NEW w \in Warehouse, NEW lines \in [Sku -> Nat], NEW c \in Cell
    PROVE  QtyAt(w, lines, c) \in Nat
  BY DEF QtyAt, Cell

LEMMA NoLinesType == NoLines \in [Sku -> Nat]
  BY DEF NoLines

\* A payload other than the empty one has a line.
LEMMA SomeLine ==
    ASSUME NEW lines \in [Sku -> Nat], lines # NoLines
    PROVE  \E s \in Sku : lines[s] > 0
<1>1. \E s \in Sku : lines[s] # 0
  BY DEF NoLines
<1>. QED BY <1>1

\* A request that does anything carries an order, a snapshot and a payload.
LEMMA ActiveRequest ==
    ASSUME TypeOK, NEW r \in Request, req[r].op # "idle"
    PROVE  /\ req[r] \in InFlight /\ req[r] # Idle
           /\ req[r].order \in Order /\ po[req[r].order] \in OrderRow
           /\ req[r].row \in OrderRow /\ req[r].lines \in [Sku -> Nat]
           /\ req[r].ver \in [Cell -> Nat] /\ req[r].wh \in Warehouse
<1>1. req[r] \in InFlight /\ req[r] # Idle
  BY DEF TypeOK, Idle
<1>. QED BY <1>1 DEF TypeOK, InFlight

\* A request that ends leaves the other requests as they were.
LEMMA DoneReq ==
    ASSUME TypeOK, NEW r \in Request, Done(r)
    PROVE  /\ req' \in [Request -> InFlight \cup {Idle}]
           /\ req'[r] = Idle /\ \A q \in Request \ {r} : req'[q] = req[q]
  BY DEF Done, TypeOK

-----------------------------------------------------------------------------
(* Steps *)

\* The disjuncts of Next, with what every Begin... checked on the order it read.
Began(r, o, op, lines, w) ==
    /\ Begin(r, op, o, lines, w)
    /\ op \in {"confirm", "edit"} => po[o].status = "DRAFT"
    /\ op = "cancel" => po[o].status \in {"DRAFT", "CONFIRMED"}
    /\ op = "edit" => (~EditWarehouse => w = po[o].wh)
    /\ op = "receive" =>
          /\ po[o].status \in Receivable
          /\ lines # NoLines
          /\ \A s \in Sku : lines[s] > 0 => WithinTolerance(po[o], s, lines[s])

Reading ==
    \E r \in Request, o \in Order, op \in {"confirm", "cancel", "edit", "receive"},
       lines \in [Sku -> Nat], w \in Warehouse : Began(r, o, op, lines, w)

\* The shape of a step: the four Begin... actions are one.
LEMMA NextCases ==
    ASSUME TypeOK, [Next]_vars
    PROVE  \/ UNCHANGED vars
           \/ \E o \in Order : CreatePO(o)
           \/ Reading
           \/ \E r \in Request : \/ ConfirmPO(r)
                                 \/ CancelPO(r)
                                 \/ UpdatePO(r)
                                 \/ CreateGR(r)
                                 \/ Rollback(r)
<1>1. \A o \in Order : po[o].wh \in Warehouse
  BY DEF TypeOK, OrderRow
<1>2. ASSUME NEW r \in Request, NEW o \in Order, BeginConfirm(r, o)
      PROVE  Began(r, o, "confirm", NoLines, po[o].wh)
  BY <1>2 DEF BeginConfirm, Began
<1>3. ASSUME NEW r \in Request, NEW o \in Order, NEW privileged \in BOOLEAN,
             BeginCancel(r, o, privileged)
      PROVE  Began(r, o, "cancel", NoLines, po[o].wh)
  BY <1>3 DEF BeginCancel, Began
<1>4. ASSUME NEW r \in Request, NEW o \in Order, NEW lines, NEW w,
             BeginUpdate(r, o, lines, w)
      PROVE  Began(r, o, "edit", lines, w)
  BY <1>4 DEF BeginUpdate, Began
<1>5. ASSUME NEW r \in Request, NEW o \in Order, NEW lines, BeginGR(r, o, lines)
      PROVE  Began(r, o, "receive", lines, po[o].wh)
  BY <1>5 DEF BeginGR, Began, Receivable
<1>6. /\ Baskets \cup {NoLines} \subseteq [Sku -> Nat]
      /\ [Sku -> 0 .. MaxReceipt] \subseteq [Sku -> Nat]
  BY BasketsAssumption, BoundsAssumption, NoLinesType
<1>7. ASSUME NEW r \in Request, NEW o \in Order,
             \/ BeginConfirm(r, o)
             \/ \E privileged \in BOOLEAN : BeginCancel(r, o, privileged)
             \/ \E lines \in Baskets \cup {NoLines}, w \in Warehouse :
                    BeginUpdate(r, o, lines, w)
             \/ \E lines \in [Sku -> 0 .. MaxReceipt] : BeginGR(r, o, lines)
      PROVE  Reading
  <2>1. CASE BeginConfirm(r, o)
    BY <1>1, <1>2, <2>1, NoLinesType DEF Reading
  <2>2. ASSUME NEW privileged \in BOOLEAN, BeginCancel(r, o, privileged)
        PROVE  Reading
    BY <1>1, <1>3, <2>2, NoLinesType DEF Reading
  <2>3. ASSUME NEW lines \in Baskets \cup {NoLines}, NEW w \in Warehouse,
               BeginUpdate(r, o, lines, w)
        PROVE  Reading
    BY <1>4, <1>6, <2>3 DEF Reading
  <2>4. ASSUME NEW lines \in [Sku -> 0 .. MaxReceipt], BeginGR(r, o, lines)
        PROVE  Reading
    BY <1>1, <1>5, <1>6, <2>4 DEF Reading
  <2>. QED BY <1>7, <2>1, <2>2, <2>3, <2>4
<1>. QED BY <1>7, Zenon DEF Next

-----------------------------------------------------------------------------
(* What any step does to the stock rows *)

\* One statement of the purchase side, on the row as it is.
PurchaseStep(s, n) ==
    \/ \E d \in Int : n = AdjustIncoming(s, d)
    \/ \E q \in Nat : n = PurchaseIn(s, q)

LEMMA PurchaseStepRow ==
    ASSUME NEW s \in Row, NEW n, PurchaseStep(s, n)
    PROVE  n \in Row /\ s.version \in Nat /\ n.version \in {s.version, s.version + 1}
<1>1. CASE \E d \in Int : n = AdjustIncoming(s, d)
  BY <1>1, AdjustIncomingRow DEF Row
<1>2. CASE \E q \in Nat : n = PurchaseIn(s, q)
  BY <1>2, PurchaseInRow DEF Row
<1>. QED BY <1>1, <1>2 DEF PurchaseStep

\* The rows of a goods receipt: those with a quantity had the version that was
\* read and have a new one, the others are left alone.
LEMMA ReceiptRows ==
    ASSUME TypeOK, NEW r \in Request, CreateGR(r)
    PROVE  /\ stock' = [c \in Cell |-> stock'[c]]
           /\ \A c \in Cell :
                LET q == QtyAt(req[r].row.wh, req[r].lines, c)
                IN  /\ q \in Nat
                    /\ q > 0 => /\ stock'[c] = PurchaseIn(stock[c], q)
                                /\ req[r].ver[c] = stock[c].version
                                /\ stock'[c].version = stock[c].version + 1
                    /\ q = 0 => stock'[c] = stock[c]
<1>. DEFINE t == req[r]
            Q(c) == QtyAt(t.row.wh, t.lines, c)
<1>1. t.lines \in [Sku -> Nat] /\ t.row.wh \in Warehouse
  BY ActiveRequest DEF CreateGR, OrderRow
<1>2. \A c \in Cell : Q(c) \in Nat /\ stock[c] \in Row
  BY <1>1, QtyAtNat DEF TypeOK
<1>3. /\ stock' = [c \in Cell |-> IF Q(c) > 0 THEN PurchaseIn(stock[c], Q(c)) ELSE stock[c]]
      /\ \A c \in Cell : Q(c) > 0 => stock[c].version = t.ver[c]
  BY DEF CreateGR, PurchaseInOK
<1>. HIDE DEF Q
<1>4. \A c \in Cell : PurchaseIn(stock[c], Q(c)).version = stock[c].version + 1
  BY <1>2, PurchaseInRow
<1>5. \A c \in Cell : /\ Q(c) \in Nat
                      /\ Q(c) > 0 => /\ stock'[c] = PurchaseIn(stock[c], Q(c))
                                     /\ t.ver[c] = stock[c].version
                                     /\ stock'[c].version = stock[c].version + 1
                      /\ Q(c) = 0 => stock'[c] = stock[c]
  BY <1>2, <1>3, <1>4
<1>. QED BY <1>3, <1>5 DEF Q

\* Every commit changes each row by at most one such statement, however old
\* the snapshot is on which the request rests.
LEMMA StockMoves ==
    ASSUME TypeOK, [Next]_vars
    PROVE  /\ stock' = [c \in Cell |-> stock'[c]]
           /\ \A c \in Cell : stock'[c] = stock[c] \/ PurchaseStep(stock[c], stock'[c])
<1>. DEFINE Moves == /\ stock' = [c \in Cell |-> stock'[c]]
                     /\ \A c \in Cell : \/ stock'[c] = stock[c]
                                        \/ PurchaseStep(stock[c], stock'[c])
<1>1. ASSUME UNCHANGED stock PROVE Moves
  BY <1>1 DEF TypeOK
<1>2. ASSUME NEW r \in Request, NEW sign \in {1, -1}, req[r].op # "idle",
             AdjustAll(req[r].row, sign)
      PROVE  Moves
  <2>. DEFINE row == req[r].row
              d(c) == sign * QtyAt(row.wh, row.ordered, c)
  <2>1. row.wh \in Warehouse /\ row.ordered \in [Sku -> Nat]
    BY <1>2, ActiveRequest DEF OrderRow
  <2>2. \A c \in Cell : QtyAt(row.wh, row.ordered, c) \in Nat
    BY <2>1, QtyAtNat
  <2>3. \A c \in Cell : d(c) \in Int
    BY <2>2
  <2>4. stock' = [c \in Cell |-> AdjustIncoming(stock[c], d(c))]
    BY <1>2 DEF AdjustAll
  <2>. HIDE DEF d
  <2>. QED BY <2>3, <2>4 DEF PurchaseStep
<1>3. ASSUME NEW r \in Request, CreateGR(r) PROVE Moves
  <2>1. \A c \in Cell : \/ stock'[c] = stock[c]
                        \/ \E q \in Nat : stock'[c] = PurchaseIn(stock[c], q)
    BY <1>3, ReceiptRows
  <2>. QED BY <1>3, <2>1, ReceiptRows DEF PurchaseStep
<1>4. ASSUME \/ UNCHANGED vars
             \/ \E o \in Order : CreatePO(o)
             \/ Reading
             \/ \E r \in Request : UpdatePO(r) \/ Rollback(r)
      PROVE  UNCHANGED stock
  BY ZenonT(40), <1>4 DEF vars, CreatePO, Reading, Began, Begin, UpdatePO, Rollback
<1>5. ASSUME NEW r \in Request, ConfirmPO(r) PROVE Moves
  BY <1>2, <1>5 DEF ConfirmPO
<1>6. ASSUME NEW r \in Request, CancelPO(r) PROVE Moves
  BY <1>1, <1>2, <1>6 DEF CancelPO
<1>. HIDE DEF Moves
<1>7. Moves
  BY <1>1, <1>3, <1>4, <1>5, <1>6, NextCases
<1>. QED BY <1>7 DEF Moves

\* No step turns the clock of a row back.
LEMMA VersionsGrow ==
    ASSUME TypeOK, [Next]_vars
    PROVE  /\ stock \in [Cell -> Row] /\ stock' \in [Cell -> Row]
           /\ \A c \in Cell : stock[c].version <= stock'[c].version
<1>1. \A c \in Cell : stock[c] \in Row /\ stock[c].version \in Nat
  BY DEF TypeOK, Row
<1>2. \A c \in Cell : \/ stock'[c] = stock[c]
                      \/ /\ stock'[c] \in Row
                         /\ stock'[c].version \in {stock[c].version, stock[c].version + 1}
  BY <1>1, StockMoves, PurchaseStepRow
<1>. QED BY <1>1, <1>2, StockMoves DEF TypeOK

-----------------------------------------------------------------------------
(* Types *)

LEMMA InitType == Init => TypeOK
<1>. SUFFICES ASSUME Init PROVE TypeOK
  OBVIOUS
<1>1. EmptyRow \in Row
  BY DEF EmptyRow, Row
<1>2. po \in [Order -> OrderRow]
  BY NoLinesType DEF Init, OrderRow
<1>. QED BY <1>1, <1>2, NoLinesType DEF Init, TypeOK

\* A request starts with a well-formed snapshot.
LEMMA BeginReq ==
    ASSUME TypeOK, NEW r \in Request, NEW o \in Order,
           NEW op \in {"confirm", "cancel", "edit", "receive"},
           NEW lines \in [Sku -> Nat], NEW w \in Warehouse,
           Begin(r, op, o, lines, w)
    PROVE  /\ req' \in [Request -> InFlight \cup {Idle}]
           /\ req'[r] = [op |-> op, order |-> o, row |-> po[o],
                         ver |-> [c \in Cell |-> stock[c].version],
                         lines |-> lines, wh |-> w]
           /\ req'[r] \in InFlight
           /\ \A q \in Request \ {r} : req'[q] = req[q]
           /\ UNCHANGED <<stock, po, received>>
<1>1. [c \in Cell |-> stock[c].version] \in [Cell -> Nat]
  BY DEF TypeOK, Row
<1>2. po[o] \in OrderRow
  BY DEF TypeOK
<1>. DEFINE t == [op |-> op, order |-> o, row |-> po[o],
                  ver |-> [c \in Cell |-> stock[c].version],
                  lines |-> lines, wh |-> w]
<1>3. t \in InFlight
  BY <1>1, <1>2 DEF InFlight
<1>4. req' = [req EXCEPT ![r] = t] /\ UNCHANGED <<stock, po, received>>
  BY DEF Begin
<1>. HIDE DEF t
<1>5. /\ req' \in [Request -> InFlight \cup {Idle}]
      /\ req'[r] = t
      /\ \A q \in Request \ {r} : req'[q] = req[q]
  BY <1>3, <1>4 DEF TypeOK
<1>. QED BY <1>3, <1>4, <1>5 DEF t

\* What each operation leaves of the order it works on.
LEMMA StatusWritten ==
    ASSUME TypeOK, NEW o \in Order, NEW status \in Status,
           po' = [po EXCEPT ![o].status = status]
    PROVE  /\ po' \in [Order -> OrderRow]
           /\ \A p \in Order \ {o} : po'[p] = po[p]
           /\ po'[o] = [status |-> status, gen |-> po[o].gen, wh |-> po[o].wh,
                        ordered |-> po[o].ordered, arrived |-> po[o].arrived]
<1>1. po \in [Order -> OrderRow] /\ po[o] \in OrderRow
  BY DEF TypeOK
<1>2. [po[o] EXCEPT !.status = status]
        = [status |-> status, gen |-> po[o].gen, wh |-> po[o].wh,
           ordered |-> po[o].ordered, arrived |-> po[o].arrived]
  BY <1>1 DEF OrderRow
<1>3. [po[o] EXCEPT !.status = status] \in OrderRow
  BY <1>1, <1>2 DEF OrderRow
<1>. QED BY <1>1, <1>2, <1>3

LEMMA UpdateWritten ==
    ASSUME TypeOK, NEW r \in Request, UpdatePO(r)
    PROVE  LET t == req[r]
               o == t.order
           IN  /\ po' \in [Order -> OrderRow]
               /\ \A p \in Order \ {o} : po'[p] = po[p]
               /\ po'[o] = [status  |-> po[o].status,
                            gen     |-> IF t.lines = NoLines THEN po[o].gen
                                        ELSE po[o].gen + 1,
                            wh      |-> IF t.wh = t.row.wh THEN po[o].wh ELSE t.wh,
                            ordered |-> IF t.lines = NoLines THEN po[o].ordered
                                        ELSE t.lines,
                            arrived |-> IF t.lines = NoLines THEN po[o].arrived
                                        ELSE NoLines]
<1>. DEFINE t == req[r]
            o == t.order
            n == [status  |-> po[o].status,
                  gen     |-> IF t.lines = NoLines THEN po[o].gen ELSE po[o].gen + 1,
                  wh      |-> IF t.wh = t.row.wh THEN po[o].wh ELSE t.wh,
                  ordered |-> IF t.lines = NoLines THEN po[o].ordered ELSE t.lines,
                  arrived |-> IF t.lines = NoLines THEN po[o].arrived ELSE NoLines]
<1>1. /\ o \in Order /\ po[o] \in OrderRow /\ t.lines \in [Sku -> Nat]
      /\ t.wh \in Warehouse
  BY ActiveRequest DEF UpdatePO
<1>2. n \in OrderRow
  BY <1>1, NoLinesType DEF OrderRow
<1>3. po' = [po EXCEPT ![o] = n]
  BY DEF UpdatePO
<1>. HIDE DEF n
<1>4. po' \in [Order -> OrderRow] /\ po'[o] = n /\ \A p \in Order \ {o} : po'[p] = po[p]
  BY <1>1, <1>2, <1>3 DEF TypeOK
<1>. QED BY <1>4 DEF n

StatusAfter(t, row) ==
    IF (IF FullyReceived(t) THEN "FULLY_RECEIVED" ELSE "PARTIAL_RECEIVED") # t.row.status
    THEN (IF FullyReceived(t) THEN "FULLY_RECEIVED" ELSE "PARTIAL_RECEIVED")
    ELSE row.status

LEMMA ReceiptWritten ==
    ASSUME TypeOK, NEW r \in Request, CreateGR(r)
    PROVE  LET t == req[r]
               o == t.order
           IN  /\ po' \in [Order -> OrderRow]
               /\ received' \in [Order -> [Sku -> Nat]]
               /\ \A p \in Order \ {o} : po'[p] = po[p] /\ received'[p] = received[p]
               /\ po'[o].status = StatusAfter(t, po[o])
               /\ po'[o].gen = po[o].gen /\ po'[o].wh = po[o].wh
               /\ po'[o].ordered = po[o].ordered
               /\ po'[o].arrived = [s \in Sku |-> IF t.lines[s] > 0
                                                  THEN t.row.arrived[s] + t.lines[s]
                                                  ELSE po[o].arrived[s]]
               /\ received'[o] = [s \in Sku |-> received[o][s] + t.lines[s]]
<1>. DEFINE t == req[r]
            o == t.order
            st == StatusAfter(t, po[o])
            arr == [s \in Sku |-> IF t.lines[s] > 0 THEN t.row.arrived[s] + t.lines[s]
                                  ELSE po[o].arrived[s]]
            got == [s \in Sku |-> received[o][s] + t.lines[s]]
<1>1. /\ o \in Order /\ po[o] \in OrderRow /\ t.lines \in [Sku -> Nat]
      /\ t.row \in OrderRow
  BY ActiveRequest DEF CreateGR
<1>2. st \in Status \cup {"NONE"} /\ arr \in [Sku -> Nat] /\ got \in [Sku -> Nat]
  <2>1. po[o].status \in Status \cup {"NONE"}
    BY <1>1 DEF OrderRow
  <2>2. st \in Status \cup {"NONE"}
    BY <2>1 DEF StatusAfter, Status
  <2>3. arr \in [Sku -> Nat]
    BY <1>1 DEF OrderRow
  <2>4. received[o] \in [Sku -> Nat]
    BY <1>1 DEF TypeOK
  <2>5. got \in [Sku -> Nat]
    BY <1>1, <2>4
  <2>. QED BY <2>2, <2>3, <2>5
<1>3. /\ po' = [po EXCEPT ![o] = [po[o] EXCEPT !.arrived = arr, !.status = st]]
      /\ received' = [received EXCEPT ![o] = got]
  BY DEF CreateGR, ArrivedAfter, StatusAfter
<1>. HIDE DEF st, arr, got
<1>. DEFINE n == [po[o] EXCEPT !.arrived = arr, !.status = st]
<1>4. /\ n \in OrderRow /\ n.status = st /\ n.arrived = arr
      /\ n.gen = po[o].gen /\ n.wh = po[o].wh /\ n.ordered = po[o].ordered
      /\ po' = [po EXCEPT ![o] = n]
  BY <1>1, <1>2, <1>3 DEF OrderRow
<1>. HIDE DEF n
<1>5. /\ po' \in [Order -> OrderRow]
      /\ received' \in [Order -> [Sku -> Nat]]
      /\ \A p \in Order \ {o} : po'[p] = po[p] /\ received'[p] = received[p]
      /\ po'[o] = n
      /\ received'[o] = got
  BY ZenonT(40), <1>1, <1>2, <1>3, <1>4 DEF TypeOK
<1>6. /\ po' \in [Order -> OrderRow]
      /\ received' \in [Order -> [Sku -> Nat]]
      /\ \A p \in Order \ {o} : po'[p] = po[p] /\ received'[p] = received[p]
      /\ po'[o].status = st /\ po'[o].gen = po[o].gen /\ po'[o].wh = po[o].wh
      /\ po'[o].ordered = po[o].ordered /\ po'[o].arrived = arr
      /\ received'[o] = got
  BY <1>4, <1>5
<1>. QED BY <1>6 DEF st, arr, got

LEMMA CreateWritten ==
    ASSUME TypeOK, NEW o \in Order, CreatePO(o)
    PROVE  /\ po' \in [Order -> OrderRow]
           /\ po[o].status = "NONE"
           /\ po'[o].status = "DRAFT" /\ po'[o].arrived = NoLines
           /\ po'[o].ordered \in [Sku -> Nat] /\ po'[o].ordered # NoLines
           /\ \A p \in Order \ {o} : po'[p] = po[p]
           /\ UNCHANGED <<stock, received, req>>
<1>1. PICK lines \in Baskets, w \in Warehouse :
         po' = [po EXCEPT ![o] = [status |-> "DRAFT", gen |-> 0, wh |-> w,
                                  ordered |-> lines, arrived |-> NoLines]]
  BY DEF CreatePO
<1>. DEFINE n == [status |-> "DRAFT", gen |-> 0, wh |-> w,
                  ordered |-> lines, arrived |-> NoLines]
<1>2. lines \in [Sku -> Nat] /\ lines # NoLines
  BY BasketsAssumption
<1>3. n \in OrderRow
  BY <1>2, NoLinesType DEF OrderRow, Status
<1>4. n.status = "DRAFT" /\ n.arrived = NoLines /\ n.ordered = lines
  OBVIOUS
<1>5. po' = [po EXCEPT ![o] = n]
  BY <1>1
<1>. HIDE DEF n
<1>6. po' \in [Order -> OrderRow] /\ po'[o] = n /\ \A p \in Order \ {o} : po'[p] = po[p]
  BY <1>3, <1>5 DEF TypeOK
<1>. QED BY <1>2, <1>4, <1>6 DEF CreatePO

LEMMA NextType == TypeOK /\ [Next]_vars => TypeOK'
<1>. SUFFICES ASSUME TypeOK, [Next]_vars PROVE TypeOK'
  OBVIOUS
<1>0. stock' \in [Cell -> Row]
  BY VersionsGrow
<1>1. CASE UNCHANGED vars
  BY <1>1 DEF vars, TypeOK
<1>2. ASSUME NEW o \in Order, CreatePO(o) PROVE TypeOK'
  BY <1>2, CreateWritten DEF TypeOK
<1>3. CASE Reading
  <2>1. PICK r \in Request, o \in Order, op \in {"confirm", "cancel", "edit", "receive"},
             lines \in [Sku -> Nat], w \in Warehouse : Began(r, o, op, lines, w)
    BY <1>3, Zenon DEF Reading
  <2>2. Begin(r, op, o, lines, w)
    BY <2>1 DEF Began
  <2>3. /\ req' \in [Request -> InFlight \cup {Idle}]
        /\ UNCHANGED <<stock, po, received>>
    BY <2>2, BeginReq
  <2>. QED BY <2>3 DEF TypeOK
<1>4. ASSUME NEW r \in Request, ConfirmPO(r) PROVE TypeOK'
  <2>1. req[r].order \in Order
    BY <1>4, ActiveRequest DEF ConfirmPO
  <2>2. po' \in [Order -> OrderRow]
    BY <1>4, <2>1, StatusWritten DEF ConfirmPO, Status
  <2>. QED BY <1>0, <1>4, <2>2, DoneReq DEF ConfirmPO, TypeOK
<1>5. ASSUME NEW r \in Request, CancelPO(r) PROVE TypeOK'
  <2>1. req[r].order \in Order
    BY <1>5, ActiveRequest DEF CancelPO
  <2>2. po' \in [Order -> OrderRow]
    BY <1>5, <2>1, StatusWritten DEF CancelPO, Status
  <2>. QED BY <1>0, <1>5, <2>2, DoneReq DEF CancelPO, TypeOK
<1>6. ASSUME NEW r \in Request, UpdatePO(r) PROVE TypeOK'
  BY <1>0, <1>6, UpdateWritten, DoneReq DEF UpdatePO, TypeOK
<1>7. ASSUME NEW r \in Request, CreateGR(r) PROVE TypeOK'
  BY <1>0, <1>7, ReceiptWritten, DoneReq DEF CreateGR, TypeOK
<1>8. ASSUME NEW r \in Request, Rollback(r) PROVE TypeOK'
  BY <1>8, DoneReq DEF Rollback, TypeOK
<1>. QED BY <1>1, <1>2, <1>3, <1>4, <1>5, <1>6, <1>7, <1>8, NextCases

\* However requests overlap, every table stays well-formed.
THEOREM TypeCorrect == Spec => []TypeOK
<1>1. TypeOK /\ [Next]_vars => TypeOK'
  BY NextType
<1>. QED BY <1>1, InitType, PTL DEF Spec

-----------------------------------------------------------------------------
(* The contract of the stock ledger *)

LEMMA PurchaseStepIsStatement ==
    ASSUME NEW s \in Row, NEW n, PurchaseStep(s, n)
    PROVE  Ledger!Statement(s, n)
<1>0. s.on_hand \in Nat /\ s.incoming \in Int
  BY DEF Row
<1>1. ASSUME NEW d \in Int, n = AdjustIncoming(s, d) PROVE Ledger!Statement(s, n)
  <2>1. n.incoming = s.incoming + d
    BY <1>1 DEF AdjustIncoming, Row
  <2>2. CASE d >= 0
    <3>1. d \in Ledger!Moved(s, n)
      BY <1>0, <2>1, <2>2 DEF Ledger!Moved, Ledger!Distance
    <3>2. n \in Ledger!After("buy", s, d)
      BY <1>1 DEF Ledger!After, Ledger!Buy, Ledger!AdjustIncoming, AdjustIncoming
    <3>. QED BY <3>1, <3>2 DEF Ledger!Statement
  <2>3. CASE d < 0
    <3>1. -d \in Ledger!Moved(s, n) /\ -(-d) = d
      BY <1>0, <2>1, <2>3 DEF Ledger!Moved, Ledger!Distance
    <3>2. n = Ledger!AdjustIncoming(s, -(-d))
      BY <1>1, <3>1 DEF Ledger!AdjustIncoming, AdjustIncoming
    <3>3. n \in Ledger!After("buy", s, -d)
      BY <3>2 DEF Ledger!After, Ledger!Buy
    <3>. QED BY <3>1, <3>3 DEF Ledger!Statement
  <2>. QED BY <2>2, <2>3
<1>2. ASSUME NEW q \in Nat, n = PurchaseIn(s, q) PROVE Ledger!Statement(s, n)
  <2>1. n.on_hand = s.on_hand + q
    BY <1>2 DEF PurchaseIn, Bump, Row
  <2>2. q \in Ledger!Moved(s, n)
    BY <1>0, <2>1 DEF Ledger!Moved, Ledger!Distance
  <2>3. n \in Ledger!After("buy", s, q)
    BY <1>2 DEF Ledger!After, Ledger!Buy, Ledger!PurchaseIn, Ledger!Bump, PurchaseIn, Bump
  <2>. QED BY <2>2, <2>3 DEF Ledger!Statement
<1>. QED BY <1>1, <1>2 DEF PurchaseStep

\* Seen from the stock rows alone, purchase orders and goods receipts do nothing
\* but what the ledger allows.
THEOREM PurchasesImplementLedger == Spec => KeepsLedger
<1>1. Init => Ledger!Init
  <2>1. [Ledger!EmptyRow EXCEPT !.on_hand = 0] = EmptyRow
    BY DEF EmptyRow, Ledger!EmptyRow
  <2>. QED BY <2>1 DEF Init, Ledger!Init
<1>2. TypeOK /\ [Next]_vars => [Ledger!Commit]_stock
  <2>. SUFFICES ASSUME TypeOK, [Next]_vars PROVE Ledger!Commit
    OBVIOUS
  <2>1. \A c \in Cell : stock[c] \in Row
    BY DEF TypeOK
  <2>2. \A c \in Cell : \/ stock'[c] = stock[c]
                        \/ Ledger!Statement(stock[c], stock'[c])
    BY <2>1, StockMoves, PurchaseStepIsStatement
  <2>. QED BY <2>2, StockMoves DEF Ledger!Commit
<1>. QED BY <1>1, <1>2, TypeCorrect, PTL DEF Spec, KeepsLedger, Ledger!Spec
-----------------------------------------------------------------------------
(* Receipts, when no draft edit can move an order to another warehouse while a
   goods receipt is being posted *)

\* Two requests on one order are of the kinds that may overlap.
Apart ==
    \A q, r \in Request :
        q # r /\ req[q] # Idle /\ req[r] # Idle /\ req[q].order = req[r].order =>
            req[q].op \in Overlap

LEMMA ApartNext ==
    ASSUME TypeOK, Apart, [Next]_vars
    PROVE  Apart'
<1>1. ASSUME UNCHANGED req PROVE Apart'
  BY <1>1 DEF Apart
<1>2. ASSUME NEW r \in Request, Done(r) PROVE Apart'
  BY <1>2, DoneReq DEF Apart
<1>3. CASE Reading
  <2>1. PICK r \in Request, o \in Order, op \in {"confirm", "cancel", "edit", "receive"},
             lines \in [Sku -> Nat], w \in Warehouse : Began(r, o, op, lines, w)
    BY <1>3, Zenon DEF Reading
  <2>2. Begin(r, op, o, lines, w)
    BY <2>1 DEF Began
  <2>3. /\ req'[r].op = op /\ req'[r].order = o
        /\ \A q \in Request \ {r} : req'[q] = req[q]
    <3>1. /\ req'[r] = [op |-> op, order |-> o, row |-> po[o],
                        ver |-> [c \in Cell |-> stock[c].version],
                        lines |-> lines, wh |-> w]
          /\ \A q \in Request \ {r} : req'[q] = req[q]
      BY <2>2, BeginReq
    <3>. QED BY <3>1
  <2>4. \A q \in Request : req[q] # Idle /\ req[q].order = o =>
                               op \in Overlap /\ req[q].op \in Overlap
    BY <2>2 DEF Begin
  <2>. QED BY <2>3, <2>4 DEF Apart
<1>4. ASSUME \/ UNCHANGED vars
             \/ \E o \in Order : CreatePO(o)
      PROVE  UNCHANGED req
  BY <1>4 DEF vars, CreatePO
<1>5. ASSUME NEW r \in Request, \/ ConfirmPO(r) \/ CancelPO(r) \/ UpdatePO(r)
                                \/ CreateGR(r) \/ Rollback(r)
      PROVE  Done(r)
  BY <1>5 DEF ConfirmPO, CancelPO, UpdatePO, CreateGR, Rollback
<1>. QED BY <1>1, <1>2, <1>3, <1>4, <1>5, NextCases

\* The tolerance granted on what remains never exceeds the one granted on all:
\* splitting a delivery gains nothing.
LEMMA SplitWithinTolerance ==
    ASSUME NEW ordered \in Nat, NEW got \in Nat, NEW qty \in Nat,
           got < ordered, qty <= MaxAllowed(ordered - got)
    PROVE  got + qty <= MaxAllowed(ordered)
<1>. DEFINE rest == ordered - got
            k == 100 + Tolerance
            P == 2 * rest * k
            R == 2 * ordered * k
<1>1. k \in Nat /\ k >= 100 /\ rest \in Nat
  BY ToleranceAssumption
<1>2. MaxAllowed(rest) = (P + 100) \div 200 /\ MaxAllowed(ordered) = (R + 100) \div 200
  BY DEF MaxAllowed
<1>3. R = P + 2 * got * k /\ P \in Nat /\ R \in Nat
  BY <1>1
<1>4. 2 * got * k >= 200 * got
  <2>1. got * (k - 100) >= 0
    BY <1>1
  <2>. QED BY <1>1, <2>1
<1>. HIDE DEF P, R, k
<1>5. 2 * got * k \in Int
  BY <1>1
<1>6. P + 200 * got <= R
  BY <1>3, <1>4, <1>5
<1>7. (P + 100) \div 200 + got <= (R + 100) \div 200
  BY <1>3, <1>6
<1>. QED BY <1>2, <1>3, <1>7

LEMMA MaxAllowedNat ==
    ASSUME NEW n \in Nat
    PROVE  MaxAllowed(n) \in Nat
<1>1. (2 * n * (100 + Tolerance) + 100) \in Nat
  BY ToleranceAssumption
<1>. QED BY <1>1 DEF MaxAllowed

\* What an order shows and what was posted for it agree.
OrderFits(row, got) ==
    /\ row.arrived = got
    /\ \A s \in Sku : got[s] <= MaxAllowed(row.ordered[s])
    /\ row.status = "NONE" => got = NoLines

\* A snapshot that still matches the version of the stock row also matches the
\* order line, so what create_gr writes over the line is its current quantity
\* plus the receipt.
SnapshotFits(t, row, rows) ==
    /\ row.status # "NONE"
    /\ \A c \in Cell : t.ver[c] <= rows[c].version
    /\ t.row.gen <= row.gen
    /\ t.row.gen = row.gen =>
          /\ t.row.wh = row.wh
          /\ t.row.ordered = row.ordered
          /\ \A s \in Sku :
                t.ver[<<row.wh, s>>] = rows[<<row.wh, s>>].version =>
                    t.row.arrived[s] = row.arrived[s]
    /\ t.op = "edit" => (~EditWarehouse => t.wh = t.row.wh)
    /\ t.op = "receive" =>
          \A s \in Sku : t.lines[s] > 0 => WithinTolerance(t.row, s, t.lines[s])

ReceiptInv ==
    /\ TypeOK
    /\ Apart
    /\ \A o \in Order : OrderFits(po[o], received[o])
    /\ \A r \in Request : req[r] # Idle =>
          SnapshotFits(req[r], po[req[r].order], stock)

\* What a committed step may do to an order on which others work: its lines are
\* replaced only under a new gen, it stays in its warehouse, and qty_received
\* changes only together with the version of the stock row it goes into.
Advances(old, new, rows, rows1) ==
    /\ new.status # "NONE"
    /\ old.gen <= new.gen
    /\ old.gen = new.gen =>
          /\ old.wh = new.wh
          /\ old.ordered = new.ordered
          /\ \A s \in Sku : old.arrived[s] # new.arrived[s] =>
                rows[<<old.wh, s>>].version < rows1[<<old.wh, s>>].version

\* A snapshot survives any such step.
LEMMA SnapshotKept ==
    ASSUME NEW t \in InFlight, NEW old \in OrderRow, NEW new \in OrderRow,
           NEW rows \in [Cell -> Row], NEW rows1 \in [Cell -> Row],
           \A c \in Cell : rows[c].version <= rows1[c].version,
           SnapshotFits(t, old, rows), Advances(old, new, rows, rows1)
    PROVE  SnapshotFits(t, new, rows1)
<1>1. /\ t.row.gen \in Nat /\ old.gen \in Nat /\ new.gen \in Nat
      /\ old.wh \in Warehouse /\ t.ver \in [Cell -> Nat]
  BY DEF InFlight, OrderRow
<1>2. \A c \in Cell : rows[c].version \in Nat /\ rows1[c].version \in Nat
  BY DEF Row
<1>3. \A c \in Cell : /\ t.ver[c] <= rows1[c].version
                      /\ t.ver[c] = rows1[c].version =>
                            rows[c].version = rows1[c].version /\ t.ver[c] = rows[c].version
  <2>1. \A c \in Cell : t.ver[c] \in Nat /\ t.ver[c] <= rows[c].version
    BY <1>1 DEF SnapshotFits
  <2>. QED BY <1>2, <2>1
<1>4. t.row.gen <= new.gen /\ new.status # "NONE"
  BY <1>1 DEF SnapshotFits, Advances
<1>5. ASSUME t.row.gen = new.gen
      PROVE  /\ t.row.wh = new.wh
             /\ t.row.ordered = new.ordered
             /\ \A s \in Sku :
                   t.ver[<<new.wh, s>>] = rows1[<<new.wh, s>>].version =>
                       t.row.arrived[s] = new.arrived[s]
  <2>1. t.row.gen = old.gen /\ old.gen = new.gen
    <3>. DEFINE a == t.row.gen
                b == old.gen
                c == new.gen
    <3>1. a \in Nat /\ b \in Nat /\ c \in Nat /\ a = c
      BY <1>1, <1>5
    <3>2. a <= b
      BY DEF SnapshotFits
    <3>3. b <= c
      BY DEF Advances
    <3>. HIDE DEF a, b, c
    <3>4. a = b /\ b = c
      BY <3>1, <3>2, <3>3
    <3>. QED BY <3>4 DEF a, b, c
  <2>2. /\ t.row.wh = old.wh /\ old.wh = new.wh
        /\ t.row.ordered = old.ordered /\ old.ordered = new.ordered
    BY <2>1 DEF SnapshotFits, Advances
  <2>3. ASSUME NEW s \in Sku, t.ver[<<old.wh, s>>] = rows1[<<old.wh, s>>].version
        PROVE  t.row.arrived[s] = new.arrived[s]
    <3>1. <<old.wh, s>> \in Cell
      BY <1>1 DEF Cell
    <3>2. /\ rows[<<old.wh, s>>].version = rows1[<<old.wh, s>>].version
          /\ t.ver[<<old.wh, s>>] = rows[<<old.wh, s>>].version
      BY <1>3, <2>3, <3>1
    <3>3. t.row.arrived[s] = old.arrived[s]
      BY <2>1, <3>2 DEF SnapshotFits
    <3>4. old.arrived[s] = new.arrived[s]
      BY <1>2, <2>1, <3>1, <3>2 DEF Advances
    <3>. QED BY <3>3, <3>4
  <2>. QED BY <2>2, <2>3
<1>. QED BY <1>3, <1>4, <1>5 DEF SnapshotFits

\* What is left to show of a step that works on one order and for one request.
LEMMA ReceiptStep ==
    ASSUME ReceiptInv, TypeOK', [Next]_vars, NEW r \in Request, NEW o \in Order,
           Apart',
           \A q \in Request \ {r} : req'[q] = req[q],
           req'[r] = Idle \/ SnapshotFits(req'[r], po'[req'[r].order], stock'),
           \A p \in Order \ {o} : po'[p] = po[p] /\ received'[p] = received[p],
           OrderFits(po'[o], received'[o]),
           \/ Advances(po[o], po'[o], stock, stock')
           \/ \A q \in Request \ {r} : req[q] # Idle => req[q].order # o
    PROVE  ReceiptInv'
<1>1. \A p \in Order : OrderFits(po'[p], received'[p])
  BY DEF ReceiptInv
<1>2. ASSUME NEW q \in Request, req'[q] # Idle
      PROVE  SnapshotFits(req'[q], po'[req'[q].order], stock')
  <2>1. CASE q = r
    BY <1>2, <2>1
  <2>2. CASE q # r
    <3>1. /\ req'[q] = req[q] /\ req[q] \in InFlight /\ req[q] # Idle
          /\ SnapshotFits(req[q], po[req[q].order], stock)
      BY <1>2, <2>2 DEF ReceiptInv, TypeOK
    <3>2. /\ req[q].order \in Order
          /\ po[req[q].order] \in OrderRow /\ po'[req[q].order] \in OrderRow
      BY <3>1 DEF InFlight, ReceiptInv, TypeOK
    <3>3. Advances(po[req[q].order], po'[req[q].order], stock, stock')
      <4>1. CASE req[q].order = o
        BY <2>2, <3>1, <4>1
      <4>2. CASE req[q].order # o
        <5>1. po'[req[q].order] = po[req[q].order]
          BY <3>2, <4>2
        <5>2. po[req[q].order].status # "NONE" /\ po[req[q].order].gen \in Nat
          BY <3>1, <3>2 DEF SnapshotFits, OrderRow
        <5>. QED BY <5>1, <5>2 DEF Advances
      <4>. QED BY <4>1, <4>2
    <3>. QED BY <3>1, <3>2, <3>3, SnapshotKept, VersionsGrow DEF ReceiptInv
  <2>. QED BY <2>1, <2>2
<1>. QED BY <1>1, <1>2 DEF ReceiptInv

LEMMA ReceiptInit == Init => ReceiptInv
<1>. SUFFICES ASSUME Init PROVE ReceiptInv
  OBVIOUS
<1>1. \A n \in Nat : MaxAllowed(n) >= 0
  BY MaxAllowedNat
<1>2. \A o \in Order : OrderFits(po[o], received[o])
  BY <1>1 DEF Init, OrderFits, NoLines
<1>. QED BY <1>2, InitType DEF Init, ReceiptInv, Apart

LEMMA ReceiptNext ==
    ASSUME ~EditWarehouse \/ Overlap \subseteq {"receive"}, ReceiptInv, [Next]_vars
    PROVE  ReceiptInv'
<1>0. TypeOK /\ TypeOK' /\ Apart'
  BY NextType, ApartNext DEF ReceiptInv
<1>1. ASSUME NEW r \in Request, NEW o \in Order, Done(r),
             \A p \in Order \ {o} : po'[p] = po[p],
             UNCHANGED received,
             /\ po'[o].gen = po[o].gen /\ po'[o].wh = po[o].wh
             /\ po'[o].ordered = po[o].ordered /\ po'[o].arrived = po[o].arrived
             /\ po[o].status # "NONE" /\ po'[o].status # "NONE"
      PROVE  ReceiptInv'
  <2>1. OrderFits(po'[o], received'[o])
    BY <1>1 DEF ReceiptInv, OrderFits
  <2>2. po[o].gen \in Nat
    BY <1>0 DEF TypeOK, OrderRow
  <2>3. Advances(po[o], po'[o], stock, stock')
    BY <1>1, <2>2 DEF Advances
  <2>. QED BY <1>0, <1>1, <2>1, <2>3, DoneReq, ReceiptStep
<1>2. CASE UNCHANGED vars
  <2>1. UNCHANGED <<stock, po, received, req>>
    BY <1>2 DEF vars
  <2>. QED BY <1>0, <2>1 DEF ReceiptInv
<1>3. ASSUME NEW o \in Order, CreatePO(o) PROVE ReceiptInv'
  <2>1. /\ po[o].status = "NONE" /\ po'[o].status = "DRAFT" /\ po'[o].arrived = NoLines
        /\ po'[o].ordered \in [Sku -> Nat]
        /\ \A p \in Order \ {o} : po'[p] = po[p]
        /\ UNCHANGED <<stock, received, req>>
    BY <1>0, <1>3, CreateWritten
  <2>2. received[o] = NoLines
    BY <2>1 DEF ReceiptInv, OrderFits
  <2>3. \A s \in Sku : NoLines[s] <= MaxAllowed(po'[o].ordered[s])
    BY <2>1, MaxAllowedNat DEF NoLines
  <2>4. OrderFits(po'[o], received'[o])
    BY <2>1, <2>2, <2>3 DEF OrderFits
  <2>5. \A p \in Order : OrderFits(po'[p], received'[p])
    BY <2>1, <2>4 DEF ReceiptInv
  <2>6. ASSUME NEW q \in Request, req'[q] # Idle
        PROVE  SnapshotFits(req'[q], po'[req'[q].order], stock')
    <3>1. req[q] # Idle /\ SnapshotFits(req[q], po[req[q].order], stock) /\ req[q] \in InFlight
      BY <1>0, <2>1, <2>6 DEF ReceiptInv, TypeOK
    <3>2. req[q].order \in Order \ {o}
      BY <2>1, <3>1 DEF SnapshotFits, InFlight
    <3>. QED BY <2>1, <3>1, <3>2
  <2>. QED BY <1>0, <2>5, <2>6 DEF ReceiptInv
<1>4. CASE Reading
  <2>1. PICK r \in Request, o \in Order, op \in {"confirm", "cancel", "edit", "receive"},
             lines \in [Sku -> Nat], w \in Warehouse : Began(r, o, op, lines, w)
    BY <1>4, Zenon DEF Reading
  <2>. DEFINE t == req'[r]
  <2>2. /\ t = [op |-> op, order |-> o, row |-> po[o],
                ver |-> [c \in Cell |-> stock[c].version],
                lines |-> lines, wh |-> w]
        /\ \A q \in Request \ {r} : req'[q] = req[q]
        /\ UNCHANGED <<stock, po, received>>
    BY <1>0, <2>1, BeginReq DEF Began
  <2>3. /\ op \in {"confirm", "edit"} => po[o].status = "DRAFT"
        /\ op = "cancel" => po[o].status \in {"DRAFT", "CONFIRMED"}
        /\ op = "edit" => (~EditWarehouse => w = po[o].wh)
        /\ op = "receive" =>
             /\ po[o].status \in Receivable
             /\ \A s \in Sku : lines[s] > 0 => WithinTolerance(po[o], s, lines[s])
    BY <2>1 DEF Began
  <2>4. po[o].gen \in Nat /\ \A c \in Cell : stock[c].version \in Nat
    BY <1>0 DEF TypeOK, OrderRow, Row
  <2>. HIDE DEF t
  <2>5. /\ t.op = op /\ t.order = o /\ t.row = po[o] /\ t.lines = lines /\ t.wh = w
        /\ \A c \in Cell : t.ver[c] = stock[c].version
    BY <2>2
  <2>6. po[o].status # "NONE"
    BY <2>3 DEF Receivable
  <2>7. SnapshotFits(t, po[o], stock)
    BY <2>3, <2>4, <2>5, <2>6 DEF SnapshotFits
  <2>8. SnapshotFits(req'[r], po'[req'[r].order], stock')
    BY <2>2, <2>5, <2>7 DEF t
  <2>9. Advances(po[o], po'[o], stock, stock') /\ OrderFits(po'[o], received'[o])
    BY <2>2, <2>4, <2>6 DEF Advances, ReceiptInv
  <2>. QED BY <1>0, <2>2, <2>8, <2>9, ReceiptStep
<1>5. ASSUME NEW r \in Request, ConfirmPO(r) \/ CancelPO(r) PROVE ReceiptInv'
  <2>1. req[r] \in InFlight /\ req[r] # Idle /\ req[r].order \in Order
    BY <1>0, <1>5, ActiveRequest DEF ConfirmPO, CancelPO
  <2>2. PICK status \in {"CONFIRMED", "CANCELLED"} :
            po' = [po EXCEPT ![req[r].order].status = status]
    BY <1>5 DEF ConfirmPO, CancelPO
  <2>3. UNCHANGED received /\ Done(r)
    BY <1>5 DEF ConfirmPO, CancelPO
  <2>4. po[req[r].order].status # "NONE"
    BY <2>1 DEF ReceiptInv, SnapshotFits
  <2>5. status \in Status
    BY DEF Status
  <2>6. /\ \A p \in Order \ {req[r].order} : po'[p] = po[p]
        /\ po'[req[r].order] = [status |-> status, gen |-> po[req[r].order].gen,
                                wh |-> po[req[r].order].wh,
                                ordered |-> po[req[r].order].ordered,
                                arrived |-> po[req[r].order].arrived]
    BY <1>0, <2>1, <2>2, <2>5, StatusWritten
  <2>. QED BY <1>1, <2>1, <2>3, <2>4, <2>6
<1>6. ASSUME NEW r \in Request, UpdatePO(r) PROVE ReceiptInv'
  <2>. DEFINE t == req[r]
              o == t.order
  <2>1. /\ t \in InFlight /\ t # Idle /\ o \in Order /\ t.op = "edit"
        /\ po[o] \in OrderRow /\ t.lines \in [Sku -> Nat]
        /\ SnapshotFits(t, po[o], stock) /\ OrderFits(po[o], received[o])
    BY <1>0, <1>6, ActiveRequest DEF UpdatePO, ReceiptInv
  <2>2. /\ UNCHANGED <<stock, received>> /\ Done(r)
        /\ t.lines # NoLines => received[o] = NoLines
    BY <1>6 DEF UpdatePO
  <2>3. /\ \A p \in Order \ {o} : po'[p] = po[p]
        /\ po'[o] = [status  |-> po[o].status,
                     gen     |-> IF t.lines = NoLines THEN po[o].gen ELSE po[o].gen + 1,
                     wh      |-> IF t.wh = t.row.wh THEN po[o].wh ELSE t.wh,
                     ordered |-> IF t.lines = NoLines THEN po[o].ordered ELSE t.lines,
                     arrived |-> IF t.lines = NoLines THEN po[o].arrived ELSE NoLines]
    BY <1>0, <1>6, UpdateWritten
  <2>4. po[o].status # "NONE" /\ (~EditWarehouse => t.wh = t.row.wh) /\ po[o].gen \in Nat
    BY <2>1 DEF SnapshotFits, OrderRow
  <2>. HIDE DEF t, o
  <2>5. OrderFits(po'[o], received'[o])
    <3>1. CASE t.lines = NoLines
      BY <2>1, <2>2, <2>3, <2>4, <3>1 DEF OrderFits
    <3>2. CASE t.lines # NoLines
      <4>1. \A s \in Sku : NoLines[s] <= MaxAllowed(t.lines[s])
        BY <2>1, MaxAllowedNat DEF NoLines
      <4>. QED BY <2>2, <2>3, <2>4, <3>2, <4>1 DEF OrderFits
    <3>. QED BY <3>1, <3>2
  <2>6. CASE ~EditWarehouse
    <3>1. Advances(po[o], po'[o], stock, stock')
      BY <2>3, <2>4, <2>6 DEF Advances
    <3>. QED BY <1>0, <2>1, <2>2, <2>3, <2>5, <3>1, DoneReq, ReceiptStep
  <2>7. CASE EditWarehouse
    <3>1. \A q \in Request \ {r} : req[q] # Idle => req[q].order # o
      BY <2>1, <2>7 DEF ReceiptInv, Apart, t, o
    <3>. QED BY <1>0, <2>1, <2>2, <2>3, <2>5, <3>1, DoneReq, ReceiptStep
  <2>. QED BY <2>6, <2>7, FlagAssumption
<1>7. ASSUME NEW r \in Request, CreateGR(r) PROVE ReceiptInv'
  <2>. DEFINE t == req[r]
              o == t.order
  <2>1. /\ t \in InFlight /\ t # Idle /\ o \in Order /\ t.op = "receive"
        /\ po[o] \in OrderRow /\ t.lines \in [Sku -> Nat] /\ t.row \in OrderRow
        /\ SnapshotFits(t, po[o], stock) /\ OrderFits(po[o], received[o])
        /\ received[o] \in [Sku -> Nat]
    BY <1>0, <1>7, ActiveRequest DEF CreateGR, ReceiptInv, TypeOK
  <2>2. po[o].gen = t.row.gen /\ Done(r)
    BY <1>7 DEF CreateGR
  <2>3. /\ t.row.wh = po[o].wh /\ t.row.ordered = po[o].ordered
        /\ po[o].wh \in Warehouse /\ po[o].status # "NONE"
        /\ po[o].gen \in Nat /\ po[o].arrived = received[o]
    BY <2>1, <2>2 DEF SnapshotFits, OrderFits, OrderRow
  <2>4. /\ \A p \in Order \ {o} : po'[p] = po[p] /\ received'[p] = received[p]
        /\ po'[o].status = StatusAfter(t, po[o])
        /\ po'[o].gen = po[o].gen /\ po'[o].wh = po[o].wh
        /\ po'[o].ordered = po[o].ordered
        /\ po'[o].arrived = [s \in Sku |-> IF t.lines[s] > 0
                                           THEN t.row.arrived[s] + t.lines[s]
                                           ELSE po[o].arrived[s]]
        /\ received'[o] = [s \in Sku |-> received[o][s] + t.lines[s]]
    BY <1>0, <1>7, ReceiptWritten
  <2>5. StatusAfter(t, po[o]) # "NONE"
    BY <2>3 DEF StatusAfter
  <2>6. ASSUME NEW s \in Sku, t.lines[s] > 0
        PROVE  /\ t.row.arrived[s] = received[o][s]
               /\ stock[<<po[o].wh, s>>].version < stock'[<<po[o].wh, s>>].version
    <3>. DEFINE c == <<po[o].wh, s>>
    <3>1. c \in Cell /\ QtyAt(t.row.wh, t.lines, c) = t.lines[s]
      BY <2>3 DEF Cell, QtyAt
    <3>2. t.ver[c] = stock[c].version /\ stock'[c].version = stock[c].version + 1
      BY <1>0, <1>7, <2>6, <3>1, ReceiptRows
    <3>3. stock[c].version \in Nat
      BY <1>0, <3>1 DEF TypeOK, Row
    <3>4. t.row.arrived[s] = po[o].arrived[s]
      BY <2>1, <2>2, <3>2 DEF SnapshotFits
    <3>. QED BY <2>3, <3>2, <3>3, <3>4
  <2>7. \A s \in Sku : (t.lines[s] > 0 \/ t.lines[s] = 0) /\ received[o][s] \in Nat
    BY <2>1
  <2>. HIDE DEF t, o
  <2>8. po'[o].arrived = received'[o]
    <3>1. ASSUME NEW s \in Sku
          PROVE  (IF t.lines[s] > 0 THEN t.row.arrived[s] + t.lines[s]
                  ELSE po[o].arrived[s]) = received[o][s] + t.lines[s]
      <4>1. CASE t.lines[s] > 0
        BY <2>6, <4>1
      <4>2. CASE t.lines[s] = 0
        BY <2>3, <2>7, <4>2
      <4>. QED BY <2>7, <4>1, <4>2
    <3>. QED BY <2>4, <3>1
  <2>9. \A s \in Sku : received'[o][s] <= MaxAllowed(po'[o].ordered[s])
    <3>. SUFFICES ASSUME NEW s \in Sku
                  PROVE  received[o][s] + t.lines[s] <= MaxAllowed(po[o].ordered[s])
      BY <2>4
    <3>1. CASE t.lines[s] = 0
      BY <2>1, <2>7, <3>1 DEF OrderFits
    <3>2. CASE t.lines[s] > 0
      <4>1. WithinTolerance(t.row, s, t.lines[s])
        BY <2>1, <3>2 DEF SnapshotFits
      <4>2. /\ po[o].ordered[s] - received[o][s] > 0
            /\ t.lines[s] <= MaxAllowed(po[o].ordered[s] - received[o][s])
        BY <2>3, <2>6, <3>2, <4>1 DEF WithinTolerance, Remaining
      <4>3. po[o].ordered[s] \in Nat /\ received[o][s] \in Nat /\ t.lines[s] \in Nat
        BY <2>1 DEF OrderRow
      <4>4. received[o][s] < po[o].ordered[s]
        BY <4>2, <4>3
      <4>. QED BY <4>2, <4>3, <4>4, SplitWithinTolerance
    <3>. QED BY <2>7, <3>1, <3>2
  <2>10. OrderFits(po'[o], received'[o])
    BY <2>4, <2>5, <2>8, <2>9 DEF OrderFits
  <2>11. Advances(po[o], po'[o], stock, stock')
    BY <2>3, <2>4, <2>5, <2>6 DEF Advances
  <2>. QED BY <1>0, <2>1, <2>2, <2>4, <2>10, <2>11, DoneReq, ReceiptStep
<1>8. ASSUME NEW r \in Request, Rollback(r) PROVE ReceiptInv'
  <2>1. /\ req[r] # Idle /\ req[r] \in InFlight /\ Done(r)
        /\ UNCHANGED <<stock, po, received>>
    BY <1>0, <1>8 DEF Rollback, TypeOK
  <2>2. req[r].order \in Order /\ po[req[r].order].status # "NONE"
    BY <2>1 DEF InFlight, ReceiptInv, SnapshotFits
  <2>. QED BY <1>1, <2>1, <2>2
<1>. QED BY <1>0, <1>2, <1>3, <1>4, <1>5, <1>6, <1>7, <1>8, NextCases

\* qty_received of every line is what the goods receipts posted, and never more
\* than the quantity ordered plus the tolerance, although create_gr computes
\* both from a snapshot and locks no order.  Edits must keep away from receipts
\* or leave the warehouse alone.
THEOREM ReceiptsAreSafe ==
    ASSUME ~EditWarehouse \/ Overlap \subseteq {"receive"}
    PROVE  Spec => []ReceiptsSafe
<1>1. ReceiptInv /\ [Next]_vars => ReceiptInv'
  BY ReceiptNext
<1>2. ReceiptInv => ReceiptsSafe
  BY DEF ReceiptInv, OrderFits, ReceiptsSafe, ReceiptsRecorded, ReceiptBound
<1>. QED BY <1>1, <1>2, ReceiptInit, PTL DEF Spec
-----------------------------------------------------------------------------
(* The status of an order, when only goods receipts for one and the same line
   may overlap *)

\* The status of an order is what happened to it.
OrderTrue(row, got) ==
    /\ row.arrived = got
    /\ row.status # "NONE" => row.ordered # NoLines
    /\ row.status \in {"NONE", "DRAFT", "CONFIRMED", "CANCELLED"} => got = NoLines
    /\ row.status \in {"PARTIAL_RECEIVED", "FULLY_RECEIVED"} =>
          (row.status = "FULLY_RECEIVED" <=> \A s \in Sku : got[s] >= row.ordered[s])

\* The receipt will fail: a row it is for has changed since it read it.
Outdated(t, rows) ==
    /\ t.op = "receive"
    /\ \E c \in Cell : /\ QtyAt(t.row.wh, t.lines, c) > 0
                       /\ t.ver[c] # rows[c].version

\* A request in flight still has the order as it is, or it will fail.
RequestTrue(t, row, rows) ==
    /\ row.status # "NONE"
    /\ \A c \in Cell : t.ver[c] <= rows[c].version
    /\ t.op \in {"confirm", "edit"} => t.row.status = "DRAFT"
    /\ t.op = "cancel" => t.row.status \in {"DRAFT", "CONFIRMED"}
    /\ t.op = "receive" => t.row.status \in Receivable /\ t.lines # NoLines
    /\ t.row = row \/ Outdated(t, rows)

StatusInv ==
    /\ TypeOK
    /\ Apart
    /\ \A o \in Order : OrderTrue(po[o], received[o])
    /\ \A r \in Request : req[r] # Idle =>
          RequestTrue(req[r], po[req[r].order], stock)

\* Rows only age: what is outdated stays so.
LEMMA RequestKept ==
    ASSUME TypeOK, [Next]_vars, NEW t \in InFlight, NEW row,
           RequestTrue(t, row, stock)
    PROVE  /\ RequestTrue(t, row, stock')
           /\ Outdated(t, stock) => Outdated(t, stock')
<1>1. \A c \in Cell : /\ t.ver[c] \in Nat /\ stock[c].version \in Nat
                      /\ stock'[c].version \in Nat
                      /\ stock[c].version <= stock'[c].version
                      /\ t.ver[c] <= stock[c].version
  BY VersionsGrow DEF InFlight, Row, RequestTrue
<1>2. \A c \in Cell : /\ t.ver[c] <= stock'[c].version
                      /\ t.ver[c] # stock[c].version => t.ver[c] # stock'[c].version
  BY <1>1
<1>3. Outdated(t, stock) => Outdated(t, stock')
  BY <1>2 DEF Outdated
<1>. QED BY <1>2, <1>3 DEF RequestTrue

\* What is left to show of a step that works on one order and for one request.
LEMMA StatusStep ==
    ASSUME StatusInv, TypeOK', [Next]_vars, NEW r \in Request, NEW o \in Order,
           \A q \in Request \ {r} : req'[q] = req[q],
           req'[r] = Idle \/ RequestTrue(req'[r], po'[req'[r].order], stock'),
           \A p \in Order \ {o} : po'[p] = po[p] /\ received'[p] = received[p],
           OrderTrue(po'[o], received'[o]),
           \/ po'[o] = po[o]
           \/ /\ po'[o].status # "NONE"
              /\ \A q \in Request \ {r} : req[q] # Idle /\ req[q].order = o =>
                                             Outdated(req[q], stock')
    PROVE  StatusInv'
<1>1. \A p \in Order : OrderTrue(po'[p], received'[p])
  BY DEF StatusInv
<1>2. ASSUME NEW q \in Request, req'[q] # Idle
      PROVE  RequestTrue(req'[q], po'[req'[q].order], stock')
  <2>1. CASE q = r
    BY <1>2, <2>1
  <2>2. CASE q # r
    <3>1. /\ req'[q] = req[q] /\ req[q] \in InFlight /\ req[q] # Idle
          /\ RequestTrue(req[q], po[req[q].order], stock)
      BY <1>2, <2>2 DEF StatusInv, TypeOK
    <3>2. req[q].order \in Order
      BY <3>1 DEF InFlight
    <3>3. RequestTrue(req[q], po[req[q].order], stock')
      BY <3>1, RequestKept DEF StatusInv
    <3>4. CASE po'[req[q].order] = po[req[q].order]
      BY <3>1, <3>3, <3>4
    <3>5. CASE po'[req[q].order] # po[req[q].order]
      <4>1. /\ po'[req[q].order].status # "NONE"
            /\ Outdated(req[q], stock')
        BY <2>2, <3>1, <3>2, <3>5
      <4>. QED BY <3>1, <3>3, <4>1 DEF RequestTrue
    <3>. QED BY <3>4, <3>5
  <2>. QED BY <2>1, <2>2
<1>3. Apart'
  BY ApartNext DEF StatusInv
<1>. QED BY <1>1, <1>2, <1>3 DEF StatusInv

LEMMA StatusNext ==
    ASSUME Overlap = {} \/ (Overlap = {"receive"} /\ \E s : Sku = {s}),
           StatusInv, [Next]_vars
    PROVE  StatusInv'
<1>0. TypeOK /\ TypeOK' /\ Apart'
  BY NextType, ApartNext DEF StatusInv
<1>1. CASE UNCHANGED vars
  <2>1. UNCHANGED <<stock, po, received, req>>
    BY <1>1 DEF vars
  <2>. QED BY <1>0, <2>1 DEF StatusInv
<1>2. ASSUME NEW o \in Order, CreatePO(o) PROVE StatusInv'
  <2>1. /\ po[o].status = "NONE" /\ po'[o].status = "DRAFT" /\ po'[o].arrived = NoLines
        /\ po'[o].ordered \in [Sku -> Nat] /\ po'[o].ordered # NoLines
        /\ \A p \in Order \ {o} : po'[p] = po[p]
        /\ UNCHANGED <<stock, received, req>>
    BY <1>0, <1>2, CreateWritten
  <2>2. received[o] = NoLines
    BY <2>1 DEF StatusInv, OrderTrue
  <2>3. OrderTrue(po'[o], received'[o])
    BY <2>1, <2>2 DEF OrderTrue
  <2>4. \A p \in Order : OrderTrue(po'[p], received'[p])
    BY <2>1, <2>3 DEF StatusInv
  <2>5. ASSUME NEW q \in Request, req'[q] # Idle
        PROVE  RequestTrue(req'[q], po'[req'[q].order], stock')
    <3>1. req[q] # Idle /\ RequestTrue(req[q], po[req[q].order], stock) /\ req[q] \in InFlight
      BY <1>0, <2>1, <2>5 DEF StatusInv, TypeOK
    <3>2. req[q].order \in Order \ {o}
      BY <2>1, <3>1 DEF RequestTrue, InFlight
    <3>. QED BY <2>1, <3>1, <3>2
  <2>. QED BY <1>0, <2>4, <2>5 DEF StatusInv
<1>3. CASE Reading
  <2>1. PICK r \in Request, o \in Order, op \in {"confirm", "cancel", "edit", "receive"},
             lines \in [Sku -> Nat], w \in Warehouse : Began(r, o, op, lines, w)
    BY <1>3, Zenon DEF Reading
  <2>. DEFINE t == req'[r]
  <2>2. /\ t = [op |-> op, order |-> o, row |-> po[o],
                ver |-> [c \in Cell |-> stock[c].version],
                lines |-> lines, wh |-> w]
        /\ \A q \in Request \ {r} : req'[q] = req[q]
        /\ UNCHANGED <<stock, po, received>>
    BY <1>0, <2>1, BeginReq DEF Began
  <2>3. /\ op \in {"confirm", "edit"} => po[o].status = "DRAFT"
        /\ op = "cancel" => po[o].status \in {"DRAFT", "CONFIRMED"}
        /\ op = "receive" => po[o].status \in Receivable /\ lines # NoLines
    BY <2>1 DEF Began
  <2>4. \A c \in Cell : stock[c].version \in Nat
    BY <1>0 DEF TypeOK, Row
  <2>. HIDE DEF t
  <2>5. /\ t.op = op /\ t.order = o /\ t.row = po[o] /\ t.lines = lines
        /\ \A c \in Cell : t.ver[c] = stock[c].version
    BY <2>2
  <2>6. po[o].status # "NONE"
    BY <2>3 DEF Receivable
  <2>7. RequestTrue(t, po[o], stock)
    BY <2>3, <2>4, <2>5, <2>6 DEF RequestTrue
  <2>8. RequestTrue(req'[r], po'[req'[r].order], stock')
    BY <2>2, <2>5, <2>7 DEF t
  <2>9. OrderTrue(po'[o], received'[o])
    BY <2>2 DEF StatusInv
  <2>. QED BY <1>0, <2>2, <2>8, <2>9, StatusStep
<1>4. ASSUME NEW r \in Request, req[r].op \in {"confirm", "cancel", "edit"}
      PROVE  LET t == req[r]
                 o == t.order
             IN  /\ t \in InFlight /\ t # Idle /\ o \in Order
                 /\ t.row = po[o] /\ po[o].status \in {"DRAFT", "CONFIRMED"}
                 /\ t.op \in {"confirm", "edit"} => po[o].status = "DRAFT"
                 /\ OrderTrue(po[o], received[o])
                 /\ \A q \in Request \ {r} : req[q] # Idle => req[q].order # o
  <2>. DEFINE t == req[r]
              o == t.order
  <2>1. /\ t \in InFlight /\ t # Idle /\ o \in Order
        /\ RequestTrue(t, po[o], stock) /\ OrderTrue(po[o], received[o])
    BY <1>0, <1>4, ActiveRequest DEF StatusInv
  <2>2. /\ t.row = po[o] /\ po[o].status \in {"DRAFT", "CONFIRMED"}
        /\ t.op \in {"confirm", "edit"} => po[o].status = "DRAFT"
    BY <1>4, <2>1 DEF RequestTrue, Outdated
  <2>3. \A q \in Request \ {r} : req[q] # Idle => req[q].order # o
    BY <1>4, <2>1 DEF StatusInv, Apart
  <2>. QED BY <2>1, <2>2, <2>3
<1>5. ASSUME NEW r \in Request, ConfirmPO(r) \/ CancelPO(r) PROVE StatusInv'
  <2>. DEFINE o == req[r].order
  <2>1. req[r].op \in {"confirm", "cancel"}
    BY <1>5 DEF ConfirmPO, CancelPO
  <2>2. PICK status \in {"CONFIRMED", "CANCELLED"} : po' = [po EXCEPT ![o].status = status]
    BY <1>5 DEF ConfirmPO, CancelPO
  <2>3. UNCHANGED received /\ Done(r)
    BY <1>5 DEF ConfirmPO, CancelPO
  <2>4. /\ o \in Order /\ po[o].status \in {"DRAFT", "CONFIRMED"}
        /\ OrderTrue(po[o], received[o])
        /\ \A q \in Request \ {r} : req[q] # Idle => req[q].order # o
    BY <1>4, <2>1
  <2>. HIDE DEF o
  <2>5. status \in Status
    BY DEF Status
  <2>6. /\ \A p \in Order \ {o} : po'[p] = po[p]
        /\ po'[o] = [status |-> status, gen |-> po[o].gen, wh |-> po[o].wh,
                     ordered |-> po[o].ordered, arrived |-> po[o].arrived]
    BY <1>0, <2>2, <2>4, <2>5, StatusWritten
  <2>7. OrderTrue(po'[o], received'[o]) /\ po'[o].status # "NONE"
    BY <2>3, <2>4, <2>6 DEF OrderTrue
  <2>. QED BY <1>0, <2>3, <2>4, <2>6, <2>7, DoneReq, StatusStep
<1>6. ASSUME NEW r \in Request, UpdatePO(r) PROVE StatusInv'
  <2>. DEFINE t == req[r]
              o == t.order
  <2>1. t.op = "edit" /\ UNCHANGED <<stock, received>> /\ Done(r)
    BY <1>6 DEF UpdatePO
  <2>2. /\ o \in Order /\ po[o].status = "DRAFT" /\ OrderTrue(po[o], received[o])
        /\ \A q \in Request \ {r} : req[q] # Idle => req[q].order # o
    BY <1>4, <2>1
  <2>3. /\ \A p \in Order \ {o} : po'[p] = po[p]
        /\ po'[o] = [status  |-> po[o].status,
                     gen     |-> IF t.lines = NoLines THEN po[o].gen ELSE po[o].gen + 1,
                     wh      |-> IF t.wh = t.row.wh THEN po[o].wh ELSE t.wh,
                     ordered |-> IF t.lines = NoLines THEN po[o].ordered ELSE t.lines,
                     arrived |-> IF t.lines = NoLines THEN po[o].arrived ELSE NoLines]
    BY <1>0, <1>6, UpdateWritten
  <2>. HIDE DEF t, o
  <2>4. OrderTrue(po'[o], received'[o]) /\ po'[o].status # "NONE"
    BY <2>1, <2>2, <2>3 DEF OrderTrue
  <2>. QED BY <1>0, <2>1, <2>2, <2>3, <2>4, DoneReq, StatusStep DEF t
<1>7. ASSUME NEW r \in Request, CreateGR(r) PROVE StatusInv'
  <2>. DEFINE t == req[r]
              o == t.order
              Q(u, c) == QtyAt(u.row.wh, u.lines, c)
  <2>1. /\ t \in InFlight /\ t # Idle /\ o \in Order /\ t.op = "receive"
        /\ po[o] \in OrderRow /\ t.lines \in [Sku -> Nat] /\ received[o] \in [Sku -> Nat]
        /\ RequestTrue(t, po[o], stock) /\ OrderTrue(po[o], received[o])
    BY <1>0, <1>7, ActiveRequest DEF CreateGR, StatusInv, TypeOK
  <2>2. \A c \in Cell : Q(t, c) > 0 => /\ t.ver[c] = stock[c].version
                                       /\ stock'[c].version = stock[c].version + 1
    BY <1>0, <1>7, ReceiptRows
  <2>3. /\ t.row = po[o] /\ po[o].status \in Receivable /\ t.lines # NoLines
        /\ Done(r)
    BY <1>7, <2>1, <2>2 DEF RequestTrue, Outdated, CreateGR
  <2>4. /\ \A p \in Order \ {o} : po'[p] = po[p] /\ received'[p] = received[p]
        /\ po'[o].status = StatusAfter(t, po[o])
        /\ po'[o].gen = po[o].gen /\ po'[o].wh = po[o].wh
        /\ po'[o].ordered = po[o].ordered
        /\ po'[o].arrived = [s \in Sku |-> IF t.lines[s] > 0
                                           THEN t.row.arrived[s] + t.lines[s]
                                           ELSE po[o].arrived[s]]
        /\ received'[o] = [s \in Sku |-> received[o][s] + t.lines[s]]
    BY <1>0, <1>7, ReceiptWritten
  <2>5. po[o].arrived = received[o] /\ po[o].ordered # NoLines
    BY <2>1, <2>3 DEF OrderTrue, Receivable
  <2>6. ASSUME NEW q \in Request \ {r}, req[q] # Idle, req[q].order = o
        PROVE  Outdated(req[q], stock')
    <3>1. /\ req[q] \in InFlight /\ RequestTrue(req[q], po[o], stock)
          /\ req[q].op = "receive" /\ req[q].lines # NoLines
          /\ \E s : Sku = {s}
      BY <1>0, <2>1, <2>6 DEF StatusInv, Apart, TypeOK, RequestTrue
    <3>2. CASE Outdated(req[q], stock)
      BY <1>0, <3>1, <3>2, RequestKept
    <3>3. CASE req[q].row = po[o]
      <4>1. PICK s \in Sku : t.lines[s] > 0 /\ req[q].lines[s] > 0
        BY <2>1, <2>3, <3>1, SomeLine DEF InFlight
      <4>. DEFINE c == <<po[o].wh, s>>
      <4>2. c \in Cell /\ Q(t, c) > 0 /\ Q(req[q], c) > 0
        BY <2>1, <2>3, <3>3, <4>1 DEF Cell, QtyAt, OrderRow
      <4>3. /\ req[q].ver[c] \in Nat /\ stock[c].version \in Nat
            /\ req[q].ver[c] <= stock[c].version
        BY <1>0, <3>1, <4>2 DEF TypeOK, Row, InFlight, RequestTrue
      <4>4. req[q].ver[c] # stock'[c].version
        BY <2>2, <4>2, <4>3
      <4>. QED BY <3>1, <4>2, <4>4 DEF Outdated
    <3>. QED BY <3>1, <3>2, <3>3 DEF RequestTrue
  <2>7. po'[o].arrived = received'[o]
    <3>1. ASSUME NEW s \in Sku
          PROVE  (IF t.lines[s] > 0 THEN t.row.arrived[s] + t.lines[s]
                  ELSE po[o].arrived[s]) = received[o][s] + t.lines[s]
      <4>1. (t.lines[s] > 0 \/ t.lines[s] = 0) /\ received[o][s] \in Nat
        BY <2>1
      <4>2. t.row.arrived[s] = received[o][s] /\ po[o].arrived[s] = received[o][s]
        BY <2>3, <2>5
      <4>. QED BY <4>1, <4>2
    <3>. QED BY <2>4, <3>1
  <2>8. FullyReceived(t) <=> \A s \in Sku : received'[o][s] >= po'[o].ordered[s]
    BY <2>3, <2>4, <2>5 DEF FullyReceived
  <2>9. /\ FullyReceived(t) => po'[o].status = "FULLY_RECEIVED"
        /\ ~FullyReceived(t) => po'[o].status = "PARTIAL_RECEIVED"
    BY <2>3, <2>4 DEF StatusAfter, Receivable
  <2>. HIDE DEF t, o
  <2>10. OrderTrue(po'[o], received'[o]) /\ po'[o].status # "NONE"
    <3>1. CASE FullyReceived(t)
      BY <2>4, <2>5, <2>7, <2>8, <2>9, <3>1 DEF OrderTrue
    <3>2. CASE ~FullyReceived(t)
      BY <2>4, <2>5, <2>7, <2>8, <2>9, <3>2 DEF OrderTrue
    <3>. QED BY <3>1, <3>2
  <2>11. req'[r] = Idle /\ \A q \in Request \ {r} : req'[q] = req[q]
    BY <1>0, <2>3, DoneReq
  <2>. QED BY <1>0, <2>1, <2>4, <2>6, <2>10, <2>11, StatusStep
<1>8. ASSUME NEW r \in Request, Rollback(r) PROVE StatusInv'
  <2>1. /\ req[r] # Idle /\ req[r] \in InFlight /\ Done(r)
        /\ UNCHANGED <<stock, po, received>>
    BY <1>0, <1>8 DEF Rollback, TypeOK
  <2>2. req[r].order \in Order /\ OrderTrue(po'[req[r].order], received'[req[r].order])
    BY <2>1 DEF InFlight, StatusInv
  <2>. QED BY <1>0, <2>1, <2>2, DoneReq, StatusStep
<1>. QED BY <1>0, <1>1, <1>2, <1>3, <1>5, <1>6, <1>7, <1>8, NextCases

\* An order is FULLY_RECEIVED exactly when all its lines are, and nothing was
\* received for a CANCELLED one, although create_gr judges both from the lines
\* as it read them.  Two receipts at once must be for the same line: those of
\* different lines each miss the other's.
THEOREM StatusIsTrue ==
    ASSUME Overlap = {} \/ (Overlap = {"receive"} /\ \E s : Sku = {s})
    PROVE  Spec => []StatusTrue
<1>1. Init => StatusInv
  BY InitType DEF Init, StatusInv, OrderTrue, Apart
<1>2. StatusInv /\ [Next]_vars => StatusInv'
  BY StatusNext
<1>3. StatusInv => StatusTrue
  <2>. SUFFICES ASSUME StatusInv, NEW o \in Order
                PROVE  /\ po[o].status \in Live =>
                             (po[o].status = "FULLY_RECEIVED" <=> AllReceived(o))
                       /\ po[o].status = "CANCELLED" => received[o] = NoLines
    BY DEF StatusTrue, FullyReceivedIsRecorded, CancelledNeverReceived
  <2>1. OrderTrue(po[o], received[o]) /\ po[o].ordered \in [Sku -> Nat]
    BY DEF StatusInv, TypeOK, OrderRow
  <2>2. CASE po[o].status = "CONFIRMED"
    <3>1. received[o] = NoLines /\ po[o].ordered # NoLines
      BY <2>1, <2>2 DEF OrderTrue
    <3>2. PICK s \in Sku : po[o].ordered[s] > 0
      BY <2>1, <3>1, SomeLine
    <3>3. ~(received[o][s] >= po[o].ordered[s])
      BY <2>1, <3>1, <3>2 DEF NoLines
    <3>. QED BY <2>2, <3>3 DEF AllReceived
  <2>3. CASE po[o].status # "CONFIRMED"
    BY <2>1, <2>3 DEF OrderTrue, AllReceived, Live, Receivable
  <2>. QED BY <2>2, <2>3
<1>. QED BY <1>1, <1>2, <1>3, PTL DEF Spec
-----------------------------------------------------------------------------
(* The incoming part of the rows, when only goods receipts overlap *)

\* A request other than a goods receipt still has the order as it is; a goods
\* receipt may have an older row of an order that is live in any case.
RequestLive(t, row) ==
    /\ t.op \in {"confirm", "edit"} => t.row = row /\ row.status = "DRAFT"
    /\ t.op = "cancel" => t.row = row /\ row.status \in {"DRAFT", "CONFIRMED"}
    /\ t.op = "receive" => /\ t.row.status \in Receivable /\ row.status \in Live
                           /\ row.status = "CONFIRMED" => t.row.status = "CONFIRMED"

\* Until a receipt is posted nothing of an order has arrived.
Untouched(row) ==
    row.status \notin {"PARTIAL_RECEIVED", "FULLY_RECEIVED"} => row.arrived = NoLines

IncomingInv ==
    /\ ReceiptInv
    /\ \A o \in Order : Untouched(po[o])
    /\ \A r \in Request : req[r] # Idle => RequestLive(req[r], po[req[r].order])
    /\ IncomingExact

LEMMA AwaitedInt ==
    ASSUME NEW row \in OrderRow, NEW c \in Cell
    PROVE  Awaited(row, c) \in Int
  BY DEF Awaited, Remaining, OrderRow, Cell

\* What is left to show of a step that works on one order: what it adds to a
\* row is what the order awaits there more than before.
LEMMA IncomingStep ==
    ASSUME IncomingInv, ReceiptInv', NEW o \in Order,
           \A p \in Order \ {o} : po'[p] = po[p],
           Untouched(po'[o]),
           \A c \in Cell : stock'[c].incoming =
                               stock[c].incoming + (Awaited(po'[o], c) - Awaited(po[o], c)),
           \A r \in Request : req'[r] # Idle => RequestLive(req'[r], po'[req'[r].order])
    PROVE  IncomingInv'
<1>1. \A p \in Order : Untouched(po'[p])
  BY DEF IncomingInv
<1>2. IncomingExact'
  <2>. SUFFICES ASSUME NEW c \in Cell
                PROVE  stock'[c].incoming =
                           SumFunctionOnSet([p \in Order |-> Awaited(po'[p], c)], Order)
    BY DEF IncomingExact
  <2>. DEFINE f == [p \in Order |-> Awaited(po[p], c)]
              g == [p \in Order |-> Awaited(po'[p], c)]
  <2>1. \A p \in Order : po[p] \in OrderRow /\ po'[p] \in OrderRow
    BY DEF IncomingInv, ReceiptInv, TypeOK
  <2>2. \A p \in Order : f[p] \in Int /\ g[p] \in Int
    BY <2>1, AwaitedInt
  <2>3. \A p \in Order : p # o => g[p] = f[p]
    OBVIOUS
  <2>4. g[o] = Awaited(po'[o], c) /\ f[o] = Awaited(po[o], c)
    OBVIOUS
  <2>. HIDE DEF f, g
  <2>5. SumFunctionOnSet(g, Order) = SumFunctionOnSet(f, Order) + (g[o] - f[o])
    BY <2>2, <2>3, OrderAssumption, SumChange
  <2>6. stock[c].incoming = SumFunctionOnSet(f, Order)
    BY DEF IncomingInv, IncomingExact, f
  <2>7. SumFunctionOnSet(g, Order) = stock'[c].incoming
    BY <2>4, <2>5, <2>6
  <2>. QED BY <2>7 DEF g
<1>. QED BY <1>1, <1>2 DEF IncomingInv

\* The requests on other orders see nothing of a step on this one.
LEMMA LiveKept ==
    ASSUME IncomingInv, NEW r \in Request, NEW o \in Order, Done(r),
           \A p \in Order \ {o} : po'[p] = po[p],
           \A q \in Request \ {r} : req[q] # Idle /\ req[q].order = o =>
                                        RequestLive(req[q], po'[o])
    PROVE  \A q \in Request : req'[q] # Idle => RequestLive(req'[q], po'[req'[q].order])
<1>. SUFFICES ASSUME NEW q \in Request, req'[q] # Idle
              PROVE  RequestLive(req'[q], po'[req'[q].order])
  OBVIOUS
<1>0. TypeOK
  BY DEF IncomingInv, ReceiptInv
<1>1. q # r /\ req'[q] = req[q] /\ req[q] # Idle
  BY <1>0, DoneReq
<1>2. req[q].order \in Order /\ RequestLive(req[q], po[req[q].order])
  BY <1>0, <1>1 DEF IncomingInv, TypeOK, InFlight
<1>. QED BY <1>1, <1>2

\* What a request that acts has, under the invariant.
LEMMA LiveActive ==
    ASSUME IncomingInv, Overlap \subseteq {"receive"},
           NEW r \in Request, req[r].op # "idle"
    PROVE  /\ req[r] \in InFlight /\ req[r] # Idle
           /\ req[r].order \in Order /\ po[req[r].order] \in OrderRow
           /\ req[r].row \in OrderRow /\ req[r].lines \in [Sku -> Nat]
           /\ RequestLive(req[r], po[req[r].order])
           /\ Untouched(po[req[r].order])
           /\ \A q \in Request \ {r} : req[q] # Idle /\ req[q].order = req[r].order =>
                                          req[r].op = "receive" /\ req[q].op = "receive"
<1>1. TypeOK
  BY DEF IncomingInv, ReceiptInv
<1>2. /\ req[r] \in InFlight /\ req[r] # Idle
      /\ req[r].order \in Order /\ po[req[r].order] \in OrderRow
      /\ req[r].row \in OrderRow /\ req[r].lines \in [Sku -> Nat]
  BY <1>1, ActiveRequest
<1>3. RequestLive(req[r], po[req[r].order]) /\ Untouched(po[req[r].order])
  BY <1>2 DEF IncomingInv
<1>4. \A q \in Request \ {r} : req[q] # Idle /\ req[q].order = req[r].order =>
                                  req[r].op \in Overlap /\ req[q].op \in Overlap
  BY <1>2 DEF IncomingInv, ReceiptInv, Apart
<1>. QED BY <1>2, <1>3, <1>4

LEMMA IncomingInit == Init => IncomingInv
<1>. SUFFICES ASSUME Init PROVE IncomingInv
  OBVIOUS
<1>1. \A o \in Order : po[o].status = "NONE" /\ po[o].arrived = NoLines
  BY DEF Init
<1>2. \A r \in Request : req[r] = Idle
  BY DEF Init
<1>3. IncomingExact
  <2>. SUFFICES ASSUME NEW c \in Cell
                PROVE  stock[c].incoming =
                           SumFunctionOnSet([o \in Order |-> Awaited(po[o], c)], Order)
    BY DEF IncomingExact
  <2>. DEFINE f == [o \in Order |-> Awaited(po[o], c)]
  <2>1. \A o \in Order : f[o] = 0
    BY <1>1 DEF Awaited, Live, Receivable
  <2>2. stock[c].incoming = 0
    BY DEF Init, EmptyRow
  <2>. HIDE DEF f
  <2>3. SumFunctionOnSet(f, Order) = 0
    BY <2>1, OrderAssumption, SumOfZeros
  <2>. QED BY <2>2, <2>3 DEF f
<1>. QED BY <1>1, <1>2, <1>3, ReceiptInit DEF IncomingInv, Untouched

LEMMA IncomingCreate ==
    ASSUME IncomingInv, ReceiptInv', NEW o \in Order, CreatePO(o)
    PROVE  IncomingInv'
<1>0. TypeOK
  BY DEF IncomingInv, ReceiptInv
<1>1. /\ po[o].status = "NONE" /\ po'[o].status = "DRAFT" /\ po'[o].arrived = NoLines
      /\ \A p \in Order \ {o} : po'[p] = po[p]
      /\ UNCHANGED <<stock, received, req>>
  BY <1>0, CreateWritten
<1>2. \A c \in Cell : stock[c].incoming \in Int
  BY <1>0 DEF TypeOK, Row
<1>3. \A c \in Cell : Awaited(po'[o], c) = 0 /\ Awaited(po[o], c) = 0
  BY <1>1 DEF Awaited, Live, Receivable
<1>4. \A c \in Cell : stock'[c].incoming =
                          stock[c].incoming + (Awaited(po'[o], c) - Awaited(po[o], c))
  BY <1>1, <1>2, <1>3
<1>5. ASSUME NEW r \in Request, req'[r] # Idle
      PROVE  RequestLive(req'[r], po'[req'[r].order])
  <2>1. /\ req'[r] = req[r] /\ req[r] # Idle /\ req[r] \in InFlight
        /\ SnapshotFits(req[r], po[req[r].order], stock)
        /\ RequestLive(req[r], po[req[r].order])
    BY <1>0, <1>1, <1>5 DEF IncomingInv, ReceiptInv, TypeOK
  <2>2. req[r].order \in Order \ {o}
    BY <1>1, <2>1 DEF SnapshotFits, InFlight
  <2>. QED BY <1>1, <2>1, <2>2
<1>. QED BY <1>1, <1>4, <1>5, IncomingStep DEF Untouched

LEMMA IncomingBegin ==
    ASSUME IncomingInv, ReceiptInv', Reading
    PROVE  IncomingInv'
<1>0. TypeOK
  BY DEF IncomingInv, ReceiptInv
<1>1. PICK r \in Request, o \in Order, op \in {"confirm", "cancel", "edit", "receive"},
           lines \in [Sku -> Nat], w \in Warehouse : Began(r, o, op, lines, w)
  BY Zenon DEF Reading
<1>2. /\ req'[r] = [op |-> op, order |-> o, row |-> po[o],
                    ver |-> [c \in Cell |-> stock[c].version],
                    lines |-> lines, wh |-> w]
      /\ \A q \in Request \ {r} : req'[q] = req[q]
      /\ UNCHANGED <<stock, po, received>>
  BY <1>0, <1>1, BeginReq DEF Began
<1>3. /\ op \in {"confirm", "edit"} => po[o].status = "DRAFT"
      /\ op = "cancel" => po[o].status \in {"DRAFT", "CONFIRMED"}
      /\ op = "receive" => po[o].status \in Receivable
  BY <1>1 DEF Began
<1>4. req'[r].op = op /\ req'[r].order = o /\ req'[r].row = po[o]
  BY <1>2
<1>5. RequestLive(req'[r], po'[req'[r].order])
  BY <1>2, <1>3, <1>4 DEF RequestLive, Live
<1>6. \A q \in Request : req'[q] # Idle => RequestLive(req'[q], po'[req'[q].order])
  BY <1>2, <1>5 DEF IncomingInv
<1>7. IncomingExact'
  BY <1>2 DEF IncomingInv, IncomingExact
<1>. QED BY <1>2, <1>6, <1>7 DEF IncomingInv

\* Confirming adds the whole order, cancelling what is confirmed removes it.
LEMMA IncomingConfirm ==
    ASSUME IncomingInv, ReceiptInv', Overlap \subseteq {"receive"},
           NEW r \in Request, ConfirmPO(r)
    PROVE  IncomingInv'
<1>. DEFINE t == req[r]
            o == t.order
            Q(c) == QtyAt(po[o].wh, po[o].ordered, c)
<1>0. TypeOK
  BY DEF IncomingInv, ReceiptInv
<1>1. /\ t.op = "confirm" /\ o \in Order /\ po[o] \in OrderRow
      /\ RequestLive(t, po[o]) /\ Untouched(po[o])
      /\ \A q \in Request \ {r} : ~(req[q] # Idle /\ req[q].order = o)
  BY LiveActive DEF ConfirmPO
<1>2. t.row = po[o] /\ po[o].status = "DRAFT"
  BY <1>1 DEF RequestLive
<1>3. /\ \A p \in Order \ {o} : po'[p] = po[p]
      /\ po'[o] = [status |-> "CONFIRMED", gen |-> po[o].gen, wh |-> po[o].wh,
                   ordered |-> po[o].ordered, arrived |-> po[o].arrived]
  BY <1>0, <1>1, StatusWritten DEF ConfirmPO, Status
<1>4. po[o].arrived = NoLines
  BY <1>1, <1>2 DEF Untouched
<1>5. Untouched(po'[o])
  BY <1>3, <1>4 DEF Untouched
<1>6. ASSUME NEW c \in Cell
      PROVE  stock'[c].incoming = stock[c].incoming + (Awaited(po'[o], c) - Awaited(po[o], c))
  <2>1. stock[c] \in Row /\ stock[c].incoming \in Int /\ Q(c) \in Nat
    BY <1>0, <1>1, QtyAtNat DEF TypeOK, Row, OrderRow
  <2>2. stock'[c] = AdjustIncoming(stock[c], 1 * Q(c))
    BY <1>2 DEF ConfirmPO, AdjustAll
  <2>3. stock'[c].incoming = stock[c].incoming + Q(c)
    BY <2>1, <2>2, IncomingMoves
  <2>4. po[o].ordered[c[2]] \in Nat /\ c[2] \in Sku
    BY <1>1 DEF OrderRow, Cell
  <2>5. Awaited(po'[o], c) = Q(c)
    BY <1>3, <1>4, <2>4 DEF Awaited, Live, Receivable, Remaining, QtyAt, NoLines
  <2>6. Awaited(po[o], c) = 0
    BY <1>2 DEF Awaited, Live, Receivable
  <2>. QED BY <2>1, <2>3, <2>5, <2>6
<1>7. \A q \in Request : req'[q] # Idle => RequestLive(req'[q], po'[req'[q].order])
  BY <1>1, <1>3, LiveKept DEF ConfirmPO
<1>. QED BY <1>1, <1>3, <1>5, <1>6, <1>7, IncomingStep

LEMMA IncomingCancel ==
    ASSUME IncomingInv, ReceiptInv', Overlap \subseteq {"receive"},
           NEW r \in Request, CancelPO(r)
    PROVE  IncomingInv'
<1>. DEFINE t == req[r]
            o == t.order
            Q(c) == QtyAt(po[o].wh, po[o].ordered, c)
<1>0. TypeOK
  BY DEF IncomingInv, ReceiptInv
<1>1. /\ t.op = "cancel" /\ o \in Order /\ po[o] \in OrderRow
      /\ RequestLive(t, po[o]) /\ Untouched(po[o])
      /\ \A q \in Request \ {r} : ~(req[q] # Idle /\ req[q].order = o)
  BY LiveActive DEF CancelPO
<1>2. t.row = po[o] /\ po[o].status \in {"DRAFT", "CONFIRMED"}
  BY <1>1 DEF RequestLive
<1>3. /\ \A p \in Order \ {o} : po'[p] = po[p]
      /\ po'[o] = [status |-> "CANCELLED", gen |-> po[o].gen, wh |-> po[o].wh,
                   ordered |-> po[o].ordered, arrived |-> po[o].arrived]
  BY <1>0, <1>1, StatusWritten DEF CancelPO, Status
<1>4. po[o].arrived = NoLines
  BY <1>1, <1>2 DEF Untouched
<1>5. Untouched(po'[o])
  BY <1>3, <1>4 DEF Untouched
<1>6. ASSUME NEW c \in Cell
      PROVE  stock'[c].incoming = stock[c].incoming + (Awaited(po'[o], c) - Awaited(po[o], c))
  <2>1. stock[c] \in Row /\ stock[c].incoming \in Int /\ Q(c) \in Nat
    BY <1>0, <1>1, QtyAtNat DEF TypeOK, Row, OrderRow
  <2>2. Awaited(po'[o], c) = 0
    BY <1>3 DEF Awaited, Live, Receivable
  <2>3. CASE po[o].status = "DRAFT"
    <3>1. Awaited(po[o], c) = 0 /\ stock'[c] = stock[c]
      BY <1>2, <2>3 DEF Awaited, Live, Receivable, CancelPO
    <3>. QED BY <2>1, <2>2, <3>1
  <2>4. CASE po[o].status = "CONFIRMED"
    <3>1. stock'[c] = AdjustIncoming(stock[c], (-1) * Q(c))
      BY <1>2, <2>4 DEF CancelPO, AdjustAll
    <3>2. stock'[c].incoming = stock[c].incoming - Q(c)
      BY <2>1, <3>1, IncomingMoves
    <3>3. po[o].ordered[c[2]] \in Nat /\ c[2] \in Sku
      BY <1>1 DEF OrderRow, Cell
    <3>4. Awaited(po[o], c) = Q(c)
      BY <1>4, <2>4, <3>3 DEF Awaited, Live, Receivable, Remaining, QtyAt, NoLines
    <3>. QED BY <2>1, <2>2, <3>2, <3>4
  <2>. QED BY <1>2, <2>3, <2>4
<1>7. \A q \in Request : req'[q] # Idle => RequestLive(req'[q], po'[req'[q].order])
  BY <1>1, <1>3, LiveKept DEF CancelPO
<1>. QED BY <1>1, <1>3, <1>5, <1>6, <1>7, IncomingStep

LEMMA IncomingUpdate ==
    ASSUME IncomingInv, ReceiptInv', Overlap \subseteq {"receive"},
           NEW r \in Request, UpdatePO(r)
    PROVE  IncomingInv'
<1>. DEFINE t == req[r]
            o == t.order
<1>0. TypeOK
  BY DEF IncomingInv, ReceiptInv
<1>1. /\ t.op = "edit" /\ o \in Order
      /\ RequestLive(t, po[o]) /\ Untouched(po[o])
      /\ \A q \in Request \ {r} : ~(req[q] # Idle /\ req[q].order = o)
  BY LiveActive DEF UpdatePO
<1>2. po[o].status = "DRAFT" /\ po[o].arrived = NoLines
  BY <1>1 DEF RequestLive, Untouched
<1>3. /\ \A p \in Order \ {o} : po'[p] = po[p]
      /\ po'[o] = [status  |-> po[o].status,
                   gen     |-> IF t.lines = NoLines THEN po[o].gen ELSE po[o].gen + 1,
                   wh      |-> IF t.wh = t.row.wh THEN po[o].wh ELSE t.wh,
                   ordered |-> IF t.lines = NoLines THEN po[o].ordered ELSE t.lines,
                   arrived |-> IF t.lines = NoLines THEN po[o].arrived ELSE NoLines]
  BY <1>0, UpdateWritten
<1>4. Untouched(po'[o])
  BY <1>2, <1>3 DEF Untouched
<1>5. \A c \in Cell : Awaited(po'[o], c) = 0 /\ Awaited(po[o], c) = 0
  BY <1>2, <1>3 DEF Awaited, Live, Receivable
<1>6. \A c \in Cell : stock[c].incoming \in Int /\ stock'[c] = stock[c]
  BY <1>0 DEF TypeOK, Row, UpdatePO
<1>7. \A c \in Cell : stock'[c].incoming =
                          stock[c].incoming + (Awaited(po'[o], c) - Awaited(po[o], c))
  BY <1>5, <1>6
<1>8. \A q \in Request : req'[q] # Idle => RequestLive(req'[q], po'[req'[q].order])
  BY ZenonT(40), <1>1, <1>3, LiveKept DEF UpdatePO
<1>. QED BY <1>1, <1>3, <1>4, <1>7, <1>8, IncomingStep

\* A receipt that commits has the lines as they are, so what it takes from
\* `incoming` is what qty_received grows by.
LEMMA IncomingReceive ==
    ASSUME IncomingInv, ReceiptInv', Overlap \subseteq {"receive"},
           NEW r \in Request, CreateGR(r)
    PROVE  IncomingInv'
<1>. DEFINE t == req[r]
            o == t.order
            Q(c) == QtyAt(t.row.wh, t.lines, c)
<1>0. TypeOK
  BY DEF IncomingInv, ReceiptInv
<1>1. /\ t.op = "receive" /\ t # Idle /\ o \in Order /\ po[o] \in OrderRow
      /\ t.lines \in [Sku -> Nat]
      /\ RequestLive(t, po[o])
      /\ \A q \in Request \ {r} : req[q] # Idle /\ req[q].order = o => req[q].op = "receive"
  BY LiveActive DEF CreateGR
<1>2. po[o].status \in Live
  BY <1>1 DEF RequestLive
<1>3. t.row.wh = po[o].wh
  BY <1>1 DEF IncomingInv, ReceiptInv, SnapshotFits, CreateGR
<1>4. /\ \A p \in Order \ {o} : po'[p] = po[p]
      /\ po'[o].status = StatusAfter(t, po[o])
      /\ po'[o].wh = po[o].wh /\ po'[o].ordered = po[o].ordered
      /\ received'[o] = [s \in Sku |-> received[o][s] + t.lines[s]]
  BY <1>0, ReceiptWritten
<1>5. po'[o].arrived = received'[o] /\ po[o].arrived = received[o]
  BY <1>1 DEF IncomingInv, ReceiptInv, OrderFits
<1>6. \A s \in Sku : po'[o].arrived[s] = po[o].arrived[s] + t.lines[s]
  BY <1>4, <1>5
<1>7. po'[o].status \in {"PARTIAL_RECEIVED", "FULLY_RECEIVED"} \/ po'[o].status = po[o].status
  BY <1>4 DEF StatusAfter
<1>8. po'[o].status \in Live
  BY <1>2, <1>7 DEF Live, Receivable
<1>9. /\ po'[o].status # "CONFIRMED"
      /\ Untouched(po'[o])
  <2>1. po'[o].status # "CONFIRMED"
    BY <1>1, <1>4 DEF StatusAfter, RequestLive, Receivable
  <2>. QED BY <1>8, <2>1 DEF Untouched, Live, Receivable
<1>10. ASSUME NEW c \in Cell
       PROVE  stock'[c].incoming = stock[c].incoming + (Awaited(po'[o], c) - Awaited(po[o], c))
  <2>1. stock[c] \in Row /\ stock[c].incoming \in Int /\ Q(c) \in Nat
    BY <1>0, <1>1, <1>3, QtyAtNat DEF TypeOK, Row, OrderRow
  <2>2. stock'[c].incoming = stock[c].incoming - Q(c)
    <3>1. /\ Q(c) > 0 => stock'[c] = PurchaseIn(stock[c], Q(c))
          /\ Q(c) = 0 => stock'[c] = stock[c]
      BY <1>0, ReceiptRows
    <3>. QED BY <2>1, <3>1, IncomingMoves
  <2>3. CASE c[1] # po[o].wh
    <3>1. Q(c) = 0 /\ Awaited(po'[o], c) = 0 /\ Awaited(po[o], c) = 0
      BY <1>3, <1>4, <2>3 DEF QtyAt, Awaited
    <3>. QED BY <2>1, <2>2, <3>1
  <2>4. CASE c[1] = po[o].wh
    <3>1. c[2] \in Sku /\ po[o].ordered[c[2]] \in Nat /\ po[o].arrived[c[2]] \in Nat
          /\ t.lines[c[2]] \in Nat
      BY <1>1 DEF Cell, OrderRow
    <3>2. /\ Q(c) = t.lines[c[2]]
          /\ Awaited(po'[o], c) = po[o].ordered[c[2]] - po'[o].arrived[c[2]]
          /\ Awaited(po[o], c) = po[o].ordered[c[2]] - po[o].arrived[c[2]]
      BY <1>2, <1>3, <1>4, <1>8, <2>4 DEF QtyAt, Awaited, Remaining
    <3>. QED BY <1>6, <2>1, <2>2, <3>1, <3>2
  <2>. QED BY <2>3, <2>4
<1>11. ASSUME NEW q \in Request \ {r}, req[q] # Idle, req[q].order = o
       PROVE  RequestLive(req[q], po'[o])
  <2>1. req[q].op = "receive" /\ RequestLive(req[q], po[o])
    BY <1>1, <1>11 DEF IncomingInv
  <2>. QED BY <1>8, <1>9, <2>1 DEF RequestLive
<1>12. \A q \in Request : req'[q] # Idle => RequestLive(req'[q], po'[req'[q].order])
  BY <1>1, <1>4, <1>11, LiveKept DEF CreateGR
<1>. QED BY <1>1, <1>4, <1>9, <1>10, <1>12, IncomingStep

LEMMA IncomingNext ==
    ASSUME Overlap \subseteq {"receive"}, IncomingInv, [Next]_vars
    PROVE  IncomingInv'
<1>0. TypeOK /\ ReceiptInv'
  BY ReceiptNext DEF IncomingInv, ReceiptInv
<1>1. CASE UNCHANGED vars
  <2>1. UNCHANGED <<stock, po, received, req>>
    BY <1>1 DEF vars
  <2>. QED BY <1>0, <2>1 DEF IncomingInv, IncomingExact
<1>2. ASSUME NEW r \in Request, Rollback(r) PROVE IncomingInv'
  <2>1. UNCHANGED <<stock, po, received>> /\ Done(r)
    BY <1>2 DEF Rollback
  <2>2. \A q \in Request : req'[q] = Idle \/ req'[q] = req[q]
    BY <1>0, <2>1, DoneReq
  <2>. QED BY <1>0, <2>1, <2>2 DEF IncomingInv, IncomingExact
<1>. QED BY <1>0, <1>1, <1>2, NextCases, IncomingCreate, IncomingBegin, IncomingConfirm,
            IncomingCancel, IncomingUpdate, IncomingReceive

\* `incoming` of a stock row is what the live orders still have to bring there,
\* as long as no confirmation, cancellation or edit overlaps another request on
\* its order; goods receipts may overlap one another as they like.
THEOREM IncomingIsExact ==
    ASSUME Overlap \subseteq {"receive"}
    PROVE  Spec => []IncomingExact
<1>1. IncomingInv /\ [Next]_vars => IncomingInv'
  BY IncomingNext
<1>2. IncomingInv => IncomingExact
  BY DEF IncomingInv
<1>. QED BY <1>1, <1>2, IncomingInit, PTL DEF Spec
=============================================================================
