-------------------------- MODULE SalesFlow_proofs --------------------------
(***************************************************************************)
(* Proofs about SalesFlow, for any number of orders, SKUs, warehouses,     *)
(* requests and quantities.  The bounds MaxOnHand and MaxEdits play no     *)
(* part in them.                                                           *)
(***************************************************************************)
EXTENDS SalesFlow, StockRow_proofs, TLAPS

\* The quantity asked of a row is a quantity.
LEMMA QtyAtNat ==
    ASSUME NEW w \in Warehouse, NEW lines \in [Sku -> Nat], NEW c \in Cell
    PROVE  QtyAt(w, lines, c) \in Nat
  BY DEF QtyAt, Cell

\* The empty payload is a payload.
LEMMA NoLinesType == NoLines \in [Sku -> Nat]
  BY DEF NoLines

\* A request that does anything carries an order, a snapshot and a payload.
LEMMA ActiveRequest ==
    ASSUME TypeOK, NEW r \in Request, req[r].op # "idle"
    PROVE  req[r] \in InFlight
  BY DEF TypeOK, Idle

\* What a cancellation releases is never negative, whatever the order row says.
LEMMA ToReleaseType ==
    ASSUME NEW row \in OrderRow
    PROVE  ToRelease(row) \in [Sku -> Nat]
  BY DEF ToRelease, OrderRow, Outstanding

-----------------------------------------------------------------------------
(* Steps, requests and snapshots *)

\* The disjuncts of Next, with what every Begin... checked on the order it read.
Began(r, o, op, lines, w) ==
    /\ Begin(r, op, o, lines, w)
    /\ so[o].status # "NONE"
    /\ op \in {"confirm", "edit"} => so[o].status = "DRAFT"
    /\ op = "cancel" => so[o].status \in {"DRAFT", "CONFIRMED"}
    /\ op = "edit" => (~EditWarehouse => w = so[o].wh)
    /\ op = "ship" => /\ so[o].status \in Open
                      /\ lines # NoLines
                      /\ \A s \in Sku : lines[s] <= Outstanding(so[o], s)

\* The shape of a step: the four Begin... actions are one.
LEMMA NextCases ==
    ASSUME TypeOK, [Next]_vars
    PROVE  \/ UNCHANGED vars
           \/ \E o \in Order : CreateSO(o)
           \/ \E r \in Request, o \in Order,
                 op \in {"confirm", "cancel", "edit", "ship"},
                 lines \in [Sku -> Nat], w \in Warehouse :
                    Began(r, o, op, lines, w)
           \/ \E r \in Request : \/ ConfirmSO(r)
                                 \/ CancelSO(r)
                                 \/ UpdateSO(r)
                                 \/ CreateDO(r)
                                 \/ Rollback(r)
           \/ \E c \in Cell, q \in 1 .. MaxOnHand : Supply(c, q)
<1>1. \A o \in Order : so[o].wh \in Warehouse
  BY DEF TypeOK, OrderRow
<1>2. ASSUME NEW r \in Request, NEW o \in Order, BeginConfirm(r, o)
      PROVE  Began(r, o, "confirm", NoLines, so[o].wh)
  BY <1>2 DEF BeginConfirm, Began
<1>3. ASSUME NEW r \in Request, NEW o \in Order, NEW privileged \in BOOLEAN,
             BeginCancel(r, o, privileged)
      PROVE  Began(r, o, "cancel", NoLines, so[o].wh)
  BY <1>3 DEF BeginCancel, Began
<1>4. ASSUME NEW r \in Request, NEW o \in Order, NEW lines, NEW w,
             BeginUpdate(r, o, lines, w)
      PROVE  Began(r, o, "edit", lines, w)
  BY <1>4 DEF BeginUpdate, Began
<1>5. ASSUME NEW r \in Request, NEW o \in Order, NEW lines,
             BeginDO(r, o, lines)
      PROVE  Began(r, o, "ship", lines, so[o].wh)
  BY <1>5 DEF BeginDO, Began, Open
<1>6. /\ Baskets \cup {NoLines} \subseteq [Sku -> Nat]
      /\ [Sku -> 0 .. MaxOnHand] \subseteq [Sku -> Nat]
  BY BasketsAssumption, BoundsAssumption, NoLinesType
<1>. DEFINE Reading == \E r \in Request, o \in Order,
                 op \in {"confirm", "cancel", "edit", "ship"},
                 lines \in [Sku -> Nat], w \in Warehouse :
                    Began(r, o, op, lines, w)
<1>7. ASSUME NEW r \in Request, NEW o \in Order,
             \/ BeginConfirm(r, o)
             \/ \E privileged \in BOOLEAN : BeginCancel(r, o, privileged)
             \/ \E lines \in Baskets \cup {NoLines}, w \in Warehouse :
                    BeginUpdate(r, o, lines, w)
             \/ \E lines \in [Sku -> 0 .. MaxOnHand] : BeginDO(r, o, lines)
      PROVE  Reading
  <2>1. CASE BeginConfirm(r, o)
    BY <1>1, <1>2, <2>1, NoLinesType
  <2>2. ASSUME NEW privileged \in BOOLEAN, BeginCancel(r, o, privileged)
        PROVE  Reading
    BY <1>1, <1>3, <2>2, NoLinesType
  <2>3. ASSUME NEW lines \in Baskets \cup {NoLines}, NEW w \in Warehouse,
               BeginUpdate(r, o, lines, w)
        PROVE  Reading
    BY <1>4, <1>6, <2>3
  <2>4. ASSUME NEW lines \in [Sku -> 0 .. MaxOnHand], BeginDO(r, o, lines)
        PROVE  Reading
    BY <1>1, <1>5, <1>6, <2>4
  <2>. QED  BY <1>7, <2>1, <2>2, <2>3, <2>4
<1>. HIDE DEF Reading
<1>8. ASSUME Next
      PROVE  \/ \E o \in Order : CreateSO(o)
             \/ Reading
             \/ \E r \in Request : ConfirmSO(r) \/ CancelSO(r) \/ UpdateSO(r)
                                      \/ CreateDO(r) \/ Rollback(r)
             \/ \E c \in Cell, q \in 1 .. MaxOnHand : Supply(c, q)
  BY <1>7, <1>8, Zenon DEF Next
<1>9. CASE UNCHANGED vars
  BY <1>9
<1>10. CASE Next
  BY <1>8, <1>10, Zenon DEF Reading
<1>. QED  BY <1>9, <1>10

\* The system starts well-formed and not oversold.
LEMMA InitType == Init => TypeOK /\ NoOversell
<1>. SUFFICES ASSUME Init PROVE TypeOK /\ NoOversell
  OBVIOUS
<1>1. [EmptyRow EXCEPT !.on_hand = InitialOnHand] \in Row
      /\ Available([EmptyRow EXCEPT !.on_hand = InitialOnHand]) >= 0
  BY BoundsAssumption DEF EmptyRow, Row, Available
<1>2. stock \in [Cell -> Row] /\ NoOversell
  BY <1>1 DEF Init, NoOversell
<1>3. so \in [Order -> OrderRow]
  BY NoLinesType DEF Init, OrderRow
<1>4. delivered \in [Order -> [Sku -> Nat]] /\ req \in [Request -> {Idle}]
  BY NoLinesType DEF Init
<1>. QED  BY <1>2, <1>3, <1>4 DEF TypeOK

\* Writing the status of an order leaves the orders well-formed.
LEMMA SetStatusType ==
    ASSUME TypeOK, NEW o \in Order, NEW status \in Status
    PROVE  [so EXCEPT ![o].status = status] \in [Order -> OrderRow]
<1>1. so \in [Order -> OrderRow] /\ so[o] \in OrderRow
  BY DEF TypeOK
<1>2. [so[o] EXCEPT !.status = status] \in OrderRow
  BY <1>1 DEF OrderRow
<1>. QED  BY <1>1, <1>2

\* A request starts with a well-formed snapshot.
LEMMA BeginType ==
    ASSUME TypeOK, NEW r \in Request, NEW o \in Order,
           NEW op \in {"confirm", "cancel", "edit", "ship"},
           NEW lines \in [Sku -> Nat], NEW w \in Warehouse,
           Begin(r, op, o, lines, w)
    PROVE  req' \in [Request -> InFlight \cup {Idle}]
<1>1. [c \in Cell |-> stock[c].version] \in [Cell -> Nat]
  BY DEF TypeOK, Row
<1>2. so[o] \in OrderRow
  BY DEF TypeOK
<1>3. [op |-> op, order |-> o, row |-> so[o],
       ver |-> [c \in Cell |-> stock[c].version],
       lines |-> lines, wh |-> w] \in InFlight
  BY <1>1, <1>2 DEF InFlight
<1>. QED  BY <1>3 DEF TypeOK, Begin

\* A request that ends leaves a well-formed table of requests.
LEMMA DoneType ==
    ASSUME TypeOK, NEW r \in Request, Done(r)
    PROVE  req' \in [Request -> InFlight \cup {Idle}]
  BY DEF TypeOK, Done

-----------------------------------------------------------------------------
(* What any step does to the stock rows *)

\* One statement of the sales side, or a goods receipt, on the row as it is.
SaleStep(s, n) ==
    \E q \in Nat : \/ ReserveOK(s, q) /\ n = Reserve(s, q)
                   \/ UnreserveOK(s, q) /\ n = Unreserve(s, q)
                   \/ SalesOutOK(s, s.version, q) /\ n = SalesOut(s, q)
                   \/ n = PurchaseIn(s, q)

\* Such a statement leaves a well-formed row that is not oversold if it was not.
LEMMA SaleStepRow ==
    ASSUME NEW s \in Row, NEW n, SaleStep(s, n)
    PROVE  /\ n \in Row
           /\ n.version = s.version + 1
           /\ Available(s) >= 0 => Available(n) >= 0
<1>. PICK q \in Nat : \/ ReserveOK(s, q) /\ n = Reserve(s, q)
                      \/ UnreserveOK(s, q) /\ n = Unreserve(s, q)
                      \/ SalesOutOK(s, s.version, q) /\ n = SalesOut(s, q)
                      \/ n = PurchaseIn(s, q)
  BY DEF SaleStep
<1>0. Available(s) \in Int
  BY DEF Available, Row
<1>1. CASE ReserveOK(s, q) /\ n = Reserve(s, q)
  <2>1. /\ n \in Row /\ n.version = s.version + 1
        /\ Available(n) = Available(s) - q
    BY <1>1, ReserveRow
  <2>2. Available(s) >= q
    BY <1>1 DEF ReserveOK
  <2>. QED  BY <1>0, <2>1, <2>2
<1>2. CASE UnreserveOK(s, q) /\ n = Unreserve(s, q)
  BY <1>0, <1>2, UnreserveRow
<1>3. CASE SalesOutOK(s, s.version, q) /\ n = SalesOut(s, q)
  BY <1>0, <1>3, SalesOutRow
<1>4. CASE n = PurchaseIn(s, q)
  BY <1>0, <1>4, PurchaseInRow
<1>. QED  BY <1>1, <1>2, <1>3, <1>4

\* Every commit changes each row by at most one such statement, however old
\* the snapshot is on which the request rests.
LEMMA StockMoves ==
    ASSUME TypeOK, [Next]_vars
    PROVE  /\ stock' = [c \in Cell |-> stock'[c]]
           /\ \A c \in Cell : stock'[c] = stock[c] \/ SaleStep(stock[c], stock'[c])
<1>. DEFINE Moves == /\ stock' = [c \in Cell |-> stock'[c]]
                     /\ \A c \in Cell : \/ stock'[c] = stock[c]
                                        \/ SaleStep(stock[c], stock'[c])
<1>1. ASSUME UNCHANGED stock PROVE Moves
  BY <1>1 DEF TypeOK
<1>2. ASSUME NEW r \in Request, ConfirmSO(r) PROVE Moves
  <2>. DEFINE t == req[r]
              Q(c) == QtyAt(t.row.wh, t.row.ordered, c)
  <2>1. t \in InFlight
    BY <1>2, ActiveRequest DEF ConfirmSO
  <2>2. \A c \in Cell : Q(c) \in Nat
    BY <2>1, QtyAtNat DEF InFlight, OrderRow
  <2>3. ASSUME NEW c \in Cell
        PROVE  \/ stock'[c] = stock[c]
               \/ ReserveOK(stock[c], Q(c)) /\ stock'[c] = Reserve(stock[c], Q(c))
    BY <1>2 DEF ConfirmSO, CanReserve
  <2>4. stock' = [c \in Cell |-> stock'[c]]
    BY <1>2 DEF ConfirmSO
  <2>. QED  BY <2>2, <2>3, <2>4 DEF SaleStep
<1>3. ASSUME NEW r \in Request, CancelSO(r) PROVE Moves
  <2>. DEFINE t == req[r]
              Q(c) == QtyAt(t.row.wh, ToRelease(t.row), c)
  <2>1. t \in InFlight
    BY <1>3, ActiveRequest DEF CancelSO
  <2>2. \A c \in Cell : Q(c) \in Nat
    BY <2>1, QtyAtNat, ToReleaseType DEF InFlight, OrderRow
  <2>3. ASSUME NEW c \in Cell
        PROVE  \/ stock'[c] = stock[c]
               \/ /\ UnreserveOK(stock[c], Q(c))
                  /\ stock'[c] = Unreserve(stock[c], Q(c))
    BY <1>3 DEF CancelSO
  <2>4. stock' = [c \in Cell |-> stock'[c]]
    BY <1>3 DEF CancelSO
  <2>. QED  BY <2>2, <2>3, <2>4 DEF SaleStep
<1>4. ASSUME NEW r \in Request, CreateDO(r) PROVE Moves
  <2>. DEFINE t == req[r]
              Q(c) == QtyAt(t.row.wh, t.lines, c)
  <2>1. t \in InFlight
    BY <1>4, ActiveRequest DEF CreateDO
  <2>2. \A c \in Cell : Q(c) \in Nat
    BY <2>1, QtyAtNat DEF InFlight, OrderRow
  <2>3. ASSUME NEW c \in Cell
        PROVE  \/ stock'[c] = stock[c]
               \/ /\ SalesOutOK(stock[c], t.ver[c], Q(c))
                  /\ stock'[c] = SalesOut(stock[c], Q(c))
    BY <1>4 DEF CreateDO
  <2>4. \A c \in Cell : SalesOutOK(stock[c], t.ver[c], Q(c)) =>
                            SalesOutOK(stock[c], stock[c].version, Q(c))
    BY DEF SalesOutOK
  <2>5. stock' = [c \in Cell |-> stock'[c]]
    BY <1>4 DEF CreateDO
  <2>. QED  BY <2>2, <2>3, <2>4, <2>5 DEF SaleStep
<1>5. ASSUME NEW d \in Cell, NEW q \in 1 .. MaxOnHand, Supply(d, q) PROVE Moves
  <2>1. q \in Nat
    BY BoundsAssumption
  <2>2. stock' = [stock EXCEPT ![d] = PurchaseIn(stock[d], q)]
    BY <1>5 DEF Supply
  <2>3. ASSUME NEW c \in Cell
        PROVE  stock'[c] = stock[c] \/ stock'[c] = PurchaseIn(stock[c], q)
    BY <2>2 DEF TypeOK
  <2>4. stock' = [c \in Cell |-> stock'[c]]
    BY <2>2 DEF TypeOK
  <2>. QED  BY <2>1, <2>3, <2>4 DEF SaleStep
<1>6. ASSUME \/ UNCHANGED vars
             \/ \E o \in Order : CreateSO(o)
             \/ \E r \in Request, o \in Order,
                   op \in {"confirm", "cancel", "edit", "ship"},
                   lines \in [Sku -> Nat], w \in Warehouse :
                      Began(r, o, op, lines, w)
             \/ \E r \in Request : UpdateSO(r) \/ Rollback(r)
      PROVE  UNCHANGED stock
  BY ZenonT(40), <1>6 DEF vars, CreateSO, Began, Begin, UpdateSO, Rollback
<1>. HIDE DEF Moves
<1>7. Moves
  BY <1>1, <1>2, <1>3, <1>4, <1>5, <1>6, NextCases
<1>. QED  BY <1>7 DEF Moves

\* No step turns the clock of a row back.
LEMMA VersionsGrow ==
    ASSUME TypeOK, [Next]_vars
    PROVE  \A c \in Cell : /\ stock[c].version \in Nat
                           /\ stock[c].version <= stock'[c].version
<1>1. \A c \in Cell : stock[c] \in Row /\ stock[c].version \in Nat
  BY DEF TypeOK, Row
<1>2. \A c \in Cell : \/ stock'[c] = stock[c]
                      \/ stock'[c].version = stock[c].version + 1
  BY <1>1, StockMoves, SaleStepRow
<1>. QED  BY <1>1, <1>2

-----------------------------------------------------------------------------
(* Types, and the guard against overselling *)

\* One step keeps every row well-formed and `available` nonnegative.
LEMMA NextType == TypeOK /\ NoOversell /\ [Next]_vars => TypeOK' /\ NoOversell'
<1>. SUFFICES ASSUME TypeOK, NoOversell, [Next]_vars
              PROVE  TypeOK' /\ NoOversell'
  OBVIOUS
<1>. DEFINE Rest == /\ so' \in [Order -> OrderRow]
                    /\ delivered' \in [Order -> [Sku -> Nat]]
                    /\ req' \in [Request -> InFlight \cup {Idle}]
<1>0. stock' \in [Cell -> Row] /\ NoOversell'
  <2>1. \A c \in Cell : stock[c] \in Row /\ Available(stock[c]) >= 0
    BY DEF TypeOK, NoOversell
  <2>2. \A c \in Cell : stock'[c] \in Row /\ Available(stock'[c]) >= 0
    BY <2>1, StockMoves, SaleStepRow
  <2>. QED  BY <2>2, StockMoves DEF NoOversell
<1>1. ASSUME UNCHANGED vars PROVE Rest
  BY <1>1 DEF vars, TypeOK
<1>2. ASSUME NEW o \in Order, CreateSO(o) PROVE Rest
  <2>1. PICK lines \in Baskets, w \in Warehouse :
           so' = [so EXCEPT ![o] = [status |-> "DRAFT", gen |-> 0, wh |-> w,
                                    ordered |-> lines, shipped |-> NoLines]]
    BY <1>2 DEF CreateSO
  <2>2. [status |-> "DRAFT", gen |-> 0, wh |-> w,
         ordered |-> lines, shipped |-> NoLines] \in OrderRow
    BY BasketsAssumption, NoLinesType DEF OrderRow, Status
  <2>3. so' \in [Order -> OrderRow]
    BY <2>1, <2>2 DEF TypeOK
  <2>. QED  BY <1>2, <2>3 DEF CreateSO, TypeOK
<1>3. ASSUME NEW r \in Request, NEW o \in Order,
             NEW op \in {"confirm", "cancel", "edit", "ship"},
             NEW lines \in [Sku -> Nat], NEW w \in Warehouse,
             Began(r, o, op, lines, w)
      PROVE  Rest
  <2>1. Begin(r, op, o, lines, w)
    BY <1>3 DEF Began
  <2>2. req' \in [Request -> InFlight \cup {Idle}]
    BY <2>1, BeginType
  <2>3. UNCHANGED <<stock, so, delivered>>
    BY <2>1 DEF Begin
  <2>. QED  BY <2>2, <2>3 DEF TypeOK
<1>4. ASSUME NEW r \in Request, ConfirmSO(r) PROVE Rest
  <2>1. req[r] \in InFlight
    BY <1>4, ActiveRequest DEF ConfirmSO
  <2>2. so' \in [Order -> OrderRow]
    BY <1>4, <2>1, SetStatusType DEF ConfirmSO, Status, InFlight
  <2>. QED  BY <1>4, <2>2, DoneType DEF ConfirmSO, TypeOK
<1>5. ASSUME NEW r \in Request, CancelSO(r) PROVE Rest
  <2>1. req[r] \in InFlight
    BY <1>5, ActiveRequest DEF CancelSO
  <2>2. so' \in [Order -> OrderRow]
    BY <1>5, <2>1, SetStatusType DEF CancelSO, Status, InFlight
  <2>. QED  BY <1>5, <2>2, DoneType DEF CancelSO, TypeOK
<1>6. ASSUME NEW r \in Request, UpdateSO(r) PROVE Rest
  <2>1. req[r] \in InFlight
    BY <1>6, ActiveRequest DEF UpdateSO
  <2>2. so' \in [Order -> OrderRow]
    BY <1>6, <2>1, NoLinesType DEF UpdateSO, TypeOK, OrderRow, InFlight
  <2>. QED  BY <1>6, <2>2, DoneType DEF UpdateSO, TypeOK
<1>7. ASSUME NEW r \in Request, CreateDO(r) PROVE Rest
  <2>. DEFINE t == req[r]
              st == IF (IF FullyShipped(t) THEN "FULLY_SHIPPED"
                        ELSE "PARTIAL_SHIPPED") # t.row.status
                    THEN (IF FullyShipped(t) THEN "FULLY_SHIPPED"
                          ELSE "PARTIAL_SHIPPED")
                    ELSE so[t.order].status
              sh == ShippedAfter(t)
  <2>1. t \in InFlight
    BY <1>7, ActiveRequest DEF CreateDO
  <2>2. t.order \in Order /\ so[t.order] \in OrderRow
    BY <2>1 DEF InFlight, TypeOK
  <2>3. sh \in [Sku -> Nat]
    BY <2>1, <2>2 DEF InFlight, OrderRow, ShippedAfter
  <2>4. st \in Status \cup {"NONE"}
    BY <2>2 DEF OrderRow, Status
  <2>5. so' = [so EXCEPT ![t.order] = [@ EXCEPT !.shipped = sh, !.status = st]]
    BY <1>7 DEF CreateDO
  <2>. HIDE DEF sh, st
  <2>6. [so[t.order] EXCEPT !.shipped = sh, !.status = st] \in OrderRow
    BY <2>2, <2>3, <2>4 DEF OrderRow
  <2>7. so' \in [Order -> OrderRow]
    BY <2>2, <2>5, <2>6 DEF TypeOK
  <2>8. delivered' \in [Order -> [Sku -> Nat]]
    BY <1>7, <2>1 DEF CreateDO, TypeOK, InFlight
  <2>. QED  BY <1>7, <2>7, <2>8, DoneType DEF CreateDO
<1>8. ASSUME NEW r \in Request, Rollback(r) PROVE Rest
  BY <1>8, DoneType DEF Rollback, TypeOK
<1>9. ASSUME NEW c \in Cell, NEW q \in 1 .. MaxOnHand, Supply(c, q) PROVE Rest
  BY <1>9 DEF Supply, TypeOK
<1>. HIDE DEF Rest
<1>10. Rest
  BY <1>1, <1>2, <1>3, <1>4, <1>5, <1>6, <1>7, <1>8, <1>9, NextCases
<1>. QED  BY <1>0, <1>10 DEF Rest, TypeOK

\* Every reachable state is well-formed.
THEOREM TypeCorrect == Spec => []TypeOK
<1>1. TypeOK /\ NoOversell /\ [Next]_vars => (TypeOK /\ NoOversell)'
  BY NextType
<1>2. Init => TypeOK /\ NoOversell
  BY InitType
<1>. QED  BY <1>1, <1>2, PTL DEF Spec

\* No interleaving of requests oversells a stock row: apply_reserve's guarded
\* UPDATE is enough, without locks and for any number of requests.
THEOREM NeverOversold == Spec => []NoOversell
<1>1. TypeOK /\ NoOversell /\ [Next]_vars => (TypeOK /\ NoOversell)'
  BY NextType
<1>2. Init => TypeOK /\ NoOversell
  BY InitType
<1>. QED  BY <1>1, <1>2, PTL DEF Spec

-----------------------------------------------------------------------------
(* The sales side keeps the contract of the stock ledger *)

\* Each statement the sales side issues is one of the ledger's, for a quantity
\* by which one of the columns moved.
LEMMA SaleStepIsStatement ==
    ASSUME NEW s \in Row, NEW n, SaleStep(s, n)
    PROVE  Ledger!Statement(s, n)
<1>. PICK q \in Nat : \/ ReserveOK(s, q) /\ n = Reserve(s, q)
                      \/ UnreserveOK(s, q) /\ n = Unreserve(s, q)
                      \/ SalesOutOK(s, s.version, q) /\ n = SalesOut(s, q)
                      \/ n = PurchaseIn(s, q)
  BY DEF SaleStep
<1>0. /\ s.on_hand \in Nat /\ s.reserved \in Nat
      /\ s.incoming \in Int /\ s.in_transit \in Nat
  BY DEF Row
<1>1. CASE ReserveOK(s, q) /\ n = Reserve(s, q)
  <2>1. n.reserved = s.reserved + q
    BY <1>1 DEF Reserve, Bump, Row
  <2>2. q \in Ledger!Moved(s, n)
    BY <1>0, <2>1 DEF Ledger!Moved, Ledger!Distance
  <2>3. n \in Ledger!After("sell", s, q)
    BY <1>1 DEF Ledger!After, Ledger!Sell, Ledger!Reserve, Ledger!ReserveOK,
                Ledger!Bump, Ledger!Available, Reserve, ReserveOK, Bump, Available
  <2>. QED  BY <2>2, <2>3 DEF Ledger!Statement
<1>2. CASE UnreserveOK(s, q) /\ n = Unreserve(s, q)
  <2>1. n.reserved = s.reserved - q
    BY <1>2 DEF Unreserve, Bump, Row
  <2>2. q \in Ledger!Moved(s, n)
    BY <1>0, <2>1 DEF Ledger!Moved, Ledger!Distance
  <2>3. n \in Ledger!After("sell", s, q)
    BY <1>2 DEF Ledger!After, Ledger!Sell, Ledger!Unreserve, Ledger!UnreserveOK,
                Ledger!Bump, Unreserve, UnreserveOK, Bump
  <2>. QED  BY <2>2, <2>3 DEF Ledger!Statement
<1>3. CASE SalesOutOK(s, s.version, q) /\ n = SalesOut(s, q)
  <2>1. n.on_hand = s.on_hand - q
    BY <1>3 DEF SalesOut, Bump, Row
  <2>2. q \in Ledger!Moved(s, n)
    BY <1>0, <2>1 DEF Ledger!Moved, Ledger!Distance
  <2>3. n \in Ledger!After("sell", s, q)
    BY <1>3 DEF Ledger!After, Ledger!Sell, Ledger!SalesOut, Ledger!SalesOutOK,
                Ledger!Bump, SalesOut, SalesOutOK, Bump
  <2>. QED  BY <2>2, <2>3 DEF Ledger!Statement
<1>4. CASE n = PurchaseIn(s, q)
  <2>1. n.on_hand = s.on_hand + q
    BY <1>4 DEF PurchaseIn, Bump, Row
  <2>2. q \in Ledger!Moved(s, n)
    BY <1>0, <2>1 DEF Ledger!Moved, Ledger!Distance
  <2>3. n \in Ledger!After("buy", s, q)
    BY <1>4 DEF Ledger!After, Ledger!Buy, Ledger!PurchaseIn, Ledger!Bump,
                PurchaseIn, Bump
  <2>. QED  BY <2>2, <2>3 DEF Ledger!Statement
<1>. QED  BY <1>1, <1>2, <1>3, <1>4

\* Seen from the stock rows alone, sales orders and deliveries do nothing but
\* what the ledger allows: the detailed specification implements the abstract one.
THEOREM SalesImplementsLedger == Spec => KeepsLedger
<1>1. Init => Ledger!Init
  BY DEF Init, Ledger!Init, EmptyRow, Ledger!EmptyRow
<1>2. TypeOK /\ [Next]_vars => [Ledger!Commit]_stock
  <2>. SUFFICES ASSUME TypeOK, [Next]_vars PROVE Ledger!Commit
    OBVIOUS
  <2>1. \A c \in Cell : stock[c] \in Row
    BY DEF TypeOK
  <2>2. \A c \in Cell : \/ stock'[c] = stock[c]
                        \/ Ledger!Statement(stock[c], stock'[c])
    BY <2>1, StockMoves, SaleStepIsStatement
  <2>. QED  BY <2>2, StockMoves DEF Ledger!Commit
<1>. QED  BY <1>1, <1>2, TypeCorrect, PTL DEF Spec, KeepsLedger, Ledger!Spec

-----------------------------------------------------------------------------
(* Shipments, when draft edits cannot move an order to another warehouse *)

\* The inductive invariant: a snapshot that still matches the version of the
\* stock row also matches the order line, so what create_do writes over the
\* line is its current quantity plus the shipment.
IInv == TypeOK /\ SnapshotInv /\ ShipmentsRecorded /\ NoOverShipment

\* What any committed step does to an order o that exists: versions never go
\* back, lines are replaced only under a new gen, and qty_shipped changes only
\* together with the version of the stock row it ships from.
Advances(o) ==
    /\ \A c \in Cell : stock[c].version <= stock'[c].version
    /\ so'[o].status # "NONE"
    /\ so[o].gen <= so'[o].gen
    /\ so'[o].gen = so[o].gen =>
          /\ so'[o].wh = so[o].wh
          /\ so'[o].ordered = so[o].ordered
          /\ \A s \in Sku :
                so'[o].shipped[s] # so[o].shipped[s] =>
                    stock[<<so[o].wh, s>>].version
                        < stock'[<<so[o].wh, s>>].version

\* A snapshot survives any such step.
LEMMA SnapshotKept ==
    ASSUME TypeOK, TypeOK', NEW t \in InFlight, SnapshotFits(t),
           Advances(t.order)
    PROVE  SnapshotFits(t)'
<1>. DEFINE o == t.order
<1>1. /\ o \in Order /\ t.row.gen \in Nat /\ t.ver \in [Cell -> Nat]
      /\ so[o].gen \in Nat /\ so'[o].gen \in Nat
      /\ so[o].wh \in Warehouse
  BY DEF TypeOK, InFlight, OrderRow
<1>2. \A c \in Cell : stock[c].version \in Nat /\ stock'[c].version \in Nat
  BY DEF TypeOK, Row
<1>3. so'[o].status # "NONE" /\ t.row.gen <= so'[o].gen
  BY <1>1 DEF SnapshotFits, Advances
<1>4. /\ t.op = "edit" => t.wh = t.row.wh
      /\ t.op = "ship" => \A s \in Sku : t.lines[s] <= Outstanding(t.row, s)
  BY DEF SnapshotFits
<1>5. \A c \in Cell : t.ver[c] <= stock'[c].version
  BY <1>1, <1>2 DEF SnapshotFits, Advances
<1>6. ASSUME t.row.gen = so'[o].gen
      PROVE  /\ t.row.wh = so'[o].wh
             /\ t.row.ordered = so'[o].ordered
             /\ \A s \in Sku :
                   t.ver[<<so'[o].wh, s>>] = stock'[<<so'[o].wh, s>>].version =>
                       t.row.shipped[s] = so'[o].shipped[s]
  <2>1. t.row.gen = so[o].gen /\ so'[o].gen = so[o].gen
    BY <1>1, <1>6 DEF SnapshotFits, Advances
  <2>2. /\ t.row.wh = so[o].wh /\ so'[o].wh = so[o].wh
        /\ t.row.ordered = so[o].ordered /\ so'[o].ordered = so[o].ordered
    BY <2>1 DEF SnapshotFits, Advances
  <2>3. ASSUME NEW s \in Sku,
               t.ver[<<so[o].wh, s>>] = stock'[<<so[o].wh, s>>].version
        PROVE  t.row.shipped[s] = so'[o].shipped[s]
    <3>. DEFINE c == <<so[o].wh, s>>
    <3>1. c \in Cell
      BY <1>1 DEF Cell
    <3>2. t.ver[c] <= stock[c].version /\ stock[c].version <= stock'[c].version
      BY <3>1 DEF SnapshotFits, Advances
    <3>3. t.ver[c] = stock[c].version /\ stock[c].version = stock'[c].version
      BY <1>1, <1>2, <2>3, <3>1, <3>2
    <3>4. t.row.shipped[s] = so[o].shipped[s]
      BY <2>1, <3>3 DEF SnapshotFits
    <3>5. so'[o].shipped[s] = so[o].shipped[s]
      BY <1>2, <2>1, <3>1, <3>3 DEF Advances
    <3>. QED  BY <3>4, <3>5
  <2>. QED  BY <2>2, <2>3
<1>. QED  BY <1>3, <1>4, <1>5, <1>6 DEF SnapshotFits

\* A fresh snapshot fits the state it was taken in.
LEMMA SnapshotFresh ==
    ASSUME TypeOK, ~EditWarehouse, NEW r \in Request, NEW o \in Order, NEW op,
           NEW lines, NEW w, Began(r, o, op, lines, w)
    PROVE  SnapshotFits(req[r])'
<1>1. req'[r] = [op |-> op, order |-> o, row |-> so[o],
                 ver |-> [c \in Cell |-> stock[c].version],
                 lines |-> lines, wh |-> w]
      /\ UNCHANGED <<stock, so>>
  BY DEF Began, Begin, TypeOK
<1>2. so[o].gen \in Nat /\ \A c \in Cell : stock[c].version \in Nat
  BY DEF TypeOK, OrderRow, Row
<1>3. op = "edit" => w = so[o].wh
  BY DEF Began
<1>4. op = "ship" => \A s \in Sku : lines[s] <= so[o].ordered[s] - so[o].shipped[s]
  BY DEF Began, Outstanding
<1>5. so[o].status # "NONE"
  BY DEF Began
<1>. QED  BY <1>1, <1>2, <1>3, <1>4, <1>5 DEF SnapshotFits, Outstanding

\* Requests that were in flight before a step and still are keep fitting.
LEMMA OthersFit ==
    ASSUME IInv, TypeOK', NEW q \in Request, req[q] # Idle, req'[q] = req[q],
           \A o \in Order : so[o].status # "NONE" => Advances(o)
    PROVE  SnapshotFits(req[q])'
<1>1. req[q] \in InFlight /\ SnapshotFits(req[q])
  BY DEF IInv, TypeOK, SnapshotInv
<1>2. req[q].order \in Order /\ so[req[q].order].status # "NONE"
  BY <1>1 DEF InFlight, SnapshotFits
<1>3. Advances(req[q].order)
  BY <1>2
<1>4. \A t \in InFlight : SnapshotFits(t) /\ Advances(t.order) => SnapshotFits(t)'
  BY SnapshotKept DEF IInv
<1>5. PICK t \in InFlight : t = req[q]
  BY <1>1
<1>6. SnapshotFits(t)'
  BY <1>1, <1>3, <1>4, <1>5
<1>7. t = req'[q]
  BY <1>5
<1>. QED  BY <1>6, <1>7 DEF SnapshotFits

\* What is left to show of a step once it is known how it advances the orders.
LEMMA StepKeepsIInv ==
    ASSUME IInv, TypeOK', NEW r \in Request,
           \A q \in Request \ {r} : req'[q] = req[q],
           req'[r] = Idle \/ SnapshotFits(req[r])',
           \A o \in Order : so[o].status # "NONE" => Advances(o),
           \A o \in Order : so'[o].status = "NONE" => delivered'[o] = NoLines,
           ShipmentsRecorded', NoOverShipment'
    PROVE  IInv'
<1>1. \A q \in Request : req'[q] # Idle => SnapshotFits(req[q])'
  BY OthersFit
<1>. QED  BY <1>1 DEF IInv, SnapshotInv

\* A request that ends leaves the other requests as they were.
LEMMA DoneReq ==
    ASSUME TypeOK, NEW r \in Request, Done(r)
    PROVE  req'[r] = Idle /\ \A q \in Request \ {r} : req'[q] = req[q]
  BY DEF Done, TypeOK

\* Steps that only move versions forward and leave the lines alone.
LEMMA LinesUntouched ==
    ASSUME IInv, TypeOK',
           \A c \in Cell : stock[c].version <= stock'[c].version,
           \A o \in Order : /\ so'[o].gen = so[o].gen
                            /\ so'[o].wh = so[o].wh
                            /\ so'[o].ordered = so[o].ordered
                            /\ so'[o].shipped = so[o].shipped
                            /\ so[o].status # "NONE" => so'[o].status # "NONE",
           delivered' = delivered
    PROVE  /\ \A o \in Order : so[o].status # "NONE" => Advances(o)
           /\ \A o \in Order : so'[o].status = "NONE" => delivered'[o] = NoLines
           /\ ShipmentsRecorded' /\ NoOverShipment'
<1>1. \A o \in Order : so[o].gen \in Nat
  BY DEF IInv, TypeOK, OrderRow
<1>2. \A o \in Order : so[o].status # "NONE" => Advances(o)
  BY <1>1 DEF Advances
<1>3. \A o \in Order : so'[o].status = "NONE" => delivered'[o] = NoLines
  BY DEF IInv, SnapshotInv
<1>4. ShipmentsRecorded' /\ NoOverShipment'
  BY DEF IInv, ShipmentsRecorded, NoOverShipment
<1>. QED  BY <1>2, <1>3, <1>4

\* The inductive invariant holds at the start.
LEMMA InitIInv == Init => IInv
<1>. SUFFICES ASSUME Init PROVE IInv
  OBVIOUS
<1>1. TypeOK
  BY InitType
<1>2. SnapshotInv
  BY DEF Init, SnapshotInv
<1>3. ShipmentsRecorded
  BY DEF Init, ShipmentsRecorded
<1>4. NoOverShipment
  BY DEF Init, NoOverShipment, NoLines
<1>. QED  BY <1>1, <1>2, <1>3, <1>4 DEF IInv

\* Every step preserves the inductive invariant; CreateDO is the case that needs it.
LEMMA NextIInv ==
    ASSUME IInv, NoOversell, [Next]_vars, ~EditWarehouse
    PROVE  IInv'
<1>. USE DEF IInv
<1>0. TypeOK'
  BY NextType
<1>v. \A c \in Cell : stock[c].version <= stock'[c].version
  BY VersionsGrow
<1>1. CASE UNCHANGED vars
  BY <1>1 DEF vars, TypeOK, SnapshotInv, SnapshotFits, ShipmentsRecorded,
              NoOverShipment
<1>2. ASSUME NEW o \in Order, CreateSO(o) PROVE IInv'
  <2>1. delivered[o] = NoLines /\ so[o].status = "NONE"
    BY <1>2 DEF CreateSO, SnapshotInv
  <2>2. /\ so'[o].status = "DRAFT" /\ so'[o].shipped = NoLines
        /\ so'[o].ordered \in [Sku -> Nat]
        /\ \A p \in Order \ {o} : so'[p] = so[p]
        /\ UNCHANGED <<stock, delivered, req>>
    BY <1>2, BasketsAssumption DEF CreateSO, TypeOK
  <2>4. \A p \in Order : so[p].status # "NONE" => Advances(p)
    <3>. SUFFICES ASSUME NEW p \in Order, so[p].status # "NONE"
                  PROVE  Advances(p)
      OBVIOUS
    <3>1. so'[p] = so[p] /\ so[p].gen \in Nat
      BY <2>1, <2>2 DEF TypeOK, OrderRow
    <3>. QED  BY <1>v, <3>1 DEF Advances
  <2>5. ShipmentsRecorded'
    BY <2>1, <2>2 DEF ShipmentsRecorded
  <2>6. NoOverShipment'
    <3>. SUFFICES ASSUME NEW p \in Order, NEW s \in Sku
                  PROVE  delivered[p][s] <= so'[p].ordered[s]
      BY <2>2 DEF NoOverShipment
    <3>1. CASE p = o
      BY <2>1, <2>2, <3>1 DEF NoLines
    <3>2. CASE p # o
      BY <2>2, <3>2 DEF NoOverShipment
    <3>. QED  BY <3>1, <3>2
  <2>7. \A p \in Order : so'[p].status = "NONE" => delivered'[p] = NoLines
    BY <2>2 DEF SnapshotInv
  <2>8. \A r \in Request : req'[r] # Idle => SnapshotFits(req[r])'
    <3>. SUFFICES ASSUME NEW r \in Request, req'[r] # Idle
                  PROVE  SnapshotFits(req[r])'
      OBVIOUS
    <3>. QED  BY <1>0, <2>2, <2>4, OthersFit
  <2>. QED  BY <1>0, <2>5, <2>6, <2>7, <2>8 DEF SnapshotInv
<1>3. ASSUME NEW r \in Request, NEW o \in Order,
             NEW op \in {"confirm", "cancel", "edit", "ship"},
             NEW lines \in [Sku -> Nat], NEW w \in Warehouse,
             Began(r, o, op, lines, w)
      PROVE  IInv'
  <2>1. /\ UNCHANGED <<stock, so, delivered>>
        /\ \A q \in Request \ {r} : req'[q] = req[q]
    BY <1>3 DEF Began, Begin, TypeOK
  <2>2. SnapshotFits(req[r])'
    BY <1>3, SnapshotFresh
  <2>. QED  BY <1>0, <2>1, <2>2, <1>v, LinesUntouched, StepKeepsIInv
<1>4. ASSUME NEW r \in Request, ConfirmSO(r) PROVE IInv'
  <2>. DEFINE t == req[r]
  <2>1. t \in InFlight
    BY <1>4, ActiveRequest DEF ConfirmSO
  <2>3. so' = [so EXCEPT ![t.order].status = "CONFIRMED"] /\ t.order \in Order
        /\ delivered' = delivered /\ Done(r)
    BY <1>4, <2>1 DEF ConfirmSO, InFlight
  <2>4. \A o \in Order : /\ so'[o].gen = so[o].gen
                         /\ so'[o].wh = so[o].wh
                         /\ so'[o].ordered = so[o].ordered
                         /\ so'[o].shipped = so[o].shipped
                         /\ so[o].status # "NONE" => so'[o].status # "NONE"
    BY <2>3 DEF TypeOK, OrderRow
  <2>. QED  BY <1>0, <1>v, <2>3, <2>4, DoneReq, LinesUntouched, StepKeepsIInv
<1>5. ASSUME NEW r \in Request, CancelSO(r) PROVE IInv'
  <2>. DEFINE t == req[r]
  <2>1. t \in InFlight
    BY <1>5, ActiveRequest DEF CancelSO
  <2>3. so' = [so EXCEPT ![t.order].status = "CANCELLED"] /\ t.order \in Order
        /\ delivered' = delivered /\ Done(r)
    BY <1>5, <2>1 DEF CancelSO, InFlight
  <2>4. \A o \in Order : /\ so'[o].gen = so[o].gen
                         /\ so'[o].wh = so[o].wh
                         /\ so'[o].ordered = so[o].ordered
                         /\ so'[o].shipped = so[o].shipped
                         /\ so[o].status # "NONE" => so'[o].status # "NONE"
    BY <2>3 DEF TypeOK, OrderRow
  <2>. QED  BY <1>0, <1>v, <2>3, <2>4, DoneReq, LinesUntouched, StepKeepsIInv
<1>6. ASSUME NEW r \in Request, UpdateSO(r) PROVE IInv'
  <2>. DEFINE t == req[r]
              o == t.order
  <2>1. t \in InFlight /\ o \in Order /\ t # Idle
    BY <1>6, ActiveRequest DEF UpdateSO, InFlight, Idle
  <2>2. SnapshotFits(t)
    BY <2>1 DEF SnapshotInv
  <2>3. /\ UNCHANGED <<stock, delivered>> /\ Done(r)
        /\ \A p \in Order \ {o} : so'[p] = so[p]
        /\ so'[o].status = so[o].status /\ so'[o].wh = so[o].wh
    BY <1>6, <2>1, <2>2 DEF UpdateSO, TypeOK, SnapshotFits
  <2>4. CASE t.lines = NoLines
    <3>1. so'[o].gen = so[o].gen /\ so'[o].ordered = so[o].ordered
          /\ so'[o].shipped = so[o].shipped
      BY <1>6, <2>1, <2>4 DEF UpdateSO, TypeOK
    <3>3. \A p \in Order : /\ so'[p].gen = so[p].gen
                           /\ so'[p].wh = so[p].wh
                           /\ so'[p].ordered = so[p].ordered
                           /\ so'[p].shipped = so[p].shipped
                           /\ so[p].status # "NONE" => so'[p].status # "NONE"
      BY <2>3, <3>1
    <3>. QED  BY <1>0, <2>3, <1>v, <3>3, DoneReq, LinesUntouched, StepKeepsIInv
  <2>5. CASE t.lines # NoLines
    <3>1. /\ delivered[o] = NoLines
          /\ so'[o].gen = so[o].gen + 1 /\ so'[o].ordered = t.lines
          /\ so'[o].shipped = NoLines
      BY <1>6, <2>1, <2>5 DEF UpdateSO, TypeOK
    <3>3. \A p \in Order : so[p].status # "NONE" => Advances(p)
      <4>1. \A p \in Order : so[p].gen \in Nat
        BY DEF TypeOK, OrderRow
      <4>2. \A p \in Order \ {o} : so[p].status # "NONE" => Advances(p)
        BY <2>3, <1>v, <4>1 DEF Advances
      <4>3. so[o].gen \in Nat /\ so[o].gen <= so'[o].gen /\ so[o].gen # so'[o].gen
        BY <2>1, <3>1, <4>1
      <4>4. so[o].status # "NONE" => Advances(o)
        BY <2>1, <2>3, <4>3, <1>v DEF Advances
      <4>. QED  BY <4>2, <4>4
    <3>4. ShipmentsRecorded'
      BY <2>3, <3>1 DEF ShipmentsRecorded
    <3>5. NoOverShipment'
      <4>1. \A s \in Sku : delivered'[o][s] <= so'[o].ordered[s]
        BY <2>1, <2>3, <3>1 DEF NoLines, InFlight
      <4>. QED  BY <2>3, <4>1 DEF NoOverShipment
    <3>6. \A p \in Order : so'[p].status = "NONE" => delivered'[p] = NoLines
      BY <2>3 DEF SnapshotInv
    <3>. QED  BY <1>0, <2>3, <3>3, <3>4, <3>5, <3>6, DoneReq, StepKeepsIInv
  <2>. QED  BY <2>4, <2>5
<1>7. ASSUME NEW r \in Request, CreateDO(r) PROVE IInv'
  <2>. DEFINE t == req[r]
              o == t.order
              Q(c) == QtyAt(t.row.wh, t.lines, c)
  <2>1. t \in InFlight /\ o \in Order /\ t # Idle /\ t.op = "ship"
    BY <1>7, ActiveRequest DEF CreateDO, InFlight, Idle
  <2>2. SnapshotFits(t) /\ t.row.gen = so[o].gen
    BY <1>7, <2>1 DEF SnapshotInv, CreateDO
  <2>3. /\ t.row.wh = so[o].wh /\ t.row.ordered = so[o].ordered
        /\ so[o].wh \in Warehouse /\ so[o].status # "NONE"
    BY <2>1, <2>2 DEF SnapshotFits, TypeOK, OrderRow
  <2>4. \A c \in Cell : Q(c) \in Nat /\ stock[c] \in Row /\ stock[c].version \in Nat
    BY <2>1, QtyAtNat DEF InFlight, OrderRow, TypeOK, Row
  <2>5. \A c \in Cell :
           /\ Q(c) > 0 => /\ t.ver[c] = stock[c].version
                          /\ stock'[c].version = stock[c].version + 1
           /\ ~(Q(c) > 0) => stock'[c] = stock[c]
    <3>. SUFFICES ASSUME NEW c \in Cell
                  PROVE  /\ Q(c) > 0 =>
                               /\ t.ver[c] = stock[c].version
                               /\ stock'[c].version = stock[c].version + 1
                         /\ ~(Q(c) > 0) => stock'[c] = stock[c]
      OBVIOUS
    <3>1. /\ Q(c) > 0 => /\ SalesOutOK(stock[c], t.ver[c], Q(c))
                         /\ stock'[c] = SalesOut(stock[c], Q(c))
          /\ ~(Q(c) > 0) => stock'[c] = stock[c]
      BY <1>7 DEF CreateDO
    <3>2. SalesOutOK(stock[c], t.ver[c], Q(c)) =>
             /\ t.ver[c] = stock[c].version
             /\ SalesOut(stock[c], Q(c)).version = stock[c].version + 1
      BY <2>4, SalesOutRow DEF SalesOutOK
    <3>. QED  BY <3>1, <3>2
  <2>6. /\ \A p \in Order \ {o} : so'[p] = so[p] /\ delivered'[p] = delivered[p]
        /\ so'[o].gen = so[o].gen /\ so'[o].wh = so[o].wh
        /\ so'[o].ordered = so[o].ordered /\ so'[o].status # "NONE"
        /\ so'[o].shipped = [s \in Sku |->
              IF t.lines[s] > 0 THEN t.row.shipped[s] + t.lines[s]
              ELSE so[o].shipped[s]]
        /\ delivered'[o] = [s \in Sku |-> delivered[o][s] + t.lines[s]]
        /\ Done(r)
    <3>. DEFINE st == IF (IF FullyShipped(t) THEN "FULLY_SHIPPED"
                          ELSE "PARTIAL_SHIPPED") # t.row.status
                      THEN (IF FullyShipped(t) THEN "FULLY_SHIPPED"
                            ELSE "PARTIAL_SHIPPED")
                      ELSE so[o].status
                sh == ShippedAfter(t)
    <3>1. so' = [so EXCEPT ![o] = [@ EXCEPT !.shipped = sh, !.status = st]]
      BY <1>7 DEF CreateDO
    <3>2. st # "NONE"
      BY <2>3
    <3>3. sh = [s \in Sku |-> IF t.lines[s] > 0
                              THEN t.row.shipped[s] + t.lines[s]
                              ELSE so[o].shipped[s]]
      BY DEF ShippedAfter
    <3>4. /\ \A p \in Order \ {o} : delivered'[p] = delivered[p]
          /\ delivered'[o] = [s \in Sku |-> delivered[o][s] + t.lines[s]]
          /\ Done(r)
      BY <1>7, <2>1 DEF CreateDO, TypeOK
    <3>. HIDE DEF st, sh
    <3>5. so \in [Order -> OrderRow] /\ so[o] \in OrderRow
      BY <2>1 DEF TypeOK
    <3>6. /\ so'[o] = [so[o] EXCEPT !.shipped = sh, !.status = st]
          /\ \A p \in Order \ {o} : so'[p] = so[p]
      BY <2>1, <3>1, <3>5
    <3>7. /\ so'[o].gen = so[o].gen /\ so'[o].wh = so[o].wh
          /\ so'[o].ordered = so[o].ordered
          /\ so'[o].shipped = sh /\ so'[o].status = st
      BY <3>5, <3>6 DEF OrderRow
    <3>. QED  BY <3>2, <3>3, <3>4, <3>6, <3>7
  <2>7. \A s \in Sku :
           /\ t.lines[s] \in Nat /\ so[o].shipped[s] \in Nat
           /\ so[o].ordered[s] \in Nat /\ delivered[o][s] = so[o].shipped[s]
    BY <2>1 DEF InFlight, TypeOK, OrderRow, ShipmentsRecorded
  <2>9. \A s \in Sku : t.lines[s] > 0 =>
           /\ t.row.shipped[s] = so[o].shipped[s]
           /\ stock[<<so[o].wh, s>>].version < stock'[<<so[o].wh, s>>].version
    <3>. SUFFICES ASSUME NEW s \in Sku, t.lines[s] > 0
                  PROVE  /\ t.row.shipped[s] = so[o].shipped[s]
                         /\ stock[<<so[o].wh, s>>].version
                                < stock'[<<so[o].wh, s>>].version
      OBVIOUS
    <3>. DEFINE c == <<so[o].wh, s>>
    <3>1. c \in Cell /\ Q(c) = t.lines[s]
      BY <2>3 DEF Cell, QtyAt
    <3>2. t.row.shipped[s] = so[o].shipped[s]
      BY <2>2, <2>5, <3>1 DEF SnapshotFits
    <3>. QED  BY <2>4, <2>5, <3>1, <3>2
  <2>10. \A p \in Order : so[p].status # "NONE" => Advances(p)
    <3>1. \A p \in Order : so[p].gen \in Nat
      BY DEF TypeOK, OrderRow
    <3>2. \A p \in Order \ {o} : so[p].status # "NONE" => Advances(p)
      <4>. SUFFICES ASSUME NEW p \in Order \ {o}, so[p].status # "NONE"
                    PROVE  Advances(p)
        OBVIOUS
      <4>1. so'[p] = so[p] /\ so[p].gen \in Nat
        BY <2>6, <3>1
      <4>. QED  BY <1>v, <4>1 DEF Advances
    <3>3. \A s \in Sku : so'[o].shipped[s] # so[o].shipped[s] =>
             stock[<<so[o].wh, s>>].version < stock'[<<so[o].wh, s>>].version
      BY <2>6, <2>9
    <3>4. /\ so'[o].gen = so[o].gen /\ so'[o].wh = so[o].wh
          /\ so'[o].ordered = so[o].ordered /\ so'[o].status # "NONE"
          /\ so[o].gen <= so'[o].gen
      BY <2>1, <2>6, <3>1
    <3>5. Advances(o)
      BY <1>v, <3>3, <3>4, Zenon DEF Advances
    <3>. QED  BY <3>2, <3>5
  <2>11. ShipmentsRecorded'
    <3>1. ASSUME NEW s \in Sku
          PROVE  delivered[o][s] + t.lines[s] =
                    IF t.lines[s] > 0 THEN t.row.shipped[s] + t.lines[s]
                    ELSE so[o].shipped[s]
      <4>1. CASE t.lines[s] > 0
        BY <2>7, <2>9, <4>1
      <4>2. CASE t.lines[s] = 0
        BY <2>7, <4>2
      <4>3. t.lines[s] > 0 \/ t.lines[s] = 0
        BY <2>7
      <4>. QED  BY <4>1, <4>2, <4>3
    <3>2. so'[o].shipped = delivered'[o]
      BY <2>6, <3>1
    <3>. QED  BY <2>6, <3>2 DEF ShipmentsRecorded
  <2>12. NoOverShipment'
    <3>1. ASSUME NEW s \in Sku PROVE delivered'[o][s] <= so'[o].ordered[s]
      <4>1. t.lines[s] <= so[o].ordered[s] - t.row.shipped[s]
        BY <2>1, <2>2, <2>3 DEF SnapshotFits, Outstanding
      <4>2. delivered[o][s] <= so[o].ordered[s]
        BY <2>1 DEF NoOverShipment
      <4>3. delivered'[o][s] = delivered[o][s] + t.lines[s]
            /\ so'[o].ordered[s] = so[o].ordered[s]
        BY <2>6
      <4>4. CASE t.lines[s] > 0
        <5>1. t.row.shipped[s] = delivered[o][s]
          BY <2>7, <2>9, <4>4
        <5>2. t.lines[s] \in Nat /\ so[o].ordered[s] \in Nat /\ delivered[o][s] \in Nat
          BY <2>7
        <5>. QED  BY <4>1, <4>3, <5>1, <5>2
      <4>5. CASE t.lines[s] = 0
        BY <2>7, <4>2, <4>3, <4>5
      <4>6. t.lines[s] > 0 \/ t.lines[s] = 0
        BY <2>7
      <4>. QED  BY <4>4, <4>5, <4>6
    <3>. QED  BY <2>6, <3>1 DEF NoOverShipment
  <2>13. \A p \in Order : so'[p].status = "NONE" => delivered'[p] = NoLines
    BY <2>6 DEF SnapshotInv
  <2>. QED  BY <1>0, <2>6, <2>10, <2>11, <2>12, <2>13, DoneReq, StepKeepsIInv
<1>8. ASSUME NEW r \in Request, Rollback(r) PROVE IInv'
  <2>1. UNCHANGED <<stock, so, delivered>> /\ Done(r)
    BY <1>8 DEF Rollback
  <2>. QED  BY <1>0, <2>1, <1>v, DoneReq, LinesUntouched, StepKeepsIInv
<1>9. ASSUME NEW d \in Cell, NEW q \in 1 .. MaxOnHand, Supply(d, q)
      PROVE  IInv'
  <2>1. UNCHANGED <<so, delivered, req>>
    BY <1>9 DEF Supply
  <2>3. /\ \A o \in Order : so[o].status # "NONE" => Advances(o)
        /\ \A o \in Order : so'[o].status = "NONE" => delivered'[o] = NoLines
        /\ ShipmentsRecorded' /\ NoOverShipment'
    BY <1>0, <2>1, <1>v, LinesUntouched
  <2>4. \A r \in Request : req'[r] # Idle => SnapshotFits(req[r])'
    <3>. SUFFICES ASSUME NEW r \in Request, req'[r] # Idle
                  PROVE  SnapshotFits(req[r])'
      OBVIOUS
    <3>. QED  BY <1>0, <2>1, <2>3, OthersFit
  <2>. QED  BY <1>0, <2>3, <2>4 DEF SnapshotInv
<1>. QED
  BY <1>1, <1>2, <1>3, <1>4, <1>5, <1>6, <1>7, <1>8, <1>9, NextCases

\* If draft edits cannot change the warehouse, qty_shipped of every line is
\* what the delivery orders posted, and no line is over-shipped, although
\* create_do computes both from a snapshot and locks no order.
THEOREM ShipmentsAreSafe ==
    ASSUME ~EditWarehouse
    PROVE  Spec => []ShipmentsSafe
<1>1. Init => IInv /\ NoOversell
  BY InitIInv, InitType
<1>2. IInv /\ NoOversell /\ [Next]_vars => (IInv /\ NoOversell)'
  BY NextIInv, NextType DEF IInv
<1>3. IInv => ShipmentsSafe
  BY DEF IInv, ShipmentsSafe
<1>. QED  BY <1>1, <1>2, <1>3, PTL DEF Spec

-----------------------------------------------------------------------------
(* Which requests on one order are in flight together *)

\* A request begins only next to requests it may overlap with.
Apart ==
    \A r, q \in Request :
        /\ r # q
        /\ req[r] # Idle
        /\ req[q] # Idle
        /\ req[r].order = req[q].order
        => {req[r].op, req[q].op} \subseteq Overlap

LEMMA ApartStep ==
    ASSUME TypeOK, Apart, [Next]_vars
    PROVE  Apart'
<1>1. CASE \A q \in Request : req'[q] = Idle \/ req'[q] = req[q]
  <2>. SUFFICES ASSUME NEW r \in Request, NEW q \in Request, r # q,
                       req'[r] # Idle, req'[q] # Idle, req'[r].order = req'[q].order
                PROVE  {req'[r].op, req'[q].op} \subseteq Overlap
    BY DEF Apart
  <2>1. req'[r] = req[r] /\ req'[q] = req[q]
    BY <1>1
  <2>. QED BY <2>1 DEF Apart
<1>2. ASSUME NEW r \in Request, NEW o \in Order, NEW op, NEW lines, NEW w,
             Began(r, o, op, lines, w)
      PROVE  Apart'
  <2>1. /\ req'[r].op = op /\ req'[r].order = o
        /\ \A q \in Request \ {r} : req'[q] = req[q]
        /\ \A q \in Request : req[q] # Idle /\ req[q].order = o =>
                                  {op, req[q].op} \subseteq Overlap
    BY <1>2 DEF Began, Begin, TypeOK
  <2>. SUFFICES ASSUME NEW p \in Request, NEW q \in Request, p # q,
                       req'[p] # Idle, req'[q] # Idle, req'[p].order = req'[q].order
                PROVE  {req'[p].op, req'[q].op} \subseteq Overlap
    BY DEF Apart
  <2>2. CASE p # r /\ q # r
    BY <2>1, <2>2 DEF Apart
  <2>3. CASE p = r
    BY <2>1, <2>3
  <2>4. CASE q = r
    BY <2>1, <2>4
  <2>. QED BY <2>2, <2>3, <2>4
<1>3. ASSUME NEW r \in Request, Done(r)
      PROVE  \A q \in Request : req'[q] = Idle \/ req'[q] = req[q]
  BY <1>3, DoneReq
<1>4. ASSUME NEW r \in Request,
             ConfirmSO(r) \/ CancelSO(r) \/ UpdateSO(r) \/ CreateDO(r) \/ Rollback(r)
      PROVE  Apart'
  <2>1. Done(r)
    BY <1>4 DEF ConfirmSO, CancelSO, UpdateSO, CreateDO, Rollback
  <2>. QED BY <1>1, <1>3, <2>1
<1>5. ASSUME UNCHANGED req PROVE Apart'
  BY <1>1, <1>5
<1>6. ASSUME NEW o \in Order, CreateSO(o) PROVE Apart'
  BY <1>5, <1>6 DEF CreateSO
<1>7. ASSUME NEW c \in Cell, NEW q \in 1 .. MaxOnHand, Supply(c, q) PROVE Apart'
  BY <1>5, <1>7 DEF Supply
<1>8. CASE UNCHANGED vars
  BY <1>5, <1>8 DEF vars
<1>. QED BY <1>2, <1>4, <1>6, <1>7, <1>8, NextCases

\* What an edit and a shipment write, spelled out.
LEMMA EditWrites ==
    ASSUME TypeOK, NEW r \in Request, UpdateSO(r)
    PROVE  LET t == req[r]
               o == t.order
           IN  /\ t \in InFlight /\ t # Idle /\ t.op = "edit" /\ o \in Order
               /\ UNCHANGED <<stock, delivered>> /\ Done(r)
               /\ \E n \in OrderRow :
                     /\ so' = [so EXCEPT ![o] = n]
                     /\ n.status = so[o].status
                     /\ \/ n.ordered = so[o].ordered /\ n.shipped = so[o].shipped
                        \/ /\ n.ordered = t.lines /\ t.lines # NoLines
                           /\ n.shipped = NoLines /\ delivered[o] = NoLines
<1>. DEFINE t == req[r]
            o == t.order
            n == [status  |-> so[o].status,
                  gen     |-> IF t.lines = NoLines THEN so[o].gen ELSE so[o].gen + 1,
                  wh      |-> IF t.wh = t.row.wh THEN so[o].wh ELSE t.wh,
                  ordered |-> IF t.lines = NoLines THEN so[o].ordered ELSE t.lines,
                  shipped |-> IF t.lines = NoLines THEN so[o].shipped ELSE NoLines]
<1>1. t \in InFlight /\ t # Idle /\ t.op = "edit" /\ o \in Order
  BY ActiveRequest DEF UpdateSO, InFlight, Idle
<1>2. /\ so' = [so EXCEPT ![o] = n]
      /\ UNCHANGED <<stock, delivered>> /\ Done(r)
      /\ t.lines # NoLines => delivered[o] = NoLines
  BY DEF UpdateSO
<1>3. so[o] \in OrderRow /\ t.lines \in [Sku -> Nat] /\ t.wh \in Warehouse
  BY <1>1 DEF TypeOK, InFlight
<1>4. n \in OrderRow
  BY <1>3, NoLinesType DEF OrderRow
<1>5. /\ n.status = so[o].status
      /\ t.lines = NoLines => n.ordered = so[o].ordered /\ n.shipped = so[o].shipped
      /\ t.lines # NoLines => n.ordered = t.lines /\ n.shipped = NoLines
  OBVIOUS
<1>. HIDE DEF n
<1>. QED BY <1>1, <1>2, <1>4, <1>5

LEMMA ShipWrites ==
    ASSUME TypeOK, NEW r \in Request, CreateDO(r)
    PROVE  LET t == req[r]
               o == t.order
               st == IF FullyShipped(t) THEN "FULLY_SHIPPED" ELSE "PARTIAL_SHIPPED"
           IN  /\ t \in InFlight /\ t # Idle /\ t.op = "ship" /\ o \in Order
               /\ so[o].gen = t.row.gen /\ Done(r)
               /\ delivered' = [delivered EXCEPT ![o] =
                                   [s \in Sku |-> delivered[o][s] + t.lines[s]]]
               /\ \E n \in OrderRow :
                     /\ so' = [so EXCEPT ![o] = n]
                     /\ n.wh = so[o].wh /\ n.ordered = so[o].ordered
                     /\ n.shipped = ShippedAfter(t)
                     /\ n.status = IF st # t.row.status THEN st ELSE so[o].status
<1>. DEFINE t == req[r]
            o == t.order
            st == IF FullyShipped(t) THEN "FULLY_SHIPPED" ELSE "PARTIAL_SHIPPED"
            status == IF st # t.row.status THEN st ELSE so[o].status
            sh == ShippedAfter(t)
            n == [so[o] EXCEPT !.shipped = sh, !.status = status]
<1>1. t \in InFlight /\ t # Idle /\ t.op = "ship" /\ o \in Order
  BY ActiveRequest DEF CreateDO, InFlight, Idle
<1>2. /\ so' = [so EXCEPT ![o] = [@ EXCEPT !.shipped = sh, !.status = status]]
      /\ delivered' = [delivered EXCEPT ![o] =
                          [s \in Sku |-> delivered[o][s] + t.lines[s]]]
      /\ so[o].gen = t.row.gen /\ Done(r)
  BY DEF CreateDO
<1>3. so[o] \in OrderRow /\ t.lines \in [Sku -> Nat] /\ t.row \in OrderRow
  BY <1>1 DEF TypeOK, InFlight
<1>4. sh \in [Sku -> Nat]
  <2>1. \A s \in Sku : /\ t.lines[s] \in Nat /\ t.row.shipped[s] \in Nat
                       /\ so[o].shipped[s] \in Nat
    BY <1>3 DEF OrderRow
  <2>. QED BY <2>1 DEF ShippedAfter
<1>5. status \in Status \cup {"NONE"}
  <2>1. st \in Status
    BY DEF Status
  <2>. HIDE DEF st
  <2>. QED BY <1>3, <2>1 DEF OrderRow
<1>. HIDE DEF sh, status
<1>6. n \in OrderRow
  BY <1>3, <1>4, <1>5 DEF OrderRow
<1>7. /\ n.wh = so[o].wh /\ n.ordered = so[o].ordered
      /\ n.shipped = sh /\ n.status = status
  BY <1>3 DEF OrderRow
<1>8. so' = [so EXCEPT ![o] = n]
  BY <1>1, <1>2 DEF TypeOK
<1>. HIDE DEF n
<1>. QED BY <1>1, <1>2, <1>6, <1>7, <1>8 DEF sh, status

-----------------------------------------------------------------------------
(* Reservations, when nothing but edits and shipments of one order overlap *)

\* What an order row says about its shipments.
RowFits(row) ==
    /\ row.status = "DRAFT" => row.shipped = NoLines
    /\ \A s \in Sku : row.shipped[s] <= row.ordered[s]
    /\ row.status = "FULLY_SHIPPED" => \A s \in Sku : row.shipped[s] = row.ordered[s]

\* What a request read of its order, and what has become of it: a line has
\* shipped more only if its stock row has a newer version.
ReadFits(t, row, stk) ==
    /\ t.op \in {"confirm", "cancel"} => t.row = row
    /\ t.op \in {"confirm", "edit"} => row.status = "DRAFT"
    /\ t.op = "cancel" => row.status \in {"DRAFT", "CONFIRMED"}
    /\ t.op = "ship" =>
          /\ row.status \in Open \cup {"FULLY_SHIPPED"}
          /\ t.row.wh = row.wh /\ t.row.ordered = row.ordered
          /\ t.lines # NoLines
          /\ \A s \in Sku :
                /\ t.lines[s] <= Outstanding(t.row, s)
                /\ t.row.shipped[s] <= row.shipped[s]
                /\ t.ver[<<row.wh, s>>] <= stk[<<row.wh, s>>].version
                /\ t.ver[<<row.wh, s>>] = stk[<<row.wh, s>>].version =>
                      t.row.shipped[s] = row.shipped[s]

\* The inductive invariant for the reservations.
ReservedInv ==
    /\ TypeOK
    /\ Apart
    /\ \A o \in Order : RowFits(so[o])
    /\ \A r \in Request : req[r] # Idle =>
                              ReadFits(req[r], so[req[r].order], stock)
    /\ ReservationsExact

\* How a commit may change the row under another request on the same order.
Kept(t, row, new, old, stk) ==
    \/ new = row
    \/ t.op = "edit" /\ new.status = "DRAFT"
    \/ /\ t.op = "ship"
       /\ new.status \in Open \cup {"FULLY_SHIPPED"}
       /\ new.wh = row.wh /\ new.ordered = row.ordered
       /\ \A s \in Sku :
             /\ row.shipped[s] <= new.shipped[s]
             /\ new.shipped[s] # row.shipped[s] =>
                   old[<<row.wh, s>>].version < stk[<<row.wh, s>>].version

LEMMA ReadKept ==
    ASSUME NEW t \in InFlight, NEW row \in OrderRow, NEW new \in OrderRow,
           NEW old \in [Cell -> Row], NEW stk \in [Cell -> Row],
           ReadFits(t, row, old), Kept(t, row, new, old, stk),
           \A c \in Cell : old[c].version <= stk[c].version
    PROVE  ReadFits(t, new, stk)
<1>1. CASE t.op = "edit"
  BY <1>1 DEF ReadFits, Kept
<1>2. CASE t.op \in {"confirm", "cancel"}
  BY <1>2 DEF ReadFits, Kept
<1>3. CASE t.op = "ship"
  <2>1. /\ new.status \in Open \cup {"FULLY_SHIPPED"}
        /\ new.wh = row.wh /\ new.ordered = row.ordered
    BY <1>3 DEF ReadFits, Kept
  <2>2. ASSUME NEW s \in Sku
        PROVE  /\ row.shipped[s] \in Nat /\ new.shipped[s] \in Nat /\ t.row.shipped[s] \in Nat
               /\ row.shipped[s] <= new.shipped[s]
               /\ new.shipped[s] # row.shipped[s] =>
                     old[<<row.wh, s>>].version < stk[<<row.wh, s>>].version
    BY <1>3 DEF Kept, OrderRow, InFlight
  <2>3. ASSUME NEW s \in Sku
        PROVE  LET c == <<row.wh, s>> IN
               /\ t.ver[c] \in Nat /\ old[c].version \in Nat /\ stk[c].version \in Nat
               /\ old[c].version <= stk[c].version
    <3>1. <<row.wh, s>> \in Cell
      BY DEF Cell, OrderRow
    <3>. QED BY <3>1 DEF InFlight, Row
  <2>4. ASSUME NEW s \in Sku
        PROVE  LET c == <<row.wh, s>> IN
               /\ t.lines[s] <= Outstanding(t.row, s)
               /\ t.row.shipped[s] <= row.shipped[s]
               /\ t.ver[c] <= old[c].version
               /\ t.ver[c] = old[c].version => t.row.shipped[s] = row.shipped[s]
    BY <1>3 DEF ReadFits
  <2>5. ASSUME NEW s \in Sku
        PROVE  LET c == <<row.wh, s>> IN
               /\ t.row.shipped[s] <= new.shipped[s]
               /\ t.ver[c] <= stk[c].version
               /\ t.ver[c] = stk[c].version => t.row.shipped[s] = new.shipped[s]
    <3>. DEFINE c == <<row.wh, s>>
    <3>1. /\ row.shipped[s] \in Nat /\ new.shipped[s] \in Nat /\ t.row.shipped[s] \in Nat
          /\ row.shipped[s] <= new.shipped[s]
          /\ new.shipped[s] # row.shipped[s] => old[c].version < stk[c].version
      BY <2>2
    <3>2. /\ t.ver[c] \in Nat /\ old[c].version \in Nat /\ stk[c].version \in Nat
          /\ old[c].version <= stk[c].version
      BY <2>3
    <3>3. /\ t.row.shipped[s] <= row.shipped[s]
          /\ t.ver[c] <= old[c].version
          /\ t.ver[c] = old[c].version => t.row.shipped[s] = row.shipped[s]
      BY <2>4
    <3>. HIDE DEF c
    <3>4. /\ t.row.shipped[s] <= new.shipped[s]
          /\ t.ver[c] <= stk[c].version
          /\ t.ver[c] = stk[c].version => t.row.shipped[s] = new.shipped[s]
      BY <3>1, <3>2, <3>3
    <3>. QED BY <3>4 DEF c
  <2>6. t.lines # NoLines /\ t.row.wh = row.wh /\ t.row.ordered = row.ordered
    BY <1>3 DEF ReadFits
  <2>. QED BY <1>3, <2>1, <2>4, <2>5, <2>6 DEF ReadFits
<1>. QED BY <1>1, <1>2, <1>3 DEF InFlight

\* A sum over the orders changes by what one of them changes.
LEMMA OrderSum ==
    ASSUME NEW o \in Order, NEW f, NEW g,
           \A p \in Order : f[p] \in Int /\ g[p] \in Int,
           \A p \in Order : p # o => g[p] = f[p]
    PROVE  /\ SumFunctionOnSet(f, Order) \in Int
           /\ SumFunctionOnSet(g, Order) = SumFunctionOnSet(f, Order) + (g[o] - f[o])
BY OrderAssumption, SumChange

\* One order changes, and every stock row by the difference in its claim.
LEMMA ClaimsMove ==
    ASSUME TypeOK, TypeOK', ReservationsExact, NEW o \in Order, NEW n,
           so' = [so EXCEPT ![o] = n],
           \A c \in Cell : stock'[c].reserved =
                               stock[c].reserved + (Claim(n, c) - Claim(so[o], c))
    PROVE  ReservationsExact'
<1>1. (\A p \in Order \ {o} : so'[p] = so[p]) /\ so'[o] = n
  BY DEF TypeOK
<1>. SUFFICES ASSUME NEW c \in Cell
              PROVE  stock'[c].reserved =
                         SumFunctionOnSet([p \in Order |-> Claim(so'[p], c)], Order)
  BY DEF ReservationsExact
<1>. DEFINE f == [p \in Order |-> Claim(so[p], c)]
            g == [p \in Order |-> Claim(so'[p], c)]
<1>2. \A p \in Order : so[p] \in OrderRow /\ so'[p] \in OrderRow
  BY DEF TypeOK
<1>3. \A row \in OrderRow : Claim(row, c) \in Int
  BY DEF Claim, Outstanding, OrderRow, Cell
<1>4. \A p \in Order : f[p] \in Int /\ g[p] \in Int
  BY <1>2, <1>3
<1>5. \A p \in Order : p # o => g[p] = f[p]
  BY <1>1
<1>6. g[o] = Claim(n, c) /\ f[o] = Claim(so[o], c)
  BY <1>1
<1>. HIDE DEF f, g
<1>7. /\ SumFunctionOnSet(f, Order) \in Int
      /\ SumFunctionOnSet(g, Order) = SumFunctionOnSet(f, Order) + (g[o] - f[o])
  BY <1>4, <1>5, OrderSum
<1>8. stock[c].reserved = SumFunctionOnSet(f, Order)
  BY DEF ReservationsExact, f
<1>9. SumFunctionOnSet(g, Order) = stock'[c].reserved
  BY <1>6, <1>7, <1>8
<1>. QED BY <1>9 DEF g

\* A commit on one order, and the requests it leaves in flight.
LEMMA ReservedStep ==
    ASSUME ReservedInv, TypeOK', Apart', NEW o \in Order, NEW n \in OrderRow,
           so' = [so EXCEPT ![o] = n],
           RowFits(n),
           \A c \in Cell : stock[c].version <= stock'[c].version,
           \A c \in Cell : stock'[c].reserved =
                               stock[c].reserved + (Claim(n, c) - Claim(so[o], c)),
           \A q \in Request : \/ req'[q] = Idle
                              \/ /\ req'[q] = req[q]
                                 /\ req[q] # Idle /\ req[q].order = o =>
                                       Kept(req[q], so[o], n, stock, stock')
    PROVE  ReservedInv'
<1>0. TypeOK
  BY DEF ReservedInv
<1>1. (\A p \in Order \ {o} : so'[p] = so[p]) /\ so'[o] = n
  BY <1>0 DEF TypeOK
<1>2. \A p \in Order : RowFits(so'[p])
  BY <1>1 DEF ReservedInv
<1>3. ASSUME NEW q \in Request, req'[q] # Idle
      PROVE  ReadFits(req'[q], so'[req'[q].order], stock')
  <2>1. req'[q] = req[q] /\ req[q] # Idle /\ req[q] \in InFlight
    BY <1>0, <1>3 DEF TypeOK
  <2>2. req[q].order \in Order
    BY <2>1 DEF InFlight
  <2>3. so[req[q].order] \in OrderRow /\ so'[req[q].order] \in OrderRow
        /\ stock \in [Cell -> Row] /\ stock' \in [Cell -> Row]
    BY <1>0, <2>2 DEF TypeOK
  <2>4. ReadFits(req[q], so[req[q].order], stock)
    BY <2>1 DEF ReservedInv
  <2>5. Kept(req[q], so[req[q].order], so'[req[q].order], stock, stock')
    <3>1. CASE req[q].order = o
      BY <1>1, <2>1, <3>1
    <3>2. CASE req[q].order # o
      BY <1>1, <2>2, <3>2 DEF Kept
    <3>. QED BY <3>1, <3>2
  <2>6. ReadFits(req[q], so'[req[q].order], stock')
    BY <2>1, <2>3, <2>4, <2>5, ReadKept
  <2>. QED BY <2>1, <2>6
<1>4. ReservationsExact'
  BY <1>0, ClaimsMove DEF ReservedInv
<1>. QED BY <1>2, <1>3, <1>4 DEF ReservedInv

\* A step that changes no order and reserves nothing.
LEMMA ReservedRest ==
    ASSUME ReservedInv, TypeOK', Apart', UNCHANGED so,
           \A c \in Cell : stock[c].version <= stock'[c].version,
           \A c \in Cell : stock'[c].reserved = stock[c].reserved,
           \A q \in Request : \/ req'[q] \in {Idle, req[q]}
                              \/ ReadFits(req'[q], so[req'[q].order], stock')
    PROVE  ReservedInv'
<1>1. ReservationsExact'
  BY DEF ReservedInv, ReservationsExact
<1>2. ASSUME NEW q \in Request, req'[q] # Idle
      PROVE  ReadFits(req'[q], so'[req'[q].order], stock')
  <2>1. CASE req'[q] = req[q]
    <3>1. req[q] \in InFlight /\ req[q] # Idle
      BY <1>2, <2>1 DEF ReservedInv, TypeOK
    <3>2. /\ so[req[q].order] \in OrderRow
          /\ stock \in [Cell -> Row] /\ stock' \in [Cell -> Row]
      BY <3>1 DEF ReservedInv, TypeOK, InFlight
    <3>3. ReadFits(req[q], so[req[q].order], stock)
      BY <3>1 DEF ReservedInv
    <3>4. Kept(req[q], so[req[q].order], so[req[q].order], stock, stock')
      BY DEF Kept
    <3>. QED BY <2>1, <3>1, <3>2, <3>3, <3>4, ReadKept
  <2>. QED BY <1>2, <2>1
<1>. QED BY <1>1, <1>2 DEF ReservedInv

LEMMA ReservedInit == Init => ReservedInv
<1>. SUFFICES ASSUME Init PROVE ReservedInv
  OBVIOUS
<1>1. TypeOK
  BY InitType
<1>2. \A o \in Order : so[o].status = "NONE" /\ so[o].shipped = NoLines
                       /\ so[o].ordered = NoLines
  BY DEF Init
<1>3. \A o \in Order : RowFits(so[o])
  BY <1>2 DEF RowFits, NoLines
<1>4. \A r \in Request : req[r] = Idle
  BY DEF Init
<1>5. ReservationsExact
  <2>. SUFFICES ASSUME NEW c \in Cell
                PROVE  stock[c].reserved =
                           SumFunctionOnSet([o \in Order |-> Claim(so[o], c)], Order)
    BY DEF ReservationsExact
  <2>. DEFINE f == [o \in Order |-> Claim(so[o], c)]
  <2>1. \A o \in Order : f[o] = 0
    BY <1>2 DEF Claim, Open
  <2>2. stock[c].reserved = 0
    BY DEF Init, EmptyRow
  <2>. HIDE DEF f
  <2>3. SumFunctionOnSet(f, Order) = 0
    BY <2>1, OrderAssumption, SumOfZeros
  <2>. QED BY <2>2, <2>3 DEF f
<1>. QED BY <1>1, <1>3, <1>4, <1>5 DEF ReservedInv, Apart

LEMMA ReservedBegin ==
    ASSUME ReservedInv, TypeOK', Apart', NEW r \in Request, NEW o \in Order,
           NEW op \in {"confirm", "cancel", "edit", "ship"}, NEW lines, NEW w,
           Began(r, o, op, lines, w)
    PROVE  ReservedInv'
<1>. DEFINE t == [op |-> op, order |-> o, row |-> so[o],
                  ver |-> [c \in Cell |-> stock[c].version],
                  lines |-> lines, wh |-> w]
<1>1. /\ UNCHANGED <<stock, so>>
      /\ req'[r] = t /\ \A q \in Request \ {r} : req'[q] = req[q]
  BY DEF Began, Begin, ReservedInv, TypeOK
<1>2. so[o] \in OrderRow /\ stock \in [Cell -> Row]
  BY DEF ReservedInv, TypeOK
<1>3. ReadFits(t, so[o], stock)
  <2>1. CASE op # "ship"
    BY <2>1 DEF Began, ReadFits
  <2>2. CASE op = "ship"
    <3>1. \A s \in Sku : /\ so[o].shipped[s] \in Nat
                         /\ <<so[o].wh, s>> \in Cell
                         /\ stock[<<so[o].wh, s>>].version \in Nat
      BY <1>2 DEF OrderRow, Cell, Row
    <3>2. \A s \in Sku : t.ver[<<so[o].wh, s>>] = stock[<<so[o].wh, s>>].version
      BY <3>1
    <3>3. /\ t.op = "ship" /\ t.row = so[o] /\ t.lines = lines
      BY <2>2
    <3>4. /\ so[o].status \in Open /\ lines # NoLines
          /\ \A s \in Sku : lines[s] <= Outstanding(so[o], s)
      BY <2>2 DEF Began
    <3>. HIDE DEF t
    <3>5. \A s \in Sku : /\ t.row.shipped[s] <= so[o].shipped[s]
                         /\ t.ver[<<so[o].wh, s>>] <= stock[<<so[o].wh, s>>].version
      BY <3>1, <3>2, <3>3
    <3>. QED BY <3>3, <3>4, <3>5 DEF ReadFits
  <2>. QED BY <2>1, <2>2
<1>4. t.order = o
  OBVIOUS
<1>. HIDE DEF t
<1>5. \A c \in Cell : stock[c].version <= stock'[c].version
  BY <1>1, <1>2 DEF Row
<1>. QED BY <1>1, <1>3, <1>4, <1>5, ReservedRest

LEMMA ReservedCreate ==
    ASSUME ReservedInv, TypeOK', Apart', NEW o \in Order, CreateSO(o)
    PROVE  ReservedInv'
<1>1. PICK lines \in Baskets, w \in Warehouse :
         so' = [so EXCEPT ![o] = [status |-> "DRAFT", gen |-> 0, wh |-> w,
                                  ordered |-> lines, shipped |-> NoLines]]
  BY DEF CreateSO
<1>. DEFINE n == [status |-> "DRAFT", gen |-> 0, wh |-> w,
                  ordered |-> lines, shipped |-> NoLines]
<1>2. so[o].status = "NONE" /\ UNCHANGED <<stock, delivered, req>>
  BY DEF CreateSO
<1>3. lines \in [Sku -> Nat]
  BY BasketsAssumption
<1>4. n \in OrderRow /\ RowFits(n)
  BY <1>3, NoLinesType DEF OrderRow, Status, RowFits, NoLines
<1>5. \A c \in Cell : Claim(n, c) = 0 /\ Claim(so[o], c) = 0
  BY <1>2 DEF Claim, Open
<1>6. \A c \in Cell : stock[c].reserved \in Nat /\ stock[c].version \in Nat
  BY DEF ReservedInv, TypeOK, Row
<1>7. \A q \in Request : req[q] # Idle => req[q].order # o
  BY <1>2 DEF ReservedInv, ReadFits, Open, TypeOK, InFlight
<1>. HIDE DEF n
<1>8. so' = [so EXCEPT ![o] = n]
  BY <1>1 DEF n
<1>9. \A c \in Cell : /\ stock'[c].reserved =
                             stock[c].reserved + (Claim(n, c) - Claim(so[o], c))
                      /\ stock[c].version <= stock'[c].version
  BY <1>2, <1>5, <1>6
<1>. QED BY <1>2, <1>4, <1>7, <1>8, <1>9, ReservedStep

\* A confirmation or a cancellation is the only request on its order.
LEMMA ReservedAlone ==
    ASSUME ReservedInv, Overlap \subseteq {"edit", "ship"}, NEW r \in Request,
           req[r].op \in {"confirm", "cancel"}, Done(r)
    PROVE  /\ req[r] \in InFlight /\ req[r].order \in Order
           /\ so[req[r].order] \in OrderRow
           /\ ReadFits(req[r], so[req[r].order], stock)
           /\ \A q \in Request :
                 \/ req'[q] = Idle
                 \/ req'[q] = req[q] /\ (req[q] # Idle => req[q].order # req[r].order)
<1>1. req[r] \in InFlight /\ req[r] # Idle
  BY ActiveRequest DEF ReservedInv, Idle
<1>2. req[r].order \in Order /\ so[req[r].order] \in OrderRow
  BY <1>1 DEF ReservedInv, TypeOK, InFlight
<1>3. ReadFits(req[r], so[req[r].order], stock)
  BY <1>1 DEF ReservedInv
<1>4. \A q \in Request \ {r} : req[q] # Idle => req[q].order # req[r].order
  BY <1>1 DEF ReservedInv, Apart
<1>5. req'[r] = Idle /\ \A q \in Request \ {r} : req'[q] = req[q]
  BY DoneReq DEF ReservedInv
<1>. QED BY <1>1, <1>2, <1>3, <1>4, <1>5

LEMMA ReservedConfirm ==
    ASSUME ReservedInv, TypeOK', Apart', Overlap \subseteq {"edit", "ship"},
           \A c \in Cell : stock[c].version <= stock'[c].version,
           NEW r \in Request, ConfirmSO(r)
    PROVE  ReservedInv'
<1>. DEFINE t == req[r]
            o == t.order
            n == [so[o] EXCEPT !.status = "CONFIRMED"]
            Q(c) == QtyAt(t.row.wh, t.row.ordered, c)
<1>0. t.op = "confirm" /\ Done(r)
  BY DEF ConfirmSO
<1>1. /\ t \in InFlight /\ o \in Order /\ so[o] \in OrderRow
      /\ ReadFits(t, so[o], stock)
      /\ \A q \in Request : \/ req'[q] = Idle
                            \/ req'[q] = req[q] /\ (req[q] # Idle => req[q].order # o)
  BY <1>0, ReservedAlone
<1>2. t.row = so[o] /\ so[o].status = "DRAFT" /\ RowFits(so[o])
  BY <1>0, <1>1 DEF ReadFits, ReservedInv
<1>3. so' = [so EXCEPT ![o] = n]
  BY <1>1 DEF ConfirmSO, ReservedInv, TypeOK
<1>4. /\ n \in OrderRow
      /\ n.status = "CONFIRMED" /\ n.wh = so[o].wh
      /\ n.ordered = so[o].ordered /\ n.shipped = so[o].shipped
  BY <1>1 DEF OrderRow, Status
<1>5. so[o].shipped = NoLines
  BY <1>2 DEF RowFits
<1>6. RowFits(n)
  BY <1>2, <1>4 DEF RowFits
<1>7. ASSUME NEW c \in Cell
      PROVE  stock'[c].reserved = stock[c].reserved + (Claim(n, c) - Claim(so[o], c))
  <2>1. stock[c] \in Row /\ stock[c].reserved \in Nat /\ Q(c) \in Nat
    BY <1>1, <1>2, QtyAtNat DEF ReservedInv, TypeOK, Row, OrderRow
  <2>2. stock'[c] = IF Q(c) > 0 THEN Reserve(stock[c], Q(c)) ELSE stock[c]
    BY DEF ConfirmSO
  <2>3. stock'[c].reserved = stock[c].reserved + Q(c)
    BY <2>1, <2>2, ReservedMoves
  <2>4. so[o].ordered[c[2]] \in Nat /\ c[2] \in Sku
    BY <1>1 DEF OrderRow, Cell
  <2>5. Claim(n, c) = Q(c)
    BY <1>2, <1>4, <1>5, <2>4 DEF Claim, Open, Outstanding, QtyAt, NoLines
  <2>6. Claim(so[o], c) = 0
    BY <1>2 DEF Claim, Open
  <2>. QED BY <2>1, <2>3, <2>5, <2>6
<1>. HIDE DEF n
<1>. QED BY <1>1, <1>3, <1>4, <1>6, <1>7, ReservedStep

LEMMA ReservedCancel ==
    ASSUME ReservedInv, TypeOK', Apart', Overlap \subseteq {"edit", "ship"},
           \A c \in Cell : stock[c].version <= stock'[c].version,
           NEW r \in Request, CancelSO(r)
    PROVE  ReservedInv'
<1>. DEFINE t == req[r]
            o == t.order
            n == [so[o] EXCEPT !.status = "CANCELLED"]
            Q(c) == QtyAt(t.row.wh, ToRelease(t.row), c)
<1>0. t.op = "cancel" /\ Done(r)
  BY DEF CancelSO
<1>1. /\ t \in InFlight /\ o \in Order /\ so[o] \in OrderRow
      /\ ReadFits(t, so[o], stock)
      /\ \A q \in Request : \/ req'[q] = Idle
                            \/ req'[q] = req[q] /\ (req[q] # Idle => req[q].order # o)
  BY <1>0, ReservedAlone
<1>2. t.row = so[o] /\ so[o].status \in {"DRAFT", "CONFIRMED"} /\ RowFits(so[o])
  BY <1>0, <1>1 DEF ReadFits, ReservedInv
<1>3. so' = [so EXCEPT ![o] = n]
  BY <1>1 DEF CancelSO, ReservedInv, TypeOK
<1>4. /\ n \in OrderRow
      /\ n.status = "CANCELLED" /\ n.wh = so[o].wh
      /\ n.ordered = so[o].ordered /\ n.shipped = so[o].shipped
  BY <1>1 DEF OrderRow, Status
<1>5. \A s \in Sku : so[o].ordered[s] \in Nat /\ so[o].shipped[s] \in Nat
                     /\ so[o].shipped[s] <= so[o].ordered[s]
  BY <1>1, <1>2 DEF RowFits, OrderRow
<1>6. RowFits(n)
  BY <1>2, <1>4 DEF RowFits
<1>7. ASSUME NEW c \in Cell
      PROVE  stock'[c].reserved = stock[c].reserved + (Claim(n, c) - Claim(so[o], c))
  <2>1. stock[c] \in Row /\ stock[c].reserved \in Nat /\ Q(c) \in Nat
    BY <1>1, <1>2, QtyAtNat, ToReleaseType DEF ReservedInv, TypeOK, Row, OrderRow
  <2>2. stock'[c] = IF Q(c) > 0 THEN Unreserve(stock[c], Q(c)) ELSE stock[c]
    BY DEF CancelSO
  <2>3. stock'[c].reserved = stock[c].reserved - Q(c)
    BY <2>1, <2>2, ReservedMoves
  <2>4. c[2] \in Sku
    BY DEF Cell
  <2>5. Claim(so[o], c) = Q(c)
    BY SMTT(30), <1>2, <1>5, <2>4 DEF Claim, Open, Outstanding, QtyAt, ToRelease
  <2>6. Claim(n, c) = 0
    BY <1>4 DEF Claim, Open
  <2>. QED BY <2>1, <2>3, <2>5, <2>6
<1>. HIDE DEF n
<1>. QED BY <1>1, <1>3, <1>4, <1>6, <1>7, ReservedStep

LEMMA ReservedUpdate ==
    ASSUME ReservedInv, TypeOK', Apart', Overlap \subseteq {"edit", "ship"},
           NEW r \in Request, UpdateSO(r)
    PROVE  ReservedInv'
<1>. DEFINE t == req[r]
            o == t.order
<1>0. TypeOK
  BY DEF ReservedInv
<1>1. /\ t \in InFlight /\ t # Idle /\ t.op = "edit" /\ o \in Order
      /\ UNCHANGED <<stock, delivered>> /\ Done(r)
  BY <1>0, EditWrites
<1>2. PICK n \in OrderRow :
         /\ so' = [so EXCEPT ![o] = n]
         /\ n.status = so[o].status
         /\ \/ n.ordered = so[o].ordered /\ n.shipped = so[o].shipped
            \/ n.ordered = t.lines /\ n.shipped = NoLines
  BY <1>0, EditWrites
<1>3. so[o].status = "DRAFT" /\ RowFits(so[o])
  BY <1>1 DEF ReservedInv, ReadFits
<1>4. RowFits(n)
  <2>1. t.lines \in [Sku -> Nat]
    BY <1>1 DEF InFlight
  <2>. QED BY <1>2, <1>3, <2>1 DEF RowFits, NoLines
<1>5. \A c \in Cell : Claim(n, c) = 0 /\ Claim(so[o], c) = 0
  BY <1>2, <1>3 DEF Claim, Open
<1>6. \A c \in Cell : stock[c].reserved \in Nat /\ stock[c].version \in Nat
  BY <1>0 DEF TypeOK, Row
<1>7. \A c \in Cell : /\ stock'[c].reserved =
                             stock[c].reserved + (Claim(n, c) - Claim(so[o], c))
                      /\ stock[c].version <= stock'[c].version
  BY <1>1, <1>5, <1>6
<1>8. \A q \in Request : req[q] # Idle /\ req[q].order = o /\ q # r =>
                             Kept(req[q], so[o], n, stock, stock')
  <2>. SUFFICES ASSUME NEW q \in Request, req[q] # Idle, req[q].order = o, q # r
                PROVE  Kept(req[q], so[o], n, stock, stock')
    OBVIOUS
  <2>1. req[q].op \in {"edit", "ship"}
    BY <1>1 DEF ReservedInv, Apart
  <2>2. ReadFits(req[q], so[o], stock) /\ req[q] \in InFlight
    BY <1>0 DEF ReservedInv, TypeOK
  <2>3. req[q].op # "ship"
    BY <1>3, <2>2 DEF ReadFits, Open
  <2>. QED BY <1>2, <1>3, <2>1, <2>2, <2>3 DEF Kept, InFlight
<1>9. req'[r] = Idle /\ \A q \in Request \ {r} : req'[q] = req[q]
  BY <1>0, <1>1, DoneReq
<1>. HIDE DEF t, o
<1>10. o \in Order /\ so' = [so EXCEPT ![o] = n]
  BY <1>1, <1>2
<1>11. \A c \in Cell : stock[c].version <= stock'[c].version
  BY <1>7
<1>12. \A c \in Cell : stock'[c].reserved =
                           stock[c].reserved + (Claim(n, c) - Claim(so[o], c))
  BY <1>7
<1>13. \A q \in Request : \/ req'[q] = Idle
                          \/ /\ req'[q] = req[q]
                             /\ req[q] # Idle /\ req[q].order = o =>
                                   Kept(req[q], so[o], n, stock, stock')
  BY <1>8, <1>9
<1>. QED BY <1>4, <1>10, <1>11, <1>12, <1>13, ReservedStep

LEMMA ReservedShip ==
    ASSUME ReservedInv, TypeOK', Apart', Overlap \subseteq {"edit", "ship"},
           \A c \in Cell : stock[c].version <= stock'[c].version,
           NEW r \in Request, CreateDO(r)
    PROVE  ReservedInv'
<1>. DEFINE t == req[r]
            o == t.order
            st == IF FullyShipped(t) THEN "FULLY_SHIPPED" ELSE "PARTIAL_SHIPPED"
            Q(c) == QtyAt(t.row.wh, t.lines, c)
<1>0. TypeOK
  BY DEF ReservedInv
<1>1. /\ t \in InFlight /\ t # Idle /\ t.op = "ship" /\ o \in Order /\ Done(r)
  BY <1>0, ShipWrites
<1>2. PICK n \in OrderRow :
         /\ so' = [so EXCEPT ![o] = n]
         /\ n.wh = so[o].wh /\ n.ordered = so[o].ordered
         /\ n.shipped = ShippedAfter(t)
         /\ n.status = IF st # t.row.status THEN st ELSE so[o].status
  BY <1>0, ShipWrites
<1>3. so[o] \in OrderRow /\ RowFits(so[o]) /\ ReadFits(t, so[o], stock)
  BY <1>0, <1>1 DEF TypeOK, ReservedInv
<1>4. /\ so[o].status \in Open \cup {"FULLY_SHIPPED"}
      /\ t.row.wh = so[o].wh /\ t.row.ordered = so[o].ordered
      /\ t.lines # NoLines
      /\ \A s \in Sku : /\ t.lines[s] <= so[o].ordered[s] - t.row.shipped[s]
                         /\ t.row.shipped[s] <= so[o].shipped[s]
  BY <1>1, <1>3 DEF ReadFits, Outstanding
<1>5. \A s \in Sku : /\ t.lines[s] \in Nat /\ t.row.shipped[s] \in Nat
                     /\ so[o].shipped[s] \in Nat /\ so[o].ordered[s] \in Nat
                     /\ so[o].shipped[s] <= so[o].ordered[s]
  BY <1>1, <1>3 DEF InFlight, OrderRow, RowFits
<1>6. \A c \in Cell : stock[c] \in Row /\ Q(c) \in Nat
  BY <1>0, <1>1, QtyAtNat DEF TypeOK, InFlight, OrderRow
\* The version check: what is shipped of a line now is what was read of it.
<1>7. ASSUME NEW s \in Sku, t.lines[s] > 0
      PROVE  /\ t.row.shipped[s] = so[o].shipped[s]
             /\ stock[<<so[o].wh, s>>].version < stock'[<<so[o].wh, s>>].version
  <2>. DEFINE c == <<so[o].wh, s>>
  <2>1. c \in Cell /\ Q(c) = t.lines[s]
    BY <1>3, <1>4 DEF Cell, QtyAt, OrderRow
  <2>2. /\ SalesOutOK(stock[c], t.ver[c], Q(c))
        /\ stock'[c] = SalesOut(stock[c], Q(c))
    BY <1>7, <2>1 DEF CreateDO
  <2>3. stock[c].version = t.ver[c]
    BY <2>2 DEF SalesOutOK
  <2>4. /\ stock[c].version \in Nat
        /\ SalesOut(stock[c], Q(c)).version = stock[c].version + 1
    BY <1>6, <2>1, <2>2, SalesOutRow DEF Row, SalesOutOK
  <2>5. t.row.shipped[s] = so[o].shipped[s]
    BY <1>1, <1>3, <2>3 DEF ReadFits
  <2>. QED BY <2>2, <2>4, <2>5
<1>8. \A s \in Sku : /\ n.shipped[s] = so[o].shipped[s] + t.lines[s]
                     /\ n.shipped[s] <= so[o].ordered[s]
                     /\ t.row.shipped[s] + t.lines[s] <= n.shipped[s]
  <2>. SUFFICES ASSUME NEW s \in Sku
                PROVE  /\ n.shipped[s] = so[o].shipped[s] + t.lines[s]
                       /\ n.shipped[s] <= so[o].ordered[s]
                       /\ t.row.shipped[s] + t.lines[s] <= n.shipped[s]
    OBVIOUS
  <2>1. n.shipped[s] = IF t.lines[s] > 0 THEN t.row.shipped[s] + t.lines[s]
                       ELSE so[o].shipped[s]
    BY <1>2 DEF ShippedAfter
  <2>2. /\ t.lines[s] \in Nat /\ t.row.shipped[s] \in Nat
        /\ so[o].shipped[s] \in Nat /\ so[o].ordered[s] \in Nat
        /\ so[o].shipped[s] <= so[o].ordered[s]
        /\ t.lines[s] <= so[o].ordered[s] - t.row.shipped[s]
        /\ t.row.shipped[s] <= so[o].shipped[s]
    BY <1>4, <1>5
  <2>3. CASE t.lines[s] > 0
    <3>1. t.row.shipped[s] = so[o].shipped[s] /\ n.shipped[s] = t.row.shipped[s] + t.lines[s]
      BY <1>7, <2>1, <2>3
    <3>. QED BY <2>2, <3>1
  <2>4. CASE ~(t.lines[s] > 0)
    <3>1. n.shipped[s] = so[o].shipped[s] /\ t.lines[s] = 0
      BY <2>1, <2>2, <2>4
    <3>. QED BY <2>2, <3>1
  <2>. QED BY <2>3, <2>4
\* Something was outstanding, so the order was not closed.
<1>9. so[o].status \in Open
  <2>1. \E s \in Sku : t.lines[s] > 0
    <3>. SUFFICES ASSUME \A s \in Sku : ~(t.lines[s] > 0) PROVE FALSE
      OBVIOUS
    <3>1. \A s \in Sku : t.lines[s] = 0
      BY <1>5
    <3>2. t.lines = NoLines
      BY <1>1, <3>1 DEF InFlight, NoLines
    <3>. QED BY <1>4, <3>2
  <2>2. PICK s \in Sku : t.lines[s] > 0
    BY <2>1
  <2>3. so[o].shipped[s] # so[o].ordered[s]
    BY <1>5, <1>8, <2>2
  <2>. QED BY <1>3, <1>4, <2>3 DEF RowFits
<1>10. n.status = "FULLY_SHIPPED" => \A s \in Sku : n.shipped[s] = so[o].ordered[s]
  <2>. SUFFICES ASSUME n.status = "FULLY_SHIPPED", NEW s \in Sku
                PROVE  n.shipped[s] = so[o].ordered[s]
    OBVIOUS
  <2>1. FullyShipped(t)
    BY <1>2, <1>9 DEF Open
  <2>2. t.row.shipped[s] + t.lines[s] >= so[o].ordered[s]
    BY <1>4, <2>1 DEF FullyShipped
  <2>3. n.shipped[s] \in Nat
    BY DEF OrderRow
  <2>4. /\ n.shipped[s] <= so[o].ordered[s]
        /\ t.row.shipped[s] + t.lines[s] <= n.shipped[s]
    BY <1>8
  <2>5. /\ so[o].ordered[s] \in Nat /\ t.row.shipped[s] \in Nat /\ t.lines[s] \in Nat
    BY <1>5
  <2>. QED BY <2>2, <2>3, <2>4, <2>5
<1>11. n.status \in Open \cup {"FULLY_SHIPPED"}
  BY <1>2, <1>9 DEF Open
<1>12. RowFits(n)
  BY <1>2, <1>8, <1>10, <1>11 DEF RowFits, Open
<1>13. ASSUME NEW c \in Cell
       PROVE  stock'[c].reserved = stock[c].reserved + (Claim(n, c) - Claim(so[o], c))
  <2>1. stock[c] \in Row /\ stock[c].reserved \in Nat /\ Q(c) \in Nat /\ c[2] \in Sku
    BY <1>6 DEF Row, Cell
  <2>2. stock'[c] = IF Q(c) > 0 THEN SalesOut(stock[c], Q(c)) ELSE stock[c]
    BY DEF CreateDO
  <2>3. stock'[c].reserved = stock[c].reserved - Q(c)
    BY <2>1, <2>2, ReservedMoves
  <2>4. CASE c[1] # so[o].wh
    <3>1. Q(c) = 0 /\ Claim(n, c) = 0 /\ Claim(so[o], c) = 0
      BY <1>2, <1>4, <2>4 DEF QtyAt, Claim
    <3>. QED BY <2>1, <2>3, <3>1
  <2>5. CASE c[1] = so[o].wh
    <3>1. Q(c) = t.lines[c[2]] /\ Claim(so[o], c) = so[o].ordered[c[2]] - so[o].shipped[c[2]]
      BY <1>4, <1>9, <2>5 DEF QtyAt, Claim, Outstanding
    <3>2. n.shipped[c[2]] = so[o].shipped[c[2]] + t.lines[c[2]]
      BY <1>8, <2>1
    <3>3. Claim(n, c) = so[o].ordered[c[2]] - n.shipped[c[2]]
      <4>1. CASE n.status = "FULLY_SHIPPED"
        <5>1. Claim(n, c) = 0
          BY <4>1 DEF Claim, Open
        <5>2. n.shipped[c[2]] = so[o].ordered[c[2]]
          BY <1>10, <2>1, <4>1
        <5>. QED BY <1>5, <2>1, <5>1, <5>2
      <4>2. CASE n.status \in Open
        BY <1>2, <2>5, <4>2 DEF Claim, Outstanding
      <4>. QED BY <1>11, <4>1, <4>2
    <3>4. /\ so[o].ordered[c[2]] \in Nat /\ so[o].shipped[c[2]] \in Nat
          /\ t.lines[c[2]] \in Nat
      BY <1>5, <2>1
    <3>. QED BY SMTT(30), <2>1, <2>3, <3>1, <3>2, <3>3, <3>4
  <2>. QED BY <2>4, <2>5
<1>14. \A q \in Request : req[q] # Idle /\ req[q].order = o /\ q # r =>
                              Kept(req[q], so[o], n, stock, stock')
  <2>. SUFFICES ASSUME NEW q \in Request, req[q] # Idle, req[q].order = o, q # r
                PROVE  Kept(req[q], so[o], n, stock, stock')
    OBVIOUS
  <2>1. req[q].op \in {"edit", "ship"}
    BY <1>1 DEF ReservedInv, Apart
  <2>2. ReadFits(req[q], so[o], stock)
    BY DEF ReservedInv
  <2>3. req[q].op = "ship"
    BY <1>9, <2>1, <2>2 DEF ReadFits, Open
  <2>4. ASSUME NEW s \in Sku
        PROVE  /\ so[o].shipped[s] <= n.shipped[s]
               /\ n.shipped[s] # so[o].shipped[s] =>
                     stock[<<so[o].wh, s>>].version < stock'[<<so[o].wh, s>>].version
    <3>1. n.shipped[s] = so[o].shipped[s] + t.lines[s]
      BY <1>8
    <3>2. n.shipped[s] # so[o].shipped[s] => t.lines[s] > 0
      BY <1>5, <3>1
    <3>. QED BY <1>5, <1>7, <3>1, <3>2
  <2>. QED BY <1>2, <1>11, <2>3, <2>4 DEF Kept
<1>15. req'[r] = Idle /\ \A q \in Request \ {r} : req'[q] = req[q]
  BY <1>0, <1>1, DoneReq
<1>. HIDE DEF st, Q, t, o
<1>16. o \in Order /\ so' = [so EXCEPT ![o] = n]
  BY <1>1, <1>2
<1>. QED BY <1>12, <1>13, <1>14, <1>15, <1>16, ReservedStep

LEMMA ReservedNext ==
    ASSUME ReservedInv, NoOversell, Overlap \subseteq {"edit", "ship"}, [Next]_vars
    PROVE  ReservedInv'
<1>0. TypeOK /\ TypeOK' /\ Apart'
  BY NextType, ApartStep DEF ReservedInv
<1>v. \A c \in Cell : stock[c].version <= stock'[c].version
  BY <1>0, VersionsGrow
<1>1. CASE UNCHANGED vars
  BY <1>0, <1>v, <1>1, ReservedRest DEF vars
<1>2. ASSUME NEW r \in Request, Rollback(r) PROVE ReservedInv'
  <2>1. UNCHANGED <<stock, so, delivered>> /\ Done(r)
    BY <1>2 DEF Rollback
  <2>2. \A q \in Request : req'[q] \in {Idle, req[q]}
    BY <1>0, <2>1, DoneReq
  <2>. QED BY <1>0, <1>v, <2>1, <2>2, ReservedRest
<1>3. ASSUME NEW d \in Cell, NEW q \in 1 .. MaxOnHand, Supply(d, q) PROVE ReservedInv'
  <2>1. q \in Nat
    BY BoundsAssumption
  <2>2. UNCHANGED <<so, delivered, req>>
        /\ stock' = [stock EXCEPT ![d] = PurchaseIn(stock[d], q)]
    BY <1>3 DEF Supply
  <2>3. ASSUME NEW c \in Cell PROVE stock'[c].reserved = stock[c].reserved
    <3>1. stock[c] \in Row
      BY <1>0 DEF TypeOK
    <3>2. stock'[c] = stock[c] \/ stock'[c] = PurchaseIn(stock[c], q)
      BY <1>0, <2>2 DEF TypeOK
    <3>. QED BY <2>1, <3>1, <3>2, ReservedMoves
  <2>. QED BY <1>0, <1>v, <2>2, <2>3, ReservedRest
<1>. QED BY <1>0, <1>v, <1>1, <1>2, <1>3, NextCases, ReservedCreate, ReservedBegin,
            ReservedConfirm, ReservedCancel, ReservedUpdate, ReservedShip

\* Edits and shipments of one order may overlap as they like, and requests on
\* other orders anyhow: if its confirmations and cancellations have the order
\* to themselves, `reserved` of a stock row is the sum of what the open orders
\* have outstanding there.
THEOREM ReservationsAreExact ==
    ASSUME Overlap \subseteq {"edit", "ship"}
    PROVE  Spec => []ReservationsExact
<1>1. Init => ReservedInv /\ NoOversell
  BY ReservedInit, InitType
<1>2. ReservedInv /\ NoOversell /\ [Next]_vars => (ReservedInv /\ NoOversell)'
  BY ReservedNext, NextType DEF ReservedInv
<1>3. ReservedInv => ReservationsExact
  BY DEF ReservedInv
<1>. QED BY <1>1, <1>2, <1>3, PTL DEF Spec

-----------------------------------------------------------------------------
(* Statuses, when shipments have their order to themselves *)

\* What an order and its deliveries agree on.
OrderFits(row, posted) ==
    /\ row.shipped = posted
    /\ row.status \in {"NONE", "DRAFT", "CONFIRMED", "CANCELLED"} => posted = NoLines
    /\ row.status # "NONE" => row.ordered # NoLines
    /\ \A s \in Sku : posted[s] <= row.ordered[s]
    /\ row.status = "PARTIAL_SHIPPED" => \E s \in Sku : posted[s] # row.ordered[s]
    /\ row.status = "FULLY_SHIPPED" => \A s \in Sku : posted[s] = row.ordered[s]

\* A shipment has read what is there.  The other requests may be outdated, but
\* nothing can have been shipped of their order.
RequestFits(t, row) ==
    /\ t.op # "ship" => row.status \in {"DRAFT", "CONFIRMED", "CANCELLED"}
    /\ t.op = "ship" => /\ t.row = row
                        /\ row.status \in Open
                        /\ t.lines # NoLines
                        /\ \A s \in Sku : t.lines[s] <= Outstanding(row, s)

\* The inductive invariant for the statuses.
StatusInv ==
    /\ TypeOK
    /\ Apart
    /\ \A o \in Order : OrderFits(so[o], delivered[o])
    /\ \A r \in Request : req[r] # Idle => RequestFits(req[r], so[req[r].order])

\* A commit on one order, and the requests it leaves in flight.
LEMMA StatusStep ==
    ASSUME StatusInv, TypeOK', Apart', NEW o \in Order, NEW n,
           so' = [so EXCEPT ![o] = n],
           \A p \in Order \ {o} : delivered'[p] = delivered[p],
           OrderFits(n, delivered'[o]),
           \A q \in Request : \/ req'[q] = Idle
                              \/ /\ req'[q] = req[q]
                                 /\ req[q] # Idle /\ req[q].order = o => RequestFits(req[q], n)
    PROVE  StatusInv'
<1>1. (\A p \in Order \ {o} : so'[p] = so[p]) /\ so'[o] = n
  BY DEF StatusInv, TypeOK
<1>2. \A p \in Order : OrderFits(so'[p], delivered'[p])
  BY <1>1 DEF StatusInv
<1>3. ASSUME NEW q \in Request, req'[q] # Idle
      PROVE  RequestFits(req'[q], so'[req'[q].order])
  <2>1. req'[q] = req[q] /\ req[q] # Idle /\ req[q].order \in Order
    BY <1>3 DEF StatusInv, TypeOK, InFlight
  <2>2. CASE req[q].order = o
    BY <1>1, <1>3, <2>1, <2>2
  <2>3. CASE req[q].order # o
    <3>1. so'[req[q].order] = so[req[q].order]
      BY <1>1, <2>1, <2>3
    <3>. QED BY <2>1, <3>1 DEF StatusInv
  <2>. QED BY <2>2, <2>3
<1>. QED BY <1>2, <1>3 DEF StatusInv

\* A step that changes no order.
LEMMA StatusRest ==
    ASSUME StatusInv, TypeOK', Apart', UNCHANGED <<so, delivered>>,
           \A q \in Request : \/ req'[q] \in {Idle, req[q]}
                              \/ RequestFits(req'[q], so[req'[q].order])
    PROVE  StatusInv'
BY DEF StatusInv

LEMMA StatusInit == Init => StatusInv
<1>. SUFFICES ASSUME Init PROVE StatusInv
  OBVIOUS
<1>1. \A o \in Order : so[o].status = "NONE" /\ so[o].shipped = NoLines
                       /\ so[o].ordered = NoLines /\ delivered[o] = NoLines
  BY DEF Init
<1>2. \A o \in Order : OrderFits(so[o], delivered[o])
  BY <1>1 DEF OrderFits, NoLines
<1>3. \A r \in Request : req[r] = Idle
  BY DEF Init
<1>. QED BY <1>2, <1>3, InitType DEF StatusInv, Apart

LEMMA StatusBegin ==
    ASSUME StatusInv, TypeOK', Apart', NEW r \in Request, NEW o \in Order,
           NEW op \in {"confirm", "cancel", "edit", "ship"}, NEW lines, NEW w,
           Began(r, o, op, lines, w)
    PROVE  StatusInv'
<1>. DEFINE t == [op |-> op, order |-> o, row |-> so[o],
                  ver |-> [c \in Cell |-> stock[c].version],
                  lines |-> lines, wh |-> w]
<1>1. /\ UNCHANGED <<so, delivered>>
      /\ req'[r] = t /\ \A q \in Request \ {r} : req'[q] = req[q]
  BY DEF Began, Begin, StatusInv, TypeOK
<1>2. RequestFits(t, so[o])
  BY DEF Began, RequestFits
<1>3. t.order = o
  OBVIOUS
<1>. HIDE DEF t
<1>. QED BY <1>1, <1>2, <1>3, StatusRest

LEMMA StatusCreate ==
    ASSUME StatusInv, TypeOK', Apart', NEW o \in Order, CreateSO(o)
    PROVE  StatusInv'
<1>1. PICK lines \in Baskets, w \in Warehouse :
         so' = [so EXCEPT ![o] = [status |-> "DRAFT", gen |-> 0, wh |-> w,
                                  ordered |-> lines, shipped |-> NoLines]]
  BY DEF CreateSO
<1>. DEFINE n == [status |-> "DRAFT", gen |-> 0, wh |-> w,
                  ordered |-> lines, shipped |-> NoLines]
<1>2. so[o].status = "NONE" /\ UNCHANGED <<delivered, req>>
  BY DEF CreateSO
<1>3. delivered[o] = NoLines
  BY <1>2 DEF StatusInv, OrderFits
<1>4. lines \in [Sku -> Nat] /\ lines # NoLines
  BY BasketsAssumption
<1>5. OrderFits(n, delivered'[o])
  BY <1>2, <1>3, <1>4 DEF OrderFits, NoLines
<1>6. \A q \in Request : req[q] # Idle => req[q].order # o
  BY <1>2 DEF StatusInv, RequestFits, Open
<1>. HIDE DEF n
<1>7. so' = [so EXCEPT ![o] = n]
  BY <1>1 DEF n
<1>. QED BY <1>2, <1>5, <1>6, <1>7, StatusStep

\* A shipment is the only request on its order; next to another request there
\* is none.
LEMMA StatusAlone ==
    ASSUME StatusInv, "ship" \notin Overlap, NEW r \in Request, req[r].op # "idle",
           Done(r)
    PROVE  /\ req[r] \in InFlight /\ req[r].order \in Order
           /\ so[req[r].order] \in OrderRow
           /\ RequestFits(req[r], so[req[r].order])
           /\ OrderFits(so[req[r].order], delivered[req[r].order])
           /\ \A q \in Request :
                 \/ req'[q] = Idle
                 \/ /\ req'[q] = req[q]
                    /\ req[q] # Idle /\ req[q].order = req[r].order =>
                          req[q].op # "ship" /\ req[r].op # "ship"
<1>1. req[r] \in InFlight /\ req[r] # Idle
  BY ActiveRequest DEF StatusInv, Idle
<1>2. req[r].order \in Order /\ so[req[r].order] \in OrderRow
  BY <1>1 DEF StatusInv, TypeOK, InFlight
<1>3. /\ RequestFits(req[r], so[req[r].order])
      /\ OrderFits(so[req[r].order], delivered[req[r].order])
  BY <1>1, <1>2 DEF StatusInv
<1>4. \A q \in Request \ {r} : req[q] # Idle /\ req[q].order = req[r].order =>
                                   req[q].op # "ship" /\ req[r].op # "ship"
  BY <1>1 DEF StatusInv, Apart
<1>5. req'[r] = Idle /\ \A q \in Request \ {r} : req'[q] = req[q]
  BY DoneReq DEF StatusInv
<1>. QED BY <1>1, <1>2, <1>3, <1>4, <1>5

\* confirm_so and cancel_so: a status is written, and nothing was delivered.
LEMMA StatusSet ==
    ASSUME StatusInv, TypeOK', Apart', "ship" \notin Overlap, NEW r \in Request,
           NEW status \in {"CONFIRMED", "CANCELLED"},
           req[r].op \in {"confirm", "cancel"},
           so' = [so EXCEPT ![req[r].order].status = status],
           delivered' = delivered, Done(r)
    PROVE  StatusInv'
<1>. DEFINE o == req[r].order
            n == [so[o] EXCEPT !.status = status]
<1>1. /\ o \in Order /\ so[o] \in OrderRow
      /\ RequestFits(req[r], so[o]) /\ OrderFits(so[o], delivered[o])
      /\ \A q \in Request : \/ req'[q] = Idle
                            \/ /\ req'[q] = req[q]
                               /\ req[q] # Idle /\ req[q].order = o => req[q].op # "ship"
  BY StatusAlone
<1>2. so[o].status \in {"DRAFT", "CONFIRMED", "CANCELLED"}
  BY <1>1 DEF RequestFits
<1>3. so' = [so EXCEPT ![o] = n]
  BY <1>1 DEF StatusInv, TypeOK
<1>4. /\ n.status = status
      /\ n.ordered = so[o].ordered /\ n.shipped = so[o].shipped
  BY <1>1 DEF OrderRow
<1>. HIDE DEF n
<1>5. OrderFits(n, delivered'[o])
  BY <1>1, <1>2, <1>4 DEF OrderFits
<1>6. \A q \in Request : req[q].op # "ship" => RequestFits(req[q], n)
  BY <1>4 DEF RequestFits
<1>. HIDE DEF o
<1>7. \A q \in Request : \/ req'[q] = Idle
                         \/ /\ req'[q] = req[q]
                            /\ req[q] # Idle /\ req[q].order = o => RequestFits(req[q], n)
  BY <1>1, <1>6
<1>8. o \in Order /\ so' = [so EXCEPT ![o] = n]
  BY <1>1, <1>3
<1>. QED BY <1>5, <1>7, <1>8, StatusStep

LEMMA StatusUpdate ==
    ASSUME StatusInv, TypeOK', Apart', "ship" \notin Overlap, NEW r \in Request,
           UpdateSO(r)
    PROVE  StatusInv'
<1>. DEFINE t == req[r]
            o == t.order
<1>0. TypeOK
  BY DEF StatusInv
<1>1. t \in InFlight /\ t.op = "edit" /\ UNCHANGED delivered /\ Done(r)
  BY <1>0, EditWrites
<1>2. PICK n \in OrderRow :
         /\ so' = [so EXCEPT ![o] = n]
         /\ n.status = so[o].status
         /\ \/ n.ordered = so[o].ordered /\ n.shipped = so[o].shipped
            \/ /\ n.ordered = t.lines /\ t.lines # NoLines
               /\ n.shipped = NoLines /\ delivered[o] = NoLines
  BY <1>0, EditWrites
<1>3. /\ o \in Order
      /\ RequestFits(t, so[o]) /\ OrderFits(so[o], delivered[o])
      /\ \A q \in Request : \/ req'[q] = Idle
                            \/ /\ req'[q] = req[q]
                               /\ req[q] # Idle /\ req[q].order = o => req[q].op # "ship"
  BY <1>1, StatusAlone
<1>4. so[o].status \in {"DRAFT", "CONFIRMED", "CANCELLED"} /\ t.lines \in [Sku -> Nat]
  BY <1>1, <1>3 DEF RequestFits, InFlight
<1>5. OrderFits(n, delivered'[o])
  BY <1>1, <1>2, <1>3, <1>4 DEF OrderFits, NoLines
<1>6. \A q \in Request : req[q].op # "ship" => RequestFits(req[q], n)
  BY <1>2, <1>4 DEF RequestFits
<1>. HIDE DEF t, o
<1>. QED BY <1>1, <1>2, <1>3, <1>5, <1>6, StatusStep

LEMMA StatusShip ==
    ASSUME StatusInv, TypeOK', Apart', "ship" \notin Overlap, NEW r \in Request,
           CreateDO(r)
    PROVE  StatusInv'
<1>. DEFINE t == req[r]
            o == t.order
            st == IF FullyShipped(t) THEN "FULLY_SHIPPED" ELSE "PARTIAL_SHIPPED"
<1>0. TypeOK
  BY DEF StatusInv
<1>1. /\ t \in InFlight /\ t.op = "ship" /\ o \in Order /\ Done(r)
      /\ delivered' = [delivered EXCEPT ![o] = [s \in Sku |-> delivered[o][s] + t.lines[s]]]
  BY <1>0, ShipWrites
<1>2. PICK n \in OrderRow :
         /\ so' = [so EXCEPT ![o] = n]
         /\ n.wh = so[o].wh /\ n.ordered = so[o].ordered
         /\ n.shipped = ShippedAfter(t)
         /\ n.status = IF st # t.row.status THEN st ELSE so[o].status
  BY <1>0, ShipWrites
<1>3. /\ so[o] \in OrderRow
      /\ RequestFits(t, so[o]) /\ OrderFits(so[o], delivered[o])
      /\ \A q \in Request : \/ req'[q] = Idle
                            \/ /\ req'[q] = req[q]
                               /\ req[q] # Idle => req[q].order # o
  BY <1>1, StatusAlone
<1>4. /\ t.row = so[o] /\ so[o].status \in Open
      /\ \A s \in Sku : t.lines[s] <= so[o].ordered[s] - so[o].shipped[s]
  BY <1>1, <1>3 DEF RequestFits, Outstanding
<1>5. ASSUME NEW s \in Sku
      PROVE  /\ so[o].ordered[s] \in Nat /\ so[o].shipped[s] \in Nat /\ t.lines[s] \in Nat
             /\ n.shipped[s] = so[o].shipped[s] + t.lines[s]
             /\ n.shipped[s] <= so[o].ordered[s]
  <2>1. so[o].ordered[s] \in Nat /\ so[o].shipped[s] \in Nat /\ t.lines[s] \in Nat
    BY <1>1, <1>3 DEF OrderRow, InFlight
  <2>2. n.shipped[s] = IF t.lines[s] > 0 THEN so[o].shipped[s] + t.lines[s]
                       ELSE so[o].shipped[s]
    BY <1>2, <1>4 DEF ShippedAfter
  <2>3. n.shipped[s] = so[o].shipped[s] + t.lines[s]
    BY <2>1, <2>2
  <2>. QED BY <1>4, <2>1, <2>3
<1>6. n.status = st
  BY <1>2, <1>4
<1>7. FullyShipped(t) <=> \A s \in Sku : n.shipped[s] = so[o].ordered[s]
  <2>1. FullyShipped(t) <=> \A s \in Sku : n.shipped[s] >= so[o].ordered[s]
    BY <1>4, <1>5 DEF FullyShipped
  <2>2. \A s \in Sku : n.shipped[s] >= so[o].ordered[s] <=> n.shipped[s] = so[o].ordered[s]
    BY <1>5
  <2>. QED BY <2>1, <2>2
<1>8. n.shipped = delivered'[o] /\ \A p \in Order \ {o} : delivered'[p] = delivered[p]
  <2>1. delivered[o] = so[o].shipped
    BY <1>3 DEF OrderFits
  <2>2. delivered'[o] = [s \in Sku |-> so[o].shipped[s] + t.lines[s]]
    BY <1>0, <1>1, <2>1 DEF TypeOK
  <2>3. n.shipped \in [Sku -> Nat]
    BY DEF OrderRow
  <2>4. n.shipped = delivered'[o]
    BY <1>5, <2>2, <2>3
  <2>. QED BY <1>0, <1>1, <2>4 DEF TypeOK
<1>9. OrderFits(n, delivered'[o])
  <2>1. so[o].ordered # NoLines
    BY <1>3, <1>4 DEF OrderFits, Open
  <2>2. CASE FullyShipped(t)
    <3>1. n.status = "FULLY_SHIPPED"
      BY <1>6, <2>2
    <3>. QED BY <1>2, <1>5, <1>7, <1>8, <2>1, <2>2, <3>1 DEF OrderFits
  <2>3. CASE ~FullyShipped(t)
    <3>1. n.status = "PARTIAL_SHIPPED"
      BY <1>6, <2>3
    <3>. QED BY <1>2, <1>5, <1>7, <1>8, <2>1, <2>3, <3>1 DEF OrderFits
  <2>. QED BY <2>2, <2>3
<1>10. so' = [so EXCEPT ![o] = n]
  BY <1>2
<1>. HIDE DEF t, o, st
<1>. QED BY <1>1, <1>3, <1>8, <1>9, <1>10, StatusStep

LEMMA StatusNext ==
    ASSUME StatusInv, NoOversell, "ship" \notin Overlap, [Next]_vars
    PROVE  StatusInv'
<1>0. TypeOK /\ TypeOK' /\ Apart'
  BY NextType, ApartStep DEF StatusInv
<1>1. CASE UNCHANGED vars
  BY <1>0, <1>1, StatusRest DEF vars
<1>2. ASSUME NEW r \in Request, Rollback(r) PROVE StatusInv'
  <2>1. UNCHANGED <<so, delivered>> /\ Done(r)
    BY <1>2 DEF Rollback
  <2>2. \A q \in Request : req'[q] \in {Idle, req[q]}
    BY <1>0, <2>1, DoneReq
  <2>. QED BY <1>0, <2>1, <2>2, StatusRest
<1>3. ASSUME NEW d \in Cell, NEW q \in 1 .. MaxOnHand, Supply(d, q) PROVE StatusInv'
  BY <1>0, <1>3, StatusRest DEF Supply
<1>4. ASSUME NEW r \in Request, ConfirmSO(r) PROVE StatusInv'
  BY <1>0, <1>4, StatusSet DEF ConfirmSO
<1>5. ASSUME NEW r \in Request, CancelSO(r) PROVE StatusInv'
  BY <1>0, <1>5, StatusSet DEF CancelSO
<1>. QED BY <1>0, <1>1, <1>2, <1>3, <1>4, <1>5, NextCases, StatusCreate, StatusBegin,
            StatusUpdate, StatusShip

\* Confirmations, cancellations and edits of one order may overlap as they
\* like: if its shipments have the order to themselves, it is FULLY_SHIPPED
\* exactly when all of it is delivered, and a cancelled order was never
\* delivered.
THEOREM StatusIsTrue ==
    ASSUME "ship" \notin Overlap
    PROVE  Spec => []StatusTrue
<1>1. StatusInv => StatusTrue
  <2>. SUFFICES ASSUME StatusInv PROVE StatusTrue
    OBVIOUS
  <2>1. ASSUME NEW o \in Order, so[o].status \in Open \cup {"FULLY_SHIPPED"}
        PROVE  so[o].status = "FULLY_SHIPPED" <=> AllShipped(o)
    <3>1. OrderFits(so[o], delivered[o])
      BY DEF StatusInv
    <3>2. so[o].status = "CONFIRMED" => ~AllShipped(o)
      <4>. SUFFICES ASSUME so[o].status = "CONFIRMED", AllShipped(o) PROVE FALSE
        OBVIOUS
      <4>1. delivered[o] = NoLines /\ so[o].ordered # NoLines
        BY <3>1 DEF OrderFits
      <4>2. so[o].ordered \in [Sku -> Nat]
        BY DEF StatusInv, TypeOK, OrderRow
      <4>3. so[o].ordered = NoLines
        BY <4>1, <4>2 DEF AllShipped, NoLines
      <4>. QED BY <4>1, <4>3
    <3>. QED BY <2>1, <3>1, <3>2 DEF OrderFits, AllShipped, Open
  <2>2. CancelledNeverShipped
    BY DEF StatusInv, OrderFits, CancelledNeverShipped
  <2>. QED BY <2>1, <2>2 DEF StatusTrue, FullyShippedIsRecorded
<1>2. Init => StatusInv /\ NoOversell
  BY StatusInit, InitType
<1>3. StatusInv /\ NoOversell /\ [Next]_vars => (StatusInv /\ NoOversell)'
  BY StatusNext, NextType DEF StatusInv
<1>. QED BY <1>1, <1>2, <1>3, PTL DEF Spec
=============================================================================
