------------------------ MODULE StockTransfer_proofs ------------------------
(***************************************************************************)
(* Proofs about StockTransfer, for any number of transfers, SKUs,          *)
(* warehouses and requests.  The bounds play no part in them.              *)
(***************************************************************************)
EXTENDS StockTransfer, StockRow_proofs, TLAPS

\* The quantity asked of a row is a quantity.
LEMMA QtyAtNat ==
    ASSUME NEW w, NEW lines \in [Sku -> Nat], NEW c \in Cell
    PROVE  QtyAt(w, lines, c) \in Nat
  BY DEF QtyAt, Cell

LEMMA NoLinesType == NoLines \in [Sku -> Nat]
  BY DEF NoLines

\* A payload other than the empty one has a line.
LEMMA SomeLine ==
    ASSUME NEW lines \in [Sku -> Nat], lines # NoLines
    PROVE  \E s \in Sku : lines[s] > 0
<1>1. \E s \in Sku : lines[s] # 0
  BY DEF NoLines
<1>. QED BY <1>1

\* The two ends of a transfer.
LEMMA RouteEnds ==
    ASSUME NEW p \in Route, NEW i \in {1, 2}
    PROVE  p[i] \in Warehouse /\ \A s \in Sku : <<p[i], s>> \in Cell
  BY DEF Route, Cell

\* A request that does anything carries a transfer, a snapshot and a payload.
LEMMA ActiveRequest ==
    ASSUME TypeOK, NEW r \in Request, req[r].op # "idle"
    PROVE  /\ req[r] \in InFlight /\ req[r] # Idle
           /\ req[r].tr \in Transfer /\ tr[req[r].tr] \in TransferRow
           /\ req[r].row \in TransferRow /\ req[r].lines \in [Sku -> Nat]
           /\ req[r].ver \in [Cell -> Nat] /\ req[r].route \in Route
           /\ req[r].row.route \in Route
<1>1. req[r] \in InFlight /\ req[r] # Idle
  BY DEF TypeOK, Idle
<1>. QED BY <1>1 DEF TypeOK, InFlight, TransferRow

\* A request that ends leaves the other requests as they were.
LEMMA DoneReq ==
    ASSUME TypeOK, NEW r \in Request, Done(r)
    PROVE  /\ req' \in [Request -> InFlight \cup {Idle}]
           /\ req'[r] = Idle /\ \A q \in Request \ {r} : req'[q] = req[q]
  BY DEF Done, TypeOK

-----------------------------------------------------------------------------
(* Steps *)

Operations == {"confirm", "cancel", "edit", "ship", "receive"}

\* The disjuncts of Next, with what every Begin... checked on the row it read.
Began(r, o, op, lines, p) ==
    /\ Begin(r, op, o, lines, p)
    /\ op \in {"confirm", "edit"} => tr[o].status = "DRAFT"
    /\ op = "cancel" => tr[o].status \in {"DRAFT", "CONFIRMED"}
    /\ op = "ship" => tr[o].status = "CONFIRMED" /\ lines = tr[o].sent
    /\ op = "receive" =>
          /\ tr[o].status = "IN_TRANSIT"
          /\ lines # NoLines
          /\ \A s \in Sku : lines[s] > 0 => tr[o].got[s] + lines[s] <= tr[o].sent[s]

Reading ==
    \E r \in Request, o \in Transfer, op \in Operations, lines \in [Sku -> Nat],
       p \in Route : Began(r, o, op, lines, p)

\* The shape of a step: the five Begin... actions are one.
LEMMA NextCases ==
    ASSUME TypeOK, [Next]_vars
    PROVE  \/ UNCHANGED vars
           \/ \E o \in Transfer : CreateTransfer(o)
           \/ Reading
           \/ \E r \in Request : \/ ConfirmTransfer(r)
                                 \/ CancelTransfer(r)
                                 \/ UpdateTransfer(r)
                                 \/ ShipOutTransfer(r)
                                 \/ ReceiveTransfer(r)
                                 \/ Rollback(r)
<1>0. \A o \in Transfer : tr[o].route \in Route /\ tr[o].sent \in [Sku -> Nat]
  BY DEF TypeOK, TransferRow
<1>1. ASSUME NEW r \in Request, NEW o \in Transfer, BeginConfirm(r, o)
      PROVE  Began(r, o, "confirm", NoLines, tr[o].route)
  BY <1>1 DEF BeginConfirm, Began
<1>2. ASSUME NEW r \in Request, NEW o \in Transfer, NEW privileged \in BOOLEAN,
             BeginCancel(r, o, privileged)
      PROVE  Began(r, o, "cancel", NoLines, tr[o].route)
  BY <1>2 DEF BeginCancel, Began
<1>3. ASSUME NEW r \in Request, NEW o \in Transfer, NEW lines, NEW p,
             BeginUpdate(r, o, lines, p)
      PROVE  Began(r, o, "edit", lines, p)
  BY <1>3 DEF BeginUpdate, Began
<1>4. ASSUME NEW r \in Request, NEW o \in Transfer, BeginShip(r, o)
      PROVE  Began(r, o, "ship", tr[o].sent, tr[o].route)
  BY <1>4 DEF BeginShip, Began
<1>5. ASSUME NEW r \in Request, NEW o \in Transfer, NEW lines, BeginReceive(r, o, lines)
      PROVE  Began(r, o, "receive", lines, tr[o].route)
  BY <1>5 DEF BeginReceive, Began
<1>6. /\ Baskets \cup {NoLines} \subseteq [Sku -> Nat]
      /\ [Sku -> 0 .. MaxReceipt] \subseteq [Sku -> Nat]
      /\ ValidRoute \subseteq Route
  BY BasketsAssumption, BoundsAssumption, NoLinesType DEF ValidRoute
<1>7. ASSUME NEW r \in Request, NEW o \in Transfer,
             \/ BeginConfirm(r, o)
             \/ \E privileged \in BOOLEAN : BeginCancel(r, o, privileged)
             \/ \E lines \in Baskets \cup {NoLines}, p \in ValidRoute :
                    BeginUpdate(r, o, lines, p)
             \/ BeginShip(r, o)
             \/ \E lines \in [Sku -> 0 .. MaxReceipt] : BeginReceive(r, o, lines)
      PROVE  Reading
  <2>1. CASE BeginConfirm(r, o)
    BY <1>0, <1>1, <2>1, NoLinesType DEF Reading, Operations
  <2>2. ASSUME NEW privileged \in BOOLEAN, BeginCancel(r, o, privileged)
        PROVE  Reading
    BY <1>0, <1>2, <2>2, NoLinesType DEF Reading, Operations
  <2>3. ASSUME NEW lines \in Baskets \cup {NoLines}, NEW p \in ValidRoute,
               BeginUpdate(r, o, lines, p)
        PROVE  Reading
    BY <1>3, <1>6, <2>3 DEF Reading, Operations
  <2>4. CASE BeginShip(r, o)
    BY <1>0, <1>4, <2>4 DEF Reading, Operations
  <2>5. ASSUME NEW lines \in [Sku -> 0 .. MaxReceipt], BeginReceive(r, o, lines)
        PROVE  Reading
    BY <1>0, <1>5, <1>6, <2>5 DEF Reading, Operations
  <2>. QED BY <1>7, <2>1, <2>2, <2>3, <2>4, <2>5
<1>. QED BY <1>7, Zenon DEF Next

\* A request starts with a well-formed snapshot.
LEMMA BeginReq ==
    ASSUME TypeOK, NEW r \in Request, NEW o \in Transfer, NEW op \in Operations,
           NEW lines \in [Sku -> Nat], NEW p \in Route, Begin(r, op, o, lines, p)
    PROVE  /\ req' \in [Request -> InFlight \cup {Idle}]
           /\ req'[r] \in InFlight
           /\ req'[r].op = op /\ req'[r].tr = o /\ req'[r].row = tr[o]
           /\ req'[r].lines = lines /\ req'[r].route = p
           /\ \A c \in Cell : req'[r].ver[c] = stock[c].version
           /\ \A q \in Request \ {r} : req'[q] = req[q]
           /\ UNCHANGED <<stock, tr, out, landed>>
<1>. DEFINE t == [op |-> op, tr |-> o, row |-> tr[o],
                  ver |-> [c \in Cell |-> stock[c].version],
                  lines |-> lines, route |-> p]
<1>1. [c \in Cell |-> stock[c].version] \in [Cell -> Nat] /\ tr[o] \in TransferRow
  BY DEF TypeOK, Row
<1>2. t \in InFlight
  BY <1>1 DEF InFlight, Operations
<1>3. /\ t.op = op /\ t.tr = o /\ t.row = tr[o] /\ t.lines = lines /\ t.route = p
      /\ \A c \in Cell : t.ver[c] = stock[c].version
  OBVIOUS
<1>4. req' = [req EXCEPT ![r] = t] /\ UNCHANGED <<stock, tr, out, landed>>
  BY DEF Begin
<1>. HIDE DEF t
<1>5. /\ req' \in [Request -> InFlight \cup {Idle}]
      /\ req'[r] = t
      /\ \A q \in Request \ {r} : req'[q] = req[q]
  BY <1>2, <1>4 DEF TypeOK
<1>. QED BY <1>2, <1>3, <1>4, <1>5

-----------------------------------------------------------------------------
(* What any step does to the stock rows *)

\* One statement of the transfers, on the row as it is.
TransferStep(s, n) ==
    \E q \in Nat : \/ ShipOutOK(s, s.version, q) /\ n = ShipOut(s, q)
                   \/ n = ShipIn(s, q)
                   \/ ReceiveOK(s, s.version, q) /\ n = Receive(s, q)

LEMMA TransferStepRow ==
    ASSUME NEW s \in Row, NEW n, TransferStep(s, n)
    PROVE  n \in Row /\ s.version \in Nat /\ n.version = s.version + 1
<1>. PICK q \in Nat : \/ ShipOutOK(s, s.version, q) /\ n = ShipOut(s, q)
                      \/ n = ShipIn(s, q)
                      \/ ReceiveOK(s, s.version, q) /\ n = Receive(s, q)
  BY DEF TransferStep
<1>0. s.version \in Nat
  BY DEF Row
<1>1. CASE ShipOutOK(s, s.version, q) /\ n = ShipOut(s, q)
  BY <1>0, <1>1, ShipOutRow
<1>2. CASE n = ShipIn(s, q)
  BY <1>0, <1>2, ShipInRow
<1>3. CASE ReceiveOK(s, s.version, q) /\ n = Receive(s, q)
  BY <1>0, <1>3, ReceiveRow
<1>. QED BY <1>1, <1>2, <1>3

\* The rows of a ship-out: those that goods leave had the version that was read.
LEMMA ShipRows ==
    ASSUME TypeOK, NEW r \in Request, ShipOutTransfer(r)
    PROVE  /\ stock' = [c \in Cell |-> stock'[c]]
           /\ \A c \in Cell : stock'[c] = stock[c] \/ TransferStep(stock[c], stock'[c])
           /\ \A c \in Cell : QtyAt(req[r].row.route[1], req[r].lines, c) > 0 =>
                 /\ req[r].ver[c] = stock[c].version
                 /\ TransferStep(stock[c], stock'[c])
<1>. DEFINE t == req[r]
            leaving(c) == QtyAt(t.row.route[1], t.lines, c)
            coming(c) == QtyAt(t.row.route[2], t.lines, c)
<1>1. t.lines \in [Sku -> Nat]
  BY ActiveRequest DEF ShipOutTransfer
<1>2. \A c \in Cell : leaving(c) \in Nat /\ coming(c) \in Nat
  BY <1>1, QtyAtNat
<1>3. /\ stock' = [c \in Cell |-> IF leaving(c) > 0 THEN ShipOut(stock[c], leaving(c))
                                  ELSE IF coming(c) > 0 THEN ShipIn(stock[c], coming(c))
                                  ELSE stock[c]]
      /\ \A c \in Cell : leaving(c) > 0 => ShipOutOK(stock[c], t.ver[c], leaving(c))
  BY DEF ShipOutTransfer, CanShip
<1>. HIDE DEF leaving, coming
<1>4. \A c \in Cell : leaving(c) > 0 => /\ t.ver[c] = stock[c].version
                                        /\ ShipOutOK(stock[c], stock[c].version, leaving(c))
  BY <1>3 DEF ShipOutOK
<1>5. \A c \in Cell : leaving(c) > 0 => TransferStep(stock[c], stock'[c])
  BY <1>2, <1>3, <1>4 DEF TransferStep
<1>6. \A c \in Cell : stock'[c] = stock[c] \/ TransferStep(stock[c], stock'[c])
  BY <1>2, <1>3, <1>5 DEF TransferStep
<1>. QED BY <1>3, <1>4, <1>5, <1>6 DEF leaving

\* The rows of a receipt, likewise.
LEMMA ReceiveRows ==
    ASSUME TypeOK, NEW r \in Request, ReceiveTransfer(r)
    PROVE  /\ stock' = [c \in Cell |-> stock'[c]]
           /\ \A c \in Cell : stock'[c] = stock[c] \/ TransferStep(stock[c], stock'[c])
           /\ \A c \in Cell : QtyAt(req[r].row.route[2], req[r].lines, c) > 0 =>
                 /\ req[r].ver[c] = stock[c].version
                 /\ TransferStep(stock[c], stock'[c])
<1>. DEFINE t == req[r]
            arriving(c) == QtyAt(t.row.route[2], t.lines, c)
<1>1. t.lines \in [Sku -> Nat]
  BY ActiveRequest DEF ReceiveTransfer
<1>2. \A c \in Cell : arriving(c) \in Nat
  BY <1>1, QtyAtNat
<1>3. /\ stock' = [c \in Cell |-> IF arriving(c) > 0 THEN Receive(stock[c], arriving(c))
                                  ELSE stock[c]]
      /\ \A c \in Cell : arriving(c) > 0 => ReceiveOK(stock[c], t.ver[c], arriving(c))
  BY DEF ReceiveTransfer
<1>. HIDE DEF arriving
<1>4. \A c \in Cell : arriving(c) > 0 => /\ t.ver[c] = stock[c].version
                                         /\ ReceiveOK(stock[c], stock[c].version, arriving(c))
  BY <1>3 DEF ReceiveOK
<1>5. \A c \in Cell : arriving(c) > 0 => TransferStep(stock[c], stock'[c])
  BY <1>2, <1>3, <1>4 DEF TransferStep
<1>6. \A c \in Cell : stock'[c] = stock[c] \/ TransferStep(stock[c], stock'[c])
  BY <1>2, <1>3, <1>5
<1>. QED BY <1>3, <1>4, <1>5, <1>6 DEF arriving

\* Every commit changes each row by at most one such statement, however old
\* the snapshot is on which the request rests.
LEMMA StockMoves ==
    ASSUME TypeOK, [Next]_vars
    PROVE  /\ stock' = [c \in Cell |-> stock'[c]]
           /\ \A c \in Cell : stock'[c] = stock[c] \/ TransferStep(stock[c], stock'[c])
<1>. DEFINE Moves == /\ stock' = [c \in Cell |-> stock'[c]]
                     /\ \A c \in Cell : \/ stock'[c] = stock[c]
                                        \/ TransferStep(stock[c], stock'[c])
<1>1. ASSUME UNCHANGED stock PROVE Moves
  BY <1>1 DEF TypeOK
<1>2. ASSUME NEW r \in Request, ShipOutTransfer(r) PROVE Moves
  BY <1>2, ShipRows
<1>3. ASSUME NEW r \in Request, ReceiveTransfer(r) PROVE Moves
  BY <1>3, ReceiveRows
<1>4. ASSUME \/ UNCHANGED vars
             \/ \E o \in Transfer : CreateTransfer(o)
             \/ Reading
             \/ \E r \in Request : \/ ConfirmTransfer(r) \/ CancelTransfer(r)
                                   \/ UpdateTransfer(r) \/ Rollback(r)
      PROVE  UNCHANGED stock
  BY ZenonT(40), <1>4 DEF vars, CreateTransfer, Reading, Began, Begin, ConfirmTransfer, CancelTransfer,
              UpdateTransfer, Rollback
<1>. HIDE DEF Moves
<1>5. Moves
  BY <1>1, <1>2, <1>3, <1>4, NextCases
<1>. QED BY <1>5 DEF Moves

\* No step turns the clock of a row back.
LEMMA VersionsGrow ==
    ASSUME TypeOK, [Next]_vars
    PROVE  /\ stock' \in [Cell -> Row]
           /\ \A c \in Cell : /\ stock[c] \in Row /\ stock'[c] \in Row
                              /\ stock[c].version \in Nat /\ stock'[c].version \in Nat
                              /\ stock[c].version <= stock'[c].version
<1>1. \A c \in Cell : stock[c] \in Row /\ stock[c].version \in Nat
  BY DEF TypeOK, Row
<1>2. \A c \in Cell : \/ stock'[c] = stock[c]
                      \/ stock'[c] \in Row /\ stock'[c].version = stock[c].version + 1
  BY <1>1, StockMoves, TransferStepRow
<1>3. \A c \in Cell : stock'[c] \in Row
  BY <1>1, <1>2
<1>. QED BY <1>1, <1>2, <1>3, StockMoves

-----------------------------------------------------------------------------
(* What each operation leaves of the transfer it works on *)

LEMMA StatusWritten ==
    ASSUME TypeOK, NEW o \in Transfer, NEW status \in Status, SetStatus(o, status)
    PROVE  /\ tr' \in [Transfer -> TransferRow]
           /\ \A p \in Transfer \ {o} : tr'[p] = tr[p]
           /\ tr'[o].status = status /\ tr'[o].gen = tr[o].gen
           /\ tr'[o].route = tr[o].route /\ tr'[o].sent = tr[o].sent
           /\ tr'[o].got = tr[o].got
<1>. DEFINE n == [tr[o] EXCEPT !.status = status]
<1>1. tr \in [Transfer -> TransferRow] /\ tr[o] \in TransferRow
  BY DEF TypeOK
<1>2. /\ n \in TransferRow /\ n.status = status /\ n.gen = tr[o].gen
      /\ n.route = tr[o].route /\ n.sent = tr[o].sent /\ n.got = tr[o].got
  BY <1>1 DEF TransferRow
<1>3. tr' = [tr EXCEPT ![o] = n]
  BY DEF SetStatus
<1>. HIDE DEF n
<1>4. tr' \in [Transfer -> TransferRow] /\ tr'[o] = n /\ \A p \in Transfer \ {o} : tr'[p] = tr[p]
  BY <1>1, <1>2, <1>3
<1>. QED BY <1>2, <1>4

LEMMA CreateWritten ==
    ASSUME TypeOK, NEW o \in Transfer, CreateTransfer(o)
    PROVE  /\ tr' \in [Transfer -> TransferRow]
           /\ \A p \in Transfer \ {o} : tr'[p] = tr[p]
           /\ tr[o].status = "NONE" /\ tr'[o].status = "DRAFT"
           /\ tr'[o].sent # NoLines /\ tr'[o].got = NoLines
           /\ UNCHANGED <<stock, out, landed, req>>
<1>1. PICK lines \in Baskets, p \in ValidRoute :
         tr' = [tr EXCEPT ![o] = [status |-> "DRAFT", gen |-> 0, route |-> p,
                                  sent |-> lines, got |-> NoLines]]
  BY DEF CreateTransfer
<1>. DEFINE n == [status |-> "DRAFT", gen |-> 0, route |-> p, sent |-> lines, got |-> NoLines]
<1>2. lines \in [Sku -> Nat] /\ lines # NoLines /\ p \in Route
  BY BasketsAssumption DEF ValidRoute
<1>3. n \in TransferRow
  BY <1>2, NoLinesType DEF TransferRow, Status
<1>4. n.status = "DRAFT" /\ n.sent = lines /\ n.got = NoLines
  OBVIOUS
<1>5. tr' = [tr EXCEPT ![o] = n]
  BY <1>1
<1>. HIDE DEF n
<1>6. tr' \in [Transfer -> TransferRow] /\ tr'[o] = n /\ \A q \in Transfer \ {o} : tr'[q] = tr[q]
  BY <1>3, <1>5 DEF TypeOK
<1>. QED BY <1>2, <1>4, <1>6 DEF CreateTransfer

LEMMA UpdateWritten ==
    ASSUME TypeOK, NEW r \in Request, UpdateTransfer(r)
    PROVE  LET t == req[r]
               o == t.tr
           IN  /\ tr' \in [Transfer -> TransferRow]
               /\ \A p \in Transfer \ {o} : tr'[p] = tr[p]
               /\ tr'[o].status = tr[o].status
               /\ t.lines = NoLines => tr'[o].sent = tr[o].sent /\ tr'[o].got = tr[o].got
               /\ t.lines # NoLines => tr'[o].sent = t.lines /\ tr'[o].got = NoLines
<1>. DEFINE t == req[r]
            o == t.tr
            n == [status |-> tr[o].status,
                  gen    |-> IF t.lines = NoLines THEN tr[o].gen ELSE tr[o].gen + 1,
                  route  |-> RouteAfter(t),
                  sent   |-> IF t.lines = NoLines THEN tr[o].sent ELSE t.lines,
                  got    |-> IF t.lines = NoLines THEN tr[o].got ELSE NoLines]
<1>1. /\ o \in Transfer /\ tr[o] \in TransferRow /\ t.lines \in [Sku -> Nat]
      /\ t.route \in Route /\ t.row.route \in Route
  BY ActiveRequest DEF UpdateTransfer
<1>2. RouteAfter(t) \in Route
  <2>1. tr[o].route \in Route
    BY <1>1 DEF TransferRow
  <2>2. \A i \in {1, 2} : tr[o].route[i] \in Warehouse /\ t.route[i] \in Warehouse
    BY <1>1, <2>1, RouteEnds
  <2>. QED BY <2>2 DEF RouteAfter, Route
<1>3. n \in TransferRow
  BY <1>1, <1>2, NoLinesType DEF TransferRow
<1>4. /\ n.status = tr[o].status
      /\ t.lines = NoLines => n.sent = tr[o].sent /\ n.got = tr[o].got
      /\ t.lines # NoLines => n.sent = t.lines /\ n.got = NoLines
  OBVIOUS
<1>5. tr' = [tr EXCEPT ![o] = n]
  BY DEF UpdateTransfer
<1>. HIDE DEF n
<1>6. tr' \in [Transfer -> TransferRow] /\ tr'[o] = n /\ \A p \in Transfer \ {o} : tr'[p] = tr[p]
  BY <1>1, <1>3, <1>5 DEF TypeOK
<1>. QED BY <1>4, <1>6

LEMMA ShipWritten ==
    ASSUME TypeOK, NEW r \in Request, ShipOutTransfer(r)
    PROVE  LET t == req[r]
               o == t.tr
           IN  /\ tr' \in [Transfer -> TransferRow]
               /\ out' \in [Transfer -> [Sku -> Nat]]
               /\ \A p \in Transfer \ {o} : tr'[p] = tr[p] /\ out'[p] = out[p]
               /\ tr'[o].status = "IN_TRANSIT" /\ tr'[o].route = tr[o].route
               /\ tr'[o].sent = tr[o].sent /\ tr'[o].got = tr[o].got
               /\ \A s \in Sku : out'[o][s] = out[o][s] + t.lines[s]
<1>. DEFINE t == req[r]
            o == t.tr
            m == [s \in Sku |-> out[o][s] + t.lines[s]]
<1>1. o \in Transfer /\ t.lines \in [Sku -> Nat]
  BY ActiveRequest DEF ShipOutTransfer
<1>2. m \in [Sku -> Nat] /\ \A s \in Sku : m[s] = out[o][s] + t.lines[s]
  <2>1. out[o] \in [Sku -> Nat]
    BY <1>1 DEF TypeOK
  <2>. QED BY <1>1, <2>1
<1>3. SetStatus(o, "IN_TRANSIT") /\ out' = [out EXCEPT ![o] = m]
  BY DEF ShipOutTransfer
<1>. HIDE DEF m
<1>4. /\ out' \in [Transfer -> [Sku -> Nat]] /\ out'[o] = m
      /\ \A p \in Transfer \ {o} : out'[p] = out[p]
  BY <1>1, <1>2, <1>3 DEF TypeOK
<1>5. "IN_TRANSIT" \in Status
  BY DEF Status
<1>6. /\ tr' \in [Transfer -> TransferRow]
      /\ \A p \in Transfer \ {o} : tr'[p] = tr[p]
      /\ tr'[o].status = "IN_TRANSIT" /\ tr'[o].route = tr[o].route
      /\ tr'[o].sent = tr[o].sent /\ tr'[o].got = tr[o].got
  BY <1>1, <1>3, <1>5, StatusWritten
<1>. QED BY <1>2, <1>4, <1>6

LEMMA ReceiptWritten ==
    ASSUME TypeOK, NEW r \in Request, ReceiveTransfer(r)
    PROVE  LET t == req[r]
               o == t.tr
           IN  /\ tr' \in [Transfer -> TransferRow]
               /\ landed' \in [Transfer -> [Sku -> Nat]]
               /\ \A p \in Transfer \ {o} : tr'[p] = tr[p] /\ landed'[p] = landed[p]
               /\ tr'[o].status = IF FullyReceived(t) THEN "RECEIVED" ELSE tr[o].status
               /\ tr'[o].route = tr[o].route /\ tr'[o].sent = tr[o].sent
               /\ \A s \in Sku : tr'[o].got[s] = IF t.lines[s] > 0
                                                 THEN t.row.got[s] + t.lines[s]
                                                 ELSE tr[o].got[s]
               /\ \A s \in Sku : landed'[o][s] = landed[o][s] + t.lines[s]
<1>. DEFINE t == req[r]
            o == t.tr
            st == IF FullyReceived(t) THEN "RECEIVED" ELSE tr[o].status
            g == GotAfter(t)
            m == [s \in Sku |-> landed[o][s] + t.lines[s]]
            n == [tr[o] EXCEPT !.got = g, !.status = st]
<1>1. /\ o \in Transfer /\ tr[o] \in TransferRow /\ t.lines \in [Sku -> Nat]
      /\ t.row \in TransferRow
  BY ActiveRequest DEF ReceiveTransfer
<1>2. m \in [Sku -> Nat] /\ \A s \in Sku : m[s] = landed[o][s] + t.lines[s]
  <2>1. landed[o] \in [Sku -> Nat]
    BY <1>1 DEF TypeOK
  <2>. QED BY <1>1, <2>1
<1>3. /\ g \in [Sku -> Nat]
      /\ \A s \in Sku : g[s] = IF t.lines[s] > 0 THEN t.row.got[s] + t.lines[s]
                               ELSE tr[o].got[s]
  BY <1>1 DEF GotAfter, TransferRow
<1>4. st \in Status \cup {"NONE"}
  BY <1>1 DEF Status, TransferRow
<1>5. tr' = [tr EXCEPT ![o] = n] /\ landed' = [landed EXCEPT ![o] = m]
  BY DEF ReceiveTransfer
<1>. HIDE DEF g, st, m
<1>6. /\ n \in TransferRow /\ n.status = st /\ n.got = g
      /\ n.route = tr[o].route /\ n.sent = tr[o].sent
  BY <1>1, <1>3, <1>4 DEF TransferRow
<1>. HIDE DEF n
<1>7. /\ tr' \in [Transfer -> TransferRow] /\ tr'[o] = n
      /\ landed' \in [Transfer -> [Sku -> Nat]] /\ landed'[o] = m
      /\ \A p \in Transfer \ {o} : tr'[p] = tr[p] /\ landed'[p] = landed[p]
  BY <1>1, <1>2, <1>5, <1>6 DEF TypeOK
<1>. QED BY <1>2, <1>3, <1>6, <1>7 DEF st

-----------------------------------------------------------------------------
(* Types *)

LEMMA InitType == Init => TypeOK
<1>. SUFFICES ASSUME Init PROVE TypeOK
  OBVIOUS
<1>1. [EmptyRow EXCEPT !.on_hand = InitialOnHand] \in Row
  BY BoundsAssumption DEF EmptyRow, Row
<1>2. PICK p \in ValidRoute :
         tr = [o \in Transfer |-> [status |-> "NONE", gen |-> 0, route |-> p,
                                   sent |-> NoLines, got |-> NoLines]]
  BY DEF Init
<1>3. [status |-> "NONE", gen |-> 0, route |-> p, sent |-> NoLines, got |-> NoLines]
         \in TransferRow
  BY NoLinesType DEF TransferRow, ValidRoute
<1>. QED BY <1>1, <1>2, <1>3, NoLinesType DEF Init, TypeOK

LEMMA NextType == TypeOK /\ [Next]_vars => TypeOK'
<1>. SUFFICES ASSUME TypeOK, [Next]_vars PROVE TypeOK'
  OBVIOUS
<1>0. stock' \in [Cell -> Row]
  BY VersionsGrow
<1>1. CASE UNCHANGED vars
  BY <1>1 DEF vars, TypeOK
<1>2. ASSUME NEW o \in Transfer, CreateTransfer(o) PROVE TypeOK'
  BY <1>2, CreateWritten DEF TypeOK
<1>3. CASE Reading
  <2>1. PICK r \in Request, o \in Transfer, op \in Operations, lines \in [Sku -> Nat],
             p \in Route : Began(r, o, op, lines, p)
    BY <1>3, Zenon DEF Reading
  <2>2. Begin(r, op, o, lines, p)
    BY <2>1 DEF Began
  <2>3. /\ req' \in [Request -> InFlight \cup {Idle}]
        /\ UNCHANGED <<stock, tr, out, landed>>
    BY <2>2, BeginReq
  <2>. QED BY <2>3 DEF TypeOK
<1>4. ASSUME NEW r \in Request, ConfirmTransfer(r) \/ CancelTransfer(r) PROVE TypeOK'
  <2>1. req[r].tr \in Transfer
    BY <1>4, ActiveRequest DEF ConfirmTransfer, CancelTransfer
  <2>2. "CONFIRMED" \in Status /\ "CANCELLED" \in Status
    BY DEF Status
  <2>3. tr' \in [Transfer -> TransferRow]
    BY <1>4, <2>1, <2>2, StatusWritten DEF ConfirmTransfer, CancelTransfer
  <2>. QED BY <1>0, <1>4, <2>3, DoneReq DEF ConfirmTransfer, CancelTransfer, TypeOK
<1>5. ASSUME NEW r \in Request, UpdateTransfer(r) PROVE TypeOK'
  BY <1>0, <1>5, UpdateWritten, DoneReq DEF UpdateTransfer, TypeOK
<1>6. ASSUME NEW r \in Request, ShipOutTransfer(r) PROVE TypeOK'
  BY <1>0, <1>6, ShipWritten, DoneReq DEF ShipOutTransfer, TypeOK
<1>7. ASSUME NEW r \in Request, ReceiveTransfer(r) PROVE TypeOK'
  BY <1>0, <1>7, ReceiptWritten, DoneReq DEF ReceiveTransfer, TypeOK
<1>8. ASSUME NEW r \in Request, Rollback(r) PROVE TypeOK'
  BY <1>8, DoneReq DEF Rollback, TypeOK
<1>. QED BY <1>1, <1>2, <1>3, <1>4, <1>5, <1>6, <1>7, <1>8, NextCases

\* However requests overlap, every table stays well-formed: no row sends or
\* lands more than it has.
THEOREM TypeCorrect == Spec => []TypeOK
<1>1. TypeOK /\ [Next]_vars => TypeOK'
  BY NextType
<1>. QED BY <1>1, InitType, PTL DEF Spec

-----------------------------------------------------------------------------
(* The contract of the stock ledger *)

LEMMA TransferStepIsStatement ==
    ASSUME NEW s \in Row, NEW n, TransferStep(s, n)
    PROVE  Ledger!Statement(s, n)
<1>. PICK q \in Nat : \/ ShipOutOK(s, s.version, q) /\ n = ShipOut(s, q)
                      \/ n = ShipIn(s, q)
                      \/ ReceiveOK(s, s.version, q) /\ n = Receive(s, q)
  BY DEF TransferStep
<1>0. s.on_hand \in Nat /\ s.in_transit \in Nat
  BY DEF Row
<1>1. CASE ShipOutOK(s, s.version, q) /\ n = ShipOut(s, q)
  <2>1. n.on_hand = s.on_hand - q
    BY <1>1 DEF ShipOut, Bump, Row
  <2>2. q \in Ledger!Moved(s, n)
    BY <1>0, <2>1 DEF Ledger!Moved, Ledger!Distance
  <2>3. n \in Ledger!After("send", s, q)
    BY <1>1 DEF Ledger!After, Ledger!Send, Ledger!ShipOut, Ledger!ShipOutOK, Ledger!Bump,
                ShipOut, ShipOutOK, Bump
  <2>. QED BY <2>2, <2>3 DEF Ledger!Statement
<1>2. CASE n = ShipIn(s, q)
  <2>1. n.in_transit = s.in_transit + q
    BY <1>2 DEF ShipIn, Bump, Row
  <2>2. q \in Ledger!Moved(s, n)
    BY <1>0, <2>1 DEF Ledger!Moved, Ledger!Distance
  <2>3. n \in Ledger!After("take in", s, q)
    BY <1>2 DEF Ledger!After, Ledger!TakeIn, Ledger!ShipIn, Ledger!Bump, ShipIn, Bump
  <2>. QED BY <2>2, <2>3 DEF Ledger!Statement
<1>3. CASE ReceiveOK(s, s.version, q) /\ n = Receive(s, q)
  <2>1. n.on_hand = s.on_hand + q
    BY <1>3 DEF Receive, Bump, Row
  <2>2. q \in Ledger!Moved(s, n)
    BY <1>0, <2>1 DEF Ledger!Moved, Ledger!Distance
  <2>3. n \in Ledger!After("take in", s, q)
    BY <1>3 DEF Ledger!After, Ledger!TakeIn, Ledger!Receive, Ledger!ReceiveOK, Ledger!Bump,
                Receive, ReceiveOK, Bump
  <2>. QED BY <2>2, <2>3 DEF Ledger!Statement
<1>. QED BY <1>1, <1>2, <1>3

\* Seen from the stock rows alone, transfers do nothing but what the ledger
\* allows.
THEOREM TransfersImplementLedger == Spec => KeepsLedger
<1>1. Init => Ledger!Init
  BY DEF Init, Ledger!Init, EmptyRow, Ledger!EmptyRow
<1>2. TypeOK /\ [Next]_vars => [Ledger!Commit]_stock
  <2>. SUFFICES ASSUME TypeOK, [Next]_vars PROVE Ledger!Commit
    OBVIOUS
  <2>1. \A c \in Cell : stock[c] \in Row
    BY DEF TypeOK
  <2>2. \A c \in Cell : \/ stock'[c] = stock[c]
                        \/ Ledger!Statement(stock[c], stock'[c])
    BY <2>1, StockMoves, TransferStepIsStatement
  <2>. QED BY <2>2, StockMoves DEF Ledger!Commit
<1>. QED BY <1>1, <1>2, TypeCorrect, PTL DEF Spec, KeepsLedger, Ledger!Spec

-----------------------------------------------------------------------------
(* What was moved is what was written, when only requests that ship or receive
   overlap on a transfer *)

Moving == {"IN_TRANSIT", "RECEIVED"}

\* What a transfer shows and what was moved for it agree.
TransferFits(row, gone, here) ==
    /\ row.status # "NONE" => row.sent # NoLines
    /\ row.status \in Moving => gone = row.sent
    /\ row.status \notin Moving => gone = NoLines /\ here = NoLines
    /\ row.got = here
    /\ \A s \in Sku : here[s] <= gone[s]

\* A row that changed since it was read stops the statement that goes by it.
Outdated(t, w, s, rows) == t.ver[<<w, s>>] # rows[<<w, s>>].version

\* A request in flight has read what the transfer still shows.  If it ships, it
\* finds the goods still there or one of their rows changed; if it receives,
\* each of its lines is as it was read or goes into a row that has changed.
RequestFits(t, row, rows) ==
    /\ \A c \in Cell : t.ver[c] <= rows[c].version
    /\ t.row.route = row.route
    /\ t.row.sent = row.sent
    /\ t.op \in {"confirm", "edit"} => row.status = "DRAFT"
    /\ t.op = "cancel" => row.status \in {"DRAFT", "CONFIRMED"}
    /\ t.op = "ship" =>
          /\ t.lines = row.sent
          /\ \/ row.status = "CONFIRMED"
             \/ /\ row.status \in Moving
                /\ \E s \in Sku : t.lines[s] > 0 /\ Outdated(t, row.route[1], s, rows)
    /\ t.op = "receive" =>
          /\ row.status \in Moving
          /\ \A s \in Sku : t.lines[s] > 0 =>
                /\ t.row.got[s] + t.lines[s] <= row.sent[s]
                /\ t.row.got[s] = row.got[s] \/ Outdated(t, row.route[2], s, rows)

\* Two requests on one transfer are of the kinds that may overlap.
Apart ==
    \A q, r \in Request :
        q # r /\ req[q] # Idle /\ req[r] # Idle /\ req[q].tr = req[r].tr =>
            req[q].op \in Overlap

MovedInv ==
    /\ TypeOK
    /\ Apart
    /\ \A o \in Transfer : TransferFits(tr[o], out[o], landed[o])
    /\ \A r \in Request : req[r] # Idle => RequestFits(req[r], tr[req[r].tr], stock)

LEMMA ApartNext ==
    ASSUME TypeOK, Apart, [Next]_vars
    PROVE  Apart'
<1>1. ASSUME UNCHANGED req PROVE Apart'
  BY <1>1 DEF Apart
<1>2. ASSUME NEW r \in Request, Done(r) PROVE Apart'
  BY <1>2, DoneReq DEF Apart
<1>3. CASE Reading
  <2>1. PICK r \in Request, o \in Transfer, op \in Operations, lines \in [Sku -> Nat],
             p \in Route : Began(r, o, op, lines, p)
    BY <1>3, Zenon DEF Reading
  <2>2. Begin(r, op, o, lines, p)
    BY <2>1 DEF Began
  <2>3. /\ req'[r].op = op /\ req'[r].tr = o
        /\ \A q \in Request \ {r} : req'[q] = req[q]
    BY <2>2, BeginReq
  <2>4. \A q \in Request : req[q] # Idle /\ req[q].tr = o =>
                               op \in Overlap /\ req[q].op \in Overlap
    BY <2>2 DEF Begin
  <2>. QED BY <2>3, <2>4 DEF Apart
<1>4. ASSUME \/ UNCHANGED vars
             \/ \E o \in Transfer : CreateTransfer(o)
      PROVE  UNCHANGED req
  BY <1>4 DEF vars, CreateTransfer
<1>5. ASSUME NEW r \in Request, \/ ConfirmTransfer(r) \/ CancelTransfer(r)
                                \/ UpdateTransfer(r) \/ ShipOutTransfer(r)
                                \/ ReceiveTransfer(r) \/ Rollback(r)
      PROVE  Done(r)
  BY <1>5 DEF ConfirmTransfer, CancelTransfer, UpdateTransfer, ShipOutTransfer,
              ReceiveTransfer, Rollback
<1>. QED BY <1>1, <1>2, <1>3, <1>4, <1>5, NextCases

\* Rows only age: what fits a request goes on to, while its transfer stays as
\* it is.
LEMMA RequestKept ==
    ASSUME TypeOK, [Next]_vars, NEW t \in InFlight, NEW row \in TransferRow,
           RequestFits(t, row, stock)
    PROVE  RequestFits(t, row, stock')
<1>1. /\ t.ver \in [Cell -> Nat]
      /\ row.route \in Route
  BY DEF InFlight, TransferRow
<1>2. \A c \in Cell : /\ t.ver[c] <= stock[c].version
                      /\ t.ver[c] \in Nat /\ stock[c].version \in Nat
                      /\ stock'[c].version \in Nat
                      /\ stock[c].version <= stock'[c].version
  BY <1>1, VersionsGrow DEF RequestFits
<1>3. \A c \in Cell : /\ t.ver[c] <= stock'[c].version
                      /\ t.ver[c] # stock[c].version => t.ver[c] # stock'[c].version
  BY <1>2
<1>4. \A i \in {1, 2}, s \in Sku : <<row.route[i], s>> \in Cell
  BY <1>1, RouteEnds
<1>5. \A i \in {1, 2}, s \in Sku :
         Outdated(t, row.route[i], s, stock) => Outdated(t, row.route[i], s, stock')
  BY <1>3, <1>4 DEF Outdated
<1>6. \A s \in Sku :
         /\ Outdated(t, row.route[1], s, stock) => Outdated(t, row.route[1], s, stock')
         /\ Outdated(t, row.route[2], s, stock) => Outdated(t, row.route[2], s, stock')
  BY <1>5
<1>. QED BY <1>3, <1>6 DEF RequestFits

\* A request ends and changes at most its own transfer, in a way that suits the
\* other requests that work on it.
LEMMA MovedStep ==
    ASSUME MovedInv, [Next]_vars, NEW r \in Request, Done(r), NEW o \in Transfer,
           TransferFits(tr'[o], out'[o], landed'[o]),
           \A p \in Transfer \ {o} :
               tr'[p] = tr[p] /\ out'[p] = out[p] /\ landed'[p] = landed[p],
           \/ tr'[o] = tr[o]
           \/ \A q \in Request \ {r} : req[q] # Idle /\ req[q].tr = o =>
                  RequestFits(req[q], tr'[o], stock')
    PROVE  MovedInv'
<1>1. req'[r] = Idle /\ \A q \in Request \ {r} : req'[q] = req[q]
  BY DoneReq DEF MovedInv
<1>2. \A p \in Transfer : TransferFits(tr'[p], out'[p], landed'[p])
  BY DEF MovedInv
<1>3. ASSUME NEW q \in Request, req'[q] # Idle
      PROVE  RequestFits(req'[q], tr'[req'[q].tr], stock')
  <2>1. /\ q # r /\ req'[q] = req[q] /\ req[q] # Idle /\ req[q] \in InFlight
        /\ RequestFits(req[q], tr[req[q].tr], stock)
    BY <1>1, <1>3 DEF MovedInv, TypeOK
  <2>2. req[q].tr \in Transfer /\ tr[req[q].tr] \in TransferRow
    BY <2>1 DEF InFlight, MovedInv, TypeOK
  <2>3. RequestFits(req[q], tr[req[q].tr], stock')
    BY <2>1, <2>2, RequestKept DEF MovedInv
  <2>4. CASE tr'[req[q].tr] = tr[req[q].tr]
    BY <2>1, <2>3, <2>4
  <2>5. CASE tr'[req[q].tr] # tr[req[q].tr]
    <3>1. req[q].tr = o
      BY <2>2, <2>5
    <3>. QED BY <2>1, <2>5, <3>1
  <2>. QED BY <2>4, <2>5
<1>4. Apart' /\ TypeOK'
  BY ApartNext, NextType DEF MovedInv
<1>. QED BY <1>2, <1>3, <1>4 DEF MovedInv

\* A confirmation, a cancellation or an edit is alone on its transfer.
LEMMA AloneOnTransfer ==
    ASSUME MovedInv, Overlap \subseteq {"ship", "receive"},
           NEW r \in Request, req[r].op \in {"confirm", "cancel", "edit"}
    PROVE  \A q \in Request \ {r} : req[q] # Idle => req[q].tr # req[r].tr
<1>1. req[r] # Idle
  BY DEF Idle
<1>. QED BY <1>1 DEF MovedInv, Apart


LEMMA MovedInit == Init => MovedInv
<1>. SUFFICES ASSUME Init PROVE MovedInv
  OBVIOUS
<1>1. TypeOK
  BY InitType
<1>2. \A r \in Request : req[r] = Idle
  BY DEF Init
<1>3. \A o \in Transfer : /\ tr[o].status = "NONE" /\ tr[o].got = NoLines
                          /\ out[o] = NoLines /\ landed[o] = NoLines
  BY DEF Init
<1>4. \A s \in Sku : NoLines[s] <= NoLines[s]
  BY DEF NoLines
<1>5. \A o \in Transfer : TransferFits(tr[o], out[o], landed[o])
  BY <1>3, <1>4 DEF TransferFits, Moving
<1>. QED BY <1>1, <1>2, <1>5 DEF MovedInv, Apart

\* A new transfer has no request working on it yet.
LEMMA MovedCreate ==
    ASSUME MovedInv, NEW o \in Transfer, CreateTransfer(o)
    PROVE  MovedInv'
<1>0. TypeOK /\ [Next]_vars
  BY DEF MovedInv, Next
<1>1. /\ \A p \in Transfer \ {o} : tr'[p] = tr[p]
      /\ tr[o].status = "NONE" /\ tr'[o].status = "DRAFT"
      /\ tr'[o].sent # NoLines /\ tr'[o].got = NoLines
      /\ UNCHANGED <<stock, out, landed, req>>
  BY <1>0, CreateWritten
<1>2. TransferFits(tr'[o], out'[o], landed'[o])
  BY <1>1 DEF MovedInv, TransferFits, Moving
<1>3. \A p \in Transfer : TransferFits(tr'[p], out'[p], landed'[p])
  BY <1>1, <1>2 DEF MovedInv
<1>4. ASSUME NEW r \in Request, req[r] # Idle
      PROVE  RequestFits(req'[r], tr'[req'[r].tr], stock')
  <2>1. RequestFits(req[r], tr[req[r].tr], stock) /\ req[r] \in InFlight
    BY <1>4 DEF MovedInv, TypeOK
  <2>2. req[r].tr \in Transfer /\ req[r].tr # o
    BY <1>1, <2>1 DEF InFlight, RequestFits, Moving
  <2>. QED BY <1>1, <2>1, <2>2
<1>5. Apart' /\ TypeOK'
  BY <1>0, ApartNext, NextType DEF MovedInv
<1>. QED BY <1>1, <1>3, <1>4, <1>5 DEF MovedInv

\* What a request reads, fits it.
LEMMA MovedBegin ==
    ASSUME MovedInv, [Next]_vars, Reading
    PROVE  MovedInv'
<1>1. PICK r \in Request, o \in Transfer, op \in Operations, lines \in [Sku -> Nat],
           p \in Route : Began(r, o, op, lines, p)
  BY Zenon DEF Reading
<1>2. Begin(r, op, o, lines, p)
  BY <1>1 DEF Began
<1>3. /\ req'[r] \in InFlight
      /\ req'[r].op = op /\ req'[r].tr = o /\ req'[r].row = tr[o]
      /\ req'[r].lines = lines
      /\ \A c \in Cell : req'[r].ver[c] = stock[c].version
      /\ \A q \in Request \ {r} : req'[q] = req[q]
      /\ UNCHANGED <<stock, tr, out, landed>>
  BY <1>2, BeginReq DEF MovedInv
<1>4. \A c \in Cell : stock[c].version <= stock[c].version
  BY DEF MovedInv, TypeOK, Row
<1>5. /\ op \in {"confirm", "edit"} => tr[o].status = "DRAFT"
      /\ op = "cancel" => tr[o].status \in {"DRAFT", "CONFIRMED"}
      /\ op = "ship" => tr[o].status = "CONFIRMED" /\ lines = tr[o].sent
      /\ op = "receive" => /\ tr[o].status = "IN_TRANSIT"
                           /\ \A s \in Sku : lines[s] > 0 =>
                                 tr[o].got[s] + lines[s] <= tr[o].sent[s]
  BY <1>1 DEF Began
<1>6. RequestFits(req'[r], tr[o], stock)
  BY <1>3, <1>4, <1>5 DEF RequestFits, Moving
<1>7. \A q \in Request : req'[q] # Idle => RequestFits(req'[q], tr'[req'[q].tr], stock')
  BY <1>3, <1>6 DEF MovedInv
<1>8. Apart' /\ TypeOK'
  BY ApartNext, NextType DEF MovedInv
<1>9. \A q \in Transfer : TransferFits(tr'[q], out'[q], landed'[q])
  BY <1>3 DEF MovedInv
<1>. QED BY <1>7, <1>8, <1>9 DEF MovedInv

\* Documents that have not moved keep their lines or get others.
LEMMA MovedPaper ==
    ASSUME MovedInv, Overlap \subseteq {"ship", "receive"}, NEW r \in Request,
           ConfirmTransfer(r) \/ CancelTransfer(r) \/ UpdateTransfer(r)
    PROVE  MovedInv'
<1>. DEFINE o == req[r].tr
<1>0. TypeOK /\ [Next]_vars
  BY DEF MovedInv, Next
<1>1. req[r].op \in {"confirm", "cancel", "edit"} /\ req[r].op # "idle"
  BY DEF ConfirmTransfer, CancelTransfer, UpdateTransfer
<1>2. /\ o \in Transfer /\ req[r] # Idle
      /\ RequestFits(req[r], tr[o], stock) /\ TransferFits(tr[o], out[o], landed[o])
      /\ tr[o] \in TransferRow
  BY <1>0, <1>1, ActiveRequest DEF MovedInv
<1>3. Done(r) /\ UNCHANGED <<stock, out, landed>>
  BY DEF ConfirmTransfer, CancelTransfer, UpdateTransfer
<1>4. tr[o].status \in {"DRAFT", "CONFIRMED"}
  BY <1>1, <1>2 DEF RequestFits
<1>5. \A q \in Request \ {r} : req[q] # Idle => req[q].tr # o
  BY <1>1, AloneOnTransfer
<1>6. (\A p \in Transfer \ {o} : tr'[p] = tr[p]) /\ TransferFits(tr'[o], out'[o], landed'[o])
  <2>1. CASE ConfirmTransfer(r) \/ CancelTransfer(r)
    <3>1. \/ SetStatus(o, "CONFIRMED")
          \/ SetStatus(o, "CANCELLED")
      BY <2>1 DEF ConfirmTransfer, CancelTransfer
    <3>2. "CONFIRMED" \in Status /\ "CANCELLED" \in Status
      BY DEF Status
    <3>3. /\ \A p \in Transfer \ {o} : tr'[p] = tr[p]
          /\ tr'[o].status \in {"CONFIRMED", "CANCELLED"}
          /\ tr'[o].sent = tr[o].sent /\ tr'[o].got = tr[o].got
      BY <1>0, <1>2, <3>1, <3>2, StatusWritten
    <3>. QED BY <1>2, <1>3, <1>4, <3>3 DEF TransferFits, Moving
  <2>2. CASE UpdateTransfer(r)
    <3>1. /\ \A p \in Transfer \ {o} : tr'[p] = tr[p]
          /\ tr'[o].status = tr[o].status
          /\ tr'[o].sent = IF req[r].lines = NoLines THEN tr[o].sent ELSE req[r].lines
          /\ tr'[o].got = IF req[r].lines = NoLines THEN tr[o].got ELSE NoLines
      BY <1>0, <2>2, UpdateWritten
    <3>. QED BY <1>2, <1>3, <1>4, <3>1 DEF TransferFits, Moving
  <2>. QED BY <2>1, <2>2
<1>. QED BY <1>0, <1>2, <1>3, <1>5, <1>6, MovedStep

\* Goods leave only on a snapshot that still holds, so that the transfer has not
\* left before.
LEMMA ShipFits ==
    ASSUME MovedInv, NEW r \in Request, ShipOutTransfer(r)
    PROVE  LET t == req[r]
               o == t.tr
           IN  /\ o \in Transfer /\ t # Idle /\ tr[o] \in TransferRow
               /\ tr[o].status = "CONFIRMED"
               /\ t.lines = tr[o].sent /\ tr[o].sent # NoLines
               /\ tr[o].sent \in [Sku -> Nat]
               /\ TransferFits(tr[o], out[o], landed[o])
               /\ \A s \in Sku : t.lines[s] > 0 =>
                     stock'[<<tr[o].route[1], s>>].version
                        = stock[<<tr[o].route[1], s>>].version + 1
<1>. DEFINE t == req[r]
            o == t.tr
<1>0. TypeOK
  BY DEF MovedInv
<1>1. t.op = "ship" /\ t.op # "idle"
  BY DEF ShipOutTransfer
<1>2. /\ o \in Transfer /\ t # Idle /\ tr[o] \in TransferRow /\ t.lines \in [Sku -> Nat]
      /\ RequestFits(t, tr[o], stock) /\ TransferFits(tr[o], out[o], landed[o])
  BY <1>0, <1>1, ActiveRequest DEF MovedInv
<1>3. tr[o].route \in Route /\ \A s \in Sku : <<tr[o].route[1], s>> \in Cell
  BY <1>2, RouteEnds DEF TransferRow
<1>4. \A s \in Sku : t.lines[s] > 0 =>
         /\ ~ Outdated(t, tr[o].route[1], s, stock)
         /\ stock'[<<tr[o].route[1], s>>].version = stock[<<tr[o].route[1], s>>].version + 1
  <2>. TAKE s \in Sku
  <2>. HAVE t.lines[s] > 0
  <2>. DEFINE c == <<tr[o].route[1], s>>
  <2>1. c \in Cell /\ t.row.route = tr[o].route /\ stock[c] \in Row
    BY <1>0, <1>2, <1>3 DEF RequestFits, TypeOK
  <2>2. QtyAt(t.row.route[1], t.lines, c) = t.lines[s]
    BY <2>1 DEF QtyAt
  <2>3. t.ver[c] = stock[c].version /\ TransferStep(stock[c], stock'[c])
    BY <1>0, <2>1, <2>2, ShipRows
  <2>. QED BY <2>1, <2>3, TransferStepRow DEF Outdated
<1>5. tr[o].status = "CONFIRMED" /\ t.lines = tr[o].sent /\ tr[o].sent # NoLines
  BY <1>1, <1>2, <1>4 DEF RequestFits, TransferFits
<1>. QED BY <1>2, <1>4, <1>5 DEF TransferRow

\* Whoever else read the transfer before it left has an outdated snapshot now.
LEMMA MovedShip ==
    ASSUME MovedInv, Overlap \subseteq {"ship", "receive"}, NEW r \in Request,
           ShipOutTransfer(r)
    PROVE  MovedInv'
<1>. DEFINE t == req[r]
            o == t.tr
<1>0. TypeOK /\ [Next]_vars
  BY DEF MovedInv, Next
<1>1. Done(r) /\ UNCHANGED landed
  BY DEF ShipOutTransfer
<1>2. /\ o \in Transfer /\ t # Idle /\ tr[o] \in TransferRow
      /\ tr[o].status = "CONFIRMED"
      /\ t.lines = tr[o].sent /\ tr[o].sent # NoLines
      /\ tr[o].sent \in [Sku -> Nat]
      /\ TransferFits(tr[o], out[o], landed[o])
      /\ \A s \in Sku : t.lines[s] > 0 =>
            stock'[<<tr[o].route[1], s>>].version
               = stock[<<tr[o].route[1], s>>].version + 1
  BY ShipFits
<1>3. \A s \in Sku : <<tr[o].route[1], s>> \in Cell
  BY <1>2, RouteEnds DEF TransferRow
<1>4. out[o] = NoLines /\ landed[o] = NoLines /\ tr[o].got = NoLines
  BY <1>2 DEF TransferFits, Moving
<1>5. /\ tr' \in [Transfer -> TransferRow]
      /\ out' \in [Transfer -> [Sku -> Nat]]
      /\ \A p \in Transfer \ {o} : tr'[p] = tr[p] /\ out'[p] = out[p]
      /\ tr'[o].status = "IN_TRANSIT" /\ tr'[o].route = tr[o].route
      /\ tr'[o].sent = tr[o].sent /\ tr'[o].got = tr[o].got
      /\ \A s \in Sku : out'[o][s] = out[o][s] + t.lines[s]
  BY <1>0, ShipWritten
<1>6. out'[o] = tr[o].sent
  <2>1. \A s \in Sku : out'[o][s] = tr[o].sent[s]
    BY SMTT(30), <1>2, <1>4, <1>5 DEF NoLines
  <2>2. out'[o] \in [Sku -> Nat] /\ tr[o].sent \in [Sku -> Nat]
    BY <1>2, <1>5 DEF TransferRow
  <2>. QED BY <2>1, <2>2
<1>7. \A s \in Sku : NoLines[s] <= tr[o].sent[s]
  BY SMTT(30), <1>2 DEF NoLines, TransferRow
<1>8. TransferFits(tr'[o], out'[o], landed'[o])
  BY <1>1, <1>2, <1>4, <1>5, <1>6, <1>7 DEF TransferFits, Moving
<1>9. ASSUME NEW q \in Request \ {r}, req[q] # Idle, req[q].tr = o
       PROVE  RequestFits(req[q], tr'[o], stock')
  <2>1. req[q] \in InFlight /\ req[q].op \in Overlap /\ RequestFits(req[q], tr[o], stock)
    BY <1>2, <1>9 DEF MovedInv, TypeOK, Apart
  <2>2. req[q].op = "ship" /\ req[q].lines = tr[o].sent
    BY <1>2, <2>1 DEF RequestFits, Moving
  <2>3. RequestFits(req[q], tr[o], stock')
    BY <1>0, <1>2, <2>1, RequestKept
  <2>4. PICK s \in Sku : tr[o].sent[s] > 0
    BY <1>2, SomeLine
  <2>. DEFINE c == <<tr[o].route[1], s>>
  <2>5. /\ c \in Cell /\ stock[c].version \in Nat /\ req[q].ver[c] \in Nat
        /\ req[q].ver[c] <= stock[c].version
        /\ stock'[c].version = stock[c].version + 1
    BY <1>0, <1>3, <1>2, <2>1, <2>4 DEF RequestFits, TypeOK, Row, InFlight
  <2>6. Outdated(req[q], tr'[o].route[1], s, stock')
    BY SMTT(30), <1>5, <2>5 DEF Outdated
  <2>. QED BY <1>5, <2>2, <2>3, <2>4, <2>6 DEF RequestFits, Moving
<1>10. /\ o \in Transfer
       /\ \A p \in Transfer \ {o} :
             tr'[p] = tr[p] /\ out'[p] = out[p] /\ landed'[p] = landed[p]
  BY <1>1, <1>2, <1>5
<1>. QED BY <1>0, <1>1, <1>8, <1>9, <1>10, MovedStep

\* Goods land only on a snapshot that still holds for their lines; whoever else
\* read those lines before has an outdated snapshot of them now.
LEMMA ReceiptFits ==
    ASSUME MovedInv, NEW r \in Request, ReceiveTransfer(r)
    PROVE  LET t == req[r]
               o == t.tr
           IN  /\ o \in Transfer /\ t # Idle /\ tr[o] \in TransferRow
               /\ t.lines \in [Sku -> Nat] /\ t.row.got \in [Sku -> Nat]
               /\ tr[o].status \in Moving
               /\ TransferFits(tr[o], out[o], landed[o])
               /\ \A s \in Sku : t.lines[s] > 0 =>
                     /\ t.row.got[s] = tr[o].got[s]
                     /\ t.row.got[s] + t.lines[s] <= tr[o].sent[s]
                     /\ stock'[<<tr[o].route[2], s>>].version
                           = stock[<<tr[o].route[2], s>>].version + 1
<1>. DEFINE t == req[r]
            o == t.tr
<1>0. TypeOK
  BY DEF MovedInv
<1>1. t.op = "receive" /\ t.op # "idle"
  BY DEF ReceiveTransfer
<1>2. /\ o \in Transfer /\ t # Idle /\ tr[o] \in TransferRow /\ t.lines \in [Sku -> Nat]
      /\ t.row.got \in [Sku -> Nat]
      /\ RequestFits(t, tr[o], stock) /\ TransferFits(tr[o], out[o], landed[o])
  BY <1>0, <1>1, ActiveRequest DEF MovedInv, TransferRow
<1>3. tr[o].route \in Route /\ \A s \in Sku : <<tr[o].route[2], s>> \in Cell
  BY <1>2, RouteEnds DEF TransferRow
<1>4. \A s \in Sku : t.lines[s] > 0 =>
         /\ ~ Outdated(t, tr[o].route[2], s, stock)
         /\ stock'[<<tr[o].route[2], s>>].version = stock[<<tr[o].route[2], s>>].version + 1
  <2>. TAKE s \in Sku
  <2>. HAVE t.lines[s] > 0
  <2>. DEFINE c == <<tr[o].route[2], s>>
  <2>1. c \in Cell /\ t.row.route = tr[o].route /\ stock[c] \in Row
    BY <1>0, <1>2, <1>3 DEF RequestFits, TypeOK
  <2>2. QtyAt(t.row.route[2], t.lines, c) = t.lines[s]
    BY <2>1 DEF QtyAt
  <2>3. t.ver[c] = stock[c].version /\ TransferStep(stock[c], stock'[c])
    BY <1>0, <2>1, <2>2, ReceiveRows
  <2>. QED BY <2>1, <2>3, TransferStepRow DEF Outdated
<1>. QED BY <1>1, <1>2, <1>4 DEF RequestFits

LEMMA MovedReceive ==
    ASSUME MovedInv, Overlap \subseteq {"ship", "receive"}, NEW r \in Request,
           ReceiveTransfer(r)
    PROVE  MovedInv'
<1>. DEFINE t == req[r]
            o == t.tr
<1>0. TypeOK /\ [Next]_vars
  BY DEF MovedInv, Next
<1>1. Done(r) /\ UNCHANGED out
  BY DEF ReceiveTransfer
<1>2. /\ o \in Transfer /\ t # Idle /\ tr[o] \in TransferRow
      /\ t.lines \in [Sku -> Nat] /\ t.row.got \in [Sku -> Nat]
      /\ tr[o].status \in Moving
      /\ TransferFits(tr[o], out[o], landed[o])
      /\ \A s \in Sku : t.lines[s] > 0 =>
            /\ t.row.got[s] = tr[o].got[s]
            /\ t.row.got[s] + t.lines[s] <= tr[o].sent[s]
            /\ stock'[<<tr[o].route[2], s>>].version
                  = stock[<<tr[o].route[2], s>>].version + 1
  BY ReceiptFits
<1>3. /\ tr' \in [Transfer -> TransferRow]
      /\ landed' \in [Transfer -> [Sku -> Nat]]
      /\ \A p \in Transfer \ {o} : tr'[p] = tr[p] /\ landed'[p] = landed[p]
      /\ tr'[o].status = IF FullyReceived(t) THEN "RECEIVED" ELSE tr[o].status
      /\ tr'[o].route = tr[o].route /\ tr'[o].sent = tr[o].sent
      /\ \A s \in Sku : tr'[o].got[s] = IF t.lines[s] > 0 THEN t.row.got[s] + t.lines[s]
                                        ELSE tr[o].got[s]
      /\ \A s \in Sku : landed'[o][s] = landed[o][s] + t.lines[s]
  BY <1>0, ReceiptWritten
<1>4. tr'[o].status \in Moving
  BY <1>2, <1>3 DEF Moving
<1>5. /\ tr[o].sent # NoLines /\ out[o] = tr[o].sent /\ tr[o].got = landed[o]
      /\ \A s \in Sku : landed[o][s] <= out[o][s]
  BY <1>2 DEF TransferFits, Moving
<1>6. /\ landed[o] \in [Sku -> Nat] /\ tr[o].sent \in [Sku -> Nat]
      /\ landed'[o] \in [Sku -> Nat] /\ tr'[o].got \in [Sku -> Nat]
  BY <1>0, <1>2, <1>3 DEF TypeOK, TransferRow
<1>7. \A s \in Sku : tr'[o].got[s] = landed'[o][s] /\ landed'[o][s] <= tr[o].sent[s]
  <2>. TAKE s \in Sku
  <2>1. /\ t.lines[s] \in Nat /\ landed[o][s] \in Nat /\ tr[o].sent[s] \in Nat
        /\ tr[o].got[s] = landed[o][s] /\ landed[o][s] <= tr[o].sent[s]
        /\ landed'[o][s] = landed[o][s] + t.lines[s]
    BY <1>2, <1>3, <1>5, <1>6
  <2>2. CASE t.lines[s] > 0
    <3>1. /\ tr'[o].got[s] = t.row.got[s] + t.lines[s]
          /\ t.row.got[s] = tr[o].got[s]
          /\ t.row.got[s] + t.lines[s] <= tr[o].sent[s]
      BY <1>2, <1>3, <2>2
    <3>. QED BY <2>1, <3>1
  <2>3. CASE t.lines[s] = 0
    <3>1. tr'[o].got[s] = tr[o].got[s]
      BY <1>3, <2>3
    <3>. QED BY <2>1, <2>3, <3>1
  <2>. QED BY <2>1, <2>2, <2>3
<1>8. tr'[o].got = landed'[o]
  BY <1>6, <1>7
<1>9. TransferFits(tr'[o], out'[o], landed'[o])
  BY <1>1, <1>3, <1>4, <1>5, <1>7, <1>8 DEF TransferFits, Moving
<1>10. ASSUME NEW q \in Request \ {r}, req[q] # Idle, req[q].tr = o
       PROVE  RequestFits(req[q], tr'[o], stock')
  <2>1. req[q] \in InFlight /\ req[q].op \in Overlap /\ RequestFits(req[q], tr[o], stock)
    BY <1>2, <1>10 DEF MovedInv, TypeOK, Apart
  <2>2. req[q].op \in {"ship", "receive"}
    BY <2>1
  <2>3. RequestFits(req[q], tr[o], stock')
    BY <1>0, <1>2, <2>1, RequestKept
  <2>4. \A s \in Sku : <<tr[o].route[2], s>> \in Cell
    BY <1>2, RouteEnds DEF TransferRow
  <2>5. \A s \in Sku : t.lines[s] > 0 => Outdated(req[q], tr[o].route[2], s, stock')
    <3>. TAKE s \in Sku
    <3>. HAVE t.lines[s] > 0
    <3>. DEFINE c == <<tr[o].route[2], s>>
    <3>1. /\ c \in Cell /\ stock[c].version \in Nat /\ req[q].ver[c] \in Nat
          /\ req[q].ver[c] <= stock[c].version
          /\ stock'[c].version = stock[c].version + 1
      BY <1>0, <1>2, <2>1, <2>4 DEF RequestFits, TypeOK, Row, InFlight
    <3>. QED BY SMTT(30), <3>1 DEF Outdated
  <2>6. \A s \in Sku : ~ (t.lines[s] > 0) => tr'[o].got[s] = tr[o].got[s]
    BY <1>3
  <2>7. CASE req[q].op = "ship"
    <3>1. tr[o].status # "CONFIRMED"
      BY <1>2 DEF Moving
    <3>. QED BY <1>3, <1>4, <2>3, <2>7, <3>1 DEF RequestFits
  <2>8. CASE req[q].op = "receive"
    <3>1. /\ \A c \in Cell : req[q].ver[c] <= stock'[c].version
          /\ req[q].row.route = tr'[o].route
          /\ req[q].row.sent = tr'[o].sent
      BY <1>3, <2>3 DEF RequestFits
    <3>2. \A s \in Sku : req[q].lines[s] > 0 =>
             /\ req[q].row.got[s] + req[q].lines[s] <= tr'[o].sent[s]
             /\ \/ req[q].row.got[s] = tr'[o].got[s]
                \/ Outdated(req[q], tr'[o].route[2], s, stock')
      BY <1>3, <2>3, <2>5, <2>6, <2>8 DEF RequestFits
    <3>. QED BY <1>4, <2>8, <3>1, <3>2 DEF RequestFits
  <2>. QED BY <2>2, <2>7, <2>8
<1>11. /\ o \in Transfer
       /\ \A p \in Transfer \ {o} :
             tr'[p] = tr[p] /\ out'[p] = out[p] /\ landed'[p] = landed[p]
  BY <1>1, <1>2, <1>3
<1>. QED BY <1>0, <1>1, <1>9, <1>10, <1>11, MovedStep

LEMMA MovedNext ==
    ASSUME Overlap \subseteq {"ship", "receive"}
    PROVE  MovedInv /\ [Next]_vars => MovedInv'
<1>. SUFFICES ASSUME MovedInv, [Next]_vars PROVE MovedInv'
  OBVIOUS
<1>0. TypeOK
  BY DEF MovedInv
<1>1. CASE UNCHANGED vars
  BY <1>1 DEF vars, MovedInv, TypeOK, Apart
<1>2. ASSUME NEW r \in Request, Rollback(r) PROVE MovedInv'
  <2>1. req[r].op # "idle" /\ Done(r) /\ UNCHANGED <<tr, out, landed>>
    BY <1>0, <1>2 DEF Rollback, TypeOK, InFlight
  <2>2. req[r].tr \in Transfer
    BY <1>0, <2>1, ActiveRequest
  <2>. QED BY <2>1, <2>2, MovedStep DEF MovedInv
<1>. QED BY <1>0, <1>1, <1>2, MovedCreate, MovedBegin, MovedPaper, MovedShip, MovedReceive,
            NextCases

\* However shipments and receipts of one transfer overlap, it leaves at most
\* once, as it is written, and what landed of it is what its lines say and no
\* more than left: the versions of the stock rows stop every request that rests
\* on an outdated reading of it.
THEOREM MovedIsWritten ==
    ASSUME Overlap \subseteq {"ship", "receive"}
    PROVE  Spec => []MovedAsWritten
<1>1. MovedInv /\ [Next]_vars => MovedInv'
  BY MovedNext
<1>2. MovedInv => MovedAsWritten
  BY DEF MovedInv, TransferFits, MovedAsWritten, ShippedAsWritten, LandedWithinShipped,
         ReceiptsRecorded
<1>. QED BY <1>1, <1>2, MovedInit, PTL DEF Spec

-----------------------------------------------------------------------------
(* The status is what happened, when receipts of one transfer are kept apart or
   a transfer has one line only *)

\* A transfer is RECEIVED exactly when all of it has landed.
StatusFits(row) ==
    row.status \in Moving => (row.status = "RECEIVED" <=> row.got = row.sent)

\* A receipt has a line, and if it is alone it knows all that has landed.
ReceiptWhole(t, row) ==
    t.op = "receive" =>
        /\ t.lines # NoLines
        /\ "receive" \notin Overlap => t.row.got = row.got

StatusInv ==
    /\ MovedInv
    /\ \A o \in Transfer : StatusFits(tr[o])
    /\ \A r \in Request : req[r] # Idle => ReceiptWhole(req[r], tr[req[r].tr])

LEMMA StatusInit == Init => StatusInv
<1>. SUFFICES ASSUME Init PROVE StatusInv
  OBVIOUS
<1>1. \A r \in Request : req[r] = Idle
  BY DEF Init
<1>2. \A o \in Transfer : tr[o].status = "NONE"
  BY DEF Init
<1>. QED BY <1>1, <1>2, MovedInit DEF StatusInv, StatusFits, Moving

\* A request ends and changes at most its own transfer, and of what landed only
\* what no other request rests on.
LEMMA StatusStep ==
    ASSUME StatusInv, MovedInv', NEW r \in Request, Done(r), NEW o \in Transfer,
           StatusFits(tr'[o]), \A p \in Transfer \ {o} : tr'[p] = tr[p],
           \/ tr'[o].got = tr[o].got
           \/ \A q \in Request \ {r} : req[q] # Idle /\ req[q].tr = o =>
                  ReceiptWhole(req[q], tr'[o])
    PROVE  StatusInv'
<1>1. req'[r] = Idle /\ \A q \in Request \ {r} : req'[q] = req[q]
  BY DoneReq DEF StatusInv, MovedInv
<1>2. \A p \in Transfer : StatusFits(tr'[p])
  BY DEF StatusInv
<1>3. ASSUME NEW q \in Request, req'[q] # Idle
      PROVE  ReceiptWhole(req'[q], tr'[req'[q].tr])
  <2>1. /\ q # r /\ req'[q] = req[q] /\ req[q] # Idle /\ req[q] \in InFlight
        /\ ReceiptWhole(req[q], tr[req[q].tr])
    BY <1>1, <1>3 DEF StatusInv, MovedInv, TypeOK
  <2>2. req[q].tr \in Transfer
    BY <2>1 DEF InFlight
  <2>3. CASE tr'[req[q].tr].got = tr[req[q].tr].got
    BY <2>1, <2>3 DEF ReceiptWhole
  <2>4. CASE tr'[req[q].tr].got # tr[req[q].tr].got
    <3>1. req[q].tr = o
      BY <2>2, <2>4
    <3>. QED BY <2>1, <2>4, <3>1
  <2>. QED BY <2>3, <2>4
<1>. QED BY <1>2, <1>3 DEF StatusInv

LEMMA StatusCreate ==
    ASSUME StatusInv, MovedInv', NEW o \in Transfer, CreateTransfer(o)
    PROVE  StatusInv'
<1>1. /\ \A p \in Transfer \ {o} : tr'[p] = tr[p]
      /\ tr[o].status = "NONE" /\ tr'[o].status = "DRAFT"
      /\ UNCHANGED req
  BY CreateWritten DEF StatusInv, MovedInv
<1>2. \A p \in Transfer : StatusFits(tr'[p])
  BY <1>1 DEF StatusInv, StatusFits, Moving
<1>3. ASSUME NEW r \in Request, req[r] # Idle
      PROVE  ReceiptWhole(req'[r], tr'[req'[r].tr])
  <2>1. RequestFits(req[r], tr[req[r].tr], stock) /\ req[r] \in InFlight
    BY <1>3 DEF StatusInv, MovedInv, TypeOK
  <2>2. req[r].tr \in Transfer /\ req[r].tr # o
    BY <1>1, <2>1 DEF InFlight, RequestFits, Moving
  <2>. QED BY <1>1, <1>3, <2>2 DEF StatusInv
<1>. QED BY <1>1, <1>2, <1>3 DEF StatusInv

LEMMA StatusBegin ==
    ASSUME StatusInv, MovedInv', Reading
    PROVE  StatusInv'
<1>1. PICK r \in Request, o \in Transfer, op \in Operations, lines \in [Sku -> Nat],
           p \in Route : Began(r, o, op, lines, p)
  BY Zenon DEF Reading
<1>2. Begin(r, op, o, lines, p)
  BY <1>1 DEF Began
<1>3. /\ req'[r].op = op /\ req'[r].tr = o /\ req'[r].row = tr[o]
      /\ req'[r].lines = lines
      /\ \A q \in Request \ {r} : req'[q] = req[q]
      /\ UNCHANGED tr
  BY <1>2, BeginReq DEF StatusInv, MovedInv
<1>4. op = "receive" => lines # NoLines
  BY <1>1 DEF Began
<1>5. ReceiptWhole(req'[r], tr[o])
  BY <1>3, <1>4 DEF ReceiptWhole
<1>6. \A q \in Request : req'[q] # Idle => ReceiptWhole(req'[q], tr'[req'[q].tr])
  BY <1>3, <1>5 DEF StatusInv
<1>7. \A q \in Transfer : StatusFits(tr'[q])
  BY <1>3 DEF StatusInv
<1>. QED BY <1>6, <1>7 DEF StatusInv

LEMMA StatusPaper ==
    ASSUME StatusInv, MovedInv', Overlap \subseteq {"ship", "receive"}, NEW r \in Request,
           ConfirmTransfer(r) \/ CancelTransfer(r) \/ UpdateTransfer(r)
    PROVE  StatusInv'
<1>. DEFINE o == req[r].tr
<1>0. MovedInv /\ TypeOK
  BY DEF StatusInv, MovedInv
<1>1. req[r].op \in {"confirm", "cancel", "edit"} /\ req[r].op # "idle" /\ Done(r)
  BY DEF ConfirmTransfer, CancelTransfer, UpdateTransfer
<1>2. o \in Transfer /\ req[r] # Idle /\ RequestFits(req[r], tr[o], stock)
  BY <1>0, <1>1, ActiveRequest DEF MovedInv
<1>3. tr[o].status \in {"DRAFT", "CONFIRMED"}
  BY <1>1, <1>2 DEF RequestFits
<1>4. \A q \in Request \ {r} : req[q] # Idle => req[q].tr # o
  BY <1>0, <1>1, AloneOnTransfer
<1>5. (\A p \in Transfer \ {o} : tr'[p] = tr[p]) /\ tr'[o].status \notin Moving
  <2>1. CASE ConfirmTransfer(r) \/ CancelTransfer(r)
    <3>1. \/ SetStatus(o, "CONFIRMED")
          \/ SetStatus(o, "CANCELLED")
      BY <2>1 DEF ConfirmTransfer, CancelTransfer
    <3>2. "CONFIRMED" \in Status /\ "CANCELLED" \in Status
      BY DEF Status
    <3>. QED BY <1>0, <1>2, <3>1, <3>2, StatusWritten DEF Moving
  <2>2. CASE UpdateTransfer(r)
    BY <1>0, <1>3, <2>2, UpdateWritten DEF Moving
  <2>. QED BY <2>1, <2>2
<1>6. StatusFits(tr'[o])
  BY <1>5 DEF StatusFits
<1>. QED BY <1>1, <1>2, <1>4, <1>5, <1>6, StatusStep

\* Nothing has landed of a transfer that has just left.
LEMMA StatusShip ==
    ASSUME StatusInv, MovedInv', NEW r \in Request, ShipOutTransfer(r)
    PROVE  StatusInv'
<1>. DEFINE o == req[r].tr
<1>0. MovedInv /\ TypeOK
  BY DEF StatusInv, MovedInv
<1>1. Done(r)
  BY DEF ShipOutTransfer
<1>2. o \in Transfer /\ tr[o].status = "CONFIRMED" /\ tr[o].sent # NoLines
      /\ TransferFits(tr[o], out[o], landed[o])
  BY <1>0, ShipFits
<1>3. /\ \A p \in Transfer \ {o} : tr'[p] = tr[p]
      /\ tr'[o].status = "IN_TRANSIT"
      /\ tr'[o].sent = tr[o].sent /\ tr'[o].got = tr[o].got
  BY <1>0, ShipWritten
<1>4. tr'[o].got = NoLines /\ tr'[o].sent # NoLines
  BY <1>2, <1>3 DEF TransferFits, Moving
<1>5. StatusFits(tr'[o])
  BY <1>3, <1>4 DEF StatusFits
<1>. QED BY <1>1, <1>2, <1>3, <1>5, StatusStep

\* A receipt that sees all that has landed knows when it is the last.
LEMMA StatusReceive ==
    ASSUME StatusInv, MovedInv', NEW r \in Request, ReceiveTransfer(r),
           "receive" \notin Overlap \/ \E s : Sku = {s}
    PROVE  StatusInv'
<1>. DEFINE t == req[r]
            o == t.tr
<1>0. MovedInv /\ TypeOK
  BY DEF StatusInv, MovedInv
<1>1. Done(r) /\ t.op = "receive" /\ t.op # "idle"
  BY DEF ReceiveTransfer
<1>2. /\ o \in Transfer /\ t # Idle /\ tr[o] \in TransferRow
      /\ t.lines \in [Sku -> Nat] /\ t.row.got \in [Sku -> Nat]
      /\ tr[o].status \in Moving
      /\ TransferFits(tr[o], out[o], landed[o])
      /\ \A s \in Sku : t.lines[s] > 0 =>
            /\ t.row.got[s] = tr[o].got[s]
            /\ t.row.got[s] + t.lines[s] <= tr[o].sent[s]
  BY <1>0, ReceiptFits
<1>3. /\ tr' \in [Transfer -> TransferRow]
      /\ \A p \in Transfer \ {o} : tr'[p] = tr[p]
      /\ tr'[o].status = IF FullyReceived(t) THEN "RECEIVED" ELSE tr[o].status
      /\ tr'[o].sent = tr[o].sent
      /\ \A s \in Sku : tr'[o].got[s] = IF t.lines[s] > 0 THEN t.row.got[s] + t.lines[s]
                                        ELSE tr[o].got[s]
  BY <1>0, ReceiptWritten
<1>4. /\ tr[o].got \in [Sku -> Nat] /\ tr[o].sent \in [Sku -> Nat]
      /\ tr'[o].got \in [Sku -> Nat] /\ tr'[o].sent \in [Sku -> Nat]
  BY <1>2, <1>3 DEF TransferRow
<1>5. t.lines # NoLines /\ ("receive" \notin Overlap => t.row.got = tr[o].got)
  BY <1>1, <1>2 DEF StatusInv, ReceiptWhole
<1>6. PICK u \in Sku : t.lines[u] > 0
  BY <1>2, <1>5, SomeLine
<1>7. \A s \in Sku : t.row.got[s] = tr[o].got[s]
  <2>1. CASE "receive" \notin Overlap
    BY <1>5, <2>1
  <2>2. CASE \E s : Sku = {s}
    <3>1. \A s \in Sku : s = u
      BY <2>2
    <3>. QED BY <1>2, <1>6, <3>1
  <2>. QED BY <2>1, <2>2
<1>8. tr[o].status = "IN_TRANSIT"
  <2>1. tr[o].got[u] + t.lines[u] <= tr[o].sent[u]
    BY <1>2, <1>6
  <2>2. tr[o].got[u] \in Nat /\ t.lines[u] \in Nat /\ tr[o].sent[u] \in Nat
    BY <1>2, <1>4
  <2>3. tr[o].got[u] # tr[o].sent[u]
    BY <1>6, <2>1, <2>2
  <2>4. tr[o].got # tr[o].sent
    BY <2>3
  <2>. QED BY <1>2, <2>4 DEF StatusInv, StatusFits, Moving
<1>9. \A s \in Sku : /\ tr'[o].got[s] = t.row.got[s] + t.lines[s]
                     /\ tr'[o].got[s] <= tr[o].sent[s]
  <2>. TAKE s \in Sku
  <2>1. /\ t.lines[s] \in Nat /\ tr[o].got[s] \in Nat /\ tr[o].sent[s] \in Nat
        /\ t.row.got[s] = tr[o].got[s]
    BY <1>2, <1>4, <1>7
  <2>2. CASE t.lines[s] > 0
    BY <1>2, <1>3, <2>2
  <2>3. CASE t.lines[s] = 0
    <3>1. tr'[o].got[s] = tr[o].got[s]
      BY <1>3, <2>3
    <3>2. tr[o].got[s] <= tr[o].sent[s]
      BY <1>2 DEF TransferFits
    <3>. QED BY <2>1, <2>3, <3>1, <3>2
  <2>. QED BY <2>1, <2>2, <2>3
<1>10. t.row.sent = tr[o].sent
  BY <1>0, <1>2 DEF MovedInv, RequestFits
<1>11. FullyReceived(t) <=> tr'[o].got = tr'[o].sent
  <2>1. FullyReceived(t) <=> \A s \in Sku : tr'[o].got[s] >= tr[o].sent[s]
    BY <1>9, <1>10 DEF FullyReceived
  <2>2. (\A s \in Sku : tr'[o].got[s] >= tr[o].sent[s])
            <=> (\A s \in Sku : tr'[o].got[s] = tr[o].sent[s])
    <3>1. \A s \in Sku : /\ tr'[o].got[s] \in Nat /\ tr[o].sent[s] \in Nat
                         /\ tr'[o].got[s] <= tr[o].sent[s]
      BY <1>4, <1>9
    <3>2. \A s \in Sku : tr'[o].got[s] >= tr[o].sent[s] <=> tr'[o].got[s] = tr[o].sent[s]
      BY <3>1
    <3>. QED BY <3>2
  <2>3. (\A s \in Sku : tr'[o].got[s] = tr[o].sent[s]) <=> tr'[o].got = tr'[o].sent
    BY <1>3, <1>4
  <2>. QED BY <2>1, <2>2, <2>3
<1>12. StatusFits(tr'[o])
  BY <1>3, <1>8, <1>11 DEF StatusFits
<1>13. ASSUME NEW q \in Request \ {r}, req[q] # Idle, req[q].tr = o
       PROVE  ReceiptWhole(req[q], tr'[o])
  <2>1. req[q].op \in Overlap
    BY <1>0, <1>2, <1>13 DEF MovedInv, Apart
  <2>2. ReceiptWhole(req[q], tr[o])
    BY <1>13 DEF StatusInv
  <2>. QED BY <2>1, <2>2 DEF ReceiptWhole
<1>. QED BY <1>1, <1>2, <1>3, <1>12, <1>13, StatusStep

LEMMA StatusNext ==
    ASSUME Overlap \subseteq {"ship", "receive"},
           "receive" \notin Overlap \/ \E s : Sku = {s}
    PROVE  StatusInv /\ [Next]_vars => StatusInv'
<1>. SUFFICES ASSUME StatusInv, [Next]_vars PROVE StatusInv'
  OBVIOUS
<1>0. TypeOK /\ MovedInv
  BY DEF StatusInv, MovedInv
<1>1. MovedInv'
  BY <1>0, MovedNext
<1>2. CASE UNCHANGED vars
  BY <1>1, <1>2 DEF vars, StatusInv
<1>3. ASSUME NEW r \in Request, Rollback(r) PROVE StatusInv'
  <2>1. req[r].op # "idle" /\ Done(r) /\ UNCHANGED tr
    BY <1>0, <1>3 DEF Rollback, TypeOK, InFlight
  <2>2. req[r].tr \in Transfer
    BY <1>0, <2>1, ActiveRequest
  <2>. QED BY <1>1, <2>1, <2>2, StatusStep DEF StatusInv
<1>. QED BY <1>0, <1>1, <1>2, <1>3, StatusCreate, StatusBegin, StatusPaper, StatusShip,
            StatusReceive, NextCases

\* A transfer that left is RECEIVED exactly when all of it has landed, and goods
\* that left belong to no cancelled transfer, as long as receipts of one
\* transfer do not overlap or are of its only line.
THEOREM StatusIsTrue ==
    ASSUME Overlap \subseteq {"ship", "receive"},
           "receive" \notin Overlap \/ \E s : Sku = {s}
    PROVE  Spec => []StatusTrue
<1>1. StatusInv /\ [Next]_vars => StatusInv'
  BY StatusNext
<1>2. StatusInv => StatusTrue
  <2>. SUFFICES ASSUME StatusInv PROVE StatusTrue
    OBVIOUS
  <2>1. \A o \in Transfer : StatusFits(tr[o]) /\ TransferFits(tr[o], out[o], landed[o])
    BY DEF StatusInv, MovedInv
  <2>2. ReceivedIsRecorded
    BY <2>1 DEF ReceivedIsRecorded, StatusFits, TransferFits, Moving
  <2>3. CancelledNeverShipped
    BY <2>1 DEF CancelledNeverShipped, TransferFits, Moving
  <2>. QED BY <2>2, <2>3 DEF StatusTrue
<1>. QED BY <1>1, <1>2, StatusInit, PTL DEF Spec

-----------------------------------------------------------------------------
(* Where the goods are *)

\* What a ship-out takes from one row and puts on its way to another.
LEMMA ShipGoods ==
    ASSUME TypeOK, NEW r \in Request, ShipOutTransfer(r)
    PROVE  /\ req[r].row.route \in ValidRoute /\ req[r].lines \in [Sku -> Nat]
           /\ \A c \in Cell :
                 /\ stock'[c].on_hand =
                        stock[c].on_hand - QtyAt(req[r].row.route[1], req[r].lines, c)
                 /\ stock'[c].in_transit =
                        stock[c].in_transit + QtyAt(req[r].row.route[2], req[r].lines, c)
<1>. DEFINE t == req[r]
            leaving(c) == QtyAt(t.row.route[1], t.lines, c)
            coming(c) == QtyAt(t.row.route[2], t.lines, c)
<1>1. t.lines \in [Sku -> Nat] /\ t.row.route \in ValidRoute
  BY ActiveRequest DEF ShipOutTransfer
<1>2. \A c \in Cell : leaving(c) \in Nat /\ coming(c) \in Nat
  BY <1>1, QtyAtNat
<1>3. \A c \in Cell : stock'[c] = IF leaving(c) > 0 THEN ShipOut(stock[c], leaving(c))
                                  ELSE IF coming(c) > 0 THEN ShipIn(stock[c], coming(c))
                                  ELSE stock[c]
  BY DEF ShipOutTransfer
<1>4. \A c \in Cell : leaving(c) > 0 => coming(c) = 0
  BY <1>1 DEF QtyAt, ValidRoute
<1>5. \A c \in Cell : stock[c] \in Row /\ stock[c].on_hand \in Nat /\ stock[c].in_transit \in Nat
  BY DEF TypeOK, Row
<1>. HIDE DEF leaving, coming
<1>6. ASSUME NEW c \in Cell
      PROVE  /\ stock'[c].on_hand = stock[c].on_hand - leaving(c)
             /\ stock'[c].in_transit = stock[c].in_transit + coming(c)
  <2>1. CASE leaving(c) > 0
    BY <1>2, <1>3, <1>4, <1>5, <2>1, GoodsMove
  <2>2. CASE leaving(c) = 0 /\ coming(c) > 0
    BY <1>2, <1>3, <1>5, <2>2, GoodsMove
  <2>3. CASE leaving(c) = 0 /\ coming(c) = 0
    BY <1>3, <1>5, <2>3
  <2>. QED BY <1>2, <2>1, <2>2, <2>3
<1>. QED BY <1>1, <1>6 DEF leaving, coming

LEMMA ReceiveGoods ==
    ASSUME TypeOK, NEW r \in Request, ReceiveTransfer(r)
    PROVE  \A c \in Cell :
              /\ stock'[c].on_hand =
                     stock[c].on_hand + QtyAt(req[r].row.route[2], req[r].lines, c)
              /\ stock'[c].in_transit =
                     stock[c].in_transit - QtyAt(req[r].row.route[2], req[r].lines, c)
<1>. DEFINE t == req[r]
            arriving(c) == QtyAt(t.row.route[2], t.lines, c)
<1>1. t.lines \in [Sku -> Nat]
  BY ActiveRequest DEF ReceiveTransfer
<1>2. \A c \in Cell : arriving(c) \in Nat
  BY <1>1, QtyAtNat
<1>3. \A c \in Cell : stock'[c] = IF arriving(c) > 0 THEN Receive(stock[c], arriving(c))
                                  ELSE stock[c]
  BY DEF ReceiveTransfer
<1>4. \A c \in Cell : stock[c] \in Row /\ stock[c].on_hand \in Nat /\ stock[c].in_transit \in Nat
  BY DEF TypeOK, Row
<1>. HIDE DEF arriving
<1>5. ASSUME NEW c \in Cell
      PROVE  /\ stock'[c].on_hand = stock[c].on_hand + arriving(c)
             /\ stock'[c].in_transit = stock[c].in_transit - arriving(c)
  <2>1. CASE arriving(c) > 0
    BY <1>2, <1>3, <1>4, <2>1, GoodsMove
  <2>2. CASE arriving(c) = 0
    BY <1>3, <1>4, <2>2
  <2>. QED BY <1>2, <2>1, <2>2
<1>. QED BY <1>5 DEF arriving

\* Only these two change a row.
LEMMA StockStill ==
    ASSUME TypeOK, [Next]_vars, \A r \in Request : ~ShipOutTransfer(r) /\ ~ReceiveTransfer(r)
    PROVE  UNCHANGED stock
<1>1. \/ UNCHANGED vars
      \/ \E o \in Transfer : CreateTransfer(o)
      \/ Reading
      \/ \E r \in Request : \/ ConfirmTransfer(r) \/ CancelTransfer(r)
                            \/ UpdateTransfer(r) \/ Rollback(r)
  BY NextCases
<1>. QED BY ZenonT(40), <1>1 DEF vars, CreateTransfer, Reading, Began, Begin, ConfirmTransfer,
                     CancelTransfer, UpdateTransfer, Rollback

LEMMA ConservedInit == Init => GoodsConserved
<1>. SUFFICES ASSUME Init, NEW s \in Sku
              PROVE  SumFunctionOnSet([w \in Warehouse |-> GoodsIn(stock[<<w, s>>])], Warehouse)
                         = InitialOnHand * Cardinality(Warehouse)
  BY DEF GoodsConserved
<1>. DEFINE f == [w \in Warehouse |-> GoodsIn(stock[<<w, s>>])]
<1>1. ASSUME NEW w \in Warehouse PROVE f[w] = InitialOnHand
  <2>1. <<w, s>> \in Cell
    BY DEF Cell
  <2>2. stock[<<w, s>>] = [EmptyRow EXCEPT !.on_hand = InitialOnHand]
    BY <2>1 DEF Init
  <2>3. GoodsIn(stock[<<w, s>>]) = InitialOnHand
    BY <2>2, BoundsAssumption DEF GoodsIn, EmptyRow
  <2>. QED BY <2>3
<1>. HIDE DEF f
<1>2. SumFunctionOnSet(f, Warehouse) = InitialOnHand * Cardinality(Warehouse)
  BY <1>1, FiniteAssumption, BoundsAssumption, SumOfConstant
<1>. QED BY <1>2 DEF f

LEMMA ConservedNext ==
    ASSUME TypeOK, GoodsConserved, [Next]_vars
    PROVE  GoodsConserved'
<1>. SUFFICES ASSUME NEW s \in Sku
              PROVE  SumFunctionOnSet([w \in Warehouse |-> GoodsIn(stock'[<<w, s>>])], Warehouse)
                         = InitialOnHand * Cardinality(Warehouse)
  BY DEF GoodsConserved
<1>. DEFINE f == [w \in Warehouse |-> GoodsIn(stock[<<w, s>>])]
            g == [w \in Warehouse |-> GoodsIn(stock'[<<w, s>>])]
<1>1. \A w \in Warehouse :
         /\ <<w, s>> \in Cell
         /\ stock[<<w, s>>].on_hand \in Int /\ stock[<<w, s>>].in_transit \in Int
         /\ stock'[<<w, s>>].on_hand \in Int /\ stock'[<<w, s>>].in_transit \in Int
  BY VersionsGrow DEF Cell, Row
<1>2. \A w \in Warehouse : f[w] \in Int /\ g[w] \in Int
  BY <1>1 DEF GoodsIn
<1>3. SumFunctionOnSet(f, Warehouse) = InitialOnHand * Cardinality(Warehouse)
  BY DEF GoodsConserved
<1>4. SumFunctionOnSet(g, Warehouse) = SumFunctionOnSet(f, Warehouse)
  <2>1. ASSUME NEW r \in Request, ShipOutTransfer(r)
        PROVE  SumFunctionOnSet(g, Warehouse) = SumFunctionOnSet(f, Warehouse)
    <3>. DEFINE t == req[r]
                a == t.row.route[1]
                b == t.row.route[2]
                q == t.lines[s]
    <3>1. /\ a \in Warehouse /\ b \in Warehouse /\ a # b /\ q \in Nat
      BY <2>1, ShipGoods DEF ValidRoute, Route
    <3>2. \A w \in Warehouse :
             /\ stock'[<<w, s>>].on_hand =
                    stock[<<w, s>>].on_hand - (IF w = a THEN q ELSE 0)
             /\ stock'[<<w, s>>].in_transit =
                    stock[<<w, s>>].in_transit + (IF w = b THEN q ELSE 0)
      BY <1>1, <2>1, ShipGoods DEF QtyAt
    <3>. HIDE DEF t, a, b, q
    <3>3. \A w \in Warehouse : g[w] = f[w] - (IF w = a THEN q ELSE 0) + (IF w = b THEN q ELSE 0)
      BY <1>1, <3>1, <3>2 DEF GoodsIn
    <3>. HIDE DEF f, g
    <3>4. /\ g[a] = f[a] - q /\ g[b] = f[b] + q
          /\ \A w \in Warehouse : w \notin {a, b} => g[w] = f[w]
      BY <1>2, <3>1, <3>3
    <3>5. /\ IsFiniteSet(Warehouse) /\ q \in Int
          /\ \A w \in Warehouse : f[w] \in Int
      BY <1>2, <3>1, FiniteAssumption
    <3>. QED BY SMTT(30), <3>1, <3>4, <3>5, SumMoved
  <2>2. ASSUME NEW r \in Request, ReceiveTransfer(r)
        PROVE  \A w \in Warehouse : g[w] = f[w]
    <3>1. \A c \in Cell : QtyAt(req[r].row.route[2], req[r].lines, c) \in Nat
      BY <2>2, ActiveRequest, QtyAtNat DEF ReceiveTransfer
    <3>. QED BY <1>1, <2>2, <3>1, ReceiveGoods DEF GoodsIn
  <2>3. CASE UNCHANGED stock
    BY <2>3
  <2>4. (\A w \in Warehouse : g[w] = f[w]) =>
            SumFunctionOnSet(g, Warehouse) = SumFunctionOnSet(f, Warehouse)
    OBVIOUS
  <2>. QED BY <2>1, <2>2, <2>3, <2>4, StockStill
<1>. QED BY <1>3, <1>4

\* However requests overlap and whatever becomes of the documents, the
\* warehouses and the ways between them hold of every SKU what there was at
\* the start.
THEOREM GoodsAreConserved == Spec => []GoodsConserved
<1>1. TypeOK /\ GoodsConserved /\ [Next]_vars => (TypeOK /\ GoodsConserved)'
  BY NextType, ConservedNext
<1>. QED BY <1>1, InitType, ConservedInit, PTL DEF Spec

\* All of a RECEIVED transfer has landed.
Landed(row) == row.status = "RECEIVED" => row.got = row.sent

\* What a receipt has read has landed.
ReceiptOld(t, row) ==
    t.op = "receive" => \A s \in Sku : t.row.got[s] <= row.got[s]

TransitInv ==
    /\ MovedInv
    /\ \A o \in Transfer : Landed(tr[o])
    /\ \A r \in Request : req[r] # Idle => ReceiptOld(req[r], tr[req[r].tr])
    /\ TransitExact

LEMMA OwedInt ==
    ASSUME NEW row \in TransferRow, NEW c \in Cell
    PROVE  Owed(row, c) \in Int
  BY DEF Owed, TransferRow, Cell

\* What is left to show of a step that works on one transfer: what it adds to a
\* row is what the transfer owes there more than before.
LEMMA TransitStep ==
    ASSUME TransitInv, MovedInv', NEW o \in Transfer,
           \A p \in Transfer \ {o} : tr'[p] = tr[p],
           Landed(tr'[o]),
           \A c \in Cell : stock'[c].in_transit =
                               stock[c].in_transit + (Owed(tr'[o], c) - Owed(tr[o], c)),
           \A r \in Request : req'[r] # Idle => ReceiptOld(req'[r], tr'[req'[r].tr])
    PROVE  TransitInv'
<1>1. \A p \in Transfer : Landed(tr'[p])
  BY DEF TransitInv
<1>2. TransitExact'
  <2>. SUFFICES ASSUME NEW c \in Cell
                PROVE  stock'[c].in_transit =
                           SumFunctionOnSet([p \in Transfer |-> Owed(tr'[p], c)], Transfer)
    BY DEF TransitExact
  <2>. DEFINE f == [p \in Transfer |-> Owed(tr[p], c)]
              g == [p \in Transfer |-> Owed(tr'[p], c)]
  <2>1. \A p \in Transfer : tr[p] \in TransferRow /\ tr'[p] \in TransferRow
    BY DEF TransitInv, MovedInv, TypeOK
  <2>2. \A p \in Transfer : f[p] \in Int /\ g[p] \in Int
    BY <2>1, OwedInt
  <2>3. \A p \in Transfer : p # o => g[p] = f[p]
    OBVIOUS
  <2>4. g[o] = Owed(tr'[o], c) /\ f[o] = Owed(tr[o], c)
    OBVIOUS
  <2>. HIDE DEF f, g
  <2>5. SumFunctionOnSet(g, Transfer) = SumFunctionOnSet(f, Transfer) + (g[o] - f[o])
    BY <2>2, <2>3, FiniteAssumption, SumChange
  <2>6. stock[c].in_transit = SumFunctionOnSet(f, Transfer)
    BY DEF TransitInv, TransitExact, f
  <2>7. SumFunctionOnSet(g, Transfer) = stock'[c].in_transit
    BY <2>4, <2>5, <2>6
  <2>. QED BY <2>7 DEF g
<1>. QED BY <1>1, <1>2 DEF TransitInv

\* The end of a request that leaves what has landed of its transfer or adds to it.
LEMMA OldKept ==
    ASSUME TransitInv, NEW r \in Request, NEW o \in Transfer, Done(r),
           \A p \in Transfer \ {o} : tr'[p] = tr[p],
           \/ \A s \in Sku : /\ tr[o].got[s] \in Nat /\ tr'[o].got[s] \in Nat
                             /\ tr[o].got[s] <= tr'[o].got[s]
           \/ \A q \in Request \ {r} : req[q] # Idle => req[q].tr # o
    PROVE  \A q \in Request : req'[q] # Idle => ReceiptOld(req'[q], tr'[req'[q].tr])
<1>. SUFFICES ASSUME NEW q \in Request, req'[q] # Idle
              PROVE  ReceiptOld(req'[q], tr'[req'[q].tr])
  OBVIOUS
<1>0. TypeOK
  BY DEF TransitInv, MovedInv
<1>1. q # r /\ req'[q] = req[q] /\ req[q] # Idle /\ req[q] \in InFlight
  BY <1>0, DoneReq DEF TypeOK
<1>2. req[q].tr \in Transfer /\ ReceiptOld(req[q], tr[req[q].tr])
      /\ \A s \in Sku : req[q].row.got[s] \in Nat
  BY <1>0, <1>1 DEF TransitInv, InFlight, TransferRow
<1>3. CASE req[q].tr # o
  BY <1>1, <1>2, <1>3
<1>4. CASE req[q].tr = o
  <2>1. \A s \in Sku : /\ tr[o].got[s] \in Nat /\ tr'[o].got[s] \in Nat
                       /\ tr[o].got[s] <= tr'[o].got[s]
    BY <1>1, <1>4
  <2>2. ASSUME req[q].op = "receive", NEW s \in Sku PROVE req[q].row.got[s] <= tr'[o].got[s]
    <3>1. req[q].row.got[s] <= tr[o].got[s]
      BY <1>2, <1>4, <2>2 DEF ReceiptOld
    <3>. QED BY <1>2, <2>1, <3>1
  <2>. QED BY <1>1, <1>4, <2>2 DEF ReceiptOld
<1>. QED BY <1>3, <1>4

LEMMA TransitInit == Init => TransitInv
<1>. SUFFICES ASSUME Init PROVE TransitInv
  OBVIOUS
<1>1. \A o \in Transfer : tr[o].status = "NONE"
  BY DEF Init
<1>2. \A r \in Request : req[r] = Idle
  BY DEF Init
<1>3. TransitExact
  <2>. SUFFICES ASSUME NEW c \in Cell
                PROVE  stock[c].in_transit =
                           SumFunctionOnSet([o \in Transfer |-> Owed(tr[o], c)], Transfer)
    BY DEF TransitExact
  <2>. DEFINE f == [o \in Transfer |-> Owed(tr[o], c)]
  <2>1. \A o \in Transfer : f[o] = 0
    BY <1>1 DEF Owed
  <2>2. stock[c].in_transit = 0
    BY DEF Init, EmptyRow
  <2>. HIDE DEF f
  <2>3. SumFunctionOnSet(f, Transfer) = 0
    BY <2>1, FiniteAssumption, SumOfZeros
  <2>. QED BY <2>2, <2>3 DEF f
<1>. QED BY <1>1, <1>2, <1>3, MovedInit DEF TransitInv, Landed

LEMMA TransitCreate ==
    ASSUME TransitInv, MovedInv', NEW o \in Transfer, CreateTransfer(o)
    PROVE  TransitInv'
<1>0. TypeOK
  BY DEF TransitInv, MovedInv
<1>1. /\ \A p \in Transfer \ {o} : tr'[p] = tr[p]
      /\ tr[o].status = "NONE" /\ tr'[o].status = "DRAFT"
      /\ UNCHANGED <<stock, req>>
  BY <1>0, CreateWritten
<1>2. \A c \in Cell : stock[c].in_transit \in Int
  BY <1>0 DEF TypeOK, Row
<1>3. \A c \in Cell : stock'[c].in_transit =
                          stock[c].in_transit + (Owed(tr'[o], c) - Owed(tr[o], c))
  BY <1>1, <1>2 DEF Owed
<1>4. ASSUME NEW r \in Request, req'[r] # Idle
      PROVE  ReceiptOld(req'[r], tr'[req'[r].tr])
  <2>1. /\ req'[r] = req[r] /\ req[r] \in InFlight
        /\ RequestFits(req[r], tr[req[r].tr], stock)
        /\ ReceiptOld(req[r], tr[req[r].tr])
    BY <1>0, <1>1, <1>4 DEF TransitInv, MovedInv, TypeOK
  <2>2. req[r].tr \in Transfer /\ req[r].tr # o
    BY <1>1, <2>1 DEF InFlight, RequestFits, Moving
  <2>. QED BY <1>1, <2>1, <2>2
<1>. QED BY <1>1, <1>3, <1>4, TransitStep DEF Landed

LEMMA TransitBegin ==
    ASSUME TransitInv, MovedInv', Reading
    PROVE  TransitInv'
<1>0. TypeOK
  BY DEF TransitInv, MovedInv
<1>1. PICK r \in Request, o \in Transfer, op \in Operations, lines \in [Sku -> Nat],
           p \in Route : Began(r, o, op, lines, p)
  BY Zenon DEF Reading
<1>2. /\ req'[r].op = op /\ req'[r].tr = o /\ req'[r].row = tr[o]
      /\ \A q \in Request \ {r} : req'[q] = req[q]
      /\ UNCHANGED <<stock, tr, out, landed>>
  BY <1>0, <1>1, BeginReq DEF Began
<1>3. \A s \in Sku : tr[o].got[s] \in Nat
  BY <1>0 DEF TypeOK, TransferRow
<1>4. \A s \in Sku : tr[o].got[s] <= tr[o].got[s]
  BY <1>3
<1>5. ReceiptOld(req'[r], tr'[req'[r].tr])
  BY <1>2, <1>4 DEF ReceiptOld
<1>6. \A q \in Request : req'[q] # Idle => ReceiptOld(req'[q], tr'[req'[q].tr])
  BY <1>2, <1>5 DEF TransitInv
<1>7. TransitExact'
  BY <1>2 DEF TransitInv, TransitExact
<1>. QED BY <1>2, <1>6, <1>7 DEF TransitInv

\* Documents that have not moved owe nothing, before and after.
LEMMA TransitPaper ==
    ASSUME TransitInv, MovedInv', Overlap \subseteq {"ship", "receive"}, NEW r \in Request,
           ConfirmTransfer(r) \/ CancelTransfer(r) \/ UpdateTransfer(r)
    PROVE  TransitInv'
<1>. DEFINE o == req[r].tr
<1>0. MovedInv /\ TypeOK
  BY DEF TransitInv, MovedInv
<1>1. /\ req[r].op \in {"confirm", "cancel", "edit"} /\ req[r].op # "idle" /\ Done(r)
      /\ UNCHANGED stock
  BY DEF ConfirmTransfer, CancelTransfer, UpdateTransfer
<1>2. o \in Transfer /\ req[r] # Idle /\ RequestFits(req[r], tr[o], stock)
  BY <1>0, <1>1, ActiveRequest DEF MovedInv
<1>3. tr[o].status \in {"DRAFT", "CONFIRMED"}
  BY <1>1, <1>2 DEF RequestFits
<1>4. \A q \in Request \ {r} : req[q] # Idle => req[q].tr # o
  BY <1>0, <1>1, AloneOnTransfer
<1>5. (\A p \in Transfer \ {o} : tr'[p] = tr[p]) /\ tr'[o].status \notin Moving
  <2>1. CASE ConfirmTransfer(r) \/ CancelTransfer(r)
    <3>1. \/ SetStatus(o, "CONFIRMED")
          \/ SetStatus(o, "CANCELLED")
      BY <2>1 DEF ConfirmTransfer, CancelTransfer
    <3>2. "CONFIRMED" \in Status /\ "CANCELLED" \in Status
      BY DEF Status
    <3>. QED BY <1>0, <1>2, <3>1, <3>2, StatusWritten DEF Moving
  <2>2. CASE UpdateTransfer(r)
    BY <1>0, <1>3, <2>2, UpdateWritten DEF Moving
  <2>. QED BY <2>1, <2>2
<1>6. \A c \in Cell : Owed(tr'[o], c) = 0 /\ Owed(tr[o], c) = 0
  BY <1>3, <1>5 DEF Owed, Moving
<1>7. \A c \in Cell : stock[c].in_transit \in Int
  BY <1>0 DEF TypeOK, Row
<1>8. \A c \in Cell : stock'[c].in_transit =
                          stock[c].in_transit + (Owed(tr'[o], c) - Owed(tr[o], c))
  BY <1>1, <1>6, <1>7
<1>9. Landed(tr'[o])
  BY <1>5 DEF Landed, Moving
<1>. HIDE DEF o
<1>10. \A q \in Request : req'[q] # Idle => ReceiptOld(req'[q], tr'[req'[q].tr])
  BY <1>1, <1>2, <1>4, <1>5, OldKept
<1>. QED BY <1>2, <1>5, <1>8, <1>9, <1>10, TransitStep

\* What leaves is owed at the other end.
LEMMA TransitShip ==
    ASSUME TransitInv, MovedInv', NEW r \in Request, ShipOutTransfer(r)
    PROVE  TransitInv'
<1>. DEFINE t == req[r]
            o == t.tr
<1>0. MovedInv /\ TypeOK
  BY DEF TransitInv, MovedInv
<1>1. Done(r)
  BY DEF ShipOutTransfer
<1>2. /\ o \in Transfer /\ t # Idle /\ tr[o] \in TransferRow /\ tr[o].status = "CONFIRMED"
      /\ t.lines = tr[o].sent /\ tr[o].sent \in [Sku -> Nat]
      /\ TransferFits(tr[o], out[o], landed[o])
  BY <1>0, ShipFits
<1>3. /\ \A p \in Transfer \ {o} : tr'[p] = tr[p]
      /\ tr'[o].status = "IN_TRANSIT" /\ tr'[o].route = tr[o].route
      /\ tr'[o].sent = tr[o].sent /\ tr'[o].got = tr[o].got
  BY <1>0, ShipWritten
<1>4. tr[o].got = NoLines
  BY <1>2 DEF TransferFits, Moving
<1>5. t.row.route = tr[o].route
  BY <1>0, <1>2 DEF MovedInv, RequestFits
<1>6. ASSUME NEW c \in Cell
      PROVE  stock'[c].in_transit = stock[c].in_transit + (Owed(tr'[o], c) - Owed(tr[o], c))
  <2>1. stock'[c].in_transit = stock[c].in_transit + QtyAt(tr[o].route[2], tr[o].sent, c)
    BY <1>0, <1>2, <1>5, ShipGoods
  <2>2. Owed(tr[o], c) = 0
    BY <1>2 DEF Owed
  <2>3. c[2] \in Sku /\ tr[o].sent[c[2]] \in Nat
    BY <1>2 DEF Cell
  <2>4. Owed(tr'[o], c) = QtyAt(tr[o].route[2], tr[o].sent, c)
    BY <1>3, <1>4, <2>3 DEF Owed, QtyAt, NoLines
  <2>5. QtyAt(tr[o].route[2], tr[o].sent, c) \in Nat
    BY <2>3 DEF QtyAt
  <2>. QED BY <2>1, <2>2, <2>4, <2>5
<1>7. Landed(tr'[o])
  BY <1>3 DEF Landed
<1>8. \A s \in Sku : /\ tr[o].got[s] \in Nat /\ tr'[o].got[s] \in Nat
                     /\ tr[o].got[s] <= tr'[o].got[s]
  BY <1>3, <1>4 DEF NoLines
<1>. HIDE DEF t, o
<1>9. \A q \in Request : req'[q] # Idle => ReceiptOld(req'[q], tr'[req'[q].tr])
  BY <1>1, <1>2, <1>3, <1>8, OldKept
<1>. QED BY <1>2, <1>3, <1>6, <1>7, <1>9, TransitStep

\* What lands is owed no more; and a transfer that is declared RECEIVED owes
\* nothing, for whoever declares it counts at most what has landed.
LEMMA TransitReceive ==
    ASSUME TransitInv, MovedInv', NEW r \in Request, ReceiveTransfer(r)
    PROVE  TransitInv'
<1>. DEFINE t == req[r]
            o == t.tr
<1>0. MovedInv /\ TypeOK
  BY DEF TransitInv, MovedInv
<1>1. Done(r) /\ t.op = "receive"
  BY DEF ReceiveTransfer
<1>2. /\ o \in Transfer /\ t # Idle /\ tr[o] \in TransferRow
      /\ t.lines \in [Sku -> Nat] /\ t.row.got \in [Sku -> Nat]
      /\ tr[o].status \in Moving
      /\ TransferFits(tr[o], out[o], landed[o])
      /\ \A s \in Sku : t.lines[s] > 0 =>
            /\ t.row.got[s] = tr[o].got[s]
            /\ t.row.got[s] + t.lines[s] <= tr[o].sent[s]
  BY <1>0, ReceiptFits
<1>3. /\ tr' \in [Transfer -> TransferRow]
      /\ \A p \in Transfer \ {o} : tr'[p] = tr[p]
      /\ tr'[o].status = IF FullyReceived(t) THEN "RECEIVED" ELSE tr[o].status
      /\ tr'[o].route = tr[o].route /\ tr'[o].sent = tr[o].sent
      /\ \A s \in Sku : tr'[o].got[s] = IF t.lines[s] > 0 THEN t.row.got[s] + t.lines[s]
                                        ELSE tr[o].got[s]
  BY <1>0, ReceiptWritten
<1>4. /\ tr[o].got \in [Sku -> Nat] /\ tr[o].sent \in [Sku -> Nat]
      /\ tr'[o].got \in [Sku -> Nat] /\ tr'[o].sent \in [Sku -> Nat]
  BY <1>2, <1>3 DEF TransferRow
<1>5. /\ t.row.route = tr[o].route /\ t.row.sent = tr[o].sent
      /\ \A s \in Sku : t.row.got[s] <= tr[o].got[s]
  BY <1>0, <1>1, <1>2 DEF TransitInv, MovedInv, RequestFits, ReceiptOld
<1>6. \A s \in Sku : tr'[o].got[s] = tr[o].got[s] + t.lines[s]
  <2>. TAKE s \in Sku
  <2>1. t.lines[s] \in Nat /\ tr[o].got[s] \in Nat
    BY <1>2, <1>4
  <2>. QED BY <1>2, <1>3, <2>1
<1>7. \A s \in Sku : tr'[o].got[s] <= tr[o].sent[s]
  <2>1. TransferFits(tr'[o], out'[o], landed'[o])
    BY <1>2 DEF MovedInv
  <2>2. tr'[o].status \in Moving
    BY <1>2, <1>3 DEF Moving
  <2>. QED BY <1>3, <2>1, <2>2 DEF TransferFits
<1>8. FullyReceived(t) => tr'[o].got = tr'[o].sent
  <2>. HAVE FullyReceived(t)
  <2>1. ASSUME NEW s \in Sku PROVE tr'[o].got[s] = tr'[o].sent[s]
    <3>1. /\ t.row.got[s] + t.lines[s] >= tr[o].sent[s]
          /\ t.row.got[s] <= tr[o].got[s]
      BY <1>5 DEF FullyReceived
    <3>2. t.row.got[s] \in Nat /\ t.lines[s] \in Nat /\ tr[o].got[s] \in Nat
          /\ tr[o].sent[s] \in Nat
      BY <1>2, <1>4
    <3>. QED BY SMTT(30), <1>3, <1>6, <1>7, <3>1, <3>2
  <2>. QED BY <1>4, <2>1
<1>9. tr[o].status = "RECEIVED" => \A s \in Sku : t.lines[s] = 0
  <2>. HAVE tr[o].status = "RECEIVED"
  <2>1. tr[o].got = tr[o].sent
    BY <1>2 DEF TransitInv, Landed
  <2>2. \A s \in Sku : t.lines[s] \in Nat /\ tr[o].got[s] \in Nat
    BY <1>2, <1>4
  <2>. QED BY <1>6, <1>7, <2>1, <2>2
<1>10. Landed(tr'[o])
  <2>1. CASE FullyReceived(t)
    BY <1>8, <2>1 DEF Landed
  <2>2. CASE ~FullyReceived(t)
    <3>1. tr'[o].status = tr[o].status
      BY <1>3, <2>2
    <3>2. ASSUME tr[o].status = "RECEIVED" PROVE tr'[o].got = tr'[o].sent
      <4>1. tr[o].got = tr[o].sent
        BY <1>2, <3>2 DEF TransitInv, Landed
      <4>2. \A s \in Sku : tr'[o].got[s] = tr[o].got[s]
        BY <1>4, <1>6, <1>9, <3>2
      <4>. QED BY <1>3, <1>4, <4>1, <4>2
    <3>. QED BY <3>1, <3>2 DEF Landed
  <2>. QED BY <2>1, <2>2
<1>11. ASSUME NEW c \in Cell
       PROVE  stock'[c].in_transit = stock[c].in_transit + (Owed(tr'[o], c) - Owed(tr[o], c))
  <2>. DEFINE s == c[2]
              q == QtyAt(tr[o].route[2], t.lines, c)
  <2>1. stock'[c].in_transit = stock[c].in_transit - q
    BY <1>0, <1>5, ReceiveGoods
  <2>2. /\ s \in Sku /\ stock[c].in_transit \in Nat
        /\ tr[o].sent[s] \in Nat /\ tr[o].got[s] \in Nat /\ t.lines[s] \in Nat
    BY <1>0, <1>2, <1>4 DEF Cell, TypeOK, Row
  <2>3. CASE c[1] # tr[o].route[2]
    <3>1. q = 0 /\ Owed(tr'[o], c) = 0 /\ Owed(tr[o], c) = 0
      BY <1>3, <2>3 DEF Owed, QtyAt
    <3>. QED BY <2>1, <2>2, <3>1
  <2>4. CASE c[1] = tr[o].route[2] /\ tr[o].status = "RECEIVED"
    <3>1. q = 0 /\ tr'[o].status = "RECEIVED"
      BY <1>3, <1>9, <2>2, <2>4 DEF QtyAt
    <3>2. Owed(tr'[o], c) = 0 /\ Owed(tr[o], c) = 0
      BY <2>4, <3>1 DEF Owed
    <3>. QED BY <2>1, <2>2, <3>1, <3>2
  <2>5. CASE c[1] = tr[o].route[2] /\ tr[o].status = "IN_TRANSIT"
    <3>1. q = t.lines[s] /\ Owed(tr[o], c) = tr[o].sent[s] - tr[o].got[s]
      BY <2>5 DEF QtyAt, Owed
    <3>2. Owed(tr'[o], c) = tr[o].sent[s] - tr'[o].got[s]
      <4>1. CASE FullyReceived(t)
        <5>1. Owed(tr'[o], c) = 0
          BY <1>3, <4>1 DEF Owed
        <5>2. tr'[o].got[s] = tr[o].sent[s]
          BY <1>3, <1>8, <4>1
        <5>. QED BY <2>2, <5>1, <5>2
      <4>2. CASE ~FullyReceived(t)
        BY <1>3, <2>5, <4>2 DEF Owed
      <4>. QED BY <4>1, <4>2
    <3>3. tr'[o].got[s] = tr[o].got[s] + t.lines[s]
      BY <1>6, <2>2
    <3>. HIDE DEF q, s
    <3>. QED BY <2>1, <2>2, <3>1, <3>2, <3>3
  <2>. QED BY <1>2, <2>3, <2>4, <2>5 DEF Moving
<1>12. \A s \in Sku : /\ tr[o].got[s] \in Nat /\ tr'[o].got[s] \in Nat
                      /\ tr[o].got[s] <= tr'[o].got[s]
  BY <1>2, <1>4, <1>6
<1>. HIDE DEF t, o
<1>13. \A q \in Request : req'[q] # Idle => ReceiptOld(req'[q], tr'[req'[q].tr])
  BY <1>1, <1>2, <1>3, <1>12, OldKept
<1>. QED BY <1>2, <1>3, <1>10, <1>11, <1>13, TransitStep

LEMMA TransitNext ==
    ASSUME Overlap \subseteq {"ship", "receive"}
    PROVE  TransitInv /\ [Next]_vars => TransitInv'
<1>. SUFFICES ASSUME TransitInv, [Next]_vars PROVE TransitInv'
  OBVIOUS
<1>0. TypeOK /\ MovedInv /\ MovedInv'
  BY MovedNext DEF TransitInv, MovedInv
<1>1. CASE UNCHANGED vars
  <2>1. UNCHANGED <<stock, tr, req>>
    BY <1>1 DEF vars
  <2>. QED BY <1>0, <2>1 DEF TransitInv, TransitExact
<1>2. ASSUME NEW r \in Request, Rollback(r) PROVE TransitInv'
  <2>1. UNCHANGED <<stock, tr>> /\ Done(r)
    BY <1>2 DEF Rollback
  <2>2. \A q \in Request : req'[q] = Idle \/ req'[q] = req[q]
    BY <1>0, <2>1, DoneReq
  <2>. QED BY <1>0, <2>1, <2>2 DEF TransitInv, TransitExact
<1>. QED BY <1>0, <1>1, <1>2, TransitCreate, TransitBegin, TransitPaper, TransitShip,
            TransitReceive, NextCases

\* As long as only shipments and receipts overlap on a transfer, `in_transit` of
\* a row is what the transfers under way owe it, and no goods vanish or appear.
THEOREM GoodsAreAccounted ==
    ASSUME Overlap \subseteq {"ship", "receive"}
    PROVE  Spec => []GoodsAccounted
<1>1. TransitInv /\ [Next]_vars => TransitInv'
  BY TransitNext
<1>2. TransitInv => TransitExact
  BY DEF TransitInv
<1>. QED BY <1>1, <1>2, TransitInit, GoodsAreConserved, PTL DEF Spec, GoodsAccounted
=============================================================================
