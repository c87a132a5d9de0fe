----------------------- MODULE StockAdjustment_proofs -----------------------
(***************************************************************************)
(* Proofs about StockAdjustment, for any number of documents, rows,        *)
(* requests and differences.  The bounds play no part in them.             *)
(***************************************************************************)
EXTENDS StockAdjustment, StockRow_proofs, TLAPS

\* A request that does anything carries a document, a snapshot and a payload.
LEMMA ActiveRequest ==
    ASSUME TypeOK, NEW r \in Request, req[r].op # "idle"
    PROVE  req[r] \in InFlight /\ req[r] # Idle
  BY DEF TypeOK, Idle

LEMMA NoChangeType == NoChange \in [Cell -> Int]
  BY DEF NoChange

LEMMA CountsType ==
    \A d \in Counts : d \in [Cell -> Int] /\ d # NoChange
  BY CountsAssumption

Began(r, o) ==
    \/ Begin(r, "confirm", o, adj[o].diff)
    \/ Begin(r, "cancel", o, NoChange)
    \/ \E d \in Counts : Begin(r, "edit", o, d)

\* The shape of a step: the three Begin... actions are one.
LEMMA NextCases ==
    ASSUME [Next]_vars
    PROVE  \/ UNCHANGED vars
           \/ \E o \in Adjustment : CreateAdjustment(o)
           \/ \E r \in Request, o \in Adjustment : Began(r, o)
           \/ \E r \in Request : \/ ConfirmAdjustment(r)
                                 \/ CancelAdjustment(r)
                                 \/ UpdateAdjustment(r)
                                 \/ Rollback(r)
           \/ \E c \in Cell, q \in 1 .. MaxOnHand : Supply(c, q)
<1>1. ASSUME NEW r \in Request, NEW o \in Adjustment,
             \/ BeginConfirm(r, o)
             \/ BeginCancel(r, o)
             \/ \E d \in Counts : BeginUpdate(r, o, d)
      PROVE  Began(r, o)
  BY <1>1 DEF BeginConfirm, BeginCancel, BeginUpdate, Began
<1>. QED BY <1>1 DEF Next

-----------------------------------------------------------------------------
(* What any step does to the stock rows *)

\* One statement, on the row as it is.
CountStep(s, n) ==
    \E q \in Nat : \/ n = Increase(s, q)
                   \/ DecreaseOK(s, s.version, q) /\ n = Decrease(s, q)
                   \/ n = PurchaseIn(s, q)

LEMMA CountStepRow ==
    ASSUME NEW s \in Row, NEW n, CountStep(s, n)
    PROVE  n \in Row /\ n.version = s.version + 1
<1>. PICK q \in Nat : \/ n = Increase(s, q)
                      \/ DecreaseOK(s, s.version, q) /\ n = Decrease(s, q)
                      \/ n = PurchaseIn(s, q)
  BY DEF CountStep
<1>1. CASE n = Increase(s, q)
  BY <1>1, IncreaseRow
<1>2. CASE DecreaseOK(s, s.version, q) /\ n = Decrease(s, q)
  BY <1>2, DecreaseRow DEF Row
<1>3. CASE n = PurchaseIn(s, q)
  BY <1>3, PurchaseInRow
<1>. QED BY <1>1, <1>2, <1>3

\* A line that passes its guard is such a statement, and finds the row under
\* the version that was read, unless its difference is zero.
LEMMA LineStep ==
    ASSUME NEW s \in Row, NEW v \in Nat, NEW d \in Int, LineOK(s, v, d)
    PROVE  /\ d = 0 => AfterLine(s, d) = s
           /\ d # 0 => CountStep(s, AfterLine(s, d)) /\ v = s.version
<1>1. CASE d > 0
  <2>1. d \in Nat /\ AfterLine(s, d) = Increase(s, d) /\ v = s.version
    BY <1>1 DEF LineOK, AfterLine, IncreaseOK
  <2>. QED BY <1>1, <2>1 DEF CountStep
<1>2. CASE d < 0
  <2>1. -d \in Nat /\ AfterLine(s, d) = Decrease(s, -d) /\ DecreaseOK(s, v, -d)
    BY <1>2 DEF LineOK, AfterLine
  <2>2. v = s.version
    BY <2>1 DEF DecreaseOK
  <2>. QED BY <1>2, <2>1, <2>2 DEF CountStep
<1>3. CASE d = 0
  BY <1>3 DEF AfterLine
<1>. QED BY <1>1, <1>2, <1>3

\* What a confirmation does to each row.
LEMMA ConfirmRows ==
    ASSUME TypeOK, NEW r \in Request, ConfirmAdjustment(r)
    PROVE  /\ stock' = [c \in Cell |-> stock'[c]]
           /\ \A c \in Cell :
                /\ req[r].diff[c] = 0 => stock'[c] = stock[c]
                /\ req[r].diff[c] # 0 => /\ CountStep(stock[c], stock'[c])
                                         /\ req[r].ver[c] = stock[c].version
<1>. DEFINE t == req[r]
<1>1. t \in InFlight
  BY ActiveRequest DEF ConfirmAdjustment
<1>2. \A c \in Cell : /\ LineOK(stock[c], t.ver[c], t.diff[c])
                      /\ stock'[c] = AfterLine(stock[c], t.diff[c])
                      /\ stock[c] \in Row /\ t.ver[c] \in Nat /\ t.diff[c] \in Int
  BY <1>1 DEF ConfirmAdjustment, TypeOK, InFlight
<1>3. stock' = [c \in Cell |-> stock'[c]]
  BY DEF ConfirmAdjustment
<1>. HIDE DEF t
<1>4. \A c \in Cell : /\ t.diff[c] = 0 => stock'[c] = stock[c]
                      /\ t.diff[c] # 0 => /\ CountStep(stock[c], stock'[c])
                                          /\ t.ver[c] = stock[c].version
  BY <1>2, LineStep
<1>. QED BY <1>3, <1>4 DEF t

\* Every commit changes each row by at most one such statement.
LEMMA StockMoves ==
    ASSUME TypeOK, [Next]_vars
    PROVE  /\ stock' = [c \in Cell |-> stock'[c]]
           /\ \A c \in Cell : stock'[c] = stock[c] \/ CountStep(stock[c], stock'[c])
<1>. DEFINE Moves == /\ stock' = [c \in Cell |-> stock'[c]]
                     /\ \A c \in Cell : \/ stock'[c] = stock[c]
                                        \/ CountStep(stock[c], stock'[c])
<1>1. ASSUME UNCHANGED stock PROVE Moves
  BY <1>1 DEF TypeOK
<1>2. ASSUME NEW r \in Request, ConfirmAdjustment(r) PROVE Moves
  BY <1>2, ConfirmRows
<1>3. ASSUME NEW d \in Cell, NEW q \in 1 .. MaxOnHand, Supply(d, q) PROVE Moves
  <2>1. q \in Nat /\ stock' = [stock EXCEPT ![d] = PurchaseIn(stock[d], q)]
    BY <1>3, BoundsAssumption DEF Supply
  <2>2. \A c \in Cell : stock'[c] = stock[c] \/ stock'[c] = PurchaseIn(stock[c], q)
    BY <2>1 DEF TypeOK
  <2>3. stock' = [c \in Cell |-> stock'[c]]
    BY <2>1 DEF TypeOK
  <2>. QED BY <2>1, <2>2, <2>3 DEF CountStep
<1>4. ASSUME \/ UNCHANGED vars
             \/ \E o \in Adjustment : CreateAdjustment(o)
             \/ \E r \in Request, o \in Adjustment : Began(r, o)
             \/ \E r \in Request :
                   CancelAdjustment(r) \/ UpdateAdjustment(r) \/ Rollback(r)
      PROVE  UNCHANGED stock
  BY <1>4 DEF vars, CreateAdjustment, Began, Begin, CancelAdjustment, UpdateAdjustment, Rollback
<1>. HIDE DEF Moves
<1>5. Moves
  BY <1>1, <1>2, <1>3, <1>4, NextCases
<1>. QED BY <1>5 DEF Moves

LEMMA VersionsGrow ==
    ASSUME TypeOK, [Next]_vars
    PROVE  \A c \in Cell : /\ stock[c] \in Row /\ stock'[c] \in Row
                           /\ stock[c].version \in Nat /\ stock'[c].version \in Nat
                           /\ stock[c].version <= stock'[c].version
<1>1. \A c \in Cell : stock[c] \in Row /\ stock[c].version \in Nat
  BY DEF TypeOK, Row
<1>2. \A c \in Cell : \/ stock'[c] = stock[c]
                      \/ stock'[c] \in Row /\ stock'[c].version = stock[c].version + 1
  BY <1>1, StockMoves, CountStepRow
<1>. QED BY <1>1, <1>2

-----------------------------------------------------------------------------
(* Types *)

LEMMA InitType == Init => TypeOK
<1>. SUFFICES ASSUME Init PROVE TypeOK
  OBVIOUS
<1>1. [EmptyRow EXCEPT !.on_hand = InitialOnHand] \in Row
  BY BoundsAssumption DEF EmptyRow, Row
<1>2. [status |-> "NONE", gen |-> 0, diff |-> NoChange] \in DocRow
  BY NoChangeType DEF DocRow
<1>. QED BY <1>1, <1>2, NoChangeType DEF Init, TypeOK

LEMMA BeginType ==
    ASSUME TypeOK, NEW r \in Request, NEW o \in Adjustment,
           NEW op \in {"confirm", "cancel", "edit"}, NEW d \in [Cell -> Int],
           Begin(r, op, o, d)
    PROVE  TypeOK'
<1>1. [c \in Cell |-> stock[c].version] \in [Cell -> Nat] /\ adj[o] \in DocRow
  BY DEF TypeOK, Row
<1>2. [op |-> op, doc |-> o, row |-> adj[o],
       ver |-> [c \in Cell |-> stock[c].version], diff |-> d] \in InFlight
  BY <1>1 DEF InFlight
<1>. QED BY <1>2 DEF TypeOK, Begin

LEMMA SetStatusType ==
    ASSUME TypeOK, NEW o \in Adjustment, NEW status \in Status
    PROVE  [adj EXCEPT ![o].status = status] \in [Adjustment -> DocRow]
<1>1. adj \in [Adjustment -> DocRow] /\ [adj[o] EXCEPT !.status = status] \in DocRow
  BY DEF TypeOK, DocRow
<1>. QED BY <1>1

LEMMA NextType == TypeOK /\ [Next]_vars => TypeOK'
<1>. SUFFICES ASSUME TypeOK, [Next]_vars PROVE TypeOK'
  OBVIOUS
<1>0. stock' \in [Cell -> Row]
  BY StockMoves, VersionsGrow
<1>1. CASE UNCHANGED vars
  BY <1>1 DEF vars, TypeOK
<1>2. ASSUME NEW o \in Adjustment, CreateAdjustment(o) PROVE TypeOK'
  <2>1. PICK d \in Counts :
          adj' = [adj EXCEPT ![o] = [status |-> "DRAFT", gen |-> 0, diff |-> d]]
    BY <1>2 DEF CreateAdjustment
  <2>2. [status |-> "DRAFT", gen |-> 0, diff |-> d] \in DocRow
    BY CountsType DEF DocRow, Status
  <2>. QED BY <1>2, <2>1, <2>2 DEF CreateAdjustment, TypeOK
<1>3. ASSUME NEW r \in Request, NEW o \in Adjustment, Began(r, o) PROVE TypeOK'
  <2>1. adj[o].diff \in [Cell -> Int]
    BY DEF TypeOK, DocRow
  <2>. QED BY <1>3, <2>1, NoChangeType, CountsType, BeginType DEF Began
<1>4. ASSUME NEW r \in Request, Done(r) PROVE req' \in [Request -> InFlight \cup {Idle}]
  BY <1>4 DEF Done, TypeOK
<1>5. ASSUME NEW r \in Request, ConfirmAdjustment(r) PROVE TypeOK'
  <2>. DEFINE t == req[r]
  <2>1. t \in InFlight
    BY <1>5, ActiveRequest DEF ConfirmAdjustment
  <2>2. t.doc \in Adjustment /\ \A c \in Cell : t.diff[c] \in Int
    BY <2>1 DEF InFlight
  <2>3. adj' \in [Adjustment -> DocRow]
    BY <1>5, <2>2, SetStatusType DEF ConfirmAdjustment, Status
  <2>4. \A c \in Cell : applied[t.doc][c] \in Int
    BY <2>2 DEF TypeOK
  <2>5. [c \in Cell |-> applied[t.doc][c] + t.diff[c]] \in [Cell -> Int]
    BY <2>2, <2>4
  <2>6. applied' \in [Adjustment -> [Cell -> Int]]
    BY <1>5, <2>5 DEF ConfirmAdjustment, TypeOK
  <2>. QED BY <1>0, <1>4, <1>5, <2>3, <2>6 DEF ConfirmAdjustment, TypeOK
<1>6. ASSUME NEW r \in Request, CancelAdjustment(r) PROVE TypeOK'
  <2>1. req[r].doc \in Adjustment
    BY <1>6, ActiveRequest DEF CancelAdjustment, InFlight
  <2>2. adj' \in [Adjustment -> DocRow]
    BY <1>6, <2>1, SetStatusType DEF CancelAdjustment, Status
  <2>. QED BY <1>0, <1>4, <1>6, <2>2 DEF CancelAdjustment, TypeOK
<1>7. ASSUME NEW r \in Request, UpdateAdjustment(r) PROVE TypeOK'
  <2>. DEFINE t == req[r]
  <2>1. t.doc \in Adjustment /\ t.diff \in [Cell -> Int]
    BY <1>7, ActiveRequest DEF UpdateAdjustment, InFlight
  <2>2. adj' = [adj EXCEPT ![t.doc].gen = adj[t.doc].gen + 1, ![t.doc].diff = t.diff]
    BY <1>7 DEF UpdateAdjustment
  <2>. HIDE DEF t
  <2>3. adj[t.doc] \in DocRow
    BY <2>1 DEF TypeOK
  <2>4. /\ \A p \in Adjustment \ {t.doc} : adj'[p] = adj[p]
        /\ adj'[t.doc] = [status |-> adj[t.doc].status, gen |-> adj[t.doc].gen + 1,
                           diff |-> t.diff]
    BY <2>1, <2>2, <2>3 DEF TypeOK, DocRow
  <2>5. adj' = [p \in Adjustment |-> adj'[p]]
    BY <2>1, <2>2 DEF TypeOK
  <2>6. \A p \in Adjustment : adj'[p] \in DocRow
    <3>1. adj'[t.doc] \in DocRow
      BY <2>1, <2>3, <2>4 DEF DocRow
    <3>. QED BY <2>4, <3>1 DEF TypeOK
  <2>7. adj' \in [Adjustment -> DocRow]
    BY <2>5, <2>6
  <2>. QED BY <1>0, <1>4, <1>7, <2>7 DEF UpdateAdjustment, TypeOK
<1>8. ASSUME NEW r \in Request, Rollback(r) PROVE TypeOK'
  BY <1>4, <1>8 DEF Rollback, TypeOK
<1>9. ASSUME NEW c \in Cell, NEW q \in 1 .. MaxOnHand, Supply(c, q) PROVE TypeOK'
  BY <1>0, <1>9 DEF Supply, TypeOK
<1>. QED BY <1>1, <1>2, <1>3, <1>5, <1>6, <1>7, <1>8, <1>9, NextCases

\* Whatever is counted, and however requests overlap, every table stays
\* well-formed: no row is counted below zero.
THEOREM TypeCorrect == Spec => []TypeOK
<1>1. TypeOK /\ [Next]_vars => TypeOK'
  BY NextType
<1>. QED BY <1>1, InitType, PTL DEF Spec

-----------------------------------------------------------------------------
(* The contract of the stock ledger *)

LEMMA CountStepIsStatement ==
    ASSUME NEW s \in Row, NEW n, CountStep(s, n)
    PROVE  Ledger!Statement(s, n)
<1>. PICK q \in Nat : \/ n = Increase(s, q)
                      \/ DecreaseOK(s, s.version, q) /\ n = Decrease(s, q)
                      \/ n = PurchaseIn(s, q)
  BY DEF CountStep
<1>0. s.on_hand \in Nat
  BY DEF Row
<1>1. CASE n = Increase(s, q)
  <2>1. n.on_hand = s.on_hand + q
    BY <1>1 DEF Increase, Bump, Row
  <2>2. q \in Ledger!Moved(s, n)
    BY <1>0, <2>1 DEF Ledger!Moved, Ledger!Distance
  <2>3. n \in Ledger!After("count up", s, q)
    BY <1>1 DEF Ledger!After, Ledger!Increase, Ledger!Bump, Increase, Bump
  <2>. QED BY <2>2, <2>3 DEF Ledger!Statement
<1>2. CASE DecreaseOK(s, s.version, q) /\ n = Decrease(s, q)
  <2>1. n.on_hand = s.on_hand - q
    BY <1>2 DEF Decrease, Bump, Row
  <2>2. q \in Ledger!Moved(s, n)
    BY <1>0, <2>1 DEF Ledger!Moved, Ledger!Distance
  <2>3. n \in Ledger!After("count down", s, q)
    BY <1>2 DEF Ledger!After, Ledger!CountDown, Ledger!Decrease, Ledger!DecreaseOK,
                Ledger!Bump, Decrease, DecreaseOK, Bump
  <2>. QED BY <2>2, <2>3 DEF Ledger!Statement
<1>3. CASE n = PurchaseIn(s, q)
  <2>1. n.on_hand = s.on_hand + q
    BY <1>3 DEF PurchaseIn, Bump, Row
  <2>2. q \in Ledger!Moved(s, n)
    BY <1>0, <2>1 DEF Ledger!Moved, Ledger!Distance
  <2>3. n \in Ledger!After("buy", s, q)
    BY <1>3 DEF Ledger!After, Ledger!Buy, Ledger!PurchaseIn, Ledger!Bump, PurchaseIn, Bump
  <2>. QED BY <2>2, <2>3 DEF Ledger!Statement
<1>. QED BY <1>1, <1>2, <1>3

\* Seen from the stock rows alone, a stock take does nothing but what the
\* ledger allows.
THEOREM AdjustmentsImplementLedger == Spec => KeepsLedger
<1>1. Init => Ledger!Init
  BY DEF Init, Ledger!Init, EmptyRow, Ledger!EmptyRow
<1>2. TypeOK /\ [Next]_vars => [Ledger!Commit]_stock
  <2>. SUFFICES ASSUME TypeOK, [Next]_vars PROVE Ledger!Commit
    OBVIOUS
  <2>1. \A c \in Cell : stock[c] \in Row
    BY DEF TypeOK
  <2>2. \A c \in Cell : \/ stock'[c] = stock[c]
                        \/ Ledger!Statement(stock[c], stock'[c])
    BY <2>1, StockMoves, CountStepIsStatement
  <2>. QED BY <2>2, StockMoves DEF Ledger!Commit
<1>. QED BY <1>1, <1>2, TypeCorrect, PTL DEF Spec, KeepsLedger, Ledger!Spec

-----------------------------------------------------------------------------
(* Once and as written, when only confirmations overlap *)

\* What a document shows and what it has done agree.
DocFits(doc, done) ==
    /\ doc.status # "NONE" => doc.diff # NoChange
    /\ done = IF doc.status = "CONFIRMED" THEN doc.diff ELSE NoChange

\* A request in flight has read a draft.  It still is one, as the request has
\* it - or another confirmation has come first and has outdated every row that
\* this one would change.
RequestFits(t, doc, rows) ==
    /\ \A c \in Cell : t.ver[c] <= rows[c].version
    /\ t.op # "confirm" => doc.status = "DRAFT"
    /\ t.op = "edit" => t.diff # NoChange
    /\ t.op = "confirm" =>
          /\ t.diff = doc.diff
          /\ \/ doc.status = "DRAFT"
             \/ /\ doc.status = "CONFIRMED"
                /\ \A c \in Cell : t.diff[c] # 0 => t.ver[c] # rows[c].version

\* Two requests about one document are confirmations.
Apart ==
    \A q, r \in Request :
        q # r /\ req[q] # Idle /\ req[r] # Idle /\ req[q].doc = req[r].doc =>
            req[q].op = "confirm"

AppliedInv ==
    /\ TypeOK
    /\ \A o \in Adjustment : DocFits(adj[o], applied[o])
    /\ \A r \in Request : req[r] # Idle => RequestFits(req[r], adj[req[r].doc], stock)
    /\ Apart

\* A difference of any row tells a difference from none.
LEMMA SomeDifference ==
    ASSUME NEW d \in [Cell -> Int], d # NoChange
    PROVE  \E c \in Cell : d[c] # 0
  BY DEF NoChange

LEMMA DoneReq ==
    ASSUME TypeOK, NEW r \in Request, Done(r)
    PROVE  req'[r] = Idle /\ \A q \in Request \ {r} : req'[q] = req[q]
  BY DEF Done, TypeOK

\* Of a request whose document is left alone nothing changes but that rows age.
LEMMA RequestKept ==
    ASSUME TypeOK, [Next]_vars, NEW t \in InFlight, NEW doc, RequestFits(t, doc, stock)
    PROVE  RequestFits(t, doc, stock')
<1>1. \A c \in Cell : /\ t.ver[c] \in Nat /\ stock[c].version \in Nat
                      /\ stock'[c].version \in Nat
                      /\ stock[c].version <= stock'[c].version
  BY VersionsGrow DEF InFlight
<1>2. \A c \in Cell : /\ t.ver[c] <= stock'[c].version
                      /\ t.ver[c] # stock[c].version => t.ver[c] # stock'[c].version
  BY <1>1 DEF RequestFits
<1>. QED BY <1>2 DEF RequestFits

\* A request ends and changes at most its own document, in a way that suits the
\* other requests that work on it.
LEMMA AppliedStep ==
    ASSUME AppliedInv, [Next]_vars, TypeOK', NEW r \in Request, Done(r),
           NEW o \in Adjustment, DocFits(adj'[o], applied'[o]),
           \A p \in Adjustment \ {o} : adj'[p] = adj[p] /\ applied'[p] = applied[p],
           \/ adj'[o] = adj[o]
           \/ \A q \in Request \ {r} : req[q] # Idle /\ req[q].doc = o =>
                  RequestFits(req[q], adj'[o], stock')
    PROVE  AppliedInv'
<1>1. req'[r] = Idle /\ \A q \in Request \ {r} : req'[q] = req[q]
  BY DoneReq DEF AppliedInv
<1>2. \A p \in Adjustment : DocFits(adj'[p], applied'[p])
  BY DEF AppliedInv
<1>3. ASSUME NEW q \in Request, req'[q] # Idle
      PROVE  RequestFits(req'[q], adj'[req'[q].doc], stock')
  <2>1. /\ q # r /\ req'[q] = req[q] /\ req[q] # Idle /\ req[q] \in InFlight
        /\ RequestFits(req[q], adj[req[q].doc], stock)
    BY <1>1, <1>3 DEF AppliedInv, TypeOK
  <2>2. req[q].doc \in Adjustment
    BY <2>1 DEF InFlight
  <2>3. RequestFits(req[q], adj[req[q].doc], stock')
    BY <2>1, RequestKept DEF AppliedInv
  <2>4. CASE adj'[req[q].doc] = adj[req[q].doc]
    BY <2>1, <2>3, <2>4
  <2>5. CASE adj'[req[q].doc] # adj[req[q].doc]
    <3>1. req[q].doc = o
      BY <2>2, <2>5
    <3>. QED BY <2>1, <2>5, <3>1
  <2>. QED BY <2>4, <2>5
<1>4. Apart'
  BY <1>1 DEF AppliedInv, Apart
<1>. QED BY <1>2, <1>3, <1>4 DEF AppliedInv

LEMMA AppliedBegin ==
    ASSUME AppliedInv, [Next]_vars, TypeOK', Overlap \subseteq {"confirm"},
           NEW r \in Request, NEW o \in Adjustment, NEW op, NEW d,
           Begin(r, op, o, d),
           op \in {"confirm", "cancel", "edit"},
           op = "confirm" => d = adj[o].diff,
           op = "edit" => d # NoChange
    PROVE  AppliedInv'
<1>. DEFINE t == [op |-> op, doc |-> o, row |-> adj[o],
                  ver |-> [c \in Cell |-> stock[c].version], diff |-> d]
<1>1. /\ req[r] = Idle /\ req'[r] = t
      /\ \A q \in Request \ {r} : req'[q] = req[q]
      /\ UNCHANGED <<stock, adj, applied>>
      /\ adj[o].status = "DRAFT"
      /\ \A q \in Request : req[q] # Idle /\ req[q].doc = o =>
             op = "confirm" /\ req[q].op = "confirm"
  BY DEF Begin, AppliedInv, TypeOK
<1>2. \A p \in Adjustment : DocFits(adj'[p], applied'[p])
  BY <1>1 DEF AppliedInv
<1>3. \A c \in Cell : stock[c].version \in Nat
  BY DEF AppliedInv, TypeOK, Row
<1>4. RequestFits(req'[r], adj'[req'[r].doc], stock')
  <2>1. RequestFits(t, adj[o], stock)
    BY <1>1, <1>3 DEF RequestFits
  <2>2. t.doc = o
    OBVIOUS
  <2>. HIDE DEF t
  <2>. QED BY <1>1, <2>1, <2>2
<1>5. \A q \in Request \ {r} :
          req'[q] # Idle => RequestFits(req'[q], adj'[req'[q].doc], stock')
  BY <1>1 DEF AppliedInv
<1>6. Apart'
  BY <1>1 DEF AppliedInv, Apart
<1>. QED BY <1>2, <1>4, <1>5, <1>6 DEF AppliedInv

LEMMA AppliedConfirm ==
    ASSUME AppliedInv, [Next]_vars, TypeOK', NEW r \in Request, ConfirmAdjustment(r)
    PROVE  AppliedInv'
<1>. DEFINE t == req[r]
            o == t.doc
<1>1. /\ t \in InFlight /\ t # Idle /\ o \in Adjustment /\ t.op = "confirm"
      /\ t.diff \in [Cell -> Int] /\ RequestFits(t, adj[o], stock)
      /\ DocFits(adj[o], applied[o])
  BY ActiveRequest DEF ConfirmAdjustment, AppliedInv, InFlight
<1>2. \A c \in Cell : t.diff[c] # 0 =>
          t.ver[c] = stock[c].version /\ stock'[c].version = stock[c].version + 1
  BY ConfirmRows, CountStepRow DEF AppliedInv, TypeOK
<1>3. /\ t.diff = adj[o].diff
      /\ adj[o].status \in {"DRAFT", "CONFIRMED"}
      /\ adj[o].status = "CONFIRMED" => \A c \in Cell : t.diff[c] # 0 => t.ver[c] # stock[c].version
  BY <1>1 DEF RequestFits
<1>4. t.diff # NoChange
  BY <1>1, <1>3 DEF DocFits
<1>5. adj[o].status = "DRAFT"
  BY <1>1, <1>2, <1>3, <1>4, SomeDifference
<1>6. /\ adj' = [adj EXCEPT ![o].status = "CONFIRMED"]
      /\ applied' = [applied EXCEPT ![o] = [c \in Cell |-> applied[o][c] + t.diff[c]]]
      /\ Done(r)
  BY DEF ConfirmAdjustment
<1>7. /\ adj'[o].status = "CONFIRMED" /\ adj'[o].diff = adj[o].diff
      /\ applied'[o] = [c \in Cell |-> applied[o][c] + t.diff[c]]
      /\ \A p \in Adjustment \ {o} : adj'[p] = adj[p] /\ applied'[p] = applied[p]
  BY <1>1, <1>6 DEF AppliedInv, TypeOK, DocRow
<1>8. applied'[o] = t.diff
  <2>1. applied[o] = NoChange
    BY <1>1, <1>5 DEF DocFits
  <2>2. \A c \in Cell : applied[o][c] + t.diff[c] = t.diff[c]
    BY <1>1, <2>1 DEF NoChange
  <2>. QED BY <1>1, <1>7, <2>2
<1>9. DocFits(adj'[o], applied'[o])
  BY <1>3, <1>4, <1>7, <1>8 DEF DocFits
<1>10. ASSUME NEW q \in Request \ {r}, req[q] # Idle, req[q].doc = o
       PROVE  RequestFits(req[q], adj'[o], stock')
  <2>1. /\ req[q].op = "confirm" /\ req[q] \in InFlight
        /\ RequestFits(req[q], adj[o], stock)
    BY <1>1, <1>10 DEF AppliedInv, Apart, TypeOK
  <2>2. req[q].diff = t.diff /\ req[q].ver \in [Cell -> Nat]
    BY <1>3, <1>10, <2>1 DEF RequestFits, InFlight
  <2>3. \A c \in Cell : /\ req[q].ver[c] <= stock[c].version
                        /\ stock[c].version \in Nat /\ stock'[c].version \in Nat
                        /\ stock[c].version <= stock'[c].version
    BY <2>1, VersionsGrow DEF RequestFits, AppliedInv
  <2>4. \A c \in Cell : /\ req[q].ver[c] <= stock'[c].version
                        /\ req[q].diff[c] # 0 => req[q].ver[c] # stock'[c].version
    BY <1>2, <2>2, <2>3
  <2>. QED BY <1>3, <1>7, <2>1, <2>2, <2>4 DEF RequestFits
<1>. HIDE DEF o
<1>. QED BY <1>1, <1>6, <1>7, <1>9, <1>10, AppliedStep

LEMMA AppliedNext ==
    ASSUME AppliedInv, [Next]_vars, Overlap \subseteq {"confirm"}
    PROVE  AppliedInv'
<1>0. TypeOK /\ TypeOK'
  BY NextType DEF AppliedInv
<1>1. ASSUME NEW q \in Request, req[q] # Idle, req'[q] = req[q],
             adj'[req[q].doc] = adj[req[q].doc]
      PROVE  RequestFits(req'[q], adj'[req'[q].doc], stock')
  <2>1. req[q] \in InFlight /\ RequestFits(req[q], adj[req[q].doc], stock)
    BY <1>0, <1>1 DEF TypeOK, AppliedInv
  <2>2. RequestFits(req[q], adj[req[q].doc], stock')
    BY <1>0, <2>1, RequestKept
  <2>. QED BY <1>1, <2>2
<1>2. CASE UNCHANGED <<adj, applied, req>>
  BY <1>0, <1>1, <1>2 DEF AppliedInv, Apart
<1>3. ASSUME NEW o \in Adjustment, CreateAdjustment(o) PROVE AppliedInv'
  <2>1. PICK d \in Counts :
          adj' = [adj EXCEPT ![o] = [status |-> "DRAFT", gen |-> 0, diff |-> d]]
    BY <1>3 DEF CreateAdjustment
  <2>2. /\ adj[o].status = "NONE" /\ adj'[o].status = "DRAFT" /\ adj'[o].diff # NoChange
        /\ \A p \in Adjustment \ {o} : adj'[p] = adj[p]
        /\ UNCHANGED <<applied, req>>
    BY <1>0, <1>3, <2>1, CountsType DEF CreateAdjustment, TypeOK
  <2>3. \A p \in Adjustment : DocFits(adj'[p], applied'[p])
    BY <2>2 DEF AppliedInv, DocFits
  <2>4. ASSUME NEW q \in Request, req[q] # Idle PROVE req[q].doc \in Adjustment \ {o}
    BY <1>0, <2>2, <2>4 DEF AppliedInv, RequestFits, TypeOK, InFlight
  <2>. QED BY <1>0, <1>1, <2>2, <2>3, <2>4 DEF AppliedInv, Apart
<1>4. ASSUME NEW r \in Request, NEW o \in Adjustment, Began(r, o) PROVE AppliedInv'
  BY <1>0, <1>4, AppliedBegin, CountsType DEF Began
<1>5. ASSUME NEW r \in Request, ConfirmAdjustment(r) PROVE AppliedInv'
  BY <1>0, <1>5, AppliedConfirm
<1>6. ASSUME NEW r \in Request, CancelAdjustment(r) \/ UpdateAdjustment(r) PROVE AppliedInv'
  <2>. DEFINE t == req[r]
              o == t.doc
  <2>1. t \in InFlight /\ t # Idle /\ o \in Adjustment /\ t.op \in {"cancel", "edit"}
    BY <1>0, <1>6, ActiveRequest DEF CancelAdjustment, UpdateAdjustment, InFlight
  <2>2. /\ adj[o] \in DocRow /\ adj[o].status = "DRAFT"
        /\ (t.op = "edit" => t.diff # NoChange) /\ DocFits(adj[o], applied[o])
    BY <1>0, <2>1 DEF AppliedInv, RequestFits, TypeOK
  <2>3. /\ UNCHANGED applied /\ Done(r)
        /\ \/ adj' = [adj EXCEPT ![o].status = "CANCELLED"]
           \/ /\ t.op = "edit"
              /\ adj' = [adj EXCEPT ![o].gen = adj[o].gen + 1, ![o].diff = t.diff]
    BY <1>6 DEF CancelAdjustment, UpdateAdjustment
  <2>. HIDE DEF t, o
  <2>4. \/ adj'[o].status = "CANCELLED" /\ adj'[o].diff = adj[o].diff
        \/ adj'[o].status = "DRAFT" /\ adj'[o].diff # NoChange
    BY <1>0, <2>1, <2>2, <2>3 DEF TypeOK, DocRow
  <2>5. \A p \in Adjustment \ {o} : adj'[p] = adj[p]
    BY <1>0, <2>1, <2>3 DEF TypeOK
  <2>6. DocFits(adj'[o], applied'[o])
    BY <2>2, <2>3, <2>4 DEF DocFits
  <2>7. \A q \in Request \ {r} : req[q] # Idle => req[q].doc # o
    BY <2>1 DEF AppliedInv, Apart, t, o
  <2>. QED BY <1>0, <2>1, <2>3, <2>5, <2>6, <2>7, AppliedStep
<1>7. ASSUME NEW r \in Request, Rollback(r) PROVE AppliedInv'
  <2>1. req[r] # Idle /\ req[r] \in InFlight /\ Done(r) /\ UNCHANGED <<adj, applied>>
    BY <1>0, <1>7 DEF Rollback, TypeOK
  <2>2. req[r].doc \in Adjustment
    BY <2>1 DEF InFlight
  <2>3. \A p \in Adjustment : DocFits(adj'[p], applied'[p])
    BY <2>1 DEF AppliedInv
  <2>. QED BY <1>0, <2>1, <2>2, <2>3, AppliedStep
<1>8. ASSUME NEW c \in Cell, NEW q \in 1 .. MaxOnHand, Supply(c, q) PROVE AppliedInv'
  BY <1>2, <1>8 DEF Supply
<1>9. CASE UNCHANGED vars
  BY <1>2, <1>9 DEF vars
<1>. QED BY <1>0, <1>3, <1>4, <1>5, <1>6, <1>7, <1>8, <1>9, NextCases

\* confirm_adjustment locks nothing and looks at no status when it writes; yet,
\* as long as only confirmations overlap, exactly the confirmed documents have
\* changed the stock, each once and by what its lines say.
THEOREM AdjustmentsAppliedOnce ==
    ASSUME Overlap \subseteq {"confirm"}
    PROVE  Spec => []AppliedOnce
<1>1. Init => AppliedInv
  BY InitType DEF Init, AppliedInv, DocFits, Apart
<1>2. AppliedInv /\ [Next]_vars => AppliedInv'
  BY AppliedNext
<1>3. AppliedInv => AppliedOnce
  BY DEF AppliedInv, DocFits, AppliedOnce, AppliedAsWritten, AppliedIffConfirmed, TypeOK, DocRow
<1>. QED BY <1>1, <1>2, <1>3, PTL DEF Spec
=============================================================================
