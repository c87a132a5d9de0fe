--------------------------- MODULE EInvoice_proofs --------------------------
(***************************************************************************)
(* Proofs about EInvoice, for any number of invoices and requests, any     *)
(* window and any limit of the scan.  The bound on the documents plays no  *)
(* part in them.                                                           *)
(***************************************************************************)
EXTENDS EInvoice, SequenceTheorems, TLAPS

Operations == {"submit", "refresh", "reject", "view"}

\* The disjuncts of Next, with what every Begin... checked on the rows it read.
Began(r, op, on, todo) ==
    /\ Begin(r, op, on, todo)
    /\ todo \subseteq on
    /\ r = Beat => op = "refresh"
    /\ op = "submit" => todo = on /\ \A i \in on : inv[i].status = "DRAFT"
    /\ op = "refresh" => \A i \in on : inv[i].status = "SUBMITTED"
    /\ op = "reject" => todo = on /\ \A i \in on : inv[i].status = "VALIDATED"
    /\ op = "view" => \A i \in on : Due(inv[i])

Reading ==
    \E r \in Slot, op \in Operations, on \in SUBSET Invoice, todo \in SUBSET Invoice :
        Began(r, op, on, todo)

LEMMA PendingType ==
    ASSUME TypeOK
    PROVE  Pending \subseteq Invoice /\ \A i \in Pending : inv[i].status = "SUBMITTED"
<1>1. \A n \in DOMAIN backlog : backlog[n] \in Invoice
  BY DEF TypeOK
<1>. QED BY <1>1 DEF Pending, Waiting

\* The shape of a step: the five Begin... actions are one.
LEMMA NextCases ==
    ASSUME TypeOK, [Next]_vars
    PROVE  \/ UNCHANGED vars
           \/ Reading
           \/ \E r \in Slot, i \in Invoice : Post(r, i) \/ Ask(r, i) \/ CallReject(r, i)
           \/ \E i \in Invoice : Skip(i)
           \/ \E i \in Invoice : \E n \in DOMAIN docs[i],
                                    status \in {"valid", "invalid", "unknown"} :
                 Verdict(i, n, status)
           \/ \E r \in Slot : \/ Submit(r)
                              \/ Refresh(r)
                              \/ Reject(r)
                              \/ View(r)
                              \/ Rollback(r)
           \/ FinalizeScan
           \/ Tick
<1>0. Request \subseteq Slot /\ Beat \in Slot /\ Beat \notin Request
  BY BeatAssumption DEF Slot
<1>1. ASSUME NEW r \in Request, NEW i \in Invoice, BeginSubmit(r, i)
      PROVE  Began(r, "submit", {i}, {i})
  BY <1>0, <1>1 DEF BeginSubmit, Began
<1>2. ASSUME NEW r \in Request, NEW i \in Invoice, BeginRefresh(r, i)
      PROVE  Began(r, "refresh", {i}, {i})
  BY <1>0, <1>2 DEF BeginRefresh, Began
<1>3. ASSUME NEW r \in Request, NEW i \in Invoice, BeginReject(r, i)
      PROVE  Began(r, "reject", {i}, {i})
  BY <1>0, <1>3 DEF BeginReject, Began
<1>4. ASSUME NEW r \in Request, NEW i \in Invoice, BeginView(r, i)
      PROVE  Began(r, "view", {i}, {})
  BY <1>0, <1>4 DEF BeginView, Began
<1>5. BeginScan => Began(Beat, "refresh", Pending, Pending)
  BY PendingType DEF BeginScan, Began
<1>6. Pending \in SUBSET Invoice
  BY PendingType
<1>7. ASSUME NEW r \in Request, NEW i \in Invoice,
             BeginSubmit(r, i) \/ BeginRefresh(r, i) \/ BeginReject(r, i) \/ BeginView(r, i)
      PROVE  Reading
  <2>1. r \in Slot /\ {i} \in SUBSET Invoice /\ {} \in SUBSET Invoice
    BY <1>0
  <2>2. \/ Began(r, "submit", {i}, {i}) \/ Began(r, "refresh", {i}, {i})
        \/ Began(r, "reject", {i}, {i}) \/ Began(r, "view", {i}, {})
    BY <1>1, <1>2, <1>3, <1>4, <1>7
  <2>. QED BY <2>1, <2>2 DEF Reading, Operations
<1>8. BeginScan => Reading
  BY <1>0, <1>5, <1>6 DEF Reading, Operations
<1>. QED BY <1>7, <1>8, Zenon DEF Next, Commit

-----------------------------------------------------------------------------
(* Documents *)

\* What may become of a document, and of the documents of an invoice: the
\* authority forgets none and takes no decision back, except that a valid one
\* may be rejected.
Settles(d, e) ==
    /\ d.age <= e.age
    /\ \/ d.status \in {e.status, "submitted"}
       \/ d.status = "valid" /\ e.status = "rejected"

Later(ds, es) ==
    /\ Len(ds) <= Len(es)
    /\ \A n \in 1 .. Len(ds) : Settles(ds[n], es[n])

LEMMA OlderAge ==
    ASSUME NEW age \in Age
    PROVE  /\ Older(age) \in Age /\ age <= Older(age)
           /\ \A b \in Age : b <= age => Older(b) <= Older(age)
  BY BoundsAssumption DEF Age, Older

LEMMA SameDocs ==
    ASSUME NEW ds \in Seq(Document)
    PROVE  Later(ds, ds)
<1>1. \A n \in 1 .. Len(ds) : ds[n] \in Document
  BY ElementOfSeq
<1>2. \A d \in Document : d.age <= d.age
  BY BoundsAssumption DEF Document, Age
<1>. QED BY <1>1, <1>2, LenProperties DEF Later, Settles

WithStatus(ds, n, status) == [ds EXCEPT ![n].status = status]

AllOlder(ds) ==
    [n \in DOMAIN ds |-> IF ds[n].status \in {"valid", "rejected"} THEN Aged(ds[n])
                         ELSE ds[n]]

LEMMA OneDocSettles ==
    ASSUME NEW ds \in Seq(Document), NEW n \in 1 .. Len(ds),
           NEW status \in {"submitted", "valid", "invalid", "rejected", "unknown"},
           ds[n].status = "submitted" \/ (ds[n].status \in {"valid", "rejected"}
                                             /\ status = "rejected")
    PROVE  LET es == WithStatus(ds, n, status)
           IN  /\ es \in Seq(Document) /\ Len(es) = Len(ds) /\ Later(ds, es)
               /\ es[n].status = status
<1>. DEFINE d == [ds[n] EXCEPT !.status = status]
            es == [ds EXCEPT ![n] = d]
<1>1. \A k \in 1 .. Len(ds) : ds[k] \in Document
  BY ElementOfSeq
<1>2. d \in Document /\ d.status = status /\ d.age = ds[n].age /\ ds[n].age \in Nat
  BY <1>1, BoundsAssumption DEF Document, Age
<1>3. WithStatus(ds, n, status) = es
  BY DEF WithStatus
<1>. HIDE DEF d
<1>4. /\ es \in Seq(Document) /\ Len(es) = Len(ds)
      /\ \A k \in 1 .. Len(ds) : es[k] = IF k = n THEN d ELSE ds[k]
  BY <1>2, ExceptSeq
<1>. HIDE DEF es
<1>5. \A k \in 1 .. Len(ds) : Settles(ds[k], ds[k])
  BY SameDocs DEF Later
<1>6. Settles(ds[n], d)
  BY <1>2 DEF Settles
<1>7. Len(ds) \in Nat
  BY LenProperties
<1>8. Later(ds, es)
  BY <1>4, <1>5, <1>6, <1>7 DEF Later
<1>. QED BY <1>2, <1>3, <1>4, <1>8

LEMMA OneDocMore ==
    ASSUME NEW ds \in Seq(Document), NEW d \in Document
    PROVE  /\ Append(ds, d) \in Seq(Document) /\ Len(Append(ds, d)) = Len(ds) + 1
           /\ Later(ds, Append(ds, d))
<1>1. /\ Append(ds, d) \in Seq(Document) /\ Len(Append(ds, d)) = Len(ds) + 1
      /\ Len(ds) \in Nat
      /\ \A n \in 1 .. Len(ds) : Append(ds, d)[n] = ds[n]
  BY LenProperties
<1>2. \A k \in 1 .. Len(ds) : Settles(ds[k], ds[k])
  BY SameDocs DEF Later
<1>. QED BY <1>1, <1>2 DEF Later

LEMMA AllDocsOlder ==
    ASSUME NEW ds \in Seq(Document)
    PROVE  LET es == AllOlder(ds)
           IN  /\ es \in Seq(Document) /\ Len(es) = Len(ds) /\ Later(ds, es)
               /\ \A n \in 1 .. Len(ds) :
                     /\ es[n].status = ds[n].status
                     /\ ds[n].status \in {"valid", "rejected"} =>
                           es[n].age = Older(ds[n].age)
<1>. DEFINE e(n) == IF ds[n].status \in {"valid", "rejected"} THEN Aged(ds[n]) ELSE ds[n]
            es == [n \in DOMAIN ds |-> e(n)]
<1>0. Len(ds) \in Nat /\ DOMAIN ds = 1 .. Len(ds)
  BY LenProperties
<1>1. \A n \in 1 .. Len(ds) : ds[n] \in Document
  BY ElementOfSeq
<1>2. \A n \in 1 .. Len(ds) :
         /\ e(n) \in Document /\ e(n).status = ds[n].status
         /\ ds[n].status \in {"valid", "rejected"} => e(n).age = Older(ds[n].age)
         /\ ds[n].age <= e(n).age
  <2>. TAKE n \in 1 .. Len(ds)
  <2>1. ds[n] \in Document /\ ds[n].age \in Age
    BY <1>1 DEF Document
  <2>2. Older(ds[n].age) \in Age /\ ds[n].age <= Older(ds[n].age) /\ ds[n].age <= ds[n].age
    BY <2>1, OlderAge, BoundsAssumption DEF Age
  <2>. QED BY <2>1, <2>2 DEF Aged, Document
<1>. HIDE DEF e
<1>3. es \in [1 .. Len(ds) -> Document] /\ \A n \in 1 .. Len(ds) : es[n] = e(n)
  BY <1>0, <1>2
<1>. HIDE DEF es
<1>4. es \in Seq(Document)
  BY <1>0, <1>3, SeqDef
<1>5. Len(es) = Len(ds)
  BY <1>0, <1>3, <1>4, LenProperties
<1>6. Later(ds, es)
  BY <1>0, <1>2, <1>3, <1>5 DEF Later, Settles
<1>. QED BY <1>2, <1>3, <1>4, <1>5, <1>6 DEF es, e, AllOlder

-----------------------------------------------------------------------------
(* Requests and types *)

\* A request works on what it read, the scan only refreshes, the documents it
\* names exist, and a refresh has heard nothing it cannot understand.
WellMade(r, t, ds) ==
    /\ t.todo \subseteq t.on
    /\ r = Beat => t.op = "refresh"
    /\ \A i \in Invoice : t.uin[i] <= Len(ds[i])
    /\ t.op = "refresh" => \A i \in Invoice : t.ans[i].status # "unknown"

TypeInv ==
    /\ TypeOK
    /\ \A i \in Invoice : inv[i].uin <= Len(docs[i])
    /\ \A r \in Slot : req[r] # Idle => WellMade(r, req[r], docs)

LEMMA ActiveRequest ==
    ASSUME TypeInv, NEW r \in Slot, req[r] # Idle
    PROVE  /\ req[r] \in InFlight /\ WellMade(r, req[r], docs)
           /\ req[r].op \in Operations /\ req[r].on \subseteq Invoice
           /\ req[r].todo \subseteq req[r].on
           /\ req[r].uin \in [Invoice -> 0 .. MaxDocs]
           /\ req[r].ans \in [Invoice -> Document \cup {NoAnswer}]
           /\ \A i \in Invoice : req[r].uin[i] \in Nat
<1>1. /\ req[r] \in InFlight /\ WellMade(r, req[r], docs)
      /\ req[r].uin \in [Invoice -> 0 .. MaxDocs]
  BY DEF TypeInv, TypeOK, InFlight
<1>2. \A i \in Invoice : req[r].uin[i] \in Nat
  BY <1>1, BoundsAssumption
<1>. QED BY <1>1, <1>2 DEF InFlight, Operations, WellMade

\* What a step of one request leaves of the requests.
Only(r, t) == /\ req' \in [Slot -> InFlight \cup {Idle}]
              /\ req'[r] = t /\ \A q \in Slot \ {r} : req'[q] = req[q]

LEMMA DoneReq ==
    ASSUME TypeInv, NEW r \in Slot, Done(r)
    PROVE  Only(r, Idle)
  BY DEF Done, Only, TypeInv, TypeOK

LEMMA BeginReq ==
    ASSUME TypeInv, NEW r \in Slot, NEW op \in Operations, NEW on \in SUBSET Invoice,
           NEW todo \in SUBSET Invoice, Begin(r, op, on, todo)
    PROVE  /\ Only(r, req'[r]) /\ req'[r] \in InFlight /\ req'[r] # Idle
           /\ req'[r].op = op /\ req'[r].on = on /\ req'[r].todo = todo
           /\ \A i \in Invoice : /\ req'[r].uin[i] = IF i \in on THEN inv[i].uin ELSE 0
                                 /\ req'[r].ans[i] = NoAnswer
           /\ UNCHANGED <<inv, backlog, docs>>
<1>. DEFINE t == [op |-> op, on |-> on, todo |-> todo,
                  uin |-> [i \in Invoice |-> IF i \in on THEN inv[i].uin ELSE 0],
                  ans |-> [i \in Invoice |-> NoAnswer], late |-> FALSE]
<1>1. \A i \in Invoice : inv[i].uin \in 0 .. MaxDocs
  BY DEF TypeInv, TypeOK, InvoiceRow
<1>2. [i \in Invoice |-> IF i \in on THEN inv[i].uin ELSE 0] \in [Invoice -> 0 .. MaxDocs]
  BY <1>1, BoundsAssumption
<1>3. t \in InFlight
  BY <1>2 DEF InFlight, Operations
<1>4. /\ t.op = op /\ t.on = on /\ t.todo = todo
      /\ \A i \in Invoice : /\ t.uin[i] = IF i \in on THEN inv[i].uin ELSE 0
                            /\ t.ans[i] = NoAnswer
  OBVIOUS
<1>5. req' = [req EXCEPT ![r] = t] /\ UNCHANGED <<inv, backlog, docs>>
  BY DEF Begin
<1>. HIDE DEF t
<1>6. Only(r, t)
  BY <1>3, <1>5 DEF Only, TypeInv, TypeOK
<1>7. t # Idle
  BY <1>4 DEF Idle, Operations
<1>. QED BY <1>3, <1>4, <1>5, <1>6, <1>7 DEF Only

LEMMA PostReq ==
    ASSUME TypeInv, NEW r \in Slot, NEW i \in Invoice, Post(r, i)
    PROVE  LET t == req[r]
               n == req'[r]
           IN  /\ t # Idle /\ t.op = "submit" /\ i \in t.todo /\ t.uin[i] = 0
               /\ Only(r, n) /\ n \in InFlight /\ n # Idle
               /\ n.op = t.op /\ n.on = t.on /\ n.todo = t.todo /\ n.ans = t.ans
               /\ \A j \in Invoice \ {i} : n.uin[j] = t.uin[j]
               /\ n.uin[i] = Len(docs[i]) + 1
               /\ docs' \in [Invoice -> Seq(Document)]
               /\ \A j \in Invoice : Later(docs[j], docs'[j])
               /\ Len(docs'[i]) = Len(docs[i]) + 1
               /\ UNCHANGED <<inv, backlog>>
<1>. DEFINE t == req[r]
            u == [t.uin EXCEPT ![i] = Len(docs[i]) + 1]
            n == [t EXCEPT !.uin = u]
            d == [status |-> "submitted", age |-> 0]
<1>1. t.op = "submit" /\ i \in t.todo /\ t.uin[i] = 0 /\ t # Idle
  BY DEF Post, Idle
<1>2. t \in InFlight /\ t.uin \in [Invoice -> 0 .. MaxDocs]
  BY <1>1, ActiveRequest
<1>3. docs[i] \in Seq(Document) /\ Len(docs[i]) \in Nat /\ Len(docs[i]) < MaxDocs
  BY LenProperties DEF TypeInv, TypeOK, Post
<1>4. /\ u \in [Invoice -> 0 .. MaxDocs] /\ u[i] = Len(docs[i]) + 1
      /\ \A j \in Invoice \ {i} : u[j] = t.uin[j]
  BY <1>2, <1>3, BoundsAssumption
<1>5. req' = [req EXCEPT ![r] = n]
  BY DEF Post
<1>6. /\ docs' = [docs EXCEPT ![i] = Append(docs[i], d)]
      /\ UNCHANGED <<inv, backlog>>
  BY DEF Post
<1>. HIDE DEF u
<1>7. /\ n \in InFlight /\ n.op = t.op /\ n.on = t.on /\ n.todo = t.todo /\ n.ans = t.ans
      /\ n.uin = u
  BY <1>2, <1>4 DEF InFlight
<1>8. d \in Document
  BY BoundsAssumption DEF Document, Age
<1>. HIDE DEF n, d
<1>9. Only(r, n)
  BY <1>5, <1>7 DEF Only, TypeInv, TypeOK
<1>10. /\ docs' \in [Invoice -> Seq(Document)]
       /\ docs'[i] = Append(docs[i], d) /\ \A j \in Invoice \ {i} : docs'[j] = docs[j]
  BY <1>3, <1>6, <1>8, OneDocMore DEF TypeInv, TypeOK
<1>11. \A j \in Invoice : docs[j] \in Seq(Document)
  BY DEF TypeInv, TypeOK
<1>12. /\ \A j \in Invoice : Later(docs[j], docs'[j])
       /\ Len(docs'[i]) = Len(docs[i]) + 1
  BY <1>8, <1>10, <1>11, OneDocMore, SameDocs
<1>13. n # Idle
  BY <1>1, <1>7 DEF Idle
<1>. QED BY <1>1, <1>4, <1>6, <1>7, <1>9, <1>10, <1>12, <1>13 DEF Only

LEMMA AskReq ==
    ASSUME TypeInv, NEW r \in Slot, NEW i \in Invoice, Ask(r, i)
    PROVE  LET t == req[r]
               n == req'[r]
               d == docs[i][t.uin[i]]
           IN  /\ t # Idle /\ i \in t.todo /\ t.op \in {"submit", "refresh"}
               /\ t.uin[i] \in 1 .. Len(docs[i]) /\ d \in Document
               /\ t.op = "refresh" => d.status # "unknown"
               /\ Only(r, n) /\ n \in InFlight /\ n # Idle
               /\ n.op = t.op /\ n.on = t.on /\ n.todo = t.todo \ {i} /\ n.uin = t.uin
               /\ \A j \in Invoice \ {i} : n.ans[j] = t.ans[j]
               /\ n.ans[i] \in Document
               /\ n.ans[i].status = d.status /\ n.ans[i].age <= d.age
               /\ UNCHANGED <<inv, backlog, docs>>
<1>. DEFINE t == req[r]
            d == docs[i][t.uin[i]]
<1>1. /\ t.op \in {"submit", "refresh"} /\ i \in t.todo /\ t.uin[i] # 0
      /\ t.op = "refresh" => d.status # "unknown"
      /\ t # Idle
  BY DEF Ask, Idle
<1>2. /\ t \in InFlight /\ t.uin \in [Invoice -> 0 .. MaxDocs] /\ t.todo \subseteq Invoice
      /\ t.ans \in [Invoice -> Document \cup {NoAnswer}]
      /\ t.uin[i] <= Len(docs[i])
  BY <1>1, ActiveRequest DEF WellMade
<1>3. docs[i] \in Seq(Document) /\ Len(docs[i]) \in Nat
  BY LenProperties DEF TypeInv, TypeOK
<1>4. t.uin[i] \in 1 .. Len(docs[i])
  BY <1>1, <1>2, <1>3, BoundsAssumption
<1>5. d \in Document /\ d.age \in Age /\ d.age \in Nat
  <2>1. d \in Document
    BY <1>3, <1>4, ElementOfSeq
  <2>. HIDE DEF d
  <2>. QED BY <2>1, BoundsAssumption DEF Document, Age
<1>6. PICK age \in {d.age, 0} :
         req' = [req EXCEPT ![r].todo = req[r].todo \ {i},
                            ![r].ans[i] = [status |-> d.status, age |-> age]]
  BY DEF Ask
<1>. DEFINE a == [status |-> d.status, age |-> age]
            b == [t.ans EXCEPT ![i] = a]
            n == [t EXCEPT !.todo = t.todo \ {i}, !.ans = b]
<1>7. a \in Document /\ a.status = d.status /\ a.age <= d.age
  BY <1>5, BoundsAssumption DEF Document, Age
<1>8. req' = [req EXCEPT ![r] = n]
  BY <1>6 DEF TypeInv, TypeOK
<1>. HIDE DEF a
<1>9. /\ b \in [Invoice -> Document \cup {NoAnswer}] /\ b[i] = a
      /\ \A j \in Invoice \ {i} : b[j] = t.ans[j]
  BY <1>2, <1>7
<1>. HIDE DEF b
<1>10. /\ n \in InFlight /\ n.op = t.op /\ n.on = t.on /\ n.todo = t.todo \ {i}
       /\ n.uin = t.uin /\ n.ans = b
  BY <1>2, <1>9 DEF InFlight
<1>. HIDE DEF n
<1>11. Only(r, n)
  BY <1>8, <1>10 DEF Only, TypeInv, TypeOK
<1>12. n # Idle
  BY <1>1, <1>10 DEF Idle
<1>13. UNCHANGED <<inv, backlog, docs>>
  BY DEF Ask
<1>. QED BY <1>1, <1>4, <1>5, <1>7, <1>9, <1>10, <1>11, <1>12, <1>13 DEF Only

\* A call that settles one invoice of a request and tells it nothing more.
LEMMA SettleReq ==
    ASSUME TypeInv, NEW r \in Slot, NEW i \in Invoice, req[r] # Idle,
           req' = [req EXCEPT ![r].todo = req[r].todo \ {i}]
    PROVE  LET t == req[r]
               n == req'[r]
           IN  /\ Only(r, n) /\ n \in InFlight /\ n # Idle
               /\ n.op = t.op /\ n.on = t.on /\ n.todo = t.todo \ {i}
               /\ n.uin = t.uin /\ n.ans = t.ans
<1>. DEFINE t == req[r]
            n == [t EXCEPT !.todo = t.todo \ {i}]
<1>1. t \in InFlight /\ t.todo \subseteq Invoice /\ t.op \in Operations
  BY ActiveRequest
<1>2. /\ n \in InFlight /\ n.op = t.op /\ n.on = t.on /\ n.todo = t.todo \ {i}
      /\ n.uin = t.uin /\ n.ans = t.ans
  BY <1>1 DEF InFlight
<1>3. req' = [req EXCEPT ![r] = n]
  OBVIOUS
<1>. HIDE DEF n
<1>4. Only(r, n)
  BY <1>2, <1>3 DEF Only, TypeInv, TypeOK
<1>5. n # Idle
  BY <1>1, <1>2 DEF Idle, Operations
<1>. QED BY <1>2, <1>4, <1>5 DEF Only


\* The buyer's rejection, and an authority that decides.
LEMMA RejectDocs ==
    ASSUME TypeInv, NEW r \in Slot, NEW i \in Invoice, CallReject(r, i)
    PROVE  /\ req[r] # Idle /\ req[r].op = "reject" /\ i \in req[r].todo
           /\ req' = [req EXCEPT ![r].todo = req[r].todo \ {i}]
           /\ docs' \in [Invoice -> Seq(Document)]
           /\ \A j \in Invoice : Later(docs[j], docs'[j]) /\ Len(docs'[j]) = Len(docs[j])
           /\ req[r].uin[i] \in 1 .. Len(docs[i]) =>
                 docs'[i][req[r].uin[i]].status = "rejected"
           /\ UNCHANGED <<inv, backlog>>
<1>. DEFINE n == req[r].uin[i]
            es == WithStatus(docs[i], n, "rejected")
<1>1. /\ req[r].op = "reject" /\ i \in req[r].todo /\ req[r] # Idle
      /\ docs[i][n].status \in {"valid", "rejected"}
      /\ docs' = [docs EXCEPT ![i] = es]
      /\ req' = [req EXCEPT ![r].todo = req[r].todo \ {i}]
      /\ UNCHANGED <<inv, backlog>>
  BY DEF CallReject, Idle, WithStatus
<1>2. \A j \in Invoice : docs[j] \in Seq(Document) /\ Later(docs[j], docs[j])
  BY SameDocs DEF TypeInv, TypeOK
<1>3. /\ es \in Seq(Document) /\ Later(docs[i], es) /\ Len(es) = Len(docs[i])
      /\ n \in 1 .. Len(docs[i]) => es[n].status = "rejected"
  <2>1. CASE n \in 1 .. Len(docs[i])
    BY <1>1, <1>2, <2>1, OneDocSettles
  <2>2. CASE n \notin 1 .. Len(docs[i])
    <3>1. DOMAIN docs[i] = 1 .. Len(docs[i]) /\ docs[i] \in [1 .. Len(docs[i]) -> Document]
      BY <1>2, LenProperties
    <3>2. es = docs[i]
      BY <2>2, <3>1 DEF WithStatus
    <3>. QED BY <1>2, <2>2, <3>2
  <2>. QED BY <2>1, <2>2
<1>. HIDE DEF es
<1>4. docs'[i] = es /\ \A j \in Invoice \ {i} : docs'[j] = docs[j]
  BY <1>1 DEF TypeInv, TypeOK
<1>5. docs' \in [Invoice -> Seq(Document)]
  BY <1>1, <1>3 DEF TypeInv, TypeOK
<1>. QED BY <1>1, <1>2, <1>3, <1>4, <1>5

LEMMA VerdictDocs ==
    ASSUME TypeInv, NEW i \in Invoice, NEW n \in DOMAIN docs[i],
           NEW status \in {"valid", "invalid", "unknown"}, Verdict(i, n, status)
    PROVE  /\ docs' \in [Invoice -> Seq(Document)]
           /\ \A j \in Invoice : Later(docs[j], docs'[j]) /\ Len(docs'[j]) = Len(docs[j])
           /\ UNCHANGED <<inv, backlog, req>>
<1>. DEFINE es == WithStatus(docs[i], n, status)
<1>1. /\ docs[i][n].status = "submitted"
      /\ docs' = [docs EXCEPT ![i] = es]
      /\ UNCHANGED <<inv, backlog, req>>
  BY DEF Verdict, WithStatus
<1>2. \A j \in Invoice : docs[j] \in Seq(Document) /\ Later(docs[j], docs[j])
  BY SameDocs DEF TypeInv, TypeOK
<1>3. n \in 1 .. Len(docs[i])
  BY <1>2, LenProperties
<1>4. /\ es \in Seq(Document) /\ Later(docs[i], es) /\ Len(es) = Len(docs[i])
  BY <1>1, <1>2, <1>3, OneDocSettles
<1>. HIDE DEF es
<1>5. docs'[i] = es /\ \A j \in Invoice \ {i} : docs'[j] = docs[j]
  BY <1>1 DEF TypeInv, TypeOK
<1>6. docs' \in [Invoice -> Seq(Document)]
  BY <1>1, <1>4 DEF TypeInv, TypeOK
<1>. QED BY <1>1, <1>2, <1>4, <1>5, <1>6

\* What time does to rows, documents and answers.
LEMMA TickAll ==
    ASSUME TypeInv, Tick
    PROVE  /\ inv' \in [Invoice -> InvoiceRow]
           /\ \A i \in Invoice :
                 /\ inv'[i].status = inv[i].status /\ inv'[i].uin = inv[i].uin
                 /\ inv'[i].by = inv[i].by
                 /\ inv[i].status = "VALIDATED" => inv'[i].age = Older(inv[i].age)
           /\ docs' \in [Invoice -> Seq(Document)]
           /\ \A i \in Invoice :
                 /\ Later(docs[i], docs'[i]) /\ Len(docs'[i]) = Len(docs[i])
                 /\ \A n \in 1 .. Len(docs[i]) :
                       /\ docs'[i][n].status = docs[i][n].status
                       /\ docs[i][n].status \in {"valid", "rejected"} =>
                             docs'[i][n].age = Older(docs[i][n].age)
           /\ req' \in [Slot -> InFlight \cup {Idle}]
           /\ \A r \in Slot : req[r] = Idle => req'[r] = Idle
           /\ \A r \in Slot : req[r] # Idle =>
                 /\ req'[r] # Idle
                 /\ req'[r].op = req[r].op /\ req'[r].on = req[r].on
                 /\ req'[r].todo = req[r].todo /\ req'[r].uin = req[r].uin
                 /\ \A i \in Invoice :
                       /\ req'[r].ans[i].status = req[r].ans[i].status
                       /\ req[r].ans[i].status = "valid" =>
                             req'[r].ans[i].age = Older(req[r].ans[i].age)
           /\ UNCHANGED backlog
<1>1. ASSUME NEW i \in Invoice
      PROVE  /\ inv'[i] \in InvoiceRow
             /\ inv'[i].status = inv[i].status /\ inv'[i].uin = inv[i].uin
             /\ inv'[i].by = inv[i].by
             /\ inv[i].status = "VALIDATED" => inv'[i].age = Older(inv[i].age)
  <2>1. inv[i] \in InvoiceRow /\ inv[i].age \in Age
    BY DEF TypeInv, TypeOK, InvoiceRow
  <2>2. Older(inv[i].age) \in Age
    BY <2>1, OlderAge
  <2>3. inv'[i] = IF inv[i].status = "VALIDATED" THEN Aged(inv[i]) ELSE inv[i]
    BY DEF Tick
  <2>4. /\ Aged(inv[i]) \in InvoiceRow /\ Aged(inv[i]).status = inv[i].status
        /\ Aged(inv[i]).uin = inv[i].uin /\ Aged(inv[i]).by = inv[i].by
        /\ Aged(inv[i]).age = Older(inv[i].age)
    BY <2>1, <2>2 DEF Aged, InvoiceRow
  <2>. QED BY <2>1, <2>3, <2>4
<1>2. inv' \in [Invoice -> InvoiceRow]
  BY <1>1 DEF Tick
<1>3. ASSUME NEW i \in Invoice
      PROVE  /\ docs'[i] \in Seq(Document)
             /\ Later(docs[i], docs'[i]) /\ Len(docs'[i]) = Len(docs[i])
             /\ \A n \in 1 .. Len(docs[i]) :
                   /\ docs'[i][n].status = docs[i][n].status
                   /\ docs[i][n].status \in {"valid", "rejected"} =>
                         docs'[i][n].age = Older(docs[i][n].age)
  <2>1. docs[i] \in Seq(Document)
    BY DEF TypeInv, TypeOK
  <2>2. docs'[i] = AllOlder(docs[i])
    BY DEF Tick, AllOlder
  <2>. QED BY <2>1, <2>2, AllDocsOlder
<1>4. docs' \in [Invoice -> Seq(Document)]
  BY <1>3 DEF Tick
<1>5. ASSUME NEW r \in Slot, req[r] # Idle
      PROVE  /\ req'[r] \in InFlight /\ req'[r] # Idle
             /\ req'[r].op = req[r].op /\ req'[r].on = req[r].on
             /\ req'[r].todo = req[r].todo /\ req'[r].uin = req[r].uin
             /\ \A i \in Invoice :
                   /\ req'[r].ans[i].status = req[r].ans[i].status
                   /\ req[r].ans[i].status = "valid" =>
                         req'[r].ans[i].age = Older(req[r].ans[i].age)
  <2>. DEFINE t == req[r]
              b == [i \in Invoice |-> IF t.ans[i].status = "valid" THEN Aged(t.ans[i])
                                      ELSE t.ans[i]]
              n == [t EXCEPT !.late = TRUE, !.ans = b]
  <2>1. /\ t \in InFlight /\ t.op \in Operations
        /\ t.ans \in [Invoice -> Document \cup {NoAnswer}]
    BY <1>5, ActiveRequest
  <2>2. ASSUME NEW i \in Invoice
        PROVE  /\ b[i] \in Document \cup {NoAnswer}
               /\ b[i].status = t.ans[i].status
               /\ t.ans[i].status = "valid" => b[i].age = Older(t.ans[i].age)
    <3>1. CASE t.ans[i].status = "valid"
      <4>1. t.ans[i] \in Document /\ t.ans[i].age \in Age
        BY <2>1, <3>1 DEF Document, NoAnswer
      <4>2. Older(t.ans[i].age) \in Age
        BY <4>1, OlderAge
      <4>3. b[i] = Aged(t.ans[i])
        BY <3>1
      <4>4. /\ Aged(t.ans[i]) \in Document /\ Aged(t.ans[i]).status = t.ans[i].status
            /\ Aged(t.ans[i]).age = Older(t.ans[i].age)
        BY <4>1, <4>2 DEF Aged, Document
      <4>. HIDE DEF b, t
      <4>. QED BY <4>3, <4>4
    <3>2. CASE t.ans[i].status # "valid"
      BY <2>1, <3>2
    <3>. QED BY <3>1, <3>2
  <2>3. req'[r] = n
    BY <1>5 DEF Tick
  <2>4. b \in [Invoice -> Document \cup {NoAnswer}]
    BY <2>2
  <2>. HIDE DEF b
  <2>5. /\ n \in InFlight /\ n.op = t.op /\ n.on = t.on /\ n.todo = t.todo
        /\ n.uin = t.uin /\ n.ans = b
    BY <2>1, <2>4 DEF InFlight
  <2>6. n # Idle
    BY <2>1, <2>5 DEF Idle, Operations
  <2>. HIDE DEF n
  <2>. QED BY <2>2, <2>3, <2>5, <2>6
<1>6. \A r \in Slot : req[r] = Idle => req'[r] = Idle
  BY DEF Tick
<1>7. req' \in [Slot -> InFlight \cup {Idle}]
  BY <1>5, <1>6 DEF Tick
<1>8. UNCHANGED backlog
  BY DEF Tick
<1>. QED BY <1>1, <1>2, <1>3, <1>4, <1>5, <1>6, <1>7, <1>8


\* What a submission and a refresh make of a row.
LEMMA AfterSubmitRow ==
    ASSUME NEW row \in InvoiceRow, NEW uin \in 0 .. MaxDocs,
           NEW ans \in Document \cup {NoAnswer}
    PROVE  LET n == AfterSubmit(row, uin, ans)
           IN  /\ n \in InvoiceRow /\ n.uin = uin /\ n.by = row.by
               /\ n.status \in {"SUBMITTED", "VALIDATED"}
               /\ n.status = "VALIDATED" => ans.status = "valid" /\ n.age = ans.age
<1>1. ans.status = "valid" => ans.age \in Age
  BY DEF Document, NoAnswer
<1>2. 0 \in Age
  BY BoundsAssumption DEF Age
<1>. QED BY <1>1, <1>2 DEF AfterSubmit, InvoiceRow, Status

LEMMA AfterRefreshRow ==
    ASSUME NEW row \in InvoiceRow, NEW ans \in Document \cup {NoAnswer},
           ans.status # "unknown"
    PROVE  LET n == AfterRefresh(row, ans)
           IN  /\ n \in InvoiceRow /\ n.uin = row.uin
               /\ \/ n = row
                  \/ /\ n.status = "VALIDATED" /\ n.by = row.by
                     /\ ans.status = "valid" /\ n.age = ans.age
                  \/ /\ n.status = "REJECTED" /\ n.by = "LHDN"
                     /\ ans.status \in {"invalid", "rejected"}
<1>1. CASE ans.status \in {"none", "submitted"}
  BY <1>1 DEF AfterRefresh, InvoiceRow
<1>2. CASE ans.status = "valid"
  <2>1. ans.age \in Age
    BY <1>2 DEF Document, NoAnswer
  <2>2. AfterRefresh(row, ans) = [row EXCEPT !.status = "VALIDATED", !.age = ans.age]
    BY <1>2 DEF AfterRefresh
  <2>. QED BY <1>2, <2>1, <2>2 DEF InvoiceRow, Status
<1>3. CASE ans.status \in {"invalid", "rejected"}
  <2>1. AfterRefresh(row, ans) = [row EXCEPT !.status = "REJECTED", !.by = "LHDN"]
    BY <1>3 DEF AfterRefresh
  <2>. QED BY <1>3, <2>1 DEF InvoiceRow, Status
<1>4. ans.status \in {"none", "submitted", "valid", "invalid", "rejected"}
  BY DEF Document, NoAnswer
<1>. QED BY <1>1, <1>2, <1>3, <1>4

LEMMA SubmitRows ==
    ASSUME TypeInv, NEW r \in Slot, Submit(r)
    PROVE  /\ req[r] # Idle /\ req[r].op = "submit" /\ req[r].todo = {}
           /\ Done(r) /\ UNCHANGED docs
           /\ backlog' \in Seq(Invoice)
           /\ inv' \in [Invoice -> InvoiceRow]
           /\ \E i \in req[r].on :
                 /\ i \in Invoice
                 /\ inv'[i] = AfterSubmit(inv[i], req[r].uin[i], req[r].ans[i])
                 /\ \A j \in Invoice \ {i} : inv'[j] = inv[j]
<1>1. req[r] # Idle /\ req[r].op = "submit" /\ req[r].todo = {} /\ Done(r) /\ UNCHANGED docs
  BY DEF Submit, Idle
<1>2. /\ req[r].on \subseteq Invoice /\ req[r].uin \in [Invoice -> 0 .. MaxDocs]
      /\ req[r].ans \in [Invoice -> Document \cup {NoAnswer}]
  BY <1>1, ActiveRequest
<1>3. PICK i \in req[r].on :
         /\ inv' = [inv EXCEPT ![i] = AfterSubmit(inv[i], req[r].uin[i], req[r].ans[i])]
         /\ backlog' = IF inv'[i].status = "SUBMITTED" THEN Append(backlog, i) ELSE backlog
  BY DEF Submit
<1>4. i \in Invoice /\ inv \in [Invoice -> InvoiceRow] /\ backlog \in Seq(Invoice)
  BY <1>2 DEF TypeInv, TypeOK
<1>5. AfterSubmit(inv[i], req[r].uin[i], req[r].ans[i]) \in InvoiceRow
  BY <1>2, <1>4, AfterSubmitRow
<1>6. inv' \in [Invoice -> InvoiceRow] /\ backlog' \in Seq(Invoice)
  BY <1>3, <1>4, <1>5
<1>. QED BY <1>1, <1>3, <1>4, <1>6

LEMMA RefreshRows ==
    ASSUME TypeInv, NEW r \in Slot, Refresh(r)
    PROVE  /\ req[r] # Idle /\ req[r].op = "refresh"
           /\ Done(r) /\ UNCHANGED <<docs, backlog>>
           /\ inv' \in [Invoice -> InvoiceRow]
           /\ \A i \in Invoice :
                 /\ inv'[i].uin = inv[i].uin
                 /\ i \notin req[r].on => inv'[i] = inv[i]
                 /\ \/ inv'[i] = inv[i]
                    \/ /\ inv'[i].status = "VALIDATED" /\ inv'[i].by = inv[i].by
                       /\ req[r].ans[i].status = "valid"
                       /\ inv'[i].age = req[r].ans[i].age
                    \/ /\ inv'[i].status = "REJECTED" /\ inv'[i].by = "LHDN"
                       /\ req[r].ans[i].status \in {"invalid", "rejected"}
<1>1. /\ req[r] # Idle /\ req[r].op = "refresh" /\ Done(r)
      /\ UNCHANGED <<docs, backlog>>
      /\ inv' = [i \in Invoice |-> IF i \in req[r].on THEN AfterRefresh(inv[i], req[r].ans[i])
                                   ELSE inv[i]]
  BY DEF Refresh, Idle
<1>2. /\ req[r].ans \in [Invoice -> Document \cup {NoAnswer}]
      /\ \A i \in Invoice : req[r].ans[i].status # "unknown"
      /\ inv \in [Invoice -> InvoiceRow]
  BY <1>1, ActiveRequest DEF WellMade, TypeInv, TypeOK
<1>3. ASSUME NEW i \in Invoice
      PROVE  /\ inv'[i] \in InvoiceRow /\ inv'[i].uin = inv[i].uin
             /\ i \notin req[r].on => inv'[i] = inv[i]
             /\ \/ inv'[i] = inv[i]
                \/ /\ inv'[i].status = "VALIDATED" /\ inv'[i].by = inv[i].by
                   /\ req[r].ans[i].status = "valid"
                   /\ inv'[i].age = req[r].ans[i].age
                \/ /\ inv'[i].status = "REJECTED" /\ inv'[i].by = "LHDN"
                   /\ req[r].ans[i].status \in {"invalid", "rejected"}
  <2>1. inv'[i] = IF i \in req[r].on THEN AfterRefresh(inv[i], req[r].ans[i]) ELSE inv[i]
    BY <1>1
  <2>. QED BY <1>2, <2>1, AfterRefreshRow
<1>. QED BY <1>1, <1>3

LEMMA RejectRows ==
    ASSUME TypeInv, NEW r \in Slot, Reject(r)
    PROVE  /\ req[r] # Idle /\ req[r].op = "reject" /\ req[r].todo = {}
           /\ Done(r) /\ UNCHANGED <<docs, backlog>>
           /\ inv' \in [Invoice -> InvoiceRow]
           /\ \A i \in Invoice :
                 /\ inv'[i].uin = inv[i].uin
                 /\ \/ inv'[i] = inv[i]
                    \/ /\ i \in req[r].on
                       /\ inv'[i].status = "REJECTED" /\ inv'[i].by = "BUYER"
<1>1. /\ req[r].op = "reject" /\ req[r].todo = {} /\ Done(r)
      /\ UNCHANGED <<docs, backlog>>
  BY Zenon DEF Reject
<1>0. req[r] # Idle
  BY <1>1 DEF Idle
<1>2. inv' = [i \in Invoice |->
                 IF i \in req[r].on THEN [inv[i] EXCEPT !.status = "REJECTED", !.by = "BUYER"]
                 ELSE inv[i]]
  BY Zenon DEF Reject
<1>3. inv \in [Invoice -> InvoiceRow]
  BY DEF TypeInv, TypeOK
<1>. QED BY ZenonT(40), <1>0, <1>1, <1>2, <1>3 DEF InvoiceRow, Status

LEMMA ViewRows ==
    ASSUME TypeInv, NEW r \in Slot, View(r)
    PROVE  /\ req[r] # Idle /\ req[r].op = "view"
           /\ Done(r) /\ UNCHANGED <<docs, backlog>>
           /\ inv' \in [Invoice -> InvoiceRow]
           /\ \A i \in Invoice :
                 /\ inv'[i].uin = inv[i].uin
                 /\ \/ inv'[i] = inv[i]
                    \/ /\ i \in req[r].on
                       /\ inv'[i].status = "FINAL" /\ inv'[i].by = inv[i].by
<1>1. /\ req[r] # Idle /\ req[r].op = "view" /\ Done(r) /\ UNCHANGED <<docs, backlog>>
      /\ inv' = [i \in Invoice |-> IF i \in req[r].on THEN [inv[i] EXCEPT !.status = "FINAL"]
                                   ELSE inv[i]]
  BY DEF View, Idle
<1>2. inv \in [Invoice -> InvoiceRow]
  BY DEF TypeInv, TypeOK
<1>. QED BY <1>1, <1>2 DEF InvoiceRow, Status

LEMMA FinalizeRows ==
    ASSUME TypeInv, FinalizeScan
    PROVE  /\ inv' \in [Invoice -> InvoiceRow] /\ UNCHANGED <<docs, backlog, req>>
           /\ \A i \in Invoice :
                 /\ inv'[i].uin = inv[i].uin
                 /\ \/ inv'[i] = inv[i]
                    \/ Due(inv[i]) /\ inv'[i].status = "FINAL" /\ inv'[i].by = inv[i].by
<1>1. /\ UNCHANGED <<docs, backlog, req>>
      /\ inv' = [i \in Invoice |-> IF Due(inv[i]) THEN [inv[i] EXCEPT !.status = "FINAL"]
                                   ELSE inv[i]]
  BY DEF FinalizeScan
<1>2. inv \in [Invoice -> InvoiceRow]
  BY DEF TypeInv, TypeOK
<1>. QED BY <1>1, <1>2 DEF InvoiceRow, Status

LEMMA InitType == Init => TypeInv
<1>. SUFFICES ASSUME Init PROVE TypeInv
  OBVIOUS
<1>1. [status |-> "DRAFT", uin |-> 0, age |-> 0, by |-> "nobody"] \in InvoiceRow
  BY BoundsAssumption DEF InvoiceRow, Status, Age
<1>2. TypeOK
  BY <1>1, EmptySeq DEF Init, TypeOK
<1>3. \A i \in Invoice : inv[i].uin = 0 /\ Len(docs[i]) = 0
  BY EmptySeq DEF Init
<1>4. \A r \in Slot : req[r] = Idle
  BY DEF Init
<1>. QED BY <1>2, <1>3, <1>4 DEF TypeInv

\* A step that leaves the rows' documents and its own request in order.
LEMMA TypeKept ==
    ASSUME TypeInv, inv' \in [Invoice -> InvoiceRow], backlog' \in Seq(Invoice),
           docs' \in [Invoice -> Seq(Document)],
           \A i \in Invoice : inv'[i].uin <= Len(docs'[i]) /\ Len(docs[i]) <= Len(docs'[i]),
           NEW r \in Slot, Only(r, req'[r]),
           req'[r] = Idle \/ WellMade(r, req'[r], docs')
    PROVE  TypeInv'
<1>1. \A i \in Invoice : Len(docs[i]) \in Nat /\ Len(docs'[i]) \in Nat
  BY LenProperties DEF TypeInv, TypeOK
<1>2. ASSUME NEW q \in Slot, req'[q] # Idle
      PROVE  WellMade(q, req'[q], docs')
  <2>1. CASE q = r
    BY <1>2, <2>1
  <2>2. CASE q # r
    <3>1. req'[q] = req[q] /\ req[q] # Idle
      BY <1>2, <2>2 DEF Only
    <3>2. WellMade(q, req[q], docs) /\ \A i \in Invoice : req[q].uin[i] \in Nat
      BY <3>1, ActiveRequest
    <3>3. \A i \in Invoice : req[q].uin[i] <= Len(docs[i])
      BY <3>2 DEF WellMade
    <3>4. \A i \in Invoice : req[q].uin[i] <= Len(docs'[i])
      BY <1>1, <3>2, <3>3
    <3>. QED BY <3>1, <3>2, <3>4 DEF WellMade
  <2>. QED BY <2>1, <2>2
<1>3. TypeOK'
  BY DEF Only, TypeOK
<1>. QED BY <1>2, <1>3 DEF TypeInv

LEMMA NextType == TypeInv /\ [Next]_vars => TypeInv'
<1>. SUFFICES ASSUME TypeInv, [Next]_vars PROVE TypeInv'
  OBVIOUS
<1>0. /\ inv \in [Invoice -> InvoiceRow] /\ backlog \in Seq(Invoice)
      /\ docs \in [Invoice -> Seq(Document)]
      /\ \A i \in Invoice : /\ inv[i].uin <= Len(docs[i]) /\ Len(docs[i]) <= Len(docs[i])
                            /\ Len(docs[i]) \in Nat /\ inv[i].uin \in Nat
  <2>1. \A i \in Invoice : Len(docs[i]) \in Nat
    BY LenProperties DEF TypeInv, TypeOK
  <2>. QED BY <2>1, BoundsAssumption DEF TypeInv, TypeOK, InvoiceRow
<1>1. CASE UNCHANGED vars
  BY <1>1 DEF vars, TypeInv, TypeOK
<1>2. CASE Reading
  <2>1. PICK r \in Slot, op \in Operations, on \in SUBSET Invoice, todo \in SUBSET Invoice :
                Began(r, op, on, todo)
    BY <1>2, Zenon DEF Reading
  <2>2. Begin(r, op, on, todo) /\ todo \subseteq on /\ (r = Beat => op = "refresh")
    BY <2>1 DEF Began
  <2>3. /\ Only(r, req'[r])
        /\ req'[r].op = op /\ req'[r].on = on /\ req'[r].todo = todo
        /\ \A i \in Invoice : /\ req'[r].uin[i] = IF i \in on THEN inv[i].uin ELSE 0
                              /\ req'[r].ans[i] = NoAnswer
        /\ UNCHANGED <<inv, backlog, docs>>
    BY <2>2, BeginReq
  <2>4. WellMade(r, req'[r], docs')
    <3>1. \A i \in Invoice : req'[r].uin[i] <= Len(docs'[i])
      BY <1>0, <2>3
    <3>2. \A i \in Invoice : req'[r].ans[i].status # "unknown"
      BY <2>3 DEF NoAnswer
    <3>. QED BY <2>2, <2>3, <3>1, <3>2 DEF WellMade
  <2>. QED BY <1>0, <2>3, <2>4, TypeKept
<1>3. ASSUME NEW r \in Slot, NEW i \in Invoice, Post(r, i) PROVE TypeInv'
  <2>1. /\ req[r] # Idle /\ req[r].op = "submit"
        /\ Only(r, req'[r])
        /\ req'[r].op = req[r].op /\ req'[r].on = req[r].on /\ req'[r].todo = req[r].todo
        /\ \A j \in Invoice \ {i} : req'[r].uin[j] = req[r].uin[j]
        /\ req'[r].uin[i] = Len(docs[i]) + 1
        /\ docs' \in [Invoice -> Seq(Document)]
        /\ \A j \in Invoice : Later(docs[j], docs'[j])
        /\ Len(docs'[i]) = Len(docs[i]) + 1
        /\ UNCHANGED <<inv, backlog>>
    BY <1>3, PostReq
  <2>2. /\ WellMade(r, req[r], docs)
        /\ \A j \in Invoice : req[r].uin[j] \in Nat /\ req[r].uin[j] <= Len(docs[j])
    BY <2>1, ActiveRequest DEF WellMade
  <2>3. \A j \in Invoice : Len(docs'[j]) \in Nat /\ Len(docs[j]) <= Len(docs'[j])
    BY <2>1, LenProperties DEF Later
  <2>4. \A j \in Invoice : req'[r].uin[j] <= Len(docs'[j])
    <3>1. req'[r].uin[i] <= Len(docs'[i])
      BY <2>1, <2>3
    <3>2. ASSUME NEW j \in Invoice \ {i} PROVE req'[r].uin[j] <= Len(docs'[j])
      <4>1. req'[r].uin[j] = req[r].uin[j]
        BY <2>1
      <4>2. req[r].uin[j] \in Nat /\ req[r].uin[j] <= Len(docs[j])
        BY <2>2
      <4>3. Len(docs[j]) \in Nat /\ Len(docs'[j]) \in Nat /\ Len(docs[j]) <= Len(docs'[j])
        BY <1>0, <2>3
      <4>. QED BY <4>1, <4>2, <4>3
    <3>. QED BY <3>1, <3>2
  <2>5. WellMade(r, req'[r], docs')
    BY <2>1, <2>2, <2>4 DEF WellMade
  <2>6. \A j \in Invoice : inv[j].uin <= Len(docs'[j])
    BY <1>0, <2>3
  <2>. QED BY <1>0, <2>1, <2>3, <2>5, <2>6, TypeKept
<1>4. ASSUME NEW r \in Slot, NEW i \in Invoice, Ask(r, i) PROVE TypeInv'
  <2>1. /\ req[r] # Idle /\ Only(r, req'[r])
        /\ req[r].op = "refresh" => docs[i][req[r].uin[i]].status # "unknown"
        /\ req'[r].op = req[r].op /\ req'[r].on = req[r].on
        /\ req'[r].todo = req[r].todo \ {i} /\ req'[r].uin = req[r].uin
        /\ \A j \in Invoice \ {i} : req'[r].ans[j] = req[r].ans[j]
        /\ req'[r].ans[i].status = docs[i][req[r].uin[i]].status
        /\ UNCHANGED <<inv, backlog, docs>>
    BY <1>4, AskReq
  <2>2. WellMade(r, req[r], docs)
    BY <2>1, ActiveRequest
  <2>3. WellMade(r, req'[r], docs')
    BY <2>1, <2>2 DEF WellMade
  <2>. QED BY <1>0, <2>1, <2>3, TypeKept
<1>5. ASSUME NEW r \in Slot, NEW i \in Invoice, CallReject(r, i) PROVE TypeInv'
  <2>1. /\ req[r] # Idle /\ req' = [req EXCEPT ![r].todo = req[r].todo \ {i}]
        /\ docs' \in [Invoice -> Seq(Document)]
        /\ \A j \in Invoice : Len(docs'[j]) = Len(docs[j])
        /\ UNCHANGED <<inv, backlog>>
    BY <1>5, RejectDocs
  <2>2. /\ Only(r, req'[r])
        /\ req'[r].op = req[r].op /\ req'[r].on = req[r].on
        /\ req'[r].todo = req[r].todo \ {i} /\ req'[r].uin = req[r].uin
        /\ req'[r].ans = req[r].ans
    BY <2>1, SettleReq
  <2>3. WellMade(r, req'[r], docs')
    BY <2>1, <2>2, ActiveRequest DEF WellMade
  <2>. QED BY <1>0, <2>1, <2>2, <2>3, TypeKept
<1>6. ASSUME NEW i \in Invoice, Skip(i) PROVE TypeInv'
  <2>1. /\ Beat \in Slot /\ req[Beat] # Idle
        /\ req' = [req EXCEPT ![Beat].todo = req[Beat].todo \ {i}]
        /\ UNCHANGED <<inv, backlog, docs>>
    BY <1>6 DEF Skip, Slot
  <2>2. /\ Only(Beat, req'[Beat])
        /\ req'[Beat].op = req[Beat].op /\ req'[Beat].on = req[Beat].on
        /\ req'[Beat].todo = req[Beat].todo \ {i} /\ req'[Beat].uin = req[Beat].uin
        /\ req'[Beat].ans = req[Beat].ans
    BY <2>1, SettleReq
  <2>3. WellMade(Beat, req'[Beat], docs')
    BY <2>1, <2>2, ActiveRequest DEF WellMade
  <2>. QED BY <1>0, <2>1, <2>2, <2>3, TypeKept
<1>7. ASSUME NEW i \in Invoice, NEW n \in DOMAIN docs[i],
             NEW status \in {"valid", "invalid", "unknown"}, Verdict(i, n, status)
      PROVE  TypeInv'
  <2>1. /\ docs' \in [Invoice -> Seq(Document)]
        /\ \A j \in Invoice : Len(docs'[j]) = Len(docs[j])
        /\ UNCHANGED <<inv, backlog, req>>
    BY <1>7, VerdictDocs
  <2>. QED BY <1>0, <2>1 DEF TypeInv, TypeOK, WellMade
<1>8. ASSUME NEW r \in Slot, Submit(r) PROVE TypeInv'
  <2>1. /\ req[r] # Idle /\ Only(r, Idle) /\ UNCHANGED docs /\ backlog' \in Seq(Invoice)
        /\ inv' \in [Invoice -> InvoiceRow]
    BY <1>8, SubmitRows, DoneReq
  <2>2. PICK i \in req[r].on :
           /\ i \in Invoice
           /\ inv'[i] = AfterSubmit(inv[i], req[r].uin[i], req[r].ans[i])
           /\ \A j \in Invoice \ {i} : inv'[j] = inv[j]
    BY <1>8, SubmitRows
  <2>3. /\ req[r].uin[i] \in 0 .. MaxDocs /\ req[r].ans[i] \in Document \cup {NoAnswer}
        /\ req[r].uin[i] <= Len(docs[i])
    BY <2>1, <2>2, ActiveRequest DEF WellMade
  <2>4. inv'[i].uin = req[r].uin[i]
    BY <1>0, <2>2, <2>3, AfterSubmitRow
  <2>5. \A j \in Invoice : inv'[j].uin <= Len(docs'[j])
    BY <1>0, <2>1, <2>2, <2>3, <2>4
  <2>6. Only(r, req'[r]) /\ req'[r] = Idle
    BY <2>1 DEF Only
  <2>. QED BY <1>0, <2>1, <2>5, <2>6, TypeKept
<1>9. ASSUME NEW r \in Slot, Refresh(r) \/ Reject(r) \/ View(r) \/ Rollback(r)
      PROVE  TypeInv'
  <2>1. /\ Done(r) /\ UNCHANGED <<docs, backlog>>
        /\ inv' \in [Invoice -> InvoiceRow] /\ \A i \in Invoice : inv'[i].uin = inv[i].uin
    BY <1>0, <1>9, RefreshRows, RejectRows, ViewRows DEF Rollback
  <2>2. Only(r, req'[r]) /\ req'[r] = Idle
    BY <2>1, DoneReq DEF Only
  <2>. QED BY <1>0, <2>1, <2>2, TypeKept
<1>10. ASSUME FinalizeScan PROVE TypeInv'
  <2>1. /\ inv' \in [Invoice -> InvoiceRow] /\ UNCHANGED <<docs, backlog, req>>
        /\ \A i \in Invoice : inv'[i].uin = inv[i].uin
    BY <1>10, FinalizeRows
  <2>. QED BY <1>0, <2>1 DEF TypeInv, TypeOK, WellMade
<1>11. ASSUME Tick PROVE TypeInv'
  <2>1. /\ inv' \in [Invoice -> InvoiceRow] /\ docs' \in [Invoice -> Seq(Document)]
        /\ \A i \in Invoice : inv'[i].uin = inv[i].uin /\ Len(docs'[i]) = Len(docs[i])
        /\ req' \in [Slot -> InFlight \cup {Idle}]
        /\ \A r \in Slot : req[r] = Idle => req'[r] = Idle
        /\ \A r \in Slot : req[r] # Idle =>
              /\ req'[r].op = req[r].op /\ req'[r].on = req[r].on
              /\ req'[r].todo = req[r].todo /\ req'[r].uin = req[r].uin
              /\ \A i \in Invoice : req'[r].ans[i].status = req[r].ans[i].status
        /\ UNCHANGED backlog
    BY <1>11, TickAll
  <2>2. \A r \in Slot : req'[r] # Idle => WellMade(r, req'[r], docs')
    <3>. SUFFICES ASSUME NEW r \in Slot, req'[r] # Idle
                  PROVE  WellMade(r, req'[r], docs')
      OBVIOUS
    <3>1. req[r] # Idle /\ WellMade(r, req[r], docs)
      BY <2>1 DEF TypeInv
    <3>2. /\ req'[r].op = req[r].op /\ req'[r].on = req[r].on
          /\ req'[r].todo = req[r].todo /\ req'[r].uin = req[r].uin
          /\ \A i \in Invoice : req'[r].ans[i].status = req[r].ans[i].status
      BY <2>1, <3>1
    <3>3. \A i \in Invoice : Len(docs'[i]) = Len(docs[i])
      BY <2>1
    <3>. QED BY <3>1, <3>2, <3>3 DEF WellMade
  <2>. QED BY <1>0, <2>1, <2>2 DEF TypeInv, TypeOK
<1>12. TypeOK
  BY DEF TypeInv
<1>. QED BY <1>1, <1>2, <1>3, <1>4, <1>5, <1>6, <1>7, <1>8, <1>9, <1>10, <1>11, <1>12,
            NextCases

\* However requests, scans, verdicts and the clock interleave, invoices,
\* documents and answers stay well formed: no request writes an answer it
\* cannot understand, or a UIN the authority never gave.
THEOREM TypeCorrect == Spec => []TypeOK
<1>1. TypeInv => TypeOK
  BY DEF TypeInv
<1>. QED BY <1>1, InitType, NextType, PTL DEF Spec

-----------------------------------------------------------------------------
(* Rows, answers and documents agree, when submissions of an invoice do not
   overlap with anything *)

\* A row says no more than the authority decided about the document it names,
\* and never makes a validation older than it is.
RowFits(row, ds) ==
    /\ row.uin <= Len(ds)
    /\ row.status # "DRAFT" => row.uin # 0
    /\ row.status \in {"VALIDATED", "FINAL"} =>
          ds[row.uin].status \in {"valid", "rejected"}
    /\ row.status = "VALIDATED" => row.age <= ds[row.uin].age
    /\ row.status = "FINAL" => ds[row.uin].age > Window
    /\ row.status = "REJECTED" /\ row.by = "LHDN" =>
          ds[row.uin].status \in {"invalid", "rejected"}
    /\ row.status = "REJECTED" /\ row.by = "BUYER" =>
          ds[row.uin].status = "rejected"

\* Likewise an answer that was heard: it may be outdated, but not wrong.
AnswerFits(ans, d) ==
    /\ ans.status = "valid" => d.status \in {"valid", "rejected"} /\ ans.age <= d.age
    /\ ans.status = "invalid" => d.status = "invalid"
    /\ ans.status = "rejected" => d.status = "rejected"

\* A request but for a submission is about the document that its rows still
\* name; what it is about to write holds of that document.
RequestFits(t, i, row, ds) ==
    /\ t.op # "submit" => row.status # "DRAFT" /\ t.uin[i] = row.uin
    /\ t.op # "submit" \/ i \notin t.todo => t.uin[i] # 0
    /\ t.ans[i].status # "none" => t.uin[i] # 0 /\ AnswerFits(t.ans[i], ds[t.uin[i]])
    /\ t.op = "view" => /\ ds[t.uin[i]].status \in {"valid", "rejected"}
                        /\ ds[t.uin[i]].age > Window
    /\ t.op = "reject" /\ i \notin t.todo => ds[t.uin[i]].status = "rejected"

\* Two requests on one invoice are of the kinds that may overlap.
Apart ==
    \A q, r \in Slot :
        q # r /\ req[q] # Idle /\ req[r] # Idle /\ req[q].on \cap req[r].on # {} =>
            req[q].op \in Overlap

LifeInv ==
    /\ TypeInv
    /\ Apart
    /\ \A i \in Invoice : RowFits(inv[i], docs[i])
    /\ \A r \in Slot : req[r] # Idle =>
          \A i \in req[r].on : RequestFits(req[r], i, inv[i], docs[i])

\* Documents that move on keep rows and requests true, and so do requests that
\* change another column of a row than its UIN.
LEMMA RowKept ==
    ASSUME NEW row \in InvoiceRow, NEW ds \in Seq(Document), NEW es \in Seq(Document),
           RowFits(row, ds), Later(ds, es)
    PROVE  RowFits(row, es)
<1>1. Len(ds) \in Nat /\ Len(es) \in Nat /\ row.uin \in Nat /\ Len(ds) <= Len(es)
  BY LenProperties, BoundsAssumption DEF InvoiceRow, Later
<1>2. row.uin <= Len(es) /\ (row.status # "DRAFT" => row.uin # 0)
  BY <1>1 DEF RowFits
<1>3. CASE row.status = "DRAFT"
  BY <1>2, <1>3 DEF RowFits
<1>4. CASE row.status # "DRAFT"
  <2>. DEFINE d == ds[row.uin]
              e == es[row.uin]
  <2>1. row.uin \in 1 .. Len(ds) /\ row.uin \in 1 .. Len(es)
    BY <1>1, <1>4 DEF RowFits
  <2>2. d \in Document /\ e \in Document /\ Settles(d, e)
    BY <2>1, ElementOfSeq DEF Later
  <2>3. d.age \in Nat /\ e.age \in Nat /\ row.age \in Nat /\ d.age <= e.age
    BY <2>2, BoundsAssumption DEF Document, InvoiceRow, Age, Settles
  <2>4. /\ row.status \in {"VALIDATED", "FINAL"} => d.status \in {"valid", "rejected"}
        /\ row.status = "VALIDATED" => row.age <= d.age
        /\ row.status = "FINAL" => d.age > Window
        /\ row.status = "REJECTED" /\ row.by = "LHDN" => d.status \in {"invalid", "rejected"}
        /\ row.status = "REJECTED" /\ row.by = "BUYER" => d.status = "rejected"
    BY DEF RowFits
  <2>5. /\ d.status \in {"valid", "rejected"} => e.status \in {"valid", "rejected"}
        /\ d.status \in {"invalid", "rejected"} => e.status = d.status
    BY <2>2 DEF Settles
  <2>. HIDE DEF d
  <2>6. /\ row.status \in {"VALIDATED", "FINAL"} => e.status \in {"valid", "rejected"}
        /\ row.status = "VALIDATED" => row.age <= e.age
        /\ row.status = "FINAL" => e.age > Window
        /\ row.status = "REJECTED" /\ row.by = "LHDN" => e.status \in {"invalid", "rejected"}
        /\ row.status = "REJECTED" /\ row.by = "BUYER" => e.status = "rejected"
    BY <2>3, <2>4, <2>5, BoundsAssumption
  <2>. QED BY <1>2, <2>6 DEF RowFits
<1>. QED BY <1>3, <1>4

LEMMA AnswerKept ==
    ASSUME NEW ans \in Document \cup {NoAnswer}, NEW d \in Document, NEW e \in Document,
           AnswerFits(ans, d), Settles(d, e)
    PROVE  AnswerFits(ans, e)
<1>1. d.age \in Nat /\ e.age \in Nat /\ ans.age \in Nat
  BY BoundsAssumption DEF Document, Age, NoAnswer
<1>. QED BY <1>1 DEF AnswerFits, Settles

LEMMA RequestKept ==
    ASSUME NEW t \in InFlight, NEW i \in Invoice, NEW row, NEW new,
           NEW ds \in Seq(Document), NEW es \in Seq(Document),
           t.uin[i] <= Len(ds), RequestFits(t, i, row, ds), Later(ds, es),
           \/ new = row
           \/ new.uin = row.uin /\ new.status # "DRAFT"
    PROVE  RequestFits(t, i, new, es)
<1>1. Len(ds) \in Nat /\ Len(es) \in Nat /\ t.uin[i] \in Nat /\ Len(ds) <= Len(es)
  BY LenProperties, BoundsAssumption DEF InFlight, Later
<1>2. t.ans[i] \in Document \cup {NoAnswer} /\ t.op \in Operations
  BY DEF InFlight, Operations
<1>3. /\ t.op # "submit" => new.status # "DRAFT" /\ t.uin[i] = new.uin
      /\ t.op # "submit" \/ i \notin t.todo => t.uin[i] # 0
  BY DEF RequestFits
<1>4. ASSUME NEW d, NEW e, t.uin[i] # 0, d = ds[t.uin[i]], e = es[t.uin[i]]
      PROVE  /\ d \in Document /\ e \in Document /\ Settles(d, e)
             /\ d.age \in Nat /\ e.age \in Nat /\ d.age <= e.age
             /\ d.status \in {"valid", "rejected"} => e.status \in {"valid", "rejected"}
             /\ d.status = "rejected" => e.status = "rejected"
  <2>1. t.uin[i] \in 1 .. Len(ds) /\ t.uin[i] \in 1 .. Len(es)
    BY <1>1, <1>4
  <2>2. d \in Document /\ e \in Document /\ Settles(d, e)
    BY <1>4, <2>1, ElementOfSeq DEF Later
  <2>3. d.age \in Nat /\ e.age \in Nat /\ d.age <= e.age
    BY <2>2, BoundsAssumption DEF Document, Age, Settles
  <2>. QED BY <2>2, <2>3 DEF Settles
<1>. DEFINE d == ds[t.uin[i]]
            e == es[t.uin[i]]
<1>5. t.uin[i] # 0 => /\ d \in Document /\ e \in Document /\ Settles(d, e)
                      /\ d.age \in Nat /\ e.age \in Nat /\ d.age <= e.age
                      /\ d.status \in {"valid", "rejected"} => e.status \in {"valid", "rejected"}
                      /\ d.status = "rejected" => e.status = "rejected"
  BY <1>4
<1>6. /\ t.ans[i].status # "none" => t.uin[i] # 0 /\ AnswerFits(t.ans[i], d)
      /\ t.op = "view" => d.status \in {"valid", "rejected"} /\ d.age > Window
      /\ t.op = "reject" /\ i \notin t.todo => d.status = "rejected"
  BY DEF RequestFits
<1>. HIDE DEF d, e
<1>7. t.ans[i].status # "none" => t.uin[i] # 0 /\ AnswerFits(t.ans[i], e)
  BY <1>2, <1>5, <1>6, AnswerKept
<1>8. t.op = "view" => e.status \in {"valid", "rejected"} /\ e.age > Window
  BY <1>3, <1>5, <1>6, BoundsAssumption
<1>9. t.op = "reject" /\ i \notin t.todo => e.status = "rejected"
  BY <1>3, <1>5, <1>6
<1>. QED BY <1>3, <1>7, <1>8, <1>9 DEF RequestFits, e


\* A step after which every request in flight was there before, on the same
\* invoices, or ends.
Continues ==
    \A q \in Slot : \/ req'[q] = Idle
                    \/ req[q] # Idle /\ req'[q].op = req[q].op /\ req'[q].on = req[q].on

LEMMA ApartKept ==
    ASSUME Apart, Continues
    PROVE  Apart'
  BY DEF Apart, Continues

\* A step that reads or calls: one request changes, the rows do not, and the
\* documents move on.
LEMMA LifeReading ==
    ASSUME LifeInv, TypeInv', Apart', UNCHANGED inv, NEW r \in Slot, Only(r, req'[r]),
           \A i \in Invoice : Later(docs[i], docs'[i]),
           req'[r] # Idle =>
               \A i \in req'[r].on : RequestFits(req'[r], i, inv[i], docs'[i])
    PROVE  LifeInv'
<1>0. \A i \in Invoice : /\ inv[i] \in InvoiceRow /\ docs[i] \in Seq(Document)
                         /\ docs'[i] \in Seq(Document)
  BY DEF LifeInv, TypeInv, TypeOK
<1>1. \A i \in Invoice : RowFits(inv'[i], docs'[i])
  BY <1>0, RowKept DEF LifeInv
<1>2. ASSUME NEW q \in Slot \ {r}, req'[q] # Idle, NEW i \in req'[q].on
      PROVE  RequestFits(req'[q], i, inv'[i], docs'[i])
  <2>1. req'[q] = req[q] /\ req[q] # Idle /\ i \in req[q].on
    BY <1>2 DEF Only
  <2>2. req[q] \in InFlight /\ i \in Invoice /\ req[q].uin[i] <= Len(docs[i])
    BY <2>1, ActiveRequest DEF LifeInv, WellMade
  <2>3. RequestFits(req[q], i, inv[i], docs[i])
    BY <2>1 DEF LifeInv
  <2>. QED BY <1>0, <2>1, <2>2, <2>3, RequestKept
<1>. QED BY <1>1, <1>2 DEF LifeInv

\* A step that writes rows: the documents stay, and whoever is still at work on
\* a row that was written finds its UIN there as it was.
LEMMA LifeWriting ==
    ASSUME LifeInv, TypeInv', UNCHANGED docs,
           \A q \in Slot : req'[q] = Idle \/ req'[q] = req[q],
           \A i \in Invoice : inv'[i] = inv[i] \/ RowFits(inv'[i], docs[i]),
           \A i \in Invoice :
              \/ inv'[i] = inv[i]
              \/ inv'[i].uin = inv[i].uin /\ inv'[i].status # "DRAFT"
              \/ \A q \in Slot : req'[q] # Idle => i \notin req'[q].on
    PROVE  LifeInv'
<1>0. \A i \in Invoice : docs[i] \in Seq(Document) /\ Later(docs[i], docs[i])
  BY SameDocs DEF LifeInv, TypeInv, TypeOK
<1>1. \A i \in Invoice : RowFits(inv'[i], docs'[i])
  BY DEF LifeInv
<1>2. ASSUME NEW q \in Slot, req'[q] # Idle, NEW i \in req'[q].on
      PROVE  RequestFits(req'[q], i, inv'[i], docs'[i])
  <2>1. req'[q] = req[q] /\ req[q] # Idle /\ i \in req[q].on
    BY <1>2
  <2>2. req[q] \in InFlight /\ i \in Invoice /\ req[q].uin[i] <= Len(docs[i])
    BY <2>1, ActiveRequest DEF LifeInv, WellMade
  <2>3. RequestFits(req[q], i, inv[i], docs[i])
    BY <2>1 DEF LifeInv
  <2>4. \/ inv'[i] = inv[i]
        \/ inv'[i].uin = inv[i].uin /\ inv'[i].status # "DRAFT"
    BY <1>2, <2>2
  <2>. QED BY <1>0, <2>1, <2>2, <2>3, <2>4, RequestKept
<1>3. Apart'
  BY ApartKept DEF Continues, LifeInv
<1>. QED BY <1>1, <1>2, <1>3 DEF LifeInv

LEMMA LifeInit == Init => LifeInv
<1>. SUFFICES ASSUME Init PROVE LifeInv
  OBVIOUS
<1>1. \A r \in Slot : req[r] = Idle
  BY DEF Init
<1>2. \A i \in Invoice : inv[i].status = "DRAFT" /\ inv[i].uin <= Len(docs[i])
  BY InitType DEF Init, TypeInv
<1>. QED BY <1>1, <1>2, InitType DEF LifeInv, Apart, RowFits

\* What a request reads holds of the documents its rows name.
LEMMA LifeBegin ==
    ASSUME LifeInv, TypeInv', Reading
    PROVE  LifeInv'
<1>1. PICK r \in Slot, op \in Operations, on \in SUBSET Invoice, todo \in SUBSET Invoice :
              Began(r, op, on, todo)
  BY Zenon DEF Reading
<1>2. /\ Begin(r, op, on, todo)
      /\ op = "submit" => todo = on
      /\ op = "refresh" => \A i \in on : inv[i].status = "SUBMITTED"
      /\ op = "reject" => todo = on /\ \A i \in on : inv[i].status = "VALIDATED"
      /\ op = "view" => \A i \in on : Due(inv[i])
  BY <1>1 DEF Began
<1>3. /\ Only(r, req'[r]) /\ req'[r] # Idle
      /\ req'[r].op = op /\ req'[r].on = on /\ req'[r].todo = todo
      /\ \A i \in Invoice : /\ req'[r].uin[i] = IF i \in on THEN inv[i].uin ELSE 0
                            /\ req'[r].ans[i] = NoAnswer
      /\ UNCHANGED <<inv, backlog, docs>>
  BY <1>2, BeginReq DEF LifeInv
<1>4. Apart'
  <2>1. \A q \in Slot : req[q] # Idle /\ req[q].on \cap on # {} =>
                            op \in Overlap /\ req[q].op \in Overlap
    BY <1>2 DEF Begin
  <2>. QED BY <1>3, <2>1 DEF LifeInv, Apart, Only
<1>5. ASSUME NEW i \in on
      PROVE  RequestFits(req'[r], i, inv[i], docs'[i])
  <2>1. /\ i \in Invoice /\ req'[r].uin[i] = inv[i].uin /\ req'[r].ans[i].status = "none"
        /\ RowFits(inv[i], docs[i]) /\ docs' = docs
    BY <1>3 DEF NoAnswer, LifeInv
  <2>2. inv[i].age \in Nat
    BY <2>1, BoundsAssumption DEF LifeInv, TypeInv, TypeOK, InvoiceRow, Age
  <2>3. CASE op = "submit"
    BY <1>2, <1>3, <2>1, <2>3 DEF RequestFits
  <2>4. CASE op = "refresh"
    <3>1. inv[i].status = "SUBMITTED"
      BY <1>2, <2>4
    <3>. QED BY <1>3, <2>1, <2>4, <3>1 DEF RequestFits, RowFits
  <2>5. CASE op = "reject"
    <3>1. inv[i].status = "VALIDATED" /\ i \in todo
      BY <1>2, <2>5
    <3>. QED BY <1>3, <2>1, <2>5, <3>1 DEF RequestFits, RowFits
  <2>6. CASE op = "view"
    <3>1. inv[i].status = "VALIDATED" /\ inv[i].age > Window
      BY <1>2, <2>6 DEF Due
    <3>2. /\ inv[i].uin # 0 /\ docs[i][inv[i].uin].status \in {"valid", "rejected"}
          /\ inv[i].age <= docs[i][inv[i].uin].age
      BY <2>1, <3>1 DEF RowFits
    <3>3. docs[i][inv[i].uin].age \in Nat
      <4>1. inv[i].uin \in 1 .. Len(docs[i]) /\ docs[i] \in Seq(Document)
        BY <2>1, <3>2, LenProperties, BoundsAssumption DEF RowFits, LifeInv, TypeInv, TypeOK,
           InvoiceRow
      <4>2. docs[i][inv[i].uin] \in Document
        BY <4>1, ElementOfSeq
      <4>. QED BY <4>2, BoundsAssumption DEF Document, Age
    <3>4. docs[i][inv[i].uin].age > Window
      BY <2>2, <3>1, <3>2, <3>3, BoundsAssumption
    <3>. QED BY <1>3, <2>1, <2>6, <3>1, <3>2, <3>4 DEF RequestFits
  <2>. QED BY <2>3, <2>4, <2>5, <2>6 DEF Operations
<1>6. \A i \in Invoice : Later(docs[i], docs'[i])
  BY <1>3, SameDocs DEF LifeInv, TypeInv, TypeOK
<1>. QED BY <1>3, <1>4, <1>5, <1>6, LifeReading


\* A submission learns the UIN of its document; every request learns at most
\* what the authority says of the document it asks about.
LEMMA LifePost ==
    ASSUME LifeInv, TypeInv', NEW r \in Slot, NEW i \in Invoice, Post(r, i)
    PROVE  LifeInv'
<1>. DEFINE t == req[r]
            n == req'[r]
<1>1. /\ t # Idle /\ t.op = "submit" /\ i \in t.todo /\ t.uin[i] = 0
      /\ Only(r, n) /\ n \in InFlight /\ n # Idle
      /\ n.op = t.op /\ n.on = t.on /\ n.todo = t.todo /\ n.ans = t.ans
      /\ \A j \in Invoice \ {i} : n.uin[j] = t.uin[j]
      /\ n.uin[i] = Len(docs[i]) + 1
      /\ \A j \in Invoice : Later(docs[j], docs'[j])
      /\ docs' \in [Invoice -> Seq(Document)]
      /\ UNCHANGED <<inv, backlog>>
  BY PostReq DEF LifeInv
<1>2. Apart'
  BY <1>1, ApartKept DEF LifeInv, Continues, Only
<1>3. t \in InFlight /\ t.on \subseteq Invoice /\ WellMade(r, t, docs)
  BY <1>1, ActiveRequest DEF LifeInv
<1>4. \A j \in Invoice : docs[j] \in Seq(Document) /\ docs'[j] \in Seq(Document)
  BY <1>1 DEF LifeInv, TypeInv, TypeOK
<1>5. ASSUME NEW j \in t.on
      PROVE  RequestFits(n, j, inv[j], docs'[j])
  <2>1. j \in Invoice /\ RequestFits(t, j, inv[j], docs[j])
    BY <1>1, <1>3 DEF LifeInv
  <2>2. CASE j = i
    <3>1. t.ans[i].status = "none" /\ n.uin[i] # 0
      <4>1. t.ans[i].status = "none"
        BY <1>1, <2>1, <2>2 DEF RequestFits
      <4>2. Len(docs[i]) \in Nat
        BY <1>4, LenProperties
      <4>. QED BY <1>1, <4>1, <4>2
    <3>. QED BY <1>1, <2>2, <3>1 DEF RequestFits
  <2>3. CASE j # i
    <3>1. n.uin[j] = t.uin[j] /\ t.uin[j] <= Len(docs[j])
      BY <1>1, <1>3, <2>1, <2>3 DEF WellMade
    <3>2. RequestFits(t, j, inv[j], docs'[j])
      BY <1>1, <1>3, <1>4, <2>1, <3>1, RequestKept
    <3>. QED BY <1>1, <3>1, <3>2 DEF RequestFits
  <2>. QED BY <2>2, <2>3
<1>. QED BY <1>1, <1>2, <1>5, LifeReading

LEMMA LifeAsk ==
    ASSUME LifeInv, TypeInv', NEW r \in Slot, NEW i \in Invoice, Ask(r, i)
    PROVE  LifeInv'
<1>. DEFINE t == req[r]
            n == req'[r]
            d == docs[i][t.uin[i]]
<1>1. /\ t # Idle /\ i \in t.todo /\ t.op \in {"submit", "refresh"}
      /\ t.uin[i] \in 1 .. Len(docs[i])
      /\ Only(r, n) /\ n # Idle
      /\ n.op = t.op /\ n.on = t.on /\ n.todo = t.todo \ {i} /\ n.uin = t.uin
      /\ \A j \in Invoice \ {i} : n.ans[j] = t.ans[j]
      /\ n.ans[i].status = d.status /\ n.ans[i].age <= d.age
      /\ UNCHANGED <<inv, backlog, docs>>
  BY AskReq DEF LifeInv
<1>2. Apart'
  BY <1>1, ApartKept DEF LifeInv, Continues, Only
<1>3. t.on \subseteq Invoice
  BY <1>1, ActiveRequest DEF LifeInv
<1>4. \A j \in Invoice : Later(docs[j], docs'[j])
  BY <1>1, SameDocs DEF LifeInv, TypeInv, TypeOK
<1>5. ASSUME NEW j \in t.on
      PROVE  RequestFits(n, j, inv[j], docs'[j])
  <2>1. j \in Invoice /\ RequestFits(t, j, inv[j], docs[j]) /\ docs' = docs
    BY <1>1, <1>3 DEF LifeInv
  <2>2. CASE j = i
    <3>1. AnswerFits(n.ans[i], d) /\ t.uin[i] # 0
      BY <1>1 DEF AnswerFits
    <3>. HIDE DEF t, n
    <3>. QED BY <1>1, <2>1, <2>2, <3>1 DEF RequestFits
  <2>3. CASE j # i
    BY <1>1, <2>1, <2>3 DEF RequestFits
  <2>. QED BY <2>2, <2>3
<1>. QED BY <1>1, <1>2, <1>4, <1>5, LifeReading

\* An invoice that the scan passes over keeps what was known of it.
LEMMA LifeSkip ==
    ASSUME LifeInv, TypeInv', NEW i \in Invoice, Skip(i)
    PROVE  LifeInv'
<1>. DEFINE t == req[Beat]
            n == req'[Beat]
<1>1. /\ Beat \in Slot /\ t # Idle /\ req' = [req EXCEPT ![Beat].todo = t.todo \ {i}]
      /\ UNCHANGED <<inv, backlog, docs>>
  BY DEF Skip, Slot
<1>2. /\ Only(Beat, n) /\ n # Idle
      /\ n.op = t.op /\ n.on = t.on /\ n.todo = t.todo \ {i}
      /\ n.uin = t.uin /\ n.ans = t.ans
  BY <1>1, SettleReq DEF LifeInv
<1>3. Apart'
  BY <1>1, <1>2, ApartKept DEF LifeInv, Continues, Only
<1>4. t.on \subseteq Invoice /\ t.op = "refresh"
  BY <1>1, ActiveRequest DEF LifeInv, WellMade
<1>5. \A j \in Invoice : Later(docs[j], docs'[j])
  BY <1>1, SameDocs DEF LifeInv, TypeInv, TypeOK
<1>6. ASSUME NEW j \in t.on
      PROVE  RequestFits(n, j, inv[j], docs'[j])
  <2>1. RequestFits(t, j, inv[j], docs[j]) /\ docs' = docs
    BY <1>1 DEF LifeInv
  <2>. QED BY <1>2, <1>4, <2>1 DEF RequestFits
<1>. QED BY <1>1, <1>2, <1>3, <1>5, <1>6, LifeReading

\* The buyer's rejection reaches the document that the row names.
LEMMA LifeCallReject ==
    ASSUME LifeInv, TypeInv', NEW r \in Slot, NEW i \in Invoice, CallReject(r, i)
    PROVE  LifeInv'
<1>. DEFINE t == req[r]
            n == req'[r]
<1>1. /\ t # Idle /\ t.op = "reject" /\ i \in t.todo
      /\ req' = [req EXCEPT ![r].todo = t.todo \ {i}]
      /\ docs' \in [Invoice -> Seq(Document)]
      /\ \A j \in Invoice : Later(docs[j], docs'[j])
      /\ t.uin[i] \in 1 .. Len(docs[i]) => docs'[i][t.uin[i]].status = "rejected"
      /\ UNCHANGED <<inv, backlog>>
  BY RejectDocs DEF LifeInv
<1>2. /\ Only(r, n) /\ n # Idle
      /\ n.op = t.op /\ n.on = t.on /\ n.todo = t.todo \ {i}
      /\ n.uin = t.uin /\ n.ans = t.ans
  BY <1>1, SettleReq DEF LifeInv
<1>3. Apart'
  BY <1>1, <1>2, ApartKept DEF LifeInv, Continues, Only
<1>4. /\ t \in InFlight /\ t.on \subseteq Invoice /\ WellMade(r, t, docs)
      /\ \A j \in Invoice : t.uin[j] \in Nat
  BY <1>1, ActiveRequest DEF LifeInv
<1>5. \A j \in Invoice : docs[j] \in Seq(Document) /\ docs'[j] \in Seq(Document)
  BY <1>1 DEF LifeInv, TypeInv, TypeOK
<1>6. ASSUME NEW j \in t.on
      PROVE  RequestFits(n, j, inv[j], docs'[j])
  <2>1. /\ j \in Invoice /\ RequestFits(t, j, inv[j], docs[j]) /\ t.uin[j] <= Len(docs[j])
    BY <1>1, <1>4 DEF LifeInv, WellMade
  <2>2. RequestFits(t, j, inv[j], docs'[j])
    BY <1>1, <1>4, <1>5, <2>1, RequestKept
  <2>3. CASE j = i
    <3>1. t.uin[i] # 0 /\ Len(docs[i]) \in Nat
      BY <1>1, <1>5, <2>1, <2>3, LenProperties DEF RequestFits
    <3>2. t.uin[i] \in 1 .. Len(docs[i])
      BY <1>4, <2>1, <2>3, <3>1
    <3>3. docs'[j][t.uin[j]].status = "rejected"
      BY <1>1, <2>3, <3>2
    <3>. QED BY <1>1, <1>2, <2>2, <3>3 DEF RequestFits
  <2>4. CASE j # i
    BY <1>1, <1>2, <2>2, <2>4 DEF RequestFits
  <2>. QED BY <2>3, <2>4
<1>. QED BY <1>1, <1>2, <1>3, <1>6, LifeReading

LEMMA LifeVerdict ==
    ASSUME LifeInv, TypeInv', NEW i \in Invoice, NEW n \in DOMAIN docs[i],
           NEW status \in {"valid", "invalid", "unknown"}, Verdict(i, n, status)
    PROVE  LifeInv'
<1>1. /\ docs' \in [Invoice -> Seq(Document)]
      /\ \A j \in Invoice : Later(docs[j], docs'[j])
      /\ UNCHANGED <<inv, backlog, req>>
  BY VerdictDocs DEF LifeInv
<1>2. \A j \in Invoice : /\ docs[j] \in Seq(Document) /\ docs'[j] \in Seq(Document)
                         /\ inv[j] \in InvoiceRow
  BY <1>1 DEF LifeInv, TypeInv, TypeOK
<1>3. \A j \in Invoice : RowFits(inv'[j], docs'[j])
  BY <1>1, <1>2, RowKept DEF LifeInv
<1>4. ASSUME NEW q \in Slot, req[q] # Idle, NEW j \in req[q].on
      PROVE  RequestFits(req[q], j, inv[j], docs'[j])
  <2>1. req[q] \in InFlight /\ j \in Invoice /\ req[q].uin[j] <= Len(docs[j])
    BY <1>4, ActiveRequest DEF LifeInv, WellMade
  <2>2. RequestFits(req[q], j, inv[j], docs[j])
    BY <1>4 DEF LifeInv
  <2>. QED BY <1>1, <1>2, <2>1, <2>2, RequestKept
<1>5. Apart'
  BY <1>1 DEF LifeInv, Apart
<1>. QED BY <1>1, <1>3, <1>4, <1>5 DEF LifeInv


\* A submission is alone with its invoice and writes what it heard.
LEMMA LifeSubmit ==
    ASSUME LifeInv, TypeInv', "submit" \notin Overlap, NEW r \in Slot, Submit(r)
    PROVE  LifeInv'
<1>. DEFINE t == req[r]
<1>0. TypeInv
  BY DEF LifeInv
<1>1. t # Idle /\ t.op = "submit" /\ t.todo = {} /\ Done(r) /\ UNCHANGED docs
  BY <1>0, SubmitRows
<1>2. PICK i \in t.on : /\ i \in Invoice
                        /\ inv'[i] = AfterSubmit(inv[i], t.uin[i], t.ans[i])
                        /\ \A j \in Invoice \ {i} : inv'[j] = inv[j]
  BY <1>0, SubmitRows
<1>3. req'[r] = Idle /\ \A q \in Slot \ {r} : req'[q] = req[q]
  BY <1>0, <1>1, DoneReq DEF Only
<1>4. \A q \in Slot : req'[q] # Idle => i \notin req'[q].on
  BY <1>1, <1>2, <1>3 DEF LifeInv, Apart
<1>5. /\ t.uin[i] \in 0 .. MaxDocs /\ t.ans[i] \in Document \cup {NoAnswer}
      /\ t.uin[i] <= Len(docs[i]) /\ inv[i] \in InvoiceRow
      /\ RequestFits(t, i, inv[i], docs[i])
  BY <1>0, <1>1, <1>2, ActiveRequest DEF WellMade, LifeInv, TypeInv, TypeOK
<1>. DEFINE n == AfterSubmit(inv[i], t.uin[i], t.ans[i])
<1>6. /\ n.uin = t.uin[i] /\ n.status \in {"SUBMITTED", "VALIDATED"}
      /\ n.status = "VALIDATED" => t.ans[i].status = "valid" /\ n.age = t.ans[i].age
  BY <1>5, AfterSubmitRow
<1>. HIDE DEF n
<1>7. RowFits(n, docs[i])
  <2>1. t.uin[i] # 0
    BY <1>1, <1>5 DEF RequestFits
  <2>2. t.ans[i].status = "valid" => AnswerFits(t.ans[i], docs[i][t.uin[i]])
    BY <1>5 DEF RequestFits
  <2>. QED BY <1>5, <1>6, <2>1, <2>2 DEF RowFits, AnswerFits
<1>8. /\ \A q \in Slot : req'[q] = Idle \/ req'[q] = req[q]
      /\ \A j \in Invoice : inv'[j] = inv[j] \/ RowFits(inv'[j], docs[j])
      /\ \A j \in Invoice :
            \/ inv'[j] = inv[j]
            \/ inv'[j].uin = inv[j].uin /\ inv'[j].status # "DRAFT"
            \/ \A q \in Slot : req'[q] # Idle => j \notin req'[q].on
  BY <1>2, <1>3, <1>4, <1>7 DEF n
<1>. QED BY <1>1, <1>8, LifeWriting

\* A refresh writes what it heard of the very document that the row names.
LEMMA LifeRefresh ==
    ASSUME LifeInv, TypeInv', NEW r \in Slot, Refresh(r)
    PROVE  LifeInv'
<1>. DEFINE t == req[r]
<1>0. TypeInv
  BY DEF LifeInv
<1>1. /\ t # Idle /\ t.op = "refresh" /\ Done(r) /\ UNCHANGED docs
      /\ \A i \in Invoice :
            /\ inv'[i].uin = inv[i].uin
            /\ i \notin t.on => inv'[i] = inv[i]
            /\ \/ inv'[i] = inv[i]
               \/ /\ inv'[i].status = "VALIDATED" /\ t.ans[i].status = "valid"
                  /\ inv'[i].age = t.ans[i].age
               \/ /\ inv'[i].status = "REJECTED" /\ inv'[i].by = "LHDN"
                  /\ t.ans[i].status \in {"invalid", "rejected"}
  BY <1>0, RefreshRows
<1>2. \A q \in Slot : req'[q] = Idle \/ req'[q] = req[q]
  BY <1>0, <1>1, DoneReq DEF Only
<1>3. ASSUME NEW i \in Invoice, inv'[i] # inv[i]
      PROVE  RowFits(inv'[i], docs[i]) /\ inv'[i].status # "DRAFT"
  <2>1. /\ RequestFits(t, i, inv[i], docs[i]) /\ RowFits(inv[i], docs[i])
        /\ t.uin[i] = inv[i].uin /\ t.uin[i] # 0
    BY <1>1, <1>3 DEF LifeInv, RequestFits
  <2>2. AnswerFits(t.ans[i], docs[i][inv[i].uin])
    BY <1>1, <1>3, <2>1 DEF RequestFits
  <2>3. inv'[i].uin = inv[i].uin /\ inv[i].uin <= Len(docs[i])
    BY <1>1, <2>1 DEF RowFits
  <2>4. CASE inv'[i].status = "VALIDATED" /\ t.ans[i].status = "valid"
             /\ inv'[i].age = t.ans[i].age
    BY <2>1, <2>2, <2>3, <2>4 DEF RowFits, AnswerFits
  <2>5. CASE /\ inv'[i].status = "REJECTED" /\ inv'[i].by = "LHDN"
             /\ t.ans[i].status \in {"invalid", "rejected"}
    BY <2>1, <2>2, <2>3, <2>5 DEF RowFits, AnswerFits
  <2>. QED BY <1>1, <1>3, <2>4, <2>5
<1>4. /\ \A i \in Invoice : inv'[i] = inv[i] \/ RowFits(inv'[i], docs[i])
      /\ \A i \in Invoice : \/ inv'[i] = inv[i]
                            \/ inv'[i].uin = inv[i].uin /\ inv'[i].status # "DRAFT"
  BY <1>1, <1>3
<1>. QED BY <1>1, <1>2, <1>4, LifeWriting

LEMMA LifeReject ==
    ASSUME LifeInv, TypeInv', NEW r \in Slot, Reject(r)
    PROVE  LifeInv'
<1>. DEFINE t == req[r]
<1>0. TypeInv
  BY DEF LifeInv
<1>1. /\ t # Idle /\ t.op = "reject" /\ t.todo = {} /\ Done(r) /\ UNCHANGED docs
      /\ \A i \in Invoice :
            /\ inv'[i].uin = inv[i].uin
            /\ \/ inv'[i] = inv[i]
               \/ i \in t.on /\ inv'[i].status = "REJECTED" /\ inv'[i].by = "BUYER"
  BY <1>0, RejectRows
<1>2. \A q \in Slot : req'[q] = Idle \/ req'[q] = req[q]
  BY <1>0, <1>1, DoneReq DEF Only
<1>3. ASSUME NEW i \in Invoice, inv'[i] # inv[i]
      PROVE  RowFits(inv'[i], docs[i]) /\ inv'[i].status # "DRAFT"
  <2>1. /\ RequestFits(t, i, inv[i], docs[i]) /\ RowFits(inv[i], docs[i])
        /\ inv'[i].status = "REJECTED" /\ inv'[i].by = "BUYER"
    BY <1>1, <1>3 DEF LifeInv
  <2>2. /\ t.uin[i] = inv[i].uin /\ t.uin[i] # 0
        /\ docs[i][inv[i].uin].status = "rejected"
    BY <1>1, <2>1 DEF RequestFits
  <2>3. inv'[i].uin = inv[i].uin /\ inv[i].uin <= Len(docs[i])
    BY <1>1, <2>1 DEF RowFits
  <2>. QED BY <2>1, <2>2, <2>3 DEF RowFits
<1>4. /\ \A i \in Invoice : inv'[i] = inv[i] \/ RowFits(inv'[i], docs[i])
      /\ \A i \in Invoice : \/ inv'[i] = inv[i]
                            \/ inv'[i].uin = inv[i].uin /\ inv'[i].status # "DRAFT"
  BY <1>1, <1>3
<1>. QED BY <1>1, <1>2, <1>4, LifeWriting

LEMMA LifeView ==
    ASSUME LifeInv, TypeInv', NEW r \in Slot, View(r)
    PROVE  LifeInv'
<1>. DEFINE t == req[r]
<1>0. TypeInv
  BY DEF LifeInv
<1>1. /\ t # Idle /\ t.op = "view" /\ Done(r) /\ UNCHANGED docs
      /\ \A i \in Invoice :
            /\ inv'[i].uin = inv[i].uin
            /\ \/ inv'[i] = inv[i]
               \/ i \in t.on /\ inv'[i].status = "FINAL"
  BY <1>0, ViewRows
<1>2. \A q \in Slot : req'[q] = Idle \/ req'[q] = req[q]
  BY <1>0, <1>1, DoneReq DEF Only
<1>3. ASSUME NEW i \in Invoice, inv'[i] # inv[i]
      PROVE  RowFits(inv'[i], docs[i]) /\ inv'[i].status # "DRAFT"
  <2>1. /\ RequestFits(t, i, inv[i], docs[i]) /\ RowFits(inv[i], docs[i])
        /\ inv'[i].status = "FINAL"
    BY <1>1, <1>3 DEF LifeInv
  <2>2. /\ t.uin[i] = inv[i].uin /\ t.uin[i] # 0
        /\ docs[i][inv[i].uin].status \in {"valid", "rejected"}
        /\ docs[i][inv[i].uin].age > Window
    BY <1>1, <2>1 DEF RequestFits
  <2>3. inv'[i].uin = inv[i].uin /\ inv[i].uin <= Len(docs[i])
    BY <1>1, <2>1 DEF RowFits
  <2>. QED BY <2>1, <2>2, <2>3 DEF RowFits
<1>4. /\ \A i \in Invoice : inv'[i] = inv[i] \/ RowFits(inv'[i], docs[i])
      /\ \A i \in Invoice : \/ inv'[i] = inv[i]
                            \/ inv'[i].uin = inv[i].uin /\ inv'[i].status # "DRAFT"
  BY <1>1, <1>3
<1>. QED BY <1>1, <1>2, <1>4, LifeWriting

\* The age of a document, as a number.
LEMMA NamedDoc ==
    ASSUME TypeInv, NEW i \in Invoice, inv[i].uin # 0
    PROVE  /\ inv[i].uin \in 1 .. Len(docs[i])
           /\ docs[i][inv[i].uin] \in Document
           /\ docs[i][inv[i].uin].age \in Age /\ docs[i][inv[i].uin].age \in Nat
<1>1. docs[i] \in Seq(Document) /\ Len(docs[i]) \in Nat
  BY LenProperties DEF TypeInv, TypeOK
<1>2. inv[i].uin \in 1 .. Len(docs[i])
  BY <1>1, BoundsAssumption DEF TypeInv, TypeOK, InvoiceRow
<1>3. docs[i][inv[i].uin] \in Document
  BY <1>1, <1>2, ElementOfSeq
<1>. QED BY <1>2, <1>3, BoundsAssumption DEF Document, Age

LEMMA LifeFinalize ==
    ASSUME LifeInv, TypeInv', FinalizeScan
    PROVE  LifeInv'
<1>0. TypeInv
  BY DEF LifeInv
<1>1. /\ UNCHANGED <<docs, req>>
      /\ \A i \in Invoice :
            /\ inv'[i].uin = inv[i].uin
            /\ \/ inv'[i] = inv[i]
               \/ Due(inv[i]) /\ inv'[i].status = "FINAL"
  BY <1>0, FinalizeRows
<1>2. ASSUME NEW i \in Invoice, inv'[i] # inv[i]
      PROVE  RowFits(inv'[i], docs[i]) /\ inv'[i].status # "DRAFT"
  <2>1. /\ RowFits(inv[i], docs[i]) /\ inv'[i].status = "FINAL" /\ inv'[i].uin = inv[i].uin
        /\ inv[i].status = "VALIDATED" /\ inv[i].age > Window
    BY <1>1, <1>2 DEF LifeInv, Due
  <2>. DEFINE d == docs[i][inv[i].uin]
  <2>2. /\ inv[i].uin # 0 /\ inv[i].uin <= Len(docs[i])
        /\ d.status \in {"valid", "rejected"} /\ inv[i].age <= d.age
    BY <2>1 DEF RowFits
  <2>3. d.age \in Nat /\ inv[i].age \in Nat
    BY <1>0, <2>2, NamedDoc, BoundsAssumption DEF TypeInv, TypeOK, InvoiceRow, Age
  <2>. HIDE DEF d
  <2>4. d.age > Window
    BY <2>1, <2>2, <2>3, BoundsAssumption
  <2>. QED BY <2>1, <2>2, <2>4 DEF RowFits, d
<1>3. /\ \A q \in Slot : req'[q] = Idle \/ req'[q] = req[q]
      /\ \A i \in Invoice : inv'[i] = inv[i] \/ RowFits(inv'[i], docs[i])
      /\ \A i \in Invoice : \/ inv'[i] = inv[i]
                            \/ inv'[i].uin = inv[i].uin /\ inv'[i].status # "DRAFT"
  BY <1>1, <1>2
<1>. QED BY <1>1, <1>3, LifeWriting

\* Rows, answers and documents grow old together.
LEMMA LifeTick ==
    ASSUME LifeInv, TypeInv', Tick
    PROVE  LifeInv'
<1>0. TypeInv
  BY DEF LifeInv
<1>1. /\ inv' \in [Invoice -> InvoiceRow]
      /\ \A i \in Invoice :
            /\ inv'[i].status = inv[i].status /\ inv'[i].uin = inv[i].uin
            /\ inv'[i].by = inv[i].by
            /\ inv[i].status = "VALIDATED" => inv'[i].age = Older(inv[i].age)
      /\ docs' \in [Invoice -> Seq(Document)]
      /\ \A i \in Invoice :
            /\ Later(docs[i], docs'[i]) /\ Len(docs'[i]) = Len(docs[i])
            /\ \A n \in 1 .. Len(docs[i]) :
                  /\ docs'[i][n].status = docs[i][n].status
                  /\ docs[i][n].status \in {"valid", "rejected"} =>
                        docs'[i][n].age = Older(docs[i][n].age)
      /\ \A r \in Slot : req[r] = Idle => req'[r] = Idle
      /\ \A r \in Slot : req[r] # Idle =>
            /\ req'[r] # Idle
            /\ req'[r].op = req[r].op /\ req'[r].on = req[r].on
            /\ req'[r].todo = req[r].todo /\ req'[r].uin = req[r].uin
            /\ \A i \in Invoice :
                  /\ req'[r].ans[i].status = req[r].ans[i].status
                  /\ req[r].ans[i].status = "valid" =>
                        req'[r].ans[i].age = Older(req[r].ans[i].age)
  BY <1>0, TickAll
<1>2. Apart'
  BY <1>1, ApartKept DEF LifeInv, Continues
<1>3. \A i \in Invoice : docs[i] \in Seq(Document) /\ docs'[i] \in Seq(Document)
  BY <1>0, <1>1 DEF TypeInv, TypeOK
<1>4. ASSUME NEW i \in Invoice
      PROVE  RowFits(inv'[i], docs'[i])
  <2>1. RowFits(inv[i], docs[i]) /\ inv[i] \in InvoiceRow /\ inv'[i] \in InvoiceRow
    BY <1>1 DEF LifeInv, TypeInv, TypeOK
  <2>2. RowFits(inv[i], docs'[i])
    BY <1>1, <1>3, <2>1, RowKept
  <2>3. CASE inv[i].status # "VALIDATED"
    BY <1>1, <2>2, <2>3 DEF RowFits
  <2>4. CASE inv[i].status = "VALIDATED"
    <3>. DEFINE d == docs[i][inv[i].uin]
                e == docs'[i][inv[i].uin]
    <3>1. inv[i].uin # 0 /\ d.status \in {"valid", "rejected"} /\ inv[i].age <= d.age
      BY <2>1, <2>4 DEF RowFits
    <3>2. inv[i].uin \in 1 .. Len(docs[i]) /\ d.age \in Age /\ inv[i].age \in Age
      BY <1>0, <2>1, <3>1, NamedDoc DEF InvoiceRow
    <3>3. e.age = Older(d.age) /\ inv'[i].age = Older(inv[i].age)
      BY <1>1, <2>4, <3>1, <3>2
    <3>. HIDE DEF d, e
    <3>4. inv'[i].age <= e.age
      BY <3>1, <3>2, <3>3, OlderAge
    <3>. QED BY <1>1, <2>2, <2>4, <3>4 DEF RowFits, e
  <2>. QED BY <2>3, <2>4
<1>5. ASSUME NEW r \in Slot, req[r] # Idle, NEW i \in req[r].on
      PROVE  RequestFits(req'[r], i, inv'[i], docs'[i])
  <2>. DEFINE t == req[r]
              n == req'[r]
              d == docs[i][t.uin[i]]
              e == docs'[i][t.uin[i]]
  <2>1. /\ t \in InFlight /\ i \in Invoice /\ t.uin[i] <= Len(docs[i]) /\ t.uin[i] \in Nat
        /\ t.ans[i] \in Document \cup {NoAnswer}
        /\ RequestFits(t, i, inv[i], docs[i])
    BY <1>0, <1>5, ActiveRequest DEF WellMade, LifeInv
  <2>2. \/ inv'[i] = inv[i]
        \/ inv'[i].uin = inv[i].uin /\ inv'[i].status # "DRAFT"
        \/ t.op = "submit"
    BY <1>1, <2>1 DEF RequestFits
  <2>3. RequestFits(t, i, inv'[i], docs'[i])
    <3>1. RequestFits(t, i, inv[i], docs'[i])
      BY <1>1, <1>3, <2>1, RequestKept
    <3>. QED BY <1>1, <2>1, <3>1 DEF RequestFits
  <2>4. /\ n.op = t.op /\ n.todo = t.todo /\ n.uin = t.uin
        /\ n.ans[i].status = t.ans[i].status
        /\ t.ans[i].status = "valid" => n.ans[i].age = Older(t.ans[i].age)
    BY <1>1, <1>5, <2>1
  <2>5. t.ans[i].status = "valid" => n.ans[i].age <= e.age
    <3>. SUFFICES ASSUME t.ans[i].status = "valid" PROVE n.ans[i].age <= e.age
      OBVIOUS
    <3>1. t.uin[i] # 0 /\ d.status \in {"valid", "rejected"} /\ t.ans[i].age <= d.age
      BY <2>1 DEF RequestFits, AnswerFits
    <3>2. t.uin[i] \in 1 .. Len(docs[i])
      <4>1. Len(docs[i]) \in Nat
        BY <1>3, <2>1, LenProperties
      <4>. QED BY <2>1, <3>1, <4>1
    <3>3. d.age \in Age
      <4>1. d \in Document
        BY <1>3, <2>1, <3>2, ElementOfSeq
      <4>. QED BY <4>1 DEF Document
    <3>4. t.ans[i].age \in Age
      BY <2>1 DEF Document, NoAnswer
    <3>5. e.age = Older(d.age) /\ n.ans[i].age = Older(t.ans[i].age)
      BY <1>1, <2>1, <2>4, <3>1, <3>2
    <3>. HIDE DEF d, e, t, n
    <3>. QED BY <3>1, <3>3, <3>4, <3>5, OlderAge
  <2>6. n.ans[i].status # "none" => n.uin[i] # 0 /\ AnswerFits(n.ans[i], e)
    BY <2>3, <2>4, <2>5 DEF RequestFits, AnswerFits
  <2>. QED BY <2>3, <2>4, <2>6 DEF RequestFits
<1>6. \A r \in Slot : req'[r] # Idle =>
         \A i \in req'[r].on : RequestFits(req'[r], i, inv'[i], docs'[i])
  BY <1>1, <1>5
<1>. QED BY <1>2, <1>4, <1>6 DEF LifeInv

LEMMA LifeNext ==
    ASSUME "submit" \notin Overlap
    PROVE  LifeInv /\ [Next]_vars => LifeInv'
<1>. SUFFICES ASSUME LifeInv, [Next]_vars PROVE LifeInv'
  OBVIOUS
<1>0. TypeInv /\ TypeOK
  BY DEF LifeInv, TypeInv
<1>1. TypeInv'
  BY <1>0, NextType
<1>2. CASE UNCHANGED vars
  BY <1>1, <1>2 DEF vars, LifeInv, Apart
<1>3. ASSUME NEW r \in Slot, Rollback(r) PROVE LifeInv'
  <2>1. Done(r) /\ UNCHANGED <<inv, docs>>
    BY <1>3 DEF Rollback
  <2>2. \A q \in Slot : req'[q] = Idle \/ req'[q] = req[q]
    BY <1>0, <2>1, DoneReq DEF Only
  <2>. QED BY <1>1, <2>1, <2>2, LifeWriting
<1>. QED BY <1>0, <1>1, <1>2, <1>3, NextCases, LifeBegin, LifePost, LifeAsk, LifeSkip,
            LifeCallReject, LifeVerdict, LifeSubmit, LifeRefresh, LifeReject, LifeView,
            LifeFinalize, LifeTick

\* However refreshes, scans, oppositions and reads overlap, and whatever answer
\* or commit is lost, the rows keep to what the authority decided, and nothing
\* is FINAL before its window is over: a request writes about one document,
\* which the authority does not take back.
LEMMA LifeAlways ==
    ASSUME "submit" \notin Overlap
    PROVE  Spec => []LifeInv
<1>1. LifeInv /\ [Next]_vars => LifeInv'
  BY LifeNext
<1>. QED BY <1>1, LifeInit, PTL DEF Spec

\* VALIDATED, FINAL and REJECTED by the authority are what it decided about the
\* document that the invoice names.
THEOREM VerdictsAreRespected ==
    ASSUME "submit" \notin Overlap
    PROVE  Spec => []VerdictRespected
<1>1. LifeInv => VerdictRespected
  <2>. SUFFICES ASSUME LifeInv, NEW i \in Invoice
                PROVE  /\ inv[i].status # "DRAFT" => inv[i].uin \in DOMAIN docs[i]
                       /\ inv[i].status \in {"VALIDATED", "FINAL"} =>
                             Doc(i).status \in {"valid", "rejected"}
                       /\ inv[i].status = "REJECTED" /\ inv[i].by = "LHDN" =>
                             Doc(i).status \in {"invalid", "rejected"}
    BY DEF VerdictRespected
  <2>1. RowFits(inv[i], docs[i]) /\ DOMAIN docs[i] = 1 .. Len(docs[i])
    BY LenProperties DEF LifeInv, TypeInv, TypeOK
  <2>2. inv[i].status # "DRAFT" => inv[i].uin \in DOMAIN docs[i]
    BY <2>1, NamedDoc DEF RowFits, LifeInv
  <2>. QED BY <2>1, <2>2 DEF RowFits, Doc
<1>. QED BY <1>1, LifeAlways, PTL

\* What the buyer rejected in the ERP is rejected at the authority.
THEOREM RejectionsAreTold ==
    ASSUME "submit" \notin Overlap
    PROVE  Spec => []RejectionTold
<1>1. LifeInv => RejectionTold
  BY DEF LifeInv, RowFits, RejectionTold, Doc
<1>. QED BY <1>1, LifeAlways, PTL

\* No invoice is closed while its buyer may still object.
THEOREM FinalIsAfterWindow ==
    ASSUME "submit" \notin Overlap
    PROVE  Spec => []FinalAfterWindow
<1>1. LifeInv => FinalAfterWindow
  BY DEF LifeInv, RowFits, FinalAfterWindow, Doc
<1>. QED BY <1>1, LifeAlways, PTL

-----------------------------------------------------------------------------
(* How the status changes, when submissions of an invoice do not overlap with
   anything.  Heard: nor does an opposition, save with oppositions.  Calm: nor
   do refreshes, nor reads with oppositions *)

Heard == \A op \in {"refresh", "view"} : ~({op, "reject"} \subseteq Overlap)

Calm == "refresh" \notin Overlap /\ ~({"view", "reject"} \subseteq Overlap)

Decided == {"VALIDATED", "FINAL", "REJECTED"}

\* What a request in flight finds in the row: where it may be late, any status
\* that comes later; where it cannot be late, what it read.
StatusFits(op, status) ==
    /\ op = "submit" => status = "DRAFT"
    /\ op = "refresh" => status # "DRAFT" /\ (Calm => status = "SUBMITTED")
    /\ op = "reject" => status \in Decided
    /\ op = "view" => status \in Decided /\ (Calm => status # "REJECTED")

\* Nothing but oppositions is at work on what the buyer has rejected.
OnlyOppositions ==
    \A r \in Slot : req[r] # Idle =>
        \A i \in req[r].on : inv[i].by = "BUYER" => req[r].op = "reject"

PathInv ==
    /\ LifeInv
    /\ \A r \in Slot : req[r] # Idle =>
          \A i \in req[r].on : StatusFits(req[r].op, inv[i].status)
    /\ Heard => RejectionStands /\ OnlyOppositions

\* What a step may do to a row.
MovesOn(row, new) ==
    /\ row.status # new.status =>
          /\ <<row.status, new.status>> \in Moves \cup StaleMoves
          /\ Calm => <<row.status, new.status>> \in Moves
    /\ new.by = row.by \/ new.status = "REJECTED"

AllMoveOn == \A i \in Invoice : MovesOn(inv[i], inv'[i])

\* A step that leaves status and rejections alone.
LEMMA PathReading ==
    ASSUME PathInv, LifeInv',
           \A i \in Invoice : inv'[i].status = inv[i].status /\ inv'[i].by = inv[i].by,
           \A q \in Slot : req'[q] # Idle =>
              \/ req[q] # Idle /\ req'[q].op = req[q].op /\ req'[q].on = req[q].on
              \/ \A i \in req'[q].on : /\ StatusFits(req'[q].op, inv[i].status)
                                      /\ inv[i].status # "REJECTED"
    PROVE  PathInv' /\ AllMoveOn
<1>1. AllMoveOn
  BY DEF AllMoveOn, MovesOn
<1>2. ASSUME NEW q \in Slot, req'[q] # Idle, NEW i \in req'[q].on
      PROVE  StatusFits(req'[q].op, inv'[i].status)
  <2>1. StatusFits(req'[q].op, inv[i].status)
    BY <1>2 DEF PathInv
  <2>2. i \in Invoice
    BY <1>2, ActiveRequest DEF LifeInv, TypeInv, TypeOK, InFlight
  <2>. QED BY <2>1, <2>2
<1>3. ASSUME Heard PROVE RejectionStands' /\ OnlyOppositions'
  <2>1. RejectionStands'
    BY <1>3 DEF PathInv, RejectionStands
  <2>2. ASSUME NEW q \in Slot, req'[q] # Idle, NEW i \in req'[q].on, inv'[i].by = "BUYER"
        PROVE  req'[q].op = "reject"
    <3>1. i \in Invoice
      BY <2>2, ActiveRequest DEF LifeInv, TypeInv, TypeOK, InFlight
    <3>2. inv[i].by = "BUYER" /\ inv[i].status = "REJECTED"
      BY <1>3, <2>2, <3>1 DEF PathInv, RejectionStands
    <3>. QED BY <1>3, <2>2, <3>2 DEF PathInv, OnlyOppositions
  <2>. QED BY <2>1, <2>2 DEF OnlyOppositions
<1>4. (Calm' <=> Calm) /\ (Heard' <=> Heard)
  BY DEF Calm, Heard
<1>. QED BY <1>1, <1>2, <1>3, <1>4 DEF PathInv, StatusFits

\* A step that writes rows: whoever is still at work on one can live with it.
LEMMA PathWriting ==
    ASSUME PathInv, LifeInv', AllMoveOn,
           \A q \in Slot : req'[q] = Idle \/ req'[q] = req[q],
           \A q \in Slot : req'[q] # Idle =>
              \A i \in req[q].on : \/ inv'[i].status = inv[i].status
                                   \/ StatusFits(req[q].op, inv'[i].status),
           Heard => /\ \A i \in Invoice : inv[i].by = "BUYER" => inv'[i].status = "REJECTED"
                    /\ \A q \in Slot : req'[q] # Idle =>
                          \A i \in req[q].on : \/ inv'[i].by = inv[i].by
                                               \/ inv'[i].by = "LHDN"
                                               \/ req[q].op = "reject"
    PROVE  PathInv'
<1>1. ASSUME NEW q \in Slot, req'[q] # Idle, NEW i \in req'[q].on
      PROVE  StatusFits(req'[q].op, inv'[i].status)
  <2>1. req'[q] = req[q] /\ req[q] # Idle
    BY <1>1
  <2>. QED BY <1>1, <2>1 DEF PathInv
<1>2. ASSUME Heard PROVE RejectionStands' /\ OnlyOppositions'
  <2>1. ASSUME NEW i \in Invoice, inv'[i].by = "BUYER"
        PROVE  inv'[i].status = "REJECTED"
    <3>1. MovesOn(inv[i], inv'[i])
      BY DEF AllMoveOn
    <3>. QED BY <1>2, <2>1, <3>1 DEF MovesOn
  <2>2. ASSUME NEW q \in Slot, req'[q] # Idle, NEW i \in req'[q].on, inv'[i].by = "BUYER"
        PROVE  req'[q].op = "reject"
    <3>1. req'[q] = req[q] /\ req[q] # Idle
      BY <2>2
    <3>2. inv[i].by = "BUYER" \/ req[q].op = "reject"
      BY <1>2, <2>2, <3>1
    <3>. QED BY <1>2, <2>2, <3>1, <3>2 DEF PathInv, OnlyOppositions
  <2>. QED BY <2>1, <2>2 DEF RejectionStands, OnlyOppositions
<1>3. (Calm' <=> Calm) /\ (Heard' <=> Heard)
  BY DEF Calm, Heard
<1>. QED BY <1>1, <1>2, <1>3 DEF PathInv, StatusFits

LEMMA PathBegin ==
    ASSUME PathInv, LifeInv', Reading
    PROVE  PathInv' /\ AllMoveOn
<1>1. PICK r \in Slot, op \in Operations, on \in SUBSET Invoice, todo \in SUBSET Invoice :
              Began(r, op, on, todo)
  BY Zenon DEF Reading
<1>2. /\ Begin(r, op, on, todo)
      /\ op = "refresh" => \A i \in on : inv[i].status = "SUBMITTED"
      /\ op = "reject" => \A i \in on : inv[i].status = "VALIDATED"
      /\ op = "view" => \A i \in on : inv[i].status = "VALIDATED"
      /\ op = "submit" => \A i \in on : inv[i].status = "DRAFT"
  BY <1>1 DEF Began, Due
<1>3. /\ Only(r, req'[r]) /\ req'[r].op = op /\ req'[r].on = on
      /\ UNCHANGED <<inv, backlog, docs>>
  BY <1>2, BeginReq DEF PathInv, LifeInv
<1>4. \A i \in on : StatusFits(op, inv[i].status) /\ inv[i].status # "REJECTED"
  BY <1>2 DEF StatusFits, Decided, Operations
<1>. QED BY <1>3, <1>4, PathReading DEF Only

\* A submission is alone with its invoice.
LEMMA PathSubmit ==
    ASSUME PathInv, LifeInv', "submit" \notin Overlap, NEW r \in Slot, Submit(r)
    PROVE  PathInv' /\ AllMoveOn
<1>. DEFINE t == req[r]
<1>0. TypeInv
  BY DEF PathInv, LifeInv
<1>1. t # Idle /\ t.op = "submit" /\ Done(r)
  BY <1>0, SubmitRows
<1>2. PICK i \in t.on : /\ i \in Invoice
                        /\ inv'[i] = AfterSubmit(inv[i], t.uin[i], t.ans[i])
                        /\ \A j \in Invoice \ {i} : inv'[j] = inv[j]
  BY <1>0, SubmitRows
<1>3. req'[r] = Idle /\ \A q \in Slot \ {r} : req'[q] = req[q]
  BY <1>0, <1>1, DoneReq DEF Only
<1>4. \A q \in Slot : req'[q] # Idle => i \notin req[q].on
  BY <1>1, <1>2, <1>3 DEF PathInv, LifeInv, Apart
<1>5. /\ t.uin[i] \in 0 .. MaxDocs /\ t.ans[i] \in Document \cup {NoAnswer}
      /\ inv[i] \in InvoiceRow /\ inv[i].status = "DRAFT"
  BY <1>0, <1>1, <1>2, ActiveRequest DEF PathInv, StatusFits, TypeInv, TypeOK
<1>6. /\ inv'[i].status \in {"SUBMITTED", "VALIDATED"} /\ inv'[i].by = inv[i].by
  BY <1>2, <1>5, AfterSubmitRow
<1>7. AllMoveOn
  BY <1>2, <1>5, <1>6 DEF AllMoveOn, MovesOn, Moves
<1>8. \A q \in Slot : req'[q] # Idle => \A j \in req[q].on : inv'[j].status = inv[j].status
  <2>. SUFFICES ASSUME NEW q \in Slot, req'[q] # Idle, NEW j \in req[q].on
                PROVE  inv'[j].status = inv[j].status
    OBVIOUS
  <2>1. j \in Invoice
    BY <1>0, <1>3, ActiveRequest
  <2>. QED BY <1>2, <1>4, <2>1
<1>9. \A q \in Slot : req'[q] = Idle \/ req'[q] = req[q]
  BY <1>3
<1>10. \A j \in Invoice : inv'[j].by = inv[j].by
  BY <1>2, <1>6
<1>11. ASSUME Heard, NEW j \in Invoice, inv[j].by = "BUYER"
       PROVE  inv'[j].status = "REJECTED"
  <2>1. inv[j].status = "REJECTED"
    BY <1>11 DEF PathInv, RejectionStands
  <2>. QED BY <1>2, <1>5, <2>1
<1>12. \A q \in Slot : req'[q] # Idle => req[q].on \subseteq Invoice
  BY <1>0, <1>3, ActiveRequest
<1>. QED BY <1>7, <1>8, <1>9, <1>10, <1>11, <1>12, PathWriting

\* A refresh, an opposition or a read writes over what has come in between, if
\* something may have; none of it is a DRAFT, and none becomes one.
LEMMA PathCommit ==
    ASSUME PathInv, LifeInv', "submit" \notin Overlap, NEW r \in Slot,
           Refresh(r) \/ Reject(r) \/ View(r)
    PROVE  PathInv' /\ AllMoveOn
<1>. DEFINE t == req[r]
<1>0. TypeInv
  BY DEF PathInv, LifeInv
<1>1. /\ t # Idle /\ t.op \in {"refresh", "reject", "view"} /\ Done(r)
      /\ \A i \in Invoice :
            \/ inv'[i] = inv[i]
            \/ /\ i \in t.on
               /\ \/ t.op = "refresh" /\ inv'[i].status = "VALIDATED" /\ inv'[i].by = inv[i].by
                  \/ t.op = "refresh" /\ inv'[i].status = "REJECTED" /\ inv'[i].by = "LHDN"
                  \/ t.op = "reject" /\ inv'[i].status = "REJECTED"
                  \/ t.op = "view" /\ inv'[i].status = "FINAL" /\ inv'[i].by = inv[i].by
  <2>1. CASE Refresh(r)
    BY <1>0, <2>1, RefreshRows
  <2>2. CASE Reject(r)
    <3>1. req[r].op = "reject"
      BY <2>2, Zenon DEF Reject
    <3>. QED BY <1>0, <2>2, <3>1, RejectRows
  <2>3. CASE View(r)
    BY <1>0, <2>3, ViewRows
  <2>. QED BY <2>1, <2>2, <2>3
<1>2. req'[r] = Idle /\ \A q \in Slot \ {r} : req'[q] = req[q]
  BY <1>0, <1>1, DoneReq DEF Only
<1>3. ASSUME NEW i \in Invoice, inv'[i] # inv[i]
      PROVE  /\ i \in t.on /\ StatusFits(t.op, inv[i].status)
             /\ inv[i].status \in Status /\ inv'[i].status \in Decided
             /\ MovesOn(inv[i], inv'[i])
  <2>1. /\ i \in t.on /\ StatusFits(t.op, inv[i].status)
    BY <1>1, <1>3 DEF PathInv
  <2>2. inv[i].status \in Status
    BY <1>0 DEF TypeInv, TypeOK, InvoiceRow
  <2>. DEFINE s == inv[i].status
              n == inv'[i].status
  <2>3. \/ t.op = "refresh" /\ n = "VALIDATED" /\ inv'[i].by = inv[i].by
        \/ t.op = "refresh" /\ n = "REJECTED"
        \/ t.op = "reject" /\ n = "REJECTED"
        \/ t.op = "view" /\ n = "FINAL" /\ inv'[i].by = inv[i].by
    BY <1>1, <1>3
  <2>4. /\ t.op = "refresh" => s # "DRAFT" /\ (Calm => s = "SUBMITTED")
        /\ t.op = "reject" => s \in Decided
        /\ t.op = "view" => s \in Decided /\ (Calm => s # "REJECTED")
    BY <2>1 DEF StatusFits
  <2>5. n \in Decided /\ (inv'[i].by = inv[i].by \/ n = "REJECTED")
    BY <2>3 DEF Decided
  <2>. HIDE DEF s, n
  <2>6. s # n => /\ <<s, n>> \in Moves \cup StaleMoves
                 /\ Calm => <<s, n>> \in Moves
    <3>1. CASE t.op = "refresh" /\ n = "VALIDATED"
      BY <2>2, <2>4, <3>1 DEF Moves, StaleMoves, Status, s
    <3>2. CASE t.op = "refresh" /\ n = "REJECTED"
      BY <2>2, <2>4, <3>2 DEF Moves, StaleMoves, Status, s
    <3>3. CASE t.op = "reject"
      BY <2>3, <2>4, <3>3 DEF Moves, StaleMoves, Decided
    <3>4. CASE t.op = "view"
      BY <2>3, <2>4, <3>4 DEF Moves, StaleMoves, Decided
    <3>. QED BY <2>3, <3>1, <3>2, <3>3, <3>4
  <2>. QED BY <2>1, <2>2, <2>5, <2>6 DEF MovesOn, s, n
<1>4. AllMoveOn
  BY <1>3 DEF AllMoveOn, MovesOn
<1>5. ASSUME NEW q \in Slot, req'[q] # Idle, NEW i \in req[q].on, inv'[i] # inv[i]
      PROVE  StatusFits(req[q].op, inv'[i].status)
  <2>1. q # r /\ req[q] # Idle /\ i \in Invoice /\ req[q].op \in Operations
    BY <1>0, <1>2, <1>5, ActiveRequest
  <2>2. /\ i \in t.on /\ t.op \in Overlap /\ req[q].op \in Overlap
        /\ inv'[i].status \in Decided
    BY <1>1, <1>3, <1>5, <2>1 DEF PathInv, LifeInv, Apart
  <2>3. CASE ~Calm
    BY <2>1, <2>2, <2>3 DEF StatusFits, Operations, Decided
  <2>4. CASE Calm
    <3>1. t.op # "refresh" /\ req[q].op \notin {"refresh", "submit"}
      BY <2>2, <2>4 DEF Calm
    <3>2. t.op = "reject" => inv'[i].status = "REJECTED" /\ req[q].op # "view"
      BY <1>1, <1>5, <2>1, <2>2, <2>4 DEF Calm
    <3>3. t.op = "view" => inv'[i].status = "FINAL"
      BY <1>1, <1>5, <2>1
    <3>. QED BY <1>1, <2>1, <2>2, <3>1, <3>2, <3>3 DEF StatusFits, Operations
  <2>. QED BY <2>3, <2>4
<1>6. \A q \in Slot : req'[q] = Idle \/ req'[q] = req[q]
  BY <1>2
<1>7. ASSUME Heard, NEW i \in Invoice, inv[i].by = "BUYER"
      PROVE  inv'[i].status = "REJECTED"
  <2>1. inv[i].status = "REJECTED"
    BY <1>7 DEF PathInv, RejectionStands
  <2>2. i \in t.on => t.op = "reject"
    BY <1>1, <1>7 DEF PathInv, OnlyOppositions
  <2>. QED BY <1>1, <2>1, <2>2
<1>8. ASSUME Heard, NEW q \in Slot, req'[q] # Idle, NEW i \in req[q].on,
             inv'[i].by # inv[i].by, inv'[i].by # "LHDN"
      PROVE  req[q].op = "reject"
  <2>1. q # r /\ req[q] # Idle /\ i \in Invoice /\ req[q].op \in Operations
    BY <1>0, <1>2, <1>8, ActiveRequest
  <2>2. i \in t.on /\ t.op = "reject"
    BY <1>1, <1>8, <2>1
  <2>3. t.op \in Overlap /\ req[q].op \in Overlap
    BY <1>1, <2>1, <2>2, <1>8 DEF PathInv, LifeInv, Apart
  <2>. QED BY <1>8, <2>1, <2>2, <2>3 DEF Heard, Operations
<1>. QED BY <1>4, <1>5, <1>6, <1>7, <1>8, PathWriting

\* The scan looks at the row as it is.
LEMMA PathFinalize ==
    ASSUME PathInv, LifeInv', FinalizeScan
    PROVE  PathInv' /\ AllMoveOn
<1>0. TypeInv
  BY DEF PathInv, LifeInv
<1>1. /\ UNCHANGED req
      /\ \A i \in Invoice :
            \/ inv'[i] = inv[i]
            \/ /\ inv[i].status = "VALIDATED" /\ inv'[i].status = "FINAL"
               /\ inv'[i].by = inv[i].by
  BY <1>0, FinalizeRows DEF Due
<1>2. AllMoveOn
  BY <1>1 DEF AllMoveOn, MovesOn, Moves
<1>3. ASSUME NEW q \in Slot, req'[q] # Idle, NEW i \in req[q].on
      PROVE  \/ inv'[i].status = inv[i].status
             \/ StatusFits(req[q].op, inv'[i].status)
  <2>1. req[q] # Idle /\ i \in Invoice /\ StatusFits(req[q].op, inv[i].status)
    BY <1>0, <1>1, <1>3, ActiveRequest DEF PathInv
  <2>. QED BY <1>1, <2>1 DEF StatusFits, Decided
<1>4. ASSUME Heard, NEW i \in Invoice, inv[i].by = "BUYER"
      PROVE  inv'[i].status = "REJECTED"
  <2>1. inv[i].status = "REJECTED"
    BY <1>4 DEF PathInv, RejectionStands
  <2>. QED BY <1>1, <2>1
<1>5. \A q \in Slot : req'[q] # Idle => \A i \in req[q].on : inv'[i].by = inv[i].by
  BY <1>0, <1>1, ActiveRequest
<1>. QED BY <1>1, <1>2, <1>3, <1>4, <1>5, PathWriting

LEMMA PathNext ==
    ASSUME "submit" \notin Overlap
    PROVE  PathInv /\ [Next]_vars => PathInv' /\ AllMoveOn
<1>. SUFFICES ASSUME PathInv, [Next]_vars PROVE PathInv' /\ AllMoveOn
  OBVIOUS
<1>0. TypeInv /\ TypeOK
  BY DEF PathInv, LifeInv, TypeInv
<1>1. LifeInv'
  BY LifeNext DEF PathInv
<1>2. CASE UNCHANGED vars
  BY <1>1, <1>2, PathReading DEF vars
<1>3. ASSUME NEW r \in Slot, NEW i \in Invoice, Post(r, i) \/ Ask(r, i) \/ CallReject(r, i)
      PROVE  PathInv' /\ AllMoveOn
  <2>1. /\ UNCHANGED inv /\ req[r] # Idle /\ Only(r, req'[r])
        /\ req'[r].op = req[r].op /\ req'[r].on = req[r].on
    <3>1. CASE Post(r, i)
      BY <1>0, <3>1, PostReq
    <3>2. CASE Ask(r, i)
      BY <1>0, <3>2, AskReq
    <3>3. CASE CallReject(r, i)
      BY <1>0, <3>3, RejectDocs, SettleReq
    <3>. QED BY <1>3, <3>1, <3>2, <3>3
  <2>. QED BY <1>1, <2>1, PathReading DEF Only
<1>4. ASSUME NEW i \in Invoice, Skip(i) PROVE PathInv' /\ AllMoveOn
  <2>1. /\ Beat \in Slot /\ req[Beat] # Idle
        /\ req' = [req EXCEPT ![Beat].todo = req[Beat].todo \ {i}]
        /\ UNCHANGED inv
    BY <1>4 DEF Skip, Slot
  <2>2. /\ Only(Beat, req'[Beat])
        /\ req'[Beat].op = req[Beat].op /\ req'[Beat].on = req[Beat].on
    BY <1>0, <2>1, SettleReq
  <2>. QED BY <1>1, <2>1, <2>2, PathReading DEF Only
<1>5. ASSUME NEW i \in Invoice, NEW n \in DOMAIN docs[i],
             NEW status \in {"valid", "invalid", "unknown"}, Verdict(i, n, status)
      PROVE  PathInv' /\ AllMoveOn
  BY <1>1, <1>5, PathReading DEF Verdict
<1>6. ASSUME NEW r \in Slot, Rollback(r) PROVE PathInv' /\ AllMoveOn
  <2>1. Done(r) /\ UNCHANGED inv
    BY <1>6 DEF Rollback
  <2>2. \A q \in Slot : req'[q] = Idle \/ req'[q] = req[q]
    BY <1>0, <2>1, DoneReq DEF Only
  <2>. QED BY <1>1, <2>1, <2>2, PathReading
<1>7. CASE Tick
  <2>1. /\ \A i \in Invoice : inv'[i].status = inv[i].status /\ inv'[i].by = inv[i].by
        /\ \A r \in Slot : req[r] = Idle => req'[r] = Idle
        /\ \A r \in Slot : req[r] # Idle =>
              req'[r].op = req[r].op /\ req'[r].on = req[r].on
    BY <1>0, <1>7, TickAll
  <2>. QED BY <1>1, <2>1, PathReading
<1>. QED BY <1>0, <1>1, <1>2, <1>3, <1>4, <1>5, <1>6, <1>7, NextCases, PathBegin,
            PathSubmit, PathCommit, PathFinalize

LEMMA PathInit == Init => PathInv
<1>. SUFFICES ASSUME Init PROVE PathInv
  OBVIOUS
<1>1. \A r \in Slot : req[r] = Idle
  BY DEF Init
<1>2. RejectionStands
  BY DEF Init, RejectionStands
<1>. QED BY <1>1, <1>2, LifeInit DEF PathInv, OnlyOppositions

LEMMA PathAlways ==
    ASSUME "submit" \notin Overlap
    PROVE  Spec => []PathInv
<1>1. PathInv /\ [Next]_vars => PathInv'
  BY PathNext
<1>. QED BY <1>1, PathInit, PTL DEF Spec

\* Whatever overlaps but a submission, every change of a status is one that
\* Billing reckons with; above all, no invoice becomes a DRAFT again.
THEOREM StatusKeepsItsMoves ==
    ASSUME "submit" \notin Overlap
    PROVE  Spec => StatusMoves
<1>1. PathInv /\ [Next]_vars =>
        [\A i \in Invoice : inv[i].status # inv'[i].status =>
                                Change(i) \in Moves \cup StaleMoves]_vars
  BY PathNext DEF AllMoveOn, MovesOn, Change
<1>. QED BY <1>1, PathAlways, PTL DEF Spec, StatusMoves

\* If refreshes do not overlap, nor reads with oppositions, late commits take
\* nothing back, although both scans and the authority act at any time.
THEOREM InvoicesAdvance ==
    ASSUME "submit" \notin Overlap, "refresh" \notin Overlap,
           ~({"view", "reject"} \subseteq Overlap)
    PROVE  Spec => StatusAdvances
<1>1. PathInv /\ [Next]_vars =>
        [\A i \in Invoice : inv[i].status # inv'[i].status => Change(i) \in Moves]_vars
  BY PathNext DEF AllMoveOn, MovesOn, Change, Calm
<1>. QED BY <1>1, PathAlways, PTL DEF Spec, StatusAdvances

\* If an opposition overlaps with no refresh and no read of its invoice, what the
\* buyer has rejected stays rejected, polls of one invoice that overlap or not.
THEOREM RejectionsStand ==
    ASSUME "submit" \notin Overlap,
           \A op \in {"refresh", "view"} : ~({op, "reject"} \subseteq Overlap)
    PROVE  Spec => []RejectionStands
<1>1. PathInv => RejectionStands
  BY DEF PathInv, Heard
<1>. QED BY <1>1, PathAlways, PTL

=============================================================================
