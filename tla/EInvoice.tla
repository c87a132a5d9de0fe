------------------------------ MODULE EInvoice ------------------------------
(***************************************************************************)
(* The life of an e-invoice between the ERP and the tax authority (LHDN):  *)
(* submit_to_myinvois, refresh_status, reject_by_buyer, the lazy and the   *)
(* periodic finalisation and the pending scan of services/einvoice.py, the *)
(* two Beat tasks of tasks/einvoice.py, and the authority as the adapter   *)
(* integrations/myinvois_real.py sees it.                                  *)
(*                                                                         *)
(* A request reads its snapshot and checks it (Begin...), talks to the     *)
(* authority - whose state no rollback takes back - and commits what it    *)
(* heard, overwriting the row whatever it holds by then.  Time passes in   *)
(* ticks: no request sees more than one, and the opposition window (72 h,  *)
(* or 72 s in the demo) lasts Window of them.  A document has a status     *)
(* and, once validated, an age.                                            *)
(***************************************************************************)
EXTENDS InvoiceLife, Naturals, Sequences, FiniteSets

CONSTANTS
    Invoice,        \* invoices, drafted by generate_draft_from_so
    Request,        \* slots for user requests in flight
    Beat,           \* the slot of the Celery worker that runs the pending scan
    Window,         \* the opposition window, in ticks
    MaxDocs,        \* bound: documents the authority holds per invoice
    PendingLimit,   \* invoices per pending scan
    Overlap         \* the operations that may overlap on one invoice

ASSUME BoundsAssumption ==
    Window \in Nat /\ MaxDocs \in Nat /\ PendingLimit \in Nat
ASSUME BeatAssumption == Beat \notin Request

VARIABLES
    inv,        \* table invoices
    backlog,    \* the invoices parked in SUBMITTED, by submitted_at
    docs,       \* the authority: the documents lodged for each invoice
    req         \* requests and the pending scan in flight

vars == <<inv, backlog, docs, req>>

Slot == Request \cup {Beat}
Age == 0 .. Window + 1

\* uin = n names the n-th document of the invoice, 0 is NULL; age is the time
\* since validated_at, as far as it matters; by is rejected_by.
InvoiceRow == [status : Status, uin : 0 .. MaxDocs, age : Age,
               by : {"nobody", "LHDN", "BUYER"}]

\* "unknown" is any status the adapter has no name for.
Document == [status : {"submitted", "valid", "invalid", "rejected", "unknown"},
             age    : Age]

Idle == [op |-> "idle"]
NoAnswer == [status |-> "none", age |-> 0]

\* on: the invoices of the request; todo: those not yet settled with the
\* authority; uin and ans: what is known of their documents; late: a tick passed.
InFlight == [op   : {"submit", "refresh", "reject", "view"},
             on   : SUBSET Invoice,
             todo : SUBSET Invoice,
             uin  : [Invoice -> 0 .. MaxDocs],
             ans  : [Invoice -> Document \cup {NoAnswer}],
             late : BOOLEAN]

TypeOK ==
    /\ inv \in [Invoice -> InvoiceRow]
    /\ backlog \in Seq(Invoice)
    /\ docs \in [Invoice -> Seq(Document)]
    /\ req \in [Slot -> InFlight \cup {Idle}]

Init ==
    /\ inv = [i \in Invoice |-> [status |-> "DRAFT", uin |-> 0, age |-> 0,
                                 by |-> "nobody"]]
    /\ backlog = <<>>
    /\ docs = [i \in Invoice |-> <<>>]
    /\ req = [r \in Slot |-> Idle]

-----------------------------------------------------------------------------
(* Reading: the snapshot and the checks the handlers make on it *)

Begin(r, op, on, todo) ==
    /\ req[r] = Idle
    /\ \A q \in Slot : req[q] # Idle /\ req[q].on \cap on # {} =>
                            {op, req[q].op} \subseteq Overlap
    /\ req' = [req EXCEPT ![r] =
                  [op |-> op, on |-> on, todo |-> todo,
                   uin |-> [i \in Invoice |-> IF i \in on THEN inv[i].uin ELSE 0],
                   ans |-> [i \in Invoice |-> NoAnswer], late |-> FALSE]]
    /\ UNCHANGED <<inv, backlog, docs>>

BeginSubmit(r, i) == inv[i].status = "DRAFT" /\ Begin(r, "submit", {i}, {i})

BeginRefresh(r, i) == inv[i].status = "SUBMITTED" /\ Begin(r, "refresh", {i}, {i})

\* The buyer's opposition: VALIDATED and not past the window.
BeginReject(r, i) ==
    /\ inv[i].status = "VALIDATED"
    /\ inv[i].age <= Window
    /\ Begin(r, "reject", {i}, {i})

\* Variants of Due: the window ends a tick early; it is never reached; the
\* status is not looked at.
DueEarly(row) == row.status = "VALIDATED" /\ row.age >= Window
DueNever(row) == row.status = "VALIDATED" /\ row.age > Window + 1
DueWhatever(row) == row.age > Window

\* Past the window: what the scan and every read of an invoice look for.
Due(row) == row.status = "VALIDATED" /\ row.age > Window

\* A read that will finalise (_lazy_finalize_if_due); others write nothing.
BeginView(r, i) == Due(inv[i]) /\ Begin(r, "view", {i}, {})

\* list_pending_validation: the oldest SUBMITTED invoices, up to a limit.
Waiting == {n \in DOMAIN backlog : inv[backlog[n]].status = "SUBMITTED"}

Pending == {backlog[n] : n \in {m \in Waiting :
                Cardinality({k \in Waiting : k < m}) < PendingLimit}}

\* run_pending_scan is refresh_status for all of them in one transaction.
BeginScan == Pending # {} /\ Begin(Beat, "refresh", Pending, Pending)

-----------------------------------------------------------------------------
(* Talking to the authority: no transaction undoes these steps *)

\* The POST lodges a document.  Should its answer be lost, the repetitions that
\* MyInvoisHttpClient makes within seconds are refused as duplicates, and the
\* request fails: a Rollback that leaves the document behind.
Post(r, i) ==
    /\ req[r].op = "submit" /\ i \in req[r].todo
    /\ req[r].uin[i] = 0
    /\ Len(docs[i]) < MaxDocs
    /\ docs' = [docs EXCEPT ![i] = Append(@, [status |-> "submitted", age |-> 0])]
    /\ req' = [req EXCEPT ![r].uin[i] = Len(docs[i]) + 1]
    /\ UNCHANGED <<inv, backlog>>

\* The poll of a submission, or get_status: a status the adapter does not know
\* fails a refresh, while a submission takes it for pending.  A validation time
\* the authority leaves out is replaced by the present.
Ask(r, i) ==
    /\ req[r].op \in {"submit", "refresh"} /\ i \in req[r].todo
    /\ req[r].uin[i] # 0
    /\ LET d == docs[i][req[r].uin[i]]
       IN  /\ req[r].op = "refresh" => d.status # "unknown"
           /\ \E age \in {d.age, 0} :
                 req' = [req EXCEPT ![r].todo = @ \ {i},
                                    ![r].ans[i] = [status |-> d.status, age |-> age]]
    /\ UNCHANGED <<inv, backlog, docs>>

\* Variant: one failing invoice spoils the whole scan.
SkipAll(i) ==
    /\ req[Beat] # Idle /\ i \in req[Beat].todo
    /\ req' = [req EXCEPT ![Beat].todo = {},
                          ![Beat].ans = [j \in Invoice |-> NoAnswer]]
    /\ UNCHANGED <<inv, backlog, docs>>

\* An exception for one invoice is swallowed by the scan, which goes on.
Skip(i) ==
    /\ req[Beat] # Idle /\ i \in req[Beat].todo
    /\ req' = [req EXCEPT ![Beat].todo = @ \ {i}]
    /\ UNCHANGED <<inv, backlog, docs>>

\* Variant: the authority is not told.
CallNobody(r, i) ==
    /\ req[r].op = "reject" /\ i \in req[r].todo
    /\ req' = [req EXCEPT ![r].todo = @ \ {i}]
    /\ UNCHANGED <<inv, backlog, docs>>

\* adapter.reject; a document that is not valid makes it fail.
CallReject(r, i) ==
    /\ req[r].op = "reject" /\ i \in req[r].todo
    /\ docs[i][req[r].uin[i]].status \in {"valid", "rejected"}
    /\ docs' = [docs EXCEPT ![i][req[r].uin[i]].status = "rejected"]
    /\ req' = [req EXCEPT ![r].todo = @ \ {i}]
    /\ UNCHANGED <<inv, backlog>>

\* The authority makes up its mind about a document.
Verdict(i, n, status) ==
    /\ docs[i][n].status = "submitted"
    /\ docs' = [docs EXCEPT ![i][n].status = status]
    /\ UNCHANGED <<inv, backlog, req>>

-----------------------------------------------------------------------------
(* Writing: the row becomes what the request heard *)

Done(r) == req' = [req EXCEPT ![r] = Idle]

\* Variant: an accepted document is taken for a validated one.
AfterSubmitAtOnce(row, uin, ans) ==
    [row EXCEPT !.uin = uin, !.status = "VALIDATED", !.age = ans.age]

\* VALIDATED only with a validation time, or else parked in SUBMITTED.
AfterSubmit(row, uin, ans) ==
    IF ans.status = "valid"
    THEN [row EXCEPT !.uin = uin, !.status = "VALIDATED", !.age = ans.age]
    ELSE [row EXCEPT !.uin = uin, !.status = "SUBMITTED", !.age = 0]

\* submit_to_myinvois; an invalid document raises instead.
Submit(r) ==
    LET t == req[r]
    IN  /\ t.op = "submit" /\ t.todo = {}
        /\ \E i \in t.on :
              /\ t.ans[i].status # "invalid"
              /\ inv' = [inv EXCEPT ![i] = AfterSubmit(inv[i], t.uin[i], t.ans[i])]
              /\ backlog' = IF inv'[i].status = "SUBMITTED" THEN Append(backlog, i)
                            ELSE backlog
        /\ Done(r)
        /\ UNCHANGED docs

\* Variant: an answer that is still pending is written down as well.
AfterRefreshPending(row, ans) ==
    CASE ans.status \in {"none", "submitted"} -> [row EXCEPT !.status = "SUBMITTED"]
      [] ans.status = "valid" ->
            [row EXCEPT !.status = "VALIDATED", !.age = ans.age]
      [] ans.status \in {"invalid", "rejected"} ->
            [row EXCEPT !.status = "REJECTED", !.by = "LHDN"]

\* Variant: the authority's word goes into the row as it is.
AfterRefreshVerbatim(row, ans) ==
    IF ans.status \in {"none", "submitted"} THEN row
    ELSE [row EXCEPT !.status = ans.status, !.age = ans.age]

AfterRefresh(row, ans) ==
    CASE ans.status \in {"none", "submitted"} -> row
      [] ans.status = "valid" ->
            [row EXCEPT !.status = "VALIDATED", !.age = ans.age]
      [] ans.status \in {"invalid", "rejected"} ->
            [row EXCEPT !.status = "REJECTED", !.by = "LHDN"]

\* refresh_status, or the commit of a pending scan.
Refresh(r) ==
    LET t == req[r]
    IN  /\ t.op = "refresh" /\ t.todo = {}
        /\ inv' = [i \in Invoice |->
              IF i \in t.on THEN AfterRefresh(inv[i], t.ans[i]) ELSE inv[i]]
        /\ Done(r)
        /\ UNCHANGED <<backlog, docs>>

\* reject_by_buyer.
Reject(r) ==
    LET t == req[r]
    IN  /\ t.op = "reject" /\ t.todo = {}
        /\ inv' = [i \in Invoice |->
              IF i \in t.on THEN [inv[i] EXCEPT !.status = "REJECTED", !.by = "BUYER"]
              ELSE inv[i]]
        /\ Done(r)
        /\ UNCHANGED <<backlog, docs>>

\* The write of _lazy_finalize_if_due.
View(r) ==
    LET t == req[r]
    IN  /\ t.op = "view"
        /\ inv' = [i \in Invoice |->
              IF i \in t.on THEN [inv[i] EXCEPT !.status = "FINAL"] ELSE inv[i]]
        /\ Done(r)
        /\ UNCHANGED <<backlog, docs>>

\* bulk_finalize: one UPDATE on the current rows.
FinalizeScan ==
    /\ inv' = [i \in Invoice |->
          IF Due(inv[i]) THEN [inv[i] EXCEPT !.status = "FINAL"] ELSE inv[i]]
    /\ UNCHANGED <<backlog, docs, req>>

\* Any exception, timeout or crash ends the request; the documents stay.
Rollback(r) ==
    /\ req[r] # Idle
    /\ Done(r)
    /\ UNCHANGED <<inv, backlog, docs>>

-----------------------------------------------------------------------------
Older(age) == IF age > Window THEN age ELSE age + 1
Aged(x) == [x EXCEPT !.age = Older(x.age)]

Tick ==
    /\ \A r \in Slot : req[r] # Idle => ~req[r].late
    /\ inv' = [i \in Invoice |-> IF inv[i].status = "VALIDATED" THEN Aged(inv[i])
                                ELSE inv[i]]
    /\ docs' = [i \in Invoice |-> [n \in DOMAIN docs[i] |->
                  IF docs[i][n].status \in {"valid", "rejected"} THEN Aged(docs[i][n])
                  ELSE docs[i][n]]]
    /\ req' = [r \in Slot |->
                  IF req[r] = Idle THEN Idle
                  ELSE [req[r] EXCEPT
                          !.late = TRUE,
                          !.ans = [i \in Invoice |->
                              IF req[r].ans[i].status = "valid" THEN Aged(req[r].ans[i])
                              ELSE req[r].ans[i]]]]
    /\ UNCHANGED backlog

Commit(r) == Submit(r) \/ Refresh(r) \/ Reject(r) \/ View(r)

Next ==
    \/ \E r \in Request, i \in Invoice :
          BeginSubmit(r, i) \/ BeginRefresh(r, i) \/ BeginReject(r, i) \/ BeginView(r, i)
    \/ BeginScan
    \/ \E r \in Slot, i \in Invoice : Post(r, i) \/ Ask(r, i) \/ CallReject(r, i)
    \/ \E i \in Invoice : Skip(i)
    \/ \E r \in Slot : Commit(r) \/ Rollback(r)
    \/ FinalizeScan
    \/ \E i \in Invoice : \E n \in DOMAIN docs[i], status \in {"valid", "invalid", "unknown"} :
          Verdict(i, n, status)
    \/ Tick

Spec == Init /\ [][Next]_vars

\* Requests end and time passes.  Beat starts both scans again and again; from
\* some time on the worker does not crash, and an answer that a scan can have
\* it has in one of its attempts.  The authority need never decide.
Fairness ==
    /\ WF_vars(Tick)
    /\ \A r \in Request : WF_vars(Commit(r) \/ Rollback(r))
    /\ WF_vars(FinalizeScan)
    /\ WF_vars(BeginScan)
    /\ \A i \in Invoice : SF_vars(Ask(Beat, i)) /\ WF_vars(Skip(i))
    /\ WF_vars(Refresh(Beat))
    /\ <>[][Rollback(Beat) => Refresh(Beat)]_vars

FairSpec == Spec /\ Fairness

-----------------------------------------------------------------------------
(* Properties that hold while submissions of an invoice do not overlap,
   however everything else does *)

Doc(i) == docs[i][inv[i].uin]

\* VALIDATED and FINAL say that the authority validated the very document whose
\* UIN the invoice carries, and REJECTED by LHDN that it turned it down:
\* crashes, lost answers and late polls never put the ERP's word for it.
VerdictRespected ==
    \A i \in Invoice :
        /\ inv[i].status # "DRAFT" => inv[i].uin \in DOMAIN docs[i]
        /\ inv[i].status \in {"VALIDATED", "FINAL"} =>
              Doc(i).status \in {"valid", "rejected"}
        /\ inv[i].status = "REJECTED" /\ inv[i].by = "LHDN" =>
              Doc(i).status \in {"invalid", "rejected"}

\* A rejection by the buyer stands in the ERP only if the authority has it too.
RejectionTold ==
    \A i \in Invoice : inv[i].status = "REJECTED" /\ inv[i].by = "BUYER" =>
        Doc(i).status = "rejected"

\* No invoice is FINAL while its buyer could still object: neither scan nor
\* read closes it before the window has passed since the validation.
FinalAfterWindow ==
    \A i \in Invoice : inv[i].status = "FINAL" => Doc(i).age > Window

Change(i) == <<inv[i].status, inv'[i].status>>

\* Wherever a refresh, an opposition, a read and the scans overlap, an invoice
\* that was submitted never waits again for a submission, or for a verdict.
\* Billing relies on this for its invoices.
StatusMoves ==
    [][\A i \in Invoice :
          inv[i].status # inv'[i].status => Change(i) \in Moves \cup StaleMoves]_vars

-----------------------------------------------------------------------------
(* Properties that hold if an opposition overlaps with no refresh and no read *)

\* An invoice only moves forward: no answer that arrives late, and no finalisation,
\* takes back what was committed in between.  For this no two refreshes of an
\* invoice may overlap either.
StatusAdvances ==
    [][\A i \in Invoice : inv[i].status # inv'[i].status => Change(i) \in Moves]_vars

\* reject_by_buyer: what the buyer has rejected in time stays rejected.
RejectionStands == \A i \in Invoice : inv[i].by = "BUYER" => inv[i].status = "REJECTED"

-----------------------------------------------------------------------------
(* Properties of the scans, under FairSpec *)

\* run_pending_scan: an invoice the authority has decided on does not stay
\* SUBMITTED, although the scan of another one may fail for ever.
SettledEventually ==
    \A i \in Invoice :
        (inv[i].status = "SUBMITTED" /\ Doc(i).status \in {"valid", "invalid"})
            ~> inv[i].status # "SUBMITTED"

\* A validated invoice is closed in the end: FINAL, or rejected in time.
ClosedEventually ==
    \A i \in Invoice :
        inv[i].status = "VALIDATED" ~> inv[i].status \in {"FINAL", "REJECTED"}

-----------------------------------------------------------------------------
\* What the adapter promises: an invoice whose document is already lodged with
\* the authority is never submitted again.
LodgedOnce == \A i \in Invoice : Len(docs[i]) <= 1
=============================================================================
