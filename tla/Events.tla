------------------------------- MODULE Events -------------------------------
(***************************************************************************)
(* Domain events after the commit: events/base.py, the handlers, the cache *)
(* of the dashboard (services/dashboard.py) and the notifications.         *)
(*                                                                         *)
(* Requests change the documents and the stock of one article, commit, and *)
(* then run the handlers of what they published, one at a time; Celery     *)
(* tasks commit and run none.  A commit is known by its number.            *)
(***************************************************************************)
EXTENDS Naturals, Sequences

CONSTANTS
    Request,        \* slots for requests that change something
    Viewer,         \* slots for requests that show the dashboard
    MaxCommits      \* bound on the commits

VARIABLES
    commits,    \* the number of commits so far
    dipped,     \* the commit that took the stock below safety_stock, or None
    queue,      \* per request the handlers that are still to run
    due,        \* what the handlers have to write: pairs of a commit and a row
    trail,      \* what they wrote
    missing,    \* what the handlers that failed were for
    unread,     \* there is an unread LOW_STOCK notification of the last hour
    told,       \* there was one since the stock is low
    cached,     \* the commit that the cached figures show, or None
    view        \* overviews in flight

vars == <<commits, dipped, queue, due, trail, missing, unread, told, cached, view>>

None == 0

\* Handlers in the order of setup_event_handlers, for the events of one
\* request in the order in which they are published.
OfMovement == <<"cache", "notice", "movement log">>
OfStatus == <<"audit", "cache", "status log">>
\* EInvoiceValidated has handlers of the same kinds and comes with an OfStatus,
\* which stands for it; the notice to the sales team is a row like the others.
\* bulk_finalize publishes an event about document 0: audit skips it.
OfScan == <<"cache", "status log">>

\* The rows that handlers insert.
Rows == {"audit", "movement log", "status log"}

\* A confirmation or a delivery, a change that moves no stock, a scan.
Published == {OfMovement \o OfStatus, OfStatus, OfScan}

Tasks(c, todo) == [i \in DOMAIN todo |-> [commit |-> c, do |-> todo[i]]]

\* What is noted of tasks; whether the cache was dropped is seen from the cache.
Entries(tasks) ==
    {<<tasks[i].commit, tasks[i].do>> : i \in {j \in DOMAIN tasks : tasks[j].do # "cache"}}

NoView == [step |-> "none"]

Init ==
    /\ commits = 1
    /\ dipped = None
    /\ queue = [r \in Request |-> <<>>]
    /\ due = {}
    /\ trail = {}
    /\ missing = {}
    /\ unread = FALSE
    /\ told = FALSE
    /\ cached = None
    /\ view = [v \in Viewer |-> NoView]

-----------------------------------------------------------------------------
(* Commits *)

\* The stock after a commit of movements: a new dip, the same one, or none.
Moved ==
    \/ /\ dipped = None
       /\ dipped' = commits'
       /\ told' = unread
    \/ /\ dipped # None
       /\ UNCHANGED <<dipped, told>>
    \/ /\ dipped' = None
       /\ told' = FALSE

\* get_db: commit, and only then are the pending events drained.  A request
\* that fails has published to nobody.
Commit(r, todo) ==
    /\ commits < MaxCommits
    /\ queue[r] = <<>>
    /\ commits' = commits + 1
    /\ queue' = [queue EXCEPT ![r] = Tasks(commits', todo)]
    /\ due' = due \cup {e \in Entries(queue'[r]) : e[2] \in Rows}
    /\ IF <<commits', "notice">> \in Entries(queue'[r])
       THEN Moved
       ELSE UNCHANGED <<dipped, told>>
    /\ UNCHANGED <<trail, missing, unread, cached, view>>

\* A Celery task commits, whose session nobody drains, or a request that
\* publishes nothing, such as the creation of a draft.
CommitSilently ==
    /\ commits < MaxCommits
    /\ commits' = commits + 1
    /\ UNCHANGED <<dipped, queue, due, trail, missing, unread, told, cached, view>>

-----------------------------------------------------------------------------
(* Handlers *)

Turn(r, do) == queue[r] # <<>> /\ Head(queue[r]).do = do
Finish(r) == queue' = [queue EXCEPT ![r] = Tail(@)]

\* audit_logs and event_logs: a row, in a session of its own.
Write(r, kind) ==
    /\ Turn(r, kind)
    /\ trail' = trail \cup {<<Head(queue[r]).commit, kind>>}
    /\ Finish(r)
    /\ UNCHANGED <<commits, dipped, due, missing, unread, told, cached, view>>

\* invalidate_dashboard_cache
DropCache(r) ==
    /\ Turn(r, "cache")
    /\ cached' = None
    /\ Finish(r)
    /\ UNCHANGED <<commits, dipped, due, trail, missing, unread, told, view>>

\* notify_on_low_stock reads the stock again, and looks for an unread notice of
\* the last hour.
NeedsNotice == dipped # None /\ ~unread

LookAtStock(r) ==
    /\ Turn(r, "notice")
    /\ IF NeedsNotice
       THEN queue' = [queue EXCEPT ![r][1].do = "notify"]
       ELSE Finish(r)
    /\ UNCHANGED <<commits, dipped, due, trail, missing, unread, told, cached, view>>

\* The insert, whatever has become of the stock by then.
Notify(r) ==
    /\ Turn(r, "notify")
    /\ unread' = TRUE
    /\ told' = (dipped # None)
    /\ Finish(r)
    /\ UNCHANGED <<commits, dipped, due, trail, missing, cached, view>>

\* A variant of Fail: the exception ends the drain.
FailForAll(r) ==
    /\ queue[r] # <<>>
    /\ missing' = missing \cup Entries(<<Head(queue[r])>>)
    /\ queue' = [queue EXCEPT ![r] = <<>>]
    /\ UNCHANGED <<commits, dipped, due, trail, unread, told, cached, view>>

\* A handler fails: drain_after_commit logs it and goes on.
Fail(r) ==
    /\ queue[r] # <<>>
    /\ missing' = missing \cup Entries(<<Head(queue[r])>>)
    /\ Finish(r)
    /\ UNCHANGED <<commits, dipped, due, trail, unread, told, cached, view>>

\* The process dies: the events were in its memory.
Crash ==
    /\ missing' = missing \cup UNION {Entries(queue[r]) : r \in Request}
    /\ queue' = [r \in Request |-> <<>>]
    /\ view' = [v \in Viewer |-> NoView]
    /\ UNCHANGED <<commits, dipped, due, trail, unread, told, cached>>

-----------------------------------------------------------------------------
(* Readers *)

\* get_overview: the snapshot is that of get_current_user; the cache is read
\* and, when it is empty, the figures are computed from the snapshot.
Overview(v) ==
    /\ view[v] = NoView
    /\ view' = [view EXCEPT ![v] = [step |-> "asked", commit |-> commits]]
    /\ UNCHANGED <<commits, dipped, queue, due, trail, missing, unread, told, cached>>

ReadCache(v) ==
    /\ view[v].step = "asked"
    /\ view' = [view EXCEPT ![v] = IF cached # None THEN NoView
                                   ELSE [@ EXCEPT !.step = "missed"]]
    /\ UNCHANGED <<commits, dipped, queue, due, trail, missing, unread, told, cached>>

\* Between the miss and this step the cache may have been dropped or filled.
FillCache(v) ==
    /\ view[v].step = "missed"
    /\ cached' = view[v].commit
    /\ view' = [view EXCEPT ![v] = NoView]
    /\ UNCHANGED <<commits, dipped, queue, due, trail, missing, unread, told>>

\* A variant of Expire: what is cached stays until an event drops it.
ExpireNever == FALSE /\ UNCHANGED vars

\* The TTL of five minutes.
Expire ==
    /\ cached # None
    /\ cached' = None
    /\ UNCHANGED <<commits, dipped, queue, due, trail, missing, unread, told, view>>

\* mark_one_read, mark_all_read; or the dedupe window of an hour passes.
NoticeGone ==
    /\ unread
    /\ unread' = FALSE
    /\ UNCHANGED <<commits, dipped, queue, due, trail, missing, told, cached, view>>

Run(r) ==
    \/ \E kind \in Rows : Write(r, kind)
    \/ DropCache(r)
    \/ LookAtStock(r)
    \/ Notify(r)
    \/ Fail(r)

Next ==
    \/ \E r \in Request : Run(r) \/ \E todo \in Published : Commit(r, todo)
    \/ CommitSilently
    \/ Crash
    \/ \E v \in Viewer : Overview(v) \/ ReadCache(v) \/ FillCache(v)
    \/ Expire
    \/ NoticeGone

\* Redis honours the TTL.  Nothing is asked of handlers and requests.
Fairness == WF_vars(Expire)

Spec == Init /\ [][Next]_vars
FairSpec == Spec /\ Fairness

-----------------------------------------------------------------------------
(* What must hold *)

Waiting == UNION {Entries(queue[r]) : r \in Request}

\* Whatever fails, and in whatever order requests are drained: an entry of a
\* commit is written, still to be written, or its own handler is the one that
\* failed; nothing is written for what was not committed.
TrailKept == due \ Waiting = trail \cup (missing \cap due)

\* Stock ran low, whoever moved it since: unless the handler of the commit that
\* took it there is still to run or has failed, there was an unread notice less
\* than an hour old.
Undone(e) == e \in Waiting \cup missing
StockWarned ==
    dipped # None /\ ~Undone(<<dipped, "notice">>) /\ ~Undone(<<dipped, "notify">>) => told

NothingForgotten == TrailKept /\ StockWarned

DashboardCurrent == cached \in {None, commits}

\* Once commits stop, the dashboard shows their figures, although handlers that
\* drop the cache fail, die with their process or come before the answer of an
\* older overview is cached, and the commits of tasks drop nothing.
DashboardCatchesUp == <>[]DashboardCurrent
=============================================================================
