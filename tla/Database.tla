------------------------------ MODULE Database ------------------------------
(***************************************************************************)
(* The life of the database: migrated, seeded, filled with documents and   *)
(* reset to a demo (services/demo_reset.py, tasks/demo_reset.py), while    *)
(* requests go on.  Only which tables exist and hold rows is kept.  The    *)
(* reset switches foreign keys off and truncates one table after another,  *)
(* each for good at once; nothing keeps a second reset from starting.      *)
(***************************************************************************)
EXTENDS Schema, Naturals

CONSTANTS
    Job,            \* slots for migrations, seeds and resets
    MaxInserts,     \* bound on the inserts by requests during resets
    MaxResets       \* bound on the resets

VARIABLES
    exists,     \* the tables that exist
    filled,     \* the tables that hold rows
    job,        \* what runs in each slot, and its next step
    dangling,   \* pairs of tables: rows of the first refer to lost rows of the second
    touched,    \* tables that requests or other resets filled during a reset
    refused,    \* a statement of a migration or a seed was refused
    inserts,
    resets

vars == <<exists, filled, job, dangling, touched, refused, inserts, resets>>

Idle == [kind |-> "idle", next |-> 1]

Running(kind) == {j \in Job : job[j].kind = kind}

\* A variant of WipeSales: invoices go before the lines that refer to them.
WipeHeadersFirst ==
    <<"payment_allocations", "payments", "credit_note_lines", "credit_notes", "invoices",
      "invoice_lines", "delivery_order_lines", "delivery_orders", "sales_order_lines",
      "sales_orders">>

\* RESET_TABLES
WipeSales ==
    <<"payment_allocations", "payments", "credit_note_lines", "credit_notes", "invoice_lines",
      "invoices", "delivery_order_lines", "delivery_orders", "sales_order_lines",
      "sales_orders">>
WipeRest ==
    <<"goods_receipt_lines", "goods_receipts", "purchase_order_lines", "purchase_orders",
      "stock_adjustment_lines", "stock_adjustments", "stock_transfer_lines",
      "stock_transfers", "stock_movements", "stocks", "notifications", "audit_logs",
      "ai_call_logs", "uploaded_files", "login_attempts", "event_logs", "demo_reset_logs",
      "document_sequences">>

Wipe == WipeSales \o WipeRest

\* No endpoint records payments yet.
Written == ToSet(Wipe) \ {"payments", "payment_allocations"}

Init ==
    /\ exists = {}
    /\ filled = {}
    /\ job = [j \in Job |-> Idle]
    /\ dangling = {}
    /\ touched = {}
    /\ refused = FALSE
    /\ inserts = 0
    /\ resets = 0

-----------------------------------------------------------------------------
(* Migrations and seeds: run by hand, one at a time *)

Alone == \A j \in Job : job[j] = Idle

Start(j, kind) == job' = [job EXCEPT ![j] = [kind |-> kind, next |-> 1]]

\* On to the next of `steps` steps, or to the end.
Advance(j, steps) ==
    job' = [job EXCEPT ![j] = IF @.next = steps THEN Idle
                              ELSE [kind |-> @.kind, next |-> @.next + 1]]

StartByHand(j, kind) ==
    /\ Alone
    /\ CASE kind = "upgrade" -> exists = {}
         [] kind = "seed" -> exists = Table
         [] kind = "downgrade" -> exists = Table /\ resets = 0
    /\ Start(j, kind)
    /\ UNCHANGED <<exists, filled, dangling, touched, refused, inserts, resets>>

\* CREATE TABLE is refused when a referenced table is not there.
Upgrade(j) ==
    /\ job[j].kind = "upgrade"
    /\ LET t == Creation[job[j].next]
       IN  /\ exists' = exists \cup {t.name}
           /\ refused' = (refused \/ ~(t.needs \cup t.may \subseteq exists'))
    /\ Advance(j, Len(Creation))
    /\ UNCHANGED <<filled, dangling, touched, inserts, resets>>

\* DROP TABLE is refused when a table that is there refers to it; the late
\* reference goes just before the table that it points to.
Downgrade(j) ==
    /\ job[j].kind = "downgrade"
    /\ LET t == Dropping[job[j].next]
           inTheWay == {s \in exists \ {t} : t \in References[s] /\ <<s, t>> # LateReference}
       IN  /\ exists' = exists \ {t}
           /\ filled' = filled \ {t}
           /\ refused' = (refused \/ inTheWay # {})
    /\ Advance(j, Len(Dropping))
    /\ UNCHANGED <<dangling, touched, inserts, resets>>

\* One script of seed_all_master; it inserts what is missing.
Seed(j) ==
    /\ job[j].kind = "seed"
    /\ LET script == Scripts[job[j].next]
       IN  IF Runs(script, filled)
           THEN filled' = filled \cup Tables(script) /\ UNCHANGED refused
           ELSE refused' = TRUE /\ UNCHANGED filled
    /\ Advance(j, Len(Scripts))
    /\ UNCHANGED <<exists, dangling, touched, inserts, resets>>

-----------------------------------------------------------------------------
(* Requests *)

Seeded == Tables(Scripts[1]) \cup Tables(Scripts[6]) \subseteq filled

\* Business goes on until every kind of document is there.
Trade ==
    /\ Alone
    /\ Seeded
    /\ filled' = filled \cup Written
    /\ UNCHANGED <<exists, job, dangling, touched, refused, inserts, resets>>

\* A request commits rows of one table during a reset; its foreign keys are
\* checked.
Insert(t) ==
    /\ Running("reset") # {}
    /\ inserts < MaxInserts
    /\ Needs[t] \subseteq filled
    /\ filled' = filled \cup {t}
    /\ touched' = touched \cup {t}
    /\ inserts' = inserts + 1
    /\ UNCHANGED <<exists, job, dangling, refused, resets>>

-----------------------------------------------------------------------------
(* run_demo_reset; a step after the wipe is the reseed, the last is the log.  *)
(* What the flush of Redis in between does is in Numbers, Quota, Accounts.  *)

StartReset(j) ==
    /\ job[j] = Idle
    /\ Running("upgrade") \cup Running("downgrade") \cup Running("seed") = {}
    /\ Seeded
    /\ resets < MaxResets
    /\ Start(j, "reset")
    /\ resets' = resets + 1
    /\ filled' = filled \cup {"demo_reset_logs"}
    /\ UNCHANGED <<exists, dangling, touched, refused, inserts>>

Resetting(j, steps) == job[j].kind = "reset" /\ job[j].next \in steps
LogStep == Len(Wipe) + 2

\* TRUNCATE commits at once.
Truncate(j) ==
    /\ Resetting(j, 1 .. Len(Wipe))
    /\ LET t == Wipe[job[j].next]
           lost == {s \in filled \ {t} : t \in filled /\ t \in References[s]}
       IN  /\ filled' = filled \ {t}
           /\ touched' = touched \ {t}
           /\ dangling' = {p \in dangling : p[1] # t} \cup {<<s, t>> : s \in lost}
    /\ Advance(j, LogStep)
    /\ UNCHANGED <<exists, refused, inserts, resets>>

\* One transaction; with the other reset in its wipe it is traffic like any.
ReseedAll(j) ==
    /\ Resetting(j, {Len(Wipe) + 1})
    /\ Runs(Reseed, filled)
    /\ filled' = filled \cup Tables(Reseed)
    /\ touched' = IF Running("reset") = {j} THEN touched ELSE touched \cup Tables(Reseed)
    /\ Advance(j, LogStep)
    /\ UNCHANGED <<exists, dangling, refused, inserts, resets>>

\* A statement of the wipe fails: the log is written at once, the rest of the
\* wipe never runs.
WipeFails(j) ==
    /\ Resetting(j, 1 .. Len(Wipe))
    /\ filled' = filled \cup {"demo_reset_logs"}
    /\ job' = [job EXCEPT ![j] = Idle]
    /\ UNCHANGED <<exists, dangling, touched, refused, inserts, resets>>

\* The reseed stops in or after its n-th script.  Nothing is rolled back before
\* the log is merged, so what was flushed until then is committed with it.  If
\* it was a flush that failed, as it is where its documents are there already,
\* the session refuses the merge: nothing is kept, and Die is what remains.
ReseedFails(j) ==
    /\ Resetting(j, {Len(Wipe) + 1})
    /\ \E n \in 0 .. Len(Reseed) :
          LET flushed == Tables(SubSeq(Reseed, 1, n)) IN
          /\ Runs(SubSeq(Reseed, 1, n), filled)
          /\ filled' = filled \cup flushed \cup {"demo_reset_logs"}
          /\ touched' = IF Running("reset") = {j} THEN touched ELSE touched \cup flushed
    /\ job' = [job EXCEPT ![j] = Idle]
    /\ UNCHANGED <<exists, dangling, refused, inserts, resets>>

Log(j) ==
    /\ Resetting(j, {LogStep})
    /\ filled' = filled \cup {"demo_reset_logs"}
    /\ Advance(j, LogStep)
    /\ UNCHANGED <<exists, dangling, touched, refused, inserts, resets>>

\* The worker or the process of a seed dies, or the reset loses its connection:
\* what was committed stays.
Die(j) ==
    /\ job[j].kind \in {"seed", "reset"}
    /\ job' = [job EXCEPT ![j] = Idle]
    /\ UNCHANGED <<exists, filled, dangling, touched, refused, inserts, resets>>

Next ==
    \/ \E j \in Job :
          \/ \E kind \in {"upgrade", "seed", "downgrade"} : StartByHand(j, kind)
          \/ Upgrade(j) \/ Downgrade(j) \/ Seed(j)
          \/ StartReset(j) \/ Truncate(j) \/ WipeFails(j)
          \/ ReseedAll(j) \/ ReseedFails(j) \/ Log(j) \/ Die(j)
    \/ Trade
    \/ \E t \in Written : Insert(t)

Spec == Init /\ [][Next]_vars

-----------------------------------------------------------------------------
(* What must hold *)

\* The migrations and the seeds run in their order, and wherever a reset is
\* cut off, and however often it is run, no row of a table refers to a lost
\* row, although foreign keys are off - unless requests, or another reset, have
\* filled that table behind the wipe: such rows do dangle.
ReferencesHold ==
    /\ ~refused
    /\ \A p \in dangling : p[1] \in touched

\* run_demo_reset: where neither requests nor another reset fill a table behind
\* the wipe, no row refers to a lost one at any moment.
NothingDangles == ~refused /\ dangling = {}
=============================================================================
