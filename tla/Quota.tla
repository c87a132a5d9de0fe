-------------------------------- MODULE Quota -------------------------------
(***************************************************************************)
(* The scan of purchase orders by a language model, and its daily quota:   *)
(* routers/ai.py, services/ai_gate.py, services/quota.py, services/ocr.py. *)
(* One user; the counter is the key of today in Redis.                     *)
(***************************************************************************)
EXTENDS Integers, FiniteSets

CONSTANTS
    Request,
    Limit,          \* AI_OCR_DAILY_QUOTA
    MaxScans        \* bound on the scans that are begun in a day

VARIABLES
    open,       \* the switches of the organization and of the feature
    counter,    \* the key of today; 0: there is none
    granted,    \* units that were handed out today
    late,       \* refusals of today that were under way when Redis was lost
    scans,
    call        \* requests in flight

vars == <<open, counter, granted, late, scans, call>>

\* `today`: the key that the request counts on is still today's.
Idle == [at |-> "idle", today |-> FALSE]
At == {"idle", "admitted", "over", "granted", "uploaded", "asking"}

Init ==
    /\ open = TRUE
    /\ counter = 0
    /\ granted = 0
    /\ late = 0
    /\ scans = 0
    /\ call = [r \in Request |-> Idle]

Goto(r, at) == call' = [call EXCEPT ![r].at = at]
End(r) == call' = [call EXCEPT ![r] = Idle]

\* update_ai_settings
Switch ==
    /\ open' = ~open
    /\ UNCHANGED <<counter, granted, late, scans, call>>

\* AIFeatureGate.is_enabled: environment, organization, feature.  The key is
\* named here, once for all.
Admit(r) ==
    /\ open
    /\ call[r] = Idle
    /\ scans < MaxScans
    /\ scans' = scans + 1
    /\ call' = [call EXCEPT ![r] = [at |-> "admitted", today |-> TRUE]]
    /\ UNCHANGED <<open, counter, granted, late>>

\* INCR; the EXPIRE that follows the first one sets a TTL that does not end
\* before the day does.
Increment(r) ==
    /\ call[r].at = "admitted"
    /\ IF call[r].today
       THEN /\ counter' = counter + 1
            /\ Goto(r, IF counter' > Limit THEN "over" ELSE "granted")
            /\ granted' = IF counter' > Limit THEN granted ELSE granted + 1
       ELSE /\ \E at \in {"over", "granted"} : Goto(r, at)
            /\ UNCHANGED <<counter, granted>>
    /\ UNCHANGED <<open, late, scans>>

\* A variant of Refuse: the key is named anew for the DECR.
RefuseToday(r) ==
    /\ call[r].at = "over"
    /\ counter' = counter - 1
    /\ End(r)
    /\ UNCHANGED <<open, granted, late, scans>>

\* DECR, and 429.
Refuse(r) ==
    /\ call[r].at = "over"
    /\ counter' = IF call[r].today THEN counter - 1 ELSE counter
    /\ End(r)
    /\ UNCHANGED <<open, granted, late, scans>>

\* storage.save_upload; a refused file does not give the unit back.
Upload(r) ==
    /\ call[r].at = "granted"
    /\ Goto(r, "uploaded") \/ End(r)
    /\ UNCHANGED <<open, counter, granted, late, scans>>

\* extract_purchase_order sends the file.
Ask(r) ==
    /\ call[r].at = "uploaded"
    /\ Goto(r, "asking")
    /\ UNCHANGED <<open, counter, granted, late, scans>>

\* An answer, an error or the timeout; each is logged in a session of its own.
Answer(r) ==
    /\ call[r].at = "asking"
    /\ End(r)
    /\ UNCHANGED <<open, counter, granted, late, scans>>

\* The process dies: an increment that was to be taken back stays.
Crash ==
    /\ call' = [r \in Request |-> Idle]
    /\ UNCHANGED <<open, counter, granted, late, scans>>

\* Requests that will take an increment of today back.
Over == {r \in Request : call[r].today /\ call[r].at = "over"}

\* Redis is flushed or lost.  What was handed out is counted anew.
LoseRedis ==
    /\ counter' = 0
    /\ granted' = 0
    /\ late' = Cardinality(Over)
    /\ UNCHANGED <<open, scans, call>>

\* A new day has a new key.
Midnight ==
    /\ counter' = 0
    /\ granted' = 0
    /\ late' = 0
    /\ scans' = 0
    /\ call' = [r \in Request |-> [call[r] EXCEPT !.today = FALSE]]
    /\ UNCHANGED open

Next ==
    \/ \E r \in Request :
          Admit(r) \/ Increment(r) \/ Refuse(r) \/ Upload(r) \/ Ask(r) \/ Answer(r)
    \/ Switch
    \/ Crash
    \/ LoseRedis
    \/ Midnight

Spec == Init /\ [][Next]_vars
-----------------------------------------------------------------------------
(* What must hold *)

TypeOK ==
    /\ open \in BOOLEAN
    /\ counter \in Int
    /\ granted \in Nat
    /\ late \in Nat
    /\ scans \in 0 .. MaxScans
    /\ call \in [Request -> [at : At, today : BOOLEAN]]

\* However increments and the taking back of increments mix, across midnight
\* and when the process dies between the two: no more units are handed out in a
\* day than the quota, and nobody is refused before that many were.  Only a
\* refusal that was under way when Redis was lost makes one more possible.
QuotaExact ==
    /\ granted <= Limit + late
    /\ late = 0 /\ Over # {} => granted = Limit
=============================================================================
