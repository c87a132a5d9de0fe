------------------------------- MODULE Numbers ------------------------------
(***************************************************************************)
(* Document numbers: services/sequence.py.  One counter, that of one kind  *)
(* of document in one year, kept three times: in Redis, in the table       *)
(* document_sequences and in the numbers of the documents themselves.      *)
(* The request that draws a number stores it, with its document, when it   *)
(* commits; what it reads of the tables is its snapshot.                   *)
(***************************************************************************)
EXTENDS Integers

CONSTANTS
    Request,
    MaxNumber       \* bound on the numbers drawn

VARIABLES
    counter,    \* the key in Redis; 0: there is none
    row,        \* current_value in document_sequences; 0: there is no row
    docs,       \* numbers of the committed documents
    req         \* requests in flight

vars == <<counter, row, docs, req>>

Idle == [at |-> "idle"]
InFlight(r) == req[r].at # "idle"
Drawn(r) == req[r].at = "drawn"

\* A disturbance takes place behind the back of the service.  `side` tells a
\* request that it found in flight ("before") from one that began next to such
\* a request ("beside") and from the rest ("after").
Side == {"before", "beside", "after"}

Number == 1 .. MaxNumber

Init ==
    /\ counter = 0
    /\ row = 0
    /\ docs = {}
    /\ req = [r \in Request |-> Idle]

\* The greatest number that the snapshot shows, in the row or in a document.
Seeds == {n \in docs \cup {row} : \A m \in docs \cup {row} : m <= n}

\* A request begins: db_seed, and the row that _upsert_sequence_record finds.
Begin(r) ==
    /\ ~InFlight(r)
    /\ \E n \in Seeds :
          req' = [req EXCEPT ![r] =
                    [at |-> "begun", seed |-> n, row |-> row, number |-> 0,
                     side |-> IF \E s \in Request : InFlight(s) /\ req[s].side = "before"
                              THEN "beside" ELSE "after"]]
    /\ UNCHANGED <<counter, row, docs>>

\* A variant of Floor: the counter alone decides.
FloorForgotten(seed) == counter

\* _INCR_WITH_FLOOR_LUA, up to the INCR.
Floor(seed) == IF counter < seed THEN seed ELSE counter

\* next_document_no.
Draw(r) ==
    /\ req[r].at = "begun"
    /\ Floor(req[r].seed) < MaxNumber
    /\ counter' = Floor(req[r].seed) + 1
    /\ req' = [req EXCEPT ![r].at = "drawn", ![r].number = counter']
    /\ UNCHANGED <<row, docs>>

\* The commit.  Unique constraints refuse a number that is taken, and a first
\* row when there is one by now; a row that was found is overwritten.
Commit(r) ==
    /\ Drawn(r)
    /\ req[r].number \notin docs
    /\ req[r].row = 0 => row = 0
    /\ docs' = docs \cup {req[r].number}
    /\ row' = req[r].number
    /\ req' = [req EXCEPT ![r] = Idle]
    /\ UNCHANGED counter

\* The request fails.  What Redis counted stays counted.
Rollback(r) ==
    /\ InFlight(r)
    /\ req' = [req EXCEPT ![r] = Idle]
    /\ UNCHANGED <<counter, row, docs>>

Disturb ==
    req' = [r \in Request |-> IF InFlight(r) THEN [req[r] EXCEPT !.side = "before"] ELSE Idle]

\* Redis is lost.
LoseRedis ==
    /\ counter' = 0
    /\ Disturb
    /\ UNCHANGED <<row, docs>>

\* A document is inserted by hand or by a seed script.
OutOfBand(n) ==
    /\ docs' = docs \cup {n}
    /\ Disturb
    /\ UNCHANGED <<counter, row>>

\* The demo reset truncates the tables and flushes Redis.
Wipe ==
    /\ counter' = 0
    /\ row' = 0
    /\ docs' = {}
    /\ Disturb

Next ==
    \/ \E r \in Request : Begin(r) \/ Draw(r) \/ Commit(r) \/ Rollback(r)
    \/ LoseRedis
    \/ \E n \in Number : OutOfBand(n)
    \/ Wipe

Spec == Init /\ [][Next]_vars

-----------------------------------------------------------------------------
(* What must hold *)

Held == [at : {"begun", "drawn"}, seed : Nat, row : Nat, number : Nat, side : Side]

TypeOK ==
    /\ counter \in Nat
    /\ row \in Nat
    /\ docs \subseteq Nat
    /\ req \in [Request -> Held \cup {Idle}]

\* Redis, the row and the documents may lag behind each other in every way:
\* a number drawn by a request that began when no request was left in flight
\* from before the last disturbance is neither a document's nor another
\* request's.
NumbersFresh ==
    \A r \in Request :
       Drawn(r) /\ req[r].side = "after"
          => /\ req[r].number \notin docs
             /\ \A s \in Request \ {r} : Drawn(s) => req[s].number # req[r].number
=============================================================================
