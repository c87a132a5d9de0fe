----------------------------- MODULE MasterData -----------------------------
(***************************************************************************)
(* Two kinds of master data whose rows depend on each other: tax rates, of *)
(* which one is the default (services/tax_rate.py), and the tree of        *)
(* categories (services/category.py).  A request checks what its snapshot  *)
(* shows and writes, with the locks that MySQL takes, when it commits.     *)
(***************************************************************************)
EXTENDS Naturals, FiniteSets

CONSTANTS
    Request,
    Rate,
    Category,
    Root,           \* stands for no parent
    Together,       \* may requests about categories overlap?
    Moves           \* may a category be moved under another one?

VARIABLES
    rate,       \* per tax rate: there is none, it is plain, or it is the default
    category,   \* per category: live, and its parent
    call        \* requests in flight

vars == <<rate, category, call>>

NoCategory == [known |-> FALSE, live |-> FALSE, parent |-> Root]
CategoryRow == [known : BOOLEAN, live : BOOLEAN, parent : Category \cup {Root}]

Idle == [op |-> "idle"]
CategoryOps == {"create", "move", "delete"}

Init ==
    /\ rate = [t \in Rate |-> "none"]
    /\ category = [c \in Category |-> NoCategory]
    /\ call = [r \in Request |-> Idle]

Begin(r, c) ==
    /\ call[r] = Idle
    /\ Together \/ c.op \notin CategoryOps \/ \A s \in Request : call[s].op \notin CategoryOps
    /\ call' = [call EXCEPT ![r] = c]
    /\ UNCHANGED <<rate, category>>

End(r) == call' = [call EXCEPT ![r] = Idle]

Live(c) == category[c].live
Defaults == {t \in Rate : rate[t] = "default"}

-----------------------------------------------------------------------------
(* Tax rates *)

\* create_tax_rate looks for the code, update_tax_rate for the row; `seen`
\* is what the snapshot shows of the defaults.
BeginRate(r, t, op, default) ==
    /\ op = "new rate" <=> rate[t] = "none"
    /\ Begin(r, [op |-> op, rate |-> t, default |-> default, seen |-> Defaults])

\* A variant of Cleared: only the default that the request has read is cleared.
ClearedAsSeen(seen) == [t \in Rate |-> IF t \in seen THEN "plain" ELSE rate[t]]

\* clear_default: an UPDATE of all rows, which it locks, as they are now.
Cleared(seen) == [t \in Rate |-> IF rate[t] = "none" THEN "none" ELSE "plain"]

\* The rates after the request: a flag that it has read as it sets it is not
\* written.
RatesAfter(c) ==
    IF c.default
      THEN [Cleared(c.seen) EXCEPT ![c.rate] = "default"]
      ELSE IF c.op = "new rate" \/ c.rate \in c.seen
             THEN [rate EXCEPT ![c.rate] = "plain"]
             ELSE rate

\* A code that was taken meanwhile is refused by the unique constraint.
SaveRate(r) ==
    /\ call[r].op \in {"new rate", "edit rate"}
    /\ call[r].op = "new rate" => rate[call[r].rate] = "none"
    /\ rate' = RatesAfter(call[r])
    /\ End(r)
    /\ UNCHANGED category

-----------------------------------------------------------------------------
(* Categories *)

\* create_category: the parent is not deleted.
BeginCreate(r, c, p) ==
    /\ ~category[c].known
    /\ p # Root => Live(p)
    /\ Begin(r, [op |-> "create", category |-> c, parent |-> p])

\* update_category: nothing but the category itself is refused as a parent, and
\* no parent makes it a root.
BeginMove(r, c, p) ==
    /\ Live(c)
    /\ p # c
    /\ p # Root => Moves /\ category[p].known
    /\ Begin(r, [op |-> "move", category |-> c, parent |-> p])

Children(c) == {d \in Category : Live(d) /\ category[d].parent = c}

\* delete_category
BeginDelete(r, c) ==
    /\ Live(c)
    /\ Children(c) = {}
    /\ Begin(r, [op |-> "delete", category |-> c])

SaveCategory(r) ==
    LET c == call[r]
    IN  /\ c.op \in CategoryOps
        /\ c.op = "create" => ~category[c.category].known
        /\ category' =
              CASE c.op = "create" ->
                     [category EXCEPT ![c.category] =
                        [known |-> TRUE, live |-> TRUE, parent |-> c.parent]]
                [] c.op = "move" -> [category EXCEPT ![c.category].parent = c.parent]
                [] c.op = "delete" -> [category EXCEPT ![c.category].live = FALSE]
        /\ End(r)
        /\ UNCHANGED rate

Rollback(r) ==
    /\ call[r] # Idle
    /\ End(r)
    /\ UNCHANGED <<rate, category>>

Next ==
    \E r \in Request :
       \/ \E t \in Rate, default \in BOOLEAN, op \in {"new rate", "edit rate"} :
             BeginRate(r, t, op, default)
       \/ \E c \in Category :
             \/ BeginDelete(r, c)
             \/ \E p \in Category \cup {Root} : BeginCreate(r, c, p) \/ BeginMove(r, c, p)
       \/ SaveRate(r) \/ SaveCategory(r) \/ Rollback(r)

Spec == Init /\ [][Next]_vars

-----------------------------------------------------------------------------
(* What must hold *)

\* However requests that choose a default overlap, there are not two:
\* get_default would fail on them.
OneDefault == Cardinality(Defaults) <= 1

\* A live category hangs under live ones up to a root.
TreeSound ==
    \A c \in Category : Live(c) => category[c].parent = Root \/ Live(category[c].parent)

MastersSound == OneDefault /\ TreeSound
=============================================================================
