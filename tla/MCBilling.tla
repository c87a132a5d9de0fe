----------------------------- MODULE MCBilling ------------------------------
EXTENDS Billing, TLC

CONSTANTS o1, o2, a, s, w1, w2

Customers == [o \in Order |-> a]
Skus == [o \in Order |-> s]
Warehouses == [o \in Order |-> IF o = o2 THEN w2 ELSE w1]
Quantities == [o \in Order |-> IF o = o2 THEN 1 ELSE 2]

\* One line at a time, and two different ones.
Singles == {<<[line |-> o, qty |-> q]>> : o \in Order, q \in 1 .. 2}
Pairs == {<<[line |-> o1, qty |-> 1], [line |-> o2, qty |-> 1]>>}
DistinctLines == Singles \cup Pairs

\* A request that names one line twice.
RepeatedLine == {<<[line |-> o1, qty |-> 1], [line |-> o1, qty |-> 1]>>}

Symmetry == Permutations(Request)
=============================================================================
