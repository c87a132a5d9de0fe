------------------------- MODULE MCStockAdjustment --------------------------
(* Instances of StockAdjustment for TLC. *)
EXTENDS StockAdjustment, TLC

CONSTANT x

\* A gain and a loss on different rows, and a loss on one row alone.
GainAndLoss == {[c \in Cell |-> IF c = x THEN 1 ELSE -1],
                [c \in Cell |-> IF c = x THEN 0 ELSE -1]}

Symmetry == Permutations(Adjustment) \cup Permutations(Request)
=============================================================================
