---------------------------- MODULE MCSalesFlow -----------------------------
(* Instances of SalesFlow for TLC. *)
EXTENDS SalesFlow, TLC

CONSTANT a

\* One unit of each of two SKUs: the lines can be shipped separately.
PairBasket == {[s \in Sku |-> 1]}

\* One or two units of a single SKU: shipments can be partial.
SmallBaskets == {[s \in Sku |-> n] : n \in 1 .. 2}

\* Two units of a, or one of each: lines can be partial and can come and go.
MixedBaskets == {[s \in Sku |-> IF s = a THEN 2 ELSE 0], [s \in Sku |-> 1]}

Symmetry == Permutations(Order) \cup Permutations(Request)
=============================================================================
