--------------------------- MODULE MCPurchaseFlow ---------------------------
(* Instances of PurchaseFlow for TLC. *)
EXTENDS PurchaseFlow, TLC

\* One or two units of every SKU.
SmallBaskets == {[s \in Sku |-> n] : n \in 1 .. 2}

Symmetry == Permutations(Order) \cup Permutations(Request)
=============================================================================
