-------------------------- MODULE MCStockTransfer ---------------------------
(* Instances of StockTransfer for TLC. *)
EXTENDS StockTransfer, TLC

\* One or two units of every SKU.
SmallBaskets == {[s \in Sku |-> n] : n \in 1 .. 2}

Symmetry == Permutations(Transfer) \cup Permutations(Request)
                \cup Permutations(Warehouse)
=============================================================================
