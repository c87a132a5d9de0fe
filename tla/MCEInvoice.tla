----------------------------- MODULE MCEInvoice -----------------------------
(* Instances of EInvoice for TLC.  No symmetry: liveness is checked. *)
EXTENDS EInvoice
=============================================================================
