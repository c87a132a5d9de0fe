----------------------------- MODULE MCServices ------------------------------
(***************************************************************************)
(* A small instance of each of the specifications in Services.             *)
(***************************************************************************)
EXTENDS Services

SafeFamiliesValue == {"sell", "buy", "return", "take in", "count up"}
GrantsValue == {{"ADMIN"}, {"SALES"}, {}}
=============================================================================
