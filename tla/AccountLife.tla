---------------------------- MODULE AccountLife -----------------------------
(***************************************************************************)
(* How the row of a user stands and how that may change: what UserAdmin,   *)
(* which follows the rows, guarantees, and what Accounts, where sessions   *)
(* come and go meanwhile, relies on.                                       *)
(***************************************************************************)

Standings == {"none", "active", "inactive", "deleted"}

\* create_user; update_user; soft_delete, after which the address is taken.
AccountMoves ==
    {<<"none", "active">>,
     <<"active", "inactive">>, <<"inactive", "active">>,
     <<"active", "deleted">>, <<"inactive", "deleted">>}
=============================================================================
