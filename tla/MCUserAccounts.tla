---------------------------- MODULE MCUserAccounts ----------------------------
(***************************************************************************)
(* UserAccounts for TLC.  Requests are alike.                              *)
(***************************************************************************)
EXTENDS UserAccounts, TLC

Symmetric == Permutations(Requests)

=============================================================================
