------------------------------ MODULE MCLedger ------------------------------
(* Model values and bounds for TLC's runs of Ledger. *)
EXTENDS Ledger, TLC

Symmetry == Permutations(Users) \cup Permutations(Calls)
=============================================================================
