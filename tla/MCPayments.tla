----------------------------- MODULE MCPayments -----------------------------
(* Payments for TLC: the values of its constants are in the configuration. *)
EXTENDS Payments
=============================================================================
