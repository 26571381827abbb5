----------------------------- MODULE MCRoundGame -----------------------------
(* RoundGame for TLC: the values of its constants are in the configuration. *)
EXTENDS RoundGame
=============================================================================
