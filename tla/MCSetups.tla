------------------------------ MODULE MCSetups ------------------------------
(* Model values and bounds for TLC's runs of Setups. *)
EXTENDS Setups

CONSTANT owner

\* One user opens all games.
MCOwner == [g \in Games |-> owner]
=============================================================================
