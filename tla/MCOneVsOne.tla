----------------------------- MODULE MCOneVsOne -----------------------------
(* Model values and bounds for TLC's runs of OneVsOne. *)
EXTENDS OneVsOne

CONSTANT owner

\* One user opens all games, and anybody may accept them.
MCOwner == [g \in Games |-> owner]
MCInvited == [g \in Games |-> Nobody]
=============================================================================
