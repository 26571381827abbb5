------------------------------ MODULE MCX1000 ------------------------------
(* Model values and bounds for TLC's run of X1000. *)
EXTENDS X1000

CONSTANTS u1, p1

\* The game is of one user, and one of the prices may end it.
MCOwner == [g \in Games |-> u1]
MCTriggers == {{p1}}
=============================================================================
