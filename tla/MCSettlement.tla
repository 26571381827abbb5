---------------------------- MODULE MCSettlement ----------------------------
(* Bounds for TLC's runs of Settlement: its numbers have to stay below 2^31. *)
EXTENDS Settlement

ASSUME NumbersAssumption ==
  \A s \in Stakes :
    /\ s * MaxPool <= 21
    /\ \A m \in Multipliers : s * m * MaxPrice <= 21
=============================================================================
