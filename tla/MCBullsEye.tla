----------------------------- MODULE MCBullsEye -----------------------------
(* BullsEye for TLC.  With 20001 two guesses are as close and exact, with   *)
(* 20030 the third is closest and not exact.                                *)
EXTENDS BullsEye

CONSTANTS b1, b2, b3

MCGuess == [b \in Bets |-> IF b = b1 THEN 20000 ELSE IF b = b2 THEN 20002 ELSE 20004]
=============================================================================
