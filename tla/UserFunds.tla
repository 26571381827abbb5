------------------------------ MODULE UserFunds ------------------------------
(***************************************************************************)
(* What the ledger promises of the money of its users, without rows,       *)
(* journals or transactions: a user receives money, spends money they      *)
(* have, and loses what a bonus that is taken back was worth.  A user      *)
(* becomes suspect when two database transactions overlap on their         *)
(* account; nothing is promised of a suspect user.                         *)
(***************************************************************************)
EXTENDS Integers

CONSTANT Users

VARIABLES
  funds,        \* funds[u]: the money of the user
  takenBack,    \* takenBack[u]: bonuses taken back so far
  suspect       \* users nothing is promised of any more

fvars == <<funds, takenBack, suspect>>

FInit ==
  /\ funds = [u \in Users |-> 0]
  /\ takenBack = [u \in Users |-> 0]
  /\ suspect = {}

OnlyFundsOf(u) == \A v \in Users \ {u} : funds'[v] = funds[v]

\* A deposit or a bonus of one user, the payout of a game to several.
Receive ==
  /\ \A u \in Users : funds'[u] >= funds[u]
  /\ UNCHANGED <<takenBack, suspect>>

Spend(u) ==
  /\ funds'[u] < funds[u]
  /\ u \in suspect \/ funds'[u] >= 0
  /\ OnlyFundsOf(u)
  /\ UNCHANGED <<takenBack, suspect>>

TakeBack(u) ==
  /\ funds'[u] < funds[u]
  /\ takenBack' = [takenBack EXCEPT ![u] = @ + (funds[u] - funds'[u])]
  /\ OnlyFundsOf(u)
  /\ UNCHANGED suspect

BecomeSuspect(u) ==
  /\ suspect' = suspect \cup {u}
  /\ OnlyFundsOf(u)
  /\ UNCHANGED takenBack

FNext ==
  \/ Receive
  \/ \E u \in Users : Spend(u) \/ TakeBack(u) \/ BecomeSuspect(u)

FSpec == FInit /\ [][FNext]_fvars
=============================================================================
