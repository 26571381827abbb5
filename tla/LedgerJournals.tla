--------------------------- MODULE LedgerJournals ---------------------------
(***************************************************************************)
(* The journals of the double-entry ledger (libs/ledger-package).  A       *)
(* journal is a list of credit and debit entries; what the ledger's        *)
(* behaviour depends on is the net credit it leaves on each kind of        *)
(* account, so a journal is a record of signed net credits:                *)
(*   user     Liabilities:userBalance:<user>                               *)
(*   hold     Liabilities:userBalance:<user>:hold                          *)
(*   bets     Liabilities:bets:<game>                                      *)
(*   assets   Assets:usd                                                   *)
(*   income   Income:fee:... and Income:funds:...                          *)
(*   outcome  Outcome:bonus and Outcome:networkFee:...                     *)
(* Names, meta data and the fee account an entry goes to are left out.     *)
(***************************************************************************)
EXTENDS Integers

Journal == [user: Int, hold: Int, bets: Int,
            assets: Int, income: Int, outcome: Int]

\* LedgerJournalEntity.checkIsBalanced: the debits equal the credits.
CheckIsBalanced(j) ==
  j.user + j.hold + j.bets + j.assets + j.income + j.outcome = 0

\* A bet moves the stake from the user to the liability account of the game.
CreateBetJournal(amount) ==
  [user |-> -amount, hold |-> 0, bets |-> amount,
   assets |-> 0, income |-> 0, outcome |-> 0]

\* The hourly fee of an x1000 bet is income.
PayBetFeeJournal(amount) ==
  [user |-> -amount, hold |-> 0, bets |-> 0,
   assets |-> 0, income |-> amount, outcome |-> 0]

\* `amount' is what the user receives, `platformFee' what the platform keeps.
DepositJournal(amount, platformFee) ==
  [user |-> amount, hold |-> 0, bets |-> 0,
   assets |-> -(amount + platformFee), income |-> platformFee, outcome |-> 0]

HoldJournal(total) ==
  [user |-> -total, hold |-> total, bets |-> 0,
   assets |-> 0, income |-> 0, outcome |-> 0]

UnholdJournal(total) ==
  [user |-> total, hold |-> -total, bets |-> 0,
   assets |-> 0, income |-> 0, outcome |-> 0]

\* What a settled withdrawal gives back when the network asked for less than
\* the fee held with it.
UnholdAmount(heldFee, paidFee) ==
  IF heldFee > paidFee THEN heldFee - paidFee ELSE 0

\* The network fee the platform pays itself when the network asked for more.
FeeShortfall(heldFee, paidFee) ==
  IF heldFee > paidFee THEN 0 ELSE paidFee - heldFee

\* MUTANT of WithdrawJournal: the assets give up the fee that was held, not
\* the fee the network asked for.
WithdrawJournalHeldFee(amount, heldFee, paidFee, platformFee) ==
  [user |-> UnholdAmount(heldFee, paidFee),
   hold |-> -(amount + heldFee),
   bets |-> 0,
   assets |-> heldFee + (amount - platformFee),
   income |-> platformFee,
   outcome |-> -FeeShortfall(heldFee, paidFee)]

\* The whole hold (amount + heldFee) is released; the network fee and the
\* amount less the platform fee leave the assets.
WithdrawJournal(amount, heldFee, paidFee, platformFee) ==
  [user |-> UnholdAmount(heldFee, paidFee),
   hold |-> -(amount + heldFee),
   bets |-> 0,
   assets |-> paidFee + (amount - platformFee),
   income |-> platformFee,
   outcome |-> -FeeShortfall(heldFee, paidFee)]

\* Challenge, referral and airdrop rewards, and the value of an NFT.
BonusJournal(amount) ==
  [user |-> amount, hold |-> 0, bets |-> 0,
   assets |-> 0, income |-> 0, outcome |-> -amount]

BonusRemovedJournal(amount) ==
  [user |-> -amount, hold |-> 0, bets |-> 0,
   assets |-> 0, income |-> 0, outcome |-> amount]

\* A closed game gives up the stakes it holds; `paid' is what its players get.
GameResolveJournal(stakes, paid, fee) ==
  [user |-> paid, hold |-> 0, bets |-> -stakes,
   assets |-> 0, income |-> fee, outcome |-> 0]
=============================================================================
