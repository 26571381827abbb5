----------------------------- MODULE Settlement -----------------------------
(***************************************************************************)
(* How an up/down, setup, 1vs1 or x1000 game is decided and what it pays:  *)
(* the result functions of the workers work out of the end price and the   *)
(* bets who has won how much, the database rounds that to the eight        *)
(* decimals of its columns, and the ledger makes a journal of it.          *)
(*                                                                         *)
(* Bets of the same side and stake get the same, so that only their number *)
(* is kept.  Stakes are in dollars; what the database stores is in units   *)
(* of 10^-8 dollars, as are all sums of money below.                       *)
(***************************************************************************)
EXTENDS Integers, FiniteSets, Functions

CONSTANTS
  Kinds,       \* of AllKinds; a 1vs1 game is "onevsone", or "exact" when the
               \* two guess the price
  Stakes,      \* the stakes of a bet, in dollars
  MaxPool,     \* bound: the stakes on one side, in dollars
  MaxPrice,    \* bound: prices are 1 .. MaxPrice
  Multipliers  \* of x1000 bets

AllKinds == {"updown", "setup", "onevsone", "exact", "x1000"}

ASSUME KindsAssumption == Kinds \subseteq AllKinds
ASSUME StakesAssumption == Stakes \subseteq Nat \ {0} /\ IsFiniteSet(Stakes)
ASSUME MaxPoolAssumption == MaxPool \in Nat
ASSUME MaxPriceAssumption == MaxPrice \in Nat
ASSUME MultipliersAssumption == Multipliers \subseteq 1 .. 1000

VARIABLES
  rules,       \* what the game was opened with, see Rules
  bets,        \* bets[side][s]: number of bets of s dollars on a side
  endPrice,    \* 0 when there is none
  endedBy,     \* "price", a price that hit a bound, "time" (a user or a
               \* commission that is not paid ends a game, too), or "none"
  result,      \* "none", "reject", or the side that has won
  row,         \* row[s]: what is stored of a winning bet, or the bet of an
               \* x1000 game, of s dollars
  ownerProfit, \* what is stored of the fee of the setup's owner
  journal      \* "none", "saved", or "refused" because it is not balanced

svars == <<rules, bets, endPrice, endedBy, result, row, ownerProfit, journal>>

Dollar == 100000000

\* platformFee is one percent.
FeeOf(amount) == amount \div 100

Prices == 1 .. MaxPrice

\* isUp of a bet: that the price rises, or that a setup takes its profit.  The
\* owner of an exact 1vs1 game is "up", and the one bet of an x1000 game.
Sides == {"up", "down"}
Other(side) == IF side = "up" THEN "down" ELSE "up"

IsAbove(p, q, isLong) == IF isLong THEN p > q ELSE p < q

UpDownRules == [kind : {"updown"}, start : Prices]

\* validateCreateGameInput: the bounds of a setup are around its start.
SetupRules ==
  {r \in [kind : {"setup"}, isLong : BOOLEAN, start : Prices,
          takeProfit : Prices, stopLoss : Prices] :
     /\ IsAbove(r.takeProfit, r.start, r.isLong)
     /\ IsAbove(r.start, r.stopLoss, r.isLong)}

\* checkAddX1000BetParams: so they are, if given, in an x1000 game.
X1000Rules ==
  {r \in [kind : {"x1000"}, isLong : BOOLEAN, start : Prices,
          takeProfit : 0 .. MaxPrice, stopLoss : 0 .. MaxPrice,
          multiplier : Multipliers, pnlFee : BOOLEAN] :
     /\ r.takeProfit # 0 => IsAbove(r.takeProfit, r.start, r.isLong)
     /\ r.stopLoss # 0 => IsAbove(r.start, r.stopLoss, r.isLong)}

\* The direction is the owner's; in an exact game nothing depends on the start.
OneVsOneRules == [kind : {"onevsone"}, isLong : BOOLEAN, start : Prices]
ExactRules == [kind : {"exact"}, guess : [Sides -> Prices]]

Rules ==
  {r \in UpDownRules \cup SetupRules \cup X1000Rules \cup OneVsOneRules
         \cup ExactRules : r.kind \in Kinds}

IsSetup == rules.kind = "setup"
IsOneVsOne == rules.kind \in {"onevsone", "exact"}
IsX1000 == rules.kind = "x1000"
HasPools == ~IsOneVsOne /\ ~IsX1000
Row == [pnl : Int, fee : Nat]

\* The dollars on a side, and the number of its bets.
Pool(side) == SumFunction([s \in Stakes |-> s * bets[side][s]])
Count(side) == SumFunction(bets[side])

SettlementTypeOK ==
  /\ rules \in Rules
  /\ bets \in [Sides -> [Stakes -> Nat]]
  /\ endPrice \in 0 .. MaxPrice
  /\ endedBy \in {"none", "price", "time"}
  /\ result \in {"none", "reject"} \cup Sides
  /\ row \in [Stakes -> Row]
  /\ ownerProfit \in Nat
  /\ journal \in {"none", "saved", "refused"}

SettlementInit ==
  /\ rules \in Rules
  /\ bets = [side \in Sides |-> [s \in Stakes |-> 0]]
  /\ endPrice = 0
  /\ endedBy = "none"
  /\ result = "none"
  /\ row = [s \in Stakes |-> [pnl |-> 0, fee |-> 0]]
  /\ ownerProfit = 0
  /\ journal = "none"

-----------------------------------------------------------------------------
(* The bets and the end of the game *)

OwnerSide == IF rules.kind = "onevsone" /\ ~rules.isLong THEN "down" ELSE "up"

\* The owner of a 1vs1 game opens it with a bet, the opponent bets the same on
\* the other side; an x1000 game is opened with its bet.
IsFree(side, s) ==
  \/ HasPools
  \/ Count(side) = 0 /\ side = OwnerSide
  \/ Count(side) = 0 /\ IsOneVsOne /\ bets[OwnerSide][s] = 1

IsOpened == HasPools \/ Count(OwnerSide) = 1

AddBet(side, s) ==
  /\ endedBy = "none"
  /\ IsFree(side, s)
  /\ Pool(side) + s <= MaxPool
  /\ bets' = [bets EXCEPT ![side][s] = @ + 1]
  /\ UNCHANGED <<rules, endPrice, endedBy, result, row, ownerProfit, journal>>

\* MUTANT of IsHit: the heap does not know short games.
IsHitLong(p) == rules.takeProfit < p \/ p < rules.stopLoss

\* SetupGamesHeapByAsset.getGamesByPrice: strictly beyond a bound.
IsHit(p) ==
  IF rules.isLong THEN rules.takeProfit < p \/ p < rules.stopLoss
                  ELSE rules.stopLoss < p \/ p < rules.takeProfit

\* calculateX1000BetBurnPrice: the start less, or more, its multiplier's part.
IsBurnt(p) ==
  IF rules.isLong
  THEN p * rules.multiplier <= rules.start * (rules.multiplier - 1)
  ELSE p * rules.multiplier >= rules.start * (rules.multiplier + 1)

TakesProfit(p) ==
  rules.takeProfit # 0 /\ ~IsAbove(rules.takeProfit, p, rules.isLong)

StopsLoss(p) ==
  rules.stopLoss # 0 /\ ~IsAbove(p, rules.stopLoss, rules.isLong)

\* SetupGameWorker.handlePriceChangedEvent, X1000PricesWorker.onAssetPriceChanged.
EndByPrice(p) ==
  /\ \/ IsSetup /\ IsHit(p)
     \/ IsX1000 /\ (TakesProfit(p) \/ StopsLoss(p) \/ IsBurnt(p))
  /\ IsOpened
  /\ endedBy = "none"
  /\ endPrice' = p
  /\ endedBy' = "price"
  /\ UNCHANGED <<rules, bets, result, row, ownerProfit, journal>>

\* The price when the time is over, or when an x1000 bet is cashed out; none if
\* it is not known, a 1vs1 game was rejected, or the commission was not paid.
EndByTime(p) ==
  /\ endedBy = "none"
  /\ IsOpened
  /\ endPrice' = p
  /\ endedBy' = "time"
  /\ UNCHANGED <<rules, bets, result, row, ownerProfit, journal>>

-----------------------------------------------------------------------------
(* The results *)

Distance(side) ==
  LET d == rules.guess[side] - endPrice IN IF d < 0 THEN -d ELSE d

\* How far the price went for an x1000 bet, against it if negative.
Move == IF rules.isLong THEN endPrice - rules.start ELSE rules.start - endPrice

\* A setup is won by its owner's side; a short game looks at its stop loss.
PriceDirectionResult ==
  \/ rules.isLong /\ rules.takeProfit <= endPrice
  \/ ~rules.isLong /\ rules.stopLoss >= endPrice

\* In a 1vs1 game the first bet wins if the price rises and it says so, the
\* second otherwise; in an exact one the guess that is strictly closer, or the
\* second.
Winner ==
  CASE rules.kind = "updown" -> IF endPrice > rules.start THEN "up" ELSE "down"
    [] IsSetup -> IF PriceDirectionResult THEN "up" ELSE "down"
    [] rules.kind = "onevsone" -> IF endPrice > rules.start /\ rules.isLong
                                  THEN OwnerSide ELSE Other(OwnerSide)
    [] rules.kind = "exact" -> IF Distance("up") < Distance("down")
                               THEN "up" ELSE "down"
    [] IsX1000 -> IF Move >= 0 THEN "up" ELSE "down"

OneSided == \E side \in Sides : Count(side) = 0

\* A setup that ended between its bounds, an up/down game that did not move.
IsUndecided ==
  \/ rules.kind = "updown" /\ endPrice = rules.start
  \/ IsSetup /\ IsAbove(rules.takeProfit, endPrice, rules.isLong)
             /\ IsAbove(endPrice, rules.stopLoss, rules.isLong)

IsRejected == endPrice = 0 \/ (~IsX1000 /\ OneSided) \/ IsUndecided

\* MUTANT of Rounded: always up.
RoundedUp(num, den) == (num + den - 1) \div den

\* Postgres rounds what it stores to eight decimals, a half away from zero.
Rounded(num, den) ==
  LET Away(n) == (n \div den) + (IF 2 * (n % den) >= den THEN 1 ELSE 0)
  IN IF num < 0 THEN -Away(-num) ELSE Away(num)

\* What is left of the losers' dollars for the winners: the owner of a setup
\* gets the fee of it.
Prize(lost) == lost * (IF IsSetup THEN Dollar - FeeOf(Dollar) ELSE Dollar)

\* A winner's share of the prize, without the platform's fee, and the fee.
Stored(s, won, lost) ==
  [pnl |-> Rounded((Prize(lost) - FeeOf(Prize(lost))) * s, won),
   fee |-> Rounded(FeeOf(Prize(lost)) * s, won)]

\* getX1000GameResult: what the price moved, multiplied, at most the stake; of
\* a gain the platform may take its fee.
StoredX1000(s) ==
  LET part == s * rules.multiplier * Move
      fee == IF rules.pnlFee /\ Move > 0 THEN FeeOf(Dollar) ELSE 0
  IN IF rules.multiplier * Move < -rules.start
     THEN [pnl |-> -s * Dollar, fee |-> 0]
     ELSE [pnl |-> Rounded((Dollar - fee) * part, rules.start),
           fee |-> Rounded(fee * part, rules.start)]

Resolve ==
  /\ endedBy # "none"
  /\ result = "none"
  /\ IF IsRejected
     THEN /\ result' = "reject"
          /\ UNCHANGED <<row, ownerProfit>>
     ELSE LET won == Pool(Winner)
              lost == Pool(Other(Winner))
          IN  /\ result' = Winner
              /\ row' = [s \in Stakes |-> IF IsX1000 THEN StoredX1000(s)
                                           ELSE Stored(s, won, lost)]
              /\ ownerProfit' = IF IsSetup THEN lost * FeeOf(Dollar) ELSE 0
  /\ UNCHANGED <<rules, bets, endPrice, endedBy, journal>>

-----------------------------------------------------------------------------
(* The ledger *)

Winners == IF result \in Sides THEN Count(result) ELSE 0

\* The outcome of an x1000 bet; a rejected one has none.
Outcome(s) == IF result = "reject" THEN 0 ELSE s * Dollar + row[s].pnl

\* createLedgerEntriesForBTCx1000: the user gets the outcome, at the funds'
\* expense; without one the stake is the funds', also of a rejected bet.
FundsGain(s) == IF Outcome(s) > 0 THEN -row[s].pnl ELSE s * Dollar

SurplusX1000(s) ==
  (IF Outcome(s) > 0 THEN Outcome(s) ELSE 0) + FundsGain(s) - s * Dollar

\* The credits of the journal less its debits.  In the games for a pool the
\* winners' stakes are on both sides, and the losers' are debited; rejected
\* stakes go back.
Surplus ==
  IF IsX1000
  THEN SumFunction([s \in Stakes |-> bets["up"][s] * SurplusX1000(s)])
  ELSE IF result \in Sides THEN
       SumFunction([s \in Stakes |-> bets[result][s] * (row[s].pnl + row[s].fee)])
       + ownerProfit - Pool(Other(result)) * Dollar
  ELSE 0

\* LedgerJournalEntity.checkIsBalanced: up to 10^-7 dollars.
RewardsAreBalanced == Surplus \in -10 .. 10

GiveGameRewards ==
  /\ result # "none"
  /\ journal = "none"
  /\ journal' = IF RewardsAreBalanced THEN "saved" ELSE "refused"
  /\ UNCHANGED <<rules, bets, endPrice, endedBy, result, row, ownerProfit>>

Done == journal # "none" /\ UNCHANGED svars

SettlementNext ==
  \/ \E side \in Sides, s \in Stakes : AddBet(side, s)
  \/ \E p \in Prices : EndByPrice(p)
  \/ \E p \in 0 .. MaxPrice : EndByTime(p)
  \/ Resolve
  \/ GiveGameRewards
  \/ Done

SettlementSpec == SettlementInit /\ [][SettlementNext]_svars

-----------------------------------------------------------------------------
(* Properties *)

SetupDecided ==
  /\ endedBy = "price" /\ result # "none" =>
       \/ OneSided /\ result = "reject"
       \/ result = "up" /\ IsAbove(endPrice, rules.start, rules.isLong)
       \/ result = "down" /\ IsAbove(rules.start, endPrice, rules.isLong)
  /\ result = "up" => \/ ~IsAbove(rules.takeProfit, endPrice, rules.isLong)
                      \/ ~rules.isLong /\ endPrice = rules.stopLoss

OneVsOneDecided ==
  \/ rules.kind = "exact" /\ Distance(result) <= Distance(Other(result))
  \/ rules.kind = "onevsone" /\ (result = "up" <=> endPrice > rules.start)
  \/ rules.kind = "onevsone" /\ ~rules.isLong /\ result = Other(OwnerSide)

\* What an x1000 bet has left is half a unit or less.
RoundsToNothing(s) ==
  2 * Dollar * s * (rules.start + rules.multiplier * Move) <= rules.start

X1000Decided ==
  \A s \in {t \in Stakes : bets["up"][t] = 1} :
    /\ Outcome(s) >= 0
    /\ IsBurnt(endPrice) => Outcome(s) = 0
    /\ Outcome(s) = 0 => IsBurnt(endPrice) \/ RoundsToNothing(s)
    /\ endedBy = "price" => (result = "up" <=> TakesProfit(endPrice))

\* A game is decided for the side the price says.  What the worker's heap takes
\* for the end of a setup decides it: the heap (setupGamesHeap.helper.ts 44-53)
\* and the results (getSetupGameResult.helper.ts 122-152) compare in their own
\* ways.  A setup that its time ends is won only by a bound that was reached,
\* but for a short one that ends at its stop loss exactly, which counts as take
\* profit.  The price that burns an x1000 bet (x1000.helpers.ts 124) is the one
\* that costs all of the stake and never more (158), unless what a better price
\* leaves of it rounds to nothing.  A 1vs1 game whose owner says the price falls
\* is won by the opponent, whatever the price does (one-vs-one.helper.ts 132).
PriceDecides ==
  /\ IsSetup => SetupDecided
  /\ IsOneVsOne /\ result \in Sides => OneVsOneDecided
  /\ IsX1000 /\ result \in Sides => X1000Decided

\* Nothing is made or lost but by rounding, at most a unit for a winner
\* (getUpDownGameResult.helper.ts 55-65, getSetupGameResult.helper.ts 70-85): a
\* game with ten winners or fewer stays within the tolerance of checkIsBalanced.
OnlyRoundingIsLost == Surplus \in -Winners .. Winners

\* What JournalIsNotBalancedError (journal.service.ts 48) says cannot be: the
\* journal of a game's rewards is not balanced.
JournalIsBalanced == journal # "refused"
=============================================================================
