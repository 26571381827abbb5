------------------------------ MODULE BullsEye ------------------------------
(***************************************************************************)
(* The bull's eye game: apps/bulls-eye places the bets, each a guess of    *)
(* the price the game ends with; apps/bulls-eye-worker runs the rounds and *)
(* ranks the guesses; apps/ledger pays the prizes from the account of the  *)
(* game.                                                                   *)
(*                                                                         *)
(* The rounds are those of the up/down game, handler by handler: every     *)
(* action here is the action of RoundGame with what it does to the ranks   *)
(* and to the money.                                                       *)
(***************************************************************************)
EXTENDS RoundGame, Functions

CONSTANTS
  Guess,        \* Guess[b]: BetBullseye.price
  Stake         \* gameConfig.betAmount, in units no share of it splits

ASSUME GuessAssumption == Guess \in [Bets -> Nat \ {0}] /\ Prices \subseteq Nat
ASSUME BetsAssumption == IsFiniteSet(Bets)
ASSUME StakeAssumption == Stake \in Nat /\ Stake % 10000 = 0

VARIABLES
  order,        \* <<b, c>>: the createdAt of b is before that of c
  row,          \* row[b]: place, outcome and fee of the settled bet
  winner,       \* winner[g]: GameBullseye.winnerBetId, or Nobody
  account,      \* account[g]: the ledger's liability account of the game
  credited,     \* credited[b]: what the owner of the bet was paid for it
  income        \* the fees the ledger booked

Nobody == "nobody"
NoRow == [place |-> 0, outcome |-> 0, fee |-> 0]

money == <<account, credited, income>>
bvars == <<vars, order, row, winner, money>>

Row == [place : Nat, outcome : Nat, fee : Nat]

BullsEyeTypeOK ==
  /\ TypeOK
  /\ order \subseteq Bets \X Bets
  /\ row \in [Bets -> Row]
  /\ winner \in [Games -> Bets \cup {Nobody}]
  /\ account \in [Games -> Int]
  /\ credited \in [Bets -> Nat]
  /\ income \in Nat

BullsEyeInit ==
  /\ Init
  /\ order = {}
  /\ row = [b \in Bets |-> NoRow]
  /\ winner = [g \in Games |-> Nobody]
  /\ account = [g \in Games |-> 0]
  /\ credited = [b \in Bets |-> 0]
  /\ income = 0

-----------------------------------------------------------------------------
(* bulls-eye-worker: getBullsEyeGameResult *)

\* MUTANT of Shares: two participants have no case of their own.
SharesOfThree(n, exact) ==
  IF exact THEN <<75, 15, 10>> ELSE <<50, 35, 15>>

\* gameConfig.exactWinnerCoefficients and defaultWinnerCoefficients, in percent.
Shares(n, exact) ==
  IF n = 2
  THEN IF exact THEN <<80, 20>> ELSE <<75, 25>>
  ELSE IF exact THEN <<75, 15, 10>> ELSE <<50, 35, 15>>

PlatformFeePercent == 1

Distance(b, price) ==
  IF Guess[b] > price THEN Guess[b] - price ELSE price - Guess[b]

\* The accuracy is below accuracyLevel, a hundredth of a percent of the guess.
IsExactPrice(b, price) == 10000 * Distance(b, price) < Guess[b]

CreatedBefore(b, c) == <<b, c>> \in order

\* MUTANT of Before: the sort by createdAt is missing.
BeforeByDistance(b, c, price) == Distance(b, price) < Distance(c, price)

\* The bets are sorted by createdAt and then, stably, by distance.
Before(b, c, price) ==
  \/ Distance(b, price) < Distance(c, price)
  \/ Distance(b, price) = Distance(c, price) /\ CreatedBefore(b, c)

Place(b, bs, price) == 1 + Cardinality({c \in bs : Before(c, b, price)})

IsRejected(bs, price) == Cardinality(bs) < 2 \/ price = NoPrice

\* MUTANT of GetBullsEyeGameResult: the fee comes on top of the prize.
ResultWithFeeOnTop(bs, price) ==
  IF IsRejected(bs, price) THEN [b \in bs |-> NoRow]
  ELSE LET n == Cardinality(bs)
           exact == \E b \in bs : Place(b, bs, price) = 1 /\ IsExactPrice(b, price)
           shares == Shares(n, exact)
           Prize(place) == IF place \in DOMAIN shares
                           THEN (n * Stake * shares[place]) \div 100 ELSE 0
       IN [b \in bs |-> LET place == Place(b, bs, price)
                        IN [place |-> place,
                            outcome |-> Prize(place),
                            fee |-> (Prize(place) * PlatformFeePercent) \div 100]]

\* A rejected bet has no place and no outcome, one behind the third place
\* loses; the prizes are shares of the whole pool, less the fee.
GetBullsEyeGameResult(bs, price) ==
  IF IsRejected(bs, price) THEN [b \in bs |-> NoRow]
  ELSE LET n == Cardinality(bs)
           exact == \E b \in bs : Place(b, bs, price) = 1 /\ IsExactPrice(b, price)
           shares == Shares(n, exact)
           Prize(place) == IF place \in DOMAIN shares
                           THEN (n * Stake * shares[place]) \div 100 ELSE 0
           Fee(place) == (Prize(place) * PlatformFeePercent) \div 100
       IN [b \in bs |-> LET place == Place(b, bs, price)
                        IN [place |-> place,
                            outcome |-> Prize(place) - Fee(place),
                            fee |-> Fee(place)]]

-----------------------------------------------------------------------------
(* bulls-eye: BullsEyeBetsService.addBet *)

\* A bet there is, or that is being placed.
HasCreatedAt(b) == placing[b] # 0 \/ bet[b] # NoBet

\* The row gets its createdAt in the transaction, before it is committed.
BeginAddBet(b) ==
  /\ BeginBet(b)
  /\ order' = order \cup {<<c, b>> : c \in {d \in Bets : HasCreatedAt(d)}}
  /\ UNCHANGED <<row, winner, money>>

\* createBet moves the stake to the account of the game.
CommitAddBet(b) ==
  /\ CommitBet(b)
  /\ account' = [account EXCEPT ![placing[b]] = @ + Stake]
  /\ UNCHANGED <<order, row, winner, credited, income>>

FailAddBet(b) ==
  /\ AbortBet(b)
  /\ order' = {p \in order : p[1] # b /\ p[2] # b}
  /\ UNCHANGED <<row, winner, money>>

-----------------------------------------------------------------------------
(* bulls-eye-worker: BullsEyeGameWorker and BullsEyeGamesFinalizerService *)

MoneyAndRanksStay == UNCHANGED <<order, row, winner, money>>

Time(g) == Tick(g) /\ MoneyAndRanksStay

OnBullsEyeGameOpened(g) == OnOpenedOrStarted(g, "OPEN") /\ MoneyAndRanksStay

OnBullsEyeGameStarted(g) ==
  OnOpenedOrStarted(g, "INPROGRESS") /\ MoneyAndRanksStay

JobFires(kind) == TimerFires(kind) /\ MoneyAndRanksStay

StartBullsEyeGame(g) == StartGame(g) /\ MoneyAndRanksStay

FinishBullsEyeGame(g) == FinishGame(g) /\ MoneyAndRanksStay

OnBullsEyeGameClosed(g) == OnClosed(g) /\ MoneyAndRanksStay

\* The account of the new game is created with it, and is empty.
CreateBullsEyeGame == CreateNext /\ MoneyAndRanksStay

FindOpenGames == BootFind /\ MoneyAndRanksStay

MoveOpenGameToPendingState(g) == BootClose(g) /\ MoneyAndRanksStay

EndOnModuleInit == BootEnd /\ MoneyAndRanksStay

PublishGameChanged(e) == Publish(e) /\ MoneyAndRanksStay

OnBullsEyeGameChanged(g) == OnPending(g) /\ MoneyAndRanksStay

\* The game and all its bets are still PENDING: moveBetToCloseState and
\* moveGameToCloseState find them, and the transaction commits.
Commits(r) ==
  game[r.game] = "PENDING" /\ \A b \in r.bets : bet[b].result = "PENDING"

ResolveGame(r) ==
  LET result == GetBullsEyeGameResult(r.bets, r.price)
      first == {b \in r.bets : result[b].place = 1}
  IN /\ Resolve(r)
     /\ IF Commits(r)
        THEN /\ row' = [b \in Bets |-> IF b \in r.bets THEN result[b] ELSE row[b]]
             /\ winner' = [winner EXCEPT ![r.game] =
                             IF first = {} THEN Nobody
                             ELSE CHOOSE b \in first : TRUE]
        ELSE UNCHANGED <<row, winner>>
     /\ UNCHANGED <<order, money>>

Stop == Crash /\ MoneyAndRanksStay

-----------------------------------------------------------------------------
(* ledger: giveRewardsForBullsEye *)

Rejected(b) == row[b].place = 0

\* createLedgerEntriesForBullsEye: when there is a rejected bet, the rejected
\* bets alone get their stakes back; otherwise the winners get their outcomes
\* and the platform its fees.
LedgerEntries(bs) ==
  LET rejects == {b \in bs : Rejected(b)}
      fee == [b \in bs |-> row[b].fee]
  IN [debit |-> Stake * Cardinality(bs),
      credit |-> [b \in Bets |->
        IF rejects # {} THEN IF b \in rejects THEN Stake ELSE 0
        ELSE IF b \in bs THEN row[b].outcome ELSE 0],
      fees |-> IF rejects = {} THEN SumFunctionOnSet(fee, bs) ELSE 0]

\* LedgerJournalEntity.checkIsBalanced.
Balanced(j) == j.debit = SumFunction(j.credit) + j.fees

\* A journal that does not balance is refused, and nobody is paid.
GiveRewardsForBullsEye(g) ==
  LET j == LedgerEntries(SettledBetsOf(g))
  IN /\ IF Balanced(j)
        THEN /\ GiveRewards(g)
             /\ account' = [account EXCEPT ![g] = @ - j.debit]
             /\ credited' = [b \in Bets |-> credited[b] + j.credit[b]]
             /\ income' = income + j.fees
        ELSE /\ TakeClose(g)
             /\ UNCHANGED <<db, phase, current, placing, memory, paid, history,
                            money>>
     /\ UNCHANGED <<order, row, winner>>

RollBackPrizes(g) == RollBackRewards(g) /\ MoneyAndRanksStay

-----------------------------------------------------------------------------

BullsEyeWorker ==
  \/ \E g \in Games : OnBullsEyeGameOpened(g) \/ OnBullsEyeGameStarted(g)
  \/ \E k \in Timers : JobFires(k)
  \/ \E g \in Games : \/ StartBullsEyeGame(g)
                      \/ FinishBullsEyeGame(g)
                      \/ OnBullsEyeGameClosed(g)
  \/ CreateBullsEyeGame
  \/ FindOpenGames \/ EndOnModuleInit
  \/ \E g \in Games : MoveOpenGameToPendingState(g) \/ OnBullsEyeGameChanged(g)
  \/ \E r \in resolving : ResolveGame(r)
  \/ \E e \in outbox : PublishGameChanged(e)

BullsEyeNext ==
  \/ \E g \in Games : \/ Time(g)
                      \/ GiveRewardsForBullsEye(g) \/ RollBackPrizes(g)
  \/ \E b \in Bets : BeginAddBet(b) \/ CommitAddBet(b) \/ FailAddBet(b)
  \/ BullsEyeWorker
  \/ Stop
  \/ Done /\ MoneyAndRanksStay

BullsEyeSpec == BullsEyeInit /\ [][BullsEyeNext]_bvars

\* As for the rounds of RoundGame.
BullsEyeFairness ==
  /\ \A g \in Games : WF_bvars(Time(g)) /\ WF_bvars(GiveRewardsForBullsEye(g))
  /\ \A b \in Bets : WF_bvars(CommitAddBet(b) \/ FailAddBet(b))
  /\ WF_bvars(BullsEyeWorker)

BullsEyeFairSpec == BullsEyeSpec /\ BullsEyeFairness

-----------------------------------------------------------------------------
(* Properties *)

RankedBetsOf(g) == {b \in SettledBetsOf(g) : row[b].place > 0}

\* Two bets that were ranked share no place: the closer to the price they were
\* ranked by has the better one, of two that are as close the one that was
\* placed first; and the winner a game names is the bet with the first place.
\* (The end price of the row can be another one: a finish timer that fires once
\* more replaces it while the ranks are worked out.  A resolution that read the
\* game before its late bets leaves it without a winner.)
PlacesAreFair ==
  \A g \in Games :
    /\ \A b, c \in RankedBetsOf(g) :
         b # c => \/ row[b].place > row[c].place
                  \/ /\ row[b].place < row[c].place
                     /\ \/ Distance(b, bet[b].price) < Distance(c, bet[b].price)
                        \/ /\ Distance(b, bet[b].price) = Distance(c, bet[b].price)
                           /\ CreatedBefore(b, c)
    /\ RankedBetsOf(g) \ late # {} =>
         winner[g] \in RankedBetsOf(g) /\ row[winner[g]].place = 1

\* What the result of a bet promises: its stake back, or its outcome and the fee.
Promised ==
  [b \in Bets |-> IF Rejected(b) THEN Stake ELSE row[b].outcome + row[b].fee]

\* What the results of a game promise and the ledger has not paid yet is
\* covered by the stakes on the account of the game, unless the ledger was
\* given its CLOSE event once more or a bet came when the game was over.
StakesCoverPrizes ==
  \A g \in Games :
    LET unpaid == {b \in SettledBetsOf(g) : paid[b] = 0}
    IN \/ Event(g, "CLOSE") \in redelivered
       \/ BetsOf(g) \cap late # {}
       \/ SumFunctionOnSet(Promised, unpaid) <= account[g]

\* When nothing fails, every game is closed and its owners are credited: those
\* whose bets were rejected with their stakes, those who won with their prizes.
EveryPrizeIsPaid ==
  <>(\/ Failures > 0
     \/ \A g \in Games :
          /\ game[g] = "CLOSE"
          /\ account[g] = 0
          /\ \A b \in BetsOf(g) :
               credited[b] = IF Rejected(b) THEN Stake ELSE row[b].outcome)
=============================================================================
