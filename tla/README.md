# A TLA+ model of the games, the ledger and the payments

The repository is the backend of a platform on which users bet on prices: a set
of NestJS services (`apps/`) over one PostgreSQL database (Prisma), joined by
domain events over Kafka, with shared libraries (`libs/`). This directory holds
TLA+ modules of the parts in which money can be lost or made by an unlucky
order of events, TLC configurations that check them on small instances, and
TLAPS proofs of every safety property they check. Paths below are relative to the repository.

Run everything from this directory: `tlc -config X.cfg MCModule` for a run of
the table below (the names of the cfg files start with the name of the module),
`tlapm` on each of the eight modules `*Proofs.tla` for the proofs.

## 1. Inventory

### What the services share

* **PostgreSQL.** Transactions are READ COMMITTED by default, SERIALIZABLE for
  the state changes of most games and some rewards, REPEATABLE READ for payouts.
  Many handlers read a row *before* the transaction and write it by its id.
* **Kafka** (`libs/events`). A service publishes a domain event after (sometimes
  within) the transaction that changed a row. Delivery is at least once, each
  subscriber has its own consumer group, and events of different kinds have no
  order. What becomes of an event whose handler throws is up to the transport of
  `@nestjs/microservices`, which is not in the repository: the models have both
  outcomes, the event is given up or it comes again. Many publications are in
  `Promise.allSettled` after the commit, and their failure is dropped.
* **Timers** (`libs/scheduler`). Named `setTimeout`s in the memory of a worker;
  a name that is used again replaces the timer. A date that has passed is called
  at once and not registered.
* **Processes** restart: on purpose, because a handler calls `process.exit`, or
  because a rejection is not handled.

### Components

| Component | State | Operations | What is hard about it | What makes it correct |
|---|---|---|---|---|
| `libs/ledger-package` | accounts, journals of entries, a Balance row per user account | createBet, payBetFee, deposit, hold, unhold, withdraw, addReward, addNft, removeNft, payouts | transactions of different isolation over one row; the row is a second copy of the entries | journals balance, row = entries, nobody spends what he does not have |
| `apps/ledger` (games-rewards) | none of its own | a payout on every CLOSE event | redelivery, failure of the transaction | every bet of a closed game is paid once |
| `apps/up-down`, `apps/up-down-worker` | rounds of one game after another, bets, Redis cache, two timers | addBet; start, finish, resolve, create the next; recovery at start | cached reads, late timers, restarts, reordered events | one price per game, final results, no stranded game |
| `apps/bulls-eye`, `apps/bulls-eye-worker` | the same with three places | the same | the same | the same, places by distance from the price |
| `apps/setups`, `apps/setups-worker` | games with a take profit and a stop loss, a heap of active games, two timers per game | createGame, addBet; a price, the end of the betting and the end of the game; resolve | three ways to end a game, a copy of the games in memory, unawaited promises | the first price counts, a game is settled as a whole |
| `apps/one-vs-one`, `apps/one-vs-one-worker` | games of two users, one timer per game | createGame, addBet (accept), rejectGame; stop, finalize, resolve | user and worker race for one row, overlapping resolver | two participants at most, a game is paid once |
| `apps/x1000`, `apps/x1000-worker` | one bet per game, commission timers | addBet, cashOut; prices, commission, resolve | three actors that may end a bet | paid once, with the result of the price that ended it |
| result functions of the workers | none | who has won, and how much | boundaries, rounding of many rows | nothing but rounding is lost, journals balance |
| `apps/users` payments | orders and transactions, holds in the ledger | withdraw, accept, reject, deposit, callbacks of the provider | repeated and reordered callbacks, a provider called inside a transaction | money moved agrees with the status of the order |
| `apps/users` sign-up, wallets, referrals | users, wallets, who invited whom | sign up, attach a wallet, update | events that overtake each other, a wallet that changes its owner | wallets are unique, an invitation counts once |
| `apps/users` sessions, other sign-in, online counter | sessions in the database and in Redis, tokens, counters | sign in, refresh, sign out, close all | two copies of a session written in two steps, sockets that vanish | a session that was closed is gone from both |
| `apps/analytics` rewards | tasks of every user, offset of the bonus | task handlers of fourteen patterns, claim, check by hand, activation, bonus | events that complete one task concurrently, jobs repeated after a crash, handlers that read, wait and write | a reward and a bonus are paid once, nothing stays blocked |
| `apps/analytics` NFT, referral, airdrop | holders of NFTs up to the last scanned block, bonuses given, rows of rewards | scan of blocks, jobs on events of transfers and users, sync by hand, rewards of a telegram bot | events without an order, jobs of one event that fail each other | bonuses follow the NFTs, invitations and airdrops are paid once |
| `apps/analytics` statistics, live streams | aggregates | queries | none beyond the data | - |
| `apps/prices`, `apps/candles` | last prices, candles | feeds | late feeds | - |
| `apps/api-gateway`, `apps/backoffice`, `apps/messenger`, `apps/notifications`, `apps/twitter` | little | requests, messages | external services | - |
| `libs/core`, `contracts`, `redis`, `storage`, `mailer`, `logger`, `graphql`, `exceptions`, `utils`, `columnDb` | none | helpers and clients | - | - |

The way of a bet: a user's request reaches `addBet` of a game service, which
writes the bet and calls the ledger package in one transaction; the worker of
the game moves game and bets through OPEN, INPROGRESS, PENDING and CLOSE on
timers, prices and its own events; the resolver computes the results at PENDING;
`apps/ledger` pays at CLOSE. `PROJECT.json` lists the hazards of this code line by
line with the properties that are about them.

## 2. Modules

| Module | Models | Used by |
|---|---|---|
| `LedgerJournals` | the journals of the ledger's operations as net credits per kind of account | `Ledger` |
| `Ledger` | the operations on users' balances as two-step transactions with isolation levels | `MCLedger`, `LedgerProofs` |
| `UserFunds` | abstract: what a user may expect of his money | refined by `Ledger` |
| `RoundGame` | up/down rounds: bets, worker, resolver, payout, restart | `MCRoundGame`, `BullsEye`, `RoundGameProofs` |
| `BullsEye` | the bull's eye game: the rounds of `RoundGame` with guesses, ranks, prizes and the account of the game | `MCBullsEye`, `RoundGameProofs` |
| `X1000` | the x1000 game | `MCX1000`, `X1000Proofs` |
| `OneVsOne` | the 1vs1 game | `MCOneVsOne`, `OneVsOneProofs` |
| `Setups` | the setup game | `MCSetups`, `SetupsProofs` |
| `Settlement` | results, amounts, rounding and journals of up/down, setup, 1vs1 and x1000 games | `MCSettlement`, `LedgerProofs` |
| `Payments` | withdrawals, deposits, callbacks | `MCPayments`, `PaymentsProofs` |
| `ChallengeTasks` | the challenge tasks of a user, their rewards and the bonuses for complete challenges | `MCChallengeTasks`, `ChallengeTasksProofs` |
| `UserBonuses` | sign-up, wallets, NFT scan, and the bonuses for NFTs, invitations, airdrops and of the telegram bot | `MCUserBonuses`, `UserBonusesProofs` |
| `LedgerProofs` | theorems and proofs about `Ledger` and `Settlement` | - |
| `RoundGameProofs` | theorems and proofs about `RoundGame` and `BullsEye` | - |
| `SetupsProofs`, `X1000Proofs`, `OneVsOneProofs`, `PaymentsProofs`, `ChallengeTasksProofs`, `UserBonusesProofs` | theorems and proofs about the module of that name | - |

### How state and actions correspond to the code

**Ledger.** A call is a transaction between its read of the Balance row
(`findBalanceByAccountId`) and its commit (`journalService.save`,
`updateBalance`). `seen` is the amount it read and `delta` what it adds in memory;
READ COMMITTED calls write `seen + delta` whatever the row holds by now, snapshot
calls fail when the row was changed since. `fresh` says whether it was. Payouts use
a database increment at REPEATABLE READ. `total`, `hold` and `books` are the sums of
the entries; `raced`, a history variable, holds the users hit by a stale write.

**RoundGame, X1000, OneVsOne, Setups** have the same shape. `game`, `bets`,
`endPrice` are rows. A handler that reads, then writes in a transaction of its
own, is two actions with a variable between them (`placing`, `accepting`,
`moving`, `resolving` ...); one that is a single transaction is one action.
`timer` holds the registered timers and `due` the callbacks whose time has come,
because a callback that was started is not stopped by clearing its timer.
`outbox` is what was committed and not yet published, `toWorker` and `toLedger`
count the deliveries Kafka owes. A restart empties what is in memory, does what
`onModuleInit` does, and gives back the events that were not acknowledged.
`phase[g]` abstracts the clock to what `stopBetsAt` and `endAt` are compared with.
Events of INPROGRESS that nobody but a screen reads are left out where the
worker ignores them.

In `RoundGame` a handler that fails calls `process.exit`, so failures of the
worker are restarts. A payout is at REPEATABLE READ and may fail in all games
(`RollBackRewards`, `GiveRewardsFails`); one whose event is given up is never made, one
whose event comes again has changed nothing. `PublishFails` of `X1000` and `OneVsOne` is a
publication whose failure `allSettled` drops, by the API or by the worker.

In `X1000` an interval is started before its name is registered. The free hours of a bet may
end a second time, because its INPROGRESS event came again or after a restart that had found
the bet (`FreeHoursPass`); with the name taken `addInterval` throws, the interval of it stays
(`stray`), and the worker's catch tries the same again (`retrying`, `RetryHourly`).

In `Setups` prices are what they are to a game (beyond the take
profit, beyond the stop loss, between), a price handler waits for the one before
it but not for others that wait (so `moving` may hold two), the SERIALIZABLE move of a game
may fail, which is logged and no more (`PriceMoveFails`), and `Resolve` does not
wait for the updates of the bets: `Promise.all` is given an array of arrays.

**BullsEye** EXTENDS `RoundGame`: the workers of the two games are the same handler by
handler, so every action is the one of `RoundGame` conjoined with what it does to `row`
(place, outcome and fee of a settled bet), `winner`, `order` (of `createdAt`: the pairs of
which the first is the older) and the money: `account` is the ledger's account of the
game, `credited` and `income` what the payout took from it. The guesses are numbers,
because ranks compare distances.

**Settlement** has no concurrency: a game is opened with `rules`, the record of what its
kind of game is opened with, gets its bets, ends by a price or by its time, is resolved
and paid. Bets are numbers per side and stake, sums are in units of 10^-8 dollars, which
is what the columns store, with the fee of 1% of the configuration. `WonBy` has one entry
per result function of the workers, and `Surplus` is the journal the ledger package makes
of the rows.

**Payments** joins PaymentOrder and PaymentTransaction, which are written together,
into one `status`; the provider is an external actor that posts callbacks,
any number of times and in any order, only about what it really did.

**ChallengeTasks** is one user in one season. `status`, `active`, `offset` and the
sums are rows. There are two runs of handlers: `current` is the one the consumer waits
for, the other is left over from an event with a failed handler, whose fellows run on
beside the next event or the same one again (`FailAt`). `event` and `running` say which event
a run is for and which handlers of it are not through; `closing`, `claiming`, `activating` and
`paying` hold what a handler or a call has read and not written yet, so that the bonus job
reads the offset in one step (`ReadBonus`) and writes it in another (`ApplyBonus`). Handlers
that ask another service may get no answer (`Refused`): those of X take that for "not passed"
(`Swallows`), the one of Discord throws after its fellows' tasks are closed. Every handler and
call can fail as its transaction does (`HandlerFails`, `CallFails`), among them the REPEATABLE
READ one of closeChallengeTasks. The patterns are data (`Needs`, `Triggers`):
what a user must have done, and the events that make a handler look. `since` remembers
what the user did after the tasks existed, because what was done before is found only
by the handlers that count rows.

**UserBonuses** is several users in one analytics service. `head` is the chain,
`nftHolder` its copy up to `lastScanBlock`; `jobs` are the handlers of events that
still run, `late` those whose event the consumer has left, or given up to get it again,
because another handler of it failed. Those that write a balance are SERIALIZABLE
transactions, so a commit may fail any other that has begun on the same balance
(`Commit`). `manual` is the page of the sync by hand,
which skips over rows that no longer match its filter. The telegram bot sends a reward
again while it has no answer.

## 3. Runs

Passing runs. All check deadlock except `payments`, `challenge_tasks` and
`user_bonuses`: there everything may have been settled, done and paid, and the system
rests. (The rounds, games and transactions of the others stop at a bound by an action
`Done`, or are rolled back.)

| Run (cfg) | Bounds | Shows |
|---|---|---|
| ledger (`MCLedger`) | 2 users, 2 overlapping transactions, `MaxCommits` 4 | journals balance; the row equals the entries and no account is overdrawn unless a stale READ COMMITTED write hit it; only such a commit moves the gap; the entries implement `UserFunds` |
| rounds (`MCRoundGame`) | 2 rounds, 2 bets, 2 prices, `MaxFailures` 1 (restart, redelivery or lost payout) | results are final, closed games are settled, a bet is paid once; with no failure the rounds go on and every bet is paid |
| bulls_eye (`MCBullsEye`) | 1 round, 3 bets of which two are as close, 2 prices, `MaxFailures` 1 | ranks follow distance and time, the stakes cover what the results promise, every prize and returned stake is paid |
| x1000 (`MCX1000`) | 1 game, 2 prices, 1 cash-out, `MaxIncidents` 2 (restart, redelivery, lost publication, failed payout) | paid at most once per end, result of its end price; no commission is forgotten but by a lost event, none is taken twice but after a repeated event or a restart; what has ended is closed, and paid unless that was lost |
| one_vs_one (`MCOneVsOne`) | 1 game, 1 opponent, 2 runs of the resolver, `MaxIncidents` 1 (failure, restart, redelivery, overlap, lost publication, failed payout) | closed games are settled, active ones are not forgotten unless their event was lost, paid once unless two resolvers had the game; with no failure every game is paid |
| setups (`MCSetups`) | 1 game, 2 bettors, `MaxFailures` 1 (restart, redelivery, lost event, failed move, resolution or payout) | settled as a whole, paid once, by the first price unless its move failed, never waiting for nothing, forgotten by the heap; with no failure it is paid |
| settlement (`MCSettlement`) | stakes 1 and 2, `MaxPool` 10 dollars a side, 5 prices, all take profits and stop losses, `Multipliers` 1 and 2 | the price decides for the right side in all games, an x1000 stake is lost where its burn price is, or where what is left of it rounds to nothing, only rounding is lost (so that ten winners or fewer are within the tolerance of the journal) |
| payments (`MCPayments`) | 1 withdrawal, 1 deposit, 2 handlers at a time | what was moved in the ledger agrees with the status; coins sent are not given back; settled is final; what the provider takes on is settled |
| challenge_tasks (`MCChallengeTasks`) | 2 tasks, one blocked by the other, in one challenge or two; seven seasons (`Starts`) that have all fourteen patterns; `MaxCalls` 2 calls about one task, `MaxOwed` 2 events, `MaxFailures` 1 (crash, lost or repeated event, failed handler or call, a service without an answer), a threshold of one challenge | a reward is claimed once, a bonus is earned, and paid once unless two jobs overlap or one resets the offset, nothing stays blocked, what a user does is noticed |
| user_bonuses (`MCUserBonuses`) | four `Starts`: one user and three transfers; two users and an NFT that moves between them; an inviter of two; a user rewarded by the bot. `LogsLimit` 1, `PageSize` 1, `MaxOwed` 2 events, `MaxFailures` 1 | bonuses on balances are those the wallets are marked with, invitations, airdrops and rewards are paid once, what is due arrives |

The bounds are small because the hazards are races of two: two transactions on
one row, two actors that end one game, an event and a timer, one restart between
a commit and its event, one event delivered twice. One game is enough where a game
meets others only through a user's balance; two rounds are needed where a timer of
one round meets the next. Two orders of `Payments` share nothing but the state of the
ledger, which is in `Ledger`, so one of each kind is enough (the theorems are for any
number). In `Setups` the two users bet on different sides, the only case in which
somebody wins. In `BullsEye` a third bet
is needed for a third place; its rounds follow each other as those of `RoundGame` do, so
one is enough. In `Settlement` 32-bit numbers bound the product of a stake and a pool.
In `ChallengeTasks` two tasks are a blocker and what it blocks; a user does the next
thing only while fewer than `MaxOwed` events wait, which is what two racing events need. Two
challenges and one threshold are the smallest season in which more are complete than the
offset says and nothing is due. After a failure the user makes one call at a time, a failure
does not come after a race of two calls (`MayFail`), and there is one left-over run at a time;
the proofs have none of these bounds but the last. In `X1000` two incidents are needed, a
repeated event or a restart makes the second timer, and something may still go wrong then.
In `UserBonuses` the scan of two blocks at a time, pages of one and two events in
flight make every boundary happen: a scan that ends in the middle, a page that is
skipped, two events of one wallet in either order.

Several invariants have an exception, and the exception is the finding: a history
variable (`raced`, `late`, `stale`, `disordered`, `overlapped`, `redelivered`, `lost`,
`unpaid`, `missed`, `suspect`, `untold`, `forgotten`, `crossed`, `clashed`, `tooEarly`,
`botFirst`) records that the race or the failure happened, and the invariant says that
nothing else can break the property. What the games then do is in section 6.

Violation runs check what a text of the repository says of the program:

| Run (cfg) | Claim | What happens |
|---|---|---|
| ledger_overspend (`MCLedgerOverspend`) | NotEnoughBalanceForThisOperationError | two debits at READ COMMITTED, a bet and a bet fee, read the same balance, both commit |
| settlement_balance (`MCSettlementBalanced`) | JournalIsNotBalancedError cannot happen | 14 winners of one dollar against one: rounded rows are 1.2e-7 too much, the tolerance is 1e-7, the game is never paid |

## 4. Fairness

Safety and liveness are checked in one run under a specification with fairness
(`FairSpec`, or `Spec` where it has a fairness conjunct), which has the same reachable
states as the one without. Fairness assumes that time passes, that Node.js runs the
callbacks and handlers it was given, that Kafka delivers what it holds, that the
interval of the NFT scan keeps coming, and that a transaction that is tried again does
not fail for ever (strong fairness where the code retries: timers of `Setups` and
`OneVsOne`, the resolver of `X1000`, callbacks of the provider, which repeats them until
they are answered). Users, administrators and the telegram bot are never assumed to do
anything: no bet, cash-out, acceptance, claim, order or sync by hand is fair.

Restarts, lost publications and failed payouts from which the code does not recover
make liveness false: a commit whose event is never published strands a PENDING game
(see the hazards). The liveness properties therefore say what happens *unless* such a
failure was counted (`Failures > 0`, `crashes > 0`, `faults + restarts > 0`), in the
same run that has the failures for safety. In x1000, whose resolver looks at the rows,
failures and restarts are no excuse for closing: the game is closed all the same, only
its payment may be lost (`lost`, `unpaid`). In `ChallengeTasks` the handlers of an event and
a call that has begun go on (`Work`, `Answer`), whatever else fails.

## 5. Proofs

Every invariant, action property and refinement that a passing run checks is a theorem
for all values of the constants that satisfy the named assumptions; a run shows it on a
small instance, first. The invariants are rarely inductive by themselves, and what has
to be added says how the code keeps them.

**`LedgerProofs`**, for any finite set of users, any transactions, amounts and fees:

* `LedgerInvariant`: the inductive invariant `LedgerInv`. One has to know, of every open
  transaction, that what it saw is still in the row as long as it is fresh, that its delta
  is the user part of its journal, and that what it takes was covered by what it saw.
  `Outdate`, the only thing another transaction's commit does to an open one, has lemmas
  of its own. `LedgerTyped`, `JournalsCorrect`, `BalanceCorrect`, `FundsCorrect` follow.
* `GapTheorem`: only a stale READ COMMITTED commit moves the gap between row and entries.
* `LedgerImplementsUserFunds`: every step maps to a step of `UserFunds` or a stutter.

The same module, for the results of `Settlement`, with any finite set of stakes, pools,
prices and multipliers:

* `SettlementInvariant`: `SettlementInv`, that a game has ended by a price its rules end it
  with (`EndedTruly`) and that its rows are what the result function of its kind makes of
  its bets (`ResolvedTruly`).
* `RoundingIsAll`: the row of a winner is his share of the pool to a unit, because two
  sums were rounded by half a unit each (`RoundedNat`, `StoredIsShare`), and the rows are
  added up by `SumLinear`.
* `PriceIsDecisive`: the price decides, in x1000 through the burn price (`BurntByMove`,
  `LossBounded`). The proof showed that a stake is also lost, before its burn price, when
  what is left of it is less than half a unit; the property says so.

**`SetupsProofs`**, for any users, games and failures. `Inv` joins the safety properties
with what they rest on: a game is opened once, one run of the resolver at most has it, and
the ledger is told of it once; the price that crossed a bound first is the one that is to
move the game (`FirstCrossed`); the bets are where their game is, and the resolver has read
them all (`BetsFollow`); a game that the worker has something to do for is on the heap or
over (`OnHeap`); and while events get published, there is something that moves every game
on (`AllSupported`). Theorems `SettledWhole`, `NotPaidTwice`, `FirstPriceKept`,
`NoneStranded`, `NoGhosts`, and `NeverBack`, an action property: no step moves a game back.

**`X1000Proofs`**, for any games, prices and triggers. `Inv` adds that the resolver has a
PENDING game once and nobody else closes it (`BatchPending`), what a game shows that was
not ended, or once (`AllShowEnd`), that events come after their change (`Known`), that an
open bet has a timer or an event that brings one, or lost it, and that there is one of these
unless the event came again or the worker was restarted (`OneTimer`).
Theorems `PaidForEnds`, `ResultIsOfEnd`, `CommissionDue`.

**`OneVsOneProofs`**, for any games, owners and opponents. `Inv` adds that the owner alone
has a bet while the game is open and two have one when it has started (`BetsFollow`), that
what a run of the resolver read is still so when it writes (`Snapshot`), that one run at most
has a game (`OneResolver`), and that an event comes after its change (`EventsFollow`), each
but for the games a user's write met too late. Theorems `SettledWhole`, `NotPaidTwice`,
`NoneStranded`, `NeverBack`.

**`RoundGameProofs`**, for any number of rounds, bets, prices and failures. `Inv` adds that
a transaction that places a bet has not written its row (`Placed`), that a round is over when
a resolver reads it or the ledger is told of it (`Ended`), that a resolver has read all bets
but those that came too late (`Snapshot`), and that what was paid of a bet and what may still
be is one payment (`PaidAsTold`). Theorems `ResultsStay`, `SettledWhole`, `NotPaidTwice`;
then, of `BullsEye`:

* `BullsEyeRounds`: its steps are steps of `RoundGame`, or the refusal of a journal, so
  what holds of the rounds holds of it.
* `FairPlaces`, from `RanksInv`: of two bets one was placed first (`Ordered`), of two
  resolvers of one round one has read all that the other has (`Chained`), and one that has
  read bets of a round that is settled does not find them PENDING (`MeetSettled`).
* `PrizesAreCovered`, from `MoneyInv`: the account of a round holds all its stakes until
  all are paid at once (`AccountsHeld`), and what its rows promise are these stakes
  (`PromisesMet`): places are distinct, all from the first on are taken (`PlacesTaken`), and
  the shares of those that win make up the whole.
* `JournalsAreBalanced`: the ledger never refuses a journal of this game, late bets or not,
  because the bets of a round are rejected together (`RejectedTogether`) and a ranked round
  pays out what it promised. In the other games a journal can be refused, see the run
  settlement_balance.

**`PaymentsProofs`**, for any sets of orders and requests:

* `InvariantHolds`: `PaymentsInv`. That money agrees with the status is not inductive
  without knowing what posted callbacks say (`PostedTruly`), that two handlers that
  have read one order make it a race (`ReadAlone`), that a handler that raced with
  nobody still finds the status it read (`ReadFresh`), and that a cancelled order was not
  sent (`CancelledUnsent`).
* `PaymentsTyped`, `MoneyCorrect`, `RefundsCorrect`, `SettledCorrect` (an action property).

**`ChallengeTasksProofs`**, for any finite set of tasks, any blockers, challenges and
thresholds and any number of calls and failures:

* `RewardIsClaimedOnce`, from `ClaimInv`: a task that is no suspect has one call or handler
  at it at most, and once its reward is paid it is claimed and nobody is at it any more.
  Nobody is at a task without a row, and the rows of the tasks are made together; without
  that a second `UserCreated` could open a claimed task again.
* `BonusesAreEarned`, from `BonusInv` beside it: no step takes a challenge out of
  `CompleteChallenges`, and the bonuses due are those between the offset and the new one.
  Until two jobs have overlapped or the offset was put back, one run at most is at the bonus
  (`"pay" \in running[w]`), and what was paid with what it is to pay is one bonus for each
  threshold up to the offset it will write.
  `BoundedMax`, that the largest of them exists, is shown with the library's well-founded
  order of finite subsets.

**`UserBonusesProofs`**, for any finite sets of users and wallets, transfers and limits:

* `BonusesArePaidOnce`: a referral is marked with the money, the bot stops asking for what
  it got an answer to, and of a wallet that is no suspect one job at most is at the
  airdrop, and none once it is paid. `FinishLeaves` says what the jobs that go on, late or
  not, keep.
* `BonusesAreBacked`, from `BonusInv`: until an offset is crossed, the bonuses on all
  balances add up to those the wallets are marked with, and a user who had his wallets alone
  has the bonuses of just these (`BonusesFollow`), whether he still has them or not.
* `HoldersAreCopied`: the holders in the database are those of the chain up to the last
  block that was scanned.

Sums over sets are recursive functions in the community modules, and an induction
theorem takes an operator as its parameter, which the provers cannot instantiate. The
lemmas about them (`SumRemove`, `SumSame`, `SumLinear` ...) are therefore shown by a
smallest counterexample, with the library's theorem that the finite subsets of a set are
well-founded.

The proofs assume of the constants what the modules state as ASSUME. Those that are more
than a type: sets of users, wallets, stakes, bets and tasks are finite, because they are
rows; the stake of `BullsEye` is counted in a unit so fine that no share of a pool and no
fee splits it (`StakeAssumption`), as the 50 dollars of the configuration are in units of
10^-8; and in `UserBonuses` nobody gives an NFT he does not own (`StartsAssumption`), which
the contract guarantees.

Only model-checked: liveness, which is out of the prover's reach together with ENABLED
(`EveryRoundIsPaid`, `EndedIsPaid`, `EveryGameIsPaid`, `EveryPaymentIsSettled`,
`EveryPrizeIsPaid`, `NothingStaysBlocked`, `BonusArrives`, `ProgressIsNoticed`,
`BonusesArrive`). No module uses RECURSIVE.

## 6. Races the models contain, and what is not modelled

The models contain these races, as separate actions for the read and the write; the
properties make an exception of the games they happened to.

* `RoundGame`: addBet looks at the cached game before its transaction, so that a bet can
  be committed on a game that has started, is PENDING or CLOSE (`late`).
* `X1000`: a cash-out, a price and a failed commission write a bet by id that another of
  them ended since it was read; each ends the game once more (`ends`).
* `OneVsOne`: acceptance and rejection write by id a game that is no longer OPEN
  (`stale`), two opponents may both get in (with three users in the cfg), and
  runs of the resolver overlap (`overlapped`).
* `X1000`, `OneVsOne`: the API publishes the events of a new bet in `allSettled` after its
  transaction; when that fails, an open bet has no commission timer and an active game no
  timer at all, until the worker restarts (`lost`).
* `Setups`: the move of a game by the price that crossed its bound fails and is only logged,
  and a later price of the other bound ends the game (`missed`).
* `Setups`: a bet is written into a game that has ended (`late`).
* `RoundGame`: a commit whose event is never published, because of a restart or because
  Kafka could not be reached, leaves a game PENDING for ever or unpaid; the same in `Setups`.
* All games: a payout that cannot be serialized fails, and when its event is given up its
  bets are never paid (`rolledBack`, `unpaid`).
* `X1000`, `OneVsOne`, `Setups`: the open games of a user are counted before the
  transaction that opens one, so the limit is not kept (with two games in the cfg).
* `ChallengeTasks`: two calls, or a call and a handler that read the task before, pay the
  reward of a task twice (`suspect`); a task that is claimed before its activation was told
  is passed over by the bonus job (`untold`); a bonus job of an event that was left, and the
  one of the next event, pay a bonus twice (`overlapped`).
* `UserBonuses`: an event of a transfer that meets an offset of the other sign moves
  `UserNftBonusState` without an entry in the ledger (`crossed`); two jobs of one event on
  one balance fail each other (`clashed`), and the event may not come again; an invitation
  that is handled before the inviter's row of rewards exists is never paid (`tooEarly`); a
  user whom the bot rewards first never gets tasks (`botFirst`).

What the models show of the code beside the races:

* `OneVsOne` (`Settlement`): the first bet wins if the price rises and it says so, the
  second wins otherwise, so an owner who says that the price falls never wins.
* x1000: a bet that is cancelled because its commission was not paid is rejected without
  an outcome, and the ledger books its stake for the funds; a flat fee that was taken with
  the bet stays on the account of the game, because the payout debits only the bet.
* `BullsEye`: a resolution that read its game before a late bet leaves the game without a
  winner, and the end price on the row can differ from the one the ranks were made with.
* `ChallengeTasks`: the bonus job compares the new offset with the old one to skip "if the
  user has not reached new heights", but the new one is 0 when nothing is due: with more
  complete challenges than the offset it writes 0, and the bonuses are paid once more
  (`forgotten`; a finding).
* `ChallengeTasks`: PLAY_SETUP_GAMES counts games with bets in any state; the tasks of
  three days in a row count logins; the events of SOCIAL_TRIBE's sessions are not
  subscribed, so such a task waits for a check by hand; `claimReward` does not ask whether
  a task is active.
* `UserBonuses`, `ChallengeTasks`: the consumer leaves an event at the first handler that
  fails, while the others run on; the events of an NFT scan are published after its commit
  and are lost with the process.

Not modelled, and why:

* Sessions, tokens, ways to sign in other than a wallet, profiles, the online counter:
  no money depends on them. A session is kept in the database and in Redis and written in
  two steps, so a refresh beside a sign-out can leave it in Redis; next in the plan.
* `refreshBalances`: disabled in this version. Creation of accounts: the name is unique,
  a second transaction that creates one fails as a whole, which is `Rollback` of `Ledger`.
* The depth of confirmation and reorganisations of the chain: the code has none, a block
  that was scanned is final.
* Prices and candles: sources, averages and the PID controller. A price is any value in the
  modules of the games, which need nothing else of it.
* Amounts in the modules of the games but `BullsEye` (they are in `Settlement`), currencies
  and rates in `Payments`, prices as numbers where no result depends on them.
* Places in the list of rewards (`updateRewardsPlaces`): one statement of SQL over balances.
* API gateway, back office, messenger, notifications, twitter, statistics and live streams:
  requests that only read, routing, forms, texts. Generated bindings of the NFT contract.
* Authentication, caches of finished data, serialisation of messages.
* Decimal arithmetic beyond the eight stored decimals: decimal.js keeps 20 digits,
  which rounds less than a unit for the amounts that occur.

## 7. Plan

Done in this order: the ledger and its proof, the up/down rounds, x1000, one-vs-one,
payments and their proof, setups, settlement; then bulls-eye on top of the rounds, the
challenge tasks, the bonuses of users and the proofs of both, and the results of 1vs1 and
x1000 in settlement; then the proofs of all safety properties of the games.
Next:

1. Proofs: an abstract game (see 3.) and that the games implement it; that orders of the
   ledger and the payments agree when `Payments` calls `Ledger`.
2. `Sessions`: sign-in, refresh, sign-out and the removal of the oldest, with the copy in
   Redis; `PriceFeed`: the collector, its spreads, and the prices a game is ended with.
3. An abstract game (open, ended, settled, paid once) which `RoundGame`, `X1000`, `OneVsOne`
   and `Setups` implement outside of the recorded races.
4. `Scheduler` on its own, with repeated jobs, refined to by the timers of the games.
