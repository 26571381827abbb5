------------------------------- MODULE X1000 -------------------------------
(***************************************************************************)
(* The x1000 game: apps/x1000 opens a game with its one bet and cashes it  *)
(* out, apps/x1000-worker ends a bet when the price of BTC reaches its     *)
(* take profit, stop loss or burn price, takes an hourly commission after  *)
(* eight hours, and resolves the games that wait for it once a second;     *)
(* apps/ledger pays out what was closed.                                   *)
(*                                                                         *)
(* A game and its bet are always written by the same transaction, so that  *)
(* one state stands for both.  Three operations end a game: each finds the *)
(* bet INPROGRESS first and then writes by the ids it found.               *)
(***************************************************************************)
EXTENDS Integers, FiniteSets

CONSTANTS
  Games,            \* the calls of addBet, and the games they open
  Users,
  Owner,            \* Owner[g]: the user who calls
  Prices,
  NoPrice,          \* endPrice of a game that was not ended by a price
  Triggers,         \* the sets of prices a bet can be ended by
  MaxCashOuts,      \* bound: calls of cashOut under way at the same time
  MaxIncidents      \* bound: restarts, events delivered twice or lost, failed payouts

ASSUME OwnerAssumption == Owner \in [Games -> Users]
ASSUME PricesAssumption == NoPrice \notin Prices
ASSUME TriggersAssumption == Triggers \subseteq SUBSET Prices
ASSUME BoundsAssumption == MaxCashOuts \in Nat /\ MaxIncidents \in Nat

VARIABLES
  game,        \* game[g]: state of the GameX1000 row and result of its bet
  endPrice,    \* game[g].endPrice
  settledBy,   \* the end price the result of the bet was computed from
  trigger,     \* trigger[g]: the prices that end the bet
  adding,      \* calls of addBet that found no open bet of their user
  cashing,     \* calls of cashOut that found the bet
  watching,    \* the price worker between reading and writing, or Idle
  batch,       \* games the resolver has read and not yet closed
  charging,    \* the commissions being taken: the game, and whose timer asked
  free,        \* games with a timer for the end of the free hours
  hourly,      \* games with an hourly timer in the registry
  stray,       \* games with an hourly timer nobody can unregister
  retrying,    \* games whose free hours will end once more, in two seconds
  outbox,      \* events of committed changes not published yet
  toWorker,    \* toWorker[e]: deliveries of an event the worker is owed
  toLedger,    \* toLedger[g]: deliveries of a CLOSE event the ledger is owed
  paid,        \* paid[g]: times the ledger paid the bet
  ends,        \* history: times a game was moved to PENDING
  cancelled,   \* history: games ended because the commission was not paid
  redelivered, \* history: events that were delivered once more
  lost,        \* history: events whose publication failed
  unpaid,      \* history: games whose payout failed and was given up
  restarts     \* history: restarts of the worker

row == <<game, endPrice, settledBy, trigger>>
calls == <<adding, cashing>>
jobs == <<watching, batch, charging>>
timers == <<free, hourly, stray, retrying>>
kafka == <<outbox, toWorker, toLedger, redelivered>>
history == <<ends, cancelled, lost, unpaid, restarts>>
vars == <<game, endPrice, settledBy, trigger, adding, cashing, watching, batch,
          charging, free, hourly, stray, retrying, outbox, toWorker, toLedger,
          paid, ends, cancelled, redelivered, lost, unpaid, restarts>>

EndPrices == Prices \cup {NoPrice}
States == {"INPROGRESS", "PENDING", "CLOSE"}
Events == [game : Games, state : States]
Event(g, s) == [game |-> g, state |-> s]
Read == [game : Games, price : EndPrices]
Idle == [games |-> {}, price |-> NoPrice]
Charges == [game : Games, timer : {"named", "stray"}]

TypeOK ==
  /\ game \in [Games -> States \cup {"NONE"}]
  /\ endPrice \in [Games -> EndPrices]
  /\ settledBy \in [Games -> EndPrices]
  /\ trigger \in [Games -> SUBSET Prices]
  /\ adding \subseteq Games
  /\ cashing \subseteq Read
  /\ watching \in [games : SUBSET Games, price : EndPrices]
  /\ batch \subseteq Read
  /\ charging \subseteq Charges
  /\ free \subseteq Games
  /\ hourly \subseteq Games
  /\ stray \subseteq Games
  /\ retrying \subseteq Games
  /\ outbox \subseteq Events
  /\ toWorker \in [Events -> Nat]
  /\ toLedger \in [Games -> Nat]
  /\ paid \in [Games -> Nat]
  /\ ends \in [Games -> Nat]
  /\ cancelled \subseteq Games
  /\ redelivered \subseteq Events
  /\ lost \subseteq Events
  /\ unpaid \subseteq Games
  /\ restarts \in Nat

Init ==
  /\ game = [g \in Games |-> "NONE"]
  /\ endPrice = [g \in Games |-> NoPrice]
  /\ settledBy = [g \in Games |-> NoPrice]
  /\ trigger = [g \in Games |-> {}]
  /\ adding = {}
  /\ cashing = {}
  /\ watching = Idle
  /\ batch = {}
  /\ charging = {}
  /\ free = {}
  /\ hourly = {}
  /\ stray = {}
  /\ retrying = {}
  /\ outbox = {}
  /\ toWorker = [e \in Events |-> 0]
  /\ toLedger = [g \in Games |-> 0]
  /\ paid = [g \in Games |-> 0]
  /\ ends = [g \in Games |-> 0]
  /\ cancelled = {}
  /\ redelivered = {}
  /\ lost = {}
  /\ unpaid = {}
  /\ restarts = 0

\* Whether one more thing may go wrong.
MayFail ==
  restarts + Cardinality(redelivered) + Cardinality(lost) + Cardinality(unpaid)
    < MaxIncidents

OpenGames(u) == {g \in Games : Owner[g] = u /\ game[g] = "INPROGRESS"}

-----------------------------------------------------------------------------
(* x1000: X1000BetsService.addBet *)

\* The open bets of the user are counted before the transaction.
CountOpen(g) ==
  /\ game[g] = "NONE"
  /\ g \notin adding
  /\ OpenGames(Owner[g]) = {}
  /\ adding' = adding \cup {g}
  /\ UNCHANGED <<row, cashing, jobs, timers, kafka, paid, history>>

AddBet(g) ==
  /\ g \in adding
  /\ adding' = adding \ {g}
  /\ game' = [game EXCEPT ![g] = "INPROGRESS"]
  /\ \E t \in Triggers : trigger' = [trigger EXCEPT ![g] = t]
  /\ outbox' = outbox \cup {Event(g, "INPROGRESS")}
  /\ UNCHANGED <<endPrice, settledBy, cashing, jobs, timers, toWorker,
                 toLedger, redelivered, paid, history>>

\* Invalid limits, not enough balance, an error of the database.
RefuseBet(g) ==
  /\ g \in adding
  /\ adding' = adding \ {g}
  /\ UNCHANGED <<row, cashing, jobs, timers, kafka, paid, history>>

-----------------------------------------------------------------------------
(* The three ways a game ends *)

\* The writes of a game and its bet find the rows by their ids alone.
MoveToPending(gs, price) ==
  /\ game' = [g \in Games |-> IF g \in gs THEN "PENDING" ELSE game[g]]
  /\ endPrice' = [g \in Games |-> IF g \in gs THEN price[g] ELSE endPrice[g]]
  /\ ends' = [g \in Games |-> IF g \in gs THEN ends[g] + 1 ELSE ends[g]]
  /\ UNCHANGED <<settledBy, trigger>>

\* X1000BetsService.cashOut: the price is fetched, then the bet is looked for.
CashOutRead(g, p) ==
  /\ game[g] = "INPROGRESS"
  /\ Cardinality(cashing) < MaxCashOuts
  /\ cashing' = cashing \cup {[game |-> g, price |-> p]}
  /\ UNCHANGED <<row, adding, jobs, timers, kafka, paid, history>>

CashOutWrite(c) ==
  /\ c \in cashing
  /\ cashing' = cashing \ {c}
  /\ MoveToPending({c.game}, [g \in Games |-> c.price])
  /\ outbox' = outbox \cup {Event(c.game, "PENDING")}
  /\ UNCHANGED <<adding, jobs, timers, toWorker, toLedger, redelivered, paid,
                 cancelled, lost, unpaid, restarts>>

CashOutFails(c) ==
  /\ c \in cashing
  /\ cashing' = cashing \ {c}
  /\ UNCHANGED <<row, adding, jobs, timers, kafka, paid, history>>

\* X1000PricesWorker.onAssetPriceChanged: a semaphore lets one price in.
PriceRead(p) ==
  LET gs == {g \in Games : game[g] = "INPROGRESS" /\ p \in trigger[g]}
  IN  /\ watching = Idle
      /\ gs # {}
      /\ watching' = [games |-> gs, price |-> p]
      /\ UNCHANGED <<row, calls, batch, charging, timers, kafka, paid, history>>

\* No event tells of these games: the resolver finds them in the database.
PriceWrite ==
  /\ watching # Idle
  /\ watching' = Idle
  /\ MoveToPending(watching.games, [g \in Games |-> watching.price])
  /\ UNCHANGED <<calls, batch, charging, timers, kafka, paid, cancelled, lost,
                 unpaid, restarts>>

\* A serialization failure or the timeout of two seconds.
PriceFails ==
  /\ watching # Idle
  /\ watching' = Idle
  /\ UNCHANGED <<row, calls, batch, charging, timers, kafka, paid, history>>

-----------------------------------------------------------------------------
(* x1000-worker: X1000GameHourlyWorker *)

Unregister(g) ==
  /\ free' = free \ {g}
  /\ hourly' = hourly \ {g}
  /\ UNCHANGED <<stray, retrying>>

\* onEightHoursHavePassed starts an interval and then registers it.  A name that
\* is taken makes that fail: the interval runs on, and the same is tried again
\* in two seconds.  One stray interval, and one retry, stand for all of a game.
StartHourly(g) ==
  \/ /\ g \notin hourly
     /\ hourly' = hourly \cup {g}
     /\ retrying' = retrying \ {g}
     /\ UNCHANGED stray
  \/ /\ g \in hourly
     /\ stray' = stray \cup {g}
     /\ retrying' = retrying \cup {g}
     /\ UNCHANGED hourly

FreeHoursPass(g) ==
  /\ g \in free
  /\ free' = free \ {g}
  /\ StartHourly(g)
  /\ UNCHANGED <<row, calls, jobs, kafka, paid, history>>

RetryHourly(g) ==
  /\ g \in retrying
  /\ StartHourly(g)
  /\ UNCHANGED <<row, calls, jobs, free, kafka, paid, history>>

HasTimer(g, t) == \/ t = "named" /\ g \in hourly
                  \/ t = "stray" /\ g \in stray

\* takeCommissionFromBet, called by either timer, looks for the bet ...
CommissionRead(g) ==
  /\ \/ /\ game[g] = "INPROGRESS"
        /\ \E t \in {"named", "stray"} :
             /\ HasTimer(g, t)
             /\ charging' = charging \cup {[game |-> g, timer |-> t]}
        /\ UNCHANGED timers
     \/ /\ game[g] # "INPROGRESS"
        /\ \E t \in {"named", "stray"} : HasTimer(g, t)
        /\ Unregister(g)
        /\ UNCHANGED charging
  /\ UNCHANGED <<row, calls, watching, batch, kafka, paid, history>>

\* ... the ledger takes the fee from the user's balance ...
CommissionPaid(c) ==
  /\ c \in charging
  /\ charging' = charging \ {c}
  /\ UNCHANGED <<row, calls, watching, batch, timers, kafka, paid, history>>

\* ... or fails to, and the game is cancelled: it keeps the end price it has.
\* Its timer is given up after the event was published, or when it finds no bet.
CommissionFails(c) ==
  /\ c \in charging
  /\ charging' = charging \ {c}
  /\ MoveToPending({c.game}, endPrice)
  /\ cancelled' = cancelled \cup {c.game}
  /\ \/ /\ outbox' = outbox \cup {Event(c.game, "PENDING")}
        /\ Unregister(c.game)
        /\ UNCHANGED lost
     \/ /\ MayFail
        /\ lost' = lost \cup {Event(c.game, "PENDING")}
        /\ UNCHANGED <<outbox, timers>>
  /\ UNCHANGED <<calls, watching, batch, toWorker, toLedger, redelivered, paid,
                 unpaid, restarts>>

\* X1000GameObserver.publishState.
TakeFrom(e) ==
  /\ toWorker[e] > 0
  /\ \/ /\ toWorker' = [toWorker EXCEPT ![e] = @ - 1]
        /\ UNCHANGED redelivered
     \/ /\ MayFail /\ e \notin redelivered
        /\ redelivered' = redelivered \cup {e}
        /\ UNCHANGED toWorker
  /\ UNCHANGED <<outbox, toLedger>>

OnGameChanged(e) ==
  /\ TakeFrom(e)
  /\ \/ /\ e.state = "INPROGRESS"
        /\ free' = free \cup {e.game}
        /\ UNCHANGED <<hourly, stray, retrying>>
     \/ /\ e.state = "PENDING"
        /\ Unregister(e.game)
  /\ UNCHANGED <<row, calls, jobs, paid, history>>

-----------------------------------------------------------------------------
(* x1000-worker: X1000GamesResolverWorker, and the restart of the worker *)

Pending == {g \in Games : game[g] = "PENDING"}

\* One run at a time; the ten games it takes are all there are in the model.
ResolveRead ==
  /\ batch = {}
  /\ Pending # {}
  /\ batch' = {[game |-> g, price |-> endPrice[g]] : g \in Pending}
  /\ UNCHANGED <<row, calls, watching, charging, timers, kafka, paid, history>>

\* MUTANT of Resolve: the bet keeps the result it had.
ResolveGameOnly(r) ==
  /\ r \in batch
  /\ batch' = batch \ {r}
  /\ game' = [game EXCEPT ![r.game] = "CLOSE"]
  /\ outbox' = outbox \cup {Event(r.game, "CLOSE")}
  /\ UNCHANGED <<endPrice, settledBy, trigger, calls, watching, charging,
                 timers, toWorker, toLedger, redelivered, paid, history>>

\* MUTANT of Resolve: the bet is written, the game is not.
ResolveBetOnly(r) ==
  /\ r \in batch
  /\ batch' = batch \ {r}
  /\ settledBy' = [settledBy EXCEPT ![r.game] = r.price]
  /\ outbox' = outbox \cup {Event(r.game, "CLOSE")}
  /\ UNCHANGED <<game, endPrice, trigger, calls, watching, charging, timers,
                 toWorker, toLedger, redelivered, paid, history>>

\* MUTANT of Resolve: nobody is told of the closed game.
ResolveSilently(r) ==
  /\ r \in batch
  /\ batch' = batch \ {r}
  /\ game' = [game EXCEPT ![r.game] = "CLOSE"]
  /\ settledBy' = [settledBy EXCEPT ![r.game] = r.price]
  /\ UNCHANGED <<endPrice, trigger, calls, watching, charging, timers, kafka,
                 paid, history>>

\* The result is computed from the game as it was read, and written by id.
Resolve(r) ==
  /\ r \in batch
  /\ batch' = batch \ {r}
  /\ game' = [game EXCEPT ![r.game] = "CLOSE"]
  /\ settledBy' = [settledBy EXCEPT ![r.game] = r.price]
  /\ outbox' = outbox \cup {Event(r.game, "CLOSE")}
  /\ UNCHANGED <<endPrice, trigger, calls, watching, charging, timers, toWorker,
                 toLedger, redelivered, paid, history>>

\* An error ends the run; the next one is a second later.
ResolveFails ==
  /\ batch # {}
  /\ batch' = {}
  /\ UNCHANGED <<row, calls, watching, charging, timers, kafka, paid, history>>

\* MUTANT of Restart: onModuleInit does nothing.
RestartForgetsBets ==
  /\ MayFail
  /\ restarts' = restarts + 1
  /\ watching' = Idle
  /\ batch' = {}
  /\ charging' = {}
  /\ free' = {}
  /\ hourly' = {}
  /\ stray' = {}
  /\ retrying' = {}
  /\ lost' = {e \in lost : e.state # "INPROGRESS"}
  /\ UNCHANGED <<row, calls, kafka, paid, ends, cancelled, unpaid>>

\* What is in memory is lost, publications of the worker too.  onModuleInit
\* gives every open bet its free hours again, and so makes up for the events of
\* opened games that were lost.
Restart ==
  /\ MayFail
  /\ restarts' = restarts + 1
  /\ watching' = Idle
  /\ batch' = {}
  /\ charging' = {}
  /\ free' = {g \in Games : game[g] = "INPROGRESS"}
  /\ hourly' = {}
  /\ stray' = {}
  /\ retrying' = {}
  /\ \E gone \in SUBSET {e \in outbox : e.state # "INPROGRESS"} :
       /\ outbox' = outbox \ gone
       /\ lost' = {e \in lost : e.state # "INPROGRESS"} \cup gone
  /\ UNCHANGED <<row, calls, toWorker, toLedger, redelivered, paid, ends,
                 cancelled, unpaid>>

-----------------------------------------------------------------------------
(* Kafka, and GamesRewardsService of the ledger *)

\* The ledger waits for CLOSE, the worker for the other events.
Publish(e) ==
  /\ e \in outbox
  /\ outbox' = outbox \ {e}
  /\ \/ /\ e.state # "CLOSE"
        /\ toWorker' = [toWorker EXCEPT ![e] = @ + 1]
        /\ UNCHANGED toLedger
     \/ /\ e.state = "CLOSE"
        /\ toLedger' = [toLedger EXCEPT ![e.game] = @ + 1]
        /\ UNCHANGED toWorker
  /\ UNCHANGED <<row, calls, jobs, timers, redelivered, paid, history>>

\* A failed publication is swallowed, or seen by a caller who does not repeat it:
\* nobody publishes the event later.
PublishFails(e) ==
  /\ e \in outbox
  /\ MayFail
  /\ outbox' = outbox \ {e}
  /\ lost' = lost \cup {e}
  /\ UNCHANGED <<row, calls, jobs, timers, toWorker, toLedger, redelivered, paid,
                 ends, cancelled, unpaid, restarts>>

\* The bet is paid by the outcome it has in the database.
GiveRewards(g) ==
  /\ toLedger[g] > 0
  /\ \/ /\ toLedger' = [toLedger EXCEPT ![g] = @ - 1]
        /\ UNCHANGED redelivered
     \/ /\ MayFail /\ Event(g, "CLOSE") \notin redelivered
        /\ redelivered' = redelivered \cup {Event(g, "CLOSE")}
        /\ UNCHANGED toLedger
  /\ paid' = [paid EXCEPT ![g] = @ + 1]
  /\ UNCHANGED <<row, calls, jobs, timers, outbox, toWorker, history>>

\* The transaction is REPEATABLE READ: a write of the user's balance meanwhile
\* makes it fail as a whole.  Either the event is delivered again, as if it had
\* not been, or it is given up.
GiveRewardsFails(g) ==
  /\ toLedger[g] > 0
  /\ MayFail
  /\ toLedger' = [toLedger EXCEPT ![g] = @ - 1]
  /\ unpaid' = unpaid \cup {g}
  /\ UNCHANGED <<row, calls, jobs, timers, outbox, toWorker, redelivered, paid,
                 ends, cancelled, lost, restarts>>

-----------------------------------------------------------------------------

\* Games is finite, the users' games are not.
Done ==
  /\ \A g \in Games : game[g] = "CLOSE"
  /\ UNCHANGED vars

Player(g) ==
  \/ CountOpen(g) \/ AddBet(g) \/ RefuseBet(g)
  \/ \E p \in Prices : CashOutRead(g, p)

Next ==
  \/ \E g \in Games : Player(g)
  \/ \E c \in cashing : CashOutWrite(c) \/ CashOutFails(c)
  \/ \E p \in Prices : PriceRead(p)
  \/ PriceWrite \/ PriceFails
  \/ \E g \in Games :
       FreeHoursPass(g) \/ RetryHourly(g) \/ CommissionRead(g)
       \/ GiveRewards(g) \/ GiveRewardsFails(g)
  \/ \E c \in charging : CommissionPaid(c) \/ CommissionFails(c)
  \/ \E e \in Events : OnGameChanged(e)
  \/ \E e \in outbox : Publish(e) \/ PublishFails(e)
  \/ ResolveRead
  \/ \E r \in batch : Resolve(r)
  \/ ResolveFails
  \/ Restart
  \/ Done

Spec == Init /\ [][Next]_vars

\* Time passes, calls and transactions end, events are published or lost and
\* handled, and the database does not fail for ever.
Fairness ==
  /\ \A g \in Games :
       /\ WF_vars(AddBet(g) \/ RefuseBet(g))
       /\ WF_vars(FreeHoursPass(g))
       /\ WF_vars(CommissionRead(g))
       /\ WF_vars(GiveRewards(g) \/ GiveRewardsFails(g))
  /\ WF_vars(\E c \in charging : CommissionPaid(c) \/ CommissionFails(c))
  /\ WF_vars(\E c \in cashing : CashOutWrite(c) \/ CashOutFails(c))
  /\ \A e \in Events : WF_vars(OnGameChanged(e))
  /\ WF_vars(\E e \in outbox : Publish(e) \/ PublishFails(e))
  /\ WF_vars(PriceWrite \/ PriceFails)
  /\ WF_vars(ResolveRead)
  /\ SF_vars(\E r \in batch : Resolve(r))

FairSpec == Spec /\ Fairness

-----------------------------------------------------------------------------
(* Properties *)

\* A game is closed, and the ledger told, once for every time it was moved to
\* PENDING: a bet is paid twice only if two operations ended its game, or if
\* Kafka delivered the CLOSE event once more.
Closings(g) ==
  (IF game[g] = "PENDING" THEN 1 ELSE 0)
    + (IF Event(g, "CLOSE") \in outbox THEN 1 ELSE 0) + toLedger[g] + paid[g]

PaidOncePerEnd ==
  \A g \in Games : Event(g, "CLOSE") \notin redelivered => Closings(g) <= ends[g]

\* A game that was ended once has the result of the end price it shows, and is
\* rejected if and only if it was cancelled by a commission that was not paid.
ResultMatchesEnd ==
  \A g \in Games :
    game[g] = "CLOSE" /\ ends[g] = 1 =>
      /\ settledBy[g] = endPrice[g]
      /\ settledBy[g] = NoPrice <=> g \in cancelled

\* No open bet escapes its commission: it has a timer, or an event is on its way
\* that will give it one, unless the publication of that event failed and the
\* worker was not restarted since.  And it is charged by two timers, one of which
\* nobody can stop, only after its first event was delivered once more, or came
\* after a restart that had found the bet in the database.
CommissionIsDue ==
  \A g \in Games :
    LET opening == Event(g, "INPROGRESS")
    IN  /\ game[g] = "INPROGRESS" =>
             \/ g \in free \cup hourly
             \/ opening \in outbox \/ toWorker[opening] > 0
             \/ opening \in lost
        /\ g \in stray \cup retrying => opening \in redelivered \/ restarts > 0

\* A game that was ended is closed, however often the resolver fails on the way,
\* and its bet is paid, unless its CLOSE event was lost before it was published,
\* or its payout failed and was given up.
EndedIsPaid ==
  \A g \in Games :
    (game[g] = "PENDING")
      ~> /\ game[g] = "CLOSE"
         /\ paid[g] > 0 \/ Event(g, "CLOSE") \in lost \/ g \in unpaid

=============================================================================
