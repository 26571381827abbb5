------------------------------- MODULE Setups -------------------------------
(***************************************************************************)
(* The setup game: in apps/setups a user opens a game with a take profit   *)
(* and a stop loss, and others bet on which price is reached first;        *)
(* apps/setups-worker keeps the active games of an asset in memory, moves  *)
(* a game to PENDING when a price crosses one of its bounds or its time is *)
(* over, resolves it when it is told so, and apps/ledger pays it out.      *)
(*                                                                         *)
(* All games are of one asset.  Prices are what they are to a game: beyond *)
(* its take profit, beyond its stop loss, or between them.                 *)
(***************************************************************************)
EXTENDS Integers, FiniteSets

CONSTANTS
  Games,
  Users,
  Owner,            \* Owner[g]: the user who opens the game
  Up,               \* the users who bet on the take profit; others do not
  MaxFailures       \* bound: events that are not published, resolutions, moves
                    \* by a price and payouts that fail, restarts of the
                    \* worker, and events Kafka delivers once more

ASSUME OwnerAssumption == Owner \in [Games -> Users]
ASSUME UpAssumption == Up \subseteq Users
ASSUME BoundsAssumption == MaxFailures \in Nat

VARIABLES
  game,        \* game[g]: GameSetup.state, "NONE" before it is created
  endPrice,    \* game[g].endPrice
  bets,        \* bets[g][u]: result of the user's BetSetup row, or "NONE"
  counted,     \* counted[g]: the bets the resolver worked the outcomes out of
  phase,       \* phase[g]: the clock against stopBetsAt and endAt
  opening,     \* calls of createGame that counted the open games
  betting,     \* calls of addBet that found the game open
  heap,        \* heap[g]: entries of the game in the worker's heap
  timer,       \* timer[g]: names of the registered timers of the game
  due,         \* timer callbacks that are about to run
  stopping,    \* checkAfterStopBetsAtTime, between counting and writing
  moving,      \* games the price handler is about to move, with its price
  resolving,   \* runs of the resolver: the game, and the bets that were read
  outbox,      \* events of committed changes not published yet
  toWorker,    \* toWorker[e]: deliveries of an event the worker is owed
  toLedger,    \* toLedger[g]: deliveries of a CLOSE event the ledger is owed
  paid,        \* paid[g]: times the ledger paid the game out
  crossed,     \* history: the first price this process saw cross a bound
  missed,      \* history: moves of a game by a price that failed
  unpaid,      \* history: games whose payout failed and was given up
  late,        \* history: games that got a bet when they were resolved
  disordered,  \* history: games whose OPEN event came when they were over
  redelivered, \* history: events that were delivered once more
  faults,      \* number of events that were not published and of resolutions
               \* that failed, for the bound
  restarts     \* number of restarts, for the bound

db == <<game, endPrice, bets, counted>>
calls == <<opening, betting>>
timers == <<timer, due>>
memory == <<heap, timer, due, stopping, moving, resolving>>
kafka == <<outbox, toWorker, toLedger, redelivered>>
history == <<crossed, missed, unpaid, late, disordered>>
counts == <<faults, restarts>>
vars == <<game, endPrice, bets, counted, phase, opening, betting, heap, timer,
          due, stopping, moving, resolving, outbox, toWorker, toLedger,
          redelivered, paid, crossed, missed, unpaid, late, disordered, faults,
          restarts>>

States == {"OPEN", "INPROGRESS", "PENDING", "CLOSE"}
Active == {"OPEN", "INPROGRESS"}
Results == {"OPEN", "INPROGRESS", "PENDING", "WON", "LOSS", "REJECT"}
Bounds == {"takeProfit", "stopLoss"}
Prices == Bounds \cup {"between"}
Events == [game : Games, state : States]
Event(g, s) == [game |-> g, state |-> s]
\* What is published, and the code that does so.
Sources == {"create", "price", "stop", "end", "close"}
Sending == [event : Events, by : Sources]
Send(g, s, by) == [event |-> Event(g, s), by |-> by]
Jobs == {"stop", "end"}
Failures ==
  faults + restarts + Cardinality(redelivered) + Cardinality(missed)
    + Cardinality(unpaid)
IsResolved(g) == \E r \in resolving : r.game = g
Bettors(g) == {u \in Users : bets[g][u] # "NONE"}

TypeOK ==
  /\ game \in [Games -> States \cup {"NONE"}]
  /\ endPrice \in [Games -> Prices \cup {"none"}]
  /\ bets \in [Games -> [Users -> Results \cup {"NONE"}]]
  /\ counted \in [Games -> SUBSET Users]
  /\ phase \in [Games -> {"bets", "play", "over"}]
  /\ opening \subseteq Games
  /\ betting \subseteq Games \X Users
  /\ heap \in [Games -> Nat]
  /\ timer \in [Games -> SUBSET Jobs]
  /\ due \subseteq Jobs \X Games
  /\ stopping \subseteq [game : Games, empty : BOOLEAN]
  /\ moving \subseteq Games \X Bounds
  /\ resolving \subseteq [game : Games, read : SUBSET Users]
  /\ outbox \subseteq Sending
  /\ toWorker \in [Events -> Nat]
  /\ toLedger \in [Games -> Nat]
  /\ paid \in [Games -> Nat]
  /\ crossed \in [Games -> Bounds \cup {"none"}]
  /\ missed \subseteq Games \X Bounds /\ unpaid \subseteq Games
  /\ late \subseteq Games /\ disordered \subseteq Games
  /\ redelivered \subseteq Events
  /\ faults \in Nat /\ restarts \in Nat

Init ==
  /\ game = [g \in Games |-> "NONE"]
  /\ endPrice = [g \in Games |-> "none"]
  /\ bets = [g \in Games |-> [u \in Users |-> "NONE"]]
  /\ counted = [g \in Games |-> {}]
  /\ phase = [g \in Games |-> "bets"]
  /\ opening = {} /\ betting = {}
  /\ heap = [g \in Games |-> 0]
  /\ timer = [g \in Games |-> {}]
  /\ due = {} /\ stopping = {} /\ moving = {} /\ resolving = {}
  /\ outbox = {}
  /\ toWorker = [e \in Events |-> 0]
  /\ toLedger = [g \in Games |-> 0]
  /\ paid = [g \in Games |-> 0]
  /\ crossed = [g \in Games |-> "none"]
  /\ missed = {} /\ unpaid = {} /\ late = {} /\ disordered = {} /\ redelivered = {}
  /\ faults = 0 /\ restarts = 0

-----------------------------------------------------------------------------
(* Time *)

\* stopBetsAt, after a third of the timeframe, then endAt.
Tick(g) ==
  /\ game[g] # "NONE"
  /\ \/ phase[g] = "bets" /\ phase' = [phase EXCEPT ![g] = "play"]
     \/ phase[g] = "play" /\ phase' = [phase EXCEPT ![g] = "over"]
  /\ UNCHANGED <<db, calls, memory, kafka, paid, history, counts>>

Passed(job, g) == IF job = "stop" THEN phase[g] # "bets" ELSE phase[g] = "over"

-----------------------------------------------------------------------------
(* setups: SetupGameWriteService and SetupBetsWriteService *)

OpenGames(u) == {g \in Games : Owner[g] = u /\ game[g] \in Active}

\* createGame counts the open games of the user, then opens one.
CountOpen(g) ==
  /\ game[g] = "NONE"
  /\ g \notin opening
  /\ OpenGames(Owner[g]) = {}
  /\ opening' = opening \cup {g}
  /\ UNCHANGED <<db, phase, betting, memory, kafka, paid, history, counts>>

CreateGame(g) ==
  /\ g \in opening
  /\ opening' = opening \ {g}
  /\ game' = [game EXCEPT ![g] = "OPEN"]
  /\ outbox' = outbox \cup {Send(g, "OPEN", "create")}
  /\ UNCHANGED <<endPrice, bets, counted, phase, betting, memory, toWorker,
                 toLedger, redelivered, paid, history, counts>>

\* addBet reads the game, and writes the bet whatever the game is by then.
BetRead(g, u) ==
  /\ game[g] = "OPEN"
  /\ phase[g] = "bets"
  /\ bets[g][u] = "NONE"
  /\ betting' = betting \cup {<<g, u>>}
  /\ UNCHANGED <<db, phase, opening, memory, kafka, paid, history, counts>>

BetWrite(g, u) ==
  /\ <<g, u>> \in betting
  /\ betting' = betting \ {<<g, u>>}
  /\ bets' = [bets EXCEPT ![g][u] = "OPEN"]
  /\ late' = IF game[g] \in Active THEN late ELSE late \cup {g}
  /\ UNCHANGED <<game, endPrice, counted, phase, opening, memory, kafka, paid,
                 crossed, missed, unpaid, disordered, counts>>

\* Not enough balance, a second bet of the user, an error of the database.
CallFails ==
  /\ \/ \E g \in opening : opening' = opening \ {g} /\ UNCHANGED betting
     \/ \E b \in betting : betting' = betting \ {b} /\ UNCHANGED opening
  /\ UNCHANGED <<db, phase, memory, kafka, paid, history, counts>>

-----------------------------------------------------------------------------
(* setups-worker: SetupGameWorker, timers *)

\* SchedulerService.scheduleJob; the two jobs of a game have names of their own.
ScheduleJob(g, job) ==
  IF Passed(job, g)
  THEN /\ timer' = [timer EXCEPT ![g] = @ \ {job}]
       /\ due' = due \cup {<<job, g>>}
  ELSE /\ timer' = [timer EXCEPT ![g] = @ \cup {job}]
       /\ UNCHANGED due

TimerFires(g, job) ==
  /\ job \in timer[g]
  /\ Passed(job, g)
  /\ timer' = [timer EXCEPT ![g] = @ \ {job}]
  /\ due' = due \cup {<<job, g>>}
  /\ UNCHANGED <<db, phase, calls, heap, stopping, moving, resolving, kafka,
                 paid, history, counts>>

\* checkAfterStopBetsAtTime counts the bets before its transaction ...
StopBetsRead(g) ==
  /\ <<"stop", g>> \in due
  /\ due' = due \ {<<"stop", g>>}
  /\ stopping' = stopping \cup {[game |-> g, empty |-> Bettors(g) = {}]}
  /\ UNCHANGED <<db, phase, calls, heap, timer, moving, resolving, kafka, paid,
                 history, counts>>

\* The bets of a game that move on with it.
BetsTo(g, from, to) ==
  [u \in Users |-> IF bets[g][u] \in from THEN to ELSE bets[g][u]]

\* SetupGameRepository.moveGameToPendingState: an active game and its bets.  A
\* game that is not active is reported as not found.
MoveToPending(g, price, by) ==
  IF game[g] \in Active
  THEN /\ game' = [game EXCEPT ![g] = "PENDING"]
       /\ endPrice' = [endPrice EXCEPT ![g] = price]
       /\ bets' = [bets EXCEPT ![g] = BetsTo(g, {"OPEN", "INPROGRESS"}, "PENDING")]
       /\ outbox' = outbox \cup {Send(g, "PENDING", by)}
  ELSE UNCHANGED <<game, endPrice, bets, outbox>>

\* ... and moves the game on, without bets to PENDING.  Nobody but the ledger
\* and the screens is interested in the INPROGRESS event, which is left out.
StopBetsWrite(s) ==
  /\ s \in stopping
  /\ stopping' = stopping \ {s}
  /\ IF s.empty
     THEN /\ MoveToPending(s.game, "none", "stop")
          /\ UNCHANGED timers
     ELSE IF game[s.game] = "OPEN"
          THEN /\ game' = [game EXCEPT ![s.game] = "INPROGRESS"]
               /\ bets' = [bets EXCEPT ![s.game] =
                             BetsTo(s.game, {"OPEN"}, "INPROGRESS")]
               /\ ScheduleJob(s.game, "end")
               /\ UNCHANGED <<endPrice, outbox>>
          ELSE UNCHANGED <<game, endPrice, bets, outbox, timers>>
  /\ UNCHANGED <<counted, phase, calls, heap, moving, resolving, toWorker,
                 toLedger, redelivered, paid, history, counts>>

\* MUTANT of StopBetsFails: the error is logged, the job is not scheduled again.
StopBetsForgotten(s) ==
  /\ s \in stopping
  /\ stopping' = stopping \ {s}
  /\ UNCHANGED <<db, phase, calls, heap, timers, moving, resolving, kafka, paid,
                 history, counts>>

\* A transaction that fails otherwise is scheduled again.
StopBetsFails(s) ==
  /\ s \in stopping
  /\ stopping' = stopping \ {s}
  /\ ScheduleJob(s.game, "stop")
  /\ UNCHANGED <<db, phase, calls, heap, moving, resolving, kafka, paid, history,
                 counts>>

\* finalize, with the current price.  When it fails it is scheduled again.
Finalize(g) ==
  /\ <<"end", g>> \in due
  /\ due' = due \ {<<"end", g>>}
  /\ \E price \in Prices : MoveToPending(g, price, "end")
  /\ UNCHANGED <<counted, phase, calls, heap, timer, stopping, moving,
                 resolving, toWorker, toLedger, redelivered, paid, history,
                 counts>>

-----------------------------------------------------------------------------
(* setups-worker: SetupGameWorker, prices *)

\* onAssetPriceChanged is called for one price after the other, and waits for the
\* handler of the last one: the games of the heap are read at once, and moved one
\* by one.
PriceChanged(price) ==
  LET hit == {g \in Games : heap[g] > 0 /\ phase[g] # "over"}
  IN  /\ moving = {} /\ hit # {}
      /\ moving' = {<<g, price>> : g \in hit}
      /\ crossed' = [g \in Games |->
                       IF g \in hit /\ crossed[g] = "none" THEN price
                                                           ELSE crossed[g]]
      /\ UNCHANGED <<db, phase, calls, heap, timers, stopping, resolving, kafka,
                     paid, missed, unpaid, late, disordered, counts>>

\* MUTANT of PriceMoves: a game that is over is moved once more.
PriceMovesAny(m) ==
  /\ m \in moving
  /\ moving' = moving \ {m}
  /\ game' = [game EXCEPT ![m[1]] = "PENDING"]
  /\ endPrice' = [endPrice EXCEPT ![m[1]] = m[2]]
  /\ bets' = [bets EXCEPT ![m[1]] = BetsTo(m[1], {"OPEN", "INPROGRESS"}, "PENDING")]
  /\ outbox' = outbox \cup {Send(m[1], "PENDING", "price")}
  /\ UNCHANGED <<counted, phase, calls, heap, timers, stopping, resolving,
                 toWorker, toLedger, redelivered, paid, history, counts>>

PriceMoves(m) ==
  /\ m \in moving
  /\ moving' = moving \ {m}
  /\ MoveToPending(m[1], m[2], "price")
  /\ UNCHANGED <<counted, phase, calls, heap, timers, stopping, resolving,
                 toWorker, toLedger, redelivered, paid, history, counts>>

\* The transaction is SERIALIZABLE and fails when the game or a bet was written
\* meanwhile, or takes too long.  The error is logged, and the game stays as it is
\* for a later price or its time.
PriceMoveFails(m) ==
  /\ m \in moving
  /\ Failures < MaxFailures
  /\ moving' = moving \ {m}
  /\ missed' = missed \cup {m}
  /\ UNCHANGED <<db, phase, calls, heap, timers, stopping, resolving, kafka, paid,
                 crossed, unpaid, late, disordered, counts>>

-----------------------------------------------------------------------------
(* Kafka *)

\* A committed change is published; a price handler then clears the timers.
Publish(s) ==
  /\ s \in outbox
  /\ outbox' = outbox \ {s}
  /\ toWorker' = [toWorker EXCEPT ![s.event] = @ + 1]
  /\ toLedger' = IF s.event.state = "CLOSE"
                 THEN [toLedger EXCEPT ![s.event.game] = @ + 1] ELSE toLedger
  /\ timer' = IF s.by = "price" THEN [timer EXCEPT ![s.event.game] = {}] ELSE timer
  /\ UNCHANGED <<db, phase, calls, heap, due, stopping, moving, resolving,
                 redelivered, paid, history, counts>>

\* The event is lost.  What published it at stopBetsAt or endAt is scheduled
\* again, and then finds no game to move.
PublishFails(s) ==
  /\ s \in outbox
  /\ Failures < MaxFailures
  /\ faults' = faults + 1
  /\ outbox' = outbox \ {s}
  /\ IF s.by \in Jobs THEN ScheduleJob(s.event.game, s.by) ELSE UNCHANGED timers
  /\ UNCHANGED <<db, phase, calls, heap, stopping, moving, resolving, toWorker,
                 toLedger, redelivered, paid, history, restarts>>

\* An event is delivered: it is acknowledged, or it comes once more.
TakeFrom(e) ==
  /\ toWorker[e] > 0
  /\ \/ /\ toWorker' = [toWorker EXCEPT ![e] = @ - 1]
        /\ UNCHANGED redelivered
     \/ /\ Failures < MaxFailures /\ e \notin redelivered
        /\ redelivered' = redelivered \cup {e}
        /\ UNCHANGED toWorker
  /\ UNCHANGED <<outbox, toLedger>>

-----------------------------------------------------------------------------
(* setups-worker: onGameChanged of SetupGameWorker and of the finalizer *)

OnOpened(g) ==
  /\ TakeFrom(Event(g, "OPEN"))
  /\ heap' = [heap EXCEPT ![g] = @ + 1]
  /\ ScheduleJob(g, "stop")
  /\ disordered' = IF game[g] \in Active THEN disordered ELSE disordered \cup {g}
  /\ UNCHANGED <<db, phase, calls, stopping, moving, resolving, paid, crossed,
                 missed, unpaid, late, counts>>

\* MUTANT of OnPending: the heap keeps the game.
OnPendingKeepsHeap(g) ==
  /\ ~IsResolved(g)
  /\ TakeFrom(Event(g, "PENDING"))
  /\ resolving' = IF game[g] = "PENDING"
                  THEN resolving \cup {[game |-> g, read |-> Bettors(g)]}
                  ELSE resolving
  /\ UNCHANGED <<db, phase, calls, heap, timers, stopping, moving, paid, history,
                 counts>>

\* The heap loses the game, and moveGameToCloseState reads it with its bets.
OnPending(g) ==
  /\ ~IsResolved(g)
  /\ TakeFrom(Event(g, "PENDING"))
  /\ heap' = [heap EXCEPT ![g] = 0]
  /\ resolving' = IF game[g] = "PENDING"
                  THEN resolving \cup {[game |-> g, read |-> Bettors(g)]}
                  ELSE resolving
  /\ UNCHANGED <<db, phase, calls, timers, stopping, moving, paid, history,
                 counts>>

OnClosed(g) ==
  /\ TakeFrom(Event(g, "CLOSE"))
  /\ heap' = [heap EXCEPT ![g] = 0]
  /\ UNCHANGED <<db, phase, calls, timers, stopping, moving, resolving, paid,
                 history, counts>>

\* isGameRejected: no price, bets on one side only, or no bound reached.
IsRejected(g, read) ==
  \/ endPrice[g] \in {"none", "between"}
  \/ read \cap Up = {}
  \/ read \subseteq Up

\* getSetupGameResult, for the bets that were read.
ResultOf(g, read, u) ==
  IF IsRejected(g, read) THEN "REJECT"
  ELSE IF (u \in Up) = (endPrice[g] = "takeProfit") THEN "WON" ELSE "LOSS"

\* MUTANT of Resolve: the game is closed without its bets.
ResolveGameOnly(r) ==
  /\ game[r.game] = "PENDING"
  /\ resolving' = resolving \ {r}
  /\ counted' = [counted EXCEPT ![r.game] = r.read]
  /\ game' = [game EXCEPT ![r.game] = "CLOSE"]
  /\ outbox' = outbox \cup {Send(r.game, "CLOSE", "close")}
  /\ UNCHANGED <<endPrice, bets, phase, calls, heap, timers, stopping, moving,
                 toWorker, toLedger, redelivered, paid, history, counts>>

\* The transaction of moveGameToCloseState.  Promise.all is given an array of
\* arrays and waits for none of the updates: a bet that is not PENDING is not
\* found, and neither stops nor rolls back the transaction.
Resolve(r) ==
  /\ game[r.game] = "PENDING"
  /\ resolving' = resolving \ {r}
  /\ bets' = [bets EXCEPT ![r.game] = [u \in Users |->
                IF u \in r.read /\ @[u] = "PENDING"
                THEN ResultOf(r.game, r.read, u) ELSE @[u]]]
  /\ counted' = [counted EXCEPT ![r.game] = r.read]
  /\ game' = [game EXCEPT ![r.game] = "CLOSE"]
  /\ outbox' = outbox \cup {Send(r.game, "CLOSE", "close")}
  /\ UNCHANGED <<endPrice, phase, calls, heap, timers, stopping, moving,
                 toWorker, toLedger, redelivered, paid, history, counts>>

\* The transaction fails, and so does the handler.  Either the event is delivered
\* again, and the resolution is as if it had not begun, or it is given up.
ResolveFails(r) ==
  /\ Failures < MaxFailures
  /\ faults' = faults + 1
  /\ resolving' = resolving \ {r}
  /\ UNCHANGED <<db, phase, calls, heap, timers, stopping, moving, kafka, paid,
                 history, restarts>>

\* What a start of the worker finds: restartGamesAfterReboot puts the active
\* games on the heap and schedules them, Kafka delivers again what was being
\* handled, what the old process had still to publish is gone, and so is a
\* price that it had not yet moved a game with.
Rebooted ==
  LET active == {g \in Games : game[g] \in Active}
      job(g) == IF game[g] = "OPEN" THEN "stop" ELSE "end"
  IN  /\ heap' = [g \in Games |-> IF g \in active THEN 1 ELSE 0]
      /\ timer' = [g \in Games |-> IF g \in active /\ ~Passed(job(g), g)
                                   THEN {job(g)} ELSE {}]
      /\ due' = {<<job(g), g>> : g \in {h \in active : Passed(job(h), h)}}
      /\ stopping' = {} /\ moving' = {} /\ resolving' = {}
      /\ toWorker' = [e \in Events |->
                        IF e.state = "PENDING" /\ IsResolved(e.game)
                        THEN toWorker[e] + 1 ELSE toWorker[e]]
      /\ outbox' = {s \in outbox : s.by = "create"}
      /\ crossed' = [g \in Games |-> IF g \in active THEN "none" ELSE crossed[g]]

Restart ==
  /\ Failures < MaxFailures
  /\ restarts' = restarts + 1
  /\ Rebooted
  /\ UNCHANGED <<db, phase, calls, toLedger, redelivered, paid, missed, unpaid,
                 late, disordered, faults>>

\* The update of a bet that is not found is a rejection that nobody handles,
\* and Node.js ends the process, here before the transaction is committed.
UnhandledRejection(r) ==
  /\ \E u \in r.read : bets[r.game][u] # "PENDING"
  /\ Rebooted
  /\ UNCHANGED <<db, phase, calls, toLedger, redelivered, paid, missed, unpaid,
                 late, disordered, counts>>

-----------------------------------------------------------------------------
(* ledger: GamesRewardsService.giveRewardsForSetups *)

With(g, results) == {u \in Users : bets[g][u] \in results}

\* checkIsBalanced: a game that is not rejected pays out the stakes of the bets
\* its outcomes were worked out of, and takes in those of the bets that have a
\* result.
Balanced(g) ==
  \/ With(g, {"WON", "LOSS"}) = {}
  \/ With(g, {"WON", "LOSS"}) = counted[g]

\* MUTANT of GiveRewards: a game with rejected bets is not paid back.
GiveRewardsToWinners(g) ==
  /\ toLedger[g] > 0
  /\ toLedger' = [toLedger EXCEPT ![g] = @ - 1]
  /\ paid' = IF Balanced(g) /\ With(g, {"REJECT"}) = {}
             THEN [paid EXCEPT ![g] = @ + 1] ELSE paid
  /\ UNCHANGED <<db, phase, calls, memory, outbox, toWorker, redelivered,
                 history, counts>>

GiveRewards(g) ==
  /\ toLedger[g] > 0
  /\ \/ /\ toLedger' = [toLedger EXCEPT ![g] = @ - 1]
        /\ UNCHANGED redelivered
     \/ /\ Failures < MaxFailures /\ Event(g, "CLOSE") \notin redelivered
        /\ redelivered' = redelivered \cup {Event(g, "CLOSE")}
        /\ UNCHANGED toLedger
  /\ paid' = IF Balanced(g) THEN [paid EXCEPT ![g] = @ + 1] ELSE paid
  /\ UNCHANGED <<db, phase, calls, memory, outbox, toWorker, history, counts>>

\* The transaction is REPEATABLE READ and fails as a whole when a balance was
\* written meanwhile.  Either the event is delivered again, as if it had not been,
\* or it is given up.
GiveRewardsFails(g) ==
  /\ toLedger[g] > 0
  /\ Failures < MaxFailures
  /\ toLedger' = [toLedger EXCEPT ![g] = @ - 1]
  /\ unpaid' = unpaid \cup {g}
  /\ UNCHANGED <<db, phase, calls, memory, outbox, toWorker, redelivered, paid,
                 crossed, missed, late, disordered, counts>>

-----------------------------------------------------------------------------
\* Games is finite, the users' games are not.
Done ==
  /\ \A g \in Games : game[g] # "NONE"
  /\ UNCHANGED vars

Next ==
  \/ \E g \in Games :
       \/ Tick(g) \/ CountOpen(g) \/ CreateGame(g)
       \/ \E u \in Users : BetRead(g, u) \/ BetWrite(g, u)
       \/ \E job \in Jobs : TimerFires(g, job)
       \/ StopBetsRead(g) \/ Finalize(g)
       \/ OnOpened(g) \/ OnPending(g) \/ OnClosed(g)
       \/ GiveRewards(g) \/ GiveRewardsFails(g)
  \/ CallFails
  \/ \E s \in stopping : StopBetsWrite(s) \/ StopBetsFails(s)
  \/ \E price \in Bounds : PriceChanged(price)
  \/ \E m \in moving : PriceMoves(m) \/ PriceMoveFails(m)
  \/ \E s \in outbox : Publish(s) \/ PublishFails(s)
  \/ \E r \in resolving : Resolve(r) \/ ResolveFails(r) \/ UnhandledRejection(r)
  \/ Restart
  \/ Done

Spec == Init /\ [][Next]_vars

\* Time passes, timers fire, transactions end and do not fail for ever, events
\* are published and handled.
Fairness ==
  /\ \A g \in Games :
       /\ WF_vars(Tick(g))
       /\ WF_vars(\E job \in Jobs : TimerFires(g, job))
       /\ WF_vars(StopBetsRead(g)) /\ WF_vars(Finalize(g))
       /\ WF_vars(OnOpened(g)) /\ WF_vars(OnPending(g))
       /\ WF_vars(GiveRewards(g) \/ GiveRewardsFails(g))
  /\ SF_vars(\E s \in stopping : StopBetsWrite(s))
  /\ WF_vars(\E r \in resolving : Resolve(r))
  /\ WF_vars(\E s \in outbox : Publish(s))

FairSpec == Spec /\ Fairness

-----------------------------------------------------------------------------
(* Properties *)

\* A closed game is settled as a whole: all bets are given back, or some have
\* won what others have lost.  Only a bet that was written when the game was
\* over already is left without a result (setup.repository.ts 95-148).
ClosedIsSettled ==
  \A g \in Games \ late :
    game[g] = "CLOSE" =>
      \/ Bettors(g) = With(g, {"REJECT"})
      \/ /\ Bettors(g) = With(g, {"WON", "LOSS"})
         /\ With(g, {"WON"}) # {} /\ With(g, {"LOSS"}) # {}

\* A game is paid once, unless Kafka delivers its CLOSE event once more.
PaidOnce ==
  \A g \in Games : paid[g] > 1 => Event(g, "CLOSE") \in redelivered

\* The price a game ends with is the first one that crossed a bound since the
\* worker started, whatever the timers do meanwhile, unless the move of the game
\* by that very price failed: then a later and opposite price may decide.
FirstPriceCounts ==
  \A g \in Games :
    endPrice[g] \in Bounds /\ phase[g] # "over" =>
      endPrice[g] = crossed[g] \/ <<g, crossed[g]>> \in missed

\* A game never waits for nothing, while events get published and nobody
\* restarts the worker between a commit and its event: an active game has an
\* event under way or a job of the worker, a PENDING one is being resolved.
NoStrandedGame ==
  faults = 0 /\ late = {} =>
    \A g \in Games :
      /\ game[g] \in Active =>
           \/ Send(g, "OPEN", "create") \in outbox \/ toWorker[Event(g, "OPEN")] > 0
           \/ heap[g] > 0 /\ (timer[g] # {} \/ \E job \in Jobs : <<job, g>> \in due)
           \/ heap[g] > 0 /\ \E s \in stopping : s.game = g
      /\ game[g] = "PENDING" =>
           \/ restarts > 0
           \/ \E s \in outbox : s.event = Event(g, "PENDING")
           \/ toWorker[Event(g, "PENDING")] > 0
           \/ IsResolved(g)

\* The heap holds no game that is resolved or over, unless the OPEN event of the
\* game came after its other events: nothing else takes the game from the heap
\* (deleteOldGames is never called).
NoGhostGame ==
  \A g \in Games \ disordered : game[g] = "CLOSE" \/ IsResolved(g) => heap[g] = 0

\* Whoever bets in time is paid, if no event, resolution or payout is lost and the
\* worker is not restarted: moves that fail and events that come again do no harm.
EveryGameIsPaid ==
  \A g \in Games :
    (game[g] = "OPEN")
      ~> (paid[g] > 0 \/ g \in late \cup unpaid \/ faults + restarts > 0)
=============================================================================
