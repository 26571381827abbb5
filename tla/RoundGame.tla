------------------------------ MODULE RoundGame ------------------------------
(***************************************************************************)
(* The rounds of the up/down game: apps/up-down places the bets,           *)
(* apps/up-down-worker moves a round from OPEN over INPROGRESS and PENDING *)
(* to CLOSE, apps/ledger pays a closed round out.  bulls-eye and           *)
(* bulls-eye-worker are the same program around another result.            *)
(*                                                                         *)
(* The services share the database and tell each other of a changed game   *)
(* through Kafka, at least once and in any order.  The worker keeps its    *)
(* timers in memory, named by the state they leave, so that at most one    *)
(* timer of a name is registered.  It exits on an error it does not        *)
(* expect and is restarted; what it had in memory is gone then.            *)
(***************************************************************************)
EXTENDS Integers, FiniteSets

CONSTANTS
  NGames,           \* bound: rounds that are created, numbered in order
  Bets,             \* the bets the players try to place
  Prices,           \* the prices a round can end with
  NoPrice,          \* a round that was broken off has no price
  MaxFailures       \* bound: crashes, events Kafka delivers once more, payouts
                    \* that cannot be serialized

ASSUME NGamesAssumption == NGames \in Nat \ {0}
ASSUME PricesAssumption == NoPrice \notin Prices
ASSUME FailuresAssumption == MaxFailures \in Nat

VARIABLES
  game,         \* game[g]: GameUpDown.state, "NONE" before it is created
  endPrice,     \* game[g].endPrice
  bet,          \* bet[b]: the BetUpDown row, or NoBet
  phase,        \* phase[g]: the clock against stopBetsAt and endAt
  current,      \* Redis: the game bets are placed on, 0 if none
  placing,      \* placing[b]: the game of the open transaction of addBet, or 0
  toWorker,     \* toWorker[e]: deliveries of an event the worker is owed
  toLedger,     \* toLedger[g]: deliveries of the CLOSE event the ledger is owed
  timer,        \* timer[k]: the game of the registered timer, or 0
  due,          \* timer callbacks that are about to run
  outbox,       \* events of committed changes not published yet
  resolving,    \* handlers of PENDING events, between reading and writing
  creating,     \* handlers that wait for startDelay to create a game
  booting,      \* games onModuleInit still has to close; "up" when it is done
  paid,         \* paid[b]: times the ledger paid the bet
  late,         \* history: bets that found their game broken off or over
  redelivered,  \* history: events that were delivered once more
  rolledBack,   \* history: games whose payout was rolled back
  restarts      \* number of restarts, for the bound

db == <<game, endPrice, bet>>
kafka == <<toWorker, toLedger, redelivered>>
memory == <<timer, due, outbox, resolving, creating, booting>>
history == <<late, rolledBack, restarts>>
vars == <<game, endPrice, bet, phase, current, placing, toWorker, toLedger,
          timer, due, outbox, resolving, creating, booting, paid, late,
          redelivered, rolledBack, restarts>>

Games == 1..NGames
States == {"OPEN", "INPROGRESS", "PENDING", "CLOSE"}
Active == {"OPEN", "INPROGRESS"}
Events == [game : Games, state : States]
Timers == {"OPEN", "INPROGRESS"}
Callback == [kind : Timers, game : Games]
NoBet == [game |-> 0, result |-> "NONE", price |-> NoPrice]
Boot == [step : {"find", "up"}] \cup [step : {"close"}, games : SUBSET Games]

\* SETTLED stands for WON, LOSS and REJECT: `price' is what it was settled by.
Bet == [game : Games, result : {"OPEN", "INPROGRESS", "PENDING", "SETTLED"},
        price : Prices \cup {NoPrice}]

Resolution == [game : Games, bets : SUBSET Bets, price : Prices \cup {NoPrice}]

Failures == restarts + Cardinality(redelivered) + Cardinality(rolledBack)

BetsOf(g) == {b \in Bets : bet[b].game = g}

TypeOK ==
  /\ game \in [Games -> States \cup {"NONE"}]
  /\ endPrice \in [Games -> Prices \cup {NoPrice}]
  /\ bet \in [Bets -> Bet \cup {NoBet}]
  /\ phase \in [Games -> {"bets", "play", "over"}]
  /\ current \in 0..NGames
  /\ placing \in [Bets -> 0..NGames]
  /\ toWorker \in [Events -> Nat]
  /\ toLedger \in [Games -> Nat]
  /\ timer \in [Timers -> 0..NGames]
  /\ due \subseteq Callback
  /\ outbox \subseteq Events
  /\ resolving \subseteq Resolution
  /\ creating \in Nat
  /\ booting \in Boot
  /\ paid \in [Bets -> Nat]
  /\ late \subseteq Bets
  /\ redelivered \subseteq Events
  /\ rolledBack \subseteq Games
  /\ restarts \in 0..MaxFailures

Init ==
  /\ game = [g \in Games |-> "NONE"]
  /\ endPrice = [g \in Games |-> NoPrice]
  /\ bet = [b \in Bets |-> NoBet]
  /\ phase = [g \in Games |-> "bets"]
  /\ current = 0
  /\ placing = [b \in Bets |-> 0]
  /\ toWorker = [e \in Events |-> 0]
  /\ toLedger = [g \in Games |-> 0]
  /\ timer = [k \in Timers |-> 0]
  /\ due = {}
  /\ outbox = {}
  /\ resolving = {}
  /\ creating = 0
  /\ booting = [step |-> "find"]
  /\ paid = [b \in Bets |-> 0]
  /\ late = {}
  /\ redelivered = {}
  /\ rolledBack = {}
  /\ restarts = 0

Event(g, s) == [game |-> g, state |-> s]

-----------------------------------------------------------------------------
(* Time *)

\* stopBetsAt passes, then endAt.  Each half of a round is longer than the
\* timeout of the transaction that places a bet.
Tick(g) ==
  /\ game[g] # "NONE"
  /\ \/ phase[g] = "bets" /\ phase' = [phase EXCEPT ![g] = "play"]
     \/ /\ phase[g] = "play"
        /\ \A b \in Bets : placing[b] # g
        /\ phase' = [phase EXCEPT ![g] = "over"]
  /\ UNCHANGED <<db, current, placing, kafka, memory, paid, history>>

Passed(kind, g) ==
  IF kind = "OPEN" THEN phase[g] # "bets" ELSE phase[g] = "over"

-----------------------------------------------------------------------------
(* up-down: placing a bet *)

\* The game comes from the cache, and so does the time bets are stopped at;
\* the state of the game in the database is not looked at.
BeginBet(b) ==
  /\ bet[b] = NoBet
  /\ placing[b] = 0
  /\ current # 0
  /\ phase[current] = "bets"
  /\ placing' = [placing EXCEPT ![b] = current]
  /\ UNCHANGED <<db, phase, current, kafka, memory, paid, history>>

CommitBet(b) ==
  /\ placing[b] # 0
  /\ bet' = [bet EXCEPT ![b] = [game |-> placing[b], result |-> "OPEN",
                                price |-> NoPrice]]
  /\ placing' = [placing EXCEPT ![b] = 0]
  /\ late' = IF game[placing[b]] \in Active THEN late ELSE late \cup {b}
  /\ UNCHANGED <<game, endPrice, phase, current, kafka, memory, paid,
                 rolledBack, restarts>>

\* Not enough balance, a timeout, an error of the database or of Redis.
AbortBet(b) ==
  /\ placing[b] # 0
  /\ placing' = [placing EXCEPT ![b] = 0]
  /\ UNCHANGED <<db, phase, current, kafka, memory, paid, history>>

-----------------------------------------------------------------------------
(* Kafka and the timers *)

\* An event is delivered: it is acknowledged, or it comes once more.
TakeFrom(e) ==
  /\ toWorker[e] > 0
  /\ \/ /\ toWorker' = [toWorker EXCEPT ![e] = @ - 1]
        /\ UNCHANGED redelivered
     \/ /\ Failures < MaxFailures
        /\ redelivered' = redelivered \cup {e}
        /\ UNCHANGED toWorker
  /\ UNCHANGED toLedger

\* What was changed is published, to the worker itself and to the ledger.  A
\* publication that fails is one that never happens: the finalizer ignores the
\* error (Promise.allSettled), every other caller exits.
Publish(e) ==
  /\ e \in outbox
  /\ outbox' = outbox \ {e}
  /\ toWorker' = [toWorker EXCEPT ![e] = @ + 1]
  /\ toLedger' = IF e.state = "CLOSE"
                 THEN [toLedger EXCEPT ![e.game] = @ + 1] ELSE toLedger
  /\ UNCHANGED <<db, phase, current, placing, timer, due, resolving, creating,
                 booting, paid, redelivered, history>>

\* SchedulerService.scheduleJob: the timer of that name is replaced; a date
\* that has passed is not registered, the callback runs at once.
ScheduleJob(kind, g) ==
  IF Passed(kind, g)
  THEN /\ timer' = [timer EXCEPT ![kind] = 0]
       /\ due' = due \cup {[kind |-> kind, game |-> g]}
  ELSE /\ timer' = [timer EXCEPT ![kind] = g]
       /\ UNCHANGED due

TimerFires(kind) ==
  /\ timer[kind] # 0
  /\ Passed(kind, timer[kind])
  /\ timer' = [timer EXCEPT ![kind] = 0]
  /\ due' = due \cup {[kind |-> kind, game |-> timer[kind]]}
  /\ UNCHANGED <<db, phase, current, placing, kafka, outbox, resolving,
                 creating, booting, paid, history>>

-----------------------------------------------------------------------------
(* up-down-worker: UpDownGameWorker *)

\* onUpDownGameOpened and onUpDownGameStarted.
OnOpenedOrStarted(g, kind) ==
  /\ TakeFrom(Event(g, kind))
  /\ ScheduleJob(kind, g)
  /\ UNCHANGED <<db, phase, current, placing, outbox, resolving, creating,
                 booting, paid, history>>

\* The transactions that move a game and its bets.
MoveBets(g, from, to) ==
  bet' = [b \in Bets |->
            IF bet[b].game = g /\ bet[b].result \in from
            THEN [bet[b] EXCEPT !.result = to] ELSE bet[b]]

\* startUpDownGame: the update finds no game that is not OPEN, the unique
\* index refuses a second game INPROGRESS (see StartFails).
StartGame(g) ==
  /\ [kind |-> "OPEN", game |-> g] \in due
  /\ due' = due \ {[kind |-> "OPEN", game |-> g]}
  /\ IF game[g] = "OPEN"
     THEN /\ \A h \in Games : game[h] # "INPROGRESS"
          /\ game' = [game EXCEPT ![g] = "INPROGRESS"]
          /\ MoveBets(g, {"OPEN"}, "INPROGRESS")
          /\ outbox' = outbox \cup {Event(g, "INPROGRESS")}
     ELSE UNCHANGED <<game, bet, outbox>>
  /\ UNCHANGED <<endPrice, phase, current, placing, kafka, timer, resolving,
                 creating, booting, paid, history>>

\* MUTANT of MoveGameToPendingState: the bets that are still OPEN stay so.
MoveStartedToPendingState(g, price) ==
  /\ game' = [game EXCEPT ![g] = "PENDING"]
  /\ endPrice' = [endPrice EXCEPT ![g] = price]
  /\ MoveBets(g, {"INPROGRESS"}, "PENDING")

\* moveGameToPendingState: the game is found by its id alone.
MoveGameToPendingState(g, price) ==
  /\ game' = [game EXCEPT ![g] = "PENDING"]
  /\ endPrice' = [endPrice EXCEPT ![g] = price]
  /\ MoveBets(g, Active, "PENDING")

FinishGame(g) ==
  /\ [kind |-> "INPROGRESS", game |-> g] \in due
  /\ due' = due \ {[kind |-> "INPROGRESS", game |-> g]}
  /\ \E p \in Prices : MoveGameToPendingState(g, p)
  /\ outbox' = outbox \cup {Event(g, "PENDING")}
  /\ UNCHANGED <<phase, current, placing, kafka, timer, resolving, creating,
                 booting, paid, history>>

\* onUpDownGameClosed sleeps first.
OnClosed(g) ==
  /\ TakeFrom(Event(g, "CLOSE"))
  /\ creating' = creating + 1
  /\ UNCHANGED <<db, phase, current, placing, timer, due, outbox, resolving,
                 booting, paid, history>>

\* The unique index refuses a second OPEN game: the handler gives up.  After
\* the last round of the model no game is created any more.
CreateGame ==
  IF \/ \E g \in Games : game[g] = "OPEN"
     \/ \A g \in Games : game[g] # "NONE"
  THEN UNCHANGED <<game, current, outbox>>
  ELSE \E g \in Games :
         /\ game[g] = "NONE"
         /\ \A h \in 1..(g - 1) : game[h] # "NONE"
         /\ game' = [game EXCEPT ![g] = "OPEN"]
         /\ current' = g
         /\ outbox' = outbox \cup {Event(g, "OPEN")}

CreateNext ==
  /\ creating > 0
  /\ creating' = creating - 1
  /\ CreateGame
  /\ UNCHANGED <<endPrice, bet, phase, placing, kafka, timer, due, resolving,
                 booting, paid, history>>

-----------------------------------------------------------------------------
(* up-down-worker: restart *)

\* Timers, handlers and events not published are lost; the events of handlers
\* that had not ended are delivered again.
Crash ==
  /\ Failures < MaxFailures
  /\ restarts' = restarts + 1
  /\ timer' = [k \in Timers |-> 0]
  /\ due' = {}
  /\ outbox' = {}
  /\ resolving' = {}
  /\ creating' = 0
  /\ booting' = [step |-> "find"]
  /\ toWorker' = [e \in Events |->
       IF e.state = "PENDING" /\ \E r \in resolving : r.game = e.game
       THEN toWorker[e] + 1 ELSE toWorker[e]]
  /\ UNCHANGED <<db, phase, current, placing, toLedger, redelivered, paid,
                 late, rolledBack>>

\* moveAllOpenGamesToPendingState reads the active games ...
BootFind ==
  /\ booting.step = "find"
  /\ booting' = [step |-> "close",
                 games |-> {g \in Games : game[g] \in Active}]
  /\ UNCHANGED <<db, phase, current, placing, kafka, timer, due, outbox,
                 resolving, creating, paid, history>>

\* ... and breaks each off, whatever became of it since.
BootClose(g) ==
  /\ booting.step = "close"
  /\ g \in booting.games
  /\ booting' = [booting EXCEPT !.games = @ \ {g}]
  /\ MoveGameToPendingState(g, NoPrice)
  /\ outbox' = outbox \cup {Event(g, "PENDING")}
  /\ UNCHANGED <<phase, current, placing, kafka, timer, due, resolving,
                 creating, paid, history>>

BootEnd ==
  /\ booting.step = "close"
  /\ booting.games = {}
  /\ booting' = [step |-> "up"]
  /\ CreateGame
  /\ UNCHANGED <<endPrice, bet, phase, placing, kafka, timer, due, resolving,
                 creating, paid, history>>

-----------------------------------------------------------------------------
(* up-down-worker: UpDownGamesFinalizerService *)

\* MUTANT of OnPending: the bets are taken from the event, which has none.
OnPendingWithoutBets(g) ==
  /\ TakeFrom(Event(g, "PENDING"))
  /\ resolving' = IF game[g] = "PENDING"
                  THEN resolving \cup {[game |-> g, bets |-> {},
                                        price |-> endPrice[g]]}
                  ELSE resolving
  /\ UNCHANGED <<db, phase, current, placing, timer, due, outbox, creating,
                 booting, paid, history>>

OnPending(g) ==
  /\ TakeFrom(Event(g, "PENDING"))
  /\ resolving' = IF game[g] = "PENDING"
                  THEN resolving \cup {[game |-> g, bets |-> BetsOf(g),
                                        price |-> endPrice[g]]}
                  ELSE resolving
  /\ UNCHANGED <<db, phase, current, placing, timer, due, outbox, creating,
                 booting, paid, history>>

Settle(bs, price) ==
  bet' = [b \in Bets |->
            IF b \in bs THEN [bet[b] EXCEPT !.result = "SETTLED", !.price = price]
            ELSE bet[b]]

\* MUTANT of Resolve: the updates find bets and game by their ids alone.
ResolveUnguarded(r) ==
  /\ r \in resolving
  /\ resolving' = resolving \ {r}
  /\ game' = [game EXCEPT ![r.game] = "CLOSE"]
  /\ Settle(r.bets, r.price)
  /\ outbox' = outbox \cup {Event(r.game, "CLOSE")}
  /\ UNCHANGED <<endPrice, phase, current, placing, kafka, timer, due,
                 creating, booting, paid, history>>

\* Every bet that was read and the game must still be PENDING when they are
\* written, or the whole transaction is rolled back, and that is only logged.
Resolve(r) ==
  /\ r \in resolving
  /\ resolving' = resolving \ {r}
  /\ IF game[r.game] = "PENDING" /\ \A b \in r.bets : bet[b].result = "PENDING"
     THEN /\ game' = [game EXCEPT ![r.game] = "CLOSE"]
          /\ Settle(r.bets, r.price)
          /\ outbox' = outbox \cup {Event(r.game, "CLOSE")}
     ELSE UNCHANGED <<game, bet, outbox>>
  /\ UNCHANGED <<endPrice, phase, current, placing, kafka, timer, due,
                 creating, booting, paid, history>>

-----------------------------------------------------------------------------
(* ledger: GamesRewardsService *)

\* The CLOSE event is delivered: it is acknowledged, or it comes once more.
TakeClose(g) ==
  /\ toLedger[g] > 0
  /\ \/ /\ toLedger' = [toLedger EXCEPT ![g] = @ - 1]
        /\ UNCHANGED redelivered
     \/ /\ Failures < MaxFailures
        /\ redelivered' = redelivered \cup {Event(g, "CLOSE")}
        /\ UNCHANGED toLedger
  /\ UNCHANGED toWorker

SettledBetsOf(g) == {b \in BetsOf(g) : bet[b].result = "SETTLED"}

\* The bets are read from the database when the event is handled; those that
\* have no result are left out.
GiveRewards(g) ==
  /\ TakeClose(g)
  /\ paid' = [b \in Bets |->
       IF b \in SettledBetsOf(g) THEN paid[b] + 1 ELSE paid[b]]
  /\ UNCHANGED <<db, phase, current, placing, memory, history>>

\* The transaction met a balance row that is newer than its snapshot, and the
\* event is given up.  One that comes again finds all as it was.
RollBackRewards(g) ==
  /\ toLedger[g] > 0
  /\ Failures < MaxFailures
  /\ toLedger' = [toLedger EXCEPT ![g] = @ - 1]
  /\ rolledBack' = rolledBack \cup {g}
  /\ UNCHANGED <<db, phase, current, placing, toWorker, redelivered, memory,
                 paid, late, restarts>>

-----------------------------------------------------------------------------

\* The rounds go on for ever; the model stops after the last one.
Done ==
  /\ \A g \in Games : game[g] # "NONE"
  /\ UNCHANGED vars

Worker ==
  \/ \E g \in Games, k \in Timers : OnOpenedOrStarted(g, k)
  \/ \E k \in Timers : TimerFires(k)
  \/ \E g \in Games : StartGame(g) \/ FinishGame(g) \/ OnClosed(g)
  \/ CreateNext
  \/ BootFind \/ BootEnd
  \/ \E g \in Games : BootClose(g) \/ OnPending(g)
  \/ \E r \in resolving : Resolve(r)
  \/ \E e \in outbox : Publish(e)

Next ==
  \/ \E g \in Games : Tick(g)
  \/ \E b \in Bets : BeginBet(b) \/ CommitBet(b) \/ AbortBet(b)
  \/ Worker
  \/ \E g \in Games : GiveRewards(g) \/ RollBackRewards(g)
  \/ Crash
  \/ Done

Spec == Init /\ [][Next]_vars

\* Time passes, transactions end, timers fire, publications and payouts succeed,
\* and the event loop and Kafka get to everything they were given.
Fairness ==
  /\ \A g \in Games : WF_vars(Tick(g)) /\ WF_vars(GiveRewards(g))
  /\ \A b \in Bets : WF_vars(CommitBet(b) \/ AbortBet(b))
  /\ WF_vars(Worker)

FairSpec == Spec /\ Fairness

-----------------------------------------------------------------------------
(* Properties *)

\* Whatever is delivered twice or fires late, the result of a bet is final.
ResultIsFinal ==
  [][\A b \in Bets : bet[b].result = "SETTLED" => bet'[b] = bet[b]]_vars

\* A bet is paid once, unless the ledger is given the CLOSE event of its game
\* once more.  (A late bet can be paid twice without that: its game is closed
\* without it, is reopened by the finish timer, and closed again.)
PaidAtMostOnce ==
  \A b \in Bets \ late :
    paid[b] > 1 => Event(bet[b].game, "CLOSE") \in redelivered

\* A game is closed with all its bets settled; only a bet that was accepted
\* for a game that was broken off by a restart can be left behind.
ClosedIsSettled ==
  \A b \in Bets :
    bet[b] # NoBet /\ game[bet[b].game] = "CLOSE" =>
      bet[b].result = "SETTLED" \/ b \in late

\* When nothing fails, the rounds go on, and every bet that was accepted is
\* paid, once.
EveryRoundIsPaid ==
  <>(Failures > 0 \/ \A g \in Games :
                      game[g] = "CLOSE" /\ \A b \in BetsOf(g) : paid[b] = 1)
=============================================================================
