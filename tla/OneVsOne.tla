------------------------------ MODULE OneVsOne ------------------------------
(***************************************************************************)
(* The 1vs1 game: in apps/one-vs-one a user opens a game with a bet of his *)
(* own, another one accepts it, and either may reject it while it is open; *)
(* apps/one-vs-one-worker stops the betting, ends the game, and resolves   *)
(* what is PENDING once a second; apps/ledger pays a closed game out.      *)
(*                                                                         *)
(* addBet and rejectGame read the game before their transaction, and the   *)
(* transaction writes it by its id.  The worker keeps one timer per game,  *)
(* which it replaces with every event of the game it is given.             *)
(***************************************************************************)
EXTENDS Integers, FiniteSets, Sequences

CONSTANTS
  Games,
  Users,
  Nobody,           \* opponentId of a game that anybody may accept
  Owner,            \* Owner[g]: the user who opens the game
  Invited,          \* Invited[g]: the opponentId it is opened with
  NoPrice,          \* endPrice of a game that was not finalized
  MaxOpenGames,     \* COUNT_MAX_OPEN_GAMES_IN_TIME
  MaxResolvers,     \* bound: runs of the resolver that overlap
  MaxIncidents      \* bound: failed transactions of the worker, restarts,
                    \* events that are lost or delivered once more, failed
                    \* payouts, and games whose runs of the resolver overlap

ASSUME OwnerAssumption == Owner \in [Games -> Users]
ASSUME InvitedAssumption == Invited \in [Games -> Users \cup {Nobody}]
ASSUME NobodyAssumption == Nobody \notin Users
ASSUME BoundsAssumption ==
  /\ MaxOpenGames \in Nat \ {0} /\ MaxResolvers \in Nat \ {0}
  /\ MaxIncidents \in Nat

VARIABLES
  game,        \* game[g]: Game1vs1.state, "NONE" before it is created
  opponent,    \* game[g].opponentId
  endPrice,    \* game[g].endPrice: the bet it favours, or NoPrice
  bets,        \* bets[g]: the Bet1vs1 rows of the game, in their order
  phase,       \* phase[g]: the clock against stopBetsAt and endAt
  opening,     \* calls of createGame that counted the open games
  accepting,   \* calls of addBet that validated the game
  rejecting,   \* calls of rejectGame that found the game open
  known,       \* currentGames of the worker
  timer,       \* timer[g]: what the registered timer of the game does
  due,         \* timer callbacks that are about to run
  stopping,    \* checkAfterStopBetsAtTime, between reading and writing
  resolving,   \* resolving[i]: a run of resolveGame, or Idle
  outbox,      \* events of committed changes not published yet
  toWorker,    \* toWorker[e]: deliveries of an event the worker is owed
  toLedger,    \* toLedger[g]: deliveries of a CLOSE event the ledger is owed
  paid,        \* paid[g]: times the ledger paid the game out
  stale,       \* history: games accepted or rejected when they were not open
  disordered,  \* history: games whose OPEN event came when they had started
  overlapped,  \* history: games two runs of the resolver had read
  redelivered, \* history: events that were delivered once more
  lost,        \* history: events whose publication failed
  unpaid,      \* history: games whose payout failed and was given up
  faults,      \* number of transactions that failed, for the bound
  restarts     \* number of restarts, for the bound

db == <<game, opponent, endPrice, bets>>
calls == <<opening, accepting, rejecting>>
memory == <<known, timer, due, stopping>>
kafka == <<outbox, toWorker, toLedger, redelivered>>
history == <<stale, disordered, overlapped, lost, unpaid>>
counts == <<faults, restarts>>
vars == <<game, opponent, endPrice, bets, phase, opening, accepting, rejecting,
          known, timer, due, stopping, resolving, outbox, toWorker, toLedger,
          redelivered, paid, stale, disordered, overlapped, lost, unpaid, faults,
          restarts>>

States == {"OPEN", "INPROGRESS", "PENDING", "CLOSE"}
Active == {"OPEN", "INPROGRESS"}
Results == {"OPEN", "INPROGRESS", "PENDING", "WON", "LOSS", "REJECT"}
Settled == {"WON", "LOSS", "REJECT"}
EndPrices == {NoPrice, 1, 2}
Bet == [player : Users, result : Results]
Events == [game : Games, state : States]
Event(g, s) == [game |-> g, state |-> s]
Call == [game : Games, user : Users]
Callback == [does : {"stop", "end"}, game : Games]
Idle == [game |-> "none"]
Runs == 1..MaxResolvers
Incidents ==
  faults + restarts + Cardinality(redelivered) + Cardinality(overlapped)
    + Cardinality(lost) + Cardinality(unpaid)

TypeOK ==
  /\ game \in [Games -> States \cup {"NONE"}]
  /\ opponent \in [Games -> Users \cup {Nobody}]
  /\ endPrice \in [Games -> EndPrices]
  /\ DOMAIN bets = Games /\ \A g \in Games : bets[g] \in Seq(Bet)
  /\ phase \in [Games -> {"bets", "play", "over"}]
  /\ opening \subseteq Games
  /\ accepting \subseteq Call
  /\ rejecting \subseteq Call
  /\ known \subseteq Games
  /\ timer \in [Games -> {"none", "stop", "end"}]
  /\ due \subseteq Callback
  /\ stopping \subseteq [game : Games, ready : BOOLEAN]
  /\ \A i \in Runs : resolving[i] # Idle =>
       /\ resolving[i].game \in Games
       /\ resolving[i].bets \in Seq(Bet)
       /\ resolving[i].price \in EndPrices
  /\ outbox \subseteq Events
  /\ toWorker \in [Events -> Nat]
  /\ toLedger \in [Games -> Nat]
  /\ paid \in [Games -> Nat]
  /\ stale \subseteq Games
  /\ disordered \subseteq Games
  /\ overlapped \subseteq Games
  /\ redelivered \subseteq Events
  /\ lost \subseteq Events
  /\ unpaid \subseteq Games
  /\ faults \in Nat
  /\ restarts \in Nat

Init ==
  /\ game = [g \in Games |-> "NONE"]
  /\ opponent = Invited
  /\ endPrice = [g \in Games |-> NoPrice]
  /\ bets = [g \in Games |-> <<>>]
  /\ phase = [g \in Games |-> "bets"]
  /\ opening = {}
  /\ accepting = {}
  /\ rejecting = {}
  /\ known = {}
  /\ timer = [g \in Games |-> "none"]
  /\ due = {}
  /\ stopping = {}
  /\ resolving = [i \in Runs |-> Idle]
  /\ outbox = {}
  /\ toWorker = [e \in Events |-> 0]
  /\ toLedger = [g \in Games |-> 0]
  /\ paid = [g \in Games |-> 0]
  /\ stale = {}
  /\ disordered = {}
  /\ overlapped = {}
  /\ redelivered = {}
  /\ lost = {}
  /\ unpaid = {}
  /\ faults = 0
  /\ restarts = 0

-----------------------------------------------------------------------------
(* Time *)

\* stopBetsAt, after a third of the timeframe, then endAt.  What is left of the
\* timeframe is longer than the timeout of a transaction.
Tick(g) ==
  /\ game[g] # "NONE"
  /\ \/ phase[g] = "bets" /\ phase' = [phase EXCEPT ![g] = "play"]
     \/ /\ phase[g] = "play"
        /\ \A c \in accepting \cup rejecting : c.game # g
        /\ \A i \in Runs : resolving[i].game # g
        /\ phase' = [phase EXCEPT ![g] = "over"]
  /\ UNCHANGED <<db, calls, memory, resolving, kafka, paid, history, counts>>

Passed(does, g) ==
  IF does = "stop" THEN phase[g] # "bets" ELSE phase[g] = "over"

-----------------------------------------------------------------------------
(* one-vs-one: OneVsOneGameService and OneVsOneBetsService *)

OpenGames(u) == {g \in Games : Owner[g] = u /\ game[g] \in Active}

\* createGame counts the open games of the user, then opens one more.
CountOpen(g) ==
  /\ game[g] = "NONE"
  /\ g \notin opening
  /\ Cardinality(OpenGames(Owner[g])) < MaxOpenGames
  /\ opening' = opening \cup {g}
  /\ UNCHANGED <<db, phase, accepting, rejecting, memory, resolving, kafka,
                 paid, history, counts>>

CreateGame(g) ==
  /\ g \in opening
  /\ opening' = opening \ {g}
  /\ game' = [game EXCEPT ![g] = "OPEN"]
  /\ bets' = [bets EXCEPT ![g] = <<[player |-> Owner[g], result |-> "OPEN"]>>]
  /\ outbox' = outbox \cup {Event(g, "OPEN")}
  /\ UNCHANGED <<opponent, endPrice, phase, accepting, rejecting, memory,
                 resolving, toWorker, toLedger, redelivered, paid, history,
                 counts>>

\* addBet: validateGame.
AcceptRead(g, u) ==
  /\ Len(bets[g]) <= 1
  /\ game[g] = "OPEN"
  /\ phase[g] = "bets"
  /\ u # Owner[g]
  /\ opponent[g] \in {Nobody, u}
  /\ accepting' = accepting \cup {[game |-> g, user |-> u]}
  /\ UNCHANGED <<db, phase, opening, rejecting, memory, resolving, kafka, paid,
                 history, counts>>

AcceptWrite(c) ==
  /\ c \in accepting
  /\ accepting' = accepting \ {c}
  /\ game' = [game EXCEPT ![c.game] = "INPROGRESS"]
  /\ opponent' = [opponent EXCEPT ![c.game] = c.user]
  /\ bets' = [bets EXCEPT ![c.game] =
                Append(@, [player |-> c.user, result |-> "OPEN"])]
  /\ outbox' = outbox \cup {Event(c.game, "INPROGRESS")}
  /\ stale' = IF game[c.game] = "OPEN" THEN stale ELSE stale \cup {c.game}
  /\ UNCHANGED <<endPrice, phase, opening, rejecting, memory, resolving,
                 toWorker, toLedger, redelivered, paid, disordered, overlapped,
                 lost, unpaid, counts>>

\* rejectGame, by the owner or the opponent.
RejectRead(g, u) ==
  /\ game[g] = "OPEN"
  /\ u \in {Owner[g], opponent[g]}
  /\ rejecting' = rejecting \cup {[game |-> g, user |-> u]}
  /\ UNCHANGED <<db, phase, opening, accepting, memory, resolving, kafka, paid,
                 history, counts>>

AllBets(g, result) ==
  [i \in 1..Len(bets[g]) |-> [bets[g][i] EXCEPT !.result = result]]

RejectWrite(c) ==
  /\ c \in rejecting
  /\ rejecting' = rejecting \ {c}
  /\ game' = [game EXCEPT ![c.game] = "PENDING"]
  /\ opponent' = [opponent EXCEPT ![c.game] = c.user]
  /\ bets' = [bets EXCEPT ![c.game] = AllBets(c.game, "PENDING")]
  /\ outbox' = outbox \cup {Event(c.game, "PENDING")}
  /\ stale' = IF game[c.game] = "OPEN" THEN stale ELSE stale \cup {c.game}
  /\ UNCHANGED <<endPrice, phase, opening, accepting, memory, resolving,
                 toWorker, toLedger, redelivered, paid, disordered, overlapped,
                 lost, unpaid, counts>>

\* Not enough balance, a timeout, an error of the database.
CallFails ==
  /\ \/ \E g \in opening :
          opening' = opening \ {g} /\ UNCHANGED <<accepting, rejecting>>
     \/ \E c \in accepting :
          accepting' = accepting \ {c} /\ UNCHANGED <<opening, rejecting>>
     \/ \E c \in rejecting :
          rejecting' = rejecting \ {c} /\ UNCHANGED <<opening, accepting>>
  /\ UNCHANGED <<db, phase, memory, resolving, kafka, paid, history, counts>>

-----------------------------------------------------------------------------
(* one-vs-one-worker: OneVsOneGameWorker *)

\* MUTANT of ScheduleJob: a date that has passed is forgotten.
ScheduleJobInTime(g, does) ==
  /\ timer' = [timer EXCEPT ![g] = IF Passed(does, g) THEN "none" ELSE does]
  /\ UNCHANGED due

\* SchedulerService.scheduleJob, under the one name the game has.
ScheduleJob(g, does) ==
  IF Passed(does, g)
  THEN /\ timer' = [timer EXCEPT ![g] = "none"]
       /\ due' = due \cup {[does |-> does, game |-> g]}
  ELSE /\ timer' = [timer EXCEPT ![g] = does]
       /\ UNCHANGED due

TimerFires(g) ==
  /\ timer[g] # "none"
  /\ Passed(timer[g], g)
  /\ timer' = [timer EXCEPT ![g] = "none"]
  /\ due' = due \cup {[does |-> timer[g], game |-> g]}
  /\ UNCHANGED <<db, phase, calls, known, stopping, resolving, kafka, paid,
                 history, counts>>

\* An event is delivered: it is acknowledged, or it comes once more.
TakeFrom(e) ==
  /\ toWorker[e] > 0
  /\ \/ /\ toWorker' = [toWorker EXCEPT ![e] = @ - 1]
        /\ UNCHANGED redelivered
     \/ /\ Incidents < MaxIncidents /\ e \notin redelivered
        /\ redelivered' = redelivered \cup {e}
        /\ UNCHANGED toWorker
  /\ UNCHANGED <<outbox, toLedger>>

\* onOneVsOneGameChanged: registGame.
Register(g, state) ==
  /\ TakeFrom(Event(g, state))
  /\ known' = known \cup {g}
  /\ ScheduleJob(g, IF state = "OPEN" THEN "stop" ELSE "end")
  /\ disordered' = IF state = "OPEN" /\ game[g] # "OPEN"
                   THEN disordered \cup {g} ELSE disordered
  /\ UNCHANGED <<db, phase, calls, stopping, resolving, paid, stale, overlapped,
                 lost, unpaid, counts>>

\* onOneVsOneGameChanged: unregistGame.
Unregister(g) ==
  /\ TakeFrom(Event(g, "PENDING"))
  /\ known' = known \ {g}
  /\ timer' = [timer EXCEPT ![g] = "none"]
  /\ UNCHANGED <<db, phase, calls, due, stopping, resolving, paid, history,
                 counts>>

OnClosed(g) ==
  /\ TakeFrom(Event(g, "CLOSE"))
  /\ UNCHANGED <<db, phase, calls, memory, resolving, paid, history, counts>>

OpenBets(g) == {i \in 1..Len(bets[g]) : bets[g][i].result = "OPEN"}

\* checkAfterStopBetsAtTime counts the bets before its transaction ...
StopBetsRead(g) ==
  /\ [does |-> "stop", game |-> g] \in due
  /\ due' = due \ {[does |-> "stop", game |-> g]}
  /\ stopping' = IF g \in known
                 THEN stopping \cup {[game |-> g,
                                      ready |-> Cardinality(OpenBets(g)) > 1]}
                 ELSE stopping
  /\ UNCHANGED <<db, phase, calls, known, timer, resolving, kafka, paid,
                 history, counts>>

\* A transaction of the worker publishes before it commits: the event of the
\* change is out, and only a failure in between separates the two.
Announce(g, state) ==
  /\ toWorker' = [toWorker EXCEPT ![Event(g, state)] = @ + 1]
  /\ UNCHANGED <<outbox, toLedger, redelivered>>

\* MUTANT of StopBetsWrite: the game is found by its id alone.
StopBetsWriteUnguarded(s) ==
  LET to == IF s.ready THEN "INPROGRESS" ELSE "PENDING"
  IN  /\ s \in stopping
      /\ stopping' = stopping \ {s}
      /\ game' = [game EXCEPT ![s.game] = to]
      /\ bets' = [bets EXCEPT ![s.game] = [i \in 1..Len(@) |->
                    IF @[i].result = "OPEN" THEN [@[i] EXCEPT !.result = to]
                    ELSE @[i]]]
      /\ Announce(s.game, to)
      /\ UNCHANGED <<opponent, endPrice, phase, calls, known, timer, due,
                     resolving, paid, history, counts>>

\* ... and moves a game that is still OPEN, and its bets that are.
StopBetsWrite(s) ==
  LET to == IF s.ready THEN "INPROGRESS" ELSE "PENDING"
  IN  /\ s \in stopping
      /\ stopping' = stopping \ {s}
      /\ IF game[s.game] = "OPEN"
         THEN /\ game' = [game EXCEPT ![s.game] = to]
              /\ bets' = [bets EXCEPT ![s.game] = [i \in 1..Len(@) |->
                            IF @[i].result = "OPEN"
                            THEN [@[i] EXCEPT !.result = to] ELSE @[i]]]
              /\ Announce(s.game, to)
         ELSE UNCHANGED <<game, bets, kafka>>
      /\ UNCHANGED <<opponent, endPrice, phase, calls, known, timer, due,
                     resolving, paid, history, counts>>

\* finalize, when endAt has come.
Finalize(g) ==
  /\ [does |-> "end", game |-> g] \in due
  /\ due' = due \ {[does |-> "end", game |-> g]}
  /\ IF g \in known /\ game[g] \in Active
     THEN /\ game' = [game EXCEPT ![g] = "PENDING"]
          /\ \E p \in EndPrices \ {NoPrice} : endPrice' = [endPrice EXCEPT ![g] = p]
          /\ bets' = [bets EXCEPT ![g] = AllBets(g, "PENDING")]
          /\ Announce(g, "PENDING")
     ELSE UNCHANGED <<game, endPrice, bets, kafka>>
  /\ UNCHANGED <<opponent, phase, calls, known, timer, stopping, resolving,
                 paid, history, counts>>

\* Either transaction fails, before its event is published or after.  The
\* error is logged, and nobody tries again.
WorkerFails(g) ==
  /\ Incidents < MaxIncidents
  /\ faults' = faults + 1
  /\ \/ \E s \in stopping :
          /\ s.game = g
          /\ stopping' = stopping \ {s}
          /\ \/ UNCHANGED kafka
             \/ /\ game[g] = "OPEN"
                /\ Announce(g, IF s.ready THEN "INPROGRESS" ELSE "PENDING")
          /\ UNCHANGED due
     \/ /\ [does |-> "end", game |-> g] \in due
        /\ due' = due \ {[does |-> "end", game |-> g]}
        /\ \/ UNCHANGED kafka
           \/ g \in known /\ game[g] \in Active /\ Announce(g, "PENDING")
        /\ UNCHANGED stopping
  /\ UNCHANGED <<db, phase, calls, known, timer, resolving, paid, history,
                 restarts>>

\* The worker is restarted: startAllOpenGamesAfterReboot registers the active
\* games again, which makes up for lost events of theirs, and what was due since
\* then is run at once.
Restart ==
  LET active == {g \in Games : game[g] \in Active}
      job(g) == IF game[g] = "OPEN" THEN "stop" ELSE "end"
  IN  /\ Incidents < MaxIncidents
      /\ restarts' = restarts + 1
      /\ known' = active
      /\ timer' = [g \in Games |-> IF g \in active /\ ~Passed(job(g), g)
                                   THEN job(g) ELSE "none"]
      /\ due' = {[does |-> job(g), game |-> g] :
                   g \in {h \in active : Passed(job(h), h)}}
      /\ stopping' = {}
      /\ resolving' = [i \in Runs |-> Idle]
      /\ \E gone \in SUBSET {e \in outbox : e.state = "CLOSE"} :
           /\ outbox' = outbox \ gone
           /\ lost' = {e \in lost : e.state \notin Active} \cup gone
      /\ UNCHANGED <<db, phase, calls, toWorker, toLedger, redelivered, paid,
                     stale, disordered, overlapped, unpaid, faults>>

-----------------------------------------------------------------------------
(* one-vs-one-worker: OneVsOneCloseWorker, OneVsOneGamesFinalizerService *)

\* The cron job does not wait for the resolver, so that its runs overlap.
ResolveRead(i, g) ==
  /\ resolving[i] = Idle
  /\ game[g] = "PENDING"
  /\ resolving' = [resolving EXCEPT ![i] =
                     [game |-> g, bets |-> bets[g], price |-> endPrice[g]]]
  /\ \/ /\ \A j \in Runs \ {i} : resolving[j].game # g
        /\ UNCHANGED overlapped
     \/ /\ \E j \in Runs \ {i} : resolving[j].game = g
        /\ Incidents < MaxIncidents
        /\ overlapped' = overlapped \cup {g}
  /\ UNCHANGED <<db, phase, calls, memory, kafka, paid, stale, disordered, lost,
                 unpaid, counts>>

\* getOneVsOneGameResults: the bets that get a result, and which.  Without a
\* price or an opponent only the first bet is returned.
GameResults(r) ==
  IF r.price = NoPrice \/ Len(r.bets) = 1
  THEN [i \in {1} |-> "REJECT"]
  ELSE [i \in {1, 2} |-> IF i = r.price THEN "WON" ELSE "LOSS"]

\* MUTANT of Resolve: the bets are written, the game is not.
ResolveBetsOnly(i) ==
  LET r == resolving[i]
      results == GameResults(r)
  IN  /\ r # Idle
      /\ resolving' = [resolving EXCEPT ![i] = Idle]
      /\ bets' = [bets EXCEPT ![r.game] = [j \in 1..Len(@) |->
                    IF j \in DOMAIN results
                    THEN [@[j] EXCEPT !.result = results[j]] ELSE @[j]]]
      /\ outbox' = outbox \cup {Event(r.game, "CLOSE")}
      /\ UNCHANGED <<game, opponent, endPrice, phase, calls, memory, toWorker,
                     toLedger, redelivered, paid, history, counts>>

\* MUTANT of Resolve: nobody is told of the closed game.
ResolveSilently(i) ==
  LET r == resolving[i]
      results == GameResults(r)
  IN  /\ r # Idle
      /\ resolving' = [resolving EXCEPT ![i] = Idle]
      /\ game' = [game EXCEPT ![r.game] = "CLOSE"]
      /\ bets' = [bets EXCEPT ![r.game] = [j \in 1..Len(@) |->
                    IF j \in DOMAIN results
                    THEN [@[j] EXCEPT !.result = results[j]] ELSE @[j]]]
      /\ UNCHANGED <<opponent, endPrice, phase, calls, memory, kafka, paid,
                     history, counts>>

Resolve(i) ==
  LET r == resolving[i]
      results == GameResults(r)
  IN  /\ r # Idle
      /\ resolving' = [resolving EXCEPT ![i] = Idle]
      /\ game' = [game EXCEPT ![r.game] = "CLOSE"]
      /\ bets' = [bets EXCEPT ![r.game] = [j \in 1..Len(@) |->
                    IF j \in DOMAIN results
                    THEN [@[j] EXCEPT !.result = results[j]] ELSE @[j]]]
      /\ outbox' = outbox \cup {Event(r.game, "CLOSE")}
      /\ UNCHANGED <<opponent, endPrice, phase, calls, memory, toWorker,
                     toLedger, redelivered, paid, history, counts>>

ResolveFails(i) ==
  /\ resolving[i] # Idle
  /\ resolving' = [resolving EXCEPT ![i] = Idle]
  /\ UNCHANGED <<db, phase, calls, memory, kafka, paid, history, counts>>

-----------------------------------------------------------------------------
(* Kafka, and GamesRewardsService of the ledger *)

Publish(e) ==
  /\ e \in outbox
  /\ outbox' = outbox \ {e}
  /\ toWorker' = [toWorker EXCEPT ![e] = @ + 1]
  /\ toLedger' = IF e.state = "CLOSE"
                 THEN [toLedger EXCEPT ![e.game] = @ + 1] ELSE toLedger
  /\ UNCHANGED <<db, phase, calls, memory, resolving, redelivered, paid,
                 history, counts>>

\* The API and the resolver publish in Promise.allSettled: a failure is swallowed,
\* and nobody publishes the event later.
PublishFails(e) ==
  /\ e \in outbox
  /\ Incidents < MaxIncidents
  /\ outbox' = outbox \ {e}
  /\ lost' = lost \cup {e}
  /\ UNCHANGED <<db, phase, calls, memory, resolving, toWorker, toLedger,
                 redelivered, paid, stale, disordered, overlapped, unpaid, counts>>

GiveRewards(g) ==
  /\ toLedger[g] > 0
  /\ \/ /\ toLedger' = [toLedger EXCEPT ![g] = @ - 1]
        /\ UNCHANGED redelivered
     \/ /\ Incidents < MaxIncidents /\ Event(g, "CLOSE") \notin redelivered
        /\ redelivered' = redelivered \cup {Event(g, "CLOSE")}
        /\ UNCHANGED toLedger
  /\ paid' = [paid EXCEPT ![g] = @ + 1]
  /\ UNCHANGED <<db, phase, calls, memory, resolving, outbox, toWorker, history,
                 counts>>

\* The transaction is REPEATABLE READ and fails as a whole when a balance was
\* written meanwhile.  Either the event is delivered again, as if it had not been,
\* or it is given up.
GiveRewardsFails(g) ==
  /\ toLedger[g] > 0
  /\ Incidents < MaxIncidents
  /\ toLedger' = [toLedger EXCEPT ![g] = @ - 1]
  /\ unpaid' = unpaid \cup {g}
  /\ UNCHANGED <<db, phase, calls, memory, resolving, outbox, toWorker,
                 redelivered, paid, stale, disordered, overlapped, lost, counts>>

-----------------------------------------------------------------------------

\* Games is finite, the users' games are not.
Done ==
  /\ \A g \in Games : game[g] # "NONE"
  /\ UNCHANGED vars

Next ==
  \/ \E g \in Games :
       \/ Tick(g) \/ CountOpen(g) \/ CreateGame(g)
       \/ \E u \in Users : AcceptRead(g, u) \/ RejectRead(g, u)
       \/ TimerFires(g) \/ Register(g, "OPEN") \/ Register(g, "INPROGRESS")
       \/ Unregister(g) \/ OnClosed(g)
       \/ StopBetsRead(g) \/ Finalize(g) \/ WorkerFails(g)
       \/ GiveRewards(g) \/ GiveRewardsFails(g)
       \/ \E i \in Runs : ResolveRead(i, g)
  \/ \E c \in accepting : AcceptWrite(c)
  \/ \E c \in rejecting : RejectWrite(c)
  \/ CallFails
  \/ \E s \in stopping : StopBetsWrite(s)
  \/ \E i \in Runs : Resolve(i) \/ ResolveFails(i)
  \/ \E e \in outbox : Publish(e) \/ PublishFails(e)
  \/ Restart
  \/ Done

Spec == Init /\ [][Next]_vars

\* Time passes, timers fire, transactions end, events are published or lost and
\* handled, and the resolver, run once a second, does not fail for ever.
Fairness ==
  /\ \A g \in Games :
       /\ WF_vars(Tick(g)) /\ WF_vars(TimerFires(g))
       /\ WF_vars(GiveRewards(g) \/ GiveRewardsFails(g))
       /\ WF_vars(Register(g, "OPEN")) /\ WF_vars(Register(g, "INPROGRESS"))
       /\ WF_vars(Unregister(g))
       /\ WF_vars(StopBetsRead(g)) /\ WF_vars(Finalize(g))
       /\ WF_vars(ResolveRead(1, g))
  /\ WF_vars(\E c \in accepting : AcceptWrite(c))
  /\ WF_vars(\E c \in rejecting : RejectWrite(c))
  /\ WF_vars(\E s \in stopping : StopBetsWrite(s))
  /\ \A i \in Runs : SF_vars(Resolve(i))
  /\ WF_vars(\E e \in outbox : Publish(e) \/ PublishFails(e))

FairSpec == Spec /\ Fairness

-----------------------------------------------------------------------------
(* Properties *)

\* A closed game is settled as a whole, and what one wins the other has lost:
\* only a game that was accepted or rejected when it was no longer open is left
\* with a bet that has no result.
ClosedIsSettled ==
  \A g \in Games \ stale :
    game[g] = "CLOSE" =>
      \/ Len(bets[g]) = 1 /\ bets[g][1].result = "REJECT"
      \/ Len(bets[g]) = 2 /\ {bets[g][i].result : i \in 1..2} = {"WON", "LOSS"}

\* A game is paid out once, if no two runs of the resolver had it, nobody
\* accepted or rejected it too late and Kafka did not deliver it once more.
PaidOnce ==
  \A g \in Games :
    paid[g] > 1 => g \in overlapped \cup stale \/ Event(g, "CLOSE") \in redelivered

\* An active game is never forgotten while transactions do not fail and its
\* events come in their order: something will move it on, unless the publication
\* of the very event that would was lost and the worker not restarted since.
NoStrandedGame ==
  \A g \in Games \ (stale \cup disordered) :
    game[g] \in Active =>
      \/ faults > 0
      \/ Event(g, game[g]) \in outbox \/ toWorker[Event(g, game[g])] > 0
      \/ Event(g, game[g]) \in lost
      \/ g \in known /\ timer[g] # "none"
      \/ g \in known /\ \E c \in due : c.game = g
      \/ \E s \in stopping : s.game = g

\* Whoever bets is paid, if no transaction failed, the game was not left behind as
\* above, and no event of it was lost but PENDING, which the resolver does not
\* need.
EveryGameIsPaid ==
  \A g \in Games :
    (game[g] = "OPEN")
      ~> \/ paid[g] > 0
         \/ g \in stale \cup disordered \cup unpaid
         \/ \E s \in States \ {"PENDING"} : Event(g, s) \in lost
         \/ faults + restarts > 0
=============================================================================
