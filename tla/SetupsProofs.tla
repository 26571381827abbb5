---------------------------- MODULE SetupsProofs ----------------------------
(***************************************************************************)
(* Proofs about Setups, for any games, users and bets and any number of    *)
(* failures: a closed game is settled, it is paid once, at the first price *)
(* that crossed a bound, and no game is forgotten by the worker or kept by *)
(* it when it is over.                                                     *)
(***************************************************************************)
EXTENDS Setups, FiniteSetTheorems, TLAPS

\* A job of a game is scheduled, or it is about to run.
HasJob(job, g) == job \in timer[g] \/ <<job, g>> \in due

\* The names of the states that a step tells apart.
Over == {"PENDING", "CLOSE"}

-----------------------------------------------------------------------------
(* What the helpers of the actions do *)

\* A job is scheduled beside those there are.
LEMMA Scheduled ==
  ASSUME TypeOK, NEW g \in Games, NEW job \in Jobs, ScheduleJob(g, job)
  PROVE  /\ timer' \in [Games -> SUBSET Jobs]
         /\ due' \subseteq Jobs \X Games
         /\ HasJob(job, g)'
         /\ \A k \in Jobs, h \in Games :
              /\ HasJob(k, h) => HasJob(k, h)'
              /\ HasJob(k, h)' => HasJob(k, h) \/ h = g
              /\ <<k, h>> \in due' =>
                   <<k, h>> \in due \/ (h = g /\ k = job /\ Passed(job, g))
<1>1. timer \in [Games -> SUBSET Jobs] /\ due \subseteq Jobs \X Games
  BY DEF TypeOK
<1>2. CASE Passed(job, g)
  <2>1. timer' = [timer EXCEPT ![g] = @ \ {job}] /\ due' = due \cup {<<job, g>>}
    BY <1>2 DEF ScheduleJob
  <2> QED BY <1>1, <1>2, <2>1 DEF HasJob
<1>3. CASE ~Passed(job, g)
  <2>1. timer' = [timer EXCEPT ![g] = @ \cup {job}] /\ due' = due
    BY <1>3 DEF ScheduleJob
  <2> QED BY <1>1, <1>3, <2>1 DEF HasJob
<1> QED BY <1>2, <1>3
\* A game is moved to PENDING with its bets, or it is not active.
LEMMA Moved ==
  ASSUME TypeOK, NEW g \in Games, NEW price \in Prices \cup {"none"},
         NEW by \in Sources, MoveToPending(g, price, by)
  PROVE  /\ game' \in [Games -> States \cup {"NONE"}]
         /\ endPrice' \in [Games -> Prices \cup {"none"}]
         /\ bets' \in [Games -> [Users -> Results \cup {"NONE"}]]
         /\ outbox' \subseteq Sending
         /\ \A h \in Games \ {g} :
              game'[h] = game[h] /\ endPrice'[h] = endPrice[h] /\ bets'[h] = bets[h]
         /\ \/ /\ game[g] \in Active /\ game'[g] = "PENDING" /\ endPrice'[g] = price
               /\ bets'[g] = BetsTo(g, {"OPEN", "INPROGRESS"}, "PENDING")
               /\ outbox' = outbox \cup {Send(g, "PENDING", by)}
            \/ game[g] \notin Active /\ UNCHANGED <<game, endPrice, bets, outbox>>
<1>1. BetsTo(g, {"OPEN", "INPROGRESS"}, "PENDING") \in [Users -> Results \cup {"NONE"}]
  BY DEF TypeOK, BetsTo, Results
<1>2. Send(g, "PENDING", by) \in Sending
  BY DEF Send, Event, Sending, Events, States
<1>3. /\ game \in [Games -> States \cup {"NONE"}]
      /\ endPrice \in [Games -> Prices \cup {"none"}]
      /\ bets \in [Games -> [Users -> Results \cup {"NONE"}]]
      /\ outbox \subseteq Sending
  BY DEF TypeOK
<1>4. CASE game[g] \in Active
  <2>1. /\ game' = [game EXCEPT ![g] = "PENDING"]
        /\ endPrice' = [endPrice EXCEPT ![g] = price]
        /\ bets' = [bets EXCEPT ![g] = BetsTo(g, {"OPEN", "INPROGRESS"}, "PENDING")]
        /\ outbox' = outbox \cup {Send(g, "PENDING", by)}
    BY <1>4 DEF MoveToPending
  <2> QED BY <1>1, <1>2, <1>3, <1>4, <2>1 DEF States
<1>5. CASE game[g] \notin Active
  BY <1>3, <1>5 DEF MoveToPending
<1> QED BY <1>4, <1>5
\* An event is taken, or it is to come once more.
LEMMA Taken ==
  ASSUME TypeOK, NEW e \in Events, TakeFrom(e)
  PROVE  /\ toWorker' \in [Events -> Nat]
         /\ redelivered' \subseteq Events
         /\ redelivered \subseteq redelivered'
         /\ toWorker[e] > 0
         /\ \A f \in Events : toWorker'[f] <= toWorker[f]
         /\ \A f \in Events \ {e} : toWorker'[f] = toWorker[f]
         /\ UNCHANGED <<outbox, toLedger>>
<1>1. toWorker \in [Events -> Nat] /\ redelivered \subseteq Events
  BY DEF TypeOK
<1>2. CASE toWorker' = [toWorker EXCEPT ![e] = @ - 1] /\ UNCHANGED redelivered
  BY <1>1, <1>2 DEF TakeFrom
<1>3. CASE redelivered' = redelivered \cup {e} /\ UNCHANGED toWorker
  BY <1>1, <1>3 DEF TakeFrom
<1> QED BY <1>2, <1>3 DEF TakeFrom

\* An event of a game.
LEMMA EventTyped ==
  ASSUME NEW g \in Games, NEW s \in States
  PROVE  /\ Event(g, s) \in Events
         /\ Event(g, s).game = g /\ Event(g, s).state = s
BY DEF Event, Events

\* What is sent of a game.
LEMMA SendTyped ==
  ASSUME NEW g \in Games, NEW s \in States, NEW by \in Sources
  PROVE  /\ Send(g, s, by) \in Sending
         /\ Send(g, s, by).event = Event(g, s) /\ Send(g, s, by).by = by
BY EventTyped DEF Send, Sending

-----------------------------------------------------------------------------
(* Types *)

\* The variables start with their types.
LEMMA TypeInit == Init => TypeOK
BY DEF Init, TypeOK, Prices, States

\* What a start of the worker finds is typed.
LEMMA RebootedTyped ==
  ASSUME TypeOK, Rebooted
  PROVE  /\ heap' \in [Games -> Nat] /\ timer' \in [Games -> SUBSET Jobs]
         /\ due' \subseteq Jobs \X Games
         /\ stopping' = {} /\ moving' = {} /\ resolving' = {}
         /\ toWorker' \in [Events -> Nat] /\ outbox' \subseteq outbox
         /\ crossed' \in [Games -> Bounds \cup {"none"}]
<1>1. /\ toWorker \in [Events -> Nat] /\ crossed \in [Games -> Bounds \cup {"none"}]
      /\ outbox \subseteq Sending
  BY DEF TypeOK
<1>2. toWorker' \in [Events -> Nat]
  BY <1>1 DEF Rebooted
<1>3. crossed' \in [Games -> Bounds \cup {"none"}]
  BY <1>1 DEF Rebooted
<1>4. due' \subseteq Jobs \X Games
  BY DEF Rebooted, Jobs
<1> QED BY <1>1, <1>2, <1>3, <1>4 DEF Rebooted, Jobs

\* Every step keeps the types.
LEMMA TypeStep == TypeOK /\ [Next]_vars => TypeOK'
<1> SUFFICES ASSUME TypeOK, [Next]_vars PROVE TypeOK'
  OBVIOUS
<1> USE DEF TypeOK
<1>1. CASE UNCHANGED vars
  BY <1>1 DEF vars
<1>2. ASSUME NEW g \in Games, Tick(g) \/ CountOpen(g) \/ CreateGame(g)
      PROVE  TypeOK'
  <2>1. Send(g, "OPEN", "create") \in Sending
    BY SendTyped DEF States, Sources
  <2> QED BY <1>2, <2>1 DEF Tick, CountOpen, CreateGame, States, db, calls, timers,
                            memory, kafka, history, counts
<1>3. ASSUME NEW g \in Games, NEW u \in Users, BetRead(g, u) \/ BetWrite(g, u)
      PROVE  TypeOK'
  <2>1. CASE BetRead(g, u)
    BY <2>1 DEF BetRead, db, calls, timers, memory, kafka, history, counts
  <2>2. CASE BetWrite(g, u)
    <3>1. bets' \in [Games -> [Users -> Results \cup {"NONE"}]]
      BY <2>2 DEF BetWrite, Results
    <3>2. late' \subseteq Games
      BY <2>2 DEF BetWrite
    <3> QED BY <2>2, <3>1, <3>2 DEF BetWrite, db, calls, timers, memory, kafka, history,
                                    counts
  <2> QED BY <1>3, <2>1, <2>2
<1>4. ASSUME NEW g \in Games, NEW job \in Jobs, TimerFires(g, job)
      PROVE  TypeOK'
  BY <1>4 DEF TimerFires, db, calls, timers, memory, kafka, history, counts
<1>5. ASSUME NEW g \in Games, StopBetsRead(g)
      PROVE  TypeOK'
  <2>1. [game |-> g, empty |-> Bettors(g) = {}] \in [game : Games, empty : BOOLEAN]
    OBVIOUS
  <2> QED BY <1>5, <2>1 DEF StopBetsRead, db, calls, timers, memory, kafka, history,
                            counts
<1>6. ASSUME NEW g \in Games, Finalize(g)
      PROVE  TypeOK'
  <2>1. PICK price \in Prices : MoveToPending(g, price, "end")
    BY <1>6 DEF Finalize
  <2>2. "end" \in Sources
    BY DEF Sources
  <2>3. /\ game' \in [Games -> States \cup {"NONE"}]
        /\ endPrice' \in [Games -> Prices \cup {"none"}]
        /\ bets' \in [Games -> [Users -> Results \cup {"NONE"}]]
        /\ outbox' \subseteq Sending
    BY <2>1, <2>2, Moved
  <2> QED BY <1>6, <2>3 DEF Finalize, db, calls, timers, memory, kafka, history, counts
<1>7. ASSUME NEW g \in Games, OnOpened(g)
      PROVE  TypeOK'
  <2>1. Event(g, "OPEN") \in Events /\ "stop" \in Jobs
    BY EventTyped DEF States, Jobs
  <2>2. /\ toWorker' \in [Events -> Nat] /\ redelivered' \subseteq Events
        /\ UNCHANGED <<outbox, toLedger>>
    BY <1>7, <2>1, Taken DEF OnOpened
  <2>3. timer' \in [Games -> SUBSET Jobs] /\ due' \subseteq Jobs \X Games
    BY <1>7, <2>1, Scheduled DEF OnOpened
  <2>4. heap' \in [Games -> Nat] /\ disordered' \subseteq Games
    BY <1>7 DEF OnOpened
  <2> QED BY <1>7, <2>2, <2>3, <2>4 DEF OnOpened, db, calls, timers, memory, kafka,
                                        history, counts
<1>8. ASSUME NEW g \in Games, OnPending(g)
      PROVE  TypeOK'
  <2>1. Event(g, "PENDING") \in Events
    BY EventTyped DEF States
  <2>2. /\ toWorker' \in [Events -> Nat] /\ redelivered' \subseteq Events
        /\ UNCHANGED <<outbox, toLedger>>
    BY <1>8, <2>1, Taken DEF OnPending
  <2>3. [game |-> g, read |-> Bettors(g)] \in [game : Games, read : SUBSET Users]
    BY DEF Bettors
  <2> QED BY <1>8, <2>2, <2>3 DEF OnPending, db, calls, timers, memory, kafka, history,
                                  counts
<1>9. ASSUME NEW g \in Games, OnClosed(g)
      PROVE  TypeOK'
  <2>1. Event(g, "CLOSE") \in Events
    BY EventTyped DEF States
  <2>2. /\ toWorker' \in [Events -> Nat] /\ redelivered' \subseteq Events
        /\ UNCHANGED <<outbox, toLedger>>
    BY <1>9, <2>1, Taken DEF OnClosed
  <2> QED BY <1>9, <2>2 DEF OnClosed, db, calls, timers, memory, kafka, history, counts
<1>10. ASSUME NEW g \in Games, GiveRewards(g)
       PROVE  TypeOK'
  <2>1. Event(g, "CLOSE") \in Events
    BY EventTyped DEF States
  <2>2. redelivered' \subseteq Events /\ toLedger' \in [Games -> Nat]
    BY <1>10, <2>1 DEF GiveRewards
  <2>3. paid' \in [Games -> Nat]
    BY <1>10 DEF GiveRewards
  <2> QED BY <1>10, <2>2, <2>3 DEF GiveRewards, db, calls, timers, memory, kafka, history,
                             counts
<1>11. CASE CallFails
  BY <1>11 DEF CallFails, db, calls, timers, memory, kafka, history, counts
<1>12. ASSUME NEW s \in stopping, StopBetsWrite(s)
       PROVE  TypeOK'
  <2>1. s.game \in Games /\ "stop" \in Sources /\ "end" \in Jobs
    BY DEF Sources, Jobs
  <2>2. CASE s.empty
    <3>1. /\ game' \in [Games -> States \cup {"NONE"}]
          /\ endPrice' \in [Games -> Prices \cup {"none"}]
          /\ bets' \in [Games -> [Users -> Results \cup {"NONE"}]]
          /\ outbox' \subseteq Sending
      BY <1>12, <2>1, <2>2, Moved DEF StopBetsWrite
    <3> QED BY <1>12, <2>2, <3>1 DEF StopBetsWrite, db, calls, timers, memory, kafka,
                                     history, counts
  <2>3. CASE ~s.empty /\ game[s.game] = "OPEN"
    <3>1. timer' \in [Games -> SUBSET Jobs] /\ due' \subseteq Jobs \X Games
      BY <1>12, <2>1, <2>3, Scheduled DEF StopBetsWrite
    <3>2. BetsTo(s.game, {"OPEN"}, "INPROGRESS") \in [Users -> Results \cup {"NONE"}]
      BY <2>1 DEF BetsTo, Results
    <3>3. game' \in [Games -> States \cup {"NONE"}]
      BY <1>12, <2>1, <2>3 DEF StopBetsWrite, States
    <3>4. bets' = [bets EXCEPT ![s.game] = BetsTo(s.game, {"OPEN"}, "INPROGRESS")]
      BY <1>12, <2>3 DEF StopBetsWrite
    <3>5. bets' \in [Games -> [Users -> Results \cup {"NONE"}]]
      BY <2>1, <3>2, <3>4
    <3> QED BY <1>12, <2>3, <3>1, <3>3, <3>5 DEF StopBetsWrite, db, calls, timers,
                                                 memory, kafka, history, counts
  <2>4. CASE ~s.empty /\ game[s.game] # "OPEN"
    BY <1>12, <2>4 DEF StopBetsWrite, db, calls, timers, memory, kafka, history, counts
  <2> QED BY <2>2, <2>3, <2>4
<1>13. ASSUME NEW s \in stopping, StopBetsFails(s)
       PROVE  TypeOK'
  <2>1. s.game \in Games /\ "stop" \in Jobs
    BY DEF Jobs
  <2>2. timer' \in [Games -> SUBSET Jobs] /\ due' \subseteq Jobs \X Games
    BY <1>13, <2>1, Scheduled DEF StopBetsFails
  <2> QED BY <1>13, <2>2 DEF StopBetsFails, db, calls, timers, memory, kafka, history,
                             counts
<1>14. ASSUME NEW price \in Bounds, PriceChanged(price)
       PROVE  TypeOK'
  BY <1>14 DEF PriceChanged, db, calls, timers, memory, kafka, history, counts
<1>15. ASSUME NEW m \in moving, PriceMoves(m)
       PROVE  TypeOK'
  <2>1. m[1] \in Games /\ m[2] \in Prices \cup {"none"} /\ "price" \in Sources
    BY DEF Prices, Sources
  <2>2. /\ game' \in [Games -> States \cup {"NONE"}]
        /\ endPrice' \in [Games -> Prices \cup {"none"}]
        /\ bets' \in [Games -> [Users -> Results \cup {"NONE"}]]
        /\ outbox' \subseteq Sending
    BY <1>15, <2>1, Moved DEF PriceMoves
  <2> QED BY <1>15, <2>2 DEF PriceMoves, db, calls, timers, memory, kafka, history,
                             counts
<1>16. ASSUME NEW s \in outbox, Publish(s)
       PROVE  TypeOK'
  <2>1. s.event \in Events /\ s.event.game \in Games
    BY DEF Sending, Events
  <2>2. timer' \in [Games -> SUBSET Jobs] /\ toLedger' \in [Games -> Nat]
    BY <1>16, <2>1 DEF Publish
  <2> QED BY <1>16, <2>1, <2>2 DEF Publish, db, calls, timers, memory, kafka, history,
                                   counts
<1>17. ASSUME NEW s \in outbox, PublishFails(s)
       PROVE  TypeOK'
  <2>1. s.event.game \in Games
    BY DEF Sending, Events
  <2>2. timer' \in [Games -> SUBSET Jobs] /\ due' \subseteq Jobs \X Games
    BY <1>17, <2>1, Scheduled DEF PublishFails, timers
  <2>3. faults' \in Nat
    BY <1>17 DEF PublishFails
  <2> QED BY <1>17, <2>2, <2>3 DEF PublishFails, db, calls, memory, kafka, history, counts
<1>18. ASSUME NEW r \in resolving, Resolve(r)
       PROVE  TypeOK'
  <2>1. r.game \in Games /\ r.read \subseteq Users
    OBVIOUS
  <2>2. Send(r.game, "CLOSE", "close") \in Sending
    BY <2>1, SendTyped DEF States, Sources
  <2>3. \A u \in Users : ResultOf(r.game, r.read, u) \in Results
    BY DEF ResultOf, Results
  <2>4. bets' \in [Games -> [Users -> Results \cup {"NONE"}]]
    BY <1>18, <2>1, <2>3 DEF Resolve
  <2> QED BY <1>18, <2>1, <2>2, <2>4 DEF Resolve, States, db, calls, timers, memory,
                                         kafka, history, counts
<1>19. ASSUME NEW r \in resolving, ResolveFails(r)
       PROVE  TypeOK'
  <2>1. faults' \in Nat
    BY <1>19 DEF ResolveFails
  <2> QED BY <1>19, <2>1 DEF ResolveFails, db, calls, timers, memory, kafka, history,
                             counts
<1>20. ASSUME Rebooted, restarts' \in Nat,
              UNCHANGED <<db, phase, calls, toLedger, redelivered, paid, missed, unpaid,
                          late, disordered, faults>>
       PROVE  TypeOK'
  BY <1>20, RebootedTyped DEF db, calls
<1>21. CASE Restart
  BY <1>20, <1>21 DEF Restart
<1>22. ASSUME NEW r \in resolving, UnhandledRejection(r)
       PROVE  TypeOK'
  BY <1>20, <1>22 DEF UnhandledRejection, counts
<1>23. ASSUME NEW m \in moving, PriceMoveFails(m)
       PROVE  TypeOK'
  <2>1. missed' \subseteq Games \X Bounds
    BY <1>23 DEF PriceMoveFails
  <2> QED BY <1>23, <2>1 DEF PriceMoveFails, db, calls, timers, kafka, counts
<1>24. ASSUME NEW g \in Games, GiveRewardsFails(g)
       PROVE  TypeOK'
  <2>1. unpaid' \subseteq Games
    BY <1>24 DEF GiveRewardsFails
  <2> QED BY <1>24, <2>1 DEF GiveRewardsFails, db, calls, memory, counts
<1> QED BY <1>1, <1>2, <1>3, <1>4, <1>5, <1>6, <1>7, <1>8, <1>9, <1>10, <1>11, <1>12,
           <1>13, <1>14, <1>15, <1>16, <1>17, <1>18, <1>19, <1>21, <1>22, <1>23, <1>24
        DEF Next, Done

-----------------------------------------------------------------------------
(* A game goes on, and never back *)

\* A step of the state of a game.
Onward(s, t) ==
  \/ s = t
  \/ s = "NONE" /\ t = "OPEN"
  \/ s = "OPEN" /\ t = "INPROGRESS"
  \/ s \in Active /\ t = "PENDING"
  \/ s = "PENDING" /\ t = "CLOSE"

\* Only a run of the resolver closes a game.
ClosedBy(g) ==
  game[g] = "PENDING" /\ game'[g] = "CLOSE" =>
    \E r \in resolving : r.game = g /\ Resolve(r)

\* A game is opened once.
OpenedOnce == \A g \in opening : game[g] = "NONE"

\* Every step takes every game onward, and opens none twice.
LEMMA GoesOn ==
  ASSUME TypeOK, OpenedOnce, [Next]_vars
  PROVE  OpenedOnce' /\ \A g \in Games : Onward(game[g], game'[g]) /\ ClosedBy(g)
<1> DEFINE Goal == OpenedOnce' /\ \A h \in Games : Onward(game[h], game'[h]) /\ ClosedBy(h)
<1> USE DEF Onward, ClosedBy
<1>0. /\ game \in [Games -> States \cup {"NONE"}] /\ opening \subseteq Games
      /\ TypeOK
  BY DEF TypeOK
<1>1. CASE UNCHANGED game /\ opening' \subseteq opening
  BY <1>1 DEF OpenedOnce
<1>2. ASSUME NEW g \in Games, CountOpen(g) \/ CreateGame(g)
      PROVE  Goal
  BY <1>0, <1>2 DEF CountOpen, CreateGame, OpenedOnce, db
<1>3. ASSUME NEW g \in Games, NEW price \in Prices \cup {"none"}, NEW by \in Sources,
             MoveToPending(g, price, by), UNCHANGED opening
      PROVE  Goal
  BY <1>0, <1>3, Moved DEF OpenedOnce, Active
<1>4. ASSUME NEW g \in Games, Finalize(g)
      PROVE  Goal
  BY <1>3, <1>4 DEF Finalize, Sources, calls
<1>5. ASSUME NEW m \in moving, PriceMoves(m)
      PROVE  Goal
  <2>1. m[1] \in Games /\ m[2] \in Prices \cup {"none"}
    BY DEF TypeOK, Prices
  <2> QED BY <1>3, <1>5, <2>1 DEF PriceMoves, Sources, calls
<1>6. ASSUME NEW s \in stopping, StopBetsWrite(s)
      PROVE  Goal
  <2>1. s.game \in Games
    BY DEF TypeOK
  <2>2. CASE s.empty
    BY <1>3, <1>6, <2>1, <2>2 DEF StopBetsWrite, Sources, calls
  <2>3. CASE ~s.empty
    BY <1>0, <1>6, <2>1, <2>3 DEF StopBetsWrite, OpenedOnce, calls
  <2> QED BY <2>2, <2>3
<1>7. ASSUME NEW r \in resolving, Resolve(r)
      PROVE  Goal
  <2>1. r.game \in Games
    BY DEF TypeOK
  <2> QED BY <1>0, <1>7, <2>1 DEF Resolve, OpenedOnce, calls
<1>8. CASE CallFails
  BY <1>1, <1>8 DEF CallFails, db
<1>9. ASSUME UNCHANGED <<db, calls>>
      PROVE  Goal
  BY <1>1, <1>9 DEF db, calls
<1> QED
  BY <1>1, <1>2, <1>4, <1>5, <1>6, <1>7, <1>8, <1>9
  DEF Next, Done, vars, db, calls, Tick, BetRead, BetWrite, TimerFires, StopBetsRead,
      OnOpened, OnPending, OnClosed, GiveRewards, GiveRewardsFails, StopBetsFails,
      PriceChanged, PriceMoveFails, Publish, PublishFails, ResolveFails,
      UnhandledRejection, Restart

\* One run of the resolver at most has a game, which nobody else closes.
OneResolution ==
  /\ \A r \in resolving : game[r.game] = "PENDING"
  /\ \A r \in resolving : \A q \in resolving : r.game = q.game => r = q

\* Every step keeps that.
LEMMA ResolutionStep ==
  TypeOK /\ OpenedOnce /\ OneResolution /\ [Next]_vars => OneResolution'
<1> SUFFICES ASSUME TypeOK, OpenedOnce, OneResolution, [Next]_vars PROVE OneResolution'
  OBVIOUS
<1>0. resolving \subseteq [game : Games, read : SUBSET Users] /\ game \in [Games -> States \cup {"NONE"}]
  BY DEF TypeOK
<1>1. \A g \in Games : game[g] = "PENDING" =>
        game'[g] = "PENDING" \/ \E r \in resolving : r.game = g /\ Resolve(r)
  BY GoesOn DEF Onward, ClosedBy, Active
<1>2. CASE \E r \in resolving : Resolve(r)
  <2>1. PICK r \in resolving : Resolve(r)
    BY <1>2
  <2>2. resolving' = resolving \ {r} /\ game' = [game EXCEPT ![r.game] = "CLOSE"]
    BY <2>1 DEF Resolve
  <2> QED BY <1>0, <2>2 DEF OneResolution
<1>3. CASE ~(\E r \in resolving : Resolve(r)) /\ resolving' \subseteq resolving
  BY <1>0, <1>1, <1>3 DEF OneResolution
<1>4. ASSUME NEW g \in Games, OnPending(g)
      PROVE  OneResolution'
  <2>1. game' = game /\ ~IsResolved(g)
    BY <1>4 DEF OnPending, db
  <2>2. \A r \in resolving' : r \in resolving \/ (r.game = g /\ game[g] = "PENDING")
    BY <1>4 DEF OnPending
  <2>3. \A r \in resolving' : \A q \in resolving' :
          r \in resolving \/ q \in resolving \/ r = q
    BY <1>4 DEF OnPending
  <2> QED BY <2>1, <2>2, <2>3 DEF OneResolution, IsResolved
<1>5. (\E g \in Games : OnPending(g)) \/ resolving' \subseteq resolving
  BY DEF Next, Done, vars, db, calls, memory, timers, CountOpen, CreateGame, Finalize,
         PriceMoves, StopBetsWrite, CallFails, Resolve, Tick, BetRead, BetWrite,
         TimerFires, StopBetsRead, OnOpened, OnClosed, GiveRewards, GiveRewardsFails,
         StopBetsFails, PriceChanged, PriceMoveFails, Publish, PublishFails, ResolveFails,
         UnhandledRejection, Restart, Rebooted
<1> QED BY <1>2, <1>3, <1>4, <1>5

-----------------------------------------------------------------------------
(* What is under way about a game *)

\* A game that has reached a state of which there is an event.
Reached(g, t) ==
  /\ game[g] # "NONE"
  /\ t = "PENDING" => game[g] \in Over
  /\ t = "CLOSE" => game[g] = "CLOSE"

\* Which code publishes which event.
SentAs(s) ==
  /\ s.by = "create" <=> s.event.state = "OPEN"
  /\ s.by \in Jobs \cup {"price"} <=> s.event.state = "PENDING"
  /\ s.by = "close" <=> s.event.state = "CLOSE"

\* An event comes after the change it tells of, and the worker knows no game
\* that was not created.
Known ==
  /\ \A s \in outbox : SentAs(s) /\ Reached(s.event.game, s.event.state)
  /\ \A g \in Games : \A t \in States : toWorker[Event(g, t)] > 0 => Reached(g, t)
  /\ \A g \in Games : heap[g] > 0 => game[g] # "NONE"
  /\ \A g \in Games : \A p \in Bounds : <<g, p>> \in moving => game[g] # "NONE"

\* What was reached stays so.
LEMMA StillReached ==
  ASSUME TypeOK, OpenedOnce, [Next]_vars, NEW g \in Games, NEW t, Reached(g, t)
  PROVE  Reached(g, t)'
BY GoesOn DEF Onward, Reached, Over, Active

\* Every step keeps that order.
LEMMA KnownStep ==
  TypeOK /\ OpenedOnce /\ OneResolution /\ Known /\ [Next]_vars => Known'
<1> SUFFICES ASSUME TypeOK, OpenedOnce, OneResolution, Known, [Next]_vars PROVE Known'
  OBVIOUS
<1>0. /\ game \in [Games -> States \cup {"NONE"}] /\ heap \in [Games -> Nat]
      /\ toWorker \in [Events -> Nat]
      /\ outbox \subseteq Sending /\ TypeOK
      /\ \A s \in Sending : s.event \in Events /\ s.event.game \in Games
                            /\ s.event.state \in States
                            /\ s.event = Event(s.event.game, s.event.state)
  BY DEF TypeOK, Sending, Events, Event
<1>1. \A g \in Games : \A t \in States : Reached(g, t) => Reached(g, t)'
  BY StillReached
<1>2. \A g \in Games : game[g] # "NONE" => game'[g] # "NONE"
  BY GoesOn DEF Onward, Active
<1>3. ASSUME \A s \in outbox' : s \in outbox \/ (s \in Sending /\ SentAs(s) /\ Reached(s.event.game, s.event.state)'),
             \A g \in Games : \A t \in States :
               toWorker'[Event(g, t)] > 0 => toWorker[Event(g, t)] > 0 \/ Reached(g, t)',
             \A g \in Games : heap'[g] > 0 => heap[g] > 0 \/ game[g] # "NONE",
             \A g \in Games : \A p \in Bounds :
               <<g, p>> \in moving' => <<g, p>> \in moving \/ game[g] # "NONE"
      PROVE  Known'
  BY <1>0, <1>1, <1>2, <1>3 DEF Known, SentAs
<1>4. CASE UNCHANGED <<outbox, toWorker, heap, moving>>
  BY <1>3, <1>4
<1>5. ASSUME NEW g \in Games, NEW t \in States, NEW by \in Sources, Reached(g, t)',
             SentAs(Send(g, t, by)), outbox' = outbox \cup {Send(g, t, by)},
             UNCHANGED <<toWorker, heap>>, moving' \subseteq moving
      PROVE  Known'
  <2>1. LET s == Send(g, t, by) IN s \in Sending /\ s.event.game = g /\ s.event.state = t
    BY SendTyped, EventTyped
  <2> QED BY <1>3, <1>5, <2>1
<1>6. ASSUME NEW g \in Games, CreateGame(g)
      PROVE  Known'
  <2>1. Reached(g, "OPEN")'
    BY <1>0, <1>6 DEF CreateGame, Reached
  <2>2. SentAs(Send(g, "OPEN", "create"))
    BY DEF SentAs, Send, Event, Jobs
  <2> QED BY <1>5, <1>6, <2>1, <2>2 DEF CreateGame, memory, States, Sources
<1>7. ASSUME NEW g \in Games, NEW price \in Prices \cup {"none"},
             NEW by \in Jobs \cup {"price"}, MoveToPending(g, price, by),
             UNCHANGED <<toWorker, heap>>, moving' \subseteq moving
      PROVE  Known'
  <2>1. by \in Sources /\ SentAs(Send(g, "PENDING", by))
    BY DEF SentAs, Send, Event, Jobs, Sources
  <2>2. CASE UNCHANGED outbox
    BY <1>3, <1>7, <2>2
  <2>3. CASE outbox' = outbox \cup {Send(g, "PENDING", by)} /\ game'[g] = "PENDING"
    <3>1. Reached(g, "PENDING")'
      BY <2>3 DEF Reached, Over
    <3> QED BY <1>5, <1>7, <2>1, <2>3, <3>1 DEF States
  <2> QED BY <1>0, <1>7, <2>1, <2>2, <2>3, Moved
<1>8. ASSUME NEW g \in Games, Finalize(g)
      PROVE  Known'
  BY <1>7, <1>8 DEF Finalize, Jobs
<1>9. ASSUME NEW m \in moving, PriceMoves(m)
      PROVE  Known'
  <2>1. m[1] \in Games /\ m[2] \in Prices \cup {"none"}
    BY DEF TypeOK, Prices
  <2> QED BY <1>7, <1>9, <2>1 DEF PriceMoves
<1>10. ASSUME NEW s \in stopping, StopBetsWrite(s)
       PROVE  Known'
  <2>1. s.game \in Games
    BY DEF TypeOK
  <2>2. CASE s.empty
    BY <1>7, <1>10, <2>1, <2>2 DEF StopBetsWrite, Jobs
  <2>3. CASE ~s.empty
    BY <1>4, <1>10, <2>3 DEF StopBetsWrite
  <2> QED BY <2>2, <2>3
<1>11. ASSUME NEW r \in resolving, Resolve(r)
       PROVE  Known'
  <2>1. r.game \in Games
    BY DEF TypeOK
  <2>2. Reached(r.game, "CLOSE")'
    BY <1>0, <1>11, <2>1 DEF Resolve, Reached
  <2>3. SentAs(Send(r.game, "CLOSE", "close"))
    BY DEF SentAs, Send, Event, Jobs
  <2> QED BY <1>5, <1>11, <2>1, <2>2, <2>3 DEF Resolve, States, Sources
<1>12. ASSUME NEW s \in outbox, Publish(s)
       PROVE  Known'
  <2>1. Reached(s.event.game, s.event.state)'
    BY <1>0, <1>1 DEF Known
  <2>2. ASSUME NEW g \in Games, NEW t \in States, toWorker'[Event(g, t)] > 0
        PROVE  toWorker[Event(g, t)] > 0 \/ Reached(g, t)'
    <3>1. CASE Event(g, t) = s.event
      BY <2>1, <3>1, EventTyped
    <3>2. CASE Event(g, t) # s.event
      BY <1>0, <1>12, <2>2, <3>2, EventTyped DEF Publish
    <3> QED BY <3>1, <3>2
  <2> QED BY <1>3, <1>12, <2>2 DEF Publish
<1>13. ASSUME NEW s \in outbox, PublishFails(s)
       PROVE  Known'
  BY <1>3, <1>13 DEF PublishFails
<1>14. ASSUME NEW g \in Games, OnOpened(g)
       PROVE  Known'
  <2>1. Event(g, "OPEN") \in Events
    BY EventTyped DEF States
  <2>2. game[g] # "NONE"
    BY <1>14, <2>1, Taken DEF OnOpened, Known, Reached, States
  <2>3. \A e \in Events : toWorker'[e] <= toWorker[e]
    BY <1>14, <2>1, Taken DEF OnOpened
  <2>4. \A h \in Games \ {g} : heap'[h] = heap[h]
    BY <1>0, <1>14 DEF OnOpened
  <2>5. toWorker' \in [Events -> Nat]
    BY <1>14, <2>1, Taken DEF OnOpened
  <2>6. UNCHANGED <<outbox, moving>>
    BY <1>14 DEF OnOpened, TakeFrom
  <2> QED BY <1>0, <1>3, <2>2, <2>3, <2>4, <2>5, <2>6, EventTyped
<1>15. ASSUME NEW g \in Games, OnPending(g) \/ OnClosed(g)
       PROVE  Known'
  <2>1. Event(g, "PENDING") \in Events /\ Event(g, "CLOSE") \in Events
    BY EventTyped DEF States
  <2>2. toWorker' \in [Events -> Nat] /\ \A e \in Events : toWorker'[e] <= toWorker[e]
    BY <1>15, <2>1, Taken DEF OnPending, OnClosed
  <2>3. \A h \in Games : heap'[h] = heap[h] \/ heap'[h] = 0
    BY <1>0, <1>15 DEF OnPending, OnClosed
  <2>4. UNCHANGED <<outbox, moving>>
    BY <1>15 DEF OnPending, OnClosed, TakeFrom
  <2> QED BY <1>0, <1>3, <2>2, <2>3, <2>4, EventTyped
<1>16. ASSUME NEW price \in Bounds, PriceChanged(price)
       PROVE  Known'
  BY <1>3, <1>16 DEF PriceChanged, Known, kafka
<1>17. ASSUME Rebooted
       PROVE  Known'
  <2>1. ASSUME NEW g \in Games, NEW t \in States, toWorker'[Event(g, t)] > 0
        PROVE  toWorker[Event(g, t)] > 0 \/ Reached(g, t)
    <3>1. CASE t = "PENDING" /\ IsResolved(g)
      BY <3>1 DEF IsResolved, OneResolution, Reached, Over
    <3>2. CASE ~(t = "PENDING" /\ IsResolved(g))
      BY <1>0, <1>17, <2>1, <3>2, EventTyped DEF Rebooted
    <3> QED BY <3>1, <3>2
  <2>2. outbox' \subseteq outbox /\ moving' = {}
    BY <1>17 DEF Rebooted
  <2>3. \A g \in Games : heap'[g] > 0 => game[g] # "NONE"
    BY <1>17 DEF Rebooted, Active
  <2> QED BY <1>1, <1>3, <2>1, <2>2, <2>3
<1>18. ASSUME NEW m \in moving, PriceMoveFails(m)
       PROVE  Known'
  BY <1>3, <1>18 DEF PriceMoveFails, kafka
<1> QED
  BY <1>4, <1>6, <1>8, <1>9, <1>10, <1>11, <1>12, <1>13, <1>14, <1>15, <1>16, <1>17,
     <1>18
  DEF Next, Done, vars, db, calls, memory, timers, kafka, Tick, CountOpen, BetRead,
      BetWrite, TimerFires, StopBetsRead, CallFails, GiveRewards, GiveRewardsFails,
      StopBetsFails, ResolveFails, UnhandledRejection, Restart

-----------------------------------------------------------------------------
(* A game is paid once *)

\* What the ledger paid or may still pay of a game.
Owed(g) ==
  (IF Send(g, "CLOSE", "close") \in outbox THEN 1 ELSE 0) + toLedger[g] + paid[g]

\* A game is told to the ledger when it is closed, and once.
ToldOnce ==
  \A g \in Games :
    /\ game[g] # "CLOSE" => Owed(g) = 0
    /\ Event(g, "CLOSE") \notin redelivered => Owed(g) <= 1

\* Every step keeps that.
LEMMA ToldStep ==
  TypeOK /\ OpenedOnce /\ OneResolution /\ Known /\ ToldOnce /\ [Next]_vars => ToldOnce'
<1> SUFFICES ASSUME TypeOK, OpenedOnce, OneResolution, Known, ToldOnce, [Next]_vars
             PROVE  ToldOnce'
  OBVIOUS
<1>0. /\ toLedger \in [Games -> Nat] /\ paid \in [Games -> Nat]
      /\ game \in [Games -> States \cup {"NONE"}] /\ outbox \subseteq Sending
      /\ redelivered \subseteq Events /\ TypeOK
  BY DEF TypeOK
<1>1. \A g \in Games : game'[g] # "CLOSE" => game[g] # "CLOSE"
  BY GoesOn DEF Onward, Active
<1>2. redelivered \subseteq redelivered'
  BY DEF Next, Done, vars, db, calls, memory, timers, kafka, Tick, CountOpen, CreateGame,
         BetRead, BetWrite, CallFails, TimerFires, StopBetsRead, Finalize, OnOpened,
         OnPending, OnClosed, TakeFrom, GiveRewards, GiveRewardsFails, StopBetsWrite,
         StopBetsFails, PriceChanged, PriceMoves, PriceMoveFails, Publish, PublishFails,
         Resolve, ResolveFails, UnhandledRejection, Restart
<1>3. ASSUME UNCHANGED <<toLedger, paid>>,
             \A g \in Games :
               Send(g, "CLOSE", "close") \in outbox' => Send(g, "CLOSE", "close") \in outbox
      PROVE  ToldOnce'
  BY <1>0, <1>1, <1>2, <1>3 DEF ToldOnce, Owed
<1>4. \A g \in Games, h \in Games : \A t \in States, by \in Sources :
        Send(g, "CLOSE", "close") = Send(h, t, by) => g = h /\ t = "CLOSE"
  BY DEF Send, Event
<1>5. ASSUME NEW r \in resolving, Resolve(r)
      PROVE  ToldOnce'
  <2>1. r.game \in Games /\ game[r.game] = "PENDING"
    BY DEF TypeOK, OneResolution
  <2>2. UNCHANGED <<toLedger, paid, redelivered>>
    BY <1>5 DEF Resolve
  <2>3. CASE UNCHANGED outbox
    BY <1>3, <2>2, <2>3
  <2>4. Owed(r.game) = 0 /\ game' = [game EXCEPT ![r.game] = "CLOSE"]
        /\ outbox' = outbox \cup {Send(r.game, "CLOSE", "close")}
    BY <1>5, <2>1 DEF Resolve, ToldOnce
  <2>5. \A g \in Games \ {r.game} : Owed(g)' = Owed(g) /\ game'[g] = game[g]
    BY <1>4, <2>1, <2>2, <2>4 DEF Owed, States, Sources
  <2>6. Owed(r.game)' <= 1
    BY <1>0, <2>1, <2>2, <2>4 DEF Owed
  <2>7. game'[r.game] = "CLOSE"
    BY <1>0, <2>1, <2>4
  <2> QED BY <1>0, <2>1, <2>2, <2>5, <2>6, <2>7 DEF ToldOnce
<1>6. ASSUME NEW s \in outbox, Publish(s)
      PROVE  ToldOnce'
  <2>1. s.event \in Events /\ s.event.game \in Games /\ UNCHANGED <<game, paid, redelivered>>
    BY <1>0, <1>6 DEF Publish, Sending, Events, db
  <2>2. CASE s.event.state = "CLOSE"
    <3>1. s = Send(s.event.game, "CLOSE", "close")
      BY <1>0, <2>2 DEF Known, SentAs, Send, Event, Sending, Events
    <3>2. /\ outbox' = outbox \ {s}
          /\ toLedger' = [toLedger EXCEPT ![s.event.game] = @ + 1]
      BY <1>6, <2>2 DEF Publish
    <3>3. Send(s.event.game, "CLOSE", "close") \notin outbox'
      BY <3>1, <3>2
    <3>4. Owed(s.event.game)' = Owed(s.event.game)
      BY <1>0, <2>1, <3>1, <3>2, <3>3 DEF Owed
    <3>5. \A g \in Games \ {s.event.game} : Send(g, "CLOSE", "close") # s
      BY DEF Send, Event
    <3>6. \A g \in Games \ {s.event.game} : Owed(g)' = Owed(g)
      BY <1>0, <2>1, <3>2, <3>5 DEF Owed
    <3> QED BY <2>1, <3>4, <3>6 DEF ToldOnce
  <2>3. CASE s.event.state # "CLOSE"
    BY <1>3, <1>6, <2>3 DEF Publish
  <2> QED BY <2>2, <2>3
<1>7. ASSUME NEW g \in Games, GiveRewards(g)
      PROVE  ToldOnce'
  <2>1. UNCHANGED <<game, outbox>> /\ toLedger[g] > 0
    BY <1>7 DEF GiveRewards, db
  <2>2. game[g] = "CLOSE"
    BY <1>0, <2>1 DEF ToldOnce, Owed
  <2>3. \A h \in Games \ {g} : Owed(h)' = Owed(h)
    BY <1>0, <1>7, <2>1 DEF GiveRewards, Owed
  <2>4. Event(g, "CLOSE") \notin redelivered' => Owed(g)' <= Owed(g)
    BY <1>0, <1>7, <2>1 DEF GiveRewards, Owed
  <2>5. Owed(g) \in Nat /\ Owed(g)' \in Nat
    BY <1>0, <1>7, <2>1 DEF GiveRewards, Owed
  <2>6. Event(g, "CLOSE") \notin redelivered' => Owed(g)' <= 1
    BY <1>2, <2>4, <2>5 DEF ToldOnce
  <2> QED BY <1>2, <2>1, <2>2, <2>3, <2>6 DEF ToldOnce
<1>8. ASSUME NEW g \in Games, NEW price \in Prices \cup {"none"}, NEW by \in Jobs \cup {"price"},
             MoveToPending(g, price, by), UNCHANGED <<toLedger, paid>>
      PROVE  ToldOnce'
  <2>1. by \in Sources
    BY DEF Jobs, Sources
  <2> QED BY <1>0, <1>3, <1>4, <1>8, <2>1, Moved DEF States
<1>9. ASSUME NEW g \in Games, Finalize(g)
      PROVE  ToldOnce'
  BY <1>8, <1>9 DEF Finalize, Jobs
<1>10. ASSUME NEW m \in moving, PriceMoves(m)
       PROVE  ToldOnce'
  <2>1. m[1] \in Games /\ m[2] \in Prices \cup {"none"}
    BY DEF TypeOK, Prices
  <2> QED BY <1>8, <1>10, <2>1 DEF PriceMoves
<1>11. ASSUME NEW s \in stopping, StopBetsWrite(s)
       PROVE  ToldOnce'
  <2>1. s.game \in Games
    BY DEF TypeOK
  <2>2. CASE s.empty
    BY <1>8, <1>11, <2>1, <2>2 DEF StopBetsWrite, Jobs
  <2>3. CASE ~s.empty
    BY <1>3, <1>11, <2>3 DEF StopBetsWrite
  <2> QED BY <2>2, <2>3
<1>12. ASSUME NEW g \in Games, CreateGame(g)
       PROVE  ToldOnce'
  BY <1>3, <1>4, <1>12 DEF CreateGame, States, Sources
<1>13. ASSUME UNCHANGED <<toLedger, paid>>, outbox' \subseteq outbox
       PROVE  ToldOnce'
  BY <1>3, <1>13
<1>14. ASSUME NEW g \in Games, GiveRewardsFails(g)
       PROVE  ToldOnce'
  <2>1. UNCHANGED <<game, outbox, redelivered, paid>> /\ toLedger[g] > 0
    BY <1>14 DEF GiveRewardsFails, db
  <2>2. \A h \in Games : Owed(h) \in Nat /\ Owed(h)' \in Nat /\ Owed(h)' <= Owed(h)
    BY <1>0, <1>14, <2>1 DEF GiveRewardsFails, Owed
  <2> QED BY <2>1, <2>2 DEF ToldOnce
<1> QED
  BY <1>5, <1>6, <1>7, <1>9, <1>10, <1>11, <1>12, <1>13, <1>14
  DEF Next, Done, vars, db, calls, memory, timers, kafka, Tick, CountOpen, BetRead,
      BetWrite, CallFails, TimerFires, StopBetsRead, OnOpened, OnPending, OnClosed,
      TakeFrom, StopBetsFails, PriceChanged, PriceMoveFails, PublishFails, ResolveFails,
      UnhandledRejection, Restart, Rebooted

-----------------------------------------------------------------------------
(* The first price that crossed a bound *)

\* A game is ended by its timer when its time is over.
EndIsOver == \A g \in Games : <<"end", g>> \in due => phase[g] = "over"

\* The price that crossed a bound first is the one that is to move the game, or
\* it tried to.
FirstCrossed ==
  /\ \A g \in Games : \A p \in Bounds : <<g, p>> \in moving => crossed[g] # "none"
  /\ \A g \in Games :
       game[g] \notin Over /\ crossed[g] # "none" => <<g, crossed[g]>> \in moving \cup missed
  /\ \A g \in Games : \A p \in Bounds, q \in Bounds :
       <<g, p>> \in moving /\ <<g, q>> \in moving => p = q
  /\ \A g \in Games : \A p \in Bounds : <<g, p>> \in missed => game[g] # "NONE"
  /\ \A g \in Games : endPrice[g] # "none" => game[g] \in Over

\* A timer of a game runs when its time has come.
LEMMA EndStep == TypeOK /\ EndIsOver /\ [Next]_vars => EndIsOver'
<1> SUFFICES ASSUME TypeOK, EndIsOver, [Next]_vars PROVE EndIsOver'
  OBVIOUS
<1>0. phase \in [Games -> {"bets", "play", "over"}] /\ TypeOK
  BY DEF TypeOK
<1>1. CASE UNCHANGED phase /\ due' \subseteq due
  BY <1>1 DEF EndIsOver
<1>2. ASSUME NEW g \in Games, NEW job \in Jobs, ScheduleJob(g, job), UNCHANGED phase
      PROVE  EndIsOver'
  BY <1>0, <1>2, Scheduled DEF EndIsOver, Passed, Jobs
<1>3. ASSUME NEW g \in Games, Tick(g)
      PROVE  EndIsOver'
  BY <1>0, <1>3 DEF Tick, EndIsOver, memory
<1>4. ASSUME NEW g \in Games, NEW job \in Jobs, TimerFires(g, job)
      PROVE  EndIsOver'
  BY <1>4 DEF TimerFires, EndIsOver, Passed, Jobs
<1>5. ASSUME NEW g \in Games, OnOpened(g)
      PROVE  EndIsOver'
  BY <1>2, <1>5 DEF OnOpened, Jobs
<1>6. ASSUME NEW s \in stopping, StopBetsWrite(s)
      PROVE  EndIsOver'
  <2>1. s.game \in Games /\ "end" \in Jobs
    BY DEF TypeOK, Jobs
  <2> QED BY <1>1, <1>2, <1>6, <2>1 DEF StopBetsWrite, timers
<1>7. ASSUME NEW s \in stopping, StopBetsFails(s)
      PROVE  EndIsOver'
  <2>1. s.game \in Games /\ "stop" \in Jobs
    BY DEF TypeOK, Jobs
  <2> QED BY <1>2, <1>7, <2>1 DEF StopBetsFails
<1>8. ASSUME NEW s \in outbox, PublishFails(s)
      PROVE  EndIsOver'
  <2>1. s.event.game \in Games
    BY DEF TypeOK, Sending, Events
  <2> QED BY <1>1, <1>2, <1>8, <2>1 DEF PublishFails, timers
<1>9. ASSUME Rebooted, UNCHANGED phase
      PROVE  EndIsOver'
  BY <1>9 DEF Rebooted, EndIsOver, Passed
<1> QED
  BY <1>1, <1>3, <1>4, <1>5, <1>6, <1>7, <1>8, <1>9
  DEF Next, Done, vars, db, calls, memory, timers, kafka, CountOpen, CreateGame, BetRead,
      BetWrite, CallFails, StopBetsRead, Finalize, OnPending, OnClosed, GiveRewards,
      GiveRewardsFails, PriceChanged, PriceMoves, PriceMoveFails, Publish, Resolve,
      ResolveFails, UnhandledRejection, Restart

\* Every step keeps the price that was first.
LEMMA FirstStep ==
  /\ TypeOK /\ OpenedOnce /\ OneResolution /\ Known /\ EndIsOver
  /\ FirstCrossed /\ FirstPriceCounts /\ [Next]_vars
  => FirstCrossed' /\ FirstPriceCounts'
<1> SUFFICES ASSUME TypeOK, OpenedOnce, OneResolution, Known, EndIsOver, FirstCrossed,
                    FirstPriceCounts, [Next]_vars
             PROVE  FirstCrossed' /\ FirstPriceCounts'
  OBVIOUS
<1> DEFINE Goal == FirstCrossed' /\ FirstPriceCounts'
<1>0. /\ phase \in [Games -> {"bets", "play", "over"}] /\ moving \subseteq Games \X Bounds
      /\ crossed \in [Games -> Bounds \cup {"none"}]
      /\ game \in [Games -> States \cup {"NONE"}]
      /\ endPrice \in [Games -> Prices \cup {"none"}] /\ missed \subseteq Games \X Bounds
  BY DEF TypeOK
<1>1. \A g \in Games : /\ game[g] \in Over => game'[g] \in Over
                       /\ game[g] # "NONE" => game'[g] # "NONE"
  BY GoesOn DEF Onward, Over, Active
<1>2. \A g \in Games : phase[g] = "over" => phase'[g] = "over"
  <2>1. ASSUME NEW g \in Games, Tick(g)
        PROVE  \A h \in Games : phase[h] = "over" => phase'[h] = "over"
    BY <1>0, <2>1 DEF Tick
  <2> QED
    BY <2>1 DEF Next, Done, vars, db, calls, memory, timers, kafka, CountOpen, CreateGame,
       BetRead, BetWrite, CallFails, TimerFires, StopBetsRead, Finalize, OnOpened,
       OnPending, OnClosed, TakeFrom, GiveRewards, GiveRewardsFails, StopBetsWrite,
       StopBetsFails, PriceChanged, PriceMoves, PriceMoveFails, Publish, PublishFails,
       Resolve, ResolveFails, UnhandledRejection, Restart
<1>3. "none" \notin Bounds
  BY DEF Bounds
<1>4. \A g \in Games : game[g] = "NONE" => crossed[g] = "none"
  BY <1>0 DEF Known, FirstCrossed, Over
<1>5. ASSUME UNCHANGED <<moving, crossed, missed, endPrice>>,
             \A g \in Games : game'[g] \notin Over => game[g] \notin Over
      PROVE  Goal
  <2>1. FirstCrossed'
    BY <1>0, <1>1, <1>5 DEF FirstCrossed
  <2> QED BY <1>2, <1>5, <2>1 DEF FirstPriceCounts
<1>6. CASE UNCHANGED <<moving, crossed, missed, endPrice>>
  BY <1>1, <1>5, <1>6
<1>7. ASSUME NEW g \in Games, NEW price \in Prices \cup {"none"}, NEW by \in Sources,
             MoveToPending(g, price, by), UNCHANGED <<crossed, missed, phase>>,
             \/ UNCHANGED moving
             \/ moving' = moving \ {<<g, price>>},
             price \in Bounds => phase[g] = "over" \/ <<g, price>> \in moving
      PROVE  Goal
  <2>1. CASE game[g] \in Active
    <3>1. /\ game'[g] = "PENDING" /\ endPrice'[g] = price
          /\ \A h \in Games \ {g} : game'[h] = game[h] /\ endPrice'[h] = endPrice[h]
      BY <1>7, <2>1, Moved, <1>0
    <3>2. \A h \in Games, p \in Bounds :
            /\ <<h, p>> \in moving' => <<h, p>> \in moving
            /\ h # g /\ <<h, p>> \in moving => <<h, p>> \in moving'
      BY <1>7
    <3>3. FirstCrossed'
      <4>1. \A h \in Games : endPrice'[h] # "none" => game'[h] \in Over
        BY <3>1 DEF FirstCrossed, Over
      <4>2. \A h \in Games :
              /\ game'[h] \notin Over /\ crossed'[h] # "none"
              => <<h, crossed'[h]>> \in moving' \cup missed'
        BY <1>0, <1>7, <3>1, <3>2 DEF FirstCrossed, Over
      <4> QED BY <1>1, <1>7, <3>2, <4>1, <4>2 DEF FirstCrossed
    <3>4. price \in Bounds /\ phase[g] # "over" =>
            price = crossed[g] \/ <<g, crossed[g]>> \in missed
      <4>1. game[g] \notin Over
        BY <2>1 DEF Active, Over
      <4> QED BY <1>0, <1>7, <4>1 DEF FirstCrossed
    <3> QED BY <1>7, <3>1, <3>3, <3>4 DEF FirstPriceCounts
  <2>2. CASE game[g] \notin Active
    <3>1. UNCHANGED <<game, endPrice>>
      BY <1>0, <1>7, <2>2, Moved DEF Active
    <3>2. \A h \in Games, p \in Bounds :
            /\ <<h, p>> \in moving' => <<h, p>> \in moving
            /\ h # g /\ <<h, p>> \in moving => <<h, p>> \in moving'
      BY <1>7
    <3>3. game[g] \in Over \/ crossed[g] = "none"
      BY <1>0, <1>4, <2>2 DEF States, Active, Over
    <3>4. FirstCrossed'
      BY <1>0, <1>1, <1>7, <3>1, <3>2, <3>3 DEF FirstCrossed
    <3> QED BY <1>7, <3>1, <3>4 DEF FirstPriceCounts
  <2> QED BY <2>1, <2>2
<1>8. ASSUME NEW g \in Games, CreateGame(g)
      PROVE  Goal
  <2>1. crossed[g] = "none" /\ \A h \in Games \ {g} : game'[h] = game[h]
    BY <1>0, <1>4, <1>8 DEF CreateGame, OpenedOnce
  <2>2. game[g] \notin Over
    BY <1>8 DEF CreateGame, OpenedOnce, Over
  <2> QED BY <1>5, <1>8, <2>1, <2>2 DEF CreateGame, memory, history
<1>9. ASSUME NEW g \in Games, Finalize(g)
      PROVE  Goal
  <2>1. PICK price \in Prices : MoveToPending(g, price, "end")
    BY <1>9 DEF Finalize
  <2>2. phase[g] = "over"
    BY <1>9 DEF Finalize, EndIsOver
  <2> QED BY <1>7, <1>9, <2>1, <2>2 DEF Finalize, Sources, history
<1>10. ASSUME NEW m \in moving, PriceMoves(m)
       PROVE  Goal
  <2>1. m[1] \in Games /\ m[2] \in Prices \cup {"none"} /\ m = <<m[1], m[2]>>
    BY <1>0 DEF Prices
  <2> QED BY <1>7, <1>10, <2>1 DEF PriceMoves, Sources, history
<1>11. ASSUME NEW s \in stopping, StopBetsWrite(s)
       PROVE  Goal
  <2>1. s.game \in Games
    BY DEF TypeOK
  <2>2. CASE s.empty
    BY <1>3, <1>7, <1>11, <2>1, <2>2 DEF StopBetsWrite, Sources, history
  <2>3. CASE ~s.empty
    BY <1>6, <1>11, <2>3 DEF StopBetsWrite, history
  <2> QED BY <2>2, <2>3
<1>12. ASSUME NEW price \in Bounds, PriceChanged(price)
       PROVE  Goal
  <2> DEFINE hit == {g \in Games : heap[g] > 0 /\ phase[g] # "over"}
  <2>1. /\ UNCHANGED <<game, endPrice, phase>>
        /\ moving = {} /\ moving' = {<<g, price>> : g \in hit} /\ missed' = missed
        /\ crossed' = [g \in Games |-> IF g \in hit /\ crossed[g] = "none" THEN price
                                                                         ELSE crossed[g]]
    BY <1>12 DEF PriceChanged, db
  <2> HIDE DEF hit
  <2>2. \A g \in Games, p \in Bounds :
          <<g, p>> \in moving' <=> g \in hit /\ p = price
    BY <2>1
  <2>3. FirstCrossed'
    <3>1. \A g \in Games : \A p \in Bounds : <<g, p>> \in moving' => crossed'[g] # "none"
      BY <1>3, <2>1, <2>2 DEF FirstCrossed
    <3>2. \A g \in Games :
            /\ game'[g] \notin Over /\ crossed'[g] # "none"
            => <<g, crossed'[g]>> \in moving' \cup missed'
      BY <1>0, <2>1, <2>2 DEF FirstCrossed
    <3>3. \A g \in Games : \A p \in Bounds, q \in Bounds :
            <<g, p>> \in moving' /\ <<g, q>> \in moving' => p = q
      BY <2>1, <2>2 DEF FirstCrossed
    <3> QED BY <2>1, <3>1, <3>2, <3>3 DEF FirstCrossed
  <2>4. ASSUME NEW g \in Games, endPrice[g] \in Bounds, phase[g] # "over"
        PROVE  endPrice[g] = crossed'[g] \/ <<g, crossed'[g]>> \in missed
    <3>1. crossed[g] \in Bounds
      BY <1>0, <2>4 DEF FirstPriceCounts
    <3>2. crossed'[g] = crossed[g]
      BY <1>0, <2>1, <3>1 DEF Bounds
    <3> QED BY <2>4, <3>2 DEF FirstPriceCounts
  <2> QED BY <1>3, <2>1, <2>3, <2>4 DEF FirstPriceCounts
<1>13. ASSUME Rebooted, UNCHANGED <<game, endPrice, phase, missed>>
       PROVE  Goal
  <2>1. moving' = {} /\ crossed' = [g \in Games |-> IF game[g] \in Active THEN "none"
                                                                     ELSE crossed[g]]
    BY <1>13 DEF Rebooted
  <2>2. \A g \in Games : game[g] \in Over => game[g] \notin Active
    BY DEF Over, Active
  <2>3. FirstCrossed'
    BY <1>0, <1>4, <1>13, <2>1 DEF FirstCrossed, States, Active, Over
  <2> QED BY <1>3, <1>13, <2>1, <2>2, <2>3 DEF FirstPriceCounts, FirstCrossed
<1>14. ASSUME NEW m \in moving, PriceMoveFails(m)
       PROVE  Goal
  <2>1. /\ UNCHANGED <<game, endPrice, phase, crossed>>
        /\ moving' = moving \ {m} /\ missed' = missed \cup {m}
    BY <1>14 DEF PriceMoveFails, db
  <2>2. \A g \in Games : \A p \in Bounds : <<g, p>> = m => game[g] # "NONE"
    BY DEF Known
  <2>3. FirstCrossed'
    BY <1>0, <2>1, <2>2 DEF FirstCrossed
  <2> QED BY <2>1, <2>3 DEF FirstPriceCounts
<1> QED
  BY <1>6, <1>8, <1>9, <1>10, <1>11, <1>12, <1>13, <1>14
  DEF Next, Done, vars, db, calls, memory, timers, kafka, history, Tick, CountOpen,
      BetRead, BetWrite, CallFails, TimerFires, StopBetsRead, OnOpened, OnPending,
      OnClosed, TakeFrom, GiveRewards, GiveRewardsFails, StopBetsFails, Publish,
      PublishFails, Resolve, ResolveFails, UnhandledRejection, Restart

-----------------------------------------------------------------------------
(* The bets of a game follow it *)

\* The bets of a game are where the game is, and the resolver read them all.
BetsFollow ==
  \A g \in Games \ late :
    /\ game[g] \notin Over => \A u \in Users : bets[g][u] \in {"NONE", "OPEN", "INPROGRESS"}
    /\ game[g] = "PENDING" => \A u \in Users : bets[g][u] \in {"NONE", "PENDING"}
    /\ \A r \in resolving : r.game = g => r.read = Bettors(g)

\* What ClosedIsSettled says of a game.
SettledGame(g) ==
  \/ Bettors(g) = With(g, {"REJECT"})
  \/ /\ Bettors(g) = With(g, {"WON", "LOSS"})
     /\ With(g, {"WON"}) # {} /\ With(g, {"LOSS"}) # {}

\* The resolver settles a game, when it read all its bets.
LEMMA Settles ==
  ASSUME TypeOK, BetsFollow, OneResolution, NEW r \in resolving, Resolve(r),
         r.game \notin late
  PROVE  SettledGame(r.game)'
<1> DEFINE g == r.game
           Result(u) == ResultOf(g, r.read, u)
<1>0. /\ g \in Games /\ game[g] = "PENDING" /\ r.read = Bettors(g)
      /\ bets \in [Games -> [Users -> Results \cup {"NONE"}]]
      /\ endPrice[g] \in Prices \cup {"none"}
  BY DEF TypeOK, OneResolution, BetsFollow
<1>1. \A u \in Users : bets[g][u] \in {"NONE", "PENDING"}
  BY <1>0 DEF BetsFollow
<1>2. \A u \in Users : (u \in r.read <=> bets[g][u] = "PENDING")
  BY <1>0, <1>1 DEF Bettors
<1>3. \A u \in Users : bets'[g][u] = IF u \in r.read THEN Result(u) ELSE "NONE"
  BY <1>0, <1>1, <1>2 DEF Resolve
<1>4. r.read \subseteq Users
  BY <1>0 DEF Bettors
<1>5. \A u \in Users : Result(u) # "NONE"
  BY DEF ResultOf
<1>6. Bettors(g)' = r.read
  BY <1>3, <1>4, <1>5 DEF Bettors
<1>7. CASE IsRejected(g, r.read)
  <2>1. \A u \in Users : Result(u) = "REJECT"
    BY <1>7 DEF ResultOf
  <2>2. With(g, {"REJECT"})' = r.read
    BY <1>3, <1>4, <2>1 DEF With
  <2> QED BY <1>6, <2>2 DEF SettledGame
<1>8. CASE ~IsRejected(g, r.read)
  <2>1. PICK u \in r.read, v \in r.read : u \in Up /\ v \notin Up
    BY <1>8 DEF IsRejected
  <2>2. \A w \in Users :
          Result(w) = IF (w \in Up) = (endPrice[g] = "takeProfit") THEN "WON" ELSE "LOSS"
    BY <1>8 DEF ResultOf
  <2> HIDE DEF Result
  <2>3. With(g, {"WON", "LOSS"})' = r.read
    BY <1>3, <1>4, <2>2 DEF With
  <2>4. {bets'[g][u], bets'[g][v]} = {"WON", "LOSS"}
    BY <1>3, <1>4, <2>1, <2>2
  <2>5. With(g, {"WON"})' # {} /\ With(g, {"LOSS"})' # {}
    <3>1. \A w \in r.read : bets'[g][w] = "WON" => w \in With(g, {"WON"})'
      BY <1>4 DEF With
    <3>2. \A w \in r.read : bets'[g][w] = "LOSS" => w \in With(g, {"LOSS"})'
      BY <1>4 DEF With
    <3> QED BY <2>1, <2>4, <3>1, <3>2
  <2> QED BY <1>6, <2>3, <2>5 DEF SettledGame
<1> QED BY <1>7, <1>8

\* Every step keeps the bets with their game, and a closed game settled.
LEMMA BetsStep ==
  /\ TypeOK /\ OpenedOnce /\ OneResolution /\ BetsFollow /\ ClosedIsSettled /\ [Next]_vars
  => BetsFollow' /\ ClosedIsSettled'
<1> SUFFICES ASSUME TypeOK, OpenedOnce, OneResolution, BetsFollow, ClosedIsSettled,
                    [Next]_vars
             PROVE  BetsFollow' /\ ClosedIsSettled'
  OBVIOUS
<1> DEFINE Goal == BetsFollow' /\ ClosedIsSettled'
<1>0. /\ bets \in [Games -> [Users -> Results \cup {"NONE"}]]
      /\ game \in [Games -> States \cup {"NONE"}]
      /\ resolving \subseteq [game : Games, read : SUBSET Users] /\ TypeOK
  BY DEF TypeOK
<1>1. ASSUME late \subseteq late', resolving' \subseteq resolving,
             \A g \in Games \ late' : bets'[g] = bets[g],
             \A g \in Games \ late' : game'[g] = game[g] \/ {game[g], game'[g]} \cap Over = {}
      PROVE  Goal
  <2>1. ASSUME NEW g \in Games \ late'
        PROVE  /\ Bettors(g)' = Bettors(g) /\ \A w : With(g, w)' = With(g, w)
               /\ game'[g] = game[g] \/ (game[g] \notin Over /\ game'[g] \notin Over)
    BY <1>1 DEF Bettors, With
  <2>2. BetsFollow'
    BY <1>1, <2>1 DEF BetsFollow, Over
  <2>3. ClosedIsSettled'
    BY <1>1, <2>1 DEF ClosedIsSettled, Over
  <2> QED BY <2>2, <2>3
<1>2. CASE UNCHANGED <<bets, game, late>> /\ resolving' \subseteq resolving
  BY <1>1, <1>2
<1>3. ASSUME NEW g \in Games, CreateGame(g)
      PROVE  Goal
  BY <1>0, <1>1, <1>3 DEF CreateGame, OpenedOnce, Over, memory, history
<1>4. ASSUME NEW g \in Games, NEW u \in Users, BetWrite(g, u)
      PROVE  Goal
  <2>1. /\ UNCHANGED <<game, resolving>> /\ bets' = [bets EXCEPT ![g][u] = "OPEN"]
        /\ late' = IF game[g] \in Active THEN late ELSE late \cup {g}
    BY <1>4 DEF BetWrite, memory
  <2>2. CASE game[g] \notin Active
    BY <1>0, <1>1, <2>1, <2>2
  <2>3. CASE game[g] \in Active
    <3>1. game[g] \notin Over /\ late' = late
      BY <2>1, <2>3 DEF Active, Over
    <3>2. \A h \in Games \ {g} : bets'[h] = bets[h]
      BY <1>0, <2>1
    <3>3. \A v \in Users : bets'[g][v] = bets[g][v] \/ bets'[g][v] = "OPEN"
      BY <1>0, <2>1
    <3>4. \A r \in resolving : r.game # g
      BY <3>1 DEF OneResolution, Over
    <3>5. \A h \in Games \ {g} : Bettors(h)' = Bettors(h) /\ \A w : With(h, w)' = With(h, w)
      BY <3>2 DEF Bettors, With
    <3>6. ASSUME NEW h \in Games \ late'
          PROVE  /\ game'[h] \notin Over =>
                      \A v \in Users : bets'[h][v] \in {"NONE", "OPEN", "INPROGRESS"}
                 /\ game'[h] = "PENDING" => \A v \in Users : bets'[h][v] \in {"NONE", "PENDING"}
                 /\ \A r \in resolving' : r.game = h => r.read = Bettors(h)'
      <4>1. CASE h = g
        BY <2>1, <3>1, <3>3, <3>4, <4>1 DEF BetsFollow, Over
      <4>2. CASE h # g
        BY <2>1, <3>1, <3>2, <3>5, <4>2 DEF BetsFollow
      <4> QED BY <4>1, <4>2
    <3>7. BetsFollow'
      BY <3>6 DEF BetsFollow
    <3>8. ClosedIsSettled'
      BY <2>1, <3>1, <3>5 DEF ClosedIsSettled, Over
    <3> QED BY <3>7, <3>8
  <2> QED BY <2>2, <2>3
<1>5. ASSUME NEW g \in Games, NEW from, NEW to \in {"INPROGRESS", "PENDING"},
             game[g] \notin Over, game'[g] = to, UNCHANGED <<late, resolving>>,
             \A h \in Games \ {g} : game'[h] = game[h] /\ bets'[h] = bets[h],
             bets'[g] = BetsTo(g, from, to),
             to = "PENDING" => from = {"OPEN", "INPROGRESS"}
      PROVE  Goal
  <2>1. \A r \in resolving : r.game # g
    BY <1>5 DEF OneResolution, Over
  <2>2. \A h \in Games \ {g} : Bettors(h)' = Bettors(h) /\ \A w : With(h, w)' = With(h, w)
    BY <1>5 DEF Bettors, With
  <2>3. g \notin late => \A u \in Users : bets[g][u] \in {"NONE", "OPEN", "INPROGRESS"}
    BY <1>5 DEF BetsFollow
  <2>4. ASSUME NEW u \in Users, g \notin late
        PROVE  /\ to = "PENDING" => bets'[g][u] \in {"NONE", "PENDING"}
               /\ to = "INPROGRESS" => bets'[g][u] \in {"NONE", "OPEN", "INPROGRESS"}
    BY <1>5, <2>3, <2>4 DEF BetsTo
  <2>5. BetsFollow'
    <3> SUFFICES ASSUME NEW h \in Games \ late'
                 PROVE  /\ game'[h] \notin Over =>
                             \A v \in Users : bets'[h][v] \in {"NONE", "OPEN", "INPROGRESS"}
                        /\ game'[h] = "PENDING" =>
                             \A v \in Users : bets'[h][v] \in {"NONE", "PENDING"}
                        /\ \A r \in resolving' : r.game = h => r.read = Bettors(h)'
      BY DEF BetsFollow
    <3>1. CASE h = g
      BY <1>5, <2>1, <2>4, <3>1 DEF Over
    <3>2. CASE h # g
      BY <1>5, <2>2, <3>2 DEF BetsFollow
    <3> QED BY <3>1, <3>2
  <2>6. ClosedIsSettled'
    BY <1>5, <2>2 DEF ClosedIsSettled
  <2> QED BY <2>5, <2>6
<1>6. ASSUME NEW g \in Games, NEW price \in Prices \cup {"none"}, NEW by \in Sources,
             MoveToPending(g, price, by), UNCHANGED <<late, resolving>>
      PROVE  Goal
  <2>1. CASE game[g] \in Active
    <3>1. game[g] \notin Over
      BY <2>1 DEF Active, Over
    <3> QED BY <1>0, <1>5, <1>6, <2>1, <3>1, Moved
  <2>2. CASE game[g] \notin Active
    BY <1>0, <1>2, <1>6, <2>2, Moved
  <2> QED BY <2>1, <2>2
<1>7. ASSUME NEW g \in Games, Finalize(g)
      PROVE  Goal
  BY <1>6, <1>7 DEF Finalize, Sources, history
<1>8. ASSUME NEW m \in moving, PriceMoves(m)
      PROVE  Goal
  <2>1. m[1] \in Games /\ m[2] \in Prices \cup {"none"}
    BY DEF TypeOK, Prices
  <2> QED BY <1>6, <1>8, <2>1 DEF PriceMoves, Sources, history
<1>9. ASSUME NEW s \in stopping, StopBetsWrite(s)
      PROVE  Goal
  <2>0. s.game \in Games /\ UNCHANGED <<late, resolving>>
    BY <1>9 DEF TypeOK, StopBetsWrite, history
  <2>1. CASE s.empty
    BY <1>6, <1>9, <2>0, <2>1 DEF StopBetsWrite, Sources
  <2>2. CASE ~s.empty /\ game[s.game] = "OPEN"
    <3>1. /\ game' = [game EXCEPT ![s.game] = "INPROGRESS"]
          /\ bets' = [bets EXCEPT ![s.game] = BetsTo(s.game, {"OPEN"}, "INPROGRESS")]
      BY <1>9, <2>2 DEF StopBetsWrite
    <3>2. game[s.game] \notin Over
      BY <2>2 DEF Over
    <3> QED BY <1>0, <1>5, <2>0, <3>1, <3>2
  <2>3. CASE ~s.empty /\ game[s.game] # "OPEN"
    BY <1>2, <1>9, <2>0, <2>3 DEF StopBetsWrite
  <2> QED BY <2>1, <2>2, <2>3
<1>10. ASSUME NEW g \in Games, OnPending(g)
       PROVE  Goal
  <2>1. UNCHANGED <<game, bets, late>>
    BY <1>10 DEF OnPending, db, history
  <2>2. \A r \in resolving' : r \in resolving \/ r = [game |-> g, read |-> Bettors(g)]
    BY <1>10 DEF OnPending
  <2>3. \A h \in Games : Bettors(h)' = Bettors(h) /\ \A w : With(h, w)' = With(h, w)
    BY <2>1 DEF Bettors, With
  <2> QED BY <2>1, <2>2, <2>3 DEF BetsFollow, ClosedIsSettled
<1>11. ASSUME NEW r \in resolving, Resolve(r)
       PROVE  Goal
  <2>0. r.game \in Games
    BY <1>0
  <2>1. /\ UNCHANGED late /\ game' = [game EXCEPT ![r.game] = "CLOSE"]
        /\ resolving' = resolving \ {r}
        /\ \A h \in Games \ {r.game} : bets'[h] = bets[h]
    BY <1>0, <1>11 DEF Resolve, history
  <2>2. \A h \in Games \ {r.game} : Bettors(h)' = Bettors(h) /\ \A w : With(h, w)' = With(h, w)
    BY <2>1 DEF Bettors, With
  <2>3. BetsFollow'
    <3>1. \A q \in resolving' : q.game # r.game
      BY <2>1 DEF OneResolution
    <3> QED BY <1>0, <2>0, <2>1, <2>2, <3>1 DEF BetsFollow, Over
  <2>4. r.game \notin late => SettledGame(r.game)'
    BY <1>11, Settles
  <2>5. ClosedIsSettled'
    BY <1>0, <2>0, <2>1, <2>2, <2>4 DEF ClosedIsSettled, SettledGame
  <2> QED BY <2>3, <2>5
<1>12. ASSUME Rebooted, UNCHANGED <<bets, game, late>>
       PROVE  Goal
  BY <1>2, <1>12 DEF Rebooted
<1> QED
  BY <1>2, <1>3, <1>4, <1>7, <1>8, <1>9, <1>10, <1>11, <1>12
  DEF Next, Done, vars, db, calls, memory, timers, kafka, history, Tick, CountOpen,
      BetRead, CallFails, TimerFires, StopBetsRead, OnOpened, OnClosed, TakeFrom,
      GiveRewards, GiveRewardsFails, StopBetsFails, PriceChanged, PriceMoveFails, Publish,
      PublishFails, ResolveFails, UnhandledRejection, Restart

-----------------------------------------------------------------------------
(* The heap of the worker *)

\* The worker has something to do for a game.
HasWork(g) == (\E job \in Jobs : HasJob(job, g)) \/ \E s \in stopping : s.game = g

\* A game the worker has something to do for is on the heap, or over.
OnHeap == \A g \in Games : HasWork(g) => game[g] \in Over \/ heap[g] > 0

\* Every step keeps the heap clean.
LEMMA NoGhostStep ==
  TypeOK /\ OpenedOnce /\ OneResolution /\ NoGhostGame /\ [Next]_vars => NoGhostGame'
<1> SUFFICES ASSUME TypeOK, OpenedOnce, OneResolution, NoGhostGame, [Next]_vars
             PROVE  NoGhostGame'
  OBVIOUS
<1>0. /\ heap \in [Games -> Nat] /\ game \in [Games -> States \cup {"NONE"}] /\ TypeOK
  BY DEF TypeOK
<1>1. \A g \in Games : game'[g] = "CLOSE" => game[g] = "CLOSE" \/ IsResolved(g)
  BY GoesOn DEF Onward, ClosedBy, Active, IsResolved
<1>2. CASE UNCHANGED <<heap, disordered>> /\ resolving' \subseteq resolving
  BY <1>1, <1>2 DEF NoGhostGame, IsResolved
<1>3. ASSUME NEW g \in Games, OnOpened(g)
      PROVE  NoGhostGame'
  <2>1. /\ UNCHANGED <<game, resolving>> /\ heap' = [heap EXCEPT ![g] = @ + 1]
        /\ disordered' = IF game[g] \in Active THEN disordered ELSE disordered \cup {g}
    BY <1>3 DEF OnOpened, db
  <2>2. game[g] \in Active => ~(game[g] = "CLOSE" \/ IsResolved(g))
    BY DEF Active, OneResolution, IsResolved
  <2>3. \A h \in Games \ {g} : heap'[h] = heap[h]
    BY <1>0, <2>1
  <2>4. \A h \in Games : IsResolved(h)' <=> IsResolved(h)
    BY <2>1 DEF IsResolved
  <2> HIDE DEF IsResolved
  <2> QED BY <2>1, <2>2, <2>3, <2>4 DEF NoGhostGame
<1>4. ASSUME NEW g \in Games, OnPending(g) \/ OnClosed(g)
      PROVE  NoGhostGame'
  <2>1. /\ UNCHANGED <<game, disordered>> /\ heap' = [heap EXCEPT ![g] = 0]
        /\ \A r \in resolving' : r \in resolving \/ r.game = g
    BY <1>4 DEF OnPending, OnClosed, db, history
  <2>2. \A h \in Games \ {g} : heap'[h] = heap[h] /\ (IsResolved(h)' => IsResolved(h))
    BY <1>0, <2>1 DEF IsResolved
  <2>3. heap'[g] = 0
    BY <1>0, <2>1
  <2> QED BY <2>1, <2>2, <2>3 DEF NoGhostGame
<1>5. ASSUME Rebooted, UNCHANGED <<game, disordered>>
      PROVE  NoGhostGame'
  <2>1. /\ heap' = [g \in Games |-> IF game[g] \in Active THEN 1 ELSE 0]
        /\ \A g \in Games : ~IsResolved(g)'
    BY <1>5 DEF Rebooted, IsResolved
  <2> QED BY <1>5, <2>1 DEF NoGhostGame, Active
<1> QED
  BY <1>2, <1>3, <1>4, <1>5
  DEF Next, Done, vars, db, calls, memory, timers, kafka, history, Tick, CountOpen,
      CreateGame, BetRead, BetWrite, CallFails, TimerFires, StopBetsRead, Finalize,
      GiveRewards, GiveRewardsFails, StopBetsWrite, StopBetsFails, PriceChanged,
      PriceMoves, PriceMoveFails, Publish, PublishFails, Resolve, ResolveFails,
      UnhandledRejection, Restart

\* Every step keeps the games with work on the heap.
LEMMA OnHeapStep ==
  TypeOK /\ OpenedOnce /\ Known /\ OnHeap /\ [Next]_vars => OnHeap'
<1> SUFFICES ASSUME TypeOK, OpenedOnce, Known, OnHeap, [Next]_vars PROVE OnHeap'
  OBVIOUS
<1>0. /\ heap \in [Games -> Nat] /\ game \in [Games -> States \cup {"NONE"}]
      /\ timer \in [Games -> SUBSET Jobs] /\ TypeOK
  BY DEF TypeOK
<1>1. \A g \in Games : game[g] \in Over => game'[g] \in Over
  BY GoesOn DEF Onward, Over, Active
<1>2. ASSUME UNCHANGED heap, \A g \in Games : HasWork(g)' => HasWork(g) \/ game[g] \in Over
      PROVE  OnHeap'
  BY <1>1, <1>2 DEF OnHeap
<1>3. ASSUME UNCHANGED heap, due' \subseteq due, stopping' \subseteq stopping,
             \A g \in Games : timer'[g] \subseteq timer[g]
      PROVE  OnHeap'
  BY <1>2, <1>3 DEF HasWork, HasJob
<1>4. CASE UNCHANGED <<heap, timer, due, stopping>>
  BY <1>3, <1>4
<1>5. ASSUME NEW g \in Games, NEW job \in Jobs, TimerFires(g, job)
      PROVE  OnHeap'
  BY <1>0, <1>2, <1>5 DEF TimerFires, HasWork, HasJob
<1>6. ASSUME NEW g \in Games, StopBetsRead(g)
      PROVE  OnHeap'
  <2>1. "stop" \in Jobs
    BY DEF Jobs
  <2> QED BY <1>2, <1>6, <2>1 DEF StopBetsRead, HasWork, HasJob
<1>7. ASSUME NEW g \in Games, Finalize(g)
      PROVE  OnHeap'
  BY <1>3, <1>7 DEF Finalize
<1>8. ASSUME NEW g \in Games, NEW job \in Jobs, ScheduleJob(g, job),
             UNCHANGED heap, stopping' \subseteq stopping, HasWork(g) \/ game[g] \in Over
      PROVE  OnHeap'
  <2>1. \A k \in Jobs, h \in Games : HasJob(k, h)' => HasJob(k, h) \/ h = g
    BY <1>0, <1>8, Scheduled
  <2> HIDE DEF HasJob
  <2> QED BY <1>2, <1>8, <2>1 DEF HasWork
<1>9. ASSUME NEW s \in stopping, StopBetsWrite(s) \/ StopBetsFails(s)
      PROVE  OnHeap'
  <2>1. s.game \in Games /\ HasWork(s.game)
    BY DEF TypeOK, HasWork
  <2>2. UNCHANGED heap /\ stopping' = stopping \ {s}
    BY <1>9 DEF StopBetsWrite, StopBetsFails
  <2>3. \/ UNCHANGED timers \/ ScheduleJob(s.game, "end") \/ ScheduleJob(s.game, "stop")
    BY <1>9 DEF StopBetsWrite, StopBetsFails
  <2> QED BY <1>3, <1>8, <2>1, <2>2, <2>3 DEF timers, Jobs
<1>10. ASSUME NEW s \in outbox, Publish(s)
       PROVE  OnHeap'
  <2>1. \A g \in Games : timer'[g] \subseteq timer[g]
    BY <1>0, <1>10 DEF Publish
  <2> QED BY <1>3, <1>10, <2>1 DEF Publish
<1>11. ASSUME NEW s \in outbox, PublishFails(s)
       PROVE  OnHeap'
  <2>1. s.event.game \in Games
    BY DEF TypeOK, Sending, Events
  <2>2. s.by \in Jobs => game[s.event.game] \in Over
    BY DEF Known, SentAs, Reached
  <2> QED BY <1>4, <1>8, <1>11, <2>1, <2>2 DEF PublishFails, timers
<1>12. ASSUME NEW g \in Games, OnOpened(g)
       PROVE  OnHeap'
  <2>1. \A k \in Jobs, h \in Games : HasJob(k, h)' => HasJob(k, h) \/ h = g
    BY <1>0, <1>12, Scheduled DEF OnOpened, Jobs
  <2>2. \A h \in Games \ {g} : HasWork(h)' => HasWork(h)
    <3> HIDE DEF HasJob
    <3> QED BY <1>12, <2>1 DEF OnOpened, HasWork
  <2>3. heap'[g] > 0 /\ \A h \in Games \ {g} : heap'[h] = heap[h]
    BY <1>0, <1>12 DEF OnOpened
  <2> QED BY <1>1, <2>2, <2>3 DEF OnHeap
<1>13. ASSUME NEW g \in Games, OnPending(g) \/ OnClosed(g)
       PROVE  OnHeap'
  <2>1. /\ UNCHANGED <<game, timers, stopping>>
        /\ \A h \in Games \ {g} : heap'[h] = heap[h]
    BY <1>0, <1>13 DEF OnPending, OnClosed, db
  <2>2. game[g] \in Over
    BY <1>13 DEF OnPending, OnClosed, TakeFrom, Known, Reached, States, Over
  <2> QED BY <2>1, <2>2 DEF OnHeap, HasWork, HasJob, timers
<1>14. ASSUME Rebooted, UNCHANGED game
       PROVE  OnHeap'
  <2>1. \A g \in Games, k \in Jobs : HasJob(k, g)' => game[g] \in Active
    BY <1>14 DEF Rebooted, HasJob
  <2>2. \A g \in Games : heap'[g] = IF game[g] \in Active THEN 1 ELSE 0
    BY <1>14 DEF Rebooted
  <2>3. stopping' = {}
    BY <1>14 DEF Rebooted
  <2> HIDE DEF HasJob
  <2> QED BY <2>1, <2>2, <2>3 DEF OnHeap, HasWork
<1> QED
  BY <1>4, <1>5, <1>6, <1>7, <1>9, <1>10, <1>11, <1>12, <1>13, <1>14
  DEF Next, Done, vars, db, calls, memory, timers, kafka, history, Tick, CountOpen,
      CreateGame, BetRead, BetWrite, CallFails, GiveRewards, GiveRewardsFails,
      PriceChanged, PriceMoves, PriceMoveFails, Resolve, ResolveFails, UnhandledRejection,
      Restart

-----------------------------------------------------------------------------
(* No game waits for nothing *)

\* What moves an open game on: its event, or a job that stops its betting.
OpenGoesOn(g) ==
  \/ Send(g, "OPEN", "create") \in outbox \/ toWorker[Event(g, "OPEN")] > 0
  \/ HasJob("stop", g) \/ \E s \in stopping : s.game = g

\* What moves a PENDING game on: its event, or a run of the resolver.
PendingGoesOn(g) ==
  \/ restarts > 0
  \/ \E s \in outbox : s.event = Event(g, "PENDING")
  \/ toWorker[Event(g, "PENDING")] > 0
  \/ IsResolved(g)

\* What moves a game on, in the state it is in.
Supported(g) ==
  /\ game[g] = "OPEN" => OpenGoesOn(g)
  /\ game[g] = "INPROGRESS" => HasJob("end", g)
  /\ game[g] = "PENDING" => PendingGoesOn(g)

\* Every game is moved on, while events get published.
AllSupported == faults = 0 /\ late = {} => \A g \in Games : Supported(g)

\* Every step leaves every game with what moves it on.
LEMMA SupportedStep ==
  /\ TypeOK /\ OpenedOnce /\ OneResolution /\ Known /\ BetsFollow /\ AllSupported
  /\ [Next]_vars
  => AllSupported'
<1> SUFFICES ASSUME TypeOK, OpenedOnce, OneResolution, Known, BetsFollow, AllSupported,
                    [Next]_vars, faults' = 0, late' = {}
             PROVE  \A g \in Games : Supported(g)'
  BY DEF AllSupported
<1> DEFINE Goal == \A g \in Games : Supported(g)'
<1>0. /\ game \in [Games -> States \cup {"NONE"}] /\ timer \in [Games -> SUBSET Jobs]
      /\ toWorker \in [Events -> Nat] /\ TypeOK
      /\ faults \in Nat /\ restarts \in Nat /\ outbox \subseteq Sending
      /\ "stop" \in Jobs /\ "end" \in Jobs
      /\ \A g \in Games : Event(g, "OPEN") \in Events /\ Event(g, "PENDING") \in Events
      /\ \A g \in Games, h \in Games : \A s, t : Event(g, s) = Event(h, t) => g = h /\ s = t
  BY DEF TypeOK, Jobs, Events, Event, States
<1>1. faults = 0 /\ late = {} /\ (restarts > 0 => restarts' > 0)
  <2>1. /\ UNCHANGED faults \/ faults' = faults + 1
        /\ late \subseteq late'
        /\ UNCHANGED restarts \/ restarts' = restarts + 1
    BY ZenonT(60) DEF Next, Done, vars, db, calls, memory, timers, kafka, history, counts,
       Tick, CountOpen, CreateGame, BetRead, BetWrite, CallFails, TimerFires,
       StopBetsRead, Finalize, OnOpened, OnPending, OnClosed, TakeFrom, GiveRewards,
       GiveRewardsFails, StopBetsWrite, StopBetsFails, PriceChanged, PriceMoves,
       PriceMoveFails, Publish, PublishFails, Resolve, ResolveFails, UnhandledRejection,
       Restart
  <2> QED BY <1>0, <2>1
<1>2. \A g \in Games : Supported(g)
  BY <1>1 DEF AllSupported
<1>3. ASSUME NEW g \in Games, game'[g] = game[g],
             game[g] = "OPEN" => (OpenGoesOn(g) => OpenGoesOn(g)'),
             game[g] = "INPROGRESS" => (HasJob("end", g) => HasJob("end", g)'),
             game[g] = "PENDING" => (PendingGoesOn(g) => PendingGoesOn(g)')
      PROVE  Supported(g)'
  BY <1>2, <1>3 DEF Supported
<1>4. ASSUME NEW g \in Games, game'[g] = game[g], outbox \subseteq outbox',
             \A t \in {"OPEN", "PENDING"} : toWorker'[Event(g, t)] = toWorker[Event(g, t)],
             timer'[g] = timer[g],
             \A job \in Jobs : <<job, g>> \in due => <<job, g>> \in due',
             \A s \in stopping : s.game = g => s \in stopping',
             \A r \in resolving : r.game = g => r \in resolving'
      PROVE  Supported(g)'
  <2>1. OpenGoesOn(g) => OpenGoesOn(g)'
    BY <1>0, <1>4 DEF OpenGoesOn, HasJob
  <2>2. HasJob("end", g) => HasJob("end", g)'
    BY <1>0, <1>4 DEF HasJob
  <2>3. PendingGoesOn(g) => PendingGoesOn(g)'
    BY <1>0, <1>1, <1>4 DEF PendingGoesOn, IsResolved
  <2> QED BY <1>3, <1>4, <2>1, <2>2, <2>3
<1>5. CASE UNCHANGED <<game, outbox, toWorker, timer, due, stopping, resolving>>
  BY <1>4, <1>5
<1>6. ASSUME NEW g \in Games, CreateGame(g)
      PROVE  Goal
  <2>1. \A h \in Games \ {g} : Supported(h)'
    BY <1>0, <1>4, <1>6 DEF CreateGame, memory
  <2>2. game'[g] = "OPEN" /\ Send(g, "OPEN", "create") \in outbox'
    BY <1>0, <1>6 DEF CreateGame
  <2> QED BY <2>1, <2>2 DEF Supported, OpenGoesOn
<1>7. ASSUME NEW g \in Games, NEW job \in Jobs, TimerFires(g, job)
      PROVE  Goal
  <2>1. UNCHANGED <<game, outbox, toWorker, stopping, resolving, restarts>>
    BY <1>7 DEF TimerFires, db, kafka, counts
  <2>2. \A k \in Jobs, h \in Games : HasJob(k, h) => HasJob(k, h)'
    BY <1>0, <1>7 DEF TimerFires, HasJob
  <2> HIDE DEF HasJob
  <2> QED BY <1>0, <1>3, <2>1, <2>2 DEF OpenGoesOn, PendingGoesOn, IsResolved
<1>8. ASSUME NEW g \in Games, StopBetsRead(g)
      PROVE  Goal
  <2>1. /\ UNCHANGED <<game, outbox, toWorker, timer, resolving, restarts>>
        /\ stopping' = stopping \cup {[game |-> g, empty |-> Bettors(g) = {}]}
        /\ due' = due \ {<<"stop", g>>}
    BY <1>8 DEF StopBetsRead, db, kafka, counts
  <2>2. \A h \in Games \ {g} : Supported(h)'
    BY <1>0, <1>4, <2>1
  <2>3. \E s \in stopping' : s.game = g
    <3> DEFINE new == [game |-> g, empty |-> Bettors(g) = {}]
    <3>1. new \in stopping' /\ new.game = g
      BY <2>1
    <3> QED BY <3>1
  <2>4. OpenGoesOn(g)' /\ (PendingGoesOn(g) => PendingGoesOn(g)')
    BY <2>1, <2>3 DEF OpenGoesOn, PendingGoesOn, IsResolved
  <2>5. HasJob("end", g) => HasJob("end", g)'
    BY <2>1 DEF HasJob
  <2> QED BY <1>3, <2>1, <2>2, <2>4, <2>5
<1>9. ASSUME NEW g \in Games, NEW price \in Prices \cup {"none"}, NEW by \in Sources,
             MoveToPending(g, price, by), UNCHANGED <<toWorker, timer, resolving>>,
             \A job \in Jobs, h \in Games \ {g} : <<job, h>> \in due => <<job, h>> \in due',
             \A s \in stopping : s.game # g => s \in stopping'
      PROVE  Goal
  <2>1. \A h \in Games \ {g} : game'[h] = game[h]
    BY <1>0, <1>9, Moved
  <2>2. outbox \subseteq outbox'
    BY <1>0, <1>9, Moved
  <2>3. \A h \in Games \ {g} : Supported(h)'
    BY <1>0, <1>4, <1>9, <2>1, <2>2
  <2>4. Supported(g)'
    <3>1. CASE game[g] \in Active
      <4>1. game'[g] = "PENDING" /\ Send(g, "PENDING", by) \in outbox'
        BY <1>0, <1>9, <3>1, Moved
      <4>2. Send(g, "PENDING", by).event = Event(g, "PENDING")
        BY SendTyped DEF States
      <4> QED BY <4>1, <4>2 DEF Supported, PendingGoesOn
    <3>2. CASE game[g] \notin Active
      <4>1. UNCHANGED <<game, outbox, resolving, toWorker>>
        BY <1>0, <1>9, <3>2, Moved
      <4>2. PendingGoesOn(g) => PendingGoesOn(g)'
        BY <1>0, <1>1, <4>1 DEF PendingGoesOn, IsResolved
      <4> QED BY <1>3, <3>2, <4>1, <4>2 DEF Active
    <3> QED BY <3>1, <3>2
  <2> QED BY <2>3, <2>4
<1>10. ASSUME NEW g \in Games, Finalize(g)
       PROVE  Goal
  <2>1. \A job \in Jobs, h \in Games \ {g} : <<job, h>> \in due => <<job, h>> \in due'
    BY <1>10 DEF Finalize
  <2>2. UNCHANGED <<toWorker, timer, resolving, stopping>>
    BY <1>10 DEF Finalize
  <2> QED BY <1>9, <1>10, <2>1, <2>2 DEF Finalize, Sources
<1>11. ASSUME NEW m \in moving, PriceMoves(m)
       PROVE  Goal
  <2>1. m[1] \in Games /\ m[2] \in Prices \cup {"none"}
    BY DEF TypeOK, Prices
  <2> QED BY <1>9, <1>11, <2>1 DEF PriceMoves, Sources, timers
<1>12. ASSUME NEW s \in stopping, StopBetsWrite(s)
       PROVE  Goal
  <2>0. /\ s.game \in Games /\ stopping' = stopping \ {s}
        /\ UNCHANGED <<toWorker, resolving, restarts>>
    BY <1>12 DEF TypeOK, StopBetsWrite, counts
  <2>1. CASE s.empty
    BY <1>9, <1>12, <2>0, <2>1 DEF StopBetsWrite, Sources, timers
  <2>2. CASE ~s.empty /\ game[s.game] = "OPEN"
    <3>1. /\ game' = [game EXCEPT ![s.game] = "INPROGRESS"]
          /\ ScheduleJob(s.game, "end") /\ UNCHANGED outbox
      BY <1>12, <2>2 DEF StopBetsWrite
    <3>2. /\ HasJob("end", s.game)'
          /\ \A k \in Jobs, h \in Games : HasJob(k, h) => HasJob(k, h)'
      BY <1>0, <2>0, <3>1, Scheduled
    <3>3. game'[s.game] = "INPROGRESS" /\ \A h \in Games \ {s.game} : game'[h] = game[h]
      BY <1>0, <2>0, <3>1
    <3> HIDE DEF HasJob
    <3>4. \A h \in Games \ {s.game} : Supported(h)'
      BY <1>0, <1>3, <2>0, <3>1, <3>2, <3>3 DEF OpenGoesOn, PendingGoesOn, IsResolved
    <3> QED BY <3>2, <3>3, <3>4 DEF Supported
  <2>3. CASE ~s.empty /\ game[s.game] # "OPEN"
    <3>1. UNCHANGED <<game, outbox, timers>>
      BY <1>12, <2>3 DEF StopBetsWrite
    <3>2. \A h \in Games \ {s.game} : Supported(h)'
      BY <1>4, <2>0, <3>1 DEF timers
    <3>3. PendingGoesOn(s.game) => PendingGoesOn(s.game)'
      BY <1>0, <1>1, <2>0, <3>1 DEF PendingGoesOn, IsResolved
    <3>4. HasJob("end", s.game) => HasJob("end", s.game)'
      BY <3>1 DEF timers, HasJob
    <3>5. Supported(s.game)'
      BY <1>3, <2>0, <2>3, <3>1, <3>3, <3>4
    <3> QED BY <3>2, <3>5
  <2> QED BY <2>1, <2>2, <2>3
<1>13. ASSUME NEW s \in stopping, StopBetsFails(s)
       PROVE  Goal
  <2>0. /\ s.game \in Games /\ stopping' = stopping \ {s} /\ ScheduleJob(s.game, "stop")
        /\ UNCHANGED <<game, outbox, toWorker, resolving, restarts>>
    BY <1>13 DEF TypeOK, StopBetsFails, counts, db, kafka
  <2>1. /\ HasJob("stop", s.game)'
        /\ \A k \in Jobs, h \in Games : HasJob(k, h) => HasJob(k, h)'
    BY <1>0, <2>0, Scheduled
  <2> HIDE DEF HasJob
  <2>2. \A h \in Games : OpenGoesOn(h) => OpenGoesOn(h)'
    BY <1>0, <2>0, <2>1 DEF OpenGoesOn
  <2>3. \A h \in Games : PendingGoesOn(h) => PendingGoesOn(h)'
    BY <2>0 DEF PendingGoesOn, IsResolved
  <2> QED BY <1>0, <1>3, <2>0, <2>1, <2>2, <2>3
<1>14. ASSUME NEW s \in outbox, Publish(s)
       PROVE  Goal
  <2>0. /\ s.event \in Events /\ s.event.game \in Games /\ outbox' = outbox \ {s}
        /\ toWorker' = [toWorker EXCEPT ![s.event] = @ + 1]
        /\ timer' = IF s.by = "price" THEN [timer EXCEPT ![s.event.game] = {}] ELSE timer
        /\ UNCHANGED <<game, due, stopping, resolving, restarts>>
    BY <1>0, <1>14 DEF Publish, Sending, Events, db, counts
  <2>1. /\ \A e \in Events : toWorker[e] > 0 => toWorker'[e] > 0
        /\ toWorker'[s.event] > 0
    BY <1>0, <2>0
  <2>2. ASSUME NEW g \in Games
        PROVE  Supported(g)'
    <3>1. s = Send(g, "OPEN", "create") => s.event = Event(g, "OPEN")
      BY SendTyped DEF States, Sources
    <3>2. OpenGoesOn(g) /\ game[g] = "OPEN" => OpenGoesOn(g)'
      <4>1. game[g] = "OPEN" => timer'[g] = timer[g]
        BY <1>0, <2>0 DEF Known, SentAs, Reached, Over, Jobs
      <4> QED BY <1>0, <2>0, <2>1, <3>1, <4>1 DEF OpenGoesOn, HasJob
    <3>3. HasJob("end", g) /\ game[g] = "INPROGRESS" => HasJob("end", g)'
      <4>1. game[g] = "INPROGRESS" => timer'[g] = timer[g]
        BY <1>0, <2>0 DEF Known, SentAs, Reached, Over, Jobs
      <4> QED BY <2>0, <4>1 DEF HasJob
    <3>4. PendingGoesOn(g) => PendingGoesOn(g)'
      BY <1>0, <2>0, <2>1 DEF PendingGoesOn, IsResolved
    <3> QED BY <1>3, <2>0, <3>2, <3>3, <3>4
  <2> QED BY <2>2
<1>15. ASSUME NEW g \in Games, OnOpened(g)
       PROVE  Goal
  <2>0. /\ ScheduleJob(g, "stop")
        /\ UNCHANGED <<game, outbox, stopping, resolving, restarts>>
        /\ \A e \in Events \ {Event(g, "OPEN")} : toWorker'[e] = toWorker[e]
    BY <1>0, <1>15, Taken DEF OnOpened, TakeFrom, db, counts
  <2>1. /\ HasJob("stop", g)'
        /\ \A k \in Jobs, h \in Games : HasJob(k, h) => HasJob(k, h)'
    BY <1>0, <2>0, Scheduled
  <2> HIDE DEF HasJob
  <2>2. \A h \in Games : OpenGoesOn(h) => OpenGoesOn(h)'
    BY <1>0, <2>0, <2>1 DEF OpenGoesOn
  <2>3. \A h \in Games : PendingGoesOn(h) => PendingGoesOn(h)'
    BY <1>0, <2>0 DEF PendingGoesOn, IsResolved
  <2> QED BY <1>0, <1>3, <2>0, <2>1, <2>2, <2>3
<1>16. ASSUME NEW g \in Games, OnPending(g)
       PROVE  Goal
  <2>0. /\ UNCHANGED <<game, outbox, timers, stopping, restarts>>
        /\ resolving \subseteq resolving'
        /\ \A e \in Events \ {Event(g, "PENDING")} : toWorker'[e] = toWorker[e]
    BY <1>0, <1>16, Taken DEF OnPending, TakeFrom, db, counts
  <2>1. \A h \in Games \ {g} : Supported(h)'
    BY <1>0, <1>4, <2>0 DEF timers
  <2>2. game[g] \in Over
    BY <1>0, <1>16 DEF OnPending, TakeFrom, Known, Reached, States
  <2>3. ASSUME game[g] = "PENDING"
        PROVE  IsResolved(g)'
    <3> DEFINE new == [game |-> g, read |-> Bettors(g)]
    <3>1. new \in resolving' /\ new.game = g
      BY <1>16, <2>3 DEF OnPending
    <3> QED BY <3>1 DEF IsResolved
  <2>4. Supported(g)'
    BY <2>0, <2>2, <2>3 DEF Supported, PendingGoesOn, Over
  <2> QED BY <2>1, <2>4
<1>17. ASSUME NEW g \in Games, OnClosed(g)
       PROVE  Goal
  <2>0. Event(g, "CLOSE") \in Events
    BY EventTyped DEF States
  <2>1. /\ UNCHANGED <<game, outbox, timers, stopping, resolving>>
        /\ \A e \in Events \ {Event(g, "CLOSE")} : toWorker'[e] = toWorker[e]
    BY <1>17, <2>0, Taken DEF OnClosed, TakeFrom, db
  <2> QED BY <1>0, <1>4, <2>1 DEF timers
<1>18. ASSUME NEW r \in resolving, Resolve(r)
       PROVE  Goal
  <2>0. /\ r.game \in Games /\ outbox \subseteq outbox' /\ resolving' = resolving \ {r}
        /\ game' = [game EXCEPT ![r.game] = "CLOSE"]
        /\ UNCHANGED <<toWorker, timers, stopping>>
    BY <1>18 DEF TypeOK, Resolve
  <2>1. game'[r.game] = "CLOSE" /\ \A h \in Games \ {r.game} : game'[h] = game[h]
    BY <1>0, <2>0
  <2>2. \A h \in Games \ {r.game} : Supported(h)'
    BY <1>4, <2>0, <2>1 DEF timers
  <2> QED BY <2>1, <2>2 DEF Supported
<1>19. ASSUME Rebooted, restarts' > 0, UNCHANGED game
       PROVE  Goal
  <2> SUFFICES ASSUME NEW g \in Games PROVE Supported(g)'
    OBVIOUS
  <2>1. game[g] = "OPEN" => HasJob("stop", g)'
    BY <1>19 DEF Rebooted, HasJob, Active
  <2>2. game[g] = "INPROGRESS" => HasJob("end", g)'
    BY <1>19 DEF Rebooted, HasJob, Active
  <2> QED BY <1>19, <2>1, <2>2 DEF Supported, OpenGoesOn, PendingGoesOn
<1>20. CASE Restart
  BY <1>0, <1>19, <1>20 DEF Restart, db
<1>21. ~(\E r \in resolving : UnhandledRejection(r))
  <2> SUFFICES ASSUME NEW r \in resolving, UnhandledRejection(r) PROVE FALSE
    OBVIOUS
  <2>1. r.game \in Games \ late /\ game[r.game] = "PENDING"
    BY <1>1 DEF TypeOK, OneResolution
  <2>2. r.read = Bettors(r.game) /\ \A u \in Users : bets[r.game][u] \in {"NONE", "PENDING"}
    BY <2>1 DEF BetsFollow
  <2> QED BY <2>2 DEF UnhandledRejection, Bettors
<1>22. ~(\E s \in outbox : PublishFails(s)) /\ ~(\E r \in resolving : ResolveFails(r))
  BY <1>0, <1>1 DEF PublishFails, ResolveFails
<1>23. ASSUME NEW m \in moving, PriceMoveFails(m)
       PROVE  Goal
  BY <1>5, <1>23 DEF PriceMoveFails, db, kafka, timers
<1> QED
  BY <1>5, <1>6, <1>7, <1>8, <1>10, <1>11, <1>12, <1>13, <1>14, <1>15, <1>16, <1>17,
     <1>18, <1>20, <1>21, <1>22, <1>23
  DEF Next, Done, vars, db, calls, memory, timers, kafka, history, Tick, CountOpen,
      BetRead, BetWrite, CallFails, GiveRewards, GiveRewardsFails, PriceChanged

-----------------------------------------------------------------------------
(* The theorems *)

\* The inductive invariant: the order of the changes and their events, then
\* what each property rests on.
Inv ==
  /\ TypeOK /\ OpenedOnce /\ OneResolution /\ Known
  /\ ToldOnce
  /\ EndIsOver /\ FirstCrossed /\ FirstPriceCounts
  /\ BetsFollow /\ ClosedIsSettled
  /\ NoGhostGame /\ OnHeap /\ AllSupported

\* The invariant holds before anything was done.
LEMMA InvInit == Init => Inv
<1> SUFFICES ASSUME Init PROVE Inv
  OBVIOUS
<1>1. TypeOK
  BY TypeInit
<1>2. OpenedOnce /\ OneResolution /\ EndIsOver /\ NoGhostGame
  BY DEF Init, OpenedOnce, OneResolution, EndIsOver, NoGhostGame, IsResolved
<1>3. Known
  BY EventTyped DEF Init, Known
<1>4. ToldOnce
  BY DEF Init, ToldOnce, Owed
<1>5. FirstCrossed /\ FirstPriceCounts
  BY DEF Init, FirstCrossed, FirstPriceCounts, Bounds
<1>6. BetsFollow /\ ClosedIsSettled
  BY DEF Init, BetsFollow, ClosedIsSettled, Over
<1>7. OnHeap
  BY DEF Init, OnHeap, HasWork, HasJob
<1>8. AllSupported
  BY DEF Init, AllSupported, Supported
<1> QED BY <1>1, <1>2, <1>3, <1>4, <1>5, <1>6, <1>7, <1>8 DEF Inv

\* Every step keeps the invariant.
LEMMA InvStep == Inv /\ [Next]_vars => Inv'
BY TypeStep, GoesOn, ResolutionStep, KnownStep, ToldStep, EndStep, FirstStep, BetsStep,
   NoGhostStep, OnHeapStep, SupportedStep
DEF Inv

\* The invariant holds in every behaviour.
THEOREM InvHolds == Spec => []Inv
BY InvInit, InvStep, PTL DEF Spec

\* The variables of the game have their types.
THEOREM TypeCorrect == Spec => []TypeOK
<1>1. Inv => TypeOK
  BY DEF Inv, TypeOK
<1> QED BY <1>1, InvHolds, PTL

\* A closed game is settled as a whole, unless a bet came when it was over.
THEOREM SettledWhole == Spec => []ClosedIsSettled
<1>1. Inv => ClosedIsSettled
  BY DEF Inv
<1> QED BY <1>1, InvHolds, PTL

\* A game is paid once, unless Kafka delivers its CLOSE event once more.
THEOREM NotPaidTwice == Spec => []PaidOnce
<1>1. Inv => PaidOnce
  BY DEF Inv, TypeOK, ToldOnce, Owed, PaidOnce
<1> QED BY <1>1, InvHolds, PTL

\* A game ends with the first price that crossed a bound, unless the move by that
\* price failed.
THEOREM FirstPriceKept == Spec => []FirstPriceCounts
<1>1. Inv => FirstPriceCounts
  BY DEF Inv
<1> QED BY <1>1, InvHolds, PTL

\* No game waits for nothing while events get published.
THEOREM NoneStranded == Spec => []NoStrandedGame
<1>1. Inv => NoStrandedGame
  <2> SUFFICES ASSUME Inv, faults = 0, late = {}, NEW g \in Games
               PROVE  /\ game[g] \in Active =>
                           \/ Send(g, "OPEN", "create") \in outbox
                           \/ toWorker[Event(g, "OPEN")] > 0
                           \/ heap[g] > 0 /\ (timer[g] # {} \/ \E job \in Jobs : <<job, g>> \in due)
                           \/ heap[g] > 0 /\ \E s \in stopping : s.game = g
                      /\ game[g] = "PENDING" =>
                           \/ restarts > 0
                           \/ \E s \in outbox : s.event = Event(g, "PENDING")
                           \/ toWorker[Event(g, "PENDING")] > 0
                           \/ IsResolved(g)
    BY DEF NoStrandedGame
  <2>1. Supported(g) /\ OnHeap
    BY DEF Inv, AllSupported
  <2>2. game[g] \in Active => game[g] \notin Over
    BY DEF Active, Over
  <2>3. \A job \in Jobs : HasJob(job, g) =>
          timer[g] # {} \/ \E k \in Jobs : <<k, g>> \in due
    BY DEF HasJob
  <2>4. "stop" \in Jobs /\ "end" \in Jobs
    BY DEF Jobs
  <2> HIDE DEF HasJob
  <2> QED BY <2>1, <2>2, <2>3, <2>4 DEF Supported, OpenGoesOn, PendingGoesOn, OnHeap,
                                        HasWork, Active
<1> QED BY <1>1, InvHolds, PTL

\* The heap of the worker forgets a game that is over.
THEOREM NoGhosts == Spec => []NoGhostGame
<1>1. Inv => NoGhostGame
  BY DEF Inv
<1> QED BY <1>1, InvHolds, PTL

\* No step takes a game back: it is opened once, and a closed game stays so.
THEOREM NeverBack == Spec => [][\A g \in Games : Onward(game[g], game'[g])]_vars
<1>1. Inv /\ [Next]_vars => [\A g \in Games : Onward(game[g], game'[g])]_vars
  BY GoesOn DEF Inv
<1> QED BY <1>1, InvHolds, PTL DEF Spec
=============================================================================
