--------------------------- MODULE OneVsOneProofs ---------------------------
(***************************************************************************)
(* Proofs about OneVsOne, for any games and users and any number of        *)
(* incidents: a closed game is settled as a whole, it is paid once, and no *)
(* active game is forgotten by the worker.                                 *)
(***************************************************************************)
EXTENDS OneVsOne, FiniteSetTheorems, TLAPS

\* What a run of the resolver has read.
Run == [game : Games, bets : Seq(Bet), price : EndPrices]

\* The types, with those of sequences and of what is counted.
Typed ==
  /\ TypeOK
  /\ bets \in [Games -> Seq(Bet)]
  /\ resolving \in [Runs -> Run \cup {Idle}]

\* A run of the resolver has a game.
Reads(i, g) == resolving[i] # Idle /\ resolving[i].game = g

\* The states of a game nobody can bet on any more.
Over == {"PENDING", "CLOSE"}

-----------------------------------------------------------------------------
(* What the helpers of the actions do *)

\* An event of a game.
LEMMA EventTyped ==
  ASSUME NEW g \in Games, NEW s \in States
  PROVE  /\ Event(g, s) \in Events
         /\ Event(g, s).game = g /\ Event(g, s).state = s
BY DEF Event, Events

\* A function on 1..n is a sequence of n elements.
LEMMA Rewritten ==
  ASSUME NEW n \in Nat, NEW s \in [1..n -> Bet]
  PROVE  s \in Seq(Bet) /\ Len(s) = n
OBVIOUS

\* All bets of a game get a result.
LEMMA AllBetsTyped ==
  ASSUME NEW g \in Games, bets[g] \in Seq(Bet), NEW result \in Results
  PROVE  AllBets(g, result) \in Seq(Bet) /\ Len(AllBets(g, result)) = Len(bets[g])
<1>1. \A i \in 1..Len(bets[g]) : bets[g][i] \in Bet
  OBVIOUS
<1>2. \A b \in Bet : [b EXCEPT !.result = result] \in Bet
  BY DEF Bet
<1>3. AllBets(g, result) \in [1..Len(bets[g]) -> Bet]
  BY <1>1, <1>2 DEF AllBets
<1> QED BY <1>3, Rewritten

\* The open bets of a sequence get another result.
LEMMA OpenBetsTyped ==
  ASSUME NEW s \in Seq(Bet), NEW to \in Results,
         NEW t, t = [j \in 1..Len(s) |->
                       IF s[j].result = "OPEN" THEN [s[j] EXCEPT !.result = to] ELSE s[j]]
  PROVE  t \in Seq(Bet) /\ Len(t) = Len(s)
<1>1. \A j \in 1..Len(s) : s[j] \in Bet
  OBVIOUS
<1>2. \A b \in Bet : [b EXCEPT !.result = to] \in Bet
  BY DEF Bet
<1>3. t \in [1..Len(s) -> Bet]
  BY <1>1, <1>2
<1> QED BY <1>3, Rewritten

\* The results of a run of the resolver.
LEMMA ResultsTyped ==
  ASSUME NEW r \in Run
  PROVE  GameResults(r) \in [DOMAIN GameResults(r) -> Results]
<1>1. CASE r.price = NoPrice \/ Len(r.bets) = 1
  BY <1>1 DEF GameResults, Results
<1>2. CASE ~(r.price = NoPrice \/ Len(r.bets) = 1)
  <2>1. GameResults(r) = [i \in {1, 2} |-> IF i = r.price THEN "WON" ELSE "LOSS"]
    BY <1>2 DEF GameResults
  <2> QED BY <2>1 DEF Results
<1> QED BY <1>1, <1>2

\* A run of the resolver gives the bets of its game their results.
LEMMA SettledTyped ==
  ASSUME NEW r \in Run, NEW s \in Seq(Bet)
  PROVE  LET t == [j \in 1..Len(s) |->
                     IF j \in DOMAIN GameResults(r)
                     THEN [s[j] EXCEPT !.result = GameResults(r)[j]] ELSE s[j]]
         IN  t \in Seq(Bet) /\ Len(t) = Len(s)
<1> DEFINE t == [j \in 1..Len(s) |->
                   IF j \in DOMAIN GameResults(r)
                   THEN [s[j] EXCEPT !.result = GameResults(r)[j]] ELSE s[j]]
<1>1. \A j \in 1..Len(s) : s[j] \in Bet
  OBVIOUS
<1>2. \A b \in Bet : \A q \in Results : [b EXCEPT !.result = q] \in Bet
  BY DEF Bet
<1>3. \A j \in DOMAIN GameResults(r) : GameResults(r)[j] \in Results
  BY ResultsTyped
<1>4. t \in [1..Len(s) -> Bet]
  BY <1>1, <1>2, <1>3
<1> HIDE DEF t
<1>5. t \in Seq(Bet) /\ Len(t) = Len(s)
  BY <1>4, Rewritten
<1> QED BY <1>5 DEF t

\* A job of a game is scheduled, or it is about to run.
HasJob(does, g) == timer[g] = does \/ [does |-> does, game |-> g] \in due

\* A job takes the place of the one that is scheduled for the game.
LEMMA Scheduled ==
  ASSUME TypeOK, NEW g \in Games, NEW does \in {"stop", "end"}, ScheduleJob(g, does)
  PROVE  /\ timer' \in [Games -> {"none", "stop", "end"}]
         /\ due' \subseteq Callback
         /\ due \subseteq due'
         /\ HasJob(does, g)'
         /\ \A h \in Games \ {g} : timer'[h] = timer[h]
<1>1. timer \in [Games -> {"none", "stop", "end"}] /\ due \subseteq Callback
  BY DEF TypeOK
<1>2. [does |-> does, game |-> g] \in Callback
  BY DEF Callback
<1>3. CASE Passed(does, g)
  <2>1. /\ timer' = [timer EXCEPT ![g] = "none"]
        /\ due' = due \cup {[does |-> does, game |-> g]}
    BY <1>3 DEF ScheduleJob
  <2> QED BY <1>1, <1>2, <2>1 DEF HasJob
<1>4. CASE ~Passed(does, g)
  <2>1. timer' = [timer EXCEPT ![g] = does] /\ due' = due
    BY <1>4 DEF ScheduleJob
  <2> QED BY <1>1, <2>1 DEF HasJob
<1> QED BY <1>3, <1>4

\* An event is taken, or it is to come once more.
LEMMA Taken ==
  ASSUME Typed, NEW e \in Events, TakeFrom(e)
  PROVE  /\ toWorker' \in [Events -> Nat]
         /\ redelivered' \subseteq Events
         /\ redelivered \subseteq redelivered'
         /\ toWorker[e] > 0
         /\ \A f \in Events : toWorker'[f] <= toWorker[f]
         /\ \A f \in Events \ {e} : toWorker'[f] = toWorker[f]
         /\ UNCHANGED <<outbox, toLedger>>
<1>1. toWorker \in [Events -> Nat] /\ redelivered \subseteq Events
  BY DEF Typed, TypeOK
<1>2. CASE toWorker' = [toWorker EXCEPT ![e] = @ - 1] /\ UNCHANGED redelivered
  BY <1>1, <1>2 DEF TakeFrom
<1>3. CASE redelivered' = redelivered \cup {e} /\ UNCHANGED toWorker
  BY <1>1, <1>3 DEF TakeFrom
<1> QED BY <1>2, <1>3 DEF TakeFrom

\* The event of a change of the worker is out.
LEMMA Announced ==
  ASSUME Typed, NEW g \in Games, NEW s \in States, Announce(g, s)
  PROVE  /\ toWorker' \in [Events -> Nat]
         /\ toWorker'[Event(g, s)] = toWorker[Event(g, s)] + 1
         /\ \A f \in Events \ {Event(g, s)} : toWorker'[f] = toWorker[f]
         /\ UNCHANGED <<outbox, toLedger, redelivered>>
<1>1. toWorker \in [Events -> Nat]
  BY DEF Typed, TypeOK
<1> QED BY <1>1, EventTyped DEF Announce

\* The open bets are bets of the game: two of them are more than one.
LEMMA OpenBetsCounted ==
  ASSUME NEW g \in Games, bets[g] \in Seq(Bet), Cardinality(OpenBets(g)) > 1
  PROVE  Len(bets[g]) >= 2
<1>1. Len(bets[g]) \in Nat
  OBVIOUS
<1>2. IsFiniteSet(1..Len(bets[g])) /\ Cardinality(1..Len(bets[g])) = Len(bets[g])
  <2> DEFINE n == Len(bets[g])
  <2>1. n \in Nat /\ 1 \in Int /\ n \in Int
    BY <1>1
  <2> HIDE DEF n
  <2>2. IsFiniteSet(1..n) /\ Cardinality(1..n) = IF 1 > n THEN 0 ELSE n-1+1
    BY <2>1, FS_Interval, Zenon
  <2>3. Cardinality(1..n) = n
    BY <2>1, <2>2
  <2> QED BY <2>2, <2>3 DEF n
<1>3. OpenBets(g) \subseteq 1..Len(bets[g])
  BY DEF OpenBets
<1>4. /\ Cardinality(OpenBets(g)) <= Cardinality(1..Len(bets[g]))
      /\ IsFiniteSet(OpenBets(g))
  BY <1>2, <1>3, FS_Subset
<1>5. Cardinality(OpenBets(g)) \in Nat
  BY <1>4, FS_CardinalityType
<1> QED BY <1>1, <1>2, <1>4, <1>5

-----------------------------------------------------------------------------
(* Types *)

\* The variables start with their types.
LEMMA TypeInit == Init => Typed
<1> SUFFICES ASSUME Init PROVE Typed
  OBVIOUS
<1>1. <<>> \in Seq(Bet)
  OBVIOUS
<1>2. opponent \in [Games -> Users \cup {Nobody}]
  BY InvitedAssumption DEF Init
<1> QED BY <1>1, <1>2 DEF Init, Typed, TypeOK, EndPrices

\* What a run has read has its types.
LEMMA RunTyped ==
  ASSUME resolving' \in [Runs -> Run \cup {Idle}]
  PROVE  \A i \in Runs : resolving'[i] # Idle =>
           /\ resolving'[i].game \in Games
           /\ resolving'[i].bets \in Seq(Bet)
           /\ resolving'[i].price \in EndPrices
<1> SUFFICES ASSUME NEW i \in Runs, resolving'[i] # Idle
             PROVE  resolving'[i] \in Run
  BY DEF Run
<1> QED OBVIOUS

\* Every step keeps the types.
LEMMA TypeStep == Typed /\ [Next]_vars => Typed'
<1> SUFFICES ASSUME Typed, [Next]_vars PROVE Typed'
  OBVIOUS
<1> USE DEF Typed, TypeOK
<1>1. CASE UNCHANGED vars
  BY <1>1 DEF vars
<1>2. ASSUME NEW g \in Games, Tick(g) \/ CountOpen(g)
      PROVE  Typed'
  <2>1. CASE Tick(g)
    <3>1. phase' \in [Games -> {"bets", "play", "over"}]
      BY <2>1 DEF Tick
    <3> QED BY <2>1, <3>1 DEF Tick, db, calls, memory, kafka, history, counts
  <2>2. CASE CountOpen(g)
    BY <2>2 DEF CountOpen, db, memory, kafka, history, counts
  <2> QED BY <1>2, <2>1, <2>2
<1>3. ASSUME NEW g \in Games, CreateGame(g)
      PROVE  Typed'
  <2>1. [player |-> Owner[g], result |-> "OPEN"] \in Bet
    BY OwnerAssumption DEF Bet, Results
  <2>2. <<[player |-> Owner[g], result |-> "OPEN"]>> \in Seq(Bet)
    BY <2>1
  <2>3. bets' \in [Games -> Seq(Bet)]
    BY <1>3, <2>2 DEF CreateGame
  <2>4. outbox' \subseteq Events
    BY <1>3, EventTyped DEF CreateGame, States
  <2> QED BY <1>3, <2>3, <2>4 DEF CreateGame, States, memory, history, counts
<1>4. ASSUME NEW g \in Games, NEW u \in Users, AcceptRead(g, u) \/ RejectRead(g, u)
      PROVE  Typed'
  <2>1. [game |-> g, user |-> u] \in Call
    BY DEF Call
  <2> QED BY <1>4, <2>1 DEF AcceptRead, RejectRead, db, calls, memory, kafka, history,
                            counts
<1>5. ASSUME NEW c \in accepting, AcceptWrite(c)
      PROVE  Typed'
  <2>1. c.game \in Games /\ c.user \in Users
    BY DEF Call
  <2>2. [player |-> c.user, result |-> "OPEN"] \in Bet
    BY <2>1 DEF Bet, Results
  <2>3. bets' \in [Games -> Seq(Bet)]
    BY <1>5, <2>1, <2>2 DEF AcceptWrite
  <2>4. outbox' \subseteq Events
    BY <1>5, <2>1, EventTyped DEF AcceptWrite, States
  <2>5. game' \in [Games -> States \cup {"NONE"}] /\ opponent' \in [Games -> Users \cup {Nobody}]
    BY <1>5, <2>1 DEF AcceptWrite, States
  <2> QED BY <1>5, <2>1, <2>3, <2>4, <2>5 DEF AcceptWrite, memory, counts
<1>6. ASSUME NEW c \in rejecting, RejectWrite(c)
      PROVE  Typed'
  <2>1. c.game \in Games /\ c.user \in Users
    BY DEF Call
  <2>2. AllBets(c.game, "PENDING") \in Seq(Bet)
    BY <2>1, AllBetsTyped DEF Results
  <2>3. bets' \in [Games -> Seq(Bet)]
    BY <1>6, <2>1, <2>2 DEF RejectWrite
  <2>4. outbox' \subseteq Events
    BY <1>6, <2>1, EventTyped DEF RejectWrite, States
  <2>5. game' \in [Games -> States \cup {"NONE"}] /\ opponent' \in [Games -> Users \cup {Nobody}]
    BY <1>6, <2>1 DEF RejectWrite, States
  <2> QED BY <1>6, <2>1, <2>3, <2>4, <2>5 DEF RejectWrite, memory, counts
<1>7. CASE CallFails
  BY <1>7 DEF CallFails, db, memory, kafka, history, counts
<1>8. ASSUME NEW g \in Games, TimerFires(g)
      PROVE  Typed'
  <2>1. [does |-> timer[g], game |-> g] \in Callback
    BY <1>8 DEF TimerFires, Callback
  <2> QED BY <1>8, <2>1 DEF TimerFires, db, calls, kafka, history, counts
<1>9. ASSUME NEW g \in Games, NEW t \in Active, Register(g, t)
      PROVE  Typed'
  <2>1. Event(g, t) \in Events /\ (IF t = "OPEN" THEN "stop" ELSE "end") \in {"stop", "end"}
    BY EventTyped DEF States, Active
  <2>2. /\ toWorker' \in [Events -> Nat] /\ redelivered' \subseteq Events
        /\ UNCHANGED <<outbox, toLedger>>
    BY <1>9, <2>1, Taken DEF Register
  <2>3. timer' \in [Games -> {"none", "stop", "end"}] /\ due' \subseteq Callback
    BY <1>9, <2>1, Scheduled DEF Register
  <2> QED BY <1>9, <2>2, <2>3 DEF Register, db, calls, counts
<1>10. ASSUME NEW g \in Games, Unregister(g) \/ OnClosed(g)
       PROVE  Typed'
  <2>1. Event(g, "PENDING") \in Events /\ Event(g, "CLOSE") \in Events
    BY EventTyped DEF States
  <2>2. /\ toWorker' \in [Events -> Nat] /\ redelivered' \subseteq Events
        /\ UNCHANGED <<outbox, toLedger>>
    BY <1>10, <2>1, Taken DEF Unregister, OnClosed
  <2> QED BY <1>10, <2>2 DEF Unregister, OnClosed, db, calls, memory, history, counts
<1>11. ASSUME NEW g \in Games, StopBetsRead(g)
       PROVE  Typed'
  <2>1. [game |-> g, ready |-> Cardinality(OpenBets(g)) > 1] \in [game : Games, ready : BOOLEAN]
    OBVIOUS
  <2> QED BY <1>11, <2>1 DEF StopBetsRead, db, calls, kafka, history, counts
<1>12. ASSUME NEW s \in stopping, StopBetsWrite(s)
       PROVE  Typed'
  <2>1. s.game \in Games
    OBVIOUS
  <2> DEFINE to == IF s.ready THEN "INPROGRESS" ELSE "PENDING"
  <2>2. to \in States /\ to \in Results
    BY DEF States, Results
  <2>3. CASE game[s.game] = "OPEN"
    <3>1. bets[s.game] \in Seq(Bet)
      BY <2>1
    <3>2. bets' = [bets EXCEPT ![s.game] = [i \in 1..Len(bets[s.game]) |->
                     IF bets[s.game][i].result = "OPEN"
                     THEN [bets[s.game][i] EXCEPT !.result = to] ELSE bets[s.game][i]]]
      BY <1>12, <2>3 DEF StopBetsWrite
    <3>3. bets' \in [Games -> Seq(Bet)]
      BY <2>1, <2>2, <3>1, <3>2, OpenBetsTyped
    <3>4. game' = [game EXCEPT ![s.game] = to]
      BY <1>12, <2>3 DEF StopBetsWrite
    <3>6. game' \in [Games -> States \cup {"NONE"}]
      BY <2>1, <2>2, <3>4
    <3>5. toWorker' \in [Events -> Nat] /\ UNCHANGED <<outbox, toLedger, redelivered>>
      BY <1>12, <2>1, <2>2, <2>3, Announced DEF StopBetsWrite
    <3> QED BY <1>12, <3>3, <3>5, <3>6 DEF StopBetsWrite, calls, history, counts
  <2>4. CASE game[s.game] # "OPEN"
    BY <1>12, <2>4 DEF StopBetsWrite, calls, kafka, history, counts
  <2> QED BY <2>3, <2>4
<1>13. ASSUME NEW g \in Games, Finalize(g)
       PROVE  Typed'
  <2>1. CASE g \in known /\ game[g] \in Active
    <3>1. AllBets(g, "PENDING") \in Seq(Bet)
      BY AllBetsTyped DEF Results
    <3>2. /\ game' = [game EXCEPT ![g] = "PENDING"]
          /\ bets' = [bets EXCEPT ![g] = AllBets(g, "PENDING")]
          /\ \E p \in EndPrices : endPrice' = [endPrice EXCEPT ![g] = p]
          /\ Announce(g, "PENDING")
      BY <1>13, <2>1 DEF Finalize
    <3>3. bets' \in [Games -> Seq(Bet)]
      BY <3>1, <3>2
    <3>4. toWorker' \in [Events -> Nat] /\ UNCHANGED <<outbox, toLedger, redelivered>>
      BY <3>2, Announced, SMTT(30) DEF States
    <3>5. game' \in [Games -> States \cup {"NONE"}] /\ endPrice' \in [Games -> EndPrices]
      BY <3>2 DEF States
    <3> QED BY <1>13, <3>3, <3>4, <3>5 DEF Finalize, calls, history, counts
  <2>2. CASE ~(g \in known /\ game[g] \in Active)
    BY <1>13, <2>2 DEF Finalize, calls, kafka, history, counts
  <2> QED BY <2>1, <2>2
<1>14. ASSUME NEW g \in Games, WorkerFails(g)
       PROVE  Typed'
  <2>1. faults' \in Nat
    BY <1>14 DEF WorkerFails
  <2>2. stopping' \subseteq stopping /\ due' \subseteq due
    BY <1>14 DEF WorkerFails
  <2>3. UNCHANGED kafka \/ \E t \in States : Announce(g, t)
    BY <1>14 DEF WorkerFails, States
  <2>4. toWorker' \in [Events -> Nat] /\ UNCHANGED <<outbox, toLedger, redelivered>>
    BY <2>3, Announced DEF kafka
  <2> QED BY <1>14, <2>1, <2>2, <2>4 DEF WorkerFails, db, calls, history
<1>15. CASE Restart
  <2>1. restarts' \in Nat
    BY <1>15 DEF Restart
  <2>2. resolving' \in [Runs -> Run \cup {Idle}]
    BY <1>15 DEF Restart
  <2>3. known' \subseteq Games /\ timer' \in [Games -> {"none", "stop", "end"}]
    BY <1>15 DEF Restart
  <2>4. due' \subseteq Callback /\ stopping' = {} /\ outbox' \subseteq outbox
    BY <1>15 DEF Restart, Callback
  <2>5. lost' \subseteq Events
    BY <1>15 DEF Restart
  <2> QED BY <1>15, <2>1, <2>2, <2>3, <2>4, <2>5, RunTyped DEF Restart, db, calls
<1>16. ASSUME NEW g \in Games, NEW i \in Runs, ResolveRead(i, g)
       PROVE  Typed'
  <2>1. [game |-> g, bets |-> bets[g], price |-> endPrice[g]] \in Run
    BY DEF Run
  <2>2. resolving' \in [Runs -> Run \cup {Idle}]
    BY <1>16, <2>1 DEF ResolveRead
  <2>3. overlapped' \subseteq Games
    BY <1>16 DEF ResolveRead
  <2> QED BY <1>16, <2>2, <2>3, RunTyped DEF ResolveRead, db, calls, memory, kafka, counts
<1>17. ASSUME NEW i \in Runs, Resolve(i)
       PROVE  Typed'
  <2> DEFINE r == resolving[i]
             g == r.game
  <2>1. r \in Run
    BY <1>17 DEF Resolve
  <2>2. g \in Games
    BY <2>1 DEF Run
  <2>3. resolving' \in [Runs -> Run \cup {Idle}]
    BY <1>17 DEF Resolve
  <2>4. bets' = [bets EXCEPT ![g] = [j \in 1..Len(bets[g]) |->
                   IF j \in DOMAIN GameResults(r)
                   THEN [bets[g][j] EXCEPT !.result = GameResults(r)[j]] ELSE bets[g][j]]]
    BY <1>17 DEF Resolve
  <2>5. bets' \in [Games -> Seq(Bet)]
    <3>1. bets[g] \in Seq(Bet)
      BY <2>2
    <3> HIDE DEF r, g
    <3> QED BY <2>1, <2>2, <2>4, <3>1, SettledTyped
  <2>6. game' \in [Games -> States \cup {"NONE"}] /\ outbox' \subseteq Events
    BY <1>17, <2>2, EventTyped DEF Resolve, States
  <2> QED BY <1>17, <2>3, <2>5, <2>6, RunTyped DEF Resolve, calls, memory, history, counts
<1>18. ASSUME NEW i \in Runs, ResolveFails(i)
       PROVE  Typed'
  <2>1. resolving' \in [Runs -> Run \cup {Idle}]
    BY <1>18 DEF ResolveFails
  <2> QED BY <1>18, <2>1, RunTyped DEF ResolveFails, db, calls, memory, kafka, history,
                                       counts
<1>19. ASSUME NEW e \in outbox, Publish(e)
       PROVE  Typed'
  <2>1. e \in Events /\ e.game \in Games
    BY DEF Events
  <2>2. toLedger' \in [Games -> Nat] /\ toWorker' \in [Events -> Nat] /\ outbox' \subseteq Events
    BY <1>19, <2>1 DEF Publish
  <2> QED BY <1>19, <2>2 DEF Publish, db, calls, memory, history, counts
<1>20. ASSUME NEW g \in Games, GiveRewards(g)
       PROVE  Typed'
  <2>1. Event(g, "CLOSE") \in Events
    BY EventTyped DEF States
  <2>2. redelivered' \subseteq Events
    BY <1>20, <2>1 DEF GiveRewards
  <2> QED BY <1>20, <2>2 DEF GiveRewards, db, calls, memory, history, counts
<1>21. ASSUME NEW e \in outbox, PublishFails(e)
       PROVE  Typed'
  <2>1. outbox' \subseteq Events /\ lost' \subseteq Events
    BY <1>21 DEF PublishFails
  <2> QED BY <1>21, <2>1 DEF PublishFails, db, calls, memory, counts
<1>22. ASSUME NEW g \in Games, GiveRewardsFails(g)
       PROVE  Typed'
  <2>1. toLedger' \in [Games -> Nat] /\ unpaid' \subseteq Games
    BY <1>22 DEF GiveRewardsFails
  <2> QED BY <1>22, <2>1 DEF GiveRewardsFails, db, calls, memory, counts
<1> QED BY <1>1, <1>2, <1>3, <1>4, <1>5, <1>6, <1>7, <1>8, <1>9, <1>10, <1>11, <1>12,
           <1>13, <1>14, <1>15, <1>16, <1>17, <1>18, <1>19, <1>20, <1>21, <1>22
        DEF Next, Done, Active

-----------------------------------------------------------------------------
(* What a step does to a game *)

\* What happens to the state of a game, its bets and its price.
Stays(g) == game'[g] = game[g] /\ bets'[g] = bets[g] /\ endPrice'[g] = endPrice[g]
Created(g) ==
  /\ game[g] = "NONE" /\ game'[g] = "OPEN"
  /\ Len(bets'[g]) = 1 /\ endPrice'[g] = endPrice[g]
Accepted(g) ==
  /\ game[g] # "NONE" /\ game'[g] = "INPROGRESS"
  /\ Len(bets'[g]) = Len(bets[g]) + 1 /\ endPrice'[g] = endPrice[g]
  /\ game[g] = "OPEN" \/ g \in stale'
Rejected(g) ==
  /\ game[g] # "NONE" /\ game'[g] = "PENDING"
  /\ Len(bets'[g]) = Len(bets[g]) /\ endPrice'[g] = endPrice[g]
  /\ game[g] = "OPEN" \/ g \in stale'
Stopped(g) ==
  /\ game[g] = "OPEN"
  /\ \E s \in stopping : s.game = g /\ game'[g] = IF s.ready THEN "INPROGRESS" ELSE "PENDING"
  /\ Len(bets'[g]) = Len(bets[g]) /\ endPrice'[g] = endPrice[g]
Finalized(g) ==
  /\ game[g] \in Active /\ game'[g] = "PENDING"
  /\ Len(bets'[g]) = Len(bets[g]) /\ endPrice'[g] # NoPrice
Closed(g) ==
  \E i \in Runs :
    /\ Reads(i, g) /\ Resolve(i)
    /\ game'[g] = "CLOSE"
    /\ Len(bets'[g]) = Len(bets[g]) /\ endPrice'[g] = endPrice[g]

GameStep(g) ==
  \/ Stays(g) \/ Created(g) \/ Accepted(g) \/ Rejected(g) \/ Stopped(g)
  \/ Finalized(g) \/ Closed(g)

\* What a call, a run of the resolver or a game that was not created implies.
Opened ==
  /\ \A g \in opening : game[g] = "NONE"
  /\ \A g \in Games : game[g] = "NONE" => bets[g] = <<>>
  /\ \A c \in accepting \cup rejecting : game[c.game] # "NONE"
  /\ \A i \in Runs : resolving[i] # Idle => game[resolving[i].game] # "NONE"

\* A run has a game.
LEMMA RunOf ==
  ASSUME Typed, NEW i \in Runs, resolving[i] # Idle
  PROVE  /\ resolving[i] \in Run /\ resolving[i].game \in Games
         /\ Reads(i, resolving[i].game)
<1>1. resolving[i] \in Run
  BY DEF Typed
<1>2. resolving[i].game \in Games
  BY <1>1 DEF Run
<1> QED BY <1>1, <1>2 DEF Reads

\* No other thing happens to a game.
LEMMA GameSteps ==
  ASSUME Typed, Opened, [Next]_vars
  PROVE  \A g \in Games : GameStep(g)
<1> DEFINE Goal == \A h \in Games : GameStep(h)
<1>0. /\ game \in [Games -> States \cup {"NONE"}] /\ bets \in [Games -> Seq(Bet)]
      /\ endPrice \in [Games -> EndPrices] /\ opening \subseteq Games
      /\ accepting \subseteq Call /\ rejecting \subseteq Call
      /\ stopping \subseteq [game : Games, ready : BOOLEAN]
  BY DEF Typed, TypeOK
<1>1. CASE UNCHANGED <<game, bets, endPrice>>
  BY <1>1 DEF GameStep, Stays
<1>2. ASSUME NEW g \in Games, GameStep(g),
             \A h \in Games \ {g} : game'[h] = game[h] /\ bets'[h] = bets[h] /\ endPrice'[h] = endPrice[h]
      PROVE  Goal
  BY <1>2 DEF GameStep, Stays
<1>3. ASSUME NEW g \in Games, CreateGame(g)
      PROVE  Goal
  <2>1. Created(g)
    BY <1>0, <1>3 DEF Created, CreateGame, Opened
  <2> QED BY <1>0, <1>2, <1>3, <2>1 DEF GameStep, CreateGame
<1>4. ASSUME NEW c \in accepting, AcceptWrite(c)
      PROVE  Goal
  <2>1. c.game \in Games /\ game[c.game] # "NONE"
    BY <1>0 DEF Call, Opened
  <2>2. Len(bets'[c.game]) = Len(bets[c.game]) + 1
    BY <1>0, <1>4, <2>1 DEF AcceptWrite
  <2>3. game'[c.game] = "INPROGRESS" /\ endPrice' = endPrice
    BY <1>0, <1>4, <2>1 DEF AcceptWrite
  <2>4. game[c.game] = "OPEN" \/ c.game \in stale'
    BY <1>4 DEF AcceptWrite
  <2>5. Accepted(c.game)
    BY <2>1, <2>2, <2>3, <2>4 DEF Accepted
  <2> QED BY <1>0, <1>2, <1>4, <2>1, <2>5 DEF GameStep, AcceptWrite
<1>5. ASSUME NEW c \in rejecting, RejectWrite(c)
      PROVE  Goal
  <2>1. c.game \in Games /\ game[c.game] # "NONE"
    BY <1>0 DEF Call, Opened
  <2>2. Len(AllBets(c.game, "PENDING")) = Len(bets[c.game])
    BY <1>0, <2>1, AllBetsTyped DEF Results
  <2>3. /\ game'[c.game] = "PENDING" /\ endPrice' = endPrice
        /\ bets'[c.game] = AllBets(c.game, "PENDING")
    BY <1>0, <1>5, <2>1 DEF RejectWrite
  <2>4. game[c.game] = "OPEN" \/ c.game \in stale'
    BY <1>5 DEF RejectWrite
  <2>5. Rejected(c.game)
    BY <2>1, <2>2, <2>3, <2>4 DEF Rejected
  <2> QED BY <1>0, <1>2, <1>5, <2>1, <2>5 DEF GameStep, RejectWrite
<1>6. ASSUME NEW s \in stopping, StopBetsWrite(s)
      PROVE  Goal
  <2> DEFINE to == IF s.ready THEN "INPROGRESS" ELSE "PENDING"
  <2>1. s.game \in Games /\ to \in Results
    BY <1>0 DEF Results
  <2>2. CASE game[s.game] = "OPEN"
    <3>1. bets[s.game] \in Seq(Bet)
      BY <1>0, <2>1
    <3>2. /\ bets' = [bets EXCEPT ![s.game] = [i \in 1..Len(bets[s.game]) |->
                        IF bets[s.game][i].result = "OPEN"
                        THEN [bets[s.game][i] EXCEPT !.result = to] ELSE bets[s.game][i]]]
          /\ game' = [game EXCEPT ![s.game] = to] /\ endPrice' = endPrice
      BY <1>6, <2>2 DEF StopBetsWrite
    <3>3. Len(bets'[s.game]) = Len(bets[s.game])
      BY <1>0, <2>1, <3>1, <3>2, OpenBetsTyped
    <3>4. Stopped(s.game)
      BY <1>0, <2>1, <2>2, <3>2, <3>3 DEF Stopped
    <3> QED BY <1>0, <1>2, <2>1, <3>2, <3>4 DEF GameStep
  <2>3. CASE game[s.game] # "OPEN"
    BY <1>1, <1>6, <2>3 DEF StopBetsWrite
  <2> QED BY <2>2, <2>3
<1>7. ASSUME NEW g \in Games, Finalize(g)
      PROVE  Goal
  <2>1. CASE g \in known /\ game[g] \in Active
    <3>1. /\ game' = [game EXCEPT ![g] = "PENDING"]
          /\ bets' = [bets EXCEPT ![g] = AllBets(g, "PENDING")]
      BY <1>7, <2>1 DEF Finalize
    <3>2. PICK p \in EndPrices \ {NoPrice} : endPrice' = [endPrice EXCEPT ![g] = p]
      BY <1>7, <2>1 DEF Finalize
    <3>3. Len(AllBets(g, "PENDING")) = Len(bets[g])
      BY <1>0, AllBetsTyped DEF Results
    <3>4. Finalized(g)
      BY <1>0, <2>1, <3>1, <3>2, <3>3 DEF Finalized
    <3> QED BY <1>0, <1>2, <3>1, <3>2, <3>4 DEF GameStep
  <2>2. CASE ~(g \in known /\ game[g] \in Active)
    BY <1>1, <1>7, <2>2 DEF Finalize
  <2> QED BY <2>1, <2>2
<1>8. ASSUME NEW i \in Runs, Resolve(i)
      PROVE  Goal
  <2> DEFINE r == resolving[i]
             g == r.game
  <2>1. r \in Run /\ g \in Games /\ Reads(i, g)
    BY <1>8, RunOf DEF Resolve
  <2>2. /\ bets' = [bets EXCEPT ![g] = [j \in 1..Len(bets[g]) |->
                      IF j \in DOMAIN GameResults(r)
                      THEN [bets[g][j] EXCEPT !.result = GameResults(r)[j]] ELSE bets[g][j]]]
        /\ game' = [game EXCEPT ![g] = "CLOSE"] /\ endPrice' = endPrice
    BY <1>8 DEF Resolve
  <2>3. Len(bets'[g]) = Len(bets[g])
    <3> HIDE DEF r, g
    <3> QED BY <1>0, <2>1, <2>2, SettledTyped
  <2>4. Closed(g)
    <3>1. game'[g] = "CLOSE" /\ endPrice'[g] = endPrice[g]
      BY <1>0, <2>1, <2>2
    <3> HIDE DEF r, g
    <3> QED BY <1>8, <2>1, <2>3, <3>1 DEF Closed
  <2> HIDE DEF r, g
  <2> QED BY <1>0, <1>2, <2>1, <2>2, <2>4 DEF GameStep
<1> QED
  BY <1>1, <1>3, <1>4, <1>5, <1>6, <1>7, <1>8
  DEF Next, Done, vars, db, Tick, CountOpen, AcceptRead, RejectRead, CallFails, TimerFires,
      Register, Unregister, OnClosed, StopBetsRead, WorkerFails, Restart, ResolveRead,
      ResolveFails, Publish, PublishFails, GiveRewards, GiveRewardsFails

\* What has gone wrong is not forgotten.
LEMMA HistoryGrows ==
  ASSUME Typed, [Next]_vars
  PROVE  /\ stale \subseteq stale' /\ disordered \subseteq disordered'
         /\ overlapped \subseteq overlapped' /\ redelivered \subseteq redelivered'
         /\ faults' = 0 => faults = 0
         /\ Restart \/ lost \subseteq lost'
<1>1. faults \in Nat
  BY DEF Typed, TypeOK
<1>2. ASSUME NEW e, TakeFrom(e)
      PROVE  redelivered \subseteq redelivered'
  BY <1>2 DEF TakeFrom
<1> HIDE DEF TakeFrom
<1>3. /\ stale \subseteq stale' /\ disordered \subseteq disordered'
      /\ overlapped \subseteq overlapped'
  BY ZenonT(60) DEF Next, Done, vars, history, Tick, CountOpen, CreateGame, AcceptRead,
      AcceptWrite, RejectRead, RejectWrite, CallFails, TimerFires, Register, Unregister,
      OnClosed, StopBetsRead, StopBetsWrite, Finalize, WorkerFails, Restart, ResolveRead,
      Resolve, ResolveFails, Publish, PublishFails, GiveRewards, GiveRewardsFails
<1>4. faults' = faults \/ faults' = faults + 1
  BY ZenonT(60) DEF Next, Done, vars, counts, Tick, CountOpen, CreateGame, AcceptRead,
      AcceptWrite, RejectRead, RejectWrite, CallFails, TimerFires, Register, Unregister,
      OnClosed, StopBetsRead, StopBetsWrite, Finalize, WorkerFails, Restart, ResolveRead,
      Resolve, ResolveFails, Publish, PublishFails, GiveRewards, GiveRewardsFails
<1>5. redelivered \subseteq redelivered'
  BY <1>2, ZenonT(60) DEF Next, Done, vars, kafka, Tick, CountOpen, CreateGame,
      AcceptRead, AcceptWrite, RejectRead, RejectWrite, CallFails, TimerFires, Register,
      Unregister, OnClosed, StopBetsRead, StopBetsWrite, Finalize, WorkerFails, Restart,
      ResolveRead, Resolve, ResolveFails, Publish, PublishFails, GiveRewards,
      GiveRewardsFails, Announce
<1>6. Restart \/ lost \subseteq lost'
  BY ZenonT(60) DEF Next, Done, vars, history, Tick, CountOpen, CreateGame, AcceptRead,
      AcceptWrite, RejectRead, RejectWrite, CallFails, TimerFires, Register, Unregister,
      OnClosed, StopBetsRead, StopBetsWrite, Finalize, WorkerFails, ResolveRead, Resolve,
      ResolveFails, Publish, PublishFails, GiveRewards, GiveRewardsFails
<1> QED BY <1>1, <1>3, <1>4, <1>5, <1>6

\* A run of the resolver ends, or goes on, or has just read its game.
LEMMA RunSteps ==
  ASSUME Typed, [Next]_vars, NEW i \in Runs, resolving'[i] # Idle
  PROVE  \/ resolving'[i] = resolving[i] /\ ~Resolve(i)
         \/ \E g \in Games : ResolveRead(i, g)
<1>0. resolving \in [Runs -> Run \cup {Idle}]
  BY DEF Typed
<1>1. CASE UNCHANGED resolving
  <2>1. ~Resolve(i)
    BY <1>0, <1>1 DEF Resolve
  <2> QED BY <1>1, <2>1
<1>2. ASSUME NEW g \in Games, NEW j \in Runs, ResolveRead(j, g)
      PROVE  resolving'[i] = resolving[i] \/ j = i
  BY <1>0, <1>2 DEF ResolveRead
<1>3. ASSUME NEW j \in Runs, Resolve(j) \/ ResolveFails(j)
      PROVE  resolving'[i] = resolving[i] /\ j # i
  BY <1>0, <1>3 DEF Resolve, ResolveFails
<1>4. resolving'[i] = resolving[i] => ~Resolve(i)
  BY <1>0 DEF Resolve
<1>5. CASE Restart
  BY <1>5 DEF Restart
<1> QED BY <1>1, <1>2, <1>3, <1>4, <1>5
  DEF Next, Done, vars, Tick, CountOpen, CreateGame, AcceptRead, AcceptWrite, RejectRead,
      RejectWrite, CallFails, TimerFires, Register, Unregister, OnClosed, StopBetsRead,
      StopBetsWrite, Finalize, WorkerFails, Publish, PublishFails, GiveRewards,
      GiveRewardsFails

\* Every step keeps what calls and runs imply.
LEMMA OpenedStep == Typed /\ Opened /\ [Next]_vars => Opened'
<1> SUFFICES ASSUME Typed, Opened, [Next]_vars PROVE Opened'
  OBVIOUS
<1>0. /\ game \in [Games -> States \cup {"NONE"}] /\ opening \subseteq Games
      /\ accepting \subseteq Call /\ rejecting \subseteq Call
      /\ \A c \in Call : c.game \in Games
  BY DEF Typed, TypeOK, Call
<1>1. \A g \in Games : GameStep(g)
  BY GameSteps
<1>2. \A g \in Games : game[g] # "NONE" => game'[g] # "NONE"
  BY <1>1 DEF GameStep, Stays, Created, Accepted, Rejected, Stopped, Finalized, Closed
<1>3. \A g \in Games : game'[g] = "NONE" => bets'[g] = <<>>
  BY <1>1 DEF GameStep, Stays, Created, Accepted, Rejected, Stopped, Finalized, Closed,
              Opened
<1>4. \A g \in opening' : game'[g] = "NONE"
  <2>1. ASSUME NEW g \in Games, CountOpen(g) \/ CreateGame(g)
        PROVE  \A h \in opening' : game'[h] = "NONE"
    BY <1>0, <2>1 DEF CountOpen, CreateGame, Opened, db
  <2>2. CASE opening' \subseteq opening /\ \A g \in Games : ~Created(g)
    BY <1>0, <1>1, <2>2 DEF Opened, GameStep, Stays, Accepted, Rejected, Stopped, Finalized,
                            Closed, Reads, Active
  <2>3. ASSUME NEW g \in Games, Created(g)
        PROVE  \E h \in Games : CreateGame(h)
    <3>1. game[g] = "NONE" /\ game'[g] = "OPEN"
      BY <2>3 DEF Created
    <3>2. ASSUME NEW h \in Games, Finalize(h)
          PROVE  FALSE
      BY <1>0, <3>1, <3>2 DEF Finalize
    <3>3. ASSUME NEW s \in stopping, StopBetsWrite(s)
          PROVE  FALSE
      BY <1>0, <3>1, <3>3 DEF StopBetsWrite
    <3>4. ASSUME NEW i \in Runs, Resolve(i)
          PROVE  FALSE
      BY <1>0, <3>1, <3>4 DEF Resolve
    <3>5. ASSUME NEW c, AcceptWrite(c) \/ RejectWrite(c)
          PROVE  FALSE
      BY <1>0, <3>1, <3>5 DEF AcceptWrite, RejectWrite
    <3> QED
      BY <1>0, <3>1, <3>2, <3>3, <3>4, <3>5
      DEF Next, Done, vars, db, Tick, CountOpen, AcceptRead, RejectRead, CallFails,
          TimerFires, Register, Unregister, OnClosed, StopBetsRead, WorkerFails, Restart,
          ResolveRead, ResolveFails, Publish, PublishFails, GiveRewards, GiveRewardsFails
  <2>4. opening' \subseteq opening \/ \E g \in Games : CountOpen(g)
    BY DEF Next, Done, vars, calls, Tick, CreateGame, AcceptRead, AcceptWrite, RejectRead,
        RejectWrite, CallFails, TimerFires, Register, Unregister, OnClosed, StopBetsRead,
        StopBetsWrite, Finalize, WorkerFails, Restart, ResolveRead, Resolve, ResolveFails,
        Publish, PublishFails, GiveRewards, GiveRewardsFails
  <2> QED BY <2>1, <2>2, <2>3, <2>4
<1>5. \A c \in accepting' \cup rejecting' :
        c \in accepting \cup rejecting \/ (c.game \in Games /\ game[c.game] = "OPEN")
  <2>1. ASSUME NEW g \in Games, NEW u \in Users, AcceptRead(g, u) \/ RejectRead(g, u)
        PROVE  /\ \A c \in accepting' \cup rejecting' :
                    c \in accepting \cup rejecting \/ c = [game |-> g, user |-> u]
               /\ game[g] = "OPEN"
    BY <2>1 DEF AcceptRead, RejectRead, calls
  <2>2. \/ accepting' \subseteq accepting /\ rejecting' \subseteq rejecting
        \/ \E g \in Games, u \in Users : AcceptRead(g, u) \/ RejectRead(g, u)
    BY ZenonT(60) DEF Next, Done, vars, calls, Tick, CountOpen, CreateGame, AcceptWrite,
        RejectWrite, CallFails, TimerFires, Register, Unregister, OnClosed, StopBetsRead,
        StopBetsWrite, Finalize, WorkerFails, Restart, ResolveRead, Resolve, ResolveFails,
        Publish, PublishFails, GiveRewards, GiveRewardsFails
  <2>3. ASSUME NEW g \in Games, NEW u \in Users, AcceptRead(g, u) \/ RejectRead(g, u),
               NEW c \in accepting' \cup rejecting'
        PROVE  c \in accepting \cup rejecting \/ (c.game \in Games /\ game[c.game] = "OPEN")
    <3>1. [game |-> g, user |-> u].game = g
      OBVIOUS
    <3> QED BY <2>1, <2>3, <3>1
  <2> QED BY <2>2, <2>3
<1>6. \A c \in accepting' \cup rejecting' : game'[c.game] # "NONE"
  <2> TAKE c \in accepting' \cup rejecting'
  <2>1. c.game \in Games /\ game[c.game] # "NONE"
    BY <1>0, <1>5 DEF Opened
  <2> QED BY <1>2, <2>1
<1>7. \A i \in Runs : resolving'[i] # Idle => game'[resolving'[i].game] # "NONE"
  <2> SUFFICES ASSUME NEW i \in Runs, resolving'[i] # Idle
               PROVE  game'[resolving'[i].game] # "NONE"
    OBVIOUS
  <2>1. CASE resolving'[i] = resolving[i]
    BY <1>2, <2>1, RunOf DEF Opened
  <2>2. ASSUME NEW g \in Games, ResolveRead(i, g)
        PROVE  resolving'[i].game = g /\ game[g] = "PENDING"
    BY <2>2 DEF ResolveRead, Typed
  <2> QED BY <1>2, <2>1, <2>2, RunSteps
<1> QED BY <1>3, <1>4, <1>6, <1>7 DEF Opened

-----------------------------------------------------------------------------
(* A closed game is settled *)

\* A game whose bets were found to be two has two.
TwoBets == \A s \in stopping : s.ready => Len(bets[s.game]) >= 2

\* The owner alone has a bet while the game is open, the opponent bets when it
\* starts, and a game with two bets ends with a price.
BetsFollow ==
  \A g \in Games \ stale :
    /\ game[g] = "OPEN" => Len(bets[g]) = 1
    /\ game[g] = "INPROGRESS" => Len(bets[g]) = 2
    /\ game[g] \in Over =>
         Len(bets[g]) = 1 \/ (Len(bets[g]) = 2 /\ endPrice[g] # NoPrice)

\* What a run of the resolver read is still so when it writes.
Snapshot ==
  \A i \in Runs, g \in Games \ stale : Reads(i, g) =>
    /\ game[g] \in Over
    /\ resolving[i].price = endPrice[g]
    /\ Len(resolving[i].bets) = Len(bets[g])

\* Every step keeps the counts of bets that were read.
LEMMA TwoBetsStep == Typed /\ Opened /\ TwoBets /\ [Next]_vars => TwoBets'
<1> SUFFICES ASSUME Typed, Opened, TwoBets, [Next]_vars PROVE TwoBets'
  OBVIOUS
<1>0. /\ stopping \subseteq [game : Games, ready : BOOLEAN]
      /\ bets \in [Games -> Seq(Bet)]
  BY DEF Typed, TypeOK
<1>1. \A g \in Games : Len(bets[g]) >= 2 => Len(bets'[g]) >= 2
  <2> TAKE g \in Games
  <2>1. GameStep(g) /\ Len(bets[g]) \in Nat
    BY <1>0, GameSteps
  <2>2. CASE Created(g)
    <3>1. bets[g] = <<>>
      BY <2>2 DEF Created, Opened
    <3> QED BY <3>1
  <2> QED BY <2>1, <2>2 DEF GameStep, Stays, Accepted, Rejected, Stopped, Finalized, Closed
<1>2. CASE stopping' \subseteq stopping
  BY <1>0, <1>1, <1>2 DEF TwoBets
<1>3. ASSUME NEW g \in Games, StopBetsRead(g)
      PROVE  TwoBets'
  <2>1. /\ bets' = bets
        /\ stopping' \subseteq stopping \cup {[game |-> g, ready |-> Cardinality(OpenBets(g)) > 1]}
    BY <1>3 DEF StopBetsRead, db
  <2>2. Cardinality(OpenBets(g)) > 1 => Len(bets[g]) >= 2
    BY <1>0, OpenBetsCounted
  <2>3. \A s \in stopping' : s \in stopping \/ (s.game = g /\ (s.ready => Len(bets[g]) >= 2))
    <3> DEFINE two == Cardinality(OpenBets(g)) > 1
               new == [game |-> g, ready |-> two]
    <3>1. stopping' \subseteq stopping \cup {new} /\ (two => Len(bets[g]) >= 2)
      BY <2>1, <2>2
    <3>2. new.game = g /\ (new.ready = two)
      OBVIOUS
    <3> HIDE DEF two, new
    <3> QED BY <3>1, <3>2, Zenon
  <2> QED BY <2>1, <2>3 DEF TwoBets
<1> QED
  BY <1>2, <1>3, ZenonT(60)
  DEF Next, Done, vars, memory, Tick, CountOpen, CreateGame, AcceptRead, AcceptWrite,
      RejectRead, RejectWrite, CallFails, TimerFires, Register, Unregister, OnClosed,
      StopBetsWrite, Finalize, WorkerFails, Restart, ResolveRead, Resolve, ResolveFails,
      Publish, PublishFails, GiveRewards, GiveRewardsFails

\* Every step keeps the number of bets that a state goes with.
LEMMA BetsStep ==
  Typed /\ Opened /\ TwoBets /\ BetsFollow /\ Snapshot /\ [Next]_vars => BetsFollow'
<1> SUFFICES ASSUME Typed, Opened, TwoBets, BetsFollow, Snapshot, [Next]_vars,
                    NEW g \in Games \ stale'
             PROVE  /\ game'[g] = "OPEN" => Len(bets'[g]) = 1
                    /\ game'[g] = "INPROGRESS" => Len(bets'[g]) = 2
                    /\ game'[g] \in Over =>
                         \/ Len(bets'[g]) = 1
                         \/ Len(bets'[g]) = 2 /\ endPrice'[g] # NoPrice
  BY DEF BetsFollow
<1>1. GameStep(g) /\ g \notin stale
  BY GameSteps, HistoryGrows
<1>2. /\ game[g] = "OPEN" => Len(bets[g]) = 1
      /\ game[g] = "INPROGRESS" => Len(bets[g]) = 2
      /\ game[g] \in Over =>
           Len(bets[g]) = 1 \/ (Len(bets[g]) = 2 /\ endPrice[g] # NoPrice)
  BY <1>1 DEF BetsFollow
<1>3. CASE Stays(g)
  BY <1>2, <1>3 DEF Stays
<1>4. CASE Created(g)
  <2>1. game'[g] = "OPEN" /\ Len(bets'[g]) = 1
    BY <1>4 DEF Created
  <2> QED BY <2>1 DEF Over
<1>8. CASE Accepted(g)
  <2>1. game'[g] = "INPROGRESS" /\ Len(bets'[g]) = Len(bets[g]) + 1 /\ game[g] = "OPEN"
    BY <1>8 DEF Accepted
  <2>2. Len(bets[g]) = 1
    BY <1>2, <2>1
  <2>3. Len(bets'[g]) = 2
    BY <2>1, <2>2
  <2> QED BY <2>1, <2>3 DEF Over
<1>7. CASE Rejected(g) \/ Finalized(g)
  BY <1>2, <1>7 DEF Rejected, Finalized, Active, Over
<1>5. CASE Stopped(g)
  <2>1. ASSUME NEW s \in stopping, s.game = g, s.ready
        PROVE  FALSE
    <3>1. Len(bets[g]) >= 2
      BY <2>1 DEF TwoBets
    <3>2. Len(bets[g]) = 1
      BY <1>2, <1>5 DEF Stopped
    <3> QED BY <3>1, <3>2
  <2>2. game'[g] = "PENDING"
    BY <1>5, <2>1 DEF Stopped
  <2> QED BY <1>2, <1>5, <2>2 DEF Stopped, Over
<1>6. CASE Closed(g)
  <2>1. game[g] \in Over
    BY <1>1, <1>6 DEF Closed, Snapshot
  <2> QED BY <1>2, <1>6, <2>1 DEF Closed
<1> QED BY <1>1, <1>3, <1>4, <1>5, <1>6, <1>7, <1>8 DEF GameStep

\* Every step keeps what the runs of the resolver have read.
LEMMA SnapshotStep == Typed /\ Opened /\ Snapshot /\ [Next]_vars => Snapshot'
<1> SUFFICES ASSUME Typed, Opened, Snapshot, [Next]_vars,
                    NEW i \in Runs, NEW g \in Games \ stale', Reads(i, g)'
             PROVE  /\ game'[g] \in Over
                    /\ resolving'[i].price = endPrice'[g]
                    /\ Len(resolving'[i].bets) = Len(bets'[g])
  BY DEF Snapshot
<1>1. GameStep(g) /\ g \notin stale
  BY GameSteps, HistoryGrows
<1>2. CASE resolving'[i] = resolving[i]
  <2>1. /\ game[g] \in Over
        /\ resolving[i].price = endPrice[g]
        /\ Len(resolving[i].bets) = Len(bets[g])
    BY <1>1, <1>2 DEF Snapshot, Reads
  <2> QED BY <1>1, <1>2, <2>1 DEF GameStep, Stays, Created, Accepted, Rejected, Stopped,
                                  Finalized, Closed, Over, Active
<1>3. ASSUME NEW h \in Games, ResolveRead(i, h)
      PROVE  /\ game'[g] \in Over
             /\ resolving'[i].price = endPrice'[g]
             /\ Len(resolving'[i].bets) = Len(bets'[g])
  <2>1. resolving'[i] = [game |-> h, bets |-> bets[h], price |-> endPrice[h]]
    BY <1>3 DEF ResolveRead, Typed
  <2>2. h = g /\ game[h] = "PENDING" /\ UNCHANGED <<game, endPrice, bets>>
    BY <1>3, <2>1 DEF Reads, ResolveRead, db
  <2> QED BY <2>1, <2>2 DEF Over
<1> QED BY <1>2, <1>3, RunSteps DEF Reads

\* A game with one bet is given back, one with two has a winner.
LEMMA Settles ==
  ASSUME Typed, NEW i \in Runs, NEW g \in Games, Reads(i, g), Resolve(i),
         Len(resolving[i].bets) = Len(bets[g]),
         Len(bets[g]) = 1 \/ (Len(bets[g]) = 2 /\ resolving[i].price # NoPrice)
  PROVE  \/ Len(bets'[g]) = 1 /\ bets'[g][1].result = "REJECT"
         \/ Len(bets'[g]) = 2 /\ {bets'[g][j].result : j \in 1..2} = {"WON", "LOSS"}
<1> DEFINE r == resolving[i]
           n == Len(bets[g])
<1>1. r \in Run /\ r.game = g /\ bets[g] \in Seq(Bet) /\ r.price \in EndPrices
  BY RunOf DEF Reads, Typed, Run
<1>2. bets'[g] = [j \in 1..n |->
                    IF j \in DOMAIN GameResults(r)
                    THEN [bets[g][j] EXCEPT !.result = GameResults(r)[j]] ELSE bets[g][j]]
  BY <1>1 DEF Resolve, Typed
<1>3. Len(bets'[g]) = n
  BY <1>1, <1>2, SettledTyped
<1>4. \A j \in 1..n : bets[g][j] \in Bet
  BY <1>1
<1>5. \A b \in Bet : \A x \in Results : [b EXCEPT !.result = x].result = x
  BY DEF Bet
<1>6. CASE n = 1
  <2>1. GameResults(r) = [k \in {1} |-> "REJECT"]
    BY <1>6 DEF GameResults
  <2>2. bets'[g][1] = [bets[g][1] EXCEPT !.result = "REJECT"]
    BY <1>2, <1>6, <2>1
  <2> QED BY <1>3, <1>4, <1>5, <1>6, <2>2 DEF Results
<1>7. CASE n = 2 /\ r.price # NoPrice
  <2>1. GameResults(r) = [k \in {1, 2} |-> IF k = r.price THEN "WON" ELSE "LOSS"]
    BY <1>7 DEF GameResults
  <2>2. \A j \in 1..2 : bets'[g][j] = [bets[g][j] EXCEPT !.result = IF j = r.price THEN "WON" ELSE "LOSS"]
    BY <1>2, <1>7, <2>1
  <2>3. \A j \in 1..2 : bets'[g][j].result = IF j = r.price THEN "WON" ELSE "LOSS"
    <3>1. \A j \in 1..2 : (IF j = r.price THEN "WON" ELSE "LOSS") \in Results
      BY DEF Results
    <3>2. \A j \in 1..2 : bets[g][j] \in Bet
      BY <1>4, <1>7
    <3> HIDE DEF r
    <3> TAKE j \in 1..2
    <3> DEFINE result == IF j = r.price THEN "WON" ELSE "LOSS"
    <3>3. result \in Results /\ bets'[g][j] = [bets[g][j] EXCEPT !.result = result]
      BY <2>2, <3>1
    <3> HIDE DEF result
    <3>4. bets'[g][j].result = result
      BY <1>5, <3>2, <3>3
    <3> QED BY <3>4 DEF result
  <2>4. r.price = 1 \/ r.price = 2
    BY <1>1, <1>7 DEF EndPrices
  <2>5. {bets'[g][j].result : j \in 1..2} = {"WON", "LOSS"}
    BY <2>3, <2>4
  <2> QED BY <1>3, <1>7, <2>5
<1> QED BY <1>6, <1>7

\* Every step keeps a closed game settled.
LEMMA SettledStep ==
  Typed /\ Opened /\ BetsFollow /\ Snapshot /\ ClosedIsSettled /\ [Next]_vars => ClosedIsSettled'
<1> SUFFICES ASSUME Typed, Opened, BetsFollow, Snapshot, ClosedIsSettled, [Next]_vars,
                    NEW g \in Games \ stale', game'[g] = "CLOSE"
             PROVE  \/ Len(bets'[g]) = 1 /\ bets'[g][1].result = "REJECT"
                    \/ Len(bets'[g]) = 2 /\ {bets'[g][i].result : i \in 1..2} = {"WON", "LOSS"}
  BY DEF ClosedIsSettled
<1>1. GameStep(g) /\ g \notin stale
  BY GameSteps, HistoryGrows
<1>2. CASE Stays(g)
  BY <1>1, <1>2 DEF Stays, ClosedIsSettled
<1>3. CASE Closed(g)
  <2>1. PICK i \in Runs : Reads(i, g) /\ Resolve(i)
    BY <1>3 DEF Closed
  <2>2. /\ game[g] \in Over /\ resolving[i].price = endPrice[g]
        /\ Len(resolving[i].bets) = Len(bets[g])
    BY <1>1, <2>1 DEF Snapshot
  <2>3. Len(bets[g]) = 1 \/ (Len(bets[g]) = 2 /\ endPrice[g] # NoPrice)
    BY <1>1, <2>2 DEF BetsFollow
  <2> QED BY <2>1, <2>2, <2>3, Settles
<1>4. game'[g] # "CLOSE" \/ Stays(g) \/ Closed(g)
  BY <1>1 DEF GameStep, Created, Accepted, Rejected, Stopped, Finalized
<1> QED BY <1>2, <1>3, <1>4

-----------------------------------------------------------------------------
(* A game is paid once *)

\* One run of the resolver at most has a game, which nobody else closes.
OneResolver ==
  \A g \in Games \ (stale \cup overlapped) : \A i \in Runs : Reads(i, g) =>
    /\ game[g] = "PENDING"
    /\ \A j \in Runs : Reads(j, g) => j = i

\* What the ledger paid or may still pay of a game.
Owed(g) == (IF Event(g, "CLOSE") \in outbox THEN 1 ELSE 0) + toLedger[g] + paid[g]

\* A game is told to the ledger when it is closed, and once.
ToldOnce ==
  \A g \in Games \ (stale \cup overlapped) :
    Event(g, "CLOSE") \notin redelivered =>
      /\ Owed(g) <= 1
      /\ game[g] # "CLOSE" => Owed(g) = 0

\* A game that was not touched too late never goes back.
Onward(s, t) ==
  \/ s = t
  \/ s = "NONE" /\ t = "OPEN"
  \/ s = "OPEN" /\ t = "INPROGRESS"
  \/ s \in Active /\ t = "PENDING"
  \/ s = "PENDING" /\ t = "CLOSE"

\* Every step takes such a game onward.
LEMMA GoesOn ==
  ASSUME Typed, Opened, Snapshot, [Next]_vars
  PROVE  \A g \in Games \ stale' : Onward(game[g], game'[g])
<1> SUFFICES ASSUME NEW g \in Games \ stale' PROVE Onward(game[g], game'[g])
  OBVIOUS
<1>1. GameStep(g) /\ g \notin stale
  BY GameSteps, HistoryGrows
<1>2. CASE Closed(g)
  BY <1>1, <1>2 DEF Closed, Snapshot, Over, Onward
<1> QED BY <1>1, <1>2 DEF GameStep, Stays, Created, Accepted, Rejected, Stopped, Finalized,
                          Onward, Active

\* Every step keeps the runs of the resolver apart.
LEMMA ResolverStep == Typed /\ Opened /\ OneResolver /\ [Next]_vars => OneResolver'
<1> SUFFICES ASSUME Typed, Opened, OneResolver, [Next]_vars,
                    NEW g \in Games \ (stale' \cup overlapped'),
                    NEW i \in Runs, Reads(i, g)'
             PROVE  /\ game'[g] = "PENDING"
                    /\ \A j \in Runs : Reads(j, g)' => j = i
  BY DEF OneResolver
<1>0. resolving \in [Runs -> Run \cup {Idle}]
  BY DEF Typed
<1>1. GameStep(g) /\ g \notin stale /\ g \notin overlapped
  BY GameSteps, HistoryGrows
<1>2. CASE \E k \in Runs : \E h \in Games : ResolveRead(k, h)
  <2>1. PICK k \in Runs, h \in Games : ResolveRead(k, h)
    BY <1>2
  <2>2. /\ game' = game /\ game[h] = "PENDING"
        /\ resolving' = [resolving EXCEPT ![k] = [game |-> h, bets |-> bets[h], price |-> endPrice[h]]]
    BY <2>1 DEF ResolveRead, db
  <2>3. /\ resolving'[k].game = h
        /\ \A j \in Runs \ {k} : resolving'[j] = resolving[j]
    BY <1>0, <2>2
  <2>4. h = g => \A j \in Runs \ {k} : resolving[j].game # g
    BY <1>1, <2>1 DEF ResolveRead
  <2>5. CASE h = g
    <3>1. \A j \in Runs : Reads(j, g)' => j = k
      BY <2>3, <2>4, <2>5 DEF Reads
    <3> QED BY <2>2, <2>5, <3>1
  <2>6. CASE h # g
    <3>1. \A j \in Runs : Reads(j, g)' => Reads(j, g)
      BY <2>3, <2>6 DEF Reads
    <3> QED BY <1>1, <2>2, <3>1 DEF OneResolver
  <2> QED BY <2>5, <2>6
<1>3. CASE ~(\E k \in Runs : \E h \in Games : ResolveRead(k, h))
  <2>1. \A j \in Runs : Reads(j, g)' => Reads(j, g) /\ ~Resolve(j)
    BY <1>3, RunSteps DEF Reads
  <2>2. game[g] = "PENDING" /\ \A j \in Runs : Reads(j, g) => j = i
    BY <1>1, <2>1 DEF OneResolver
  <2>3. ~Closed(g)
    BY <2>1, <2>2 DEF Closed
  <2>4. game'[g] = "PENDING"
    BY <1>1, <2>2, <2>3 DEF GameStep, Stays, Created, Accepted, Rejected, Stopped,
                            Finalized, Active
  <2> QED BY <2>1, <2>2, <2>4
<1> QED BY <1>2, <1>3

\* Every step keeps what the ledger is told.
LEMMA ToldStep ==
  Typed /\ Opened /\ Snapshot /\ OneResolver /\ ToldOnce /\ [Next]_vars => ToldOnce'
<1> SUFFICES ASSUME Typed, Opened, Snapshot, OneResolver, ToldOnce, [Next]_vars,
                    NEW g \in Games \ (stale' \cup overlapped'),
                    Event(g, "CLOSE") \notin redelivered'
             PROVE  Owed(g)' <= 1 /\ (game'[g] # "CLOSE" => Owed(g)' = 0)
  BY DEF ToldOnce
<1> DEFINE Goal == Owed(g)' <= 1 /\ (game'[g] # "CLOSE" => Owed(g)' = 0)
<1>0. /\ toLedger \in [Games -> Nat] /\ paid \in [Games -> Nat]
      /\ outbox \subseteq Events /\ Owed(g) \in Nat
  BY DEF Typed, TypeOK, Owed
<1>1. /\ g \notin stale /\ g \notin overlapped
      /\ Owed(g) <= 1 /\ (game[g] # "CLOSE" => Owed(g) = 0)
  BY HistoryGrows DEF ToldOnce
<1>2. game[g] = "CLOSE" => game'[g] = "CLOSE"
  BY GoesOn DEF Onward, Active
<1>3. ASSUME Owed(g)' = Owed(g)
      PROVE  Goal
  BY <1>1, <1>2, <1>3
<1>4. CASE UNCHANGED <<toLedger, paid>> /\ (Event(g, "CLOSE") \in outbox' <=> Event(g, "CLOSE") \in outbox)
  BY <1>3, <1>4 DEF Owed
<1>5. ASSUME NEW i \in Runs, Resolve(i)
      PROVE  Goal
  <2>1. resolving[i].game \in Games /\ Reads(i, resolving[i].game)
    BY <1>5, RunOf DEF Resolve
  <2>2. /\ outbox' = outbox \cup {Event(resolving[i].game, "CLOSE")}
        /\ UNCHANGED <<toLedger, paid>>
        /\ game' = [game EXCEPT ![resolving[i].game] = "CLOSE"]
    BY <1>5 DEF Resolve
  <2>3. CASE resolving[i].game = g
    <3>1. game[g] = "PENDING"
      BY <1>1, <2>1, <2>3 DEF OneResolver
    <3>2. Owed(g) = 0 /\ game'[g] = "CLOSE"
      BY <1>1, <2>2, <2>3, <3>1 DEF Typed, TypeOK
    <3>3. toLedger[g] = 0 /\ paid[g] = 0
      BY <1>0, <3>2 DEF Owed
    <3>4. Owed(g)' = 1
      BY <2>2, <2>3, <3>3 DEF Owed
    <3> QED BY <3>2, <3>4
  <2>4. CASE resolving[i].game # g
    <3>1. Event(resolving[i].game, "CLOSE") # Event(g, "CLOSE")
      BY <2>1, <2>4, EventTyped DEF States
    <3> QED BY <1>4, <2>2, <3>1
  <2> QED BY <2>3, <2>4
<1>6. ASSUME NEW h \in Games, NEW t \in States \ {"CLOSE"},
             outbox' = outbox \cup {Event(h, t)}, UNCHANGED <<toLedger, paid>>
      PROVE  Goal
  <2>1. Event(h, t) # Event(g, "CLOSE")
    BY EventTyped DEF States
  <2> QED BY <1>4, <1>6, <2>1
<1>7. ASSUME NEW h \in Games, CreateGame(h)
      PROVE  Goal
  BY <1>6, <1>7 DEF CreateGame, States
<1>8. ASSUME NEW c, c.game \in Games, AcceptWrite(c) \/ RejectWrite(c)
      PROVE  Goal
  BY <1>6, <1>8 DEF AcceptWrite, RejectWrite, States
<1>9. ASSUME NEW e \in outbox, Publish(e)
      PROVE  Goal
  <2>1. e \in Events /\ e.game \in Games /\ e = Event(e.game, e.state) /\ paid' = paid
        /\ outbox' = outbox \ {e}
    BY <1>0, <1>9 DEF Events, Event, Publish
  <2>2. CASE e = Event(g, "CLOSE")
    <3>1. e.game = g /\ e.state = "CLOSE"
      BY <2>2, EventTyped DEF States
    <3>2. toLedger'[g] = toLedger[g] + 1
      BY <1>0, <1>9, <3>1 DEF Publish
    <3>3. Event(g, "CLOSE") \in outbox /\ Event(g, "CLOSE") \notin outbox'
      BY <2>1, <2>2
    <3>4. Owed(g)' = Owed(g)
      BY <1>0, <2>1, <3>2, <3>3 DEF Owed
    <3> QED BY <1>3, <3>4
  <2>3. CASE e # Event(g, "CLOSE")
    <3>1. e.state = "CLOSE" => e.game # g
      BY <2>1, <2>3
    <3>2. toLedger'[g] = toLedger[g]
      BY <1>0, <1>9, <2>1, <3>1 DEF Publish
    <3>3. Owed(g)' = Owed(g)
      BY <2>1, <2>3, <3>2 DEF Owed
    <3> QED BY <1>3, <3>3
  <2> QED BY <2>2, <2>3
<1>10. ASSUME NEW h \in Games, GiveRewards(h)
       PROVE  Goal
  <2>1. outbox' = outbox /\ toLedger[h] > 0 /\ paid' = [paid EXCEPT ![h] = @ + 1]
    BY <1>10 DEF GiveRewards
  <2>2. CASE h = g
    <3>1. toLedger' = [toLedger EXCEPT ![h] = @ - 1]
      BY <1>10, <2>2 DEF GiveRewards
    <3>2. Owed(g)' = Owed(g)
      BY <1>0, <2>1, <2>2, <3>1 DEF Owed
    <3> QED BY <1>3, <3>2
  <2>3. CASE h # g
    <3>1. toLedger'[g] = toLedger[g] /\ paid'[g] = paid[g]
      BY <1>0, <1>10, <2>3 DEF GiveRewards
    <3>2. Owed(g)' = Owed(g)
      BY <2>1, <3>1 DEF Owed
    <3> QED BY <1>3, <3>2
  <2> QED BY <2>2, <2>3
<1>11. ASSUME UNCHANGED <<toLedger, paid>>, outbox' \subseteq outbox
       PROVE  Goal
  <2>1. CASE Event(g, "CLOSE") \in outbox' \/ Event(g, "CLOSE") \notin outbox
    BY <1>4, <1>11, <2>1
  <2>2. CASE Event(g, "CLOSE") \notin outbox' /\ Event(g, "CLOSE") \in outbox
    <3>1. Owed(g) = Owed(g)' + 1 /\ Owed(g)' \in Nat
      BY <1>0, <1>11, <2>2 DEF Owed
    <3> QED BY <1>0, <1>1, <3>1
  <2> QED BY <2>1, <2>2
<1>13. CASE Restart
  BY <1>11, <1>13 DEF Restart
<1>14. ASSUME NEW e \in outbox, PublishFails(e)
       PROVE  Goal
  BY <1>11, <1>14 DEF PublishFails
<1>15. ASSUME NEW h \in Games, GiveRewardsFails(h)
       PROVE  Goal
  <2>1. UNCHANGED <<outbox, paid>> /\ toLedger[h] > 0 /\ toLedger' = [toLedger EXCEPT ![h] = @ - 1]
    BY <1>15 DEF GiveRewardsFails
  <2>2. Owed(g)' <= Owed(g) /\ Owed(g)' \in Nat
    BY <1>0, <2>1 DEF Owed
  <2>3. Owed(g) = 0 => Owed(g)' = 0
    BY <1>0, <2>2
  <2>4. game' = game
    BY <1>15 DEF GiveRewardsFails, db
  <2> QED BY <1>0, <1>1, <2>2, <2>3, <2>4
<1>12. \A c \in accepting \cup rejecting : c.game \in Games
  BY DEF Typed, TypeOK, Call
<1> QED
  BY <1>4, <1>5, <1>7, <1>8, <1>9, <1>10, <1>12, <1>13, <1>14, <1>15, ZenonT(60)
  DEF Next, Done, vars, kafka, Tick, CountOpen, AcceptRead, RejectRead, CallFails,
      TimerFires, Register, Unregister, OnClosed, TakeFrom, StopBetsRead, StopBetsWrite,
      Announce, Finalize, WorkerFails, ResolveRead, ResolveFails

-----------------------------------------------------------------------------
(* No active game is forgotten *)

\* The worker is owed an event.
Waits(e) == e \in outbox \/ toWorker[e] > 0

\* While no transaction of the worker fails, an event comes after its change.
EventsFollow ==
  faults = 0 => \A g \in Games \ stale :
    /\ Waits(Event(g, "INPROGRESS")) => game[g] \in {"INPROGRESS"} \cup Over
    /\ Waits(Event(g, "PENDING")) => game[g] \in Over

\* The worker is owed an event, or was.
Sent(e) == Waits(e) \/ e \in lost

\* What the worker has to do for an active game.
OpenGoesOn(g) ==
  \/ Sent(Event(g, "OPEN"))
  \/ g \in known /\ HasJob("stop", g)
  \/ \E s \in stopping : s.game = g
StartedGoesOn(g) ==
  \/ Sent(Event(g, "INPROGRESS"))
  \/ g \in known /\ HasJob("end", g)

Supported(g) ==
  /\ game[g] = "OPEN" => OpenGoesOn(g)
  /\ game[g] = "INPROGRESS" => StartedGoesOn(g)

\* While no transaction of the worker fails and the events come in their order,
\* it has something to do for every active game, unless its event was lost.
AllSupported == faults = 0 => \A g \in Games \ (stale \cup disordered) : Supported(g)

\* A new event tells of the change of the same step.
LEMMA NewEvents ==
  ASSUME Typed, [Next]_vars, faults' = 0, NEW g \in Games, NEW t \in States
  PROVE  Waits(Event(g, t))' => Waits(Event(g, t)) \/ game'[g] = t
<1> DEFINE e == Event(g, t)
           Goal == Waits(e)' => Waits(e) \/ game'[g] = t
<1>0. /\ game \in [Games -> States \cup {"NONE"}] /\ toWorker \in [Events -> Nat]
      /\ outbox \subseteq Events /\ e \in Events
  BY EventTyped DEF Typed, TypeOK
<1>1. CASE outbox' \subseteq outbox /\ UNCHANGED toWorker
  BY <1>1 DEF Waits
<1>2. ASSUME NEW h \in Games, NEW s \in States, outbox' = outbox \cup {Event(h, s)},
             UNCHANGED toWorker, game' = [game EXCEPT ![h] = s]
      PROVE  Goal
  <2>1. Event(h, s) = e => h = g /\ s = t
    BY EventTyped
  <2> QED BY <1>0, <1>2, <2>1 DEF Waits
<1>3. ASSUME NEW h \in Games, NEW s \in States, Announce(h, s), game' = [game EXCEPT ![h] = s]
      PROVE  Goal
  <2>1. Event(h, s) = e => h = g /\ s = t
    BY EventTyped
  <2>2. outbox' = outbox /\ \A f \in Events \ {Event(h, s)} : toWorker'[f] = toWorker[f]
    BY <1>3, Announced
  <2> QED BY <1>0, <1>3, <2>1, <2>2 DEF Waits
<1>4. ASSUME NEW f \in Events, TakeFrom(f)
      PROVE  Goal
  <2>1. /\ outbox' = outbox /\ \A d \in Events : toWorker'[d] <= toWorker[d]
        /\ toWorker' \in [Events -> Nat]
    BY <1>4, Taken
  <2> QED BY <1>0, <2>1 DEF Waits
<1>5. ASSUME NEW h \in Games, CreateGame(h)
      PROVE  Goal
  BY <1>2, <1>5 DEF CreateGame, States
<1>6. ASSUME NEW c, c.game \in Games, AcceptWrite(c) \/ RejectWrite(c)
      PROVE  Goal
  BY <1>2, <1>6 DEF AcceptWrite, RejectWrite, States
<1>7. ASSUME NEW s \in stopping, StopBetsWrite(s)
      PROVE  Goal
  <2>1. s.game \in Games
    BY DEF Typed, TypeOK
  <2>2. CASE game[s.game] = "OPEN"
    <3>1. (IF s.ready THEN "INPROGRESS" ELSE "PENDING") \in States
      BY DEF States
    <3> QED BY <1>3, <1>7, <2>1, <2>2, <3>1 DEF StopBetsWrite
  <2>3. CASE game[s.game] # "OPEN"
    BY <1>1, <1>7, <2>3 DEF StopBetsWrite, kafka
  <2> QED BY <2>2, <2>3
<1>8. ASSUME NEW h \in Games, Finalize(h)
      PROVE  Goal
  <2>1. CASE h \in known /\ game[h] \in Active
    BY <1>3, <1>8, <2>1 DEF Finalize, States
  <2>2. CASE ~(h \in known /\ game[h] \in Active)
    BY <1>1, <1>8, <2>2 DEF Finalize, kafka
  <2> QED BY <2>1, <2>2
<1>9. ASSUME NEW h \in Games, WorkerFails(h)
      PROVE  Goal
  BY <1>9 DEF WorkerFails, Typed, TypeOK
<1>10. CASE Restart
  BY <1>1, <1>10 DEF Restart
<1>11. ASSUME NEW i \in Runs, Resolve(i)
       PROVE  Goal
  <2>1. resolving[i].game \in Games
    BY <1>11, RunOf DEF Resolve
  <2> QED BY <1>2, <1>11, <2>1 DEF Resolve, States
<1>12. ASSUME NEW f \in outbox, Publish(f) \/ PublishFails(f)
       PROVE  Goal
  BY <1>0, <1>1, <1>12 DEF Publish, PublishFails, Waits
<1>13. ASSUME NEW h \in Games, \/ Register(h, "OPEN") \/ Register(h, "INPROGRESS")
                               \/ Unregister(h) \/ OnClosed(h)
       PROVE  Goal
  BY <1>4, <1>13, EventTyped DEF Register, Unregister, OnClosed, States
<1>14. \A c \in accepting \cup rejecting : c.game \in Games
  BY DEF Typed, TypeOK, Call
<1> QED
  BY <1>1, <1>5, <1>6, <1>7, <1>8, <1>9, <1>10, <1>11, <1>12, <1>13, <1>14
  DEF Next, Done, vars, kafka, Tick, CountOpen, AcceptRead, RejectRead, CallFails,
      TimerFires, StopBetsRead, ResolveRead, ResolveFails, GiveRewards, GiveRewardsFails

\* Every step keeps the events behind their changes.
LEMMA EventsStep == Typed /\ Opened /\ Snapshot /\ EventsFollow /\ [Next]_vars => EventsFollow'
<1> SUFFICES ASSUME Typed, Opened, Snapshot, EventsFollow, [Next]_vars, faults' = 0,
                    NEW g \in Games \ stale'
             PROVE  /\ Waits(Event(g, "INPROGRESS"))' => game'[g] \in {"INPROGRESS"} \cup Over
                    /\ Waits(Event(g, "PENDING"))' => game'[g] \in Over
  BY DEF EventsFollow
<1>1. g \notin stale /\ faults = 0 /\ Onward(game[g], game'[g])
  BY HistoryGrows, GoesOn
<1>2. /\ Waits(Event(g, "INPROGRESS"))' => Waits(Event(g, "INPROGRESS")) \/ game'[g] = "INPROGRESS"
      /\ Waits(Event(g, "PENDING"))' => Waits(Event(g, "PENDING")) \/ game'[g] = "PENDING"
  BY NewEvents DEF States
<1>3. /\ Waits(Event(g, "INPROGRESS")) => game[g] \in {"INPROGRESS"} \cup Over
      /\ Waits(Event(g, "PENDING")) => game[g] \in Over
  BY <1>1 DEF EventsFollow
<1> HIDE DEF Waits
<1> QED BY <1>1, <1>2, <1>3 DEF Onward, Over, Active

\* Every step leaves something to do for an active game.
LEMMA SupportedStep ==
  Typed /\ Opened /\ Snapshot /\ EventsFollow /\ AllSupported /\ [Next]_vars => AllSupported'
<1> SUFFICES ASSUME Typed, Opened, Snapshot, EventsFollow, AllSupported, [Next]_vars,
                    faults' = 0, NEW g \in Games \ (stale' \cup disordered')
             PROVE  Supported(g)'
  BY DEF AllSupported
<1>0. /\ game \in [Games -> States \cup {"NONE"}] /\ toWorker \in [Events -> Nat]
      /\ timer \in [Games -> {"none", "stop", "end"}] /\ due \subseteq Callback
      /\ stopping \subseteq [game : Games, ready : BOOLEAN] /\ outbox \subseteq Events
      /\ faults \in Nat /\ TypeOK
  BY DEF Typed, TypeOK
<1>a. g \in Games /\ g \notin stale /\ g \notin disordered /\ faults = 0 /\ Supported(g)
  BY HistoryGrows DEF AllSupported
<1>b. /\ Event(g, "OPEN") \in Events /\ Event(g, "INPROGRESS") \in Events
      /\ \A h \in Games, s, t \in States : Event(h, s) = Event(g, t) => h = g /\ s = t
  BY EventTyped DEF States
<1>r. CASE Restart
  <2>1. /\ game' = game
        /\ known' = {h \in Games : game[h] \in Active}
        /\ timer' = [h \in Games |->
             IF /\ h \in {k \in Games : game[k] \in Active}
                /\ ~Passed(IF game[h] = "OPEN" THEN "stop" ELSE "end", h)
             THEN IF game[h] = "OPEN" THEN "stop" ELSE "end" ELSE "none"]
        /\ due' = {[does |-> IF game[h] = "OPEN" THEN "stop" ELSE "end", game |-> h] :
                     h \in {k \in {j \in Games : game[j] \in Active} :
                              Passed(IF game[k] = "OPEN" THEN "stop" ELSE "end", k)}}
    BY <1>r DEF Restart, db
  <2>2. CASE game[g] = "OPEN"
    <3>1. g \in known' /\ HasJob("stop", g)'
      BY <1>a, <2>1, <2>2 DEF HasJob, Active
    <3> QED BY <2>1, <2>2, <3>1 DEF Supported, OpenGoesOn
  <2>3. CASE game[g] = "INPROGRESS"
    <3>1. g \in known' /\ HasJob("end", g)'
      BY <1>a, <2>1, <2>3 DEF HasJob, Active
    <3> QED BY <2>1, <2>3, <3>1 DEF Supported, StartedGoesOn
  <2>4. CASE game[g] \notin Active
    BY <2>1, <2>4 DEF Supported, Active
  <2> QED BY <2>2, <2>3, <2>4 DEF Active
<1> SUFFICES ASSUME ~Restart PROVE Supported(g)'
  BY <1>r
<1>c. lost \subseteq lost'
  BY HistoryGrows
<1>1. ASSUME game'[g] = game[g],
             \A t \in Active : Waits(Event(g, t)) => Sent(Event(g, t))',
             g \in known => g \in known',
             \A d \in {"stop", "end"} : HasJob(d, g) => HasJob(d, g)',
             \A s \in stopping : s.game = g => s \in stopping'
      PROVE  Supported(g)'
  <2>1. OpenGoesOn(g) => OpenGoesOn(g)'
    BY <1>c, <1>1 DEF OpenGoesOn, Active, Sent
  <2>2. StartedGoesOn(g) => StartedGoesOn(g)'
    BY <1>c, <1>1 DEF StartedGoesOn, Active, Sent
  <2> QED BY <1>a, <1>1, <2>1, <2>2 DEF Supported
<1>2. ASSUME game'[g] \notin Active
      PROVE  Supported(g)'
  BY <1>2 DEF Supported, Active
<1>3. ASSUME NEW t \in States, game'[g] = t, Waits(Event(g, t))'
      PROVE  Supported(g)'
  BY <1>3 DEF Supported, OpenGoesOn, StartedGoesOn, Active, Sent
<1>4. ASSUME UNCHANGED game, UNCHANGED memory,
             \A t \in Active : Waits(Event(g, t)) => Sent(Event(g, t))'
      PROVE  Supported(g)'
  BY <1>1, <1>4 DEF memory, HasJob
<1>5. CASE UNCHANGED <<game, memory, outbox, toWorker>>
  BY <1>4, <1>5 DEF Waits, Sent
<1>6. ASSUME NEW h \in Games, NEW t \in States, game' = [game EXCEPT ![h] = t],
             UNCHANGED memory, outbox' = outbox \cup {Event(h, t)}, UNCHANGED toWorker
      PROVE  Supported(g)'
  <2>1. CASE h = g
    BY <1>0, <1>2, <1>3, <1>6, <2>1 DEF Waits
  <2>2. CASE h # g
    BY <1>0, <1>1, <1>6, <2>2 DEF memory, HasJob, Waits, Sent
  <2> QED BY <2>1, <2>2
<1>7. ASSUME NEW h \in Games, CreateGame(h)
      PROVE  Supported(g)'
  BY <1>6, <1>7 DEF CreateGame, States
<1>8. ASSUME NEW c, c.game \in Games, AcceptWrite(c) \/ RejectWrite(c)
      PROVE  Supported(g)'
  BY <1>6, <1>8 DEF AcceptWrite, RejectWrite, States
<1>9. ASSUME NEW i \in Runs, Resolve(i)
      PROVE  Supported(g)'
  <2>1. resolving[i].game \in Games
    BY <1>9, RunOf DEF Resolve
  <2> QED BY <1>6, <1>9, <2>1 DEF Resolve, States
<1>10. ASSUME NEW h \in Games, TimerFires(h)
       PROVE  Supported(g)'
  <2>1. /\ UNCHANGED <<game, known, stopping, outbox, toWorker>>
        /\ timer' = [timer EXCEPT ![h] = "none"]
        /\ due' = due \cup {[does |-> timer[h], game |-> h]}
    BY <1>10 DEF TimerFires, db, kafka
  <2>2. \A d \in {"stop", "end"} : HasJob(d, g) => HasJob(d, g)'
    BY <1>0, <2>1 DEF HasJob
  <2> QED BY <1>1, <2>1, <2>2 DEF Waits, Sent
<1>11. ASSUME NEW h \in Games, NEW t \in Active, Register(h, t)
       PROVE  Supported(g)'
  <2> DEFINE does == IF t = "OPEN" THEN "stop" ELSE "end"
  <2>1. /\ Event(h, t) \in Events /\ does \in {"stop", "end"} /\ t \in States
    BY EventTyped DEF Active, States
  <2>2. /\ UNCHANGED <<game, stopping, outbox>> /\ known' = known \cup {h}
        /\ ScheduleJob(h, does) /\ TakeFrom(Event(h, t))
        /\ disordered' = IF t = "OPEN" /\ game[h] # "OPEN"
                         THEN disordered \cup {h} ELSE disordered
    BY <1>11 DEF Register, db, TakeFrom
  <2>3. /\ toWorker[Event(h, t)] > 0
        /\ \A f \in Events \ {Event(h, t)} : toWorker'[f] = toWorker[f]
    BY <2>1, <2>2, Taken
  <2>4. /\ due \subseteq due' /\ HasJob(does, h)'
        /\ \A k \in Games \ {h} : timer'[k] = timer[k]
    BY <1>0, <2>1, <2>2, Scheduled
  <2>5. CASE h = g
    <3>1. CASE t = "OPEN"
      <4>1. game'[g] = "OPEN"
        BY <2>2, <2>5, <3>1
      <4>2. OpenGoesOn(g)'
        BY <2>2, <2>4, <2>5, <3>1 DEF OpenGoesOn
      <4> QED BY <4>1, <4>2 DEF Supported
    <3>2. CASE t = "INPROGRESS"
      <4>1. game'[g] \in {"INPROGRESS"} \cup Over
        BY <1>a, <2>2, <2>3, <2>5, <3>2 DEF EventsFollow, Waits
      <4>2. StartedGoesOn(g)'
        BY <2>2, <2>4, <2>5, <3>2 DEF StartedGoesOn
      <4> QED BY <4>1, <4>2 DEF Supported, Over
    <3> QED BY <3>1, <3>2 DEF Active
  <2>6. CASE h # g
    <3>1. \A d \in {"stop", "end"} : HasJob(d, g) => HasJob(d, g)'
      BY <2>4, <2>6 DEF HasJob
    <3>2. \A u \in Active : Event(g, u) \in Events \ {Event(h, t)}
      BY <1>b, <2>1, <2>6 DEF Active, States
    <3>3. \A u \in Active : Waits(Event(g, u)) => Waits(Event(g, u))'
      BY <2>2, <2>3, <3>2 DEF Waits
    <3> QED BY <1>1, <2>2, <3>1, <3>3 DEF Sent
  <2> QED BY <2>5, <2>6
<1>12. ASSUME NEW h \in Games, Unregister(h)
       PROVE  Supported(g)'
  <2>1. Event(h, "PENDING") \in Events
    BY EventTyped DEF States
  <2>2. /\ UNCHANGED <<game, due, stopping, outbox>> /\ known' = known \ {h}
        /\ timer' = [timer EXCEPT ![h] = "none"] /\ TakeFrom(Event(h, "PENDING"))
    BY <1>12 DEF Unregister, db, TakeFrom
  <2>3. /\ toWorker[Event(h, "PENDING")] > 0
        /\ \A f \in Events \ {Event(h, "PENDING")} : toWorker'[f] = toWorker[f]
    BY <2>1, <2>2, Taken
  <2>4. CASE h = g
    <3>1. game[g] \in Over
      BY <1>a, <2>3, <2>4 DEF EventsFollow, Waits
    <3> QED BY <1>2, <2>2, <3>1 DEF Over, Active
  <2>5. CASE h # g
    <3>1. \A d \in {"stop", "end"} : HasJob(d, g) => HasJob(d, g)'
      BY <1>0, <2>2, <2>5 DEF HasJob
    <3>2. \A u \in Active : Event(g, u) \in Events \ {Event(h, "PENDING")}
      BY <1>b, <2>5 DEF Active, States
    <3>3. \A u \in Active : Waits(Event(g, u)) => Waits(Event(g, u))'
      BY <2>2, <2>3, <3>2 DEF Waits
    <3> QED BY <1>1, <2>2, <2>5, <3>1, <3>3 DEF Sent
  <2> QED BY <2>4, <2>5
<1>13. ASSUME NEW h \in Games, OnClosed(h)
       PROVE  Supported(g)'
  <2>1. Event(h, "CLOSE") \in Events
    BY EventTyped DEF States
  <2>2. UNCHANGED <<game, memory, outbox>> /\ TakeFrom(Event(h, "CLOSE"))
    BY <1>13 DEF OnClosed, db, TakeFrom
  <2>3. \A f \in Events \ {Event(h, "CLOSE")} : toWorker'[f] = toWorker[f]
    BY <2>1, <2>2, Taken
  <2>4. \A u \in Active : Event(g, u) \in Events \ {Event(h, "CLOSE")}
    BY <1>b DEF Active, States
  <2>5. \A u \in Active : Waits(Event(g, u)) => Waits(Event(g, u))'
    BY <2>2, <2>3, <2>4 DEF Waits
  <2> QED BY <1>4, <2>2, <2>5 DEF Sent
<1>14. ASSUME NEW h \in Games, StopBetsRead(h)
       PROVE  Supported(g)'
  <2>1. /\ UNCHANGED <<game, known, timer, outbox, toWorker>>
        /\ due' = due \ {[does |-> "stop", game |-> h]} /\ stopping \subseteq stopping'
        /\ h \in known => \E s \in stopping' : s.game = h
    <3> DEFINE new == [game |-> h, ready |-> Cardinality(OpenBets(h)) > 1]
    <3>1. new.game = h
      OBVIOUS
    <3>2. stopping' = IF h \in known THEN stopping \cup {new} ELSE stopping
      BY <1>14 DEF StopBetsRead
    <3> HIDE DEF new
    <3> QED BY <1>14, <3>1, <3>2 DEF StopBetsRead, db, kafka
  <2>2. HasJob("end", g) => HasJob("end", g)'
    BY <2>1 DEF HasJob
  <2>3. h # g => (HasJob("stop", g) => HasJob("stop", g)')
    BY <2>1 DEF HasJob
  <2>4. OpenGoesOn(g) => OpenGoesOn(g)'
    BY <1>c, <2>1, <2>3 DEF OpenGoesOn, Waits, Sent
  <2>5. StartedGoesOn(g) => StartedGoesOn(g)'
    BY <1>c, <2>1, <2>2 DEF StartedGoesOn, Waits, Sent
  <2> QED BY <1>a, <2>1, <2>4, <2>5 DEF Supported
<1>15. ASSUME NEW s \in stopping, StopBetsWrite(s)
       PROVE  Supported(g)'
  <2> DEFINE to == IF s.ready THEN "INPROGRESS" ELSE "PENDING"
  <2>1. s.game \in Games /\ to \in States
    BY <1>0 DEF States
  <2>2. UNCHANGED <<known, timer, due>> /\ stopping' = stopping \ {s}
    BY <1>15 DEF StopBetsWrite
  <2>3. \A d \in {"stop", "end"} : HasJob(d, g) => HasJob(d, g)'
    BY <2>2 DEF HasJob
  <2>4. CASE game[s.game] = "OPEN"
    <3>1. game' = [game EXCEPT ![s.game] = to] /\ Announce(s.game, to)
      BY <1>15, <2>4 DEF StopBetsWrite
    <3>2. /\ outbox' = outbox
          /\ toWorker'[Event(s.game, to)] = toWorker[Event(s.game, to)] + 1
          /\ \A f \in Events \ {Event(s.game, to)} : toWorker'[f] = toWorker[f]
      BY <2>1, <3>1, Announced
    <3>3. \A f \in Events : Waits(f) => Waits(f)'
      BY <1>0, <2>1, <3>2, EventTyped DEF Waits
    <3>4. CASE s.game = g
      <4>1. game'[g] = to /\ Waits(Event(g, to))'
        BY <1>0, <1>a, <2>1, <3>1, <3>2, <3>4, EventTyped DEF Waits
      <4> HIDE DEF to, Waits
      <4> QED BY <1>3, <2>1, <4>1
    <3>5. CASE s.game # g
      <4>1. game'[g] = game[g]
        BY <1>0, <3>1, <3>5
      <4>2. \A t \in Active : Waits(Event(g, t)) => Waits(Event(g, t))'
        BY <1>b, <3>3 DEF Active
      <4> HIDE DEF Waits
      <4> QED BY <1>1, <2>2, <2>3, <3>5, <4>1, <4>2 DEF Sent
    <3> QED BY <3>4, <3>5
  <2>5. CASE game[s.game] # "OPEN"
    <3>1. UNCHANGED <<game, outbox, toWorker>>
      BY <1>15, <2>5 DEF StopBetsWrite, kafka
    <3>2. game[g] = "OPEN" => s.game # g
      BY <2>5
    <3>3. game[g] = "OPEN" => (OpenGoesOn(g) => OpenGoesOn(g)')
      BY <1>c, <2>2, <2>3, <3>1, <3>2 DEF OpenGoesOn, Waits, Sent
    <3>4. StartedGoesOn(g) => StartedGoesOn(g)'
      BY <1>c, <2>2, <2>3, <3>1 DEF StartedGoesOn, Waits, Sent
    <3> QED BY <1>a, <3>1, <3>3, <3>4 DEF Supported
  <2> QED BY <2>4, <2>5
<1>16. ASSUME NEW h \in Games, Finalize(h)
       PROVE  Supported(g)'
  <2>1. UNCHANGED <<known, timer, stopping>> /\ due' = due \ {[does |-> "end", game |-> h]}
    BY <1>16 DEF Finalize
  <2>2. /\ HasJob("stop", g) => HasJob("stop", g)'
        /\ h # g => (HasJob("end", g) => HasJob("end", g)')
    BY <2>1 DEF HasJob
  <2>3. CASE h \in known /\ game[h] \in Active
    <3>1. game' = [game EXCEPT ![h] = "PENDING"] /\ Announce(h, "PENDING")
      BY <1>16, <2>3 DEF Finalize
    <3>2. /\ outbox' = outbox
          /\ \A f \in Events \ {Event(h, "PENDING")} : toWorker'[f] = toWorker[f]
      BY <3>1, Announced DEF States
    <3>3. CASE h = g
      BY <1>0, <1>2, <3>1, <3>3 DEF Active
    <3>4. CASE h # g
      <4>1. \A u \in Active : Event(g, u) \in Events \ {Event(h, "PENDING")}
        BY <1>b DEF Active, States
      <4>2. \A u \in Active : Waits(Event(g, u)) => Waits(Event(g, u))'
        BY <3>2, <4>1 DEF Waits
      <4>3. game'[g] = game[g]
        BY <1>0, <3>1, <3>4
      <4> HIDE DEF Waits, HasJob
      <4> QED BY <1>1, <2>1, <2>2, <3>4, <4>2, <4>3 DEF Sent
    <3> QED BY <3>3, <3>4
  <2>4. CASE ~(h \in known /\ game[h] \in Active)
    <3>1. UNCHANGED <<game, outbox, toWorker>>
      BY <1>16, <2>4 DEF Finalize, kafka
    <3>2. OpenGoesOn(g) => OpenGoesOn(g)'
      BY <1>c, <2>1, <2>2, <3>1 DEF OpenGoesOn, Waits, Sent
    <3>3. game[g] = "INPROGRESS" => (StartedGoesOn(g) => StartedGoesOn(g)')
      BY <1>c, <2>1, <2>2, <2>4, <3>1 DEF StartedGoesOn, Waits, Active, Sent
    <3> QED BY <1>a, <3>1, <3>2, <3>3 DEF Supported
  <2> QED BY <2>3, <2>4
<1>17. ASSUME NEW h \in Games, WorkerFails(h)
       PROVE  Supported(g)'
  BY <1>0, <1>17 DEF WorkerFails
<1>19. ASSUME NEW e \in outbox, Publish(e)
       PROVE  Supported(g)'
  <2>1. UNCHANGED <<game, memory>> /\ \A f \in Events : Waits(f) => Waits(f)'
    BY <1>0, <1>19 DEF Publish, db, memory, Waits
  <2>2. \A t \in Active : Waits(Event(g, t)) => Waits(Event(g, t))'
    BY <1>b, <2>1 DEF Active
  <2> HIDE DEF Waits
  <2> QED BY <1>4, <2>1, <2>2 DEF Sent
<1>18. ASSUME NEW e \in outbox, PublishFails(e)
       PROVE  Supported(g)'
  <2>1. /\ UNCHANGED <<game, memory, toWorker>>
        /\ outbox' = outbox \ {e} /\ lost' = lost \cup {e}
    BY <1>18 DEF PublishFails, db, memory
  <2>2. \A f \in Events : Waits(f) => Sent(f)'
    BY <2>1 DEF Waits, Sent
  <2>3. \A t \in Active : Waits(Event(g, t)) => Sent(Event(g, t))'
    BY <1>b, <2>2 DEF Active
  <2> HIDE DEF Waits, Sent
  <2> QED BY <1>4, <2>1, <2>3
<1>20. \A c \in accepting \cup rejecting : c.game \in Games
  BY DEF Typed, TypeOK, Call
<1> QED
  BY <1>5, <1>7, <1>8, <1>9, <1>10, <1>11, <1>12, <1>13, <1>14, <1>15, <1>16, <1>17, <1>18,
     <1>19, <1>20
  DEF Next, Done, vars, db, memory, kafka, Active, Tick, CountOpen, AcceptRead, RejectRead,
      CallFails, ResolveRead, ResolveFails, GiveRewards, GiveRewardsFails

-----------------------------------------------------------------------------
(* The theorems *)

\* The inductive invariant: what each property rests on.
Inv ==
  /\ Typed /\ Opened
  /\ TwoBets /\ BetsFollow /\ Snapshot /\ ClosedIsSettled
  /\ OneResolver /\ ToldOnce
  /\ EventsFollow /\ AllSupported

\* The invariant holds before anything was done.
LEMMA InvInit == Init => Inv
<1> SUFFICES ASSUME Init PROVE Inv
  OBVIOUS
<1>1. Typed
  BY TypeInit
<1>2. Opened /\ TwoBets
  BY DEF Init, Opened, TwoBets
<1>3. BetsFollow /\ Snapshot /\ ClosedIsSettled /\ OneResolver
  BY DEF Init, BetsFollow, Snapshot, ClosedIsSettled, OneResolver, Over, Reads
<1>4. ToldOnce
  BY DEF Init, ToldOnce, Owed
<1>5. EventsFollow
  BY EventTyped DEF Init, EventsFollow, Waits, States
<1>6. AllSupported
  BY DEF Init, AllSupported, Supported
<1> QED BY <1>1, <1>2, <1>3, <1>4, <1>5, <1>6 DEF Inv

\* Every step keeps the invariant.
LEMMA InvStep == Inv /\ [Next]_vars => Inv'
BY TypeStep, OpenedStep, TwoBetsStep, BetsStep, SnapshotStep, SettledStep, ResolverStep,
   ToldStep, EventsStep, SupportedStep
DEF Inv

\* The invariant holds in every behaviour.
THEOREM InvHolds == Spec => []Inv
BY InvInit, InvStep, PTL DEF Spec

\* The variables of the game have their types.
THEOREM TypeCorrect == Spec => []TypeOK
<1>1. Inv => TypeOK
  BY DEF Inv, Typed
<1> QED BY <1>1, InvHolds, PTL

\* A closed game is settled as a whole, and what one wins the other has lost.
THEOREM SettledWhole == Spec => []ClosedIsSettled
<1>1. Inv => ClosedIsSettled
  BY DEF Inv
<1> QED BY <1>1, InvHolds, PTL

\* A game is paid once, unless two runs of the resolver had it, it was accepted
\* or rejected too late, or Kafka delivers its CLOSE event once more.
THEOREM NotPaidTwice == Spec => []PaidOnce
<1>1. Inv => PaidOnce
  <2> SUFFICES ASSUME Inv, NEW g \in Games \ (overlapped \cup stale),
                      Event(g, "CLOSE") \notin redelivered
               PROVE  ~(paid[g] > 1)
    BY DEF PaidOnce
  <2>1. Owed(g) <= 1 /\ toLedger[g] \in Nat /\ paid[g] \in Nat
    BY DEF Inv, ToldOnce, Typed, TypeOK
  <2> QED BY <2>1 DEF Owed
<1> QED BY <1>1, InvHolds, PTL

\* No active game waits for nothing: what would move it on is there, or the very
\* event that would was lost and the worker not restarted since.
THEOREM NoneStranded == Spec => []NoStrandedGame
<1>1. Inv => NoStrandedGame
  <2> SUFFICES ASSUME Inv, NEW g \in Games \ (stale \cup disordered), game[g] \in Active,
                      ~(faults > 0)
               PROVE  \/ Event(g, game[g]) \in outbox \/ toWorker[Event(g, game[g])] > 0
                      \/ Event(g, game[g]) \in lost
                      \/ g \in known /\ timer[g] # "none"
                      \/ g \in known /\ \E c \in due : c.game = g
                      \/ \E s \in stopping : s.game = g
    BY DEF NoStrandedGame
  <2>1. faults = 0
    BY DEF Inv, Typed, TypeOK
  <2>2. Supported(g)
    BY <2>1 DEF Inv, AllSupported
  <2>3. \A d \in {"stop", "end"} : HasJob(d, g) => timer[g] # "none" \/ \E c \in due : c.game = g
    BY DEF HasJob
  <2> HIDE DEF HasJob
  <2> QED BY <2>2, <2>3 DEF Supported, OpenGoesOn, StartedGoesOn, Waits, Sent, Active
<1> QED BY <1>1, InvHolds, PTL

\* No step takes a game back that was not accepted or rejected too late: a closed
\* game stays so.
THEOREM NeverBack == Spec => [][\A g \in Games \ stale' : Onward(game[g], game'[g])]_vars
<1>1. Inv /\ [Next]_vars => [\A g \in Games \ stale' : Onward(game[g], game'[g])]_vars
  BY GoesOn DEF Inv
<1> QED BY <1>1, InvHolds, PTL DEF Spec
=============================================================================
