--------------------------- MODULE RoundGameProofs ---------------------------
(***************************************************************************)
(* Proofs about RoundGame, for any number of rounds and of failures, any   *)
(* bets and any prices: the result of a bet is final, a closed round has   *)
(* all its bets settled, and no bet is paid twice; and about BullsEye: its *)
(* places are fair, the stakes cover its prizes, and its journals balance. *)
(***************************************************************************)
EXTENDS BullsEye, FiniteSetTheorems, WellFoundedInduction, TLAPS

\* What is counted as a failure can be counted.
Typed == TypeOK /\ IsFiniteSet(redelivered) /\ IsFiniteSet(rolledBack)

\* The states of a round that bets are too late for.
Over == {"PENDING", "CLOSE"}

-----------------------------------------------------------------------------
(* What the helpers of the actions do *)

\* An event of a round.
LEMMA EventTyped ==
  ASSUME NEW g \in Games, NEW s \in States
  PROVE  /\ Event(g, s) \in Events
         /\ Event(g, s).game = g /\ Event(g, s).state = s
BY DEF Event, Events

\* A row is a bet, or there is none.
LEMMA BetOrNone ==
  /\ NoBet \notin Bet /\ NoBet.result = "NONE" /\ NoBet.game = 0
  /\ \A x \in Bet : x.game \in Games /\ x.game # 0 /\ x.result # "NONE"
<1>1. NoBet.result = "NONE" /\ NoBet.game = 0
  BY DEF NoBet
<1>2. \A x \in Bet : x.game \in Games /\ x.game # 0 /\ x.result # "NONE"
  BY NGamesAssumption DEF Bet, Games
<1> QED BY <1>1, <1>2

\* A bet that is moved stays a bet of its round.
LEMMA BetMoved ==
  ASSUME NEW x \in Bet, NEW to \in {"INPROGRESS", "PENDING"}
  PROVE  /\ [x EXCEPT !.result = to] \in Bet
         /\ [x EXCEPT !.result = to].game = x.game
         /\ [x EXCEPT !.result = to].result = to
BY DEF Bet

\* A bet that is settled stays a bet of its round.
LEMMA BetSettled ==
  ASSUME NEW x \in Bet, NEW p \in Prices \cup {NoPrice}
  PROVE  /\ [x EXCEPT !.result = "SETTLED", !.price = p] \in Bet
         /\ [x EXCEPT !.result = "SETTLED", !.price = p].game = x.game
         /\ [x EXCEPT !.result = "SETTLED", !.price = p].result = "SETTLED"
BY DEF Bet

\* An event is taken, or it is to come once more.
LEMMA Taken ==
  ASSUME Typed, NEW e \in Events, TakeFrom(e)
  PROVE  /\ toWorker' \in [Events -> Nat]
         /\ redelivered' \subseteq Events /\ IsFiniteSet(redelivered')
         /\ redelivered \subseteq redelivered'
         /\ toLedger' = toLedger
<1>1. IsFiniteSet(redelivered \cup {e})
  BY FS_AddElement DEF Typed
<1>2. /\ toWorker \in [Events -> Nat] /\ redelivered \subseteq Events
      /\ IsFiniteSet(redelivered)
  BY DEF Typed, TypeOK
<1>3. CASE toWorker' = [toWorker EXCEPT ![e] = @ - 1] /\ UNCHANGED redelivered
  BY <1>2, <1>3 DEF TakeFrom
<1>4. CASE redelivered' = redelivered \cup {e} /\ UNCHANGED toWorker
  BY <1>1, <1>2, <1>4 DEF TakeFrom
<1> QED BY <1>3, <1>4 DEF TakeFrom

\* A timer is set, or its callback is about to run.
LEMMA Scheduled ==
  ASSUME TypeOK, NEW kind \in Timers, NEW g \in Games, ScheduleJob(kind, g)
  PROVE  timer' \in [Timers -> 0..NGames] /\ due' \subseteq Callback
<1>1. timer \in [Timers -> 0..NGames] /\ due \subseteq Callback
  BY DEF TypeOK
<1>2. g \in 0..NGames /\ 0 \in 0..NGames
  BY NGamesAssumption DEF Games
<1>3. [kind |-> kind, game |-> g] \in Callback
  BY DEF Callback
<1>4. CASE Passed(kind, g)
  BY <1>1, <1>2, <1>3, <1>4 DEF ScheduleJob
<1>5. CASE ~Passed(kind, g)
  BY <1>1, <1>2, <1>5 DEF ScheduleJob
<1> QED BY <1>4, <1>5

\* The number of restarts is counted among the failures.
LEMMA FailuresBounded ==
  ASSUME Typed, Failures < MaxFailures
  PROVE  restarts + 1 \in 0..MaxFailures
<1>1. Cardinality(redelivered) \in Nat /\ Cardinality(rolledBack) \in Nat
  BY FS_CardinalityType DEF Typed
<1> QED BY <1>1, FailuresAssumption DEF Typed, TypeOK, Failures

-----------------------------------------------------------------------------
(* What a step does to a bet *)

\* What happens to the row of a bet.
Kept(b) == bet'[b] = bet[b]
Made(b) ==
  /\ CommitBet(b) /\ placing[b] \in Games
  /\ bet'[b] = [game |-> placing[b], result |-> "OPEN", price |-> NoPrice]
Moved(b) ==
  /\ bet[b] \in Bet /\ bet[b].result \in Active
  /\ \E to \in {"INPROGRESS", "PENDING"} : bet'[b] = [bet[b] EXCEPT !.result = to]
SettledBy(r, b) ==
  /\ Resolve(r) /\ game[r.game] = "PENDING" /\ game'[r.game] = "CLOSE" /\ b \in r.bets
  /\ bet[b] \in Bet /\ bet[b].result = "PENDING"
  /\ bet'[b] = [bet[b] EXCEPT !.result = "SETTLED", !.price = r.price]

BetStep(b) == Kept(b) \/ Made(b) \/ Moved(b) \/ \E r \in resolving : SettledBy(r, b)

\* A transaction that moves the bets of a round.
LEMMA MovedBets ==
  ASSUME TypeOK, NEW g \in Games, NEW from \in SUBSET Active,
         NEW to \in {"INPROGRESS", "PENDING"}, MoveBets(g, from, to)
  PROVE  \A b \in Bets : Kept(b) \/ Moved(b)
<1>1. bet \in [Bets -> Bet \cup {NoBet}]
  BY DEF TypeOK
<1>2. ASSUME NEW b \in Bets
      PROVE  Kept(b) \/ Moved(b)
  <2>1. bet'[b] = IF bet[b].game = g /\ bet[b].result \in from
                  THEN [bet[b] EXCEPT !.result = to] ELSE bet[b]
    BY DEF MoveBets
  <2>2. bet[b].game = g => bet[b] \in Bet
    BY <1>1, BetOrNone DEF Games
  <2> QED BY <2>1, <2>2 DEF Kept, Moved
<1> QED BY <1>2

\* No other thing happens to a bet.
LEMMA BetSteps ==
  ASSUME Typed, [Next]_vars
  PROVE  \A b \in Bets : BetStep(b)
<1> DEFINE Goal == \A b \in Bets : BetStep(b)
<1>0. /\ bet \in [Bets -> Bet \cup {NoBet}] /\ placing \in [Bets -> 0..NGames]
      /\ resolving \subseteq Resolution /\ TypeOK
      /\ game \in [Games -> States \cup {"NONE"}]
  BY DEF Typed, TypeOK
<1>1. CASE UNCHANGED bet
  BY <1>1 DEF BetStep, Kept
<1>2. ASSUME NEW b \in Bets, CommitBet(b)
      PROVE  Goal
  <2>1. placing[b] \in Games
    BY <1>0, <1>2, NGamesAssumption DEF CommitBet, Games
  <2>2. bet' = [bet EXCEPT ![b] = [game |-> placing[b], result |-> "OPEN", price |-> NoPrice]]
    BY <1>2 DEF CommitBet
  <2>3. Made(b)
    BY <1>0, <1>2, <2>1, <2>2 DEF Made
  <2>4. \A c \in Bets \ {b} : Kept(c)
    BY <1>0, <2>2 DEF Kept
  <2> QED BY <2>3, <2>4 DEF BetStep
<1>3. ASSUME NEW g \in Games, NEW from \in SUBSET Active, NEW to \in {"INPROGRESS", "PENDING"},
             MoveBets(g, from, to)
      PROVE  Goal
  BY <1>0, <1>3, MovedBets DEF BetStep
<1>4. ASSUME NEW g \in Games, StartGame(g)
      PROVE  Goal
  BY <1>1, <1>3, <1>4 DEF StartGame, Active
<1>5. ASSUME NEW g \in Games, FinishGame(g) \/ BootClose(g)
      PROVE  Goal
  BY <1>3, <1>5 DEF FinishGame, BootClose, MoveGameToPendingState
<1>6. ASSUME NEW r \in resolving, Resolve(r)
      PROVE  Goal
  <2>1. CASE game[r.game] = "PENDING" /\ \A b \in r.bets : bet[b].result = "PENDING"
    <3>1. bet' = [b \in Bets |->
                    IF b \in r.bets THEN [bet[b] EXCEPT !.result = "SETTLED", !.price = r.price]
                    ELSE bet[b]]
      BY <1>6, <2>1 DEF Resolve, Settle
    <3>2. r.game \in Games /\ game'[r.game] = "CLOSE"
      BY <1>0, <1>6, <2>1 DEF Resolve, Resolution
    <3>3. \A b \in Bets : b \in r.bets => bet[b] \in Bet
      BY <1>0, <2>1, BetOrNone
    <3>4. \A b \in Bets : b \in r.bets => SettledBy(r, b)
      BY <1>6, <2>1, <3>1, <3>2, <3>3 DEF SettledBy
    <3>5. \A b \in Bets : b \notin r.bets => Kept(b)
      BY <3>1 DEF Kept
    <3> QED BY <3>4, <3>5 DEF BetStep
  <2>2. CASE ~(game[r.game] = "PENDING" /\ \A b \in r.bets : bet[b].result = "PENDING")
    BY <1>1, <1>6, <2>2 DEF Resolve
  <2> QED BY <2>1, <2>2
<1> QED
  BY <1>1, <1>2, <1>4, <1>5, <1>6
  DEF Next, Worker, Done, vars, db, Tick, BeginBet, AbortBet, Publish, TimerFires,
      OnOpenedOrStarted, OnClosed, CreateNext, Crash, BootFind, BootEnd, OnPending,
      GiveRewards, RollBackRewards

-----------------------------------------------------------------------------
(* Types *)

\* The variables start with their types.
LEMMA TypeInit == Init => Typed
<1> SUFFICES ASSUME Init PROVE Typed
  OBVIOUS
<1>1. IsFiniteSet(redelivered) /\ IsFiniteSet(rolledBack)
  BY FS_EmptySet DEF Init
<1> QED BY <1>1, NGamesAssumption, FailuresAssumption DEF Init, Typed, TypeOK, Boot

\* A round is created, or there is no place for it.
LEMMA CreatedTyped ==
  ASSUME TypeOK, CreateGame
  PROVE  /\ game' \in [Games -> States \cup {"NONE"}]
         /\ current' \in 0..NGames /\ outbox' \subseteq Events
         /\ \A g \in Games : game'[g] = game[g] \/ (game[g] = "NONE" /\ game'[g] = "OPEN")
         /\ \A e \in outbox' : e \in outbox \/ \E g \in Games : e = Event(g, "OPEN")
<1>1. /\ game \in [Games -> States \cup {"NONE"}] /\ current \in 0..NGames
      /\ outbox \subseteq Events
  BY DEF TypeOK
<1>2. CASE UNCHANGED <<game, current, outbox>>
  BY <1>1, <1>2
<1>3. ASSUME NEW g \in Games, game[g] = "NONE", game' = [game EXCEPT ![g] = "OPEN"],
             current' = g, outbox' = outbox \cup {Event(g, "OPEN")}
      PROVE  /\ game' \in [Games -> States \cup {"NONE"}]
             /\ current' \in 0..NGames /\ outbox' \subseteq Events
             /\ \A h \in Games : game'[h] = game[h] \/ (game[h] = "NONE" /\ game'[h] = "OPEN")
             /\ \A e \in outbox' : e \in outbox \/ \E h \in Games : e = Event(h, "OPEN")
  <2>1. g \in 0..NGames /\ "OPEN" \in States /\ Event(g, "OPEN") \in Events
    BY NGamesAssumption, EventTyped DEF Games, States
  <2> QED BY <1>1, <1>3, <2>1
<1> QED BY <1>2, <1>3 DEF CreateGame

\* Every step keeps the types.
LEMMA TypeStep == Typed /\ [Next]_vars => Typed'
<1> SUFFICES ASSUME Typed, [Next]_vars PROVE Typed'
  OBVIOUS
<1> USE DEF Typed, TypeOK
<1>a. bet' \in [Bets -> Bet \cup {NoBet}]
  <2>1. bet' = bet \/ bet' = [b \in Bets |-> bet'[b]]
    BY DEF Next, Worker, Done, vars, db, Tick, BeginBet, AbortBet, CommitBet, Publish,
        TimerFires, OnOpenedOrStarted, OnClosed, CreateNext, Crash, BootFind, BootEnd,
        OnPending, GiveRewards, RollBackRewards, StartGame, FinishGame, BootClose,
        MoveGameToPendingState, MoveBets, Resolve, Settle
  <2>2. ASSUME NEW b \in Bets
        PROVE  bet'[b] \in Bet \cup {NoBet}
    <3>1. BetStep(b) /\ bet[b] \in Bet \cup {NoBet}
      BY BetSteps
    <3>2. ASSUME Made(b)
          PROVE  bet'[b] \in Bet
      BY <3>2 DEF Made, Bet
    <3>3. ASSUME NEW r \in resolving, SettledBy(r, b)
          PROVE  bet'[b] \in Bet
      <4>1. r.price \in Prices \cup {NoPrice}
        BY DEF Resolution
      <4>2. /\ bet[b] \in Bet
            /\ bet'[b] = [bet[b] EXCEPT !.result = "SETTLED", !.price = r.price]
        BY <3>3 DEF SettledBy
      <4> QED BY <4>1, <4>2 DEF Bet
    <3> QED BY <3>1, <3>2, <3>3, BetMoved DEF BetStep, Kept, Moved
  <2> QED BY <2>1, <2>2
<1>1. CASE UNCHANGED vars
  BY <1>1 DEF vars
<1>2. ASSUME NEW g \in Games, Tick(g)
      PROVE  Typed'
  <2>1. phase' \in [Games -> {"bets", "play", "over"}]
    BY <1>2 DEF Tick
  <2> QED BY <1>2, <2>1 DEF Tick, db, kafka, memory, history
<1>3. ASSUME NEW b \in Bets, BeginBet(b) \/ AbortBet(b)
      PROVE  Typed'
  <2>1. placing' \in [Bets -> 0..NGames]
    BY <1>3, NGamesAssumption DEF BeginBet, AbortBet
  <2> QED BY <1>3, <2>1 DEF BeginBet, AbortBet, db, kafka, memory, history
<1>4. ASSUME NEW b \in Bets, CommitBet(b)
      PROVE  Typed'
  <2>1. placing' \in [Bets -> 0..NGames] /\ late' \subseteq Bets
    BY <1>4, NGamesAssumption DEF CommitBet
  <2> QED BY <1>4, <1>a, <2>1 DEF CommitBet, kafka, memory
<1>5. ASSUME NEW g \in Games, NEW k \in Timers, OnOpenedOrStarted(g, k)
      PROVE  Typed'
  <2>1. Event(g, k) \in Events
    BY EventTyped DEF Timers, States
  <2>2. /\ toWorker' \in [Events -> Nat] /\ redelivered' \subseteq Events
        /\ IsFiniteSet(redelivered') /\ toLedger' = toLedger
    BY <1>5, <2>1, Taken DEF OnOpenedOrStarted
  <2>3. timer' \in [Timers -> 0..NGames] /\ due' \subseteq Callback
    BY <1>5, Scheduled DEF OnOpenedOrStarted
  <2> QED BY <1>5, <2>2, <2>3 DEF OnOpenedOrStarted, db, history
<1>6. ASSUME NEW k \in Timers, TimerFires(k)
      PROVE  Typed'
  <2>1. timer[k] \in Games
    BY <1>6, NGamesAssumption DEF TimerFires, Games
  <2>2. timer' \in [Timers -> 0..NGames] /\ due' \subseteq Callback
    BY <1>6, <2>1, NGamesAssumption DEF TimerFires, Callback
  <2> QED BY <1>6, <2>2 DEF TimerFires, db, kafka, history
<1>7. ASSUME NEW g \in Games, StartGame(g)
      PROVE  Typed'
  <2>1. game' \in [Games -> States \cup {"NONE"}] /\ outbox' \subseteq Events
    BY <1>7, EventTyped DEF StartGame, States
  <2> QED BY <1>7, <1>a, <2>1 DEF StartGame, kafka, history
<1>8. ASSUME NEW g \in Games, FinishGame(g)
      PROVE  Typed'
  <2>1. PICK p \in Prices : MoveGameToPendingState(g, p)
    BY <1>8 DEF FinishGame
  <2>2. /\ game' \in [Games -> States \cup {"NONE"}]
        /\ endPrice' \in [Games -> Prices \cup {NoPrice}]
    BY <2>1 DEF MoveGameToPendingState, States
  <2>3. outbox' \subseteq Events /\ due' \subseteq due
    BY <1>8, EventTyped DEF FinishGame, States
  <2> QED BY <1>8, <1>a, <2>2, <2>3 DEF FinishGame, kafka, history
<1>9. ASSUME NEW g \in Games, OnClosed(g)
      PROVE  Typed'
  <2>1. Event(g, "CLOSE") \in Events
    BY EventTyped DEF States
  <2>2. /\ toWorker' \in [Events -> Nat] /\ redelivered' \subseteq Events
        /\ IsFiniteSet(redelivered') /\ toLedger' = toLedger
    BY <1>9, <2>1, Taken DEF OnClosed
  <2> QED BY <1>9, <2>2 DEF OnClosed, db, history
<1>10. CASE CreateNext
  <2>1. /\ game' \in [Games -> States \cup {"NONE"}]
        /\ current' \in 0..NGames /\ outbox' \subseteq Events
    BY <1>10, CreatedTyped DEF CreateNext
  <2>2. creating' \in Nat
    BY <1>10 DEF CreateNext
  <2> QED BY <1>10, <2>1, <2>2 DEF CreateNext, kafka, history
<1>11. CASE Crash
  <2>1. restarts' \in 0..MaxFailures
    BY <1>11, FailuresBounded DEF Crash
  <2>2. toWorker' \in [Events -> Nat]
    BY <1>11 DEF Crash
  <2>3. timer' \in [Timers -> 0..NGames] /\ booting' \in Boot
    BY <1>11, NGamesAssumption DEF Crash, Boot
  <2> QED BY <1>11, <2>1, <2>2, <2>3 DEF Crash, db
<1>12. CASE BootFind
  <2>1. booting' \in Boot
    BY <1>12 DEF BootFind, Boot
  <2> QED BY <1>12, <2>1 DEF BootFind, db, kafka, history
<1>13. ASSUME NEW g \in Games, BootClose(g)
       PROVE  Typed'
  <2>1. booting' \in Boot
    BY <1>13 DEF BootClose, Boot
  <2>2. /\ game' \in [Games -> States \cup {"NONE"}]
        /\ endPrice' \in [Games -> Prices \cup {NoPrice}]
        /\ outbox' \subseteq Events
    BY <1>13, EventTyped DEF BootClose, MoveGameToPendingState, States
  <2> QED BY <1>13, <1>a, <2>1, <2>2 DEF BootClose, kafka, history
<1>14. CASE BootEnd
  <2>1. /\ game' \in [Games -> States \cup {"NONE"}]
        /\ current' \in 0..NGames /\ outbox' \subseteq Events
    BY <1>14, CreatedTyped DEF BootEnd
  <2>2. booting' \in Boot
    BY <1>14 DEF BootEnd, Boot
  <2> QED BY <1>14, <2>1, <2>2 DEF BootEnd, kafka, history
<1>15. ASSUME NEW g \in Games, OnPending(g)
       PROVE  Typed'
  <2>1. Event(g, "PENDING") \in Events
    BY EventTyped DEF States
  <2>2. /\ toWorker' \in [Events -> Nat] /\ redelivered' \subseteq Events
        /\ IsFiniteSet(redelivered') /\ toLedger' = toLedger
    BY <1>15, <2>1, Taken DEF OnPending
  <2>3. [game |-> g, bets |-> BetsOf(g), price |-> endPrice[g]] \in Resolution
    BY DEF Resolution, BetsOf
  <2> QED BY <1>15, <2>2, <2>3 DEF OnPending, db, history
<1>16. ASSUME NEW r \in resolving, Resolve(r)
       PROVE  Typed'
  <2>1. r.game \in Games
    BY DEF Resolution
  <2>2. game' \in [Games -> States \cup {"NONE"}] /\ outbox' \subseteq Events
    BY <1>16, <2>1, EventTyped DEF Resolve, States
  <2> QED BY <1>16, <1>a, <2>2 DEF Resolve, kafka, history
<1>17. ASSUME NEW e \in outbox, Publish(e)
       PROVE  Typed'
  <2>1. e \in Events /\ e.game \in Games
    BY DEF Events
  <2>2. toLedger' \in [Games -> Nat] /\ toWorker' \in [Events -> Nat] /\ outbox' \subseteq Events
    BY <1>17, <2>1 DEF Publish
  <2> QED BY <1>17, <2>2 DEF Publish, db, history
<1>18. ASSUME NEW g \in Games, GiveRewards(g)
       PROVE  Typed'
  <2>1. IsFiniteSet(redelivered \cup {Event(g, "CLOSE")}) /\ Event(g, "CLOSE") \in Events
    BY FS_AddElement, EventTyped DEF States
  <2>2. /\ redelivered' \subseteq Events /\ IsFiniteSet(redelivered')
        /\ toLedger' \in [Games -> Nat] /\ toWorker' = toWorker
    <3>1. TakeClose(g)
      BY <1>18 DEF GiveRewards
    <3>2. toLedger \in [Games -> Nat] /\ redelivered \subseteq Events /\ IsFiniteSet(redelivered)
      OBVIOUS
    <3>3. redelivered' = redelivered \/ redelivered' = redelivered \cup {Event(g, "CLOSE")}
      BY <3>1 DEF TakeClose
    <3>4. toLedger' \in [Games -> Nat]
      BY <3>1, <3>2 DEF TakeClose
    <3>5. toWorker' = toWorker
      BY <3>1 DEF TakeClose
    <3> QED BY <2>1, <3>2, <3>3, <3>4, <3>5
  <2>3. paid' \in [Bets -> Nat]
    BY <1>18 DEF GiveRewards
  <2> QED BY <1>18, <2>2, <2>3 DEF GiveRewards, db, memory, history
<1>19. ASSUME NEW g \in Games, RollBackRewards(g)
       PROVE  Typed'
  <2>1. IsFiniteSet(rolledBack \cup {g})
    BY FS_AddElement
  <2>2. /\ rolledBack' \subseteq Games /\ IsFiniteSet(rolledBack')
        /\ toLedger' \in [Games -> Nat]
    BY <1>19, <2>1 DEF RollBackRewards
  <2> QED BY <1>19, <2>2 DEF RollBackRewards, db, memory
<1> QED BY <1>1, <1>2, <1>3, <1>4, <1>5, <1>6, <1>7, <1>8, <1>9, <1>10, <1>11, <1>12,
           <1>13, <1>14, <1>15, <1>16, <1>17, <1>18, <1>19
        DEF Next, Worker, Done

-----------------------------------------------------------------------------
(* What a step does to a round, and to what the ledger is told of it *)

\* What the ledger is owed of a round.
Told(g) == (IF Event(g, "CLOSE") \in outbox THEN 1 ELSE 0) + toLedger[g]

\* A round is closed: the bets that were read, and were all PENDING, get their
\* results.
Closing(r) ==
  /\ Resolve(r)
  /\ game[r.game] = "PENDING" /\ game'[r.game] = "CLOSE"
  /\ \A b \in r.bets : bet[b].result = "PENDING" /\ bet'[b].result = "SETTLED"
  /\ Told(r.game)' <= Told(r.game) + 1 /\ paid' = paid

IsClosing(g) == \E r \in resolving : r.game = g /\ Closing(r)

\* A resolver that finds what it read closes its round, any other does nothing.
LEMMA ResolveCloses ==
  ASSUME Typed, NEW r \in resolving, Resolve(r)
  PROVE  \/ /\ Closing(r)
            /\ \A g \in Games \ {r.game} : game'[g] = game[g] /\ Told(g)' = Told(g)
         \/ UNCHANGED <<game, bet, outbox, toLedger>>
<1>0. /\ r.game \in Games /\ r.bets \subseteq Bets
      /\ game \in [Games -> States \cup {"NONE"}] /\ bet \in [Bets -> Bet \cup {NoBet}]
      /\ toLedger' = toLedger /\ toLedger \in [Games -> Nat] /\ paid' = paid
  BY DEF Typed, TypeOK, Resolution, Resolve, kafka
<1>1. CASE game[r.game] = "PENDING" /\ \A b \in r.bets : bet[b].result = "PENDING"
  <2>1. /\ game' = [game EXCEPT ![r.game] = "CLOSE"]
        /\ bet' = [b \in Bets |->
             IF b \in r.bets THEN [bet[b] EXCEPT !.result = "SETTLED", !.price = r.price]
             ELSE bet[b]]
        /\ outbox' = outbox \cup {Event(r.game, "CLOSE")}
    BY <1>1 DEF Resolve, Settle
  <2>2. ASSUME NEW b \in r.bets
        PROVE  bet'[b].result = "SETTLED"
    <3>1. bet[b] \in Bet
      BY <1>0, <1>1, BetOrNone
    <3>2. bet'[b] = [bet[b] EXCEPT !.result = "SETTLED", !.price = r.price]
      BY <1>0, <2>1
    <3> QED BY <3>1, <3>2 DEF Bet
  <2>3. Told(r.game)' <= Told(r.game) + 1
    <3>1. toLedger'[r.game] = toLedger[r.game] /\ toLedger[r.game] \in Nat
      BY <1>0
    <3> QED BY <3>1 DEF Told
  <2>4. Closing(r)
    BY <1>0, <1>1, <2>1, <2>2, <2>3 DEF Closing
  <2>5. ASSUME NEW g \in Games \ {r.game}
        PROVE  game'[g] = game[g] /\ Told(g)' = Told(g)
    <3>1. Event(r.game, "CLOSE") # Event(g, "CLOSE")
      BY <1>0, EventTyped DEF States
    <3> QED BY <1>0, <2>1, <3>1 DEF Told
  <2> QED BY <2>4, <2>5
<1>2. CASE ~(game[r.game] = "PENDING" /\ \A b \in r.bets : bet[b].result = "PENDING")
  BY <1>0, <1>2 DEF Resolve
<1> QED BY <1>1, <1>2

\* A round that is over stays over, and only a resolver closes one.
LEMMA RoundSteps ==
  ASSUME Typed, [Next]_vars
  PROVE  \A g \in Games :
           /\ game[g] \in Over => game'[g] \in Over
           /\ game'[g] = "CLOSE" => game[g] = "CLOSE" \/ IsClosing(g)
<1> DEFINE Goal == \A h \in Games : /\ game[h] \in Over => game'[h] \in Over
                                    /\ game'[h] = "CLOSE" => game[h] = "CLOSE" \/ IsClosing(h)
<1>0. game \in [Games -> States \cup {"NONE"}] /\ TypeOK
  BY DEF Typed, TypeOK
<1>1. CASE UNCHANGED game
  BY <1>1
<1>2. ASSUME NEW g \in Games, StartGame(g)
      PROVE  Goal
  BY <1>0, <1>2 DEF StartGame, Over
<1>3. ASSUME NEW g \in Games, FinishGame(g) \/ BootClose(g)
      PROVE  Goal
  <2>1. game' = [game EXCEPT ![g] = "PENDING"]
    BY <1>3 DEF FinishGame, BootClose, MoveGameToPendingState
  <2> QED BY <1>0, <2>1 DEF Over
<1>4. ASSUME CreateNext \/ BootEnd
      PROVE  Goal
  <2>1. \A g \in Games : game'[g] = game[g] \/ (game[g] = "NONE" /\ game'[g] = "OPEN")
    BY <1>0, <1>4, CreatedTyped DEF CreateNext, BootEnd
  <2> QED BY <2>1 DEF Over
<1>5. ASSUME NEW r \in resolving, Resolve(r)
      PROVE  Goal
  <2>1. CASE UNCHANGED game
    BY <2>1
  <2>2. CASE Closing(r) /\ \A g \in Games \ {r.game} : game'[g] = game[g]
    <3>1. IsClosing(r.game) /\ game'[r.game] = "CLOSE"
      BY <2>2 DEF IsClosing, Closing
    <3> QED BY <2>2, <3>1 DEF Over
  <2> QED BY <1>5, <2>1, <2>2, ResolveCloses
<1> QED
  BY <1>1, <1>2, <1>3, <1>4, <1>5
  DEF Next, Worker, Done, vars, db, Tick, BeginBet, CommitBet, AbortBet, Publish, TimerFires,
      OnOpenedOrStarted, OnClosed, Crash, BootFind, OnPending, GiveRewards, RollBackRewards

\* Only a resolver that closes a round has more to tell the ledger.
LEMMA ToldSteps ==
  ASSUME Typed, [Next]_vars
  PROVE  \A g \in Games : Told(g)' <= Told(g) \/ IsClosing(g)
<1> DEFINE Goal == \A h \in Games : Told(h)' <= Told(h) \/ IsClosing(h)
<1>0. /\ toLedger \in [Games -> Nat] /\ outbox \subseteq Events /\ TypeOK
      /\ \A g \in Games : Told(g) \in Nat
  BY DEF Typed, TypeOK, Told
<1>1. ASSUME UNCHANGED toLedger,
             \A g \in Games : Event(g, "CLOSE") \in outbox' => Event(g, "CLOSE") \in outbox
      PROVE  Goal
  BY <1>0, <1>1 DEF Told
<1>2. CASE UNCHANGED <<toLedger, outbox>>
  BY <1>1, <1>2
<1>3. ASSUME NEW g \in Games, NEW t \in States \ {"CLOSE"}, outbox' = outbox \cup {Event(g, t)},
             UNCHANGED toLedger
      PROVE  Goal
  <2>1. \A h \in Games : Event(g, t) # Event(h, "CLOSE")
    BY EventTyped DEF States
  <2> QED BY <1>1, <1>3, <2>1
<1>4. ASSUME NEW g \in Games, StartGame(g) \/ FinishGame(g) \/ BootClose(g)
      PROVE  Goal
  BY <1>2, <1>3, <1>4 DEF StartGame, FinishGame, BootClose, States, kafka
<1>5. ASSUME CreateNext \/ BootEnd
      PROVE  Goal
  <2>1. \A e \in outbox' : e \in outbox \/ \E g \in Games : e = Event(g, "OPEN")
    BY <1>0, <1>5, CreatedTyped DEF CreateNext, BootEnd
  <2>2. \A g, h \in Games : Event(g, "CLOSE") # Event(h, "OPEN")
    BY EventTyped DEF States
  <2>3. toLedger' = toLedger
    BY <1>5 DEF CreateNext, BootEnd, kafka
  <2> QED BY <1>1, <2>1, <2>2, <2>3
<1>6. ASSUME NEW r \in resolving, Resolve(r)
      PROVE  Goal
  <2>1. CASE UNCHANGED <<game, bet, outbox, toLedger>>
    BY <1>2, <2>1
  <2>2. CASE Closing(r) /\ \A g \in Games \ {r.game} : Told(g)' = Told(g)
    <3>1. IsClosing(r.game)
      BY <2>2 DEF IsClosing
    <3> QED BY <1>0, <2>2, <3>1
  <2> QED BY <1>6, <2>1, <2>2, ResolveCloses
<1>7. ASSUME NEW e \in outbox, Publish(e)
      PROVE  Goal
  <2>1. e \in Events /\ e.game \in Games /\ e = Event(e.game, e.state) /\ outbox' = outbox \ {e}
    BY <1>0, <1>7 DEF Events, Event, Publish
  <2>2. ASSUME NEW g \in Games
        PROVE  Told(g)' = Told(g)
    <3>1. CASE e = Event(g, "CLOSE")
      <4>1. e.game = g /\ e.state = "CLOSE"
        BY <3>1, EventTyped DEF States
      <4>2. toLedger'[g] = toLedger[g] + 1
        BY <1>0, <1>7, <4>1 DEF Publish
      <4>3. Event(g, "CLOSE") \in outbox /\ Event(g, "CLOSE") \notin outbox'
        BY <2>1, <3>1
      <4> QED BY <1>0, <4>2, <4>3 DEF Told
    <3>2. CASE e # Event(g, "CLOSE")
      <4>1. e.state = "CLOSE" => e.game # g
        BY <2>1, <3>2
      <4>2. toLedger'[g] = toLedger[g]
        BY <1>0, <1>7, <2>1, <4>1 DEF Publish
      <4> QED BY <2>1, <3>2, <4>2 DEF Told
    <3> QED BY <3>1, <3>2
  <2> QED BY <1>0, <2>2
<1>8. ASSUME NEW g \in Games, GiveRewards(g) \/ RollBackRewards(g)
      PROVE  Goal
  <2>1. outbox' = outbox /\ (toLedger' = toLedger \/ toLedger' = [toLedger EXCEPT ![g] = @ - 1])
    BY <1>8 DEF GiveRewards, TakeClose, RollBackRewards, memory
  <2> QED BY <1>0, <2>1 DEF Told
<1>9. CASE Crash
  BY <1>1, <1>9 DEF Crash
<1> QED
  BY <1>2, <1>4, <1>5, <1>6, <1>7, <1>8, <1>9
  DEF Next, Worker, Done, vars, kafka, memory, TakeFrom, Tick, BeginBet, CommitBet, AbortBet,
      TimerFires, OnOpenedOrStarted, OnClosed, BootFind, OnPending

\* A bet is paid when the ledger is told of its round, once for every time.
LEMMA PaidSteps ==
  ASSUME Typed, [Next]_vars, NEW b \in Bets, NEW h, bet[b].game = h
  PROVE  \/ paid'[b] = paid[b]
         \/ /\ bet[b].result = "SETTLED" /\ bet' = bet
            /\ paid'[b] = paid[b] + 1
            /\ Told(h)' + 1 = Told(h) \/ Event(h, "CLOSE") \in redelivered'
<1>0. toLedger \in [Games -> Nat] /\ paid \in [Bets -> Nat]
  BY DEF Typed, TypeOK
<1>1. CASE UNCHANGED paid
  BY <1>1
<1>2. ASSUME NEW g \in Games, GiveRewards(g), b \in SettledBetsOf(g)
      PROVE  /\ bet[b].result = "SETTLED" /\ bet' = bet /\ bet[b].game = g
             /\ paid'[b] = paid[b] + 1
             /\ Told(g)' + 1 = Told(g) \/ Event(g, "CLOSE") \in redelivered'
  <2>1. /\ bet[b].result = "SETTLED" /\ bet' = bet /\ bet[b].game = g /\ outbox' = outbox
        /\ paid'[b] = paid[b] + 1
    BY <1>2 DEF GiveRewards, SettledBetsOf, BetsOf, db, memory
  <2>2. TakeClose(g)
    BY <1>2 DEF GiveRewards
  <2>3. \/ toLedger'[g] = toLedger[g] - 1 /\ toLedger[g] > 0
        \/ Event(g, "CLOSE") \in redelivered'
    BY <1>0, <2>2 DEF TakeClose
  <2> QED BY <1>0, <2>1, <2>3 DEF Told
<1>3. ASSUME NEW g \in Games, GiveRewards(g), b \notin SettledBetsOf(g)
      PROVE  paid'[b] = paid[b]
  BY <1>3 DEF GiveRewards
<1>4. UNCHANGED paid \/ \E g \in Games : GiveRewards(g)
  BY DEF Next, Worker, Done, vars, Tick, BeginBet, CommitBet, AbortBet, Publish, TimerFires,
      OnOpenedOrStarted, OnClosed, CreateNext, Crash, BootFind, BootEnd, BootClose, OnPending,
      StartGame, FinishGame, Resolve, RollBackRewards
<1> QED BY <1>1, <1>2, <1>3, <1>4

\* What was late or delivered again stays so.
LEMMA HistoryGrows ==
  ASSUME [Next]_vars
  PROVE  late \subseteq late' /\ redelivered \subseteq redelivered'
<1>1. late \subseteq late'
  BY DEF Next, Worker, Done, vars, history, Tick, BeginBet, CommitBet, AbortBet, Publish,
      TimerFires, OnOpenedOrStarted, OnClosed, CreateNext, Crash, BootFind, BootEnd,
      BootClose, OnPending, StartGame, FinishGame, Resolve, GiveRewards, RollBackRewards
<1>2. redelivered \subseteq redelivered'
  BY DEF Next, Worker, Done, vars, kafka, Tick, BeginBet, CommitBet, AbortBet, Publish,
      TimerFires, OnOpenedOrStarted, OnClosed, CreateNext, Crash, BootFind, BootEnd,
      BootClose, OnPending, StartGame, FinishGame, Resolve, GiveRewards, RollBackRewards,
      TakeFrom, TakeClose
<1> QED BY <1>1, <1>2

-----------------------------------------------------------------------------
(* The result of a bet is final *)

\* The transaction of a bet has not written its row, and without a row nothing
\* is paid.
Placed ==
  \A b \in Bets :
    /\ placing[b] # 0 => bet[b] = NoBet
    /\ bet[b] = NoBet => paid[b] = 0

\* A step that keeps the row of no bet empty keeps it so.
LEMMA RowStays ==
  ASSUME Typed, [Next]_vars, NEW b \in Bets, bet'[b] = NoBet
  PROVE  bet[b] = NoBet
<1>1. BetStep(b)
  BY BetSteps
<1>2. ~Made(b)
  BY BetOrNone DEF Made
<1>3. ~Moved(b)
  BY BetMoved, BetOrNone DEF Moved
<1>4. ASSUME NEW r \in resolving, SettledBy(r, b)
      PROVE  FALSE
  <2>1. bet[b] \in Bet /\ bet'[b] = [bet[b] EXCEPT !.result = "SETTLED", !.price = r.price]
    BY <1>4 DEF SettledBy
  <2>2. bet'[b].result = "SETTLED"
    BY <2>1 DEF Bet
  <2> QED BY <2>2, BetOrNone
<1> QED BY <1>1, <1>2, <1>3, <1>4 DEF BetStep, Kept

\* Every step keeps that.
LEMMA PlacedStep == Typed /\ Placed /\ [Next]_vars => Placed'
<1> SUFFICES ASSUME Typed, Placed, [Next]_vars, NEW b \in Bets
             PROVE  /\ placing'[b] # 0 => bet'[b] = NoBet
                    /\ bet'[b] = NoBet => paid'[b] = 0
  BY DEF Placed
<1>0. /\ bet \in [Bets -> Bet \cup {NoBet}] /\ placing \in [Bets -> 0..NGames]
  BY DEF Typed, TypeOK
<1>1. placing'[b] # 0 => bet'[b] = NoBet
  <2>1. CASE placing'[b] # 0 /\ placing[b] # 0
    <3>1. ~CommitBet(b)
      BY <1>0, <2>1 DEF CommitBet
    <3>2. BetStep(b) /\ bet[b] = NoBet
      BY <2>1, BetSteps DEF Placed
    <3> QED BY <3>1, <3>2, BetOrNone DEF BetStep, Kept, Made, Moved, SettledBy
  <2>2. ASSUME NEW c \in Bets, BeginBet(c)
        PROVE  bet' = bet /\ bet[c] = NoBet /\ \A d \in Bets \ {c} : placing'[d] = placing[d]
    BY <1>0, <2>2 DEF BeginBet, db
  <2>3. ASSUME NEW c \in Bets, CommitBet(c) \/ AbortBet(c)
        PROVE  placing'[b] = placing[b] \/ placing'[b] = 0
    BY <1>0, <2>3 DEF CommitBet, AbortBet
  <2>4. placing' = placing \/ \E c \in Bets : BeginBet(c) \/ CommitBet(c) \/ AbortBet(c)
    BY DEF Next, Worker, Done, vars, Tick, Publish, TimerFires, OnOpenedOrStarted, OnClosed,
        CreateNext, Crash, BootFind, BootEnd, BootClose, OnPending, StartGame, FinishGame,
        Resolve, GiveRewards, RollBackRewards
  <2> QED BY <2>1, <2>2, <2>3, <2>4
<1>2. bet'[b] = NoBet => paid'[b] = 0
  BY RowStays, PaidSteps, BetOrNone DEF Placed
<1> QED BY <1>1, <1>2

\* A settled bet is not written again.
LEMMA FinalStep ==
  ASSUME Typed, Placed, [Next]_vars, NEW b \in Bets, bet[b].result = "SETTLED"
  PROVE  bet'[b] = bet[b]
<1>1. BetStep(b)
  BY BetSteps
<1>2. ~Made(b)
  BY BetOrNone DEF Made, CommitBet, Placed
<1> QED BY <1>1, <1>2 DEF BetStep, Kept, Moved, SettledBy, Active

-----------------------------------------------------------------------------
(* A closed round has its bets settled *)

\* The ledger is told of a round, and a resolver reads it, when it is over.
Ended ==
  /\ \A g \in Games : game[g] \notin Over => Told(g) = 0
  /\ \A r \in resolving : game[r.game] \in Over

\* A resolver has read all bets of its round but those that came too late.
Snapshot == \A r \in resolving : BetsOf(r.game) \ late \subseteq r.bets

\* Every step keeps that rounds are over when they are told of and read.
LEMMA EndedStep == Typed /\ Ended /\ [Next]_vars => Ended'
<1> SUFFICES ASSUME Typed, Ended, [Next]_vars PROVE Ended'
  OBVIOUS
<1>0. resolving \subseteq Resolution /\ \A r \in Resolution : r.game \in Games
  BY DEF Typed, TypeOK, Resolution
<1>1. \A g \in Games : game'[g] \notin Over => Told(g)' = 0
  <2> SUFFICES ASSUME NEW g \in Games, game'[g] \notin Over
               PROVE  Told(g)' = 0
    OBVIOUS
  <2>1. Typed'
    BY TypeStep
  <2>2. Told(g)' \in Nat
    BY <2>1 DEF Typed, TypeOK, Told
  <2>3. ~IsClosing(g)
    BY DEF IsClosing, Closing, Over
  <2>4. Told(g) = 0
    BY RoundSteps DEF Ended
  <2>5. Told(g)' <= Told(g)
    BY <2>3, ToldSteps
  <2> QED BY <2>2, <2>4, <2>5
<1>2. \A r \in resolving' : r \in resolving \/ (r.game \in Games /\ game[r.game] = "PENDING")
  <2>1. ASSUME NEW g \in Games, OnPending(g), NEW r \in resolving'
        PROVE  r \in resolving \/ (r.game \in Games /\ game[r.game] = "PENDING")
    BY <2>1 DEF OnPending
  <2>2. resolving' \subseteq resolving \/ \E g \in Games : OnPending(g)
    BY DEF Next, Worker, Done, vars, memory, Tick, BeginBet, CommitBet, AbortBet, Publish,
        TimerFires, OnOpenedOrStarted, OnClosed, CreateNext, Crash, BootFind, BootEnd,
        BootClose, StartGame, FinishGame, Resolve, GiveRewards, RollBackRewards
  <2> QED BY <2>1, <2>2
<1>3. \A r \in resolving' : game'[r.game] \in Over
  <2> TAKE r \in resolving'
  <2>1. r.game \in Games /\ game[r.game] \in Over
    BY <1>0, <1>2 DEF Ended, Over
  <2> QED BY <2>1, RoundSteps
<1> QED BY <1>1, <1>3 DEF Ended

\* A bet that is made is made for a round that is not over, or it is late.
LEMMA MadeInTime ==
  ASSUME Typed, NEW b \in Bets, Made(b)
  PROVE  /\ bet'[b].game = placing[b] /\ bet'[b].result = "OPEN" /\ placing[b] \in Games
         /\ UNCHANGED <<game, outbox, toLedger, paid, resolving>>
         /\ b \in late' \/ game[placing[b]] \in Active
BY DEF Made, CommitBet, kafka, memory

\* The round of a bet that was made stays the same.
LEMMA SameRound ==
  ASSUME Typed, [Next]_vars, NEW b \in Bets, ~Made(b)
  PROVE  bet'[b].game = bet[b].game /\ (bet'[b] # NoBet => bet[b] \in Bet)
<1>1. BetStep(b) /\ bet[b] \in Bet \cup {NoBet}
  BY BetSteps DEF Typed, TypeOK
<1>2. CASE Moved(b)
  BY <1>2, BetMoved DEF Moved
<1>3. ASSUME NEW r \in resolving, SettledBy(r, b)
      PROVE  bet'[b].game = bet[b].game /\ bet[b] \in Bet
  <2>1. bet[b] \in Bet /\ bet'[b] = [bet[b] EXCEPT !.result = "SETTLED", !.price = r.price]
    BY <1>3 DEF SettledBy
  <2> QED BY <2>1 DEF Bet
<1> QED BY <1>1, <1>2, <1>3 DEF BetStep, Kept

\* Every step keeps what the resolvers have read.
LEMMA SnapshotStep == Typed /\ Ended /\ Snapshot /\ [Next]_vars => Snapshot'
<1> SUFFICES ASSUME Typed, Ended, Snapshot, [Next]_vars,
                    NEW r \in resolving', NEW b \in Bets, bet'[b].game = r.game, b \notin late'
             PROVE  b \in r.bets
  BY DEF Snapshot, BetsOf
<1>1. b \notin late
  BY HistoryGrows
<1>2. CASE r \in resolving
  <2>1. ~Made(b)
    BY <1>2, MadeInTime DEF Ended, Over, Active
  <2>2. bet[b].game = r.game
    BY <2>1, SameRound
  <2> QED BY <1>1, <1>2, <2>2 DEF Snapshot, BetsOf
<1>3. ASSUME NEW g \in Games, OnPending(g), r \notin resolving
      PROVE  b \in r.bets
  <2>1. r = [game |-> g, bets |-> BetsOf(g), price |-> endPrice[g]] /\ bet' = bet
    BY <1>3 DEF OnPending, db
  <2> QED BY <2>1 DEF BetsOf
<1>4. resolving' \subseteq resolving \/ \E g \in Games : OnPending(g)
  BY DEF Next, Worker, Done, vars, memory, Tick, BeginBet, CommitBet, AbortBet, Publish,
      TimerFires, OnOpenedOrStarted, OnClosed, CreateNext, Crash, BootFind, BootEnd,
      BootClose, StartGame, FinishGame, Resolve, GiveRewards, RollBackRewards
<1> QED BY <1>2, <1>3, <1>4

\* Every step keeps the bets of a closed round settled.
LEMMA SettledStep ==
  Typed /\ Placed /\ Snapshot /\ ClosedIsSettled /\ [Next]_vars => ClosedIsSettled'
<1> SUFFICES ASSUME Typed, Placed, Snapshot, ClosedIsSettled, [Next]_vars,
                    NEW b \in Bets, bet'[b] # NoBet, game'[bet'[b].game] = "CLOSE",
                    b \notin late'
             PROVE  bet'[b].result = "SETTLED"
  BY DEF ClosedIsSettled
<1>1. b \notin late
  BY HistoryGrows
<1>2. ~Made(b)
  BY MadeInTime DEF Active
<1>3. bet[b] \in Bet /\ bet'[b].game = bet[b].game /\ bet[b].game \in Games
  BY <1>2, SameRound, BetOrNone
<1>4. CASE game[bet[b].game] = "CLOSE"
  <2>1. bet[b].result = "SETTLED"
    BY <1>1, <1>3, <1>4, BetOrNone DEF ClosedIsSettled
  <2> QED BY <2>1, FinalStep
<1>5. CASE IsClosing(bet[b].game)
  <2>1. PICK r \in resolving : r.game = bet[b].game /\ Closing(r)
    BY <1>5 DEF IsClosing
  <2>2. b \in r.bets
    BY <1>1, <2>1 DEF Snapshot, BetsOf
  <2> QED BY <2>1, <2>2 DEF Closing
<1> QED BY <1>3, <1>4, <1>5, RoundSteps

-----------------------------------------------------------------------------
(* A bet is paid once *)

\* What was paid of a bet, and what may still be, is one at most; it is nothing
\* as long as the bet is not settled.
PaidAsTold ==
  \A b \in Bets \ late :
    bet[b] # NoBet /\ Event(bet[b].game, "CLOSE") \notin redelivered =>
      /\ Told(bet[b].game) + paid[b] <= 1
      /\ bet[b].result # "SETTLED" => Told(bet[b].game) + paid[b] = 0

\* Every step keeps that.
LEMMA PaidStep ==
  Typed /\ Placed /\ Ended /\ Snapshot /\ PaidAsTold /\ [Next]_vars => PaidAsTold'
<1> SUFFICES ASSUME Typed, Placed, Ended, Snapshot, PaidAsTold, [Next]_vars,
                    NEW b \in Bets, b \notin late', bet'[b] # NoBet,
                    NEW g, bet'[b].game = g, Event(g, "CLOSE") \notin redelivered'
             PROVE  /\ Told(g)' + paid'[b] <= 1
                    /\ bet'[b].result # "SETTLED" => Told(g)' + paid'[b] = 0
  BY DEF PaidAsTold
<1>0. /\ Typed' /\ b \notin late /\ redelivered \subseteq redelivered'
  BY TypeStep, HistoryGrows
<1>1. CASE Made(b)
  <2>1. /\ g \in Games /\ placing[b] = g /\ g # 0 /\ game[g] \in Active
        /\ UNCHANGED <<outbox, toLedger, paid>>
    BY <1>0, <1>1, MadeInTime, NGamesAssumption DEF Games
  <2>2. Told(g) = 0
    BY <2>1 DEF Ended, Over, Active
  <2>3. Told(g)' = 0
    BY <2>1, <2>2 DEF Told
  <2>4. paid'[b] = 0
    BY <2>1 DEF Placed
  <2> QED BY <2>3, <2>4
<1>2. CASE ~Made(b)
  <2>1. bet[b] \in Bet /\ bet[b].game = g /\ g \in Games
    BY <1>2, SameRound, BetOrNone
  <2>2. /\ Told(g) \in Nat /\ Told(g)' \in Nat /\ paid[b] \in Nat /\ paid'[b] \in Nat
    BY <1>0, <2>1 DEF Typed, TypeOK, Told
  <2>3. /\ Told(g) + paid[b] <= 1
        /\ bet[b].result # "SETTLED" => Told(g) + paid[b] = 0
    BY <1>0, <2>1, BetOrNone DEF PaidAsTold
  <2>4. bet[b].result = "SETTLED" => bet'[b] = bet[b]
    BY FinalStep
  <2>5. CASE IsClosing(g)
    <3>1. PICK r \in resolving : r.game = g /\ Closing(r)
      BY <2>5 DEF IsClosing
    <3>2. b \in r.bets
      BY <1>0, <2>1, <3>1 DEF Snapshot, BetsOf
    <3>3. /\ bet[b].result = "PENDING" /\ bet'[b].result = "SETTLED"
          /\ Told(g)' <= Told(g) + 1 /\ paid'[b] = paid[b]
      BY <3>1, <3>2 DEF Closing
    <3> QED BY <2>2, <2>3, <3>3
  <2>6. CASE ~IsClosing(g) /\ paid'[b] = paid[b]
    <3>1. Told(g)' <= Told(g)
      BY <2>1, <2>6, ToldSteps
    <3>2. bet'[b].result # "SETTLED" => bet[b].result # "SETTLED"
      BY <2>4
    <3> QED BY <2>2, <2>3, <2>6, <3>1, <3>2
  <2>7. CASE paid'[b] # paid[b]
    <3>1. /\ bet[b].result = "SETTLED" /\ bet' = bet /\ paid'[b] = paid[b] + 1
          /\ Told(g)' + 1 = Told(g)
      BY <2>1, <2>7, PaidSteps
    <3> QED BY <2>2, <2>3, <3>1
  <2> QED BY <2>5, <2>6, <2>7
<1> QED BY <1>1, <1>2

-----------------------------------------------------------------------------
(* The theorems *)

\* The inductive invariant: what each property rests on.
Inv ==
  /\ Typed /\ Placed /\ Ended
  /\ Snapshot /\ ClosedIsSettled
  /\ PaidAsTold

\* The invariant holds before anything was done.
LEMMA InvInit == Init => Inv
<1> SUFFICES ASSUME Init PROVE Inv
  OBVIOUS
<1>1. Typed
  BY TypeInit
<1>2. Placed /\ Snapshot /\ ClosedIsSettled /\ PaidAsTold
  BY DEF Init, Placed, Snapshot, ClosedIsSettled, PaidAsTold
<1>3. Ended
  BY DEF Init, Ended, Told
<1> QED BY <1>1, <1>2, <1>3 DEF Inv

\* Every step keeps the invariant.
LEMMA InvStep == Inv /\ [Next]_vars => Inv'
BY TypeStep, PlacedStep, EndedStep, SnapshotStep, SettledStep, PaidStep DEF Inv

\* Paid once, unless the ledger was given the CLOSE event once more.
LEMMA InvPaid == Inv => PaidAtMostOnce
<1> SUFFICES ASSUME Inv, NEW b \in Bets \ late, paid[b] > 1,
                    Event(bet[b].game, "CLOSE") \notin redelivered
             PROVE  FALSE
  BY DEF PaidAtMostOnce
<1>1. bet[b] # NoBet
  BY DEF Inv, Placed
<1>2. bet[b].game \in Games
  BY <1>1, BetOrNone DEF Inv, Typed, TypeOK
<1>3. Told(bet[b].game) \in Nat /\ paid[b] \in Nat
  BY <1>2 DEF Inv, Typed, TypeOK, Told
<1>4. Told(bet[b].game) + paid[b] <= 1
  BY <1>1 DEF Inv, PaidAsTold
<1> QED BY <1>3, <1>4

\* The invariant holds in every behaviour.
THEOREM InvHolds == Spec => []Inv
BY InvInit, InvStep, PTL DEF Spec

\* The variables of the rounds have their types.
THEOREM TypeCorrect == Spec => []TypeOK
<1>1. Inv => TypeOK
  BY DEF Inv, Typed
<1> QED BY <1>1, InvHolds, PTL

\* Whatever is delivered twice or fires late, the result of a bet is final.
THEOREM ResultsStay == Spec => ResultIsFinal
<1>1. Inv /\ [Next]_vars => [\A b \in Bets : bet[b].result = "SETTLED" => bet'[b] = bet[b]]_vars
  BY FinalStep DEF Inv
<1> QED BY <1>1, InvHolds, PTL DEF Spec, ResultIsFinal

\* A round is closed with all its bets settled but those that came too late.
THEOREM SettledWhole == Spec => []ClosedIsSettled
<1>1. Inv => ClosedIsSettled
  BY DEF Inv
<1> QED BY <1>1, InvHolds, PTL

\* A bet that came in time is paid once, unless the ledger is given the CLOSE
\* event of its round once more.
THEOREM NotPaidTwice == Spec => []PaidAtMostOnce
BY InvPaid, InvHolds, PTL

-----------------------------------------------------------------------------
(* The bull's eye game has the same rounds *)

\* The ledger takes a CLOSE event and refuses the journal: nobody is paid.
Refused(g) ==
  /\ TakeClose(g)
  /\ UNCHANGED <<db, phase, current, placing, memory, paid, history>>

\* What a step of the bull's eye game does to the rounds.
RoundsStep == [Next]_vars \/ \E g \in Games : Refused(g)

\* Every step of the bull's eye game is one of the rounds, or a payout that is
\* refused.
LEMMA RoundsOfBullsEye == [BullsEyeNext]_bvars => RoundsStep
<1> SUFFICES ASSUME [BullsEyeNext]_bvars PROVE RoundsStep
  OBVIOUS
<1>1. ASSUME NEW g \in Games, GiveRewardsForBullsEye(g)
      PROVE  RoundsStep
  <2>1. GiveRewards(g) \/ Refused(g)
    BY <1>1 DEF GiveRewardsForBullsEye, Refused
  <2> QED BY <2>1 DEF RoundsStep, Next
<1>2. ASSUME NEW g \in Games, Time(g) \/ RollBackPrizes(g)
      PROVE  RoundsStep
  BY <1>2 DEF Time, RollBackPrizes, RoundsStep, Next
<1>3. ASSUME NEW b \in Bets, BeginAddBet(b) \/ CommitAddBet(b) \/ FailAddBet(b)
      PROVE  RoundsStep
  BY <1>3 DEF BeginAddBet, CommitAddBet, FailAddBet, RoundsStep, Next
<1>4. ASSUME BullsEyeWorker
      PROVE  RoundsStep
  <2>1. Worker
    BY <1>4 DEF BullsEyeWorker, Worker, OnBullsEyeGameOpened, OnBullsEyeGameStarted,
        JobFires, StartBullsEyeGame, FinishBullsEyeGame, OnBullsEyeGameClosed,
        CreateBullsEyeGame, FindOpenGames, EndOnModuleInit, MoveOpenGameToPendingState,
        OnBullsEyeGameChanged, ResolveGame, PublishGameChanged, Timers
  <2> QED BY <2>1 DEF RoundsStep, Next
<1>5. ASSUME Stop \/ (Done /\ MoneyAndRanksStay) \/ UNCHANGED bvars
      PROVE  RoundsStep
  BY <1>5 DEF Stop, Next, RoundsStep, bvars
<1> QED BY <1>1, <1>2, <1>3, <1>4, <1>5 DEF BullsEyeNext

\* The delivery of a CLOSE event, paid or not.
LEMMA CloseTaken ==
  ASSUME Typed, NEW g \in Games, TakeClose(g)
  PROVE  /\ toLedger' \in [Games -> Nat] /\ toWorker' = toWorker
         /\ redelivered' \subseteq Events /\ IsFiniteSet(redelivered')
         /\ redelivered \subseteq redelivered'
         /\ \A h \in Games : toLedger'[h] <= toLedger[h]
<1>1. /\ toLedger \in [Games -> Nat] /\ redelivered \subseteq Events
      /\ IsFiniteSet(redelivered) /\ Event(g, "CLOSE") \in Events
  BY EventTyped DEF Typed, TypeOK, States
<1>2. CASE toLedger' = [toLedger EXCEPT ![g] = @ - 1] /\ UNCHANGED redelivered
  BY <1>1, <1>2 DEF TakeClose
<1>3. CASE redelivered' = redelivered \cup {Event(g, "CLOSE")} /\ UNCHANGED toLedger
  <2>1. IsFiniteSet(redelivered \cup {Event(g, "CLOSE")})
    BY <1>1, FS_AddElement
  <2> QED BY <1>1, <1>3, <2>1 DEF TakeClose
<1> QED BY <1>2, <1>3 DEF TakeClose

\* A payout that is refused leaves the rounds as they are.
LEMMA RefusedStep ==
  ASSUME Inv, NEW g \in Games, Refused(g)
  PROVE  Inv'
<1>1. /\ UNCHANGED <<game, endPrice, bet, phase, current, placing, timer, due, outbox,
                     resolving, creating, booting, paid, late, rolledBack, restarts>>
      /\ TakeClose(g) /\ Typed
  BY DEF Refused, db, memory, history, Inv
<1>2. /\ toLedger' \in [Games -> Nat] /\ toWorker' = toWorker
      /\ redelivered' \subseteq Events /\ IsFiniteSet(redelivered')
      /\ redelivered \subseteq redelivered'
      /\ \A h \in Games : toLedger'[h] <= toLedger[h]
  BY <1>1, CloseTaken
<1>3. Typed'
  BY <1>1, <1>2 DEF Typed, TypeOK
<1>4. \A h \in Games : Told(h)' \in Nat /\ Told(h) \in Nat /\ Told(h)' <= Told(h)
  BY <1>1, <1>2 DEF Told, Typed, TypeOK
<1>5. Placed' /\ Snapshot' /\ ClosedIsSettled'
  BY <1>1 DEF Inv, Placed, Snapshot, ClosedIsSettled, BetsOf
<1>6. Ended'
  BY <1>1, <1>4 DEF Inv, Ended
<1>7. PaidAsTold'
  <2> SUFFICES ASSUME NEW b \in Bets, b \notin late, bet[b] # NoBet,
                      NEW h, bet[b].game = h, Event(h, "CLOSE") \notin redelivered'
               PROVE  /\ Told(h)' + paid[b] <= 1
                      /\ bet[b].result # "SETTLED" => Told(h)' + paid[b] = 0
    BY <1>1 DEF PaidAsTold
  <2>1. h \in Games /\ paid[b] \in Nat
    BY <1>1, BetOrNone DEF Typed, TypeOK
  <2>2. /\ Told(h) + paid[b] <= 1
        /\ bet[b].result # "SETTLED" => Told(h) + paid[b] = 0
    BY <1>2 DEF Inv, PaidAsTold
  <2>3. Told(h)' \in Nat /\ Told(h) \in Nat /\ Told(h)' <= Told(h)
    BY <1>4, <2>1
  <2> QED BY <2>1, <2>2, <2>3
<1> QED BY <1>3, <1>5, <1>6, <1>7 DEF Inv

\* So every step of the bull's eye game keeps the invariant of the rounds.
LEMMA BullsEyeInvStep == Inv /\ [BullsEyeNext]_bvars => Inv'
BY RoundsOfBullsEye, InvStep, RefusedStep DEF RoundsStep

\* The rounds of the bull's eye game: results stay, closed rounds are settled,
\* and no bet that came in time is paid twice.
THEOREM BullsEyeRounds == BullsEyeSpec => []ClosedIsSettled /\ []PaidAtMostOnce /\ ResultIsFinal
<1>1. BullsEyeInit => Inv
  BY InvInit DEF BullsEyeInit
<1>2. Inv => ClosedIsSettled /\ PaidAtMostOnce
  BY InvPaid DEF Inv
<1>3. Inv /\ [BullsEyeNext]_bvars
        => [\A b \in Bets : bet[b].result = "SETTLED" => bet'[b] = bet[b]]_vars
  BY RoundsOfBullsEye, FinalStep DEF RoundsStep, Inv, Refused, db
<1> QED BY <1>1, <1>2, <1>3, BullsEyeInvStep, PTL DEF BullsEyeSpec, ResultIsFinal

-----------------------------------------------------------------------------
(* The bull's eye game: the order of the bets *)

\* Of two bets that have their createdAt one is before the other.
Ordered ==
  /\ \A b, c \in Bets : <<b, c>> \in order =>
       HasCreatedAt(b) /\ HasCreatedAt(c) /\ <<c, b>> \notin order
  /\ \A b, c \in Bets : HasCreatedAt(b) /\ HasCreatedAt(c) /\ b # c =>
       <<b, c>> \in order \/ <<c, b>> \in order
  /\ \A b, c, d \in Bets : <<b, c>> \in order /\ <<c, d>> \in order => <<b, d>> \in order

\* A step that is not one of placing a bet leaves the order as it is.
LEMMA OrderSteps ==
  ASSUME [BullsEyeNext]_bvars
  PROVE  \/ order' = order /\ UNCHANGED placing
         \/ \E b \in Bets : BeginAddBet(b) \/ CommitAddBet(b) \/ FailAddBet(b)
<1>1. ASSUME BullsEyeWorker
      PROVE  UNCHANGED <<order, placing>>
  BY <1>1 DEF BullsEyeWorker, MoneyAndRanksStay, OnBullsEyeGameOpened,
      OnBullsEyeGameStarted, JobFires, StartBullsEyeGame, FinishBullsEyeGame,
      OnBullsEyeGameClosed, CreateBullsEyeGame, FindOpenGames, EndOnModuleInit,
      MoveOpenGameToPendingState, OnBullsEyeGameChanged, ResolveGame, PublishGameChanged,
      OnOpenedOrStarted, TimerFires, StartGame, FinishGame, OnClosed, CreateNext, BootFind,
      BootEnd, BootClose, OnPending, Resolve, Publish
<1>2. ASSUME NEW g \in Games, Time(g) \/ GiveRewardsForBullsEye(g) \/ RollBackPrizes(g)
      PROVE  UNCHANGED <<order, placing>>
  BY <1>2 DEF Time, GiveRewardsForBullsEye, RollBackPrizes, MoneyAndRanksStay, Tick,
      GiveRewards, RollBackRewards
<1>3. ASSUME Stop \/ (Done /\ MoneyAndRanksStay) \/ UNCHANGED bvars
      PROVE  UNCHANGED <<order, placing>>
  BY <1>3 DEF Stop, Done, MoneyAndRanksStay, bvars, vars, Crash
<1> QED BY <1>1, <1>2, <1>3 DEF BullsEyeNext

\* A bet keeps its createdAt, but one that is given up.
LEMMA CreatedSteps ==
  ASSUME Inv, [BullsEyeNext]_bvars, NEW c \in Bets
  PROVE  \/ HasCreatedAt(c)' <=> HasCreatedAt(c)
         \/ BeginAddBet(c) /\ HasCreatedAt(c)' /\ ~HasCreatedAt(c)
         \/ FailAddBet(c) /\ ~HasCreatedAt(c)'
<1>0. /\ bet \in [Bets -> Bet \cup {NoBet}] /\ placing \in [Bets -> 0..NGames]
      /\ Typed /\ Placed
  BY DEF Inv, Typed, TypeOK
<1>1. bet'[c] = NoBet => bet[c] = NoBet
  BY <1>0, RoundsOfBullsEye, RowStays DEF RoundsStep, Refused, db
<1>2. bet[c] = NoBet => bet'[c] = NoBet \/ CommitBet(c)
  <2>1. CASE [Next]_vars
    <3>1. BetStep(c)
      BY <1>0, <2>1, BetSteps
    <3> QED BY <3>1, BetOrNone DEF BetStep, Kept, Made, Moved, SettledBy
  <2> QED BY <2>1, RoundsOfBullsEye DEF RoundsStep, Refused, db
<1>3. CASE UNCHANGED placing
  BY <1>0, <1>1, <1>2, <1>3 DEF HasCreatedAt, CommitBet
<1>4. ASSUME NEW b \in Bets, BeginAddBet(b)
      PROVE  \/ HasCreatedAt(c)' <=> HasCreatedAt(c)
             \/ BeginAddBet(c) /\ HasCreatedAt(c)' /\ ~HasCreatedAt(c)
  <2>1. /\ bet' = bet /\ placing[b] = 0 /\ bet[b] = NoBet
        /\ placing' = [placing EXCEPT ![b] = current] /\ current # 0
    BY <1>4 DEF BeginAddBet, BeginBet, db
  <2>2. CASE c = b
    BY <1>0, <1>4, <2>1, <2>2 DEF HasCreatedAt
  <2>3. CASE c # b
    BY <1>0, <2>1, <2>3 DEF HasCreatedAt
  <2> QED BY <2>2, <2>3
<1>5. ASSUME NEW b \in Bets, CommitAddBet(b)
      PROVE  HasCreatedAt(c)' <=> HasCreatedAt(c)
  <2>1. /\ placing[b] # 0 /\ placing' = [placing EXCEPT ![b] = 0]
        /\ bet' = [bet EXCEPT ![b] = [game |-> placing[b], result |-> "OPEN",
                                      price |-> NoPrice]]
    BY <1>5 DEF CommitAddBet, CommitBet
  <2>2. CASE c = b
    <3>1. bet'[c].result = "OPEN"
      BY <1>0, <2>1, <2>2
    <3>2. bet'[c] # NoBet
      BY <3>1, BetOrNone
    <3> QED BY <2>1, <2>2, <3>2 DEF HasCreatedAt
  <2>3. CASE c # b
    BY <1>0, <2>1, <2>3 DEF HasCreatedAt
  <2> QED BY <2>2, <2>3
<1>6. ASSUME NEW b \in Bets, FailAddBet(b)
      PROVE  \/ HasCreatedAt(c)' <=> HasCreatedAt(c)
             \/ FailAddBet(c) /\ ~HasCreatedAt(c)'
  <2>1. /\ bet' = bet /\ placing[b] # 0 /\ placing' = [placing EXCEPT ![b] = 0]
    BY <1>6 DEF FailAddBet, AbortBet, db
  <2>2. bet[b] = NoBet
    BY <1>0, <2>1 DEF Placed
  <2>3. CASE c = b
    BY <1>0, <1>6, <2>1, <2>2, <2>3 DEF HasCreatedAt
  <2>4. CASE c # b
    BY <1>0, <2>1, <2>4 DEF HasCreatedAt
  <2> QED BY <2>3, <2>4
<1> QED BY <1>3, <1>4, <1>5, <1>6, OrderSteps

\* Every step keeps the order.
LEMMA OrderedStep == Inv /\ Ordered /\ [BullsEyeNext]_bvars => Ordered'
<1> SUFFICES ASSUME Inv, Ordered, [BullsEyeNext]_bvars PROVE Ordered'
  OBVIOUS
<1>1. ASSUME NEW b \in Bets, BeginAddBet(b)
      PROVE  Ordered'
  <2>1. /\ \A c, d \in Bets : <<c, d>> \in order' <=>
             <<c, d>> \in order \/ (d = b /\ HasCreatedAt(c))
        /\ ~HasCreatedAt(b)
    BY <1>1 DEF BeginAddBet, BeginBet, HasCreatedAt
  <2>2. HasCreatedAt(b)' /\ \A c \in Bets : HasCreatedAt(c)' <=> HasCreatedAt(c) \/ c = b
    <3>1. ASSUME NEW c \in Bets
          PROVE  HasCreatedAt(c)' <=> HasCreatedAt(c) \/ c = b
      <4>0. placing \in [Bets -> 0..NGames]
        BY DEF Inv, Typed, TypeOK
      <4>1. bet' = bet /\ placing' = [placing EXCEPT ![b] = current] /\ current # 0
        BY <1>1 DEF BeginAddBet, BeginBet, db
      <4> QED BY <4>0, <4>1 DEF HasCreatedAt
    <3> QED BY <3>1
  <2> HIDE DEF HasCreatedAt
  <2>3. \A c, d \in Bets : <<c, d>> \in order => HasCreatedAt(c) /\ HasCreatedAt(d)
    BY DEF Ordered
  <2> QED BY <2>1, <2>2, <2>3 DEF Ordered
<1>2. ASSUME NEW b \in Bets, FailAddBet(b)
      PROVE  Ordered'
  <2>1. \A c, d \in Bets : <<c, d>> \in order' <=> <<c, d>> \in order /\ c # b /\ d # b
    BY <1>2 DEF FailAddBet
  <2>2. \A c \in Bets : HasCreatedAt(c)' <=> HasCreatedAt(c) /\ c # b
    <3>1. ASSUME NEW c \in Bets
          PROVE  HasCreatedAt(c)' <=> HasCreatedAt(c) /\ c # b
      <4>0. placing \in [Bets -> 0..NGames]
        BY DEF Inv, Typed, TypeOK
      <4>1. bet' = bet /\ placing' = [placing EXCEPT ![b] = 0] /\ placing[b] # 0
        BY <1>2 DEF FailAddBet, AbortBet, db
      <4>2. bet[b] = NoBet
        BY <4>1 DEF Inv, Placed
      <4> QED BY <4>0, <4>1, <4>2 DEF HasCreatedAt
    <3> QED BY <3>1
  <2> QED BY <2>1, <2>2 DEF Ordered
<1>3. ASSUME order' = order, \A c \in Bets : HasCreatedAt(c)' <=> HasCreatedAt(c)
      PROVE  Ordered'
  BY <1>3 DEF Ordered
<1>4. CASE ~\E b \in Bets : BeginAddBet(b) \/ FailAddBet(b)
  <2>1. order' = order
    BY <1>4, OrderSteps DEF CommitAddBet
  <2>2. \A c \in Bets : HasCreatedAt(c)' <=> HasCreatedAt(c)
    BY <1>4, CreatedSteps
  <2> QED BY <1>3, <2>1, <2>2
<1> QED BY <1>1, <1>2, <1>4

-----------------------------------------------------------------------------
(* The bull's eye game: what the resolvers have read *)

\* The bets a resolver has read are of its round, and of two resolvers of one
\* round one has read all that the other has.
Chained ==
  /\ \A r \in resolving : r.bets \subseteq BetsOf(r.game)
  /\ \A r, s \in resolving :
       r.game = s.game => r.bets \subseteq s.bets \/ s.bets \subseteq r.bets

\* When bets of a round are settled, every resolver of it that has read bets has
\* read one of these, and will not find it PENDING.
MeetSettled ==
  \A r \in resolving :
    r.bets # {} /\ SettledBetsOf(r.game) # {} => r.bets \cap SettledBetsOf(r.game) # {}

\* The ranks are written when the resolver finds what it read.
Ranking(r) ==
  /\ r \in resolving /\ r.game \in Games /\ r.bets \subseteq Bets
  /\ Commits(r)
  /\ UNCHANGED <<order, late, placing>> /\ resolving' = resolving \ {r}
  /\ bet' = [b \in Bets |->
       IF b \in r.bets THEN [bet[b] EXCEPT !.result = "SETTLED", !.price = r.price]
       ELSE bet[b]]
  /\ row' = [b \in Bets |->
       IF b \in r.bets THEN GetBullsEyeGameResult(r.bets, r.price)[b] ELSE row[b]]
  /\ LET first == {b \in r.bets : GetBullsEyeGameResult(r.bets, r.price)[b].place = 1}
     IN winner' = [winner EXCEPT ![r.game] =
                     IF first = {} THEN Nobody ELSE CHOOSE b \in first : TRUE]

\* No step but that settles a bet or touches the ranks.
Resting ==
  /\ UNCHANGED <<row, winner>>
  /\ \A b \in Bets : bet'[b].result = "SETTLED" => bet[b].result = "SETTLED"

\* A resolver writes the ranks, or they rest.
LEMMA RankSteps ==
  ASSUME Inv, [BullsEyeNext]_bvars
  PROVE  Resting \/ \E r \in resolving : Ranking(r)
<1>0. /\ bet \in [Bets -> Bet \cup {NoBet}] /\ resolving \subseteq Resolution
      /\ Typed /\ Placed
  BY DEF Inv, Typed, TypeOK
<1>1. ASSUME NEW r \in resolving, ResolveGame(r), Commits(r)
      PROVE  Ranking(r)
  <2>1. r.game \in Games /\ r.bets \subseteq Bets
    BY <1>0 DEF Resolution
  <2>2. /\ resolving' = resolving \ {r} /\ UNCHANGED <<order, late, placing>>
        /\ Resolve(r)
    BY <1>1 DEF ResolveGame, Resolve, history
  <2>3. bet' = [b \in Bets |->
          IF b \in r.bets THEN [bet[b] EXCEPT !.result = "SETTLED", !.price = r.price]
          ELSE bet[b]]
    BY <1>1, <2>2 DEF Resolve, Commits, Settle
  <2> QED BY <1>1, <2>1, <2>2, <2>3 DEF ResolveGame, Ranking
<1>2. ASSUME NEW r \in resolving, ResolveGame(r), ~Commits(r)
      PROVE  Resting
  BY <1>2 DEF ResolveGame, Resolve, Commits, Resting
<1>3. CASE \A r \in resolving : ~ResolveGame(r)
  <2>1. UNCHANGED <<row, winner>>
    BY <1>3 DEF BullsEyeNext, BullsEyeWorker, MoneyAndRanksStay, OnBullsEyeGameOpened,
        OnBullsEyeGameStarted, JobFires, StartBullsEyeGame, FinishBullsEyeGame,
        OnBullsEyeGameClosed, CreateBullsEyeGame, FindOpenGames, EndOnModuleInit,
        MoveOpenGameToPendingState, OnBullsEyeGameChanged, PublishGameChanged, Time,
        GiveRewardsForBullsEye, RollBackPrizes, Stop, bvars, BeginAddBet, CommitAddBet,
        FailAddBet
  <2>2. ASSUME NEW b \in Bets, bet'[b].result = "SETTLED"
        PROVE  bet[b].result = "SETTLED"
    <3>1. ASSUME NEW c \in Bets, CommitBet(c)
          PROVE  bet'[b] = bet[b]
      BY <1>0, <2>2, <3>1 DEF CommitBet
    <3>2. ASSUME NEW g \in Games, NEW from \in SUBSET Active,
                 NEW to \in {"INPROGRESS", "PENDING"}, MoveBets(g, from, to)
          PROVE  bet'[b] = bet[b]
      <4>1. Kept(b) \/ Moved(b)
        BY <1>0, <3>2, MovedBets DEF Typed
      <4>2. ~Moved(b)
        BY <2>2, BetMoved DEF Moved
      <4> QED BY <4>1, <4>2 DEF Kept
    <3>3. ASSUME NEW g \in Games, StartGame(g)
          PROVE  bet'[b] = bet[b]
      BY <3>2, <3>3 DEF StartGame, Active
    <3>4. ASSUME NEW g \in Games, FinishGame(g) \/ BootClose(g)
          PROVE  bet'[b] = bet[b]
      BY <3>2, <3>4 DEF FinishGame, BootClose, MoveGameToPendingState
    <3>5. \/ UNCHANGED bet
          \/ \E c \in Bets : CommitBet(c)
          \/ \E g \in Games : StartGame(g) \/ FinishGame(g) \/ BootClose(g)
      BY <1>3 DEF BullsEyeNext, BullsEyeWorker, OnBullsEyeGameOpened,
          OnBullsEyeGameStarted, JobFires, StartBullsEyeGame, FinishBullsEyeGame,
          OnBullsEyeGameClosed, CreateBullsEyeGame, FindOpenGames, EndOnModuleInit,
          MoveOpenGameToPendingState, OnBullsEyeGameChanged, PublishGameChanged, Time,
          GiveRewardsForBullsEye, RollBackPrizes, Stop, bvars, vars, BeginAddBet,
          CommitAddBet, FailAddBet, db, Tick, BeginBet, AbortBet, Publish, TimerFires,
          OnOpenedOrStarted, OnClosed, CreateNext, Crash, BootFind, BootEnd, OnPending,
          GiveRewards, RollBackRewards, Done
    <3> QED BY <2>2, <3>1, <3>3, <3>4, <3>5
  <2> QED BY <2>1, <2>2 DEF Resting
<1> QED BY <1>1, <1>2, <1>3

\* A settled bet keeps its row, every bet its round, and a round its bets.
LEMMA BetsStay ==
  ASSUME Inv, [BullsEyeNext]_bvars
  PROVE  /\ \A b \in Bets : bet[b].result = "SETTLED" => bet'[b] = bet[b]
         /\ \A g \in Games : BetsOf(g) \subseteq BetsOf(g)'
         /\ \A g \in Games : SettledBetsOf(g) \subseteq SettledBetsOf(g)'
         /\ late \subseteq late'
<1>1. ASSUME NEW b \in Bets, bet[b].result = "SETTLED"
      PROVE  bet'[b] = bet[b]
  BY <1>1, RoundsOfBullsEye, FinalStep DEF RoundsStep, Inv, Refused, db
<1>2. ASSUME NEW g \in Games, NEW b \in Bets, bet[b].game = g
      PROVE  bet'[b].game = g
  <2>1. CASE [Next]_vars
    <3>1. bet[b] # NoBet
      BY <1>2, BetOrNone DEF Games
    <3>2. ~Made(b)
      BY <3>1 DEF Made, CommitBet, Inv, Placed
    <3> QED BY <1>2, <2>1, <3>2, SameRound DEF Inv
  <2> QED BY <1>2, <2>1, RoundsOfBullsEye DEF RoundsStep, Refused, db
<1>3. late \subseteq late'
  BY RoundsOfBullsEye, HistoryGrows DEF RoundsStep, Refused, history
<1> QED BY <1>1, <1>2, <1>3 DEF BetsOf, SettledBetsOf

\* A resolver that is new has read all bets of its round.
LEMMA ReadSteps ==
  ASSUME Inv, [BullsEyeNext]_bvars, NEW r \in resolving', r \notin resolving
  PROVE  r.game \in Games /\ r.bets = BetsOf(r.game) /\ bet' = bet
<1>1. resolving' \subseteq resolving \/ \E g \in Games : OnPending(g)
  BY RoundsOfBullsEye DEF RoundsStep, Refused, memory, Next, Worker, Done, vars, Tick,
      BeginBet, CommitBet, AbortBet, Publish, TimerFires, OnOpenedOrStarted, OnClosed,
      CreateNext, Crash, BootFind, BootEnd, BootClose, StartGame, FinishGame, Resolve,
      GiveRewards, RollBackRewards
<1>2. PICK g \in Games : OnPending(g)
  BY <1>1
<1>3. r = [game |-> g, bets |-> BetsOf(g), price |-> endPrice[g]] /\ bet' = bet
  BY <1>2 DEF OnPending, db
<1> QED BY <1>3

\* Every step keeps what resolvers have in common.
LEMMA ChainedStep == Inv /\ Chained /\ [BullsEyeNext]_bvars => Chained'
<1> SUFFICES ASSUME Inv, Chained, [BullsEyeNext]_bvars PROVE Chained'
  OBVIOUS
<1>0. \A r \in resolving : r.game \in Games
  BY DEF Inv, Typed, TypeOK, Resolution
<1>1. ASSUME NEW r \in resolving'
      PROVE  r.bets \subseteq BetsOf(r.game)'
  <2>1. CASE r \in resolving
    BY <1>0, <2>1, BetsStay DEF Chained
  <2>2. CASE r \notin resolving
    BY <2>2, ReadSteps DEF BetsOf
  <2> QED BY <2>1, <2>2
<1>2. ASSUME NEW r \in resolving', NEW s \in resolving', r.game = s.game
      PROVE  r.bets \subseteq s.bets \/ s.bets \subseteq r.bets
  <2>1. CASE r \in resolving /\ s \in resolving
    BY <1>2, <2>1 DEF Chained
  <2>2. CASE r \notin resolving
    <3>1. r.bets = BetsOf(r.game)
      BY <2>2, ReadSteps
    <3>2. s.bets \subseteq BetsOf(s.game)
      BY <2>2, ReadSteps DEF Chained
    <3> QED BY <1>2, <3>1, <3>2
  <2>3. CASE s \notin resolving
    <3>1. s.bets = BetsOf(s.game)
      BY <2>3, ReadSteps
    <3>2. r.bets \subseteq BetsOf(r.game)
      BY <2>3, ReadSteps DEF Chained
    <3> QED BY <1>2, <3>1, <3>2
  <2> QED BY <2>1, <2>2, <2>3
<1> QED BY <1>1, <1>2 DEF Chained

\* What a resolver that writes the ranks finds, and leaves.
LEMMA RankingSettles ==
  ASSUME Inv, NEW r \in resolving, Ranking(r)
  PROVE  /\ \A b \in r.bets : /\ bet[b] \in Bet /\ bet[b].result = "PENDING"
                               /\ bet'[b].game = bet[b].game
                               /\ bet'[b].result = "SETTLED" /\ bet'[b].price = r.price
         /\ \A b \in Bets \ r.bets : bet'[b] = bet[b] /\ row'[b] = row[b]
<1>1. ASSUME NEW b \in r.bets
      PROVE  /\ bet[b] \in Bet /\ bet[b].result = "PENDING"
             /\ bet'[b].game = bet[b].game
             /\ bet'[b].result = "SETTLED" /\ bet'[b].price = r.price
  <2>1. b \in Bets /\ bet[b].result = "PENDING"
    BY DEF Ranking, Commits
  <2>2. bet[b] \in Bet
    BY <2>1, BetOrNone DEF Inv, Typed, TypeOK
  <2>3. bet'[b] = [bet[b] EXCEPT !.result = "SETTLED", !.price = r.price]
    BY <2>1 DEF Ranking
  <2> QED BY <2>1, <2>2, <2>3 DEF Bet
<1>2. \A b \in Bets \ r.bets : bet'[b] = bet[b] /\ row'[b] = row[b]
  BY DEF Ranking
<1> QED BY <1>1, <1>2

\* Every step keeps that resolvers meet what is settled.
LEMMA MeetStep == Inv /\ Chained /\ MeetSettled /\ [BullsEyeNext]_bvars => MeetSettled'
<1> SUFFICES ASSUME Inv, Chained, MeetSettled, [BullsEyeNext]_bvars,
                    NEW r \in resolving', r.bets # {}, NEW b \in Bets,
                    bet'[b].game = r.game, bet'[b].result = "SETTLED"
             PROVE  \E c \in r.bets : c \in SettledBetsOf(r.game)'
  BY DEF MeetSettled, SettledBetsOf, BetsOf
<1>1. CASE r \notin resolving
  BY <1>1, ReadSteps DEF SettledBetsOf, BetsOf
<1>2. CASE r \in resolving
  <2>0. r.game \in Games
    BY <1>2 DEF Inv, Typed, TypeOK, Resolution
  <2>1. CASE bet[b].result = "SETTLED"
    <3>1. b \in SettledBetsOf(r.game)
      BY <2>1, BetsStay DEF SettledBetsOf, BetsOf
    <3>2. r.bets \cap SettledBetsOf(r.game) # {}
      BY <1>2, <3>1 DEF MeetSettled
    <3> QED BY <2>0, <3>2, BetsStay
  <2>2. ASSUME NEW q \in resolving, Ranking(q), bet[b].result # "SETTLED"
        PROVE  \E c \in r.bets : c \in SettledBetsOf(r.game)'
    <3>1. b \in q.bets
      BY <2>2, RankingSettles
    <3>2. q.game = r.game
      <4>1. bet[b].game = q.game
        BY <3>1 DEF Chained, BetsOf
      <4>2. bet'[b].game = bet[b].game
        BY <2>2, <3>1, RankingSettles
      <4> QED BY <4>1, <4>2
    <3>3. PICK c \in r.bets : c \in q.bets
      BY <1>2, <3>1, <3>2 DEF Chained
    <3>4. c \in Bets /\ bet'[c].game = r.game /\ bet'[c].result = "SETTLED"
      <4>1. c \in BetsOf(q.game)
        BY <3>3 DEF Chained
      <4> QED BY <2>2, <3>2, <3>3, <4>1, RankingSettles DEF BetsOf
    <3> QED BY <3>3, <3>4 DEF SettledBetsOf, BetsOf
  <2> QED BY <2>1, <2>2, RankSteps DEF Resting
<1> QED BY <1>1, <1>2

-----------------------------------------------------------------------------
(* The bull's eye game: places *)

\* The bets of bs that are ranked before b.
Ahead(b, bs, price) == {c \in bs : Before(c, b, price)}

\* The distance is a number.
LEMMA DistanceTyped == \A b \in Bets, price \in Prices : Distance(b, price) \in Nat
<1> SUFFICES ASSUME NEW b \in Bets, NEW price \in Prices PROVE Distance(b, price) \in Nat
  OBVIOUS
<1>1. Guess[b] \in Nat /\ price \in Nat
  BY GuessAssumption
<1> QED BY <1>1 DEF Distance

\* By distance, and of equal ones by createdAt, the bets are in a strict order,
\* in which two bets are never at the same place.
LEMMA BeforeIsOrder ==
  ASSUME Ordered, NEW price \in Prices
  PROVE  /\ \A b \in Bets : ~Before(b, b, price)
         /\ \A b, c, d \in Bets :
              Before(b, c, price) /\ Before(c, d, price) => Before(b, d, price)
         /\ \A b, c \in Bets : HasCreatedAt(b) /\ HasCreatedAt(c) /\ b # c =>
              Before(b, c, price) \/ Before(c, b, price)
<1> DEFINE D(b) == Distance(b, price)
<1>0. \A b \in Bets : D(b) \in Nat
  BY DistanceTyped
<1>1. \A b, c \in Bets : Before(b, c, price) <=>
        D(b) < D(c) \/ (D(b) = D(c) /\ <<b, c>> \in order)
  BY DEF Before, CreatedBefore
<1> HIDE DEF D
<1>2. ASSUME NEW b \in Bets
      PROVE  ~Before(b, b, price)
  <2>1. <<b, b>> \notin order
    BY DEF Ordered
  <2> QED BY <1>0, <1>1, <2>1
<1>3. ASSUME NEW b \in Bets, NEW c \in Bets, NEW d \in Bets,
             Before(b, c, price), Before(c, d, price)
      PROVE  Before(b, d, price)
  <2>1. <<b, c>> \in order /\ <<c, d>> \in order => <<b, d>> \in order
    BY DEF Ordered
  <2>2. D(b) \in Nat /\ D(c) \in Nat /\ D(d) \in Nat
    BY <1>0
  <2>3. /\ D(b) < D(c) \/ (D(b) = D(c) /\ <<b, c>> \in order)
        /\ D(c) < D(d) \/ (D(c) = D(d) /\ <<c, d>> \in order)
    BY <1>1, <1>3
  <2>4. D(b) < D(d) \/ (D(b) = D(d) /\ <<b, d>> \in order)
    BY <2>1, <2>2, <2>3
  <2> QED BY <1>1, <2>4
<1>4. ASSUME NEW b \in Bets, NEW c \in Bets, HasCreatedAt(b), HasCreatedAt(c), b # c
      PROVE  Before(b, c, price) \/ Before(c, b, price)
  <2>1. <<b, c>> \in order \/ <<c, b>> \in order
    BY <1>4 DEF Ordered
  <2>2. D(b) < D(c) \/ D(c) < D(b) \/ (D(b) = D(c) /\ D(c) = D(b))
    BY <1>0
  <2> QED BY <1>1, <2>1, <2>2
<1> QED BY <1>2, <1>3, <1>4

\* A bet before another has the better place.
LEMMA PlacesFollow ==
  ASSUME Ordered, NEW bs \in SUBSET Bets, NEW price \in Prices,
         NEW b \in bs, NEW c \in bs, Before(b, c, price)
  PROVE  Place(b, bs, price) < Place(c, bs, price)
<1>1. /\ Ahead(b, bs, price) \subseteq Ahead(c, bs, price)
      /\ b \in Ahead(c, bs, price) /\ b \notin Ahead(b, bs, price)
  BY BeforeIsOrder DEF Ahead
<1>2. IsFiniteSet(Ahead(c, bs, price))
  BY BetsAssumption, FS_Subset DEF Ahead
<1>3. /\ IsFiniteSet(Ahead(b, bs, price))
      /\ Cardinality(Ahead(b, bs, price)) <= Cardinality(Ahead(c, bs, price))
      /\ Cardinality(Ahead(b, bs, price)) # Cardinality(Ahead(c, bs, price))
  BY <1>1, <1>2, FS_Subset
<1>4. /\ Cardinality(Ahead(b, bs, price)) \in Nat
      /\ Cardinality(Ahead(c, bs, price)) \in Nat
  BY <1>2, <1>3, FS_CardinalityType
<1>5. /\ Place(b, bs, price) = 1 + Cardinality(Ahead(b, bs, price))
      /\ Place(c, bs, price) = 1 + Cardinality(Ahead(c, bs, price))
  BY DEF Place, Ahead
<1> QED BY <1>3, <1>4, <1>5

\* Somebody has the first place.
LEMMA FirstPlace ==
  ASSUME Ordered, NEW bs \in SUBSET Bets, bs # {}, NEW price \in Prices
  PROVE  \E b \in bs : Place(b, bs, price) = 1
<1> DEFINE A(b) == Ahead(b, bs, price)
           T == {A(b) : b \in bs}
<1>1. ASSUME NEW b \in bs
      PROVE  A(b) \in FiniteSubsetsOf(Bets)
  <2>1. A(b) \in SUBSET Bets
    BY DEF Ahead
  <2>2. IsFiniteSet(A(b))
    BY <2>1, BetsAssumption, FS_Subset
  <2> QED BY <2>1, <2>2 DEF FiniteSubsetsOf
<1>2. T \subseteq FiniteSubsetsOf(Bets) /\ T # {}
  BY <1>1
<1> HIDE DEF T
<1>3. PICK X \in T : \A Y \in T : ~(<<Y, X>> \in StrictSubsetOrdering(Bets))
  BY <1>2, FS_StrictSubsetOrderingWellFounded, WFMin
<1>4. PICK m \in bs : X = A(m)
  BY <1>3 DEF T
<1>5. ASSUME NEW x \in A(m)
      PROVE  FALSE
  <2>1. x \in bs /\ Before(x, m, price)
    BY <1>5 DEF Ahead
  <2>2. A(x) \subseteq A(m) /\ x \notin A(x)
    BY <2>1, BeforeIsOrder DEF Ahead
  <2>3. A(x) \in T
    BY <2>1 DEF T
  <2>4. A(x) \in SUBSET Bets /\ A(m) \in SUBSET Bets
    BY DEF Ahead
  <2> HIDE DEF A
  <2>5. <<A(x), A(m)>> \in StrictSubsetOrdering(Bets)
    BY <1>5, <2>2, <2>4 DEF StrictSubsetOrdering
  <2> QED BY <1>3, <1>4, <2>3, <2>5
<1>6. A(m) = {}
  BY <1>5
<1>7. Cardinality(A(m)) = 0
  BY <1>6, FS_EmptySet
<1>8. Place(m, bs, price) = 1
  BY <1>7 DEF Place, Ahead
<1> QED BY <1>8

\* The results of a game tell the places.
LEMMA ResultPlaces ==
  ASSUME NEW bs, NEW price, NEW b \in bs
  PROVE  GetBullsEyeGameResult(bs, price)[b].place =
           IF IsRejected(bs, price) THEN 0 ELSE Place(b, bs, price)
BY DEF GetBullsEyeGameResult, NoRow

\* What the places of two ranked bets must agree with.
Fair(b, c) ==
  \/ row[b].place > row[c].place
  \/ /\ row[b].place < row[c].place
     /\ \/ Distance(b, bet[b].price) < Distance(c, bet[b].price)
        \/ /\ Distance(b, bet[b].price) = Distance(c, bet[b].price)
           /\ CreatedBefore(b, c)

\* A game names a bet, or nobody.
WinnerTyped == winner \in [Games -> Bets \cup {Nobody}]

\* The bets a resolver ranks are at fair places, and one of them has won.
LEMMA RankedFair ==
  ASSUME Inv, Ordered, WinnerTyped, NEW r \in resolving, Ranking(r),
         NEW m \in r.bets, row'[m].place > 0
  PROVE  /\ \A b, c \in r.bets : b # c => Fair(b, c)'
         /\ winner'[r.game] \in r.bets /\ row'[winner'[r.game]].place = 1
         /\ \A b \in r.bets : row'[b].place > 0
<1> DEFINE bs == r.bets
           p == r.price
           result == GetBullsEyeGameResult(bs, p)
           first == {b \in bs : result[b].place = 1}
<1>0. /\ bs \in SUBSET Bets /\ r.game \in Games /\ order' = order
      /\ \A b \in bs : row'[b] = result[b]
      /\ winner'[r.game] = IF first = {} THEN Nobody ELSE CHOOSE b \in first : TRUE
  BY DEF Ranking, WinnerTyped
<1>1. ~IsRejected(bs, p)
  BY <1>0, ResultPlaces
<1>2. p \in Prices
  <2>1. p \in Prices \cup {NoPrice}
    BY DEF Inv, Typed, TypeOK, Resolution
  <2> QED BY <1>1, <2>1 DEF IsRejected
<1>3. \A b \in bs : row'[b].place = Place(b, bs, p)
  BY <1>0, <1>1, ResultPlaces
<1>4. \A b \in bs : Place(b, bs, p) \in Nat /\ Place(b, bs, p) > 0
  <2> TAKE b \in bs
  <2>1. IsFiniteSet({c \in bs : Before(c, b, p)})
    BY <1>0, BetsAssumption, FS_Subset
  <2>2. Cardinality({c \in bs : Before(c, b, p)}) \in Nat
    BY <2>1, FS_CardinalityType
  <2> QED BY <2>2 DEF Place
<1>5. ASSUME NEW b \in bs, NEW c \in bs, b # c
      PROVE  Fair(b, c)'
  <2>1. HasCreatedAt(b) /\ HasCreatedAt(c)
    BY RankingSettles, BetOrNone DEF HasCreatedAt
  <2>2. Before(b, c, p) \/ Before(c, b, p)
    BY <1>0, <1>2, <1>5, <2>1, BeforeIsOrder
  <2>3. bet'[b].price = p
    BY RankingSettles
  <2>4. CASE Before(c, b, p)
    <3>1. Place(c, bs, p) < Place(b, bs, p)
      BY <1>0, <1>2, <2>4, PlacesFollow
    <3> QED BY <1>3, <1>4, <3>1 DEF Fair
  <2>5. CASE Before(b, c, p)
    <3>1. Place(b, bs, p) < Place(c, bs, p)
      BY <1>0, <1>2, <2>5, PlacesFollow
    <3>2. \/ Distance(b, p) < Distance(c, p)
          \/ Distance(b, p) = Distance(c, p) /\ <<b, c>> \in order
      BY <2>5 DEF Before, CreatedBefore
    <3>3. row'[b].place < row'[c].place
      BY <1>3, <3>1
    <3> QED BY <1>0, <2>3, <3>2, <3>3 DEF Fair, CreatedBefore, Distance
  <2> QED BY <2>2, <2>4, <2>5
<1>6. PICK f \in bs : Place(f, bs, p) = 1
  BY <1>0, <1>2, FirstPlace
<1>7. first # {} /\ (CHOOSE b \in first : TRUE) \in first
  BY <1>1, <1>6, ResultPlaces
<1>8. winner'[r.game] \in bs /\ row'[winner'[r.game]].place = 1
  BY <1>0, <1>7
<1>9. \A b \in bs : row'[b].place > 0
  BY <1>3, <1>4
<1> QED BY <1>5, <1>8, <1>9

\* The winner stays named by a bet or nobody.
LEMMA WinnerStep == Inv /\ WinnerTyped /\ [BullsEyeNext]_bvars => WinnerTyped'
<1> SUFFICES ASSUME Inv, WinnerTyped, [BullsEyeNext]_bvars PROVE WinnerTyped'
  OBVIOUS
<1>1. ASSUME NEW r \in resolving, Ranking(r)
      PROVE  WinnerTyped'
  <2> DEFINE first == {b \in r.bets : GetBullsEyeGameResult(r.bets, r.price)[b].place = 1}
  <2>1. /\ winner' = [winner EXCEPT ![r.game] =
                       IF first = {} THEN Nobody ELSE CHOOSE b \in first : TRUE]
        /\ first \subseteq Bets
    BY <1>1 DEF Ranking
  <2> HIDE DEF first
  <2>2. (IF first = {} THEN Nobody ELSE CHOOSE b \in first : TRUE) \in Bets \cup {Nobody}
    BY <2>1
  <2> QED BY <2>1, <2>2 DEF WinnerTyped
<1> QED BY <1>1, RankSteps DEF Resting, WinnerTyped

\* Two ranked bets stay at fair places while their rows and their createdAt stay.
LEMMA FairStays ==
  ASSUME Inv, Ordered, [BullsEyeNext]_bvars, NEW b \in Bets, NEW c \in Bets,
         bet[b].result = "SETTLED", bet[c].result = "SETTLED",
         row'[b] = row[b], row'[c] = row[c], Fair(b, c)
  PROVE  Fair(b, c)'
<1>1. bet'[b] = bet[b]
  BY BetsStay
<1>2. <<b, c>> \in order => <<b, c>> \in order'
  <2>1. ASSUME NEW d \in Bets, FailAddBet(d)
        PROVE  d # b /\ d # c /\ order' = {q \in order : q[1] # d /\ q[2] # d}
    <3>1. bet[d] = NoBet
      BY <2>1 DEF FailAddBet, AbortBet, Inv, Placed
    <3> QED BY <2>1, <3>1, BetOrNone DEF FailAddBet
  <2>2. ASSUME NEW d \in Bets, BeginAddBet(d) \/ CommitAddBet(d)
        PROVE  order \subseteq order'
    BY <2>2 DEF BeginAddBet, CommitAddBet
  <2> QED BY <2>1, <2>2, OrderSteps
<1> QED BY <1>1, <1>2 DEF Fair, CreatedBefore, Distance

\* Every step keeps places fair and winners first.
LEMMA FairStep ==
  /\ Inv /\ Ordered /\ Chained /\ MeetSettled /\ WinnerTyped /\ PlacesAreFair
  /\ [BullsEyeNext]_bvars
  => PlacesAreFair'
<1> SUFFICES ASSUME Inv, Ordered, Chained, MeetSettled, WinnerTyped, PlacesAreFair,
                    [BullsEyeNext]_bvars, NEW g \in Games
             PROVE  /\ \A b, c \in RankedBetsOf(g)' : b # c => Fair(b, c)'
                    /\ RankedBetsOf(g)' \ late' # {} =>
                         winner'[g] \in RankedBetsOf(g)' /\ row'[winner'[g]].place = 1
  BY DEF PlacesAreFair, Fair
<1>0. /\ \A b, c \in RankedBetsOf(g) : b # c => Fair(b, c)
      /\ RankedBetsOf(g) \ late # {} =>
           winner[g] \in RankedBetsOf(g) /\ row[winner[g]].place = 1
  BY DEF PlacesAreFair, Fair
<1>1. ASSUME SettledBetsOf(g)' = SettledBetsOf(g),
             \A b \in SettledBetsOf(g) : row'[b] = row[b]
      PROVE  /\ RankedBetsOf(g)' = RankedBetsOf(g)
             /\ \A b, c \in RankedBetsOf(g)' : b # c => Fair(b, c)'
             /\ RankedBetsOf(g)' \ late' # {} => RankedBetsOf(g) \ late # {}
  <2>1. RankedBetsOf(g)' = RankedBetsOf(g)
    BY <1>1 DEF RankedBetsOf
  <2>2. \A b \in RankedBetsOf(g) :
          b \in Bets /\ bet[b].result = "SETTLED" /\ row'[b] = row[b]
    BY <1>1 DEF RankedBetsOf, SettledBetsOf, BetsOf
  <2>3. late \subseteq late'
    BY BetsStay
  <2> QED BY <1>0, <2>1, <2>2, <2>3, FairStays
<1>2. CASE Resting
  <2>1. SettledBetsOf(g)' \subseteq SettledBetsOf(g)
    <3>1. ASSUME NEW b \in Bets, bet'[b].game = g, bet'[b].result = "SETTLED"
          PROVE  bet[b].game = g /\ bet[b].result = "SETTLED"
      BY <1>2, <3>1, BetsStay DEF Resting
    <3> QED BY <3>1 DEF SettledBetsOf, BetsOf
  <2>2. SettledBetsOf(g)' = SettledBetsOf(g) /\ UNCHANGED <<row, winner>>
    BY <1>2, <2>1, BetsStay DEF Resting
  <2>3. /\ RankedBetsOf(g)' = RankedBetsOf(g)
        /\ \A b, c \in RankedBetsOf(g)' : b # c => Fair(b, c)'
        /\ RankedBetsOf(g)' \ late' # {} => RankedBetsOf(g) \ late # {}
    BY <1>1, <2>2
  <2> QED BY <1>0, <2>2, <2>3
<1>3. ASSUME NEW r \in resolving, Ranking(r)
      PROVE  /\ \A b, c \in RankedBetsOf(g)' : b # c => Fair(b, c)'
             /\ RankedBetsOf(g)' \ late' # {} =>
                  winner'[g] \in RankedBetsOf(g)' /\ row'[winner'[g]].place = 1
  <2>0. /\ r.bets \subseteq BetsOf(r.game) /\ r.bets \subseteq Bets /\ r.game \in Games
        /\ \A b \in r.bets : bet[b].result = "PENDING"
        /\ \A h \in Games \ {r.game} : winner'[h] = winner[h]
    BY <1>3 DEF Chained, Ranking, Commits, WinnerTyped
  <2>1. CASE r.game # g \/ r.bets = {}
    <3>1. \A b \in Bets : bet[b].game = g \/ bet'[b].game = g =>
            bet'[b] = bet[b] /\ row'[b] = row[b]
      BY <1>3, <2>0, <2>1, RankingSettles DEF BetsOf
    <3>2. SettledBetsOf(g)' = SettledBetsOf(g) /\ \A b \in SettledBetsOf(g) : row'[b] = row[b]
      BY <3>1 DEF SettledBetsOf, BetsOf
    <3>3. /\ RankedBetsOf(g)' = RankedBetsOf(g)
          /\ \A b, c \in RankedBetsOf(g)' : b # c => Fair(b, c)'
          /\ RankedBetsOf(g)' \ late' # {} => RankedBetsOf(g) \ late # {}
      BY <1>1, <3>2
    <3>4. CASE r.game # g
      <4>1. winner'[g] = winner[g]
        BY <2>0, <3>4
      <4>2. \A b \in RankedBetsOf(g) : row'[b] = row[b]
        BY <3>2 DEF RankedBetsOf
      <4> QED BY <1>0, <3>3, <4>1, <4>2
    <3>5. CASE r.game = g /\ r.bets = {}
      <4>1. BetsOf(g) \ late = {}
        BY <3>5 DEF Inv, Snapshot
      <4>2. RankedBetsOf(g) \ late = {}
        BY <4>1 DEF RankedBetsOf, SettledBetsOf
      <4> QED BY <3>3, <4>2
    <3> QED BY <2>1, <3>3, <3>4, <3>5
  <2>2. CASE r.game = g /\ r.bets # {}
    <3>1. SettledBetsOf(g) = {}
      <4>1. r.bets \cap SettledBetsOf(g) = {}
        BY <2>0 DEF SettledBetsOf
      <4> QED BY <2>2, <4>1 DEF MeetSettled
    <3>2. SettledBetsOf(g)' = r.bets
      <4>1. ASSUME NEW b \in Bets, bet'[b].game = g, bet'[b].result = "SETTLED"
            PROVE  b \in r.bets
        <5>1. b \notin r.bets => bet'[b] = bet[b]
          BY <1>3, RankingSettles
        <5> QED BY <3>1, <4>1, <5>1 DEF SettledBetsOf, BetsOf
      <4>2. \A b \in r.bets : b \in Bets /\ bet'[b].game = g /\ bet'[b].result = "SETTLED"
        BY <1>3, <2>0, <2>2, RankingSettles DEF BetsOf
      <4> QED BY <4>1, <4>2 DEF SettledBetsOf, BetsOf
    <3>3. RankedBetsOf(g)' = {b \in r.bets : row'[b].place > 0}
      BY <3>2 DEF RankedBetsOf
    <3>4. CASE RankedBetsOf(g)' = {}
      BY <3>4
    <3>5. ASSUME NEW m \in r.bets, row'[m].place > 0
          PROVE  /\ \A b, c \in r.bets : b # c => Fair(b, c)'
                 /\ winner'[g] \in r.bets /\ row'[winner'[g]].place = 1
                 /\ \A b \in r.bets : row'[b].place > 0
      BY <1>3, <2>2, <3>5, RankedFair
    <3> QED BY <3>3, <3>4, <3>5
  <2> QED BY <2>1, <2>2
<1> QED BY <1>2, <1>3, RankSteps

\* What fair places rest on.
RanksInv ==
  /\ Inv /\ Ordered /\ Chained /\ MeetSettled /\ WinnerTyped
  /\ PlacesAreFair

\* It holds before anything was done.
LEMMA RanksInit == BullsEyeInit => RanksInv
<1> SUFFICES ASSUME BullsEyeInit PROVE RanksInv
  OBVIOUS
<1>1. Inv
  BY InvInit DEF BullsEyeInit
<1>2. Ordered
  BY DEF BullsEyeInit, Init, Ordered, HasCreatedAt
<1>3. Chained /\ MeetSettled /\ WinnerTyped
  BY DEF BullsEyeInit, Init, Chained, MeetSettled, WinnerTyped
<1>4. \A b \in Bets : row[b].place = 0
  BY DEF BullsEyeInit, NoRow
<1>5. \A g \in Games : RankedBetsOf(g) = {}
  BY <1>4 DEF RankedBetsOf, SettledBetsOf, BetsOf
<1>6. PlacesAreFair
  BY <1>5 DEF PlacesAreFair
<1> QED BY <1>1, <1>2, <1>3, <1>6 DEF RanksInv

\* Every step keeps it.
LEMMA RanksStep == RanksInv /\ [BullsEyeNext]_bvars => RanksInv'
BY BullsEyeInvStep, OrderedStep, ChainedStep, MeetStep, WinnerStep, FairStep DEF RanksInv

\* Two ranked bets of a game share no place, the closer and then the earlier one
\* has the better place, and the winner a game names is first, however its
\* resolvers, late timers, late bets and restarts meet.
THEOREM FairPlaces == BullsEyeSpec => []PlacesAreFair
<1>1. RanksInv => PlacesAreFair
  BY DEF RanksInv
<1> QED BY <1>1, RanksInit, RanksStep, PTL DEF BullsEyeSpec
-----------------------------------------------------------------------------
(* Sums over finite sets: what SumFunctionOnSet is, from its definition as a *)
(* fold, by the smallest set it would fail for                              *)

\* One step of a sum of the values of f, from the sums over smaller sets.
AddOne(f, G, s) ==
  IF s = {} THEN 0 ELSE f[CHOOSE x \in s : TRUE] + G[s \ {CHOOSE x \in s : TRUE}]

\* G has the sums of f over all subsets of S.
Sums(f, G, S) == G = [s \in SUBSET S |-> AddOne(f, G, s)]

\* Of the nonempty collections of subsets of a finite set one is smallest.
LEMMA Smallest ==
  ASSUME NEW S, IsFiniteSet(S), NEW T, T \subseteq SUBSET S, T # {}
  PROVE  \E X \in T : \A Y \in T : Y \subseteq X => Y = X
<1>1. T \subseteq FiniteSubsetsOf(S)
  BY FS_Subset DEF FiniteSubsetsOf
<1>2. PICK X \in T : \A Y \in T : ~(<<Y, X>> \in StrictSubsetOrdering(S))
  BY <1>1, FS_StrictSubsetOrderingWellFounded, WFMin
<1>3. ASSUME NEW Y \in T, Y \subseteq X, Y # X
      PROVE  FALSE
  <2>1. X \in SUBSET S /\ Y \in SUBSET S
    OBVIOUS
  <2>2. <<Y, X>> \in StrictSubsetOrdering(S)
    BY <1>3, <2>1 DEF StrictSubsetOrdering
  <2> QED BY <1>2, <2>2
<1> QED BY <1>3

\* There is one such G at most.
LEMMA SumsUnique ==
  ASSUME NEW f, NEW G, NEW S, IsFiniteSet(S), Sums(f, G, S),
         NEW H, NEW U, Sums(f, H, U), NEW s, s \subseteq S, s \subseteq U
  PROVE  G[s] = H[s]
<1> DEFINE T == {t \in SUBSET S : t \subseteq U /\ G[t] # H[t]}
<1> SUFFICES ASSUME T # {} PROVE FALSE
  OBVIOUS
<1>1. PICK t \in T : \A r \in T : r \subseteq t => r = t
  <2> HIDE DEF T
  <2>1. T \subseteq SUBSET S
    BY DEF T
  <2> QED BY <2>1, Smallest
<1>2. t \subseteq S /\ t \subseteq U /\ G[t] # H[t]
  BY <1>1
<1>3. G[t] = AddOne(f, G, t) /\ H[t] = AddOne(f, H, t)
  <2>1. G = [r \in SUBSET S |-> AddOne(f, G, r)] /\ H = [r \in SUBSET U |-> AddOne(f, H, r)]
    BY DEF Sums
  <2> HIDE DEF T
  <2> QED BY <1>2, <2>1, Zenon
<1>4. t # {}
  BY <1>2, <1>3 DEF AddOne
<1> DEFINE x == CHOOSE y \in t : TRUE
<1>5. x \in t
  BY <1>4
<1> HIDE DEF x
<1>6. t \ {x} \notin T
  BY <1>1, <1>5
<1>7. G[t \ {x}] = H[t \ {x}]
  BY <1>2, <1>6
<1> QED BY <1>2, <1>3, <1>4, <1>7 DEF AddOne, x

\* There is one for every finite set.
LEMMA SumsExist ==
  ASSUME NEW f, NEW S, IsFiniteSet(S)
  PROVE  \E G : Sums(f, G, S)
<1> DEFINE T == {A \in SUBSET S : ~\E G : Sums(f, G, A)}
<1> SUFFICES ASSUME T # {} PROVE FALSE
  OBVIOUS
<1>1. PICK A \in T : \A B \in T : B \subseteq A => B = A
  <2> HIDE DEF T
  <2>1. T \subseteq SUBSET S
    BY DEF T
  <2> QED BY <2>1, Smallest
<1>2. A \subseteq S /\ IsFiniteSet(A)
  BY <1>1, FS_Subset
<1> DEFINE V(B) == CHOOSE G : Sums(f, G, B)
<1>3. ASSUME NEW B, B \subseteq A, B # A
      PROVE  Sums(f, V(B), B) /\ IsFiniteSet(B)
  <2>1. \E G : Sums(f, G, B)
    BY <1>1, <1>2, <1>3
  <2>2. IsFiniteSet(B)
    BY <1>2, <1>3, FS_Subset
  <2> QED BY <2>1, <2>2
<1> HIDE DEF V, T
<1> DEFINE W == [s \in SUBSET A |-> V(s)[s]]
           G == [s \in SUBSET A |-> AddOne(f, W, s)]
<1>4. ASSUME NEW s, s \subseteq A, s # A
      PROVE  G[s] = W[s]
  <2>1. Sums(f, V(s), s) /\ IsFiniteSet(s)
    BY <1>3, <1>4
  <2>2. V(s)[s] = AddOne(f, V(s), s)
    BY <2>1 DEF Sums
  <2>3. W[s] = V(s)[s] /\ G[s] = AddOne(f, W, s)
    BY <1>4
  <2>4. CASE s = {}
    BY <2>2, <2>3, <2>4 DEF AddOne
  <2>5. CASE s # {}
    <3> DEFINE x == CHOOSE y \in s : TRUE
               r == s \ {x}
    <3>1. x \in s
      BY <2>5
    <3> HIDE DEF x
    <3>2. r \subseteq s /\ r \subseteq A /\ r # A
      BY <1>4, <3>1
    <3> HIDE DEF r
    <3>3. Sums(f, V(r), r)
      BY <1>3, <3>2
    <3>4. V(s)[r] = V(r)[r]
      BY <2>1, <3>2, <3>3, SumsUnique
    <3>5. W[r] = V(r)[r]
      BY <3>2
    <3> HIDE DEF W, G
    <3> QED BY <2>2, <2>3, <2>5, <3>4, <3>5 DEF AddOne, x, r
  <2> QED BY <2>4, <2>5
<1>5. ASSUME NEW s, s \subseteq A
      PROVE  AddOne(f, W, s) = AddOne(f, G, s)
  <2>1. CASE s = {}
    BY <2>1 DEF AddOne
  <2>2. CASE s # {}
    <3> DEFINE x == CHOOSE y \in s : TRUE
               r == s \ {x}
    <3>1. x \in s
      BY <2>2
    <3> HIDE DEF x
    <3>2. r \subseteq A /\ r # A
      BY <1>5, <3>1
    <3>3. G[r] = W[r]
      BY <1>4, <3>2
    <3> HIDE DEF W, G
    <3> QED BY <2>2, <3>3 DEF AddOne, x
  <2> QED BY <2>1, <2>2
<1>6. Sums(f, G, A)
  <2>1. G = [s \in SUBSET A |-> AddOne(f, G, s)]
    BY <1>5
  <2> HIDE DEF G
  <2> QED BY <2>1 DEF Sums
<1> QED BY <1>1, <1>6 DEF T

\* The sum over a set is one of its values and the sum over the others.
LEMMA SumStep ==
  ASSUME NEW f, NEW S, IsFiniteSet(S)
  PROVE  SumFunctionOnSet(f, S) =
           IF S = {} THEN 0
           ELSE f[CHOOSE x \in S : TRUE]
                  + SumFunctionOnSet(f, S \ {CHOOSE x \in S : TRUE})
<1> DEFINE V(B) == CHOOSE G : Sums(f, G, B)
<1>1. ASSUME NEW B, IsFiniteSet(B)
      PROVE  Sums(f, V(B), B) /\ SumFunctionOnSet(f, B) = V(B)[B]
  <2>1. Sums(f, V(B), B)
    BY <1>1, SumsExist
  <2>2. SumFunctionOnSet(f, B) = V(B)[B]
    BY DEF SumFunctionOnSet, FoldFunctionOnSet, MapThenFoldSet, Sums, AddOne
  <2> QED BY <2>1, <2>2
<1>2. CASE S = {}
  <2> HIDE DEF V
  <2>1. Sums(f, V(S), S) /\ SumFunctionOnSet(f, S) = V(S)[S]
    BY <1>1
  <2>2. V(S)[S] = AddOne(f, V(S), S)
    BY <2>1 DEF Sums
  <2> QED BY <1>2, <2>1, <2>2 DEF AddOne
<1>3. CASE S # {}
  <2> DEFINE x == CHOOSE y \in S : TRUE
             R == S \ {x}
  <2>1. x \in S
    BY <1>3
  <2> HIDE DEF x
  <2>2. R \subseteq S /\ IsFiniteSet(R)
    BY FS_Subset
  <2> HIDE DEF R, V
  <2>3. /\ Sums(f, V(S), S) /\ SumFunctionOnSet(f, S) = V(S)[S]
        /\ Sums(f, V(R), R) /\ SumFunctionOnSet(f, R) = V(R)[R]
    BY <1>1, <2>2
  <2>4. V(S)[R] = V(R)[R]
    BY <2>2, <2>3, SumsUnique
  <2>5. V(S)[S] = f[x] + V(S)[R]
    BY <1>3, <2>3 DEF Sums, AddOne, x, R
  <2> QED BY <1>3, <2>3, <2>4, <2>5 DEF x, R
<1> QED BY <1>2, <1>3

\* The sum of numbers is a number, and any of them may be added last.
LEMMA SumRemove ==
  ASSUME NEW f, NEW S, IsFiniteSet(S), \A x \in S : f[x] \in Int
  PROVE  /\ SumFunctionOnSet(f, S) \in Int
         /\ \A y \in S : SumFunctionOnSet(f, S) = f[y] + SumFunctionOnSet(f, S \ {y})
         /\ SumFunctionOnSet(f, {}) = 0
<1> DEFINE Sum(A) == SumFunctionOnSet(f, A)
           Good(A) == Sum(A) \in Int /\ \A y \in A : Sum(A) = f[y] + Sum(A \ {y})
           T == {A \in SUBSET S : ~Good(A)}
<1>0. Sum({}) = 0
  BY SumStep, FS_EmptySet
<1>1. ASSUME T # {}
      PROVE  FALSE
  <2>1. PICK A \in T : \A B \in T : B \subseteq A => B = A
    <3>1. T \subseteq SUBSET S
      OBVIOUS
    <3> HIDE DEF T
    <3> QED BY <1>1, <3>1, Smallest
  <2>2. A \subseteq S /\ IsFiniteSet(A) /\ ~Good(A)
    BY <2>1, FS_Subset
  <2>3. \A B : B \subseteq A /\ B # A => Good(B)
    BY <2>1, <2>2
  <2>4. A # {}
    <3> SUFFICES ASSUME A = {} PROVE FALSE
      OBVIOUS
    <3>1. Sum(A) \in Int
      BY <1>0
    <3> QED BY <2>2, <3>1
  <2> DEFINE x == CHOOSE y \in A : TRUE
  <2>5. x \in A /\ f[x] \in Int
    BY <2>2, <2>4
  <2>6. Sum(A) = f[x] + Sum(A \ {x})
    BY <2>2, <2>4, SumStep
  <2> HIDE DEF x, T, Sum
  <2>7. Good(A \ {x})
    BY <2>3, <2>5
  <2>8. Sum(A) \in Int
    BY <2>5, <2>6, <2>7
  <2>9. ASSUME NEW y \in A, y # x
        PROVE  Sum(A) = f[y] + Sum(A \ {y})
    <3>1. Good(A \ {y})
      BY <2>3
    <3>2. Sum(A \ {x}) = f[y] + Sum((A \ {x}) \ {y})
      BY <2>7, <2>9
    <3>3. Sum(A \ {y}) = f[x] + Sum((A \ {y}) \ {x})
      BY <2>5, <2>9, <3>1
    <3>4. (A \ {x}) \ {y} = (A \ {y}) \ {x}
      OBVIOUS
    <3>5. Good((A \ {x}) \ {y})
      BY <2>3, <2>5
    <3>6. f[y] \in Int /\ Sum((A \ {x}) \ {y}) \in Int
      BY <2>2, <3>5
    <3> DEFINE a == Sum(A \ {x})
               b == Sum(A \ {y})
               c == Sum((A \ {x}) \ {y})
    <3>7. a = f[y] + c /\ b = f[x] + c
      BY <3>2, <3>3, <3>4
    <3> HIDE DEF a, b, c
    <3>8. Sum(A) = f[x] + a /\ c \in Int
      BY <2>6, <3>6 DEF a, c
    <3>9. f[x] + a = f[y] + b
      BY <2>5, <3>6, <3>7, <3>8
    <3> QED BY <3>8, <3>9 DEF b
  <2> QED BY <2>2, <2>6, <2>8, <2>9
<1>2. Good(S)
  BY <1>1
<1> QED BY <1>0, <1>2

\* The sum depends on the values it adds, and on nothing else.
LEMMA SumSame ==
  ASSUME NEW f, NEW g, NEW S, IsFiniteSet(S), \A x \in S : f[x] \in Int /\ g[x] = f[x]
  PROVE  SumFunctionOnSet(g, S) = SumFunctionOnSet(f, S)
<1> DEFINE T == {A \in SUBSET S : SumFunctionOnSet(g, A) # SumFunctionOnSet(f, A)}
<1> SUFFICES ASSUME T # {} PROVE FALSE
  OBVIOUS
<1>1. PICK A \in T : \A B \in T : B \subseteq A => B = A
  <2>1. T \subseteq SUBSET S
    OBVIOUS
  <2> HIDE DEF T
  <2> QED BY <2>1, Smallest
<1>2. A \subseteq S /\ IsFiniteSet(A) /\ SumFunctionOnSet(g, A) # SumFunctionOnSet(f, A)
  BY <1>1, FS_Subset
<1>3. A # {}
  BY <1>2, SumStep
<1> DEFINE x == CHOOSE y \in A : TRUE
<1>4. x \in A
  BY <1>3
<1>5. /\ SumFunctionOnSet(f, A) = f[x] + SumFunctionOnSet(f, A \ {x})
      /\ SumFunctionOnSet(g, A) = g[x] + SumFunctionOnSet(g, A \ {x})
  BY <1>2, <1>3, SumStep
<1> HIDE DEF x
<1>6. SumFunctionOnSet(g, A \ {x}) = SumFunctionOnSet(f, A \ {x})
  BY <1>1, <1>4
<1> QED BY <1>2, <1>4, <1>5, <1>6

\* The sum of zeros.
LEMMA SumZero ==
  ASSUME NEW S, IsFiniteSet(S), NEW f, \A x \in S : f[x] = 0
  PROVE  SumFunctionOnSet(f, S) = 0
<1> DEFINE T == {A \in SUBSET S : SumFunctionOnSet(f, A) # 0}
<1> SUFFICES ASSUME T # {} PROVE FALSE
  OBVIOUS
<1>1. PICK A \in T : \A B \in T : B \subseteq A => B = A
  <2>1. T \subseteq SUBSET S
    OBVIOUS
  <2> HIDE DEF T
  <2> QED BY <2>1, Smallest
<1>2. A \subseteq S /\ IsFiniteSet(A) /\ SumFunctionOnSet(f, A) # 0
  BY <1>1, FS_Subset
<1>3. A # {}
  BY <1>2, SumStep
<1> DEFINE x == CHOOSE y \in A : TRUE
<1>4. x \in A
  BY <1>3
<1>5. SumFunctionOnSet(f, A) = f[x] + SumFunctionOnSet(f, A \ {x})
  BY <1>2, <1>3, SumStep
<1> HIDE DEF x
<1>6. SumFunctionOnSet(f, A \ {x}) = 0
  BY <1>1, <1>4
<1> QED BY <1>2, <1>4, <1>5, <1>6

\* The sum of sums is the sum of both.
LEMMA SumAdd ==
  ASSUME NEW S, IsFiniteSet(S), NEW f, NEW g, NEW h,
         \A x \in S : g[x] \in Int /\ h[x] \in Int /\ f[x] = g[x] + h[x]
  PROVE  SumFunctionOnSet(f, S) = SumFunctionOnSet(g, S) + SumFunctionOnSet(h, S)
<1> DEFINE Adds(A) ==
             SumFunctionOnSet(f, A) = SumFunctionOnSet(g, A) + SumFunctionOnSet(h, A)
           T == {A \in SUBSET S : ~Adds(A)}
<1> SUFFICES ASSUME T # {} PROVE FALSE
  OBVIOUS
<1>1. PICK A \in T : \A B \in T : B \subseteq A => B = A
  <2>1. T \subseteq SUBSET S
    OBVIOUS
  <2> HIDE DEF T
  <2> QED BY <2>1, Smallest
<1>2. A \subseteq S /\ IsFiniteSet(A) /\ ~Adds(A)
  BY <1>1, FS_Subset
<1>3. A # {}
  <2> SUFFICES ASSUME A = {} PROVE FALSE
    OBVIOUS
  <2>1. /\ SumFunctionOnSet(f, A) = 0 /\ SumFunctionOnSet(g, A) = 0
        /\ SumFunctionOnSet(h, A) = 0
    BY <1>2, SumStep
  <2> QED BY <1>2, <2>1
<1>4. PICK x : x \in A
  BY <1>3
<1> DEFINE R == A \ {x}
<1>5. IsFiniteSet(R) /\ R \subseteq S /\ x \in S
  BY <1>2, <1>4, FS_Subset
<1>6. Adds(R)
  BY <1>1, <1>4
<1>7. /\ \A y \in S : f[y] \in Int
      /\ \A y \in S : g[y] \in Int
      /\ \A y \in S : h[y] \in Int
  OBVIOUS
<1>8. ASSUME NEW k, \A y \in S : k[y] \in Int
      PROVE  /\ SumFunctionOnSet(k, A) = k[x] + SumFunctionOnSet(k, R)
             /\ SumFunctionOnSet(k, R) \in Int
  <2> HIDE DEF T
  <2>1. \A y \in A : k[y] \in Int
    BY <1>2, <1>8
  <2>2. \A y \in R : k[y] \in Int
    BY <1>5, <1>8
  <2>3. SumFunctionOnSet(k, A) = k[x] + SumFunctionOnSet(k, R)
    BY <1>2, <1>4, <2>1, SumRemove
  <2>4. SumFunctionOnSet(k, R) \in Int
    BY <1>5, <2>2, SumRemove
  <2> QED BY <2>3, <2>4
<1>9. /\ SumFunctionOnSet(f, A) = f[x] + SumFunctionOnSet(f, R)
      /\ SumFunctionOnSet(g, A) = g[x] + SumFunctionOnSet(g, R)
      /\ SumFunctionOnSet(h, A) = h[x] + SumFunctionOnSet(h, R)
      /\ SumFunctionOnSet(g, R) \in Int /\ SumFunctionOnSet(h, R) \in Int
  BY <1>7, <1>8
<1>10. g[x] \in Int /\ h[x] \in Int /\ f[x] = g[x] + h[x]
  BY <1>5
<1> HIDE DEF T, R
<1> QED BY <1>2, <1>6, <1>9, <1>10

\* What is nothing outside of a set need not be added.
LEMMA SumInside ==
  ASSUME NEW S, IsFiniteSet(S), NEW I \in SUBSET S, NEW f,
         \A x \in S : f[x] \in Int, \A x \in S \ I : f[x] = 0
  PROVE  SumFunctionOnSet(f, S) = SumFunctionOnSet(f, I)
<1> DEFINE T == {A \in SUBSET S :
                   I \subseteq A /\ SumFunctionOnSet(f, A) # SumFunctionOnSet(f, I)}
<1> SUFFICES ASSUME T # {} PROVE FALSE
  OBVIOUS
<1>1. PICK A \in T : \A B \in T : B \subseteq A => B = A
  <2>1. T \subseteq SUBSET S
    OBVIOUS
  <2> HIDE DEF T
  <2> QED BY <2>1, Smallest
<1>2. /\ A \subseteq S /\ I \subseteq A /\ IsFiniteSet(A)
      /\ SumFunctionOnSet(f, A) # SumFunctionOnSet(f, I)
  BY <1>1, FS_Subset
<1>3. PICK x : x \in A \ I
  BY <1>2
<1> DEFINE R == A \ {x}
<1>4. /\ R \subseteq S /\ I \subseteq R /\ R \subseteq A /\ R # A
      /\ IsFiniteSet(R)
  BY <1>2, <1>3, FS_Subset
<1>5. SumFunctionOnSet(f, R) = SumFunctionOnSet(f, I)
  BY <1>1, <1>4
<1> HIDE DEF T
<1>6. f[x] = 0 /\ (\A y \in A : f[y] \in Int) /\ (\A y \in R : f[y] \in Int)
  BY <1>2, <1>3, <1>4
<1>7. SumFunctionOnSet(f, A) = f[x] + SumFunctionOnSet(f, R)
  <2>1. \A y \in A : f[y] \in Int
    BY <1>6
  <2>2. IsFiniteSet(A) /\ x \in A
    BY <1>2, <1>3
  <2> QED BY <2>1, <2>2, SumRemove
<1>8. SumFunctionOnSet(f, R) \in Int
  BY <1>4, <1>6, SumRemove
<1> QED BY <1>2, <1>5, <1>6, <1>7, <1>8

-----------------------------------------------------------------------------
(* Prizes by places *)

\* The bets of bs at a place, and those at another.
AtPlace(i, place, bs) == {b \in bs : place[b] = i}
Beside(i, place, bs) == bs \ AtPlace(i, place, bs)

\* One bet at most is at a place, and has the prize q of the place.
LEMMA OnePrize ==
  ASSUME NEW bs, IsFiniteSet(bs), NEW f \in [bs -> Nat], NEW place,
         NEW i, NEW q \in Nat, NEW as \in SUBSET bs,
         \A b, c \in as : place[b] = i /\ place[c] = i => b = c,
         \A b \in as : place[b] = i => f[b] = q,
         q = 0 \/ (\E b \in as : place[b] = i)
  PROVE  SumFunctionOnSet(f, as) = q + SumFunctionOnSet(f, Beside(i, place, as))
<1> DEFINE Sum(A) == SumFunctionOnSet(f, A)
           rest == Beside(i, place, as)
<1>0. IsFiniteSet(as) /\ IsFiniteSet(rest) /\ \A b \in as : f[b] \in Int
  <2>1. IsFiniteSet(as) /\ rest \subseteq as
    BY FS_Subset DEF Beside
  <2>2. IsFiniteSet(rest)
    BY <2>1, FS_Subset
  <2>3. ASSUME NEW b \in as PROVE f[b] \in Int
    <3>1. b \in bs
      OBVIOUS
    <3>2. f[b] \in Nat
      BY <3>1
    <3> QED BY <3>2
  <2> QED BY <2>1, <2>2, <2>3
<1>1. /\ Sum(as) \in Int /\ Sum(rest) \in Int
      /\ \A b \in as : Sum(as) = f[b] + Sum(as \ {b})
  <2>1. \A b \in rest : f[b] \in Int
    BY <1>0 DEF Beside
  <2>2. Sum(rest) \in Int
    BY <1>0, <2>1, SumRemove
  <2>3. Sum(as) \in Int
    BY <1>0, SumRemove
  <2>4. \A b \in as : SumFunctionOnSet(f, as) = f[b] + SumFunctionOnSet(f, as \ {b})
    <3>1. IsFiniteSet(as) /\ \A b \in as : f[b] \in Int
      BY <1>0
    <3> HIDE DEF Sum, rest
    <3> QED BY ONLY <3>1, SumRemove
  <2> QED BY <2>2, <2>3, <2>4
<1>2. ASSUME NEW b \in as, place[b] = i
      PROVE  Sum(as) = q + Sum(rest)
  <2>1. rest = as \ {b} /\ f[b] = q
    BY <1>2 DEF Beside, AtPlace
  <2>2. Sum(as) = f[b] + Sum(as \ {b})
    BY <1>1
  <2> HIDE DEF Sum, rest
  <2> QED BY <2>1, <2>2
<1>3. ASSUME \A b \in as : place[b] # i
      PROVE  Sum(as) = Sum(rest)
  <2>1. rest = as
    BY <1>3 DEF Beside, AtPlace
  <2> QED BY <2>1
<1> HIDE DEF Sum, rest
<1>4. CASE \E b \in as : place[b] = i
  BY <1>2, <1>4 DEF Sum, rest
<1>5. CASE q = 0 /\ \A b \in as : place[b] # i
  <2>1. q + Sum(rest) = Sum(rest)
    BY <1>1, <1>5
  <2> QED BY <1>3, <1>5, <2>1 DEF Sum, rest
<1> QED BY <1>4, <1>5

\* A prize that is not nothing has a bet at its place.
Filled(place, q, bs) == \A i \in 1..3 : q[i] = 0 \/ \E b \in bs : place[b] = i

\* The prizes of the first three places are all there is.
LEMMA ThreePrizes ==
  ASSUME NEW bs, IsFiniteSet(bs), NEW f \in [bs -> Nat], NEW place \in [bs -> Nat \ {0}],
         NEW q \in [1..3 -> Nat],
         \A b, c \in bs : place[b] = place[c] => b = c,
         \A b \in bs : f[b] = IF place[b] \in 1..3 THEN q[place[b]] ELSE 0,
         Filled(place, q, bs)
  PROVE  SumFunctionOnSet(f, bs) = q[1] + q[2] + q[3]
<1> DEFINE b1 == Beside(1, place, bs)
           b2 == Beside(2, place, b1)
           b3 == Beside(3, place, b2)
<1>1. b1 \subseteq bs /\ b2 \subseteq bs /\ b3 \subseteq bs
  BY DEF Beside
<1>2. \A i \in 1..3 : q[i] \in Nat /\ \A b \in bs : place[b] = i => f[b] = q[i]
  OBVIOUS
<1>3. \A b \in b3 : f[b] = 0
  BY DEF Beside, AtPlace
<1>10. /\ q[2] = 0 \/ (\E b \in b1 : place[b] = 2)
       /\ q[3] = 0 \/ (\E b \in b2 : place[b] = 3)
  BY DEF Filled, Beside, AtPlace
<1>11. q[1] = 0 \/ (\E b \in bs : place[b] = 1)
  BY DEF Filled
<1> HIDE DEF b1, b2, b3
<1>4. SumFunctionOnSet(f, bs) = q[1] + SumFunctionOnSet(f, b1)
  <2>1. 1 \in 1..3
    OBVIOUS
  <2> QED BY <1>2, <1>11, <2>1, OnePrize DEF b1
<1>5. SumFunctionOnSet(f, b1) = q[2] + SumFunctionOnSet(f, b2)
  <2>1. 2 \in 1..3
    OBVIOUS
  <2> QED BY <1>1, <1>2, <1>10, <2>1, OnePrize DEF b2
<1>6. SumFunctionOnSet(f, b2) = q[3] + SumFunctionOnSet(f, b3)
  <2>1. 3 \in 1..3
    OBVIOUS
  <2> QED BY <1>1, <1>2, <1>10, <2>1, OnePrize DEF b3
<1>7. SumFunctionOnSet(f, b3) = 0
  BY <1>1, <1>3, SumZero, FS_Subset
<1>8. /\ SumFunctionOnSet(f, bs) \in Int /\ SumFunctionOnSet(f, b1) \in Int
      /\ SumFunctionOnSet(f, b2) \in Int
  <2>1. ASSUME NEW as \in SUBSET bs
        PROVE  SumFunctionOnSet(f, as) \in Int
    <3>1. IsFiniteSet(as)
      BY FS_Subset
    <3>2. ASSUME NEW b \in as PROVE f[b] \in Int
      <4>1. b \in bs
        OBVIOUS
      <4>2. f[b] \in Nat
        BY <4>1
      <4> QED BY <4>2
    <3> QED BY <3>1, <3>2, SumRemove
  <2> QED BY <1>1, <2>1
<1>9. q[1] \in Nat /\ q[2] \in Nat /\ q[3] \in Nat
  OBVIOUS
<1> QED BY <1>4, <1>5, <1>6, <1>7, <1>8, <1>9

\* The same number, as often as there are bets.
LEMMA SumOfStakes ==
  ASSUME NEW bs, IsFiniteSet(bs), NEW f, NEW s \in Nat, \A b \in bs : f[b] = s
  PROVE  SumFunctionOnSet(f, bs) = s * Cardinality(bs)
<1> DEFINE T == {A \in SUBSET bs : SumFunctionOnSet(f, A) # s * Cardinality(A)}
<1> SUFFICES ASSUME T # {} PROVE FALSE
  OBVIOUS
<1>1. PICK A \in T : \A B \in T : B \subseteq A => B = A
  <2>1. T \subseteq SUBSET bs
    OBVIOUS
  <2> HIDE DEF T
  <2> QED BY <2>1, Smallest
<1>2. A \subseteq bs /\ IsFiniteSet(A) /\ SumFunctionOnSet(f, A) # s * Cardinality(A)
  BY <1>1, FS_Subset
<1>3. A # {}
  <2> SUFFICES ASSUME A = {} PROVE FALSE
    OBVIOUS
  <2>1. SumFunctionOnSet(f, A) = 0 /\ Cardinality(A) = 0
    BY FS_EmptySet, SumStep
  <2> HIDE DEF T
  <2> QED BY <1>2, <2>1
<1>4. PICK x \in A : TRUE
  BY <1>3
<1>5. SumFunctionOnSet(f, A) = s + SumFunctionOnSet(f, A \ {x})
  <2>1. \A b \in A : f[b] \in Int
    BY <1>2
  <2>2. SumFunctionOnSet(f, A) = f[x] + SumFunctionOnSet(f, A \ {x})
    BY <1>2, <2>1, SumRemove
  <2> QED BY <1>2, <2>2
<1>6. SumFunctionOnSet(f, A \ {x}) = s * Cardinality(A \ {x})
  BY <1>1, <1>2
<1>7. Cardinality(A \ {x}) = Cardinality(A) - 1 /\ Cardinality(A) \in Nat
  BY <1>2, FS_RemoveElement, FS_CardinalityType
<1> DEFINE n == Cardinality(A)
<1>8. s + s * (n - 1) = s * n
  <2>1. n \in Nat
    BY <1>7
  <2> HIDE DEF n
  <2> QED BY <2>1
<1> QED BY <1>2, <1>5, <1>6, <1>7, <1>8

\* A hundredth part of a number, taken s times.
PartOf(m, s) == (m * s) \div 100

\* Of a number that a hundred divides, parts that make up the whole are all of it.
LEMMA PartsOfWhole ==
  ASSUME NEW k \in Nat, NEW m, m = 100 * k
  PROVE  /\ PartOf(m, 80) \in Nat /\ PartOf(m, 20) \in Nat
         /\ PartOf(m, 75) \in Nat /\ PartOf(m, 25) \in Nat
         /\ PartOf(m, 15) \in Nat /\ PartOf(m, 10) \in Nat
         /\ PartOf(m, 50) \in Nat /\ PartOf(m, 35) \in Nat
         /\ PartOf(m, 80) + PartOf(m, 20) = m
         /\ PartOf(m, 75) + PartOf(m, 25) = m
         /\ PartOf(m, 75) + PartOf(m, 15) + PartOf(m, 10) = m
         /\ PartOf(m, 50) + PartOf(m, 35) + PartOf(m, 15) = m
<1>1. /\ PartOf(m, 80) = 80 * k /\ PartOf(m, 20) = 20 * k
      /\ PartOf(m, 75) = 75 * k /\ PartOf(m, 25) = 25 * k
      /\ PartOf(m, 15) = 15 * k /\ PartOf(m, 10) = 10 * k
      /\ PartOf(m, 50) = 50 * k /\ PartOf(m, 35) = 35 * k
  BY DEF PartOf
<1> QED BY <1>1

-----------------------------------------------------------------------------
(* The bull's eye game: what the results promise *)

Pool(bs) == Cardinality(bs) * Stake
Exact(bs, price) == \E b \in bs : Place(b, bs, price) = 1 /\ IsExactPrice(b, price)

\* What a place wins, the fee included.
PrizeOf(bs, price, place) ==
  LET shares == Shares(Cardinality(bs), Exact(bs, price))
  IN IF place \in DOMAIN shares THEN PartOf(Pool(bs), shares[place]) ELSE 0

\* A hundred divides the pool.
LEMMA PoolDivides ==
  ASSUME NEW bs \in SUBSET Bets
  PROVE  \E k \in Nat : Pool(bs) = 100 * k
<1> DEFINE n == Cardinality(bs)
           k == Stake \div 100
<1>1. n \in Nat
  BY BetsAssumption, FS_Subset, FS_CardinalityType
<1>2. k \in Nat /\ Stake = 100 * k
  BY StakeAssumption
<1> HIDE DEF n, k
<1>3. n * k \in Nat /\ n * (100 * k) = 100 * (n * k)
  BY <1>1, <1>2
<1>4. Pool(bs) = 100 * (n * k)
  BY <1>2, <1>3 DEF Pool, n
<1> QED BY <1>3, <1>4

\* The pool is a number.
LEMMA PoolTyped == ASSUME NEW bs \in SUBSET Bets PROVE IsFiniteSet(bs) /\ Pool(bs) \in Nat
<1>1. IsFiniteSet(bs)
  BY BetsAssumption, FS_Subset
<1>2. Cardinality(bs) \in Nat /\ Stake \in Nat
  BY <1>1, FS_CardinalityType, StakeAssumption
<1> QED BY <1>1, <1>2 DEF Pool

\* The prizes are numbers, and together the pool; of two bets none has the third.
LEMMA PrizesTyped ==
  ASSUME NEW bs \in SUBSET Bets, NEW price
  PROVE  /\ \A i : PrizeOf(bs, price, i) \in Nat
         /\ \A i : i \notin 1..3 => PrizeOf(bs, price, i) = 0
         /\ PrizeOf(bs, price, 1) + PrizeOf(bs, price, 2) + PrizeOf(bs, price, 3) = Pool(bs)
         /\ Cardinality(bs) = 2 => PrizeOf(bs, price, 3) = 0
<1> DEFINE m == Pool(bs)
           P(i) == PrizeOf(bs, price, i)
           shares == Shares(Cardinality(bs), Exact(bs, price))
<1>0. PICK k \in Nat : m = 100 * k
  BY PoolDivides
<1>1. \A i : P(i) = IF i \in DOMAIN shares THEN PartOf(m, shares[i]) ELSE 0
  BY DEF PrizeOf
<1>2. \/ shares = <<80, 20>> \/ shares = <<75, 25>>
      \/ shares = <<75, 15, 10>> \/ shares = <<50, 35, 15>>
  BY DEF Shares
<1>8. Cardinality(bs) = 2 => shares = <<80, 20>> \/ shares = <<75, 25>>
  BY DEF Shares
<1> HIDE DEF m, P, shares
<1>3. ASSUME NEW a, NEW b, shares = <<a, b>>
      PROVE  /\ P(1) = PartOf(m, a) /\ P(2) = PartOf(m, b)
             /\ \A i : i \notin {1, 2} => P(i) = 0
  <2>1. /\ shares[1] = a /\ shares[2] = b /\ DOMAIN shares = {1, 2}
    BY <1>3
  <2> QED BY <1>1, <2>1
<1>4. ASSUME NEW a, NEW b, NEW c, shares = <<a, b, c>>
      PROVE  /\ P(1) = PartOf(m, a) /\ P(2) = PartOf(m, b) /\ P(3) = PartOf(m, c)
             /\ \A i : i \notin {1, 2, 3} => P(i) = 0
  <2>1. /\ shares[1] = a /\ shares[2] = b /\ shares[3] = c /\ DOMAIN shares = {1, 2, 3}
    BY <1>4
  <2> QED BY <1>1, <2>1
<1>5. /\ P(1) \in Nat /\ P(2) \in Nat /\ P(3) \in Nat
      /\ P(1) + P(2) + P(3) = m /\ \A i : i \notin {1, 2, 3} => P(i) = 0
  <2>1. CASE shares = <<80, 20>>
    <3>1. /\ P(1) = PartOf(m, 80) /\ P(2) = PartOf(m, 20) /\ P(3) = 0
          /\ \A i : i \notin {1, 2, 3} => P(i) = 0
      BY <1>3, <2>1
    <3>2. /\ PartOf(m, 80) \in Nat /\ PartOf(m, 20) \in Nat
          /\ PartOf(m, 80) + PartOf(m, 20) = m
      BY <1>0, PartsOfWhole
    <3> QED BY <1>0, <3>1, <3>2
  <2>2. CASE shares = <<75, 25>>
    <3>1. /\ P(1) = PartOf(m, 75) /\ P(2) = PartOf(m, 25) /\ P(3) = 0
          /\ \A i : i \notin {1, 2, 3} => P(i) = 0
      BY <1>3, <2>2
    <3>2. /\ PartOf(m, 75) \in Nat /\ PartOf(m, 25) \in Nat
          /\ PartOf(m, 75) + PartOf(m, 25) = m
      BY <1>0, PartsOfWhole
    <3> QED BY <1>0, <3>1, <3>2
  <2>3. CASE shares = <<75, 15, 10>>
    BY <1>0, <1>4, <2>3, PartsOfWhole
  <2>4. CASE shares = <<50, 35, 15>>
    BY <1>0, <1>4, <2>4, PartsOfWhole
  <2> QED BY <1>2, <2>1, <2>2, <2>3, <2>4
<1>6. \A i : P(i) \in Nat
  BY <1>5
<1>7. \A i : i \notin 1..3 => P(i) = 0
  BY <1>5
<1>9. Cardinality(bs) = 2 => P(3) = 0
  <2>1. ASSUME NEW a, NEW b, shares = <<a, b>>
        PROVE  P(3) = 0
    BY <1>3, <2>1
  <2> QED BY <1>8, <2>1
<1> QED BY <1>5, <1>6, <1>7, <1>9 DEF P, m

\* The place of a bet is one, two, three and so on.
LEMMA PlaceTyped ==
  ASSUME NEW bs \in SUBSET Bets, NEW b, NEW price
  PROVE  Place(b, bs, price) \in Nat \ {0}
<1>1. IsFiniteSet({c \in bs : Before(c, b, price)})
  BY BetsAssumption, FS_Subset
<1>2. Cardinality({c \in bs : Before(c, b, price)}) \in Nat
  BY <1>1, FS_CardinalityType
<1> QED BY <1>2 DEF Place

\* The places of bets are all those from one to their number.
LEMMA PlacesTaken ==
  ASSUME Ordered, NEW bs \in SUBSET Bets, NEW price \in Prices,
         \A b \in bs : HasCreatedAt(b), NEW i \in 1 .. Cardinality(bs)
  PROVE  \E b \in bs : Place(b, bs, price) = i
<1> DEFINE n == Cardinality(bs)
           place == [b \in bs |-> Place(b, bs, price)]
<1>0. IsFiniteSet(bs) /\ n \in Nat
  BY PoolTyped, FS_CardinalityType
<1>1. ASSUME NEW b \in bs
      PROVE  Place(b, bs, price) \in 1 .. n
  <2>1. Ahead(b, bs, price) \subseteq bs /\ b \notin Ahead(b, bs, price)
    BY BeforeIsOrder DEF Ahead
  <2>2. /\ Cardinality(Ahead(b, bs, price)) <= n /\ Cardinality(Ahead(b, bs, price)) # n
        /\ IsFiniteSet(Ahead(b, bs, price))
    BY <1>0, <2>1, FS_Subset
  <2>3. Cardinality(Ahead(b, bs, price)) \in Nat
    BY <2>2, FS_CardinalityType
  <2>4. Place(b, bs, price) = 1 + Cardinality(Ahead(b, bs, price))
    BY DEF Place, Ahead
  <2> HIDE DEF n
  <2> QED BY <1>0, <2>2, <2>3, <2>4
<1>2. ASSUME NEW b \in bs, NEW c \in bs, b # c
      PROVE  Place(b, bs, price) # Place(c, bs, price)
  <2>1. Place(b, bs, price) \in Nat /\ Place(c, bs, price) \in Nat
    BY PlaceTyped
  <2>2. Before(b, c, price) \/ Before(c, b, price)
    BY <1>2, BeforeIsOrder
  <2>3. \/ Place(b, bs, price) < Place(c, bs, price)
        \/ Place(c, bs, price) < Place(b, bs, price)
    BY <2>2, PlacesFollow
  <2> QED BY <2>1, <2>3
<1> HIDE DEF n
<1>3. place \in Injection(bs, 1 .. n)
  BY <1>1, <1>2 DEF Injection, IsInjective
<1>4. IsFiniteSet(1 .. n) /\ Cardinality(1 .. n) = n
  BY <1>0, FS_Interval
<1>5. place \in Surjection(bs, 1 .. n)
  BY <1>3, <1>4, FS_Injection DEF n
<1>6. \A j \in 1 .. n : \E b \in bs : place[b] = j
  BY <1>5 DEF Surjection
<1> QED BY <1>6 DEF n

\* The results are rows; a ranked bet has its place, and its outcome and fee are
\* the prize of the place.
LEMMA ResultTyped ==
  ASSUME NEW bs \in SUBSET Bets, NEW price
  PROVE  LET result == GetBullsEyeGameResult(bs, price)
         IN /\ \A b \in bs : result[b] \in Row
            /\ IsRejected(bs, price) => \A b \in bs : result[b].place = 0
            /\ ~IsRejected(bs, price) =>
                 \A b \in bs : /\ result[b].place = Place(b, bs, price)
                               /\ result[b].outcome + result[b].fee =
                                    PrizeOf(bs, price, Place(b, bs, price))
<1> DEFINE result == GetBullsEyeGameResult(bs, price)
           P(i) == PrizeOf(bs, price, i)
           Fee(i) == (P(i) * PlatformFeePercent) \div 100
<1>1. CASE IsRejected(bs, price)
  <2>1. \A b \in bs : result[b] = NoRow
    BY <1>1 DEF GetBullsEyeGameResult
  <2>2. NoRow \in Row /\ NoRow.place = 0
    BY DEF NoRow, Row
  <2> QED BY <1>1, <2>1, <2>2
<1>2. CASE ~IsRejected(bs, price)
  <2>1. ASSUME NEW b \in bs
        PROVE  result[b] = [place |-> Place(b, bs, price),
                            outcome |-> P(Place(b, bs, price)) - Fee(Place(b, bs, price)),
                            fee |-> Fee(Place(b, bs, price))]
    BY <1>2 DEF GetBullsEyeGameResult, PrizeOf, PartOf, Pool, Exact
  <2>2. \A i : Fee(i) \in Nat /\ P(i) - Fee(i) \in Nat /\ P(i) - Fee(i) + Fee(i) = P(i)
    <3> TAKE i
    <3>1. P(i) \in Nat
      BY PrizesTyped
    <3> HIDE DEF P
    <3> QED BY <3>1 DEF PlatformFeePercent
  <2>3. \A b \in bs : Place(b, bs, price) \in Nat
    BY PlaceTyped
  <2> HIDE DEF P, Fee, result
  <2>4. ASSUME NEW b \in bs
        PROVE  /\ result[b] \in Row
               /\ result[b].place = Place(b, bs, price)
               /\ result[b].outcome + result[b].fee = P(Place(b, bs, price))
    <3> DEFINE i == Place(b, bs, price)
    <3>1. result[b] = [place |-> i, outcome |-> P(i) - Fee(i), fee |-> Fee(i)]
      BY <2>1
    <3>2. i \in Nat /\ Fee(i) \in Nat /\ P(i) - Fee(i) \in Nat
          /\ P(i) - Fee(i) + Fee(i) = P(i)
      BY <2>2, <2>3
    <3> HIDE DEF i
    <3>3. result[b] \in Row
      BY <3>1, <3>2 DEF Row
    <3>4. /\ result[b].place = i /\ result[b].outcome = P(i) - Fee(i)
          /\ result[b].fee = Fee(i)
      BY <3>1
    <3> QED BY <3>2, <3>3, <3>4 DEF i
  <2> QED BY <1>2, <2>4 DEF P, result
<1> QED BY <1>1, <1>2

\* What the results of bets promise are their stakes.
LEMMA ResultsMet ==
  ASSUME Ordered, NEW bs \in SUBSET Bets, \A b \in bs : HasCreatedAt(b),
         NEW price \in Prices \cup {NoPrice}, NEW f,
         \A b \in bs : LET one == GetBullsEyeGameResult(bs, price)[b]
                       IN f[b] = IF one.place = 0 THEN Stake ELSE one.outcome + one.fee
  PROVE  SumFunctionOnSet(f, bs) = Stake * Cardinality(bs)
<1> DEFINE result == GetBullsEyeGameResult(bs, price)
<1>0. /\ IsFiniteSet(bs) /\ Cardinality(bs) \in Nat /\ Stake \in Nat
      /\ \A b \in bs : f[b] = IF result[b].place = 0 THEN Stake
                              ELSE result[b].outcome + result[b].fee
  BY PoolTyped, FS_CardinalityType, StakeAssumption
<1>1. CASE IsRejected(bs, price)
  <2>1. \A b \in bs : f[b] = Stake
    BY <1>0, <1>1, ResultTyped
  <2>2. SumFunctionOnSet(f, bs) = Stake * Cardinality(bs)
    BY <1>0, <2>1, SumOfStakes
  <2> QED BY <1>0, <2>2
<1>2. CASE ~IsRejected(bs, price)
  <2> DEFINE place == [b \in bs |-> Place(b, bs, price)]
             q == [i \in 1..3 |-> PrizeOf(bs, price, i)]
             g == [b \in bs |-> PrizeOf(bs, price, Place(b, bs, price))]
  <2>0. price \in Prices
    BY <1>2 DEF IsRejected
  <2>1. place \in [bs -> Nat \ {0}] /\ q \in [1..3 -> Nat] /\ g \in [bs -> Nat]
    BY PlaceTyped, PrizesTyped
  <2>2. \A b, c \in bs : place[b] = place[c] => b = c
    <3> SUFFICES ASSUME NEW b \in bs, NEW c \in bs, b # c
                 PROVE  Place(b, bs, price) # Place(c, bs, price)
      OBVIOUS
    <3>1. Place(b, bs, price) \in Nat /\ Place(c, bs, price) \in Nat
      BY PlaceTyped
    <3>2. Before(b, c, price) \/ Before(c, b, price)
      BY <2>0, BeforeIsOrder
    <3>3. \/ Place(b, bs, price) < Place(c, bs, price)
          \/ Place(c, bs, price) < Place(b, bs, price)
      BY <2>0, <3>2, PlacesFollow
    <3> QED BY <3>1, <3>3
  <2>11. ASSUME NEW i \in 1..3
         PROVE  q[i] = 0 \/ \E b \in bs : place[b] = i
    <3>1. Cardinality(bs) >= 2
      BY <1>0, <1>2 DEF IsRejected
    <3>2. CASE i \in 1 .. Cardinality(bs)
      BY <2>0, <3>2, PlacesTaken
    <3>3. CASE i \notin 1 .. Cardinality(bs)
      <4>1. i = 3 /\ Cardinality(bs) = 2
        BY <1>0, <3>1, <3>3
      <4> QED BY <4>1, PrizesTyped
    <3> QED BY <3>2, <3>3
  <2>3. \A b \in bs : g[b] = IF place[b] \in 1..3 THEN q[place[b]] ELSE 0
    BY PrizesTyped
  <2>4. \A b \in bs : f[b] = g[b] /\ g[b] \in Int
    <3>1. ASSUME NEW b \in bs
          PROVE  f[b] = PrizeOf(bs, price, Place(b, bs, price))
      <4>1. result[b].place = Place(b, bs, price) /\ Place(b, bs, price) # 0
        <5>1. result[b].place = Place(b, bs, price)
          BY <1>2, ResultTyped
        <5>2. Place(b, bs, price) \in Nat \ {0}
          BY PlaceTyped
        <5> QED BY <5>1, <5>2
      <4>2. result[b].outcome + result[b].fee = PrizeOf(bs, price, Place(b, bs, price))
        BY <1>2, ResultTyped
      <4>3. f[b] = IF result[b].place = 0 THEN Stake
                   ELSE result[b].outcome + result[b].fee
        BY <1>0
      <4> HIDE DEF result
      <4> QED BY <4>1, <4>2, <4>3
    <3>2. ASSUME NEW b \in bs
          PROVE  PrizeOf(bs, price, Place(b, bs, price)) \in Int
      <4>1. PrizeOf(bs, price, Place(b, bs, price)) \in Nat
        BY PrizesTyped
      <4> QED BY <4>1
    <3> QED BY <3>1, <3>2
  <2>5. q[1] + q[2] + q[3] = Pool(bs)
    BY PrizesTyped
  <2>6. q[1] \in Nat /\ q[2] \in Nat /\ q[3] \in Nat /\ Pool(bs) \in Nat
    BY <2>1, PoolTyped
  <2> HIDE DEF place, q, g
  <2>12. place \in [bs -> Nat \ {0}] /\ q \in [1..3 -> Nat] /\ g \in [bs -> Nat]
    BY <2>1
  <2>13. \A i \in 1..3 : q[i] = 0 \/ (\E b \in bs : place[b] = i)
    BY <2>11
  <2>7. SumFunctionOnSet(g, bs) = q[1] + q[2] + q[3]
    <3>1. IsFiniteSet(bs)
      BY <1>0
    <3>2. Filled(place, q, bs)
      BY <2>13 DEF Filled
    <3> QED BY ONLY <2>12, <2>2, <2>3, <3>1, <3>2, ThreePrizes
  <2>8. SumFunctionOnSet(g, bs) \in Int
    BY <1>0, <2>4, SumRemove
  <2>9. SumFunctionOnSet(f, bs) = SumFunctionOnSet(g, bs)
    BY <1>0, <2>4, SumSame
  <2>10. Pool(bs) = Stake * Cardinality(bs)
    BY <1>0 DEF Pool
  <2> QED BY <2>5, <2>6, <2>7, <2>8, <2>9, <2>10
<1> QED BY <1>1, <1>2

-----------------------------------------------------------------------------
(* The bull's eye game: the accounts *)

\* A bet is settled when its round is over.
SettledIsOver == \A b \in Bets : bet[b].result = "SETTLED" => game[bet[b].game] \in Over

\* The results of a round promise the stakes of its settled bets, all of them.
PromisesMet ==
  \A g \in Games :
    SumFunctionOnSet(Promised, SettledBetsOf(g)) = Stake * Cardinality(SettledBetsOf(g))

\* The ledger was not given the CLOSE event once more, and no bet came too late.
Clean(g) == Event(g, "CLOSE") \notin redelivered /\ BetsOf(g) \cap late = {}

\* The account of a round has the stakes of all its bets until they are paid,
\* all at once, and nothing after that.
Held(g) ==
  /\ SettledBetsOf(g) = {} \/ SettledBetsOf(g) = BetsOf(g)
  /\ \/ /\ \A b \in BetsOf(g) : paid[b] = 0
        /\ account[g] = Stake * Cardinality(BetsOf(g))
     \/ /\ SettledBetsOf(g) = BetsOf(g)
        /\ \A b \in BetsOf(g) : paid[b] # 0
        /\ account[g] = 0

AccountsHeld == \A g \in Games : Clean(g) => Held(g)

\* The rows and the accounts have their types.
BooksTyped ==
  /\ row \in [Bets -> Row]
  /\ account \in [Games -> Int]

\* A step leaves the settled bets of a round and their rows, or it settles all
\* bets that a resolver has read, when there were none.
LEMMA SettledSteps ==
  ASSUME Inv, Chained, MeetSettled, [BullsEyeNext]_bvars, NEW g \in Games
  PROVE  \/ /\ SettledBetsOf(g)' = SettledBetsOf(g)
            /\ \A b \in SettledBetsOf(g) : row'[b] = row[b]
         \/ \E r \in resolving :
              /\ Ranking(r) /\ r.game = g /\ r.bets # {}
              /\ SettledBetsOf(g) = {} /\ SettledBetsOf(g)' = r.bets
<1>1. CASE Resting
  <2>1. ASSUME NEW b \in Bets, bet'[b].game = g, bet'[b].result = "SETTLED"
        PROVE  bet[b].game = g /\ bet[b].result = "SETTLED"
    BY <1>1, <2>1, BetsStay DEF Resting
  <2>2. SettledBetsOf(g)' \subseteq SettledBetsOf(g)
    BY <2>1 DEF SettledBetsOf, BetsOf
  <2> QED BY <1>1, <2>2, BetsStay DEF Resting
<1>2. ASSUME NEW r \in resolving, Ranking(r)
      PROVE  \/ /\ SettledBetsOf(g)' = SettledBetsOf(g)
                /\ \A b \in SettledBetsOf(g) : row'[b] = row[b]
             \/ /\ r.game = g /\ r.bets # {}
                /\ SettledBetsOf(g) = {} /\ SettledBetsOf(g)' = r.bets
  <2>0. /\ r.bets \subseteq BetsOf(r.game) /\ r.bets \subseteq Bets
        /\ \A b \in r.bets : bet[b].result = "PENDING"
    BY <1>2 DEF Chained, Ranking, Commits
  <2>1. CASE r.game # g \/ r.bets = {}
    <3>1. \A b \in Bets : bet[b].game = g \/ bet'[b].game = g =>
            bet'[b] = bet[b] /\ row'[b] = row[b]
      BY <1>2, <2>0, <2>1, RankingSettles DEF BetsOf
    <3> QED BY <3>1 DEF SettledBetsOf, BetsOf
  <2>2. CASE r.game = g /\ r.bets # {}
    <3>1. r.bets \cap SettledBetsOf(g) = {}
      BY <2>0 DEF SettledBetsOf
    <3>2. SettledBetsOf(g) = {}
      BY <2>2, <3>1 DEF MeetSettled
    <3>3. ASSUME NEW b \in Bets, bet'[b].game = g, bet'[b].result = "SETTLED"
          PROVE  b \in r.bets
      <4>1. b \notin r.bets => bet'[b] = bet[b]
        BY <1>2, RankingSettles
      <4> QED BY <3>2, <3>3, <4>1 DEF SettledBetsOf, BetsOf
    <3>4. \A b \in r.bets : b \in Bets /\ bet'[b].game = g /\ bet'[b].result = "SETTLED"
      BY <1>2, <2>0, <2>2, RankingSettles DEF BetsOf
    <3>5. SettledBetsOf(g)' = r.bets
      BY <3>3, <3>4 DEF SettledBetsOf, BetsOf
    <3> QED BY <2>2, <3>2, <3>5
  <2> QED BY <2>1, <2>2
<1> QED BY <1>1, <1>2, RankSteps

\* Every step keeps settled bets in rounds that are over.
LEMMA OverStep ==
  /\ Inv /\ Chained /\ MeetSettled /\ SettledIsOver /\ [BullsEyeNext]_bvars
  => SettledIsOver'
<1> SUFFICES ASSUME Inv, Chained, MeetSettled, SettledIsOver, [BullsEyeNext]_bvars,
                    NEW b \in Bets, bet'[b].result = "SETTLED", NEW g, bet'[b].game = g
             PROVE  game'[g] \in Over
  BY DEF SettledIsOver
<1>1. \A h \in Games : game[h] \in Over => game'[h] \in Over
  BY RoundsOfBullsEye, RoundSteps DEF RoundsStep, Refused, db, Inv
<1>2. g \in Games
  <2>1. Inv'
    BY BullsEyeInvStep
  <2>2. bet'[b] \in Bet \cup {NoBet}
    BY <2>1 DEF Inv, Typed, TypeOK
  <2> QED BY <2>2, BetOrNone
<1>3. b \in SettledBetsOf(g)'
  BY DEF SettledBetsOf, BetsOf
<1>4. CASE bet[b].result = "SETTLED"
  BY <1>1, <1>2, <1>4, BetsStay DEF SettledIsOver
<1>5. CASE bet[b].result # "SETTLED"
  <2>1. b \notin SettledBetsOf(g)
    BY <1>5 DEF SettledBetsOf
  <2>2. PICK r \in resolving : Ranking(r) /\ r.game = g
    BY <1>2, <1>3, <2>1, SettledSteps
  <2>3. game[r.game] \in Over
    BY <2>2 DEF Ranking, Commits, Over
  <2> QED BY <1>1, <1>2, <2>2, <2>3
<1> QED BY <1>4, <1>5

\* Every step keeps the types of the rows.
LEMMA RowsStep ==
  ASSUME Inv, row \in [Bets -> Row], [BullsEyeNext]_bvars
  PROVE  row' \in [Bets -> Row]
<1>1. ASSUME NEW r \in resolving, Ranking(r)
      PROVE  row' \in [Bets -> Row]
  <2>1. /\ r.bets \in SUBSET Bets
        /\ row' = [b \in Bets |->
             IF b \in r.bets THEN GetBullsEyeGameResult(r.bets, r.price)[b] ELSE row[b]]
    BY <1>1 DEF Ranking
  <2>2. \A b \in r.bets : GetBullsEyeGameResult(r.bets, r.price)[b] \in Row
    BY <2>1, ResultTyped
  <2> QED BY <2>1, <2>2
<1> QED BY <1>1, RankSteps DEF Resting

\* What is promised is a number.
LEMMA PromisedTyped ==
  ASSUME row \in [Bets -> Row]
  PROVE  \A b \in Bets : Promised[b] \in Nat
<1> SUFFICES ASSUME NEW b \in Bets PROVE Promised[b] \in Nat
  OBVIOUS
<1>1. /\ row[b].outcome \in Nat /\ row[b].fee \in Nat /\ Stake \in Nat
      /\ Promised[b] = IF row[b].place = 0 THEN Stake ELSE row[b].outcome + row[b].fee
  BY StakeAssumption DEF Row, Promised, Rejected
<1>2. row[b].outcome + row[b].fee \in Nat
  BY <1>1
<1> QED BY <1>1, <1>2

\* Every step keeps the promises met.
LEMMA MetStep ==
  /\ Inv /\ Ordered /\ Chained /\ MeetSettled /\ row \in [Bets -> Row]
  /\ PromisesMet /\ [BullsEyeNext]_bvars
  => PromisesMet'
<1> SUFFICES ASSUME Inv, Ordered, Chained, MeetSettled, row \in [Bets -> Row],
                    PromisesMet, [BullsEyeNext]_bvars, NEW g \in Games,
                    NEW S, S = SettledBetsOf(g)'
             PROVE  SumFunctionOnSet(Promised', S) = Stake * Cardinality(S)
  BY DEF PromisesMet
<1>0. S \in SUBSET Bets /\ IsFiniteSet(S)
  BY PoolTyped DEF SettledBetsOf, BetsOf
<1>1. CASE SettledBetsOf(g) = S /\ \A b \in S : row'[b] = row[b]
  <2>1. \A b \in S : Promised[b] \in Int /\ Promised'[b] = Promised[b]
    <3> TAKE b \in S
    <3>1. Promised'[b] = Promised[b]
      BY <1>0, <1>1 DEF Promised, Rejected
    <3>2. Promised[b] \in Nat
      BY <1>0, PromisedTyped
    <3> QED BY <3>1, <3>2
  <2>2. SumFunctionOnSet(Promised', S) = SumFunctionOnSet(Promised, S)
    BY <1>0, <2>1, SumSame
  <2> QED BY <1>1, <2>2 DEF PromisesMet
<1>2. ASSUME NEW r \in resolving, Ranking(r), r.bets = S
      PROVE  SumFunctionOnSet(Promised', S) = Stake * Cardinality(S)
  <2>1. \A b \in S : HasCreatedAt(b)
    BY <1>0, <1>2, RankingSettles, BetOrNone DEF HasCreatedAt
  <2>2. r.price \in Prices \cup {NoPrice}
    BY DEF Inv, Typed, TypeOK, Resolution
  <2>3. \A b \in S : LET one == GetBullsEyeGameResult(S, r.price)[b]
                     IN Promised'[b] = IF one.place = 0 THEN Stake ELSE one.outcome + one.fee
    <3> TAKE b \in S
    <3>1. row'[b] = GetBullsEyeGameResult(S, r.price)[b]
      BY <1>0, <1>2 DEF Ranking
    <3> QED BY <1>0, <3>1 DEF Promised, Rejected
  <2> QED BY <1>0, <2>1, <2>2, <2>3, ResultsMet
<1> QED BY <1>1, <1>2, SettledSteps

\* Stakes come with bets, and go with payouts.
LEMMA AccountSteps ==
  ASSUME [BullsEyeNext]_bvars
  PROVE  \/ UNCHANGED <<money, paid>>
         \/ \E b \in Bets : CommitAddBet(b)
         \/ \E g \in Games : GiveRewardsForBullsEye(g)
<1>1. ASSUME BullsEyeWorker
      PROVE  UNCHANGED <<money, paid>>
  BY <1>1 DEF BullsEyeWorker, MoneyAndRanksStay, OnBullsEyeGameOpened,
      OnBullsEyeGameStarted, JobFires, StartBullsEyeGame, FinishBullsEyeGame,
      OnBullsEyeGameClosed, CreateBullsEyeGame, FindOpenGames, EndOnModuleInit,
      MoveOpenGameToPendingState, OnBullsEyeGameChanged, ResolveGame, PublishGameChanged,
      OnOpenedOrStarted, TimerFires, StartGame, FinishGame, OnClosed, CreateNext, BootFind,
      BootEnd, BootClose, OnPending, Resolve, Publish
<1>2. ASSUME NEW g \in Games, Time(g) \/ RollBackPrizes(g)
      PROVE  UNCHANGED <<money, paid>>
  BY <1>2 DEF Time, RollBackPrizes, MoneyAndRanksStay, Tick, RollBackRewards
<1>3. ASSUME NEW b \in Bets, BeginAddBet(b) \/ FailAddBet(b)
      PROVE  UNCHANGED <<money, paid>>
  BY <1>3 DEF BeginAddBet, FailAddBet, BeginBet, AbortBet
<1>4. ASSUME Stop \/ (Done /\ MoneyAndRanksStay) \/ UNCHANGED bvars
      PROVE  UNCHANGED <<money, paid>>
  BY <1>4 DEF Stop, Done, MoneyAndRanksStay, bvars, vars, Crash
<1> QED BY <1>1, <1>2, <1>3, <1>4 DEF BullsEyeNext

\* Only a bet that is placed is a new one of a round.
LEMMA BetsOfSteps ==
  ASSUME Inv, [BullsEyeNext]_bvars, ~\E b \in Bets : CommitAddBet(b), NEW g \in Games
  PROVE  BetsOf(g)' = BetsOf(g)
<1>1. ASSUME NEW b \in Bets
      PROVE  bet'[b].game = bet[b].game
  <2>1. CASE bet' = bet
    BY <2>1
  <2>2. CASE placing' = placing /\ [Next]_vars
    <3>1. ~Made(b)
      BY <2>2 DEF Made, CommitBet, Inv, Typed, TypeOK
    <3> QED BY <2>2, <3>1, SameRound DEF Inv
  <2>3. bet' = bet \/ placing' = placing
    BY OrderSteps DEF BeginAddBet, FailAddBet, BeginBet, AbortBet, db
  <2> QED BY <2>1, <2>2, <2>3, RoundsOfBullsEye DEF RoundsStep, Refused, db
<1> QED BY <1>1 DEF BetsOf

\* Every step keeps the accounts numbers.
LEMMA AccountsTyped ==
  ASSUME Inv, account \in [Games -> Int], [BullsEyeNext]_bvars
  PROVE  account' \in [Games -> Int]
<1>1. CASE UNCHANGED money
  BY <1>1 DEF money
<1>2. ASSUME NEW b \in Bets, CommitAddBet(b)
      PROVE  account' \in [Games -> Int]
  <2>1. placing[b] \in Games
    BY <1>2, NGamesAssumption DEF CommitAddBet, CommitBet, Inv, Typed, TypeOK, Games
  <2>2. account[placing[b]] + Stake \in Int
    BY <2>1, StakeAssumption
  <2>3. account' = [account EXCEPT ![placing[b]] = account[placing[b]] + Stake]
    BY <1>2 DEF CommitAddBet
  <2> QED BY <2>1, <2>2, <2>3
<1>3. ASSUME NEW g \in Games, GiveRewardsForBullsEye(g)
      PROVE  account' \in [Games -> Int]
  <2>1. LedgerEntries(SettledBetsOf(g)).debit \in Int
    <3>1. SettledBetsOf(g) \in SUBSET Bets
      BY DEF SettledBetsOf, BetsOf
    <3>2. Cardinality(SettledBetsOf(g)) \in Nat
      BY <3>1, PoolTyped, FS_CardinalityType
    <3> QED BY <3>2, StakeAssumption DEF LedgerEntries
  <2>2. \/ account' = account
        \/ account' = [account EXCEPT ![g] = @ - LedgerEntries(SettledBetsOf(g)).debit]
    BY <1>3 DEF GiveRewardsForBullsEye, money
  <2> QED BY <2>1, <2>2
<1> QED BY <1>1, <1>2, <1>3, AccountSteps

\* A round that is clean was clean before.
LEMMA CleanStays ==
  ASSUME Inv, [BullsEyeNext]_bvars, NEW g \in Games, Clean(g)'
  PROVE  Clean(g)
<1>1. BetsOf(g) \subseteq BetsOf(g)' /\ late \subseteq late'
  BY BetsStay
<1>2. redelivered \subseteq redelivered'
  BY RoundsOfBullsEye, HistoryGrows DEF RoundsStep, Refused, TakeClose
<1> QED BY <1>1, <1>2 DEF Clean

\* A stake comes to the account of the round its bet is placed in.
LEMMA HeldPlacing ==
  ASSUME Inv, SettledIsOver, BooksTyped, NEW g \in Games, Clean(g)', Clean(g), Held(g),
         NEW b \in Bets, CommitAddBet(b)
  PROVE  Held(g)'
<1>0. /\ bet \in [Bets -> Bet \cup {NoBet}] /\ paid \in [Bets -> Nat]
      /\ placing \in [Bets -> 0..NGames] /\ account \in [Games -> Int] /\ Stake \in Nat
  BY StakeAssumption DEF Inv, Typed, TypeOK, BooksTyped
<1> DEFINE new == [game |-> placing[b], result |-> "OPEN", price |-> NoPrice]
<1>1. /\ placing[b] # 0 /\ bet' = [bet EXCEPT ![b] = new]
      /\ late' = IF game[placing[b]] \in Active THEN late ELSE late \cup {b}
      /\ account' = [account EXCEPT ![placing[b]] = @ + Stake] /\ paid' = paid
  BY DEF CommitAddBet, CommitBet
<1>2. bet[b] = NoBet /\ paid[b] = 0 /\ placing[b] \in Games
  BY <1>0, <1>1, NGamesAssumption DEF Inv, Placed, Games
<1>3. bet'[b] = new /\ \A c \in Bets \ {b} : bet'[c] = bet[c]
  BY <1>0, <1>1
<1>4. SettledBetsOf(g)' = SettledBetsOf(g)
  BY <1>2, <1>3, BetOrNone DEF SettledBetsOf, BetsOf
<1>5. CASE placing[b] # g
  <2>1. account'[g] = account[g]
    BY <1>0, <1>1, <1>5
  <2>2. BetsOf(g)' = BetsOf(g)
    BY <1>2, <1>3, <1>5, BetOrNone DEF BetsOf, Games
  <2> QED BY <1>1, <1>4, <2>1, <2>2 DEF Held
<1>6. CASE placing[b] = g
  <2>1. BetsOf(g)' = BetsOf(g) \cup {b} /\ b \notin BetsOf(g)
    BY <1>2, <1>3, <1>6, BetOrNone DEF BetsOf, Games
  <2>2. game[g] \in Active
    BY <1>1, <1>6, <2>1 DEF Clean
  <2>3. SettledBetsOf(g) = {}
    BY <2>2 DEF SettledIsOver, SettledBetsOf, BetsOf, Over, Active
  <2>4. account[g] = Stake * Cardinality(BetsOf(g)) /\ \A c \in BetsOf(g) : paid[c] = 0
    <3>1. CASE BetsOf(g) = {}
      <4>1. Cardinality(BetsOf(g)) = 0
        BY <3>1, FS_EmptySet
      <4>2. Stake * 0 = 0
        BY <1>0
      <4> QED BY <3>1, <4>1, <4>2 DEF Held
    <3>2. CASE BetsOf(g) # {}
      BY <2>3, <3>2 DEF Held
    <3> QED BY <3>1, <3>2
  <2>5. IsFiniteSet(BetsOf(g))
    BY PoolTyped DEF BetsOf
  <2>6. Cardinality(BetsOf(g)') = Cardinality(BetsOf(g)) + 1 /\ Cardinality(BetsOf(g)) \in Nat
    BY <2>1, <2>5, FS_AddElement, FS_CardinalityType
  <2>7. account'[g] = account[g] + Stake
    BY <1>0, <1>1, <1>6
  <2>8. account'[g] = Stake * Cardinality(BetsOf(g)')
    <3>1. \A n \in Nat : Stake * n + Stake = Stake * (n + 1)
      BY <1>0
    <3> QED BY <2>4, <2>6, <2>7, <3>1
  <2>9. \A c \in BetsOf(g)' : paid'[c] = 0
    BY <1>1, <1>2, <2>1, <2>4
  <2> QED BY <1>4, <2>3, <2>8, <2>9 DEF Held
<1> QED BY <1>5, <1>6

\* A payout takes all stakes of its round from the account.
LEMMA HeldPaying ==
  ASSUME Inv, BooksTyped, NEW g \in Games, Clean(g), Held(g),
         NEW h \in Games, GiveRewardsForBullsEye(h)
  PROVE  Held(g)'
<1>0. /\ paid \in [Bets -> Nat] /\ account \in [Games -> Int] /\ Stake \in Nat
      /\ toLedger \in [Games -> Nat]
  BY StakeAssumption DEF Inv, Typed, TypeOK, BooksTyped
<1>1. bet' = bet
  BY DEF GiveRewardsForBullsEye, GiveRewards, db
<1>2. BetsOf(g)' = BetsOf(g) /\ SettledBetsOf(g)' = SettledBetsOf(g)
  BY <1>1 DEF BetsOf, SettledBetsOf
<1>3. \/ UNCHANGED <<account, paid>>
      \/ /\ GiveRewards(h)
         /\ account' = [account EXCEPT ![h] = @ - Stake * Cardinality(SettledBetsOf(h))]
  BY DEF GiveRewardsForBullsEye, LedgerEntries, money
<1>4. CASE UNCHANGED <<account, paid>>
  BY <1>2, <1>4 DEF Held
<1>5. CASE GiveRewards(h) /\ account' = [account EXCEPT ![h] = @ - Stake * Cardinality(SettledBetsOf(h))]
  <2>1. paid' = [b \in Bets |-> IF b \in SettledBetsOf(h) THEN paid[b] + 1 ELSE paid[b]]
    BY <1>5 DEF GiveRewards
  <2>2. CASE h # g
    <3>1. \A b \in BetsOf(g) : paid'[b] = paid[b]
      BY <2>1, <2>2 DEF BetsOf, SettledBetsOf
    <3>2. account'[g] = account[g]
      BY <1>0, <1>5, <2>2
    <3> QED BY <1>2, <3>1, <3>2 DEF Held
  <2>3. CASE h = g
    <3>1. Told(g) \in Nat /\ Told(g) > 0
      <4>1. toLedger[g] > 0 /\ toLedger[g] \in Nat
        BY <1>0, <1>5, <2>3 DEF GiveRewards, TakeClose
      <4> QED BY <4>1 DEF Told
    <3>2. \A b \in BetsOf(g) : bet[b].result = "SETTLED" /\ paid[b] = 0
      <4> TAKE b \in BetsOf(g)
      <4>1. b \in Bets /\ bet[b].game = g /\ bet[b] # NoBet /\ b \notin late
        BY BetOrNone DEF BetsOf, Games, Clean
      <4>2. /\ Told(g) + paid[b] <= 1
            /\ bet[b].result # "SETTLED" => Told(g) + paid[b] = 0
        BY <4>1 DEF Inv, PaidAsTold, Clean
      <4> QED BY <1>0, <3>1, <4>1, <4>2
    <3>3. SettledBetsOf(g) = BetsOf(g) /\ BetsOf(g) \subseteq Bets
      BY <3>2 DEF SettledBetsOf, BetsOf
    <3>4. account[g] = Stake * Cardinality(BetsOf(g))
      <4>1. CASE BetsOf(g) = {}
        <5>1. Cardinality(BetsOf(g)) = 0
          BY <4>1, FS_EmptySet
        <5>2. Stake * 0 = 0
          BY <1>0
        <5> QED BY <5>1, <5>2 DEF Held
      <4>2. CASE BetsOf(g) # {}
        BY <3>2, <4>2 DEF Held
      <4> QED BY <4>1, <4>2
    <3>5. account'[g] = 0
      <4>1. account'[g] = account[g] - Stake * Cardinality(BetsOf(g)) /\ account[g] \in Int
        BY <1>0, <1>5, <2>3, <3>3
      <4> QED BY <3>4, <4>1
    <3>6. \A b \in BetsOf(g) : paid'[b] # 0
      BY <1>0, <2>1, <2>3, <3>2, <3>3
    <3> QED BY <1>2, <3>3, <3>5, <3>6 DEF Held
  <2> QED BY <2>2, <2>3
<1> QED BY <1>3, <1>4, <1>5

\* Every step keeps the stakes on the accounts until they are paid.
LEMMA HeldStep ==
  /\ Inv /\ Chained /\ MeetSettled /\ SettledIsOver /\ BooksTyped /\ AccountsHeld
  /\ [BullsEyeNext]_bvars
  => AccountsHeld'
<1> SUFFICES ASSUME Inv, Chained, MeetSettled, SettledIsOver, BooksTyped, AccountsHeld,
                    [BullsEyeNext]_bvars, NEW g \in Games, Clean(g)'
             PROVE  Held(g)'
  BY DEF AccountsHeld
<1>1. Clean(g) /\ Held(g)
  BY CleanStays DEF AccountsHeld
<1>2. ASSUME NEW b \in Bets, CommitAddBet(b)
      PROVE  Held(g)'
  BY <1>1, <1>2, HeldPlacing
<1>3. ASSUME NEW h \in Games, GiveRewardsForBullsEye(h)
      PROVE  Held(g)'
  BY <1>1, <1>3, HeldPaying
<1>4. CASE UNCHANGED <<money, paid>> /\ ~\E b \in Bets : CommitAddBet(b)
  <2>1. BetsOf(g)' = BetsOf(g)
    BY <1>4, BetsOfSteps
  <2>2. paid' = paid /\ account' = account
    BY <1>4 DEF money
  <2>3. CASE SettledBetsOf(g)' = SettledBetsOf(g)
    BY <1>1, <2>1, <2>2, <2>3 DEF Held
  <2>4. ASSUME NEW r \in resolving, Ranking(r), r.game = g, r.bets # {},
               SettledBetsOf(g) = {}, SettledBetsOf(g)' = r.bets
        PROVE  Held(g)'
    <3>1. r.bets = BetsOf(g)
      BY <1>1, <2>4 DEF Inv, Snapshot, Chained, Clean
    <3>2. /\ \A b \in BetsOf(g) : paid[b] = 0
          /\ account[g] = Stake * Cardinality(BetsOf(g))
      BY <1>1, <2>4, <3>1 DEF Held
    <3> QED BY <2>1, <2>2, <2>4, <3>1, <3>2 DEF Held
  <2> QED BY <2>3, <2>4, SettledSteps
<1> QED BY <1>2, <1>3, <1>4, AccountSteps

\* Where the stakes are held, they cover what is promised and not paid.
LEMMA HeldCovers ==
  ASSUME Inv, BooksTyped, PromisesMet, NEW g \in Games, Clean(g), Held(g)
  PROVE  SumFunctionOnSet(Promised, {b \in SettledBetsOf(g) : paid[b] = 0}) <= account[g]
<1> DEFINE unpaid == {b \in SettledBetsOf(g) : paid[b] = 0}
<1>0. /\ SettledBetsOf(g) \subseteq BetsOf(g) /\ BetsOf(g) \in SUBSET Bets
      /\ Cardinality(BetsOf(g)) \in Nat /\ Stake \in Nat
  BY PoolTyped, FS_CardinalityType, StakeAssumption DEF SettledBetsOf, BetsOf
<1>1. Stake * Cardinality(BetsOf(g)) \in Nat
  BY <1>0
<1>2. CASE unpaid = {}
  <2>1. SumFunctionOnSet(Promised, {}) = 0
    BY FS_EmptySet, SumStep
  <2>2. account[g] >= 0
    BY <1>1 DEF Held
  <2> QED BY <1>2, <2>1, <2>2
<1>3. CASE unpaid # {}
  <2>1. /\ SettledBetsOf(g) = BetsOf(g) /\ \A b \in BetsOf(g) : paid[b] = 0
        /\ account[g] = Stake * Cardinality(BetsOf(g))
    BY <1>0, <1>3 DEF Held
  <2>2. unpaid = SettledBetsOf(g)
    BY <2>1
  <2>3. SumFunctionOnSet(Promised, SettledBetsOf(g)) = Stake * Cardinality(SettledBetsOf(g))
    BY DEF PromisesMet
  <2> QED BY <1>1, <2>1, <2>2, <2>3
<1> QED BY <1>2, <1>3

\* What covered prizes rest on.
MoneyInv == RanksInv /\ SettledIsOver /\ BooksTyped /\ PromisesMet /\ AccountsHeld

\* It holds before anything was done.
LEMMA MoneyInit == BullsEyeInit => MoneyInv
<1> SUFFICES ASSUME BullsEyeInit PROVE MoneyInv
  OBVIOUS
<1>1. RanksInv
  BY RanksInit
<1>2. \A g \in Games : BetsOf(g) = {} /\ SettledBetsOf(g) = {} /\ account[g] = 0
  BY BetOrNone DEF BullsEyeInit, Init, BetsOf, SettledBetsOf, Games
<1>3. SettledIsOver
  BY BetOrNone DEF BullsEyeInit, Init, SettledIsOver
<1>4. BooksTyped
  BY DEF BullsEyeInit, BooksTyped, NoRow, Row
<1>5. /\ SumFunctionOnSet(Promised, {}) = 0 /\ Cardinality({}) = 0
      /\ Stake * 0 = 0 /\ 0 <= 0
  <2>1. SumFunctionOnSet(Promised, {}) = 0 /\ Cardinality({}) = 0
    BY FS_EmptySet, SumStep
  <2>2. Stake * 0 = 0 /\ 0 <= 0
    BY StakeAssumption
  <2> QED BY <2>1, <2>2
<1>6. PromisesMet
  BY <1>2, <1>5 DEF PromisesMet
<1>7. AccountsHeld
  BY <1>2, <1>5 DEF AccountsHeld, Held
<1> QED BY <1>1, <1>3, <1>4, <1>6, <1>7 DEF MoneyInv

\* Every step keeps it.
LEMMA MoneyStep == MoneyInv /\ [BullsEyeNext]_bvars => MoneyInv'
<1> SUFFICES ASSUME MoneyInv, [BullsEyeNext]_bvars PROVE MoneyInv'
  OBVIOUS
<1>1. RanksInv /\ SettledIsOver /\ BooksTyped /\ PromisesMet /\ AccountsHeld
  BY DEF MoneyInv
<1>2. Inv /\ Ordered /\ Chained /\ MeetSettled
  BY <1>1 DEF RanksInv
<1>3. RanksInv'
  BY <1>1, RanksStep
<1>4. SettledIsOver'
  BY <1>1, <1>2, OverStep
<1>5. BooksTyped'
  BY <1>1, <1>2, RowsStep, AccountsTyped DEF BooksTyped
<1>6. PromisesMet'
  BY <1>1, <1>2, MetStep DEF BooksTyped
<1>7. AccountsHeld'
  BY <1>1, <1>2, HeldStep
<1> QED BY <1>3, <1>4, <1>5, <1>6, <1>7 DEF MoneyInv

\* What the results of a round promise and was not paid is covered by the stakes
\* on its account, whatever the number of bets and of places that win.
THEOREM PrizesAreCovered == BullsEyeSpec => []StakesCoverPrizes
<1>1. MoneyInv => StakesCoverPrizes
  BY HeldCovers DEF MoneyInv, RanksInv, AccountsHeld, StakesCoverPrizes, Clean
<1> QED BY <1>1, MoneyInit, MoneyStep, PTL DEF BullsEyeSpec

-----------------------------------------------------------------------------
(* The bull's eye game: the journals *)

\* The bets of a round are all rejected, or none is.
RejectedTogether ==
  \A g \in Games : \A b, c \in SettledBetsOf(g) : Rejected(b) => Rejected(c)

\* Every step keeps that.
LEMMA TogetherStep ==
  /\ Inv /\ Chained /\ MeetSettled /\ RejectedTogether /\ [BullsEyeNext]_bvars
  => RejectedTogether'
<1> SUFFICES ASSUME Inv, Chained, MeetSettled, RejectedTogether, [BullsEyeNext]_bvars,
                    NEW g \in Games, NEW S, S = SettledBetsOf(g)',
                    NEW b \in S, NEW c \in S, Rejected(b)'
             PROVE  Rejected(c)'
  BY DEF RejectedTogether
<1>0. S \in SUBSET Bets
  BY DEF SettledBetsOf, BetsOf
<1>1. CASE SettledBetsOf(g) = S /\ \A d \in S : row'[d] = row[d]
  BY <1>1 DEF RejectedTogether, Rejected
<1>2. ASSUME NEW r \in resolving, Ranking(r), r.bets = S
      PROVE  Rejected(c)'
  <2> DEFINE result == GetBullsEyeGameResult(S, r.price)
  <2>1. \A d \in S : row'[d] = result[d]
    BY <1>0, <1>2 DEF Ranking
  <2>2. CASE IsRejected(S, r.price)
    <3>1. result[c].place = 0
      BY <1>0, <2>2, ResultTyped
    <3> HIDE DEF result
    <3> QED BY <2>1, <3>1 DEF Rejected
  <2>3. CASE ~IsRejected(S, r.price)
    <3>1. result[b].place = Place(b, S, r.price)
      BY <1>0, <2>3, ResultTyped
    <3>2. Place(b, S, r.price) \in Nat \ {0}
      BY <1>0, PlaceTyped
    <3> HIDE DEF result
    <3>3. row'[b].place # 0
      BY <2>1, <3>1, <3>2
    <3> QED BY <3>3 DEF Rejected
  <2> QED BY <2>2, <2>3
<1> QED BY <1>1, <1>2, SettledSteps

\* A journal whose bets are rejected gives the stakes back.
LEMMA RejectsBalance ==
  ASSUME NEW bs \in SUBSET Bets, \A b \in bs : Rejected(b)
  PROVE  Balanced(LedgerEntries(bs))
<1> DEFINE credit == [b \in Bets |-> IF b \in bs THEN Stake ELSE 0]
           j == LedgerEntries(bs)
<1>0. /\ IsFiniteSet(Bets) /\ IsFiniteSet(bs) /\ Cardinality(bs) \in Nat /\ Stake \in Nat
  BY BetsAssumption, PoolTyped, FS_CardinalityType, StakeAssumption
<1>1. {b \in bs : Rejected(b)} = bs
  OBVIOUS
<1>2. /\ j.debit = Stake * Cardinality(bs) /\ j.credit = credit /\ j.fees = 0
  <2>1. CASE bs = {}
    <3>1. SumFunctionOnSet([b \in bs |-> row[b].fee], bs) = 0
      BY <2>1, FS_EmptySet, SumStep
    <3>2. j.credit = credit
      BY <1>1, <2>1 DEF LedgerEntries
    <3> QED BY <1>1, <2>1, <3>1, <3>2 DEF LedgerEntries
  <2>2. CASE bs # {}
    BY <1>1, <2>2 DEF LedgerEntries
  <2> QED BY <2>1, <2>2
<1>3. /\ \A b \in Bets : credit[b] \in Int
      /\ \A b \in Bets \ bs : credit[b] = 0
      /\ \A b \in bs : credit[b] = Stake
      /\ DOMAIN credit = Bets
  BY <1>0
<1> HIDE DEF credit, j
<1>4. SumFunctionOnSet(credit, Bets) = SumFunctionOnSet(credit, bs)
  BY <1>0, <1>3, SumInside
<1>5. SumFunctionOnSet(credit, bs) = Stake * Cardinality(bs)
  BY <1>0, <1>3, SumOfStakes
<1>6. SumFunction(credit) = Stake * Cardinality(bs) /\ Stake * Cardinality(bs) \in Int
  BY <1>0, <1>3, <1>4, <1>5 DEF SumFunction
<1> QED BY <1>2, <1>6 DEF Balanced, j

\* One whose bets are ranked pays out what was promised.
LEMMA RankedBalance ==
  ASSUME row \in [Bets -> Row], NEW bs \in SUBSET Bets, \A b \in bs : ~Rejected(b),
         SumFunctionOnSet(Promised, bs) = Stake * Cardinality(bs)
  PROVE  Balanced(LedgerEntries(bs))
<1> DEFINE credit == [b \in Bets |-> IF b \in bs THEN row[b].outcome ELSE 0]
           fee == [b \in bs |-> row[b].fee]
           j == LedgerEntries(bs)
<1>0. IsFiniteSet(Bets) /\ IsFiniteSet(bs)
  BY BetsAssumption, PoolTyped
<1>1. {b \in bs : Rejected(b)} = {}
  OBVIOUS
<1>2. /\ j.debit = Stake * Cardinality(bs) /\ j.credit = credit
      /\ j.fees = SumFunctionOnSet(fee, bs)
  BY <1>1 DEF LedgerEntries
<1>3. \A b \in Bets : row[b].outcome \in Int /\ row[b].fee \in Int
  BY DEF Row
<1>4. /\ \A b \in Bets : credit[b] \in Int
      /\ \A b \in Bets \ bs : credit[b] = 0
      /\ \A b \in bs : credit[b] = row[b].outcome
      /\ \A b \in bs : fee[b] = row[b].fee
      /\ DOMAIN credit = Bets
  BY <1>3
<1> HIDE DEF credit, fee, j
<1>5. \A b \in bs : /\ credit[b] \in Int /\ fee[b] \in Int
                    /\ Promised[b] = credit[b] + fee[b]
  BY <1>3, <1>4 DEF Promised
<1>6. SumFunctionOnSet(Promised, bs) =
        SumFunctionOnSet(credit, bs) + SumFunctionOnSet(fee, bs)
  BY <1>0, <1>5, SumAdd
<1>7. SumFunctionOnSet(credit, Bets) = SumFunctionOnSet(credit, bs)
  BY <1>0, <1>4, SumInside
<1>8. SumFunction(credit) = SumFunctionOnSet(credit, bs)
  BY <1>4, <1>7 DEF SumFunction
<1> QED BY <1>2, <1>6, <1>8 DEF Balanced, j

\* The journal of a round, with the bets that are settled, balances.
JournalsBalance == \A g \in Games : Balanced(LedgerEntries(SettledBetsOf(g)))

\* What that rests on.
JournalInv == MoneyInv /\ RejectedTogether

\* Rejected bets get their stakes, ranked ones what they were promised.
LEMMA JournalFollows == JournalInv => JournalsBalance
<1> SUFFICES ASSUME JournalInv, NEW g \in Games, NEW S, S = SettledBetsOf(g)
             PROVE  Balanced(LedgerEntries(S))
  BY DEF JournalsBalance
<1>1. /\ row \in [Bets -> Row] /\ PromisesMet /\ RejectedTogether
      /\ S \in SUBSET Bets
  BY DEF JournalInv, MoneyInv, BooksTyped, SettledBetsOf, BetsOf
<1>2. (\A b \in S : Rejected(b)) \/ (\A b \in S : ~Rejected(b))
  BY <1>1 DEF RejectedTogether
<1>3. SumFunctionOnSet(Promised, S) = Stake * Cardinality(S)
  BY <1>1 DEF PromisesMet
<1> QED BY <1>1, <1>2, <1>3, RejectsBalance, RankedBalance

\* The ledger refuses no journal of a bull's eye game: whatever the number of
\* bets, their places and who was too late, the stakes are what is paid out and
\* kept as fees.
THEOREM JournalsAreBalanced == BullsEyeSpec => []JournalsBalance
<1>1. BullsEyeInit => JournalInv
  <2> SUFFICES ASSUME BullsEyeInit PROVE JournalInv
    OBVIOUS
  <2>1. \A g \in Games : SettledBetsOf(g) = {}
    BY BetOrNone DEF BullsEyeInit, Init, BetsOf, SettledBetsOf, Games
  <2> QED BY <2>1, MoneyInit DEF JournalInv, RejectedTogether
<1>2. JournalInv /\ [BullsEyeNext]_bvars => JournalInv'
  BY MoneyStep, TogetherStep DEF JournalInv, MoneyInv, RanksInv
<1> QED BY <1>1, <1>2, JournalFollows, PTL DEF BullsEyeSpec
=============================================================================
