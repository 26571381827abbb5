----------------------------- MODULE X1000Proofs -----------------------------
(***************************************************************************)
(* Proofs about X1000, for any games, users, prices and triggers and any   *)
(* number of failures: a game is paid once for every time it was ended,    *)
(* its bet has the result of the price it ended with, and what makes an    *)
(* open bet escape its commission, or pay it twice.                        *)
(***************************************************************************)
EXTENDS X1000, TLAPS

\* The states of a game that was ended.
Ended == {"PENDING", "CLOSE"}

\* The types, and that a player or a price ends a game with a price.
Typed ==
  /\ TypeOK
  /\ \A c \in cashing : c.price \in Prices
  /\ watching = Idle \/ watching.price \in Prices

\* What is under way is about games that were opened, once.
Opened ==
  /\ \A g \in adding : game[g] = "NONE"
  /\ \A c \in cashing : game[c.game] # "NONE"
  /\ \A c \in charging : game[c.game] # "NONE"
  /\ \A g \in watching.games \cup free \cup hourly \cup retrying : game[g] # "NONE"

\* An event comes after the change it tells of.
Reached(e) ==
  game[e.game] # "NONE" /\ (e.state # "INPROGRESS" => game[e.game] \in Ended)

Known == \A e \in Events : e \in outbox \/ toWorker[e] > 0 => Reached(e)

\* The resolver has a PENDING game once, and nobody else closes it.
BatchPending ==
  /\ \A r \in batch : game[r.game] = "PENDING"
  /\ \A r \in batch : \A q \in batch : r.game = q.game => r = q

\* What a game shows that was not ended, or once.
ShowsEnd(g) ==
  /\ ends[g] = 0 => game[g] \notin Ended /\ endPrice[g] = NoPrice /\ g \notin cancelled
  /\ ends[g] > 0 => game[g] \in Ended
  /\ ends[g] = 1 =>
       /\ endPrice[g] = NoPrice <=> g \in cancelled
       /\ \A r \in batch : r.game = g => r.price = endPrice[g]
       /\ game[g] = "CLOSE" => settledBy[g] = endPrice[g]

AllShowEnd == \A g \in Games : ShowsEnd(g)

\* What makes a second timer possible.
Excused(g) == Event(g, "INPROGRESS") \in redelivered \/ restarts > 0

\* A bet has one timer, or waits for the one event that will give it one.
Carriers(g) ==
  (IF Event(g, "INPROGRESS") \in outbox THEN 1 ELSE 0)
    + toWorker[Event(g, "INPROGRESS")]
    + (IF g \in free THEN 1 ELSE 0) + (IF g \in hourly THEN 1 ELSE 0)

OneTimer ==
  \A g \in Games : Excused(g) \/ (Carriers(g) <= 1 /\ g \notin stray \cup retrying)

\* An open bet has a timer, or an event that will give it one, or did not.
Due(g) ==
  game[g] = "INPROGRESS" =>
    \/ g \in free \cup hourly
    \/ Event(g, "INPROGRESS") \in outbox \/ toWorker[Event(g, "INPROGRESS")] > 0
    \/ Event(g, "INPROGRESS") \in lost

AllDue == \A g \in Games : Due(g)

Inv ==
  /\ Typed /\ Opened /\ Known /\ BatchPending /\ PaidOncePerEnd /\ AllShowEnd
  /\ OneTimer /\ AllDue

\* The invariant holds before anything was done.
LEMMA InvInit == Init => Inv
<1> SUFFICES ASSUME Init PROVE Inv
  OBVIOUS
<1>1. Typed
  BY DEF Init, Typed, TypeOK, Idle, EndPrices, States
<1>2. Opened /\ Known /\ BatchPending
  BY DEF Init, Opened, Known, BatchPending, Idle
<1>3. PaidOncePerEnd /\ AllShowEnd
  BY DEF Init, PaidOncePerEnd, Closings, AllShowEnd, ShowsEnd, Ended
<1>4. OneTimer /\ AllDue
  BY DEF Init, OneTimer, Carriers, AllDue, Due, Event, Events, States
<1> QED BY <1>1, <1>2, <1>3, <1>4 DEF Inv

-----------------------------------------------------------------------------
(* Types *)

\* An event of a game.
LEMMA EventTyped ==
  ASSUME NEW g \in Games, NEW s \in States
  PROVE  /\ Event(g, s) \in Events
         /\ Event(g, s).game = g /\ Event(g, s).state = s
BY DEF Event, Events

\* An event is the one of its game and state.
LEMMA EventIs ==
  ASSUME NEW e \in Events
  PROVE  e.game \in Games /\ e.state \in States /\ e = Event(e.game, e.state)
BY DEF Event, Events

\* An event is taken, or it is to come once more.
LEMMA Taken ==
  ASSUME TypeOK, NEW e \in Events, TakeFrom(e)
  PROVE  /\ toWorker' \in [Events -> Nat] /\ redelivered' \subseteq Events
         /\ toWorker[e] > 0 /\ \A f \in Events : toWorker'[f] <= toWorker[f]
         /\ \A f \in Events \ {e} : toWorker'[f] = toWorker[f]
         /\ redelivered \subseteq redelivered' /\ UNCHANGED <<outbox, toLedger>>
<1>1. toWorker \in [Events -> Nat] /\ redelivered \subseteq Events
  BY DEF TypeOK
<1>2. CASE toWorker' = [toWorker EXCEPT ![e] = @ - 1] /\ UNCHANGED redelivered
  BY <1>1, <1>2 DEF TakeFrom
<1>3. CASE redelivered' = redelivered \cup {e} /\ UNCHANGED toWorker
  BY <1>1, <1>3 DEF TakeFrom
<1> QED BY <1>2, <1>3 DEF TakeFrom

\* Games are moved to PENDING, and no other is touched.
LEMMA Moved ==
  ASSUME TypeOK, NEW gs \in SUBSET Games, NEW price \in [Games -> EndPrices],
         MoveToPending(gs, price)
  PROVE  /\ game' \in [Games -> States \cup {"NONE"}]
         /\ endPrice' \in [Games -> EndPrices] /\ ends' \in [Games -> Nat]
         /\ \A g \in gs : game'[g] = "PENDING" /\ endPrice'[g] = price[g]
                          /\ ends'[g] = ends[g] + 1
         /\ \A g \in Games \ gs : game'[g] = game[g] /\ endPrice'[g] = endPrice[g]
                                  /\ ends'[g] = ends[g]
         /\ UNCHANGED <<settledBy, trigger>>
<1>1. /\ game \in [Games -> States \cup {"NONE"}] /\ endPrice \in [Games -> EndPrices]
      /\ ends \in [Games -> Nat]
  BY DEF TypeOK
<1> QED BY <1>1 DEF MoveToPending, States

\* Every step keeps the types.
LEMMA TypeStep == Typed /\ [Next]_vars => Typed'
<1> SUFFICES ASSUME Typed, [Next]_vars PROVE Typed'
  OBVIOUS
<1> USE DEF Typed, TypeOK
<1>0. TypeOK
  OBVIOUS
<1>1. CASE UNCHANGED vars
  BY <1>1 DEF vars
<1>2. ASSUME NEW g \in Games, Player(g)
      PROVE  Typed'
  <2>1. CASE CountOpen(g) \/ RefuseBet(g)
    BY <2>1 DEF CountOpen, RefuseBet, row, jobs, timers, kafka, history
  <2>2. CASE AddBet(g)
    <3>1. trigger' \in [Games -> SUBSET Prices]
      BY <2>2, TriggersAssumption DEF AddBet
    <3>2. Event(g, "INPROGRESS") \in Events
      BY EventTyped DEF States
    <3> QED BY <2>2, <3>1, <3>2 DEF AddBet, States, jobs, timers, history
  <2>3. ASSUME NEW p \in Prices, CashOutRead(g, p)
        PROVE  Typed'
    <3>1. [game |-> g, price |-> p] \in Read
      BY DEF Read, EndPrices
    <3> QED BY <2>3, <3>1 DEF CashOutRead, row, jobs, timers, kafka, history
  <2> QED BY <1>2, <2>1, <2>2, <2>3 DEF Player
<1>3. ASSUME NEW c \in cashing, CashOutWrite(c) \/ CashOutFails(c)
      PROVE  Typed'
  <2>1. c.game \in Games /\ c.price \in EndPrices
    BY DEF Read
  <2>2. CASE CashOutWrite(c)
    <3>1. MoveToPending({c.game}, [g \in Games |-> c.price])
      BY <2>2 DEF CashOutWrite
    <3>2. /\ game' \in [Games -> States \cup {"NONE"}]
          /\ endPrice' \in [Games -> EndPrices] /\ ends' \in [Games -> Nat]
          /\ UNCHANGED <<settledBy, trigger>>
      <4>1. {c.game} \in SUBSET Games /\ [g \in Games |-> c.price] \in [Games -> EndPrices]
        BY <2>1
      <4> QED BY <1>0, <3>1, <4>1, Moved
    <3>3. Event(c.game, "PENDING") \in Events
      BY <2>1, EventTyped DEF States
    <3> QED BY <2>2, <3>2, <3>3 DEF CashOutWrite, jobs, timers
  <2>3. CASE CashOutFails(c)
    BY <2>3 DEF CashOutFails, row, jobs, timers, kafka, history
  <2> QED BY <1>3, <2>2, <2>3
<1>4. ASSUME NEW p \in Prices, PriceRead(p)
      PROVE  Typed'
  <2>1. watching' \in [games : SUBSET Games, price : EndPrices] /\ watching'.price = p
    BY <1>4 DEF PriceRead, EndPrices
  <2> QED BY <1>4, <2>1 DEF PriceRead, row, calls, timers, kafka, history
<1>5. Idle \in [games : SUBSET Games, price : EndPrices]
  BY DEF Idle, EndPrices
<1>6. CASE PriceWrite \/ PriceFails
  <2>1. CASE PriceWrite
    <3>1. MoveToPending(watching.games, [g \in Games |-> watching.price])
      BY <2>1 DEF PriceWrite
    <3>2. /\ game' \in [Games -> States \cup {"NONE"}]
          /\ endPrice' \in [Games -> EndPrices] /\ ends' \in [Games -> Nat]
          /\ UNCHANGED <<settledBy, trigger>>
      <4>1. /\ watching.games \in SUBSET Games
            /\ [g \in Games |-> watching.price] \in [Games -> EndPrices]
        OBVIOUS
      <4> QED BY <1>0, <3>1, <4>1, Moved
    <3> QED BY <1>5, <2>1, <3>2 DEF PriceWrite, calls, timers, kafka
  <2>2. CASE PriceFails
    BY <1>5, <2>2 DEF PriceFails, row, calls, timers, kafka, history
  <2> QED BY <1>6, <2>1, <2>2
<1>7. ASSUME NEW g \in Games, FreeHoursPass(g) \/ RetryHourly(g) \/ CommissionRead(g)
      PROVE  Typed'
  <2>1. CASE FreeHoursPass(g) \/ RetryHourly(g)
    BY <2>1 DEF FreeHoursPass, RetryHourly, StartHourly, row, calls, jobs, kafka, history
  <2>2. CASE CommissionRead(g)
    <3>1. \A t \in {"named", "stray"} : [game |-> g, timer |-> t] \in Charges
      BY DEF Charges
    <3> QED
      BY <2>2, <3>1 DEF CommissionRead, Unregister, row, calls, timers, kafka, history
  <2> QED BY <1>7, <2>1, <2>2
<1>8. ASSUME NEW c \in charging, CommissionPaid(c) \/ CommissionFails(c)
      PROVE  Typed'
  <2>1. c.game \in Games
    BY DEF Charges
  <2>2. CASE CommissionPaid(c)
    BY <2>2 DEF CommissionPaid, row, calls, timers, kafka, history
  <2>3. CASE CommissionFails(c)
    <3>1. /\ game' \in [Games -> States \cup {"NONE"}]
          /\ endPrice' \in [Games -> EndPrices] /\ ends' \in [Games -> Nat]
          /\ UNCHANGED <<settledBy, trigger>>
      BY <1>0, <2>1, <2>3, Moved DEF CommissionFails
    <3>2. Event(c.game, "PENDING") \in Events
      BY <2>1, EventTyped DEF States
    <3> QED BY <2>1, <2>3, <3>1, <3>2 DEF CommissionFails, Unregister, calls, timers
  <2> QED BY <1>8, <2>2, <2>3
<1>9. ASSUME NEW g \in Games, GiveRewards(g) \/ GiveRewardsFails(g)
      PROVE  Typed'
  <2>1. Event(g, "CLOSE") \in Events
    BY EventTyped DEF States
  <2> QED BY <1>9, <2>1 DEF GiveRewards, GiveRewardsFails, row, calls, jobs, timers, history
<1>10. ASSUME NEW e \in Events, OnGameChanged(e)
       PROVE  Typed'
  <2>1. e.game \in Games /\ e.state \in States
    BY EventIs
  <2>2. /\ toWorker' \in [Events -> Nat] /\ redelivered' \subseteq Events
        /\ UNCHANGED <<outbox, toLedger>>
    BY <1>0, <1>10, Taken DEF OnGameChanged
  <2>3. /\ free' \subseteq Games /\ hourly' \subseteq Games
        /\ UNCHANGED <<stray, retrying>>
    BY <1>10, <2>1 DEF OnGameChanged, Unregister
  <2> QED BY <1>10, <2>2, <2>3 DEF OnGameChanged, row, calls, jobs, history
<1>11. ASSUME NEW e \in outbox, Publish(e) \/ PublishFails(e)
       PROVE  Typed'
  <2>1. e \in Events /\ e.game \in Games
    BY EventIs
  <2>2. CASE Publish(e)
    BY <2>1, <2>2 DEF Publish, row, calls, jobs, timers, history
  <2>3. CASE PublishFails(e)
    BY <2>1, <2>3 DEF PublishFails, row, calls, jobs, timers
  <2> QED BY <1>11, <2>2, <2>3
<1>12. CASE ResolveRead
  <2>1. batch' \subseteq Read
    BY <1>12 DEF ResolveRead, Pending, Read
  <2> QED BY <1>12, <2>1 DEF ResolveRead, row, calls, timers, kafka, history
<1>13. ASSUME NEW r \in batch, Resolve(r)
       PROVE  Typed'
  <2>1. r.game \in Games /\ r.price \in EndPrices
    BY DEF Read
  <2>2. Event(r.game, "CLOSE") \in Events
    BY <2>1, EventTyped DEF States
  <2> QED BY <1>13, <2>1, <2>2 DEF Resolve, States, calls, timers, history
<1>14. CASE ResolveFails
  BY <1>14 DEF ResolveFails, row, calls, timers, kafka, history
<1>15. CASE Restart
  <2> QED BY <1>5, <1>15 DEF Restart, row, calls
<1> QED
  BY <1>1, <1>2, <1>3, <1>4, <1>6, <1>7, <1>8, <1>9, <1>10, <1>11, <1>12, <1>13, <1>14,
     <1>15
  DEF Next, Done

-----------------------------------------------------------------------------
(* What is under way *)

\* The games that a step moves to PENDING: what moves them found them open.
LEMMA MovedWhich ==
  ASSUME Typed, Opened, [Next]_vars
  PROVE  \/ UNCHANGED <<game, endPrice, ends, cancelled>>
         \/ \E g \in adding : AddBet(g) /\ UNCHANGED <<endPrice, ends, cancelled>>
         \/ \E r \in batch : Resolve(r) /\ UNCHANGED <<endPrice, ends, cancelled>>
         \/ \E gs \in SUBSET Games, price \in [Games -> EndPrices] :
              /\ MoveToPending(gs, price) /\ \A g \in gs : game[g] # "NONE"
              /\ \A g \in gs : price[g] \in Prices
              /\ UNCHANGED <<cancelled, adding, batch, redelivered, toLedger, paid>>
              /\ \A g \in Games : Event(g, "CLOSE") \in outbox' => Event(g, "CLOSE") \in outbox
         \/ \E c \in charging :
              CommissionFails(c) /\ c.game \in Games /\ game[c.game] # "NONE"
<1> USE DEF Typed, TypeOK
<1>1. ASSUME NEW g \in Games, AddBet(g)
      PROVE  g \in adding /\ UNCHANGED <<endPrice, ends, cancelled>>
  BY <1>1 DEF AddBet, history
<1>2. ASSUME NEW c \in cashing, CashOutWrite(c)
      PROVE  \E gs \in SUBSET Games, price \in [Games -> EndPrices] :
              /\ MoveToPending(gs, price) /\ \A g \in gs : game[g] # "NONE"
              /\ \A g \in gs : price[g] \in Prices
              /\ UNCHANGED <<cancelled, adding, batch, redelivered, toLedger, paid>>
              /\ \A g \in Games : Event(g, "CLOSE") \in outbox' => Event(g, "CLOSE") \in outbox
  <2>1. c.game \in Games /\ c.price \in Prices /\ game[c.game] # "NONE"
    BY DEF Read, Opened
  <2>2. {c.game} \in SUBSET Games /\ [g \in Games |-> c.price] \in [Games -> EndPrices]
    BY <2>1 DEF EndPrices
  <2>3. \A g \in Games : Event(g, "CLOSE") \in outbox' => Event(g, "CLOSE") \in outbox
    BY <1>2 DEF CashOutWrite, Event
  <2>4. /\ MoveToPending({c.game}, [g \in Games |-> c.price])
        /\ UNCHANGED <<cancelled, adding, batch, redelivered, toLedger, paid>>
    BY <1>2 DEF CashOutWrite, jobs
  <2> QED BY <2>1, <2>2, <2>3, <2>4
<1>3. ASSUME PriceWrite
      PROVE  \E gs \in SUBSET Games, price \in [Games -> EndPrices] :
              /\ MoveToPending(gs, price) /\ \A g \in gs : game[g] # "NONE"
              /\ \A g \in gs : price[g] \in Prices
              /\ UNCHANGED <<cancelled, adding, batch, redelivered, toLedger, paid>>
              /\ \A g \in Games : Event(g, "CLOSE") \in outbox' => Event(g, "CLOSE") \in outbox
  <2>1. /\ watching.games \in SUBSET Games /\ watching.price \in Prices
        /\ [g \in Games |-> watching.price] \in [Games -> EndPrices]
        /\ \A g \in watching.games : game[g] # "NONE"
    BY <1>3 DEF PriceWrite, Opened, EndPrices
  <2>2. /\ MoveToPending(watching.games, [g \in Games |-> watching.price])
        /\ UNCHANGED <<cancelled, adding, batch, redelivered, toLedger, paid, outbox>>
    BY <1>3 DEF PriceWrite, calls, kafka
  <2> QED BY <2>1, <2>2
<1>4. ASSUME NEW c \in charging, CommissionFails(c)
      PROVE  c.game \in Games /\ game[c.game] # "NONE"
  BY DEF Opened, Charges
<1>5. ASSUME NEW r \in batch, Resolve(r)
      PROVE  UNCHANGED <<endPrice, ends, cancelled>>
  BY <1>5 DEF Resolve, history
<1> HIDE DEF Typed, TypeOK
<1>6. \/ UNCHANGED <<game, endPrice, ends, cancelled>>
      \/ \E g \in Games : AddBet(g)
      \/ \E c \in charging : CommissionFails(c)
      \/ \E r \in batch : Resolve(r)
      \/ \E c \in cashing : CashOutWrite(c)
      \/ PriceWrite
  BY DEF Next, Player, Done, vars, row, history, CountOpen, RefuseBet, CashOutRead,
         CashOutFails, PriceRead, PriceFails, FreeHoursPass, RetryHourly, CommissionRead,
         CommissionPaid, GiveRewards, GiveRewardsFails, OnGameChanged, Publish,
         PublishFails, ResolveRead, ResolveFails, Restart
<1> QED BY <1>1, <1>2, <1>3, <1>4, <1>5, <1>6

\* A game that was opened stays so, and one that was ended.
LEMMA GoesOn ==
  ASSUME Typed, Opened, [Next]_vars, NEW g \in Games
  PROVE  /\ game[g] # "NONE" => game'[g] # "NONE"
         /\ game[g] \in Ended => game'[g] \in Ended
         /\ game[g] = "PENDING" => game'[g] = "PENDING" \/ \E r \in batch : Resolve(r)
<1>0. game \in [Games -> States \cup {"NONE"}] /\ endPrice \in [Games -> EndPrices] /\ TypeOK
      /\ batch \subseteq Read
  BY DEF Typed, TypeOK
<1>1. CASE UNCHANGED game
  BY <1>1
<1>2. ASSUME NEW h \in adding, AddBet(h)
      PROVE  /\ game[g] # "NONE" => game'[g] # "NONE"
             /\ game[g] \in Ended => game'[g] \in Ended
             /\ game[g] = "PENDING" => game'[g] = "PENDING"
  BY <1>0, <1>2 DEF AddBet, Opened, Ended
<1>3. ASSUME NEW r \in batch, Resolve(r)
      PROVE  /\ game[g] # "NONE" => game'[g] # "NONE"
             /\ game[g] \in Ended => game'[g] \in Ended
  BY <1>0, <1>3 DEF Resolve, Ended
<1>4. ASSUME NEW gs \in SUBSET Games, NEW price \in [Games -> EndPrices],
             MoveToPending(gs, price)
      PROVE  /\ game[g] # "NONE" => game'[g] # "NONE"
             /\ game[g] \in Ended => game'[g] \in Ended
             /\ game[g] = "PENDING" => game'[g] = "PENDING"
  BY <1>0, <1>4, Moved DEF Ended
<1>5. ASSUME NEW c \in charging, CommissionFails(c), c.game \in Games
      PROVE  /\ game[g] # "NONE" => game'[g] # "NONE"
             /\ game[g] \in Ended => game'[g] \in Ended
             /\ game[g] = "PENDING" => game'[g] = "PENDING"
  BY <1>0, <1>4, <1>5 DEF CommissionFails
<1> QED BY <1>1, <1>2, <1>3, <1>4, <1>5, MovedWhich

\* What touches the timers of the commission.
LEMMA OnlyTimers ==
  ASSUME [Next]_vars
  PROVE  \/ \E e \in Events : OnGameChanged(e)
         \/ \E g \in Games : FreeHoursPass(g) \/ RetryHourly(g)
         \/ Restart
         \/ /\ free' \subseteq free /\ hourly' \subseteq hourly
            /\ UNCHANGED <<stray, retrying>>
BY ZenonT(60)
DEF Next, Player, Done, vars, timers, Unregister, CountOpen, AddBet, RefuseBet,
    CashOutRead, CashOutWrite, CashOutFails, PriceRead, PriceWrite, PriceFails,
    CommissionRead, CommissionPaid, CommissionFails, GiveRewards, GiveRewardsFails,
    Publish, PublishFails, ResolveRead, Resolve, ResolveFails

\* Every step keeps the games that are known opened, once.
LEMMA OpenedStep ==
  Typed /\ Opened /\ Known /\ BatchPending /\ [Next]_vars => Opened'
<1> SUFFICES ASSUME Typed, Opened, Known, BatchPending, [Next]_vars PROVE Opened'
  OBVIOUS
<1>0. /\ game \in [Games -> States \cup {"NONE"}] /\ TypeOK /\ adding \subseteq Games
      /\ cashing \subseteq Read /\ watching.games \subseteq Games
      /\ charging \subseteq Charges /\ \A c \in Charges : c.game \in Games
      /\ free \cup hourly \cup retrying \subseteq Games
      /\ endPrice \in [Games -> EndPrices]
      /\ batch \subseteq Read /\ \A c \in Read : c.game \in Games
  BY DEF Typed, TypeOK, Read, Charges
<1>1. \A g \in Games : game[g] # "NONE" => game'[g] # "NONE"
  BY GoesOn
<1>2. \A g \in adding' : game'[g] = "NONE"
  <2>1. ASSUME NEW gs \in SUBSET Games, NEW price \in [Games -> EndPrices],
               MoveToPending(gs, price), \A g \in gs : game[g] # "NONE", UNCHANGED adding
        PROVE  \A g \in adding' : game'[g] = "NONE"
    BY <1>0, <2>1, Moved DEF Opened
  <2>2. ASSUME NEW c \in charging, CommissionFails(c), game[c.game] # "NONE"
        PROVE  \A h \in adding' : game'[h] = "NONE"
    <3>1. MoveToPending({c.game}, endPrice) /\ UNCHANGED adding
      BY <2>2 DEF CommissionFails, calls
    <3> QED BY <1>0, <2>1, <2>2, <3>1
  <2>3. ASSUME NEW r \in batch, Resolve(r)
        PROVE  \A g \in adding' : game'[g] = "NONE"
    BY <1>0, <2>3 DEF Resolve, calls, BatchPending, Opened
  <2>4. ASSUME NEW g \in adding, AddBet(g)
        PROVE  \A h \in adding' : game'[h] = "NONE"
    BY <1>0, <2>4 DEF AddBet, Opened
  <2>5. CASE UNCHANGED game
    <3>1. \A g \in adding' : g \in adding \/ game[g] = "NONE"
      BY DEF Next, Player, Done, vars, calls, CountOpen, AddBet, RefuseBet, CashOutRead,
             CashOutWrite, CashOutFails, PriceRead, PriceWrite, PriceFails, FreeHoursPass,
             RetryHourly, CommissionRead, CommissionPaid, CommissionFails, GiveRewards,
             GiveRewardsFails, OnGameChanged, Publish, PublishFails, ResolveRead, Resolve,
             ResolveFails, Restart
    <3> QED BY <2>5, <3>1 DEF Opened
  <2> QED BY <2>1, <2>2, <2>3, <2>4, <2>5, MovedWhich
<1>3. \A c \in cashing' : c \in cashing \/ (c.game \in Games /\ game[c.game] # "NONE")
  <2>1. ASSUME NEW g \in Games, NEW p \in Prices, CashOutRead(g, p)
        PROVE  \A c \in cashing' : c \in cashing \/ (c.game = g /\ game[g] # "NONE")
    BY <2>1 DEF CashOutRead
  <2>2. \/ cashing' \subseteq cashing
        \/ \E g \in Games, p \in Prices : CashOutRead(g, p)
    BY DEF Next, Player, Done, vars, calls, CountOpen, AddBet, RefuseBet, CashOutWrite,
       CashOutFails, PriceRead, PriceWrite, PriceFails, FreeHoursPass, RetryHourly,
       CommissionRead, CommissionPaid, CommissionFails, GiveRewards, GiveRewardsFails,
       OnGameChanged, Publish, PublishFails, ResolveRead, Resolve, ResolveFails, Restart
  <2> QED BY <2>1, <2>2
<1>4. \A g \in watching'.games : g \in watching.games \/ (g \in Games /\ game[g] # "NONE")
  <2>1. ASSUME NEW p \in Prices, PriceRead(p)
        PROVE  watching'.games \subseteq {g \in Games : game[g] = "INPROGRESS"}
    BY <2>1 DEF PriceRead
  <2>2. UNCHANGED watching \/ watching' = Idle \/ \E p \in Prices : PriceRead(p)
    BY DEF Next, Player, Done, vars, jobs, CountOpen, AddBet, RefuseBet, CashOutRead,
       CashOutWrite, CashOutFails, PriceWrite, PriceFails, FreeHoursPass, RetryHourly,
       CommissionRead, CommissionPaid, CommissionFails, GiveRewards, GiveRewardsFails,
       OnGameChanged, Publish, PublishFails, ResolveRead, Resolve, ResolveFails, Restart
  <2> QED BY <2>1, <2>2 DEF Idle
<1>5. \A c \in charging' : c \in charging \/ (c.game \in Games /\ game[c.game] # "NONE")
  <2>1. ASSUME NEW g \in Games, CommissionRead(g)
        PROVE  \A c \in charging' : c \in charging \/ (c.game = g /\ game[g] # "NONE")
    BY <2>1 DEF CommissionRead
  <2>2. charging' \subseteq charging \/ \E g \in Games : CommissionRead(g)
    BY DEF Next, Player, Done, vars, jobs, CountOpen, AddBet, RefuseBet, CashOutRead,
       CashOutWrite, CashOutFails, PriceRead, PriceWrite, PriceFails, FreeHoursPass,
       RetryHourly, CommissionPaid, CommissionFails, GiveRewards, GiveRewardsFails,
       OnGameChanged, Publish, PublishFails, ResolveRead, Resolve, ResolveFails, Restart
  <2> QED BY <2>1, <2>2
<1>6. \A g \in free' \cup hourly' \cup retrying' :
        g \in free \cup hourly \cup retrying \/ (g \in Games /\ game[g] # "NONE")
  <2>1. ASSUME NEW e \in Events, OnGameChanged(e)
        PROVE  \A g \in free' \cup hourly' \cup retrying' :
                 g \in free \cup hourly \cup retrying \/ (g \in Games /\ game[g] # "NONE")
    <3>1. e.game \in Games /\ game[e.game] # "NONE" /\ e.state \in States
      BY <2>1, EventIs DEF OnGameChanged, TakeFrom, Known, Reached
    <3> QED BY <2>1, <3>1 DEF OnGameChanged, Unregister
  <2>2. CASE Restart
    BY <2>2 DEF Restart
  <2>3. ASSUME NEW g \in Games, FreeHoursPass(g) \/ RetryHourly(g)
        PROVE  free' \cup hourly' \cup retrying' \subseteq free \cup hourly \cup retrying
    BY <2>3 DEF FreeHoursPass, RetryHourly, StartHourly
  <2>4. CASE free' \subseteq free /\ hourly' \subseteq hourly /\ retrying' \subseteq retrying
    BY <2>4
  <2> QED
    BY <2>1, <2>2, <2>3, <2>4, OnlyTimers
<1> QED BY <1>0, <1>1, <1>2, <1>3, <1>4, <1>5, <1>6 DEF Opened

\* Every step keeps the events behind the changes.
LEMMA KnownStep ==
  Typed /\ Opened /\ Known /\ BatchPending /\ [Next]_vars => Known'
<1> SUFFICES ASSUME Typed, Opened, Known, BatchPending, [Next]_vars,
                    NEW e \in Events, e \in outbox' \/ toWorker'[e] > 0
             PROVE  Reached(e)'
  BY DEF Known
<1>0. /\ game \in [Games -> States \cup {"NONE"}] /\ TypeOK /\ toWorker \in [Events -> Nat]
      /\ outbox \subseteq Events /\ cashing \subseteq Read /\ batch \subseteq Read
      /\ \A c \in Read : c.game \in Games
      /\ endPrice \in [Games -> EndPrices]
  BY DEF Typed, TypeOK, Read
<1>1. Reached(e) => Reached(e)'
  BY GoesOn, EventIs DEF Reached
<1>2. CASE e \in outbox \/ toWorker[e] > 0
  BY <1>1, <1>2 DEF Known
<1>3. CASE ~(e \in outbox \/ toWorker[e] > 0)
  <2>1. ASSUME NEW g \in Games, AddBet(g)
        PROVE  Reached(e)'
    BY <1>0, <1>3, <2>1, EventTyped DEF AddBet, Reached, States
  <2>2. ASSUME NEW c \in cashing, CashOutWrite(c)
        PROVE  Reached(e)'
    <3>1. MoveToPending({c.game}, [g \in Games |-> c.price]) /\ c.game \in Games
      BY <1>0, <2>2 DEF CashOutWrite
    <3>2. game'[c.game] = "PENDING"
      BY <1>0, <3>1 DEF MoveToPending
    <3>3. e = Event(c.game, "PENDING")
      BY <1>3, <2>2 DEF CashOutWrite
    <3> QED BY <3>1, <3>2, <3>3, EventTyped DEF Reached, Ended, States
  <2>3. ASSUME NEW c \in charging, CommissionFails(c)
        PROVE  Reached(e)'
    <3>0. c.game \in Games
      BY DEF Typed, TypeOK, Charges
    <3>1. game'[c.game] = "PENDING"
      BY <1>0, <2>3, <3>0 DEF CommissionFails, MoveToPending
    <3>2. e = Event(c.game, "PENDING")
      BY <1>3, <2>3 DEF CommissionFails
    <3> QED BY <3>0, <3>1, <3>2, EventTyped DEF Reached, Ended, States
  <2>4. ASSUME NEW r \in batch, Resolve(r)
        PROVE  Reached(e)'
    BY <1>0, <1>3, <2>4, EventTyped DEF Resolve, Reached, Ended, States
  <2>5. ASSUME NEW f \in outbox, Publish(f)
        PROVE  FALSE
    BY <1>0, <1>3, <2>5 DEF Publish
  <2>6. ASSUME NEW f \in Events, OnGameChanged(f)
        PROVE  FALSE
    <3>1. toWorker'[e] <= toWorker[e] /\ toWorker' \in [Events -> Nat] /\ UNCHANGED outbox
      BY <1>0, <2>6, Taken DEF OnGameChanged
    <3> QED BY <1>0, <1>3, <3>1
  <2>7. CASE outbox' \subseteq outbox /\ UNCHANGED toWorker
    BY <1>3, <2>7
  <2> QED
    BY <2>1, <2>2, <2>3, <2>4, <2>5, <2>6, <2>7
    DEF Next, Player, Done, vars, kafka, CountOpen, RefuseBet, CashOutRead, CashOutFails,
        PriceRead, PriceWrite, PriceFails, FreeHoursPass, RetryHourly, CommissionRead,
        CommissionPaid, GiveRewards, GiveRewardsFails, PublishFails, ResolveRead,
        ResolveFails, Restart
<1> QED BY <1>2, <1>3

\* Every step keeps the games of the resolver PENDING.
LEMMA BatchStep ==
  Typed /\ Opened /\ BatchPending /\ [Next]_vars => BatchPending'
<1> SUFFICES ASSUME Typed, Opened, BatchPending, [Next]_vars PROVE BatchPending'
  OBVIOUS
<1>0. /\ game \in [Games -> States \cup {"NONE"}] /\ batch \subseteq Read
      /\ \A r \in Read : r.game \in Games
  BY DEF Typed, TypeOK, Read
<1>1. CASE \E r \in batch : Resolve(r)
  <2>1. PICK r \in batch : batch' = batch \ {r} /\ game' = [game EXCEPT ![r.game] = "CLOSE"]
    BY <1>1 DEF Resolve
  <2> QED BY <1>0, <2>1 DEF BatchPending
<1>2. CASE ~(\E r \in batch : Resolve(r)) /\ batch' \subseteq batch
  BY <1>0, <1>2, GoesOn DEF BatchPending
<1>3. CASE ResolveRead
  BY <1>0, <1>3 DEF ResolveRead, Pending, BatchPending, row
<1> QED
  BY <1>1, <1>2, <1>3
  DEF Next, Player, Done, vars, jobs, CountOpen, AddBet, RefuseBet, CashOutRead,
      CashOutWrite, CashOutFails, PriceRead, PriceWrite, PriceFails, FreeHoursPass,
      RetryHourly, CommissionRead, CommissionPaid, CommissionFails, GiveRewards,
      GiveRewardsFails, OnGameChanged, Publish, PublishFails, ResolveFails, Restart

-----------------------------------------------------------------------------
(* Payments *)

\* A payment for an end stays one: a step that neither ends nor closes a game.
LEMMA PaidStep ==
  /\ Typed /\ Opened /\ BatchPending /\ PaidOncePerEnd /\ [Next]_vars
  => PaidOncePerEnd'
<1> SUFFICES ASSUME Typed, Opened, BatchPending, PaidOncePerEnd, [Next]_vars
             PROVE  PaidOncePerEnd'
  OBVIOUS
<1>0. /\ game \in [Games -> States \cup {"NONE"}] /\ TypeOK
      /\ toLedger \in [Games -> Nat] /\ paid \in [Games -> Nat] /\ ends \in [Games -> Nat]
      /\ batch \subseteq Read /\ \A c \in Read : c.game \in Games
      /\ endPrice \in [Games -> EndPrices]
      /\ outbox \subseteq Events
  BY DEF Typed, TypeOK, Read
<1>1. redelivered \subseteq redelivered'
  <2>1. ASSUME NEW e \in Events, OnGameChanged(e)
        PROVE  redelivered \subseteq redelivered'
    BY <1>0, <2>1, Taken DEF OnGameChanged
  <2> QED
    BY <2>1 DEF Next, Player, Done, vars, kafka, CountOpen, AddBet, RefuseBet,
       CashOutRead, CashOutWrite, CashOutFails, PriceRead, PriceWrite, PriceFails,
       FreeHoursPass, RetryHourly, CommissionRead, CommissionPaid, CommissionFails,
       GiveRewards, GiveRewardsFails, Publish, PublishFails, ResolveRead, Resolve,
       ResolveFails, Restart
<1>2. ASSUME UNCHANGED <<toLedger, paid>>,
             \A g \in Games : Event(g, "CLOSE") \in outbox' => Event(g, "CLOSE") \in outbox,
             \A g \in Games : \/ game'[g] = "PENDING" /\ ends'[g] = ends[g] + 1
                              \/ game'[g] = game[g] /\ ends'[g] = ends[g]
                              \/ game'[g] # "PENDING" /\ ends'[g] = ends[g]
      PROVE  PaidOncePerEnd'
  <2> SUFFICES ASSUME NEW g \in Games, Event(g, "CLOSE") \notin redelivered'
               PROVE  Closings(g)' <= ends'[g]
    BY DEF PaidOncePerEnd
  <2>1. Closings(g) <= ends[g]
    BY <1>1 DEF PaidOncePerEnd
  <2> QED BY <1>0, <1>2, <2>1 DEF Closings
<1>3. ASSUME NEW gs \in SUBSET Games, NEW price \in [Games -> EndPrices],
             MoveToPending(gs, price), UNCHANGED <<toLedger, paid>>,
             \A g \in Games : Event(g, "CLOSE") \in outbox' => Event(g, "CLOSE") \in outbox
      PROVE  PaidOncePerEnd'
  <2>1. \A g \in Games : \/ game'[g] = "PENDING" /\ ends'[g] = ends[g] + 1
                         \/ game'[g] = game[g] /\ ends'[g] = ends[g]
    BY <1>0, <1>3, Moved
  <2> QED BY <1>2, <1>3, <2>1
<1>4. CASE UNCHANGED <<game, ends, toLedger, paid>> /\ outbox' \subseteq outbox
  BY <1>2, <1>4
<1>5. ASSUME NEW g \in Games, AddBet(g)
      PROVE  PaidOncePerEnd'
  <2>1. \A h \in Games : Event(h, "CLOSE") \in outbox' => Event(h, "CLOSE") \in outbox
    BY <1>5 DEF AddBet, Event
  <2>2. \A h \in Games : ends'[h] = ends[h] /\ (game'[h] = game[h] \/ game'[h] # "PENDING")
    BY <1>0, <1>5 DEF AddBet, history
  <2> QED BY <1>2, <1>5, <2>1, <2>2 DEF AddBet
<1>6. ASSUME NEW c \in cashing, CashOutWrite(c)
      PROVE  PaidOncePerEnd'
  <2>1. {c.game} \in SUBSET Games /\ [g \in Games |-> c.price] \in [Games -> EndPrices]
    BY DEF Typed, TypeOK, Read
  <2>2. \A g \in Games : Event(g, "CLOSE") \in outbox' => Event(g, "CLOSE") \in outbox
    BY <1>6 DEF CashOutWrite, Event
  <2> QED BY <1>3, <1>6, <2>1, <2>2 DEF CashOutWrite
<1>7. CASE PriceWrite
  <2>1. /\ watching.games \in SUBSET Games
        /\ [g \in Games |-> watching.price] \in [Games -> EndPrices]
    BY DEF Typed, TypeOK
  <2> QED BY <1>3, <1>7, <2>1 DEF PriceWrite, kafka
<1>8. ASSUME NEW c \in charging, CommissionFails(c)
      PROVE  PaidOncePerEnd'
  <2>0. {c.game} \in SUBSET Games
    BY DEF Typed, TypeOK, Charges
  <2>1. \A h \in Games : Event(h, "CLOSE") \in outbox' => Event(h, "CLOSE") \in outbox
    BY <1>8 DEF CommissionFails, Event
  <2> QED BY <1>0, <1>3, <1>8, <2>0, <2>1 DEF CommissionFails
<1>9. ASSUME NEW r \in batch, Resolve(r)
      PROVE  PaidOncePerEnd'
  <2>1. /\ r.game \in Games /\ game[r.game] = "PENDING"
        /\ game' = [game EXCEPT ![r.game] = "CLOSE"]
        /\ outbox' = outbox \cup {Event(r.game, "CLOSE")}
        /\ UNCHANGED <<ends, toLedger, paid>>
    BY <1>0, <1>9 DEF Resolve, BatchPending, history
  <2>2. \A g \in Games \ {r.game} : Closings(g)' = Closings(g)
    BY <2>1 DEF Closings, Event
  <2>3. game'[r.game] = "CLOSE"
    BY <1>0, <2>1
  <2>4. Closings(r.game)' <= Closings(r.game)
    BY <1>0, <2>1, <2>3 DEF Closings
  <2>5. \A g \in Games : Closings(g) \in Nat /\ Closings(g)' \in Nat
    BY <1>0, <2>1 DEF Closings
  <2> QED BY <1>0, <1>1, <2>1, <2>2, <2>4, <2>5 DEF PaidOncePerEnd
<1>10. ASSUME NEW e \in outbox, Publish(e)
       PROVE  PaidOncePerEnd'
  <2>1. e \in Events /\ e.game \in Games /\ e = Event(e.game, e.state)
    BY <1>0, EventIs
  <2>2. UNCHANGED <<game, ends, paid>> /\ outbox' = outbox \ {e}
    BY <1>10 DEF Publish, row, history
  <2>3. CASE e.state = "CLOSE"
    <3>1. toLedger' = [toLedger EXCEPT ![e.game] = @ + 1]
      BY <1>10, <2>3 DEF Publish
    <3>2. Closings(e.game)' = Closings(e.game)
      BY <1>0, <2>1, <2>2, <2>3, <3>1 DEF Closings
    <3>3. \A g \in Games \ {e.game} : Event(g, "CLOSE") # e
      BY EventTyped DEF States
    <3>4. \A g \in Games \ {e.game} : Closings(g)' = Closings(g)
      BY <1>0, <2>1, <2>2, <3>1, <3>3 DEF Closings
    <3> QED BY <1>1, <2>2, <3>2, <3>4 DEF PaidOncePerEnd
  <2>4. CASE e.state # "CLOSE"
    BY <1>2, <1>10, <2>2, <2>4 DEF Publish
  <2> QED BY <2>3, <2>4
<1>13. ASSUME NEW g \in Games, GiveRewardsFails(g)
       PROVE  PaidOncePerEnd'
  <2>1. /\ UNCHANGED <<game, ends, outbox, paid, redelivered>>
        /\ toLedger[g] > 0 /\ toLedger' = [toLedger EXCEPT ![g] = @ - 1]
    BY <1>13 DEF GiveRewardsFails, row
  <2>2. \A h \in Games : Closings(h)' <= Closings(h) /\ Closings(h) \in Nat /\ Closings(h)' \in Nat
    BY <1>0, <2>1 DEF Closings
  <2> QED BY <1>0, <2>1, <2>2 DEF PaidOncePerEnd
<1>14. ASSUME NEW e \in outbox, PublishFails(e)
       PROVE  PaidOncePerEnd'
  BY <1>4, <1>14 DEF PublishFails, row
<1>11. ASSUME NEW g \in Games, GiveRewards(g)
       PROVE  PaidOncePerEnd'
  <2>1. UNCHANGED <<game, ends, outbox>> /\ paid' = [paid EXCEPT ![g] = @ + 1]
    BY <1>11 DEF GiveRewards, row, history
  <2>2. \A h \in Games \ {g} : Closings(h)' = Closings(h)
    BY <1>0, <1>11, <2>1 DEF GiveRewards, Closings
  <2>3. Event(g, "CLOSE") \notin redelivered' => toLedger' = [toLedger EXCEPT ![g] = @ - 1]
    BY <1>11 DEF GiveRewards
  <2>4. Event(g, "CLOSE") \notin redelivered' => Closings(g)' = Closings(g)
    BY <1>0, <2>1, <2>3 DEF Closings
  <2> QED BY <1>1, <2>1, <2>2, <2>4 DEF PaidOncePerEnd
<1>12. ASSUME NEW e \in Events, OnGameChanged(e)
       PROVE  PaidOncePerEnd'
  <2>1. UNCHANGED <<outbox, toLedger>>
    BY <1>0, <1>12, Taken DEF OnGameChanged
  <2> QED BY <1>4, <1>12, <2>1 DEF OnGameChanged, row, history
<1> QED
  BY <1>4, <1>5, <1>6, <1>7, <1>8, <1>9, <1>10, <1>11, <1>12, <1>13, <1>14
  DEF Next, Player, Done, vars, row, kafka, history, CountOpen, RefuseBet, CashOutRead,
      CashOutFails, PriceRead, PriceFails, FreeHoursPass, RetryHourly, CommissionRead,
      CommissionPaid, ResolveRead, ResolveFails, Restart

-----------------------------------------------------------------------------
(* The result of a game *)

\* Every step keeps what a game shows of its end.
LEMMA ShowStep ==
  /\ Typed /\ Opened /\ BatchPending /\ AllShowEnd /\ [Next]_vars
  => AllShowEnd'
<1> SUFFICES ASSUME Typed, Opened, BatchPending, AllShowEnd, [Next]_vars,
                    NEW g \in Games
             PROVE  ShowsEnd(g)'
  BY DEF AllShowEnd
<1>0. /\ game \in [Games -> States \cup {"NONE"}] /\ TypeOK
      /\ ends \in [Games -> Nat] /\ endPrice \in [Games -> EndPrices]
      /\ settledBy \in [Games -> EndPrices]
      /\ batch \subseteq Read /\ \A c \in Read : c.game \in Games
      /\ cancelled \subseteq Games
  BY DEF Typed, TypeOK, Read
<1>1. ShowsEnd(g)
  BY DEF AllShowEnd
<1>2. NoPrice \notin Prices
  BY PricesAssumption
<1>3. ASSUME UNCHANGED <<ends, endPrice, cancelled, settledBy>>, batch' \subseteq batch,
             game'[g] = game[g] \/ (game[g] = "NONE" /\ game'[g] = "INPROGRESS")
      PROVE  ShowsEnd(g)'
  BY <1>0, <1>1, <1>3 DEF ShowsEnd, Ended
<1>4. ASSUME NEW gs \in SUBSET Games, NEW price \in [Games -> EndPrices],
             MoveToPending(gs, price), \A h \in gs : game[h] # "NONE",
             UNCHANGED batch, cancelled \subseteq cancelled',
             \A h \in Games \ gs : h \in cancelled' => h \in cancelled,
             \A h \in gs : ends[h] = 0 => (price[h] = NoPrice <=> h \in cancelled')
      PROVE  ShowsEnd(g)'
  <2>1. CASE g \notin gs
    <3>1. /\ game'[g] = game[g] /\ endPrice'[g] = endPrice[g] /\ ends'[g] = ends[g]
          /\ settledBy'[g] = settledBy[g] /\ (g \in cancelled' <=> g \in cancelled)
      BY <1>0, <1>4, <2>1, Moved
    <3> QED BY <1>1, <1>4, <3>1 DEF ShowsEnd
  <2>2. CASE g \in gs
    <3>1. /\ game'[g] = "PENDING" /\ endPrice'[g] = price[g] /\ ends'[g] = ends[g] + 1
      BY <1>0, <1>4, <2>2, Moved
    <3>2. ends[g] = 0 => \A r \in batch' : r.game # g
      BY <1>1, <1>4 DEF ShowsEnd, BatchPending, Ended
    <3>3. ends[g] = 0 => (price[g] = NoPrice <=> g \in cancelled')
      BY <1>4, <2>2
    <3> QED BY <1>0, <3>1, <3>2, <3>3 DEF ShowsEnd, Ended
  <2> QED BY <2>1, <2>2
<1>5. ASSUME NEW gs \in SUBSET Games, NEW price \in [Games -> EndPrices],
             MoveToPending(gs, price), \A h \in gs : game[h] # "NONE",
             \A h \in gs : price[h] \in Prices, UNCHANGED <<batch, cancelled>>
      PROVE  ShowsEnd(g)'
  <2>1. \A h \in gs : ends[h] = 0 => (price[h] = NoPrice <=> h \in cancelled')
    BY <1>2, <1>5 DEF AllShowEnd, ShowsEnd
  <2> QED BY <1>4, <1>5, <2>1
<1>6. ASSUME NEW c \in charging, NEW h \in Games, h = c.game, CommissionFails(c),
             game[h] # "NONE"
      PROVE  ShowsEnd(g)'
  <2>1. /\ MoveToPending({h}, endPrice) /\ cancelled' = cancelled \cup {h}
        /\ UNCHANGED batch
    BY <1>6 DEF CommissionFails
  <2>2. ends[h] = 0 => endPrice[h] = NoPrice
    BY DEF AllShowEnd, ShowsEnd
  <2> QED BY <1>0, <1>4, <1>6, <2>1, <2>2
<1>7. ASSUME NEW h \in adding, AddBet(h)
      PROVE  ShowsEnd(g)'
  <2>1. h \in Games /\ game[h] = "NONE" /\ game' = [game EXCEPT ![h] = "INPROGRESS"]
    BY <1>7 DEF AddBet, Opened, Typed, TypeOK
  <2> QED BY <1>0, <1>3, <1>7, <2>1 DEF AddBet, jobs, history
<1>8. ASSUME NEW r \in batch, Resolve(r)
      PROVE  ShowsEnd(g)'
  <2>1. /\ r.game \in Games /\ game[r.game] = "PENDING" /\ batch' = batch \ {r}
        /\ game' = [game EXCEPT ![r.game] = "CLOSE"]
        /\ settledBy' = [settledBy EXCEPT ![r.game] = r.price]
        /\ UNCHANGED <<endPrice, ends, cancelled>>
    BY <1>0, <1>8 DEF Resolve, BatchPending, history
  <2>2. CASE g = r.game
    <3>1. game'[g] = "CLOSE" /\ settledBy'[g] = r.price
      BY <1>0, <2>1, <2>2
    <3> QED BY <1>1, <2>1, <2>2, <3>1 DEF ShowsEnd, Ended
  <2>3. CASE g # r.game
    <3>1. game'[g] = game[g] /\ settledBy'[g] = settledBy[g]
      BY <1>0, <2>1, <2>3
    <3> QED BY <1>1, <2>1, <3>1 DEF ShowsEnd
  <2> QED BY <2>2, <2>3
<1>9. CASE UNCHANGED <<game, endPrice, ends, cancelled>>
  <2>1. \A r \in batch' : r \in batch \/ r.price = endPrice[r.game]
    <3>1. CASE ResolveRead
      BY <3>1 DEF ResolveRead
    <3>2. batch' \subseteq batch \/ ResolveRead
      BY DEF Next, Player, Done, vars, jobs, CountOpen, AddBet, RefuseBet, CashOutRead,
         CashOutWrite, CashOutFails, PriceRead, PriceWrite, PriceFails, FreeHoursPass,
         RetryHourly, CommissionRead, CommissionPaid, CommissionFails, GiveRewards,
         GiveRewardsFails, OnGameChanged, Publish, PublishFails, Resolve, ResolveFails,
         Restart
    <3> QED BY <3>1, <3>2
  <2>2. CASE UNCHANGED settledBy
    BY <1>1, <1>9, <2>1, <2>2 DEF ShowsEnd
  <2>3. CASE \E r \in batch : Resolve(r)
    BY <1>8, <2>3
  <2> QED
    BY <2>2, <2>3
    DEF Next, Player, Done, vars, row, MoveToPending, CountOpen, AddBet, RefuseBet,
        CashOutRead, CashOutWrite, CashOutFails, PriceRead, PriceWrite, PriceFails,
        FreeHoursPass, RetryHourly, CommissionRead, CommissionPaid, CommissionFails,
        GiveRewards, GiveRewardsFails, OnGameChanged, Publish, PublishFails, ResolveRead,
        ResolveFails, Restart
<1> QED BY <1>5, <1>6, <1>7, <1>8, <1>9, MovedWhich

-----------------------------------------------------------------------------
(* The commission *)

\* Every step but one that excuses it leaves a bet with one timer or one event.
LEMMA OneTimerStep ==
  Typed /\ Opened /\ Known /\ OneTimer /\ [Next]_vars => OneTimer'
<1> SUFFICES ASSUME Typed, Opened, Known, OneTimer, [Next]_vars, NEW g \in Games,
                    ~Excused(g)'
             PROVE  (Carriers(g) <= 1 /\ g \notin stray \cup retrying)'
  BY DEF OneTimer
<1> DEFINE Opening == Event(g, "INPROGRESS")
           Goal == (Carriers(g) <= 1 /\ g \notin stray \cup retrying)'
<1>0. /\ Opening \in Events /\ toWorker \in [Events -> Nat] /\ restarts \in Nat
      /\ outbox \subseteq Events /\ TypeOK /\ toWorker[Opening] \in Nat
  BY EventTyped DEF Typed, TypeOK, States
<1>1. ~Excused(g)
  <2>1. ASSUME NEW e \in Events, OnGameChanged(e)
        PROVE  redelivered \subseteq redelivered' /\ UNCHANGED restarts
    BY <1>0, <2>1, Taken DEF OnGameChanged, history
  <2>2. /\ redelivered \subseteq redelivered'
        /\ restarts' = restarts \/ restarts' = restarts + 1
    BY <2>1 DEF Next, Player, Done, vars, kafka, history, CountOpen, AddBet, RefuseBet,
       CashOutRead, CashOutWrite, CashOutFails, PriceRead, PriceWrite, PriceFails,
       FreeHoursPass, RetryHourly, CommissionRead, CommissionPaid, CommissionFails,
       GiveRewards, GiveRewardsFails, Publish, PublishFails, ResolveRead, Resolve,
       ResolveFails, Restart
  <2> QED BY <1>0, <2>2 DEF Excused
<1>2. Carriers(g) <= 1 /\ g \notin stray \cup retrying
  BY <1>1 DEF OneTimer
<1> HIDE DEF Opening
<1>3. ASSUME UNCHANGED <<stray, retrying>>, toWorker'[Opening] = toWorker[Opening],
             Opening \in outbox' => Opening \in outbox,
             free' \subseteq free, hourly' \subseteq hourly
      PROVE  Goal
  BY <1>0, <1>2, <1>3 DEF Carriers, Opening
<1>4. ASSUME NEW h \in Games, AddBet(h)
      PROVE  Goal
  <2>1. /\ outbox' = outbox \cup {Event(h, "INPROGRESS")} /\ game[h] = "NONE"
        /\ UNCHANGED <<free, hourly, stray, retrying, toWorker>>
    BY <1>4 DEF AddBet, Opened, timers
  <2>2. CASE h = g
    <3>1. toWorker[Opening] = 0
      BY <1>0, <2>1, <2>2, EventTyped DEF Known, Reached, Opening, States
    <3>2. g \notin free /\ g \notin hourly
      BY <2>1, <2>2 DEF Opened
    <3> QED BY <1>2, <2>1, <3>1, <3>2 DEF Carriers, Opening
  <2>3. CASE h # g
    <3>1. Opening \in outbox' => Opening \in outbox
      BY <2>1, <2>3 DEF Opening, Event
    <3> QED BY <1>3, <2>1, <3>1
  <2> QED BY <2>2, <2>3
<1>5. ASSUME NEW h \in Games, FreeHoursPass(h) \/ RetryHourly(h)
      PROVE  Goal
  <2>1. UNCHANGED <<outbox, toWorker>>
    BY <1>5 DEF FreeHoursPass, RetryHourly, kafka
  <2>2. CASE h = g
    <3>1. FreeHoursPass(g)
      BY <1>2, <1>5, <2>2 DEF RetryHourly
    <3>2. g \in free /\ g \notin hourly
      BY <1>0, <1>2, <3>1 DEF FreeHoursPass, Carriers, Opening
    <3>3. /\ g \notin free' /\ UNCHANGED stray
          /\ retrying' \subseteq retrying
      BY <3>1, <3>2 DEF FreeHoursPass, StartHourly
    <3> QED BY <1>0, <1>2, <2>1, <3>2, <3>3 DEF Carriers, Opening
  <2>3. CASE h # g
    <3>1. /\ g \in free' <=> g \in free
          /\ g \in hourly' <=> g \in hourly
          /\ g \in stray' \cup retrying' <=> g \in stray \cup retrying
      BY <1>5, <2>3 DEF FreeHoursPass, RetryHourly, StartHourly
    <3> QED BY <1>2, <2>1, <3>1 DEF Carriers, Opening
  <2> QED BY <2>2, <2>3
<1>6. ASSUME NEW e \in Events, OnGameChanged(e)
      PROVE  Goal
  <2>0. e.game \in Games /\ e.state \in States /\ e = Event(e.game, e.state)
    BY EventIs
  <2>1. /\ toWorker[e] > 0 /\ \A f \in Events \ {e} : toWorker'[f] = toWorker[f]
        /\ UNCHANGED <<outbox, stray, retrying>>
        /\ hourly' \subseteq hourly
    BY <1>0, <1>6, Taken DEF OnGameChanged, Unregister
  <2>2. CASE e = Opening
    <3>1. e \notin redelivered'
      BY <2>2 DEF Excused, Opening
    <3>2. toWorker'[e] = toWorker[e] - 1
      BY <1>0, <1>6, <3>1 DEF OnGameChanged, TakeFrom
    <3>3. toWorker'[Opening] = toWorker[Opening] - 1 /\ toWorker[Opening] > 0
      BY <2>1, <2>2, <3>2
    <3>4. /\ g \notin free /\ g \notin hourly /\ Opening \notin outbox
          /\ toWorker[Opening] = 1
      BY <1>0, <1>2, <3>3 DEF Carriers, Opening
    <3> QED BY <1>2, <2>1, <3>3, <3>4 DEF Carriers, Opening
  <2>3. CASE e # Opening
    <3>1. g \in free' => g \in free
      BY <1>6, <2>0, <2>3 DEF OnGameChanged, Unregister, Opening
    <3> QED BY <1>0, <1>2, <2>1, <2>3, <3>1 DEF Carriers, Opening
  <2> QED BY <2>2, <2>3
<1>7. ASSUME NEW e \in outbox, Publish(e)
      PROVE  Goal
  <2>1. /\ outbox' = outbox \ {e} /\ UNCHANGED <<free, hourly, stray, retrying>>
        /\ toWorker' = toWorker \/ toWorker' = [toWorker EXCEPT ![e] = @ + 1]
    BY <1>7 DEF Publish, timers
  <2> QED BY <1>0, <1>2, <2>1 DEF Carriers, Opening
<1>8. CASE Restart
  BY <1>0, <1>8 DEF Restart, Excused
<1>9. \A s \in {"PENDING", "CLOSE"} : \A h : Opening # Event(h, s)
  BY DEF Opening, Event
<1>10. ASSUME NEW c \in cashing, CashOutWrite(c)
       PROVE  Goal
  BY <1>3, <1>9, <1>10 DEF CashOutWrite, timers
<1>11. ASSUME NEW c \in charging, CommissionFails(c)
       PROVE  Goal
  BY <1>3, <1>9, <1>11 DEF CommissionFails, Unregister, timers
<1>12. ASSUME NEW r \in batch, Resolve(r)
       PROVE  Goal
  BY <1>3, <1>9, <1>12 DEF Resolve, timers
<1>13. \/ \E h \in Games : AddBet(h) \/ FreeHoursPass(h) \/ RetryHourly(h)
       \/ \E e \in Events : OnGameChanged(e)
       \/ \E e \in outbox : Publish(e)
       \/ \E c \in cashing : CashOutWrite(c)
       \/ \E c \in charging : CommissionFails(c)
       \/ \E r \in batch : Resolve(r)
       \/ Restart
       \/ /\ outbox' \subseteq outbox /\ UNCHANGED <<toWorker, stray, retrying>>
          /\ free' \subseteq free /\ hourly' \subseteq hourly
  BY ZenonT(60)
  DEF Next, Player, Done, vars, timers, kafka, Unregister, CountOpen, RefuseBet,
      CashOutRead, CashOutFails, PriceRead, PriceWrite, PriceFails, CommissionRead,
      CommissionPaid, GiveRewards, GiveRewardsFails, PublishFails, ResolveRead,
      ResolveFails
<1>14. CASE /\ outbox' \subseteq outbox /\ UNCHANGED <<toWorker, stray, retrying>>
            /\ free' \subseteq free /\ hourly' \subseteq hourly
  BY <1>3, <1>14
<1> HIDE DEF Goal
<1> QED
  BY <1>4, <1>5, <1>6, <1>7, <1>8, <1>10, <1>11, <1>12, <1>13, <1>14 DEF Goal

\* Every step leaves an open bet with a timer, or with the event of it.
LEMMA DueStep ==
  Typed /\ Opened /\ Known /\ BatchPending /\ AllDue /\ [Next]_vars => AllDue'
<1> SUFFICES ASSUME Typed, Opened, Known, BatchPending, AllDue, [Next]_vars,
                    NEW g \in Games, game'[g] = "INPROGRESS"
             PROVE  Due(g)'
  BY DEF AllDue, Due
<1> DEFINE Opening == Event(g, "INPROGRESS")
           Stays == /\ g \in free \cup hourly => g \in free' \cup hourly'
                    /\ outbox \subseteq outbox' /\ lost \subseteq lost'
                    /\ UNCHANGED toWorker
<1>0. /\ game \in [Games -> States \cup {"NONE"}] /\ TypeOK
      /\ Opening \in Events /\ toWorker \in [Events -> Nat]
      /\ outbox \subseteq Events /\ \A c \in Read : c.game \in Games
      /\ batch \subseteq Read /\ charging \subseteq Charges
      /\ \A c \in Charges : c.game \in Games /\ endPrice \in [Games -> EndPrices]
  BY EventTyped DEF Typed, TypeOK, States, Read, Charges
<1>1. CASE AddBet(g)
  BY <1>1 DEF AddBet, Due
<1>2. ASSUME ~AddBet(g)
      PROVE  game[g] = "INPROGRESS"
  <2>1. ASSUME NEW h \in adding, AddBet(h)
        PROVE  game[g] = "INPROGRESS"
    <3>1. h # g
      BY <1>2, <2>1
    <3> QED BY <1>0, <2>1, <3>1 DEF AddBet
  <2>2. ASSUME NEW r \in batch, Resolve(r)
        PROVE  game[g] = "INPROGRESS"
    BY <1>0, <2>2 DEF Resolve
  <2>3. ASSUME NEW gs \in SUBSET Games, NEW price \in [Games -> EndPrices],
               MoveToPending(gs, price)
        PROVE  game[g] = "INPROGRESS"
    BY <1>0, <2>3, Moved
  <2>4. ASSUME NEW c \in charging, CommissionFails(c), c.game \in Games
        PROVE  game[g] = "INPROGRESS"
    BY <1>0, <2>3, <2>4 DEF CommissionFails
  <2> QED BY <2>1, <2>2, <2>3, <2>4, MovedWhich
<1>3. CASE ~AddBet(g)
  <2>0. game[g] = "INPROGRESS" /\ Due(g)
    BY <1>2, <1>3 DEF AllDue
  <2>1. ASSUME Stays
        PROVE  Due(g)'
    BY <2>0, <2>1 DEF Due
  <2>2. CASE Restart
    BY <2>0, <2>2 DEF Restart, Due
  <2>3. ASSUME NEW e \in Events, OnGameChanged(e)
        PROVE  Due(g)'
    <3>1. /\ toWorker[e] > 0 /\ \A f \in Events \ {e} : toWorker'[f] = toWorker[f]
          /\ UNCHANGED <<outbox, lost>>
      BY <1>0, <2>3, Taken DEF OnGameChanged, history
    <3>2. CASE e = Opening
      <4>1. Opening.state = "INPROGRESS" /\ Opening.game = g
        BY DEF Event
      <4> QED BY <2>3, <3>2, <4>1 DEF OnGameChanged, Due
    <3>3. CASE e # Opening
      <4>1. e.game = g => e.state = "PENDING" \/ e.state = "CLOSE"
        BY <3>3, EventIs DEF States
      <4>2. e.game # g
        BY <2>0, <3>1, <4>1 DEF Known, Reached, Ended
      <4>3. g \in free \cup hourly => g \in free' \cup hourly'
        BY <2>3, <4>2 DEF OnGameChanged, Unregister
      <4>4. toWorker'[Opening] = toWorker[Opening]
        BY <1>0, <3>1, <3>3
      <4> QED BY <2>0, <3>1, <4>3, <4>4 DEF Due
    <3> QED BY <3>2, <3>3
  <2>4. ASSUME NEW h \in Games, FreeHoursPass(h) \/ RetryHourly(h)
        PROVE  Stays
    BY <2>4 DEF FreeHoursPass, RetryHourly, StartHourly, kafka, history
  <2>5. ASSUME NEW h \in Games, CommissionRead(h)
        PROVE  Stays
    BY <2>0, <2>5 DEF CommissionRead, Unregister, timers, kafka, history
  <2>6. ASSUME NEW c \in charging, CommissionFails(c)
        PROVE  Stays
    <3>1. game'[c.game] = "PENDING"
      BY <1>0, <2>6 DEF CommissionFails, MoveToPending
    <3>2. c.game # g
      BY <3>1
    <3> QED BY <2>6, <3>2 DEF CommissionFails, Unregister, timers
  <2>7. ASSUME NEW e \in outbox, Publish(e)
        PROVE  Due(g)'
    <3>1. /\ outbox' = outbox \ {e} /\ UNCHANGED <<free, hourly, lost>>
      BY <2>7 DEF Publish, timers, history
    <3>2. CASE e = Opening
      <4>1. toWorker' = [toWorker EXCEPT ![Opening] = @ + 1]
        BY <2>7, <3>2 DEF Publish, Event
      <4> QED BY <1>0, <4>1 DEF Due
    <3>3. CASE e # Opening
      <4>1. toWorker'[Opening] = toWorker[Opening]
        BY <1>0, <2>7, <3>3 DEF Publish
      <4> QED BY <2>0, <3>1, <3>3, <4>1 DEF Due
    <3> QED BY <3>2, <3>3
  <2>8. ASSUME NEW e \in outbox, PublishFails(e)
        PROVE  Due(g)'
    BY <2>0, <2>8 DEF PublishFails, Due, timers
  <2>9. \/ Restart \/ Stays
        \/ \E h \in Games : FreeHoursPass(h) \/ RetryHourly(h) \/ CommissionRead(h)
        \/ \E e \in Events : OnGameChanged(e)
        \/ \E e \in outbox : Publish(e) \/ PublishFails(e)
        \/ \E c \in charging : CommissionFails(c)
    BY ZenonT(60)
    DEF Next, Player, Done, vars, timers, kafka, history, CountOpen, AddBet, RefuseBet,
        CashOutRead, CashOutWrite, CashOutFails, PriceRead, PriceWrite, PriceFails,
        CommissionPaid, GiveRewards, GiveRewardsFails, ResolveRead, Resolve, ResolveFails
  <2> HIDE DEF Stays
  <2> QED BY <2>1, <2>2, <2>3, <2>4, <2>5, <2>6, <2>7, <2>8, <2>9
<1> QED BY <1>1, <1>3

-----------------------------------------------------------------------------
(* The theorems *)

\* Every step keeps the invariant.
LEMMA InvStep == Inv /\ [Next]_vars => Inv'
BY TypeStep, OpenedStep, KnownStep, BatchStep, PaidStep, ShowStep, OneTimerStep, DueStep
DEF Inv

\* The invariant holds in every behaviour.
THEOREM InvHolds == Spec => []Inv
BY InvInit, InvStep, PTL DEF Spec

\* The variables of the game have their types.
THEOREM TypeCorrect == Spec => []TypeOK
<1>1. Inv => TypeOK
  BY DEF Inv, Typed
<1> QED BY <1>1, InvHolds, PTL

\* A bet is paid once for every time its game was ended, unless Kafka delivers
\* the CLOSE event once more.
THEOREM PaidForEnds == Spec => []PaidOncePerEnd
<1>1. Inv => PaidOncePerEnd
  BY DEF Inv
<1> QED BY <1>1, InvHolds, PTL

\* A game that was ended once has the result of the end price it shows.
THEOREM ResultIsOfEnd == Spec => []ResultMatchesEnd
<1>1. Inv => ResultMatchesEnd
  BY DEF Inv, AllShowEnd, ShowsEnd, ResultMatchesEnd
<1> QED BY <1>1, InvHolds, PTL

\* No open bet escapes its commission while its event is not lost, and none gets
\* a second timer from one event.
THEOREM CommissionDue == Spec => []CommissionIsDue
<1>1. Inv => CommissionIsDue
  BY DEF Inv, OneTimer, Excused, AllDue, Due, CommissionIsDue
<1> QED BY <1>1, InvHolds, PTL
=============================================================================
