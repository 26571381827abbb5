------------------------ MODULE ChallengeTasksProofs ------------------------
(***************************************************************************)
(* Proofs about ChallengeTasks, for any tasks, challenges and thresholds:  *)
(* the reward of a task is paid once, a bonus is paid for every threshold  *)
(* up to the offset and for complete challenges, and when it is paid more  *)
(* than once.                                                              *)
(***************************************************************************)
EXTENDS ChallengeTasks, FiniteSetTheorems, WellFoundedInduction, TLAPS

-----------------------------------------------------------------------------
(* The reward of a task *)

Statuses == Done \cup {"NONE", "NOT_COMPLETED"}

\* Those that close tasks: the runs of the consumer and a call of the user.
Callers == Runs \cup {"call"}

\* The part of TypeOK these proofs need.
RowsTyped ==
  /\ status \in [Tasks -> Statuses]
  /\ earned \in [Tasks -> Nat]
  /\ closing \in [Callers -> SUBSET Tasks]
  /\ claiming \in [Tasks -> Nat]

\* The rows of the tasks are made together.
AllOrNone == (\A t \in Tasks : status[t] = "NONE") \/ Exist

\* Only tasks with a row are worked on.
BusyExist ==
  \A t \in Tasks :
    claiming[t] > 0 \/ (\E w \in Callers : t \in closing[w]) =>
      status[t] # "NONE"

\* Nobody is about to close the task.
NotClosing(t) == \A w \in Callers : t \notin closing[w]

\* Nobody but one call or handler is at the task.
AloneAt(t) ==
  /\ claiming[t] \in {0, 1}
  /\ claiming[t] = 1 => NotClosing(t)
  /\ \A v, w \in Callers : t \in closing[v] /\ t \in closing[w] => v = w

\* A task whose reward was paid is claimed, and nobody is at it any more.
PaidIsClaimed(t) ==
  /\ earned[t] <= 1
  /\ earned[t] = 1 => status[t] = "CLAIMED" /\ claiming[t] = 0 /\ NotClosing(t)

ClaimInv ==
  /\ RowsTyped
  /\ AllOrNone
  /\ BusyExist
  /\ \A t \in Tasks \ suspect : AloneAt(t) /\ PaidIsClaimed(t)

\* A task nobody overlapped at is one nobody was at (Busy).
LEMMA NotBusy ==
  ASSUME RowsTyped, NEW t \in Tasks, ~(Busy(t) > 0)
  PROVE  claiming[t] = 0 /\ NotClosing(t)
<1> DEFINE S == {w \in DOMAIN closing : t \in closing[w]}
<1>1. DOMAIN closing = Callers
  BY DEF RowsTyped
<1>2. IsFiniteSet(S)
  <2>1. IsFiniteSet(Callers)
    <3>1. /\ IsFiniteSet({"one"}) /\ IsFiniteSet({"two"})
          /\ IsFiniteSet({"call"})
      BY FS_Singleton
    <3>2. IsFiniteSet({"one"} \cup {"two"} \cup {"call"})
      BY <3>1, FS_Union
    <3>3. {"one"} \cup {"two"} \cup {"call"} = Callers
      BY DEF Callers, Runs
    <3> QED BY <3>2, <3>3
  <2> QED BY <2>1, <1>1, FS_Subset
<1>3. Cardinality(S) \in Nat /\ (Cardinality(S) = 0 <=> S = {})
  BY <1>2, FS_CardinalityType, FS_EmptySet
<1>4. Busy(t) = Cardinality(S) + claiming[t]
  BY DEF Busy
<1>5. claiming[t] \in Nat
  BY DEF RowsTyped
<1>6. Cardinality(S) = 0 /\ claiming[t] = 0
  BY <1>3, <1>4, <1>5
<1>7. S = {}
  BY <1>3, <1>6
<1>8. NotClosing(t)
  BY <1>1, <1>7 DEF NotClosing
<1> QED BY <1>6, <1>8

\* All variables the invariant reads.
claimed == <<status, closing, claiming, earned, suspect>>

\* With no rows, nobody is at a task and nothing is paid.
LEMMA ClaimInit == Init => ClaimInv
<1> SUFFICES ASSUME Init PROVE ClaimInv
  OBVIOUS
<1>1. RowsTyped
  BY DEF Init, RowsTyped, Statuses, Callers
<1>2. AllOrNone /\ BusyExist
  BY DEF Init, AllOrNone, BusyExist, Callers
<1>3. \A t \in Tasks : AloneAt(t) /\ PaidIsClaimed(t)
  BY DEF Init, AloneAt, PaidIsClaimed, NotClosing, Callers
<1> QED BY <1>1, <1>2, <1>3 DEF ClaimInv

\* A step that leaves the rows and those who work on them alone.
LEMMA ClaimStutter == ClaimInv /\ UNCHANGED claimed => ClaimInv'
BY DEF ClaimInv, claimed, RowsTyped, AllOrNone, BusyExist, Exist, AloneAt,
       PaidIsClaimed, NotClosing

\* The rows are created: there were none, so nobody was at a task.
LEMMA ClaimCreate ==
  ASSUME ClaimInv, NEW w \in Runs, OnUserCreated(w) PROVE ClaimInv'
<1>1. UNCHANGED <<closing, claiming, earned, suspect>>
  BY DEF OnUserCreated
<1>2. CASE Exist
  <2>1. UNCHANGED status
    BY <1>2 DEF OnUserCreated
  <2> QED BY <1>1, <2>1, ClaimStutter DEF claimed
<1>3. CASE ~Exist
  <2>0. status' = [t \in Tasks |-> "NOT_COMPLETED"]
    BY <1>3 DEF OnUserCreated
  <2>1. \A t \in Tasks : status[t] = "NONE"
    BY <1>3 DEF ClaimInv, AllOrNone
  <2>2. RowsTyped'
    BY <1>1, <2>0 DEF ClaimInv, RowsTyped, Statuses
  <2>3. AllOrNone' /\ BusyExist'
    BY <2>0 DEF AllOrNone, Exist, BusyExist
  <2>4. ASSUME NEW t \in Tasks \ suspect
        PROVE  AloneAt(t)' /\ PaidIsClaimed(t)'
    BY <1>1, <2>1 DEF ClaimInv, AloneAt, PaidIsClaimed, NotClosing, RowsTyped
  <2> QED BY <1>1, <2>2, <2>3, <2>4 DEF ClaimInv
<1> QED BY <1>2, <1>3

\* A handler or a call found open tasks of which it will close some: those it
\* does not find somebody at it is alone at.
LEMMA ClaimFind ==
  ASSUME ClaimInv, NEW w \in Callers, NEW found \in SUBSET Tasks,
         \A t \in found : status[t] = "NOT_COMPLETED",
         closing' = [closing EXCEPT ![w] = found],
         Overlap(found),
         UNCHANGED <<status, claiming, earned>>
  PROVE  ClaimInv'
<1>0. \A v \in Callers : closing'[v] = IF v = w THEN found ELSE closing[v]
  BY DEF ClaimInv, RowsTyped
<1>1. RowsTyped'
  BY DEF ClaimInv, RowsTyped
<1>2. AllOrNone' /\ BusyExist'
  <2>1. AllOrNone'
    BY DEF ClaimInv, AllOrNone, Exist
  <2>2. ASSUME NEW t \in Tasks, NEW v \in Callers, t \in closing'[v]
        PROVE  status[t] # "NONE"
    BY <1>0, <2>2 DEF ClaimInv, BusyExist
  <2> QED BY <2>1, <2>2 DEF ClaimInv, BusyExist
<1>3. ASSUME NEW t \in Tasks \ suspect'
      PROVE  AloneAt(t)' /\ PaidIsClaimed(t)'
  <2>1. t \in Tasks \ suspect /\ AloneAt(t) /\ PaidIsClaimed(t)
    BY DEF ClaimInv, Overlap
  <2>2. CASE t \in found
    <3>1. ~(Busy(t) > 0)
      BY <2>2 DEF Overlap
    <3>2. claiming[t] = 0 /\ NotClosing(t)
      BY <3>1, <2>1, NotBusy DEF ClaimInv
    <3>3. earned[t] # 1
      BY <2>1, <2>2 DEF PaidIsClaimed
    <3> QED BY <1>0, <2>1, <3>2, <3>3 DEF AloneAt, PaidIsClaimed, NotClosing
  <2>3. CASE t \notin found
    <3>1. \A v \in Callers : t \in closing'[v] => t \in closing[v]
      BY <1>0, <2>3
    <3> QED BY <2>1, <3>1 DEF AloneAt, PaidIsClaimed, NotClosing
  <2> QED BY <2>2, <2>3
<1> QED BY <1>1, <1>2, <1>3 DEF ClaimInv

\* The handlers of an event look for the tasks they may close.
LEMMA ClaimFindByEvent ==
  ASSUME ClaimInv, NEW w \in Runs, FindByEvent(w) PROVE ClaimInv'
<1>1. PICK ps, seen, cut :
        /\ closing' = [closing EXCEPT ![w] = ToBeClosed(ps, seen) \ cut]
        /\ Overlap(ToBeClosed(ps, seen) \ cut)
  BY DEF FindByEvent
<1> DEFINE found == ToBeClosed(ps, seen) \ cut
<1>a. closing' = [closing EXCEPT ![w] = found] /\ Overlap(found)
  BY <1>1
<1>2. found \in SUBSET Tasks /\ \A t \in found : status[t] = "NOT_COMPLETED"
  BY DEF ToBeClosed
<1>3. UNCHANGED <<status, claiming, earned>> /\ w \in Callers
  BY DEF FindByEvent, tables, Callers
<1> HIDE DEF found
<1> QED BY <1>a, <1>2, <1>3, ClaimFind

\* So does a call of the user.
LEMMA ClaimFindByCall ==
  ASSUME ClaimInv, NEW u \in Tasks, FindByCall(u) PROVE ClaimInv'
<1>1. PICK found \in SUBSET ToBeClosed({pattern[u]}, did \cap Account) :
        /\ Overlap(found)
        /\ closing' = [closing EXCEPT !["call"] = found]
  BY DEF FindByCall
<1>2. found \in SUBSET Tasks /\ \A t \in found : status[t] = "NOT_COMPLETED"
  BY DEF ToBeClosed
<1>3. UNCHANGED <<status, claiming, earned>> /\ "call" \in Callers
  BY DEF FindByCall, tables, Callers
<1> QED BY <1>1, <1>2, <1>3, ClaimFind

\* What was found is closed, whatever its status is by now: a task that was
\* paid in the meantime is suspect.
LEMMA ClaimClose ==
  ASSUME ClaimInv, NEW w \in Callers, CloseTasks(w) PROVE ClaimInv'
<1>1. /\ status' = [t \in Tasks |-> IF t \in closing[w] THEN "COMPLETED"
                                     ELSE status[t]]
      /\ closing' = [closing EXCEPT ![w] = {}]
      /\ UNCHANGED <<claiming, earned, suspect>>
  BY DEF CloseTasks
<1>2. RowsTyped'
  BY <1>1 DEF ClaimInv, RowsTyped, Statuses, Done
<1>3. ASSUME NEW t \in Tasks PROVE status'[t] = "NONE" <=> status[t] = "NONE"
  BY <1>1 DEF ClaimInv, BusyExist, RowsTyped
<1>a. \A v \in Callers : closing'[v] = IF v = w THEN {} ELSE closing[v]
  BY <1>1 DEF ClaimInv, RowsTyped
<1>4. AllOrNone' /\ BusyExist'
  <2>1. AllOrNone'
    BY <1>3 DEF ClaimInv, AllOrNone, Exist
  <2>2. BusyExist'
    BY <1>1, <1>3, <1>a DEF ClaimInv, BusyExist
  <2> QED BY <2>1, <2>2
<1>5. ASSUME NEW t \in Tasks \ suspect
      PROVE  AloneAt(t)' /\ PaidIsClaimed(t)'
  <2>1. AloneAt(t) /\ PaidIsClaimed(t)
    BY DEF ClaimInv
  <2>2. earned[t] = 1 => status'[t] = status[t]
    BY <1>1, <2>1 DEF PaidIsClaimed, NotClosing
  <2> QED BY <1>1, <1>a, <2>1, <2>2 DEF AloneAt, PaidIsClaimed, NotClosing
<1> QED BY <1>1, <1>2, <1>4, <1>5 DEF ClaimInv

\* A claim finds the task open for it.
LEMMA ClaimFound ==
  ASSUME ClaimInv, NEW u \in Tasks, FindClaimed(u) PROVE ClaimInv'
<1>1. /\ status[u] = "COMPLETED"
      /\ claiming' = [claiming EXCEPT ![u] = @ + 1]
      /\ Overlap({u})
      /\ UNCHANGED <<status, earned, closing>>
  BY DEF FindClaimed, MayBeClaimed, tables
<1>2. RowsTyped' /\ AllOrNone' /\ BusyExist'
  BY <1>1 DEF ClaimInv, RowsTyped, AllOrNone, Exist, BusyExist
<1>3. ASSUME NEW t \in Tasks \ suspect'
      PROVE  AloneAt(t)' /\ PaidIsClaimed(t)'
  <2>1. t \in Tasks \ suspect /\ AloneAt(t) /\ PaidIsClaimed(t)
    BY <1>1 DEF ClaimInv, Overlap
  <2>2. CASE t = u
    <3>1. ~(Busy(t) > 0)
      BY <1>1, <2>2 DEF Overlap
    <3>2. claiming[t] = 0 /\ NotClosing(t)
      BY <3>1, <2>1, NotBusy DEF ClaimInv
    <3>3. claiming'[t] = 1
      BY <1>1, <2>2, <3>2 DEF ClaimInv, RowsTyped
    <3> QED BY <1>1, <2>1, <2>2, <3>2, <3>3
            DEF AloneAt, PaidIsClaimed, NotClosing
  <2>3. CASE t # u
    <3>1. claiming'[t] = claiming[t]
      BY <1>1, <2>3 DEF ClaimInv, RowsTyped
    <3> QED BY <1>1, <2>1, <3>1 DEF AloneAt, PaidIsClaimed, NotClosing
  <2> QED BY <2>2, <2>3
<1> QED BY <1>2, <1>3 DEF ClaimInv

\* A claim that is alone at its task pays what was not paid.
LEMMA ClaimPaid ==
  ASSUME ClaimInv, NEW u \in Tasks, ClaimReward(u) PROVE ClaimInv'
<1>1. /\ claiming[u] > 0
      /\ claiming' = [claiming EXCEPT ![u] = @ - 1]
      /\ earned' = [earned EXCEPT ![u] = @ + 1]
      /\ status' = [status EXCEPT ![u] = "CLAIMED"]
      /\ UNCHANGED <<closing, suspect>>
  BY DEF ClaimReward
<1>2. RowsTyped'
  BY <1>1 DEF ClaimInv, RowsTyped, Statuses, Done
<1>3. AllOrNone' /\ BusyExist'
  <2>1. status[u] # "NONE"
    BY <1>1 DEF ClaimInv, BusyExist
  <2>2. ASSUME NEW t \in Tasks
        PROVE  /\ status'[t] = "NONE" <=> status[t] = "NONE"
               /\ claiming'[t] > 0 => claiming[t] > 0
    BY <1>1, <2>1 DEF ClaimInv, RowsTyped
  <2>3. AllOrNone'
    BY <2>2 DEF ClaimInv, AllOrNone, Exist
  <2>4. BusyExist'
    BY <1>1, <2>2 DEF ClaimInv, BusyExist
  <2> QED BY <2>3, <2>4
<1>4. ASSUME NEW t \in Tasks \ suspect
      PROVE  AloneAt(t)' /\ PaidIsClaimed(t)'
  <2>1. AloneAt(t) /\ PaidIsClaimed(t)
    BY DEF ClaimInv
  <2> QED BY <1>1, <2>1
          DEF ClaimInv, RowsTyped, AloneAt, PaidIsClaimed, NotClosing
<1> QED BY <1>1, <1>2, <1>3, <1>4 DEF ClaimInv

\* A crash, a handler or a call that fails forgets who was at the tasks, not
\* what was written.
LEMMA ClaimForget ==
  ASSUME ClaimInv, RowsTyped',
         \A v \in Callers : closing'[v] \subseteq closing[v],
         \A t \in Tasks : claiming'[t] <= claiming[t],
         UNCHANGED <<status, earned, suspect>>
  PROVE  ClaimInv'
<1>1. \A t \in Tasks : claiming[t] \in Nat /\ claiming'[t] \in Nat
  BY DEF ClaimInv, RowsTyped
<1>2. AllOrNone'
  BY DEF ClaimInv, AllOrNone, Exist
<1>3. BusyExist'
  BY <1>1 DEF ClaimInv, BusyExist
<1>4. ASSUME NEW t \in Tasks \ suspect
      PROVE  AloneAt(t)' /\ PaidIsClaimed(t)'
  <2>1. AloneAt(t) /\ PaidIsClaimed(t)
    BY DEF ClaimInv
  <2>2. claiming'[t] \in {0, claiming[t]}
    BY <1>1, <2>1 DEF AloneAt
  <2>3. NotClosing(t) => NotClosing(t)'
    BY DEF NotClosing
  <2> QED BY <2>1, <2>2, <2>3 DEF AloneAt, PaidIsClaimed
<1> QED BY <1>2, <1>3, <1>4 DEF ClaimInv

LEMMA ClaimCrash == ClaimInv /\ Crash => ClaimInv'
<1> SUFFICES ASSUME ClaimInv, Crash PROVE ClaimInv'
  OBVIOUS
<1>1. /\ closing' = [w \in Callers |-> {}]
      /\ claiming' = [t \in Tasks |-> 0]
      /\ UNCHANGED <<status, earned, suspect>>
  BY DEF Crash, tables, ClaimInv, RowsTyped
<1>2. RowsTyped'
  BY <1>1 DEF ClaimInv, RowsTyped
<1>3. \A t \in Tasks : claiming'[t] <= claiming[t]
  BY <1>1 DEF ClaimInv, RowsTyped
<1> QED BY <1>1, <1>2, <1>3, ClaimForget

LEMMA ClaimHandlerFails ==
  ASSUME ClaimInv, NEW w \in Runs, HandlerFails(w) PROVE ClaimInv'
<1>1. UNCHANGED <<status, claiming, earned, suspect>>
  BY DEF HandlerFails, tables
<1>2. \/ closing' = [closing EXCEPT ![w] = {}]
      \/ closing' = [closing EXCEPT ![w] = @]
  BY DEF HandlerFails
<1>3. RowsTyped'
  BY <1>1, <1>2 DEF ClaimInv, RowsTyped, Callers
<1>4. \A v \in Callers : closing'[v] \subseteq closing[v]
  BY <1>2 DEF ClaimInv, RowsTyped
<1>5. \A t \in Tasks : claiming'[t] <= claiming[t]
  BY <1>1 DEF ClaimInv, RowsTyped
<1> QED BY <1>1, <1>3, <1>4, <1>5, ClaimForget

LEMMA ClaimCallFails == ClaimInv /\ CallFails => ClaimInv'
<1> SUFFICES ASSUME ClaimInv, CallFails PROVE ClaimInv'
  OBVIOUS
<1>1. UNCHANGED <<status, earned, suspect>>
  BY DEF CallFails, tables
<1>2. CASE closing' = [closing EXCEPT !["call"] = {}] /\ UNCHANGED claiming
  <2>1. RowsTyped'
    BY <1>1, <1>2 DEF ClaimInv, RowsTyped
  <2>2. \A v \in Callers : closing'[v] \subseteq closing[v]
    BY <1>2 DEF ClaimInv, RowsTyped
  <2>3. \A t \in Tasks : claiming'[t] <= claiming[t]
    BY <1>2 DEF ClaimInv, RowsTyped
  <2> QED BY <1>1, <2>1, <2>2, <2>3, ClaimForget
<1>3. ASSUME NEW u \in Tasks, claiming[u] > 0,
             claiming' = [claiming EXCEPT ![u] = @ - 1], UNCHANGED closing
      PROVE  ClaimInv'
  <2>1. RowsTyped'
    BY <1>1, <1>3 DEF ClaimInv, RowsTyped
  <2>2. \A t \in Tasks : claiming'[t] <= claiming[t]
    BY <1>3 DEF ClaimInv, RowsTyped
  <2> QED BY <1>1, <1>3, <2>1, <2>2, ClaimForget
<1> QED BY <1>2, <1>3 DEF CallFails

\* Every step keeps the invariant of the claims.
LEMMA ClaimWork ==
  ASSUME ClaimInv, NEW w \in Runs, Work(w) PROVE ClaimInv'
<1>1. CASE TakeUserCreated
  BY <1>1, ClaimStutter DEF TakeUserCreated, tables, claimed
<1>2. CASE TakeTaskUpdated
  BY <1>2, ClaimStutter DEF TakeTaskUpdated, tables, claimed
<1>3. CASE OnUserCreated(w)
  BY <1>3, ClaimCreate
<1>4. CASE FindByEvent(w)
  BY <1>4, ClaimFindByEvent
<1>5. CASE CloseTasks(w)
  BY <1>5, ClaimClose DEF Callers
<1>6. CASE Activate(w)
  BY <1>6, ClaimStutter DEF Activate, history, claimed
<1>7. CASE TellActivated(w)
  BY <1>7, ClaimStutter DEF TellActivated, tables, claimed
<1>8. CASE ReadBonus(w)
  BY <1>8, ClaimStutter DEF ReadBonus, tables, claimed
<1>9. CASE ApplyBonus(w)
  BY <1>9, ClaimStutter DEF ApplyBonus, claimed
<1> QED BY <1>1, <1>2, <1>3, <1>4, <1>5, <1>6, <1>7, <1>8, <1>9 DEF Work

LEMMA ClaimStep == ClaimInv /\ [Next]_vars => ClaimInv'
<1> SUFFICES ASSUME ClaimInv, [Next]_vars PROVE ClaimInv'
  OBVIOUS
<1>1. ASSUME NEW deed \in Deeds, Do(deed) PROVE ClaimInv'
  BY <1>1, ClaimStutter DEF Do, tables, history, claimed
<1>2. ASSUME NEW t \in Tasks, FindByCall(t) \/ FindClaimed(t) PROVE ClaimInv'
  BY <1>2, ClaimFindByCall, ClaimFound
<1>3. ASSUME NEW w \in Runs, Work(w) \/ HandlerFails(w) PROVE ClaimInv'
  BY <1>3, ClaimWork, ClaimHandlerFails
<1>4. CASE Answer
  <2>1. CASE CloseTasks("call")
    BY <2>1, ClaimClose DEF Callers
  <2>2. ASSUME NEW t \in Tasks, ClaimReward(t) PROVE ClaimInv'
    BY <2>2, ClaimPaid
  <2> QED BY <1>4, <2>1, <2>2 DEF Answer
<1>5. CASE CallFails
  BY <1>5, ClaimCallFails
<1>6. CASE Crash
  BY <1>6, ClaimCrash
<1>7. CASE DeliverAgain
  BY <1>7, ClaimStutter DEF DeliverAgain, tables, claimed
<1>8. CASE LosePublication
  BY <1>8, ClaimStutter DEF LosePublication, tables, claimed
<1>9. CASE UNCHANGED vars
  BY <1>9, ClaimStutter DEF vars, tables, history, claimed
<1> QED BY <1>1, <1>2, <1>3, <1>4, <1>5, <1>6, <1>7, <1>8, <1>9 DEF Next

\* The reward of a task is paid once, whatever is delivered again, found twice,
\* rolled back or lost in a crash, unless two calls were at the task at the same
\* time (claimReward and closeChallengeTasks).
THEOREM RewardIsClaimedOnce == Spec => []ClaimedOnce
<1>1. ClaimInv => ClaimedOnce
  BY DEF ClaimInv, PaidIsClaimed, ClaimedOnce, RowsTyped
<1> QED BY <1>1, ClaimInit, ClaimStep, PTL DEF Spec

-----------------------------------------------------------------------------
(* The bonus for complete challenges *)

\* A bounded set of naturals has a largest element: the one that leaves the
\* smallest interval up to the bound.
LEMMA BoundedMax ==
  ASSUME NEW S \in SUBSET Nat, S # {}, NEW n \in Nat, \A b \in S : b <= n
  PROVE  Max(S) \in S /\ \A b \in S : b <= Max(S)
<1> DEFINE Above(b) == (b + 1)..n
           T == {Above(b) : b \in S}
<1>1. T \subseteq FiniteSubsetsOf(0..n) /\ T # {}
  <2>1. ASSUME NEW b \in S PROVE Above(b) \in FiniteSubsetsOf(0..n)
    <3>1. b \in Nat
      OBVIOUS
    <3>2. Above(b) \in SUBSET (0..n)
      BY <3>1
    <3>3. IsFiniteSet(0..n)
      BY FS_Interval
    <3>4. IsFiniteSet(Above(b))
      BY <3>2, <3>3, FS_Subset
    <3> QED BY <3>2, <3>4 DEF FiniteSubsetsOf
  <2> QED BY <2>1
<1> HIDE DEF T
<1>2. PICK X \in T : \A Y \in T : ~(<<Y, X>> \in StrictSubsetOrdering(0..n))
  BY <1>1, FS_StrictSubsetOrderingWellFounded, WFMin
<1>3. PICK m \in S : X = Above(m)
  BY <1>2 DEF T
<1>4. ASSUME NEW b \in S PROVE m >= b
  <2> SUFFICES ASSUME b > m PROVE FALSE
    BY <1>3
  <2>1. b \in Nat /\ m \in Nat /\ b <= n
    OBVIOUS
  <2>2. Above(b) \subseteq Above(m) /\ b \in Above(m) /\ b \notin Above(b)
    BY <2>1
  <2>3. Above(b) \in T
    BY DEF T
  <2>4. Above(b) \in SUBSET (0..n) /\ Above(m) \in SUBSET (0..n)
    BY <2>1
  <2> HIDE DEF Above
  <2>5. <<Above(b), Above(m)>> \in StrictSubsetOrdering(0..n)
    BY <2>2, <2>4 DEF StrictSubsetOrdering
  <2> QED BY <1>2, <1>3, <2>3, <2>5
<1>5. Max(S) \in S /\ \A b \in S : Max(S) >= b
  BY <1>4 DEF Max
<1> QED BY <1>5

\* There are finitely many challenges, so they can be counted.
LEMMA CompleteFinite ==
  /\ IsFiniteSet(CompleteChallenges)
  /\ Cardinality(CompleteChallenges) \in Nat
<1> DEFINE all == {challenge[t] : t \in Tasks}
<1>1. [t \in Tasks |-> challenge[t]] \in Surjection(Tasks, all)
  BY DEF Surjection
<1>2. IsFiniteSet(all)
  BY <1>1, TasksAssumption, FS_Surjection
<1>3. CompleteChallenges \subseteq all
  BY DEF CompleteChallenges
<1> QED BY <1>2, <1>3, FS_Subset, FS_CardinalityType

\* The thresholds up to a count.
Upto(n) == {b \in Thresholds : b <= n}

\* They are finitely many.
LEMMA UptoFinite ==
  ASSUME NEW n \in Nat
  PROVE  IsFiniteSet(Upto(n)) /\ Cardinality(Upto(n)) \in Nat
<1>1. Upto(n) \in SUBSET Nat /\ \A b \in Upto(n) : b <= n
  BY ThresholdsAssumption DEF Upto
<1> QED BY <1>1, FS_BoundedSetOfNaturals, FS_CardinalityType

\* There is none up to 0.
LEMMA UptoZero == Cardinality(Upto(0)) = 0
<1>1. \A b \in Thresholds : b \in Nat /\ b # 0
  BY ThresholdsAssumption
<1>2. Upto(0) = {}
  BY <1>1 DEF Upto
<1> QED BY <1>2, FS_EmptySet

\* A set of thresholds up to a count has a size, and its largest one is the
\* offset that is to be written.
LEMMA NewOffsetMax ==
  ASSUME NEW n \in Nat, NEW due \in SUBSET Upto(n)
  PROVE  /\ IsFiniteSet(due) /\ Cardinality(due) \in Nat
         /\ NewOffset(due) \in Nat /\ NewOffset(due) <= n
         /\ due # {} => /\ NewOffset(due) \in due
                        /\ \A b \in due : b <= NewOffset(due)
<1>1. IsFiniteSet(due) /\ Cardinality(due) \in Nat
  BY UptoFinite, FS_Subset, FS_CardinalityType
<1>2. due \in SUBSET Nat /\ \A b \in due : b <= n
  BY ThresholdsAssumption DEF Upto
<1>3. CASE due = {}
  BY <1>1, <1>3 DEF NewOffset
<1>4. CASE due # {}
  <2>1. Max(due) \in due /\ \A b \in due : b <= Max(due)
    BY <1>2, <1>4, BoundedMax
  <2>2. NewOffset(due) = Max(due)
    BY <1>4 DEF NewOffset
  <2> QED BY <1>1, <1>2, <2>1, <2>2
<1> QED BY <1>3, <1>4

\* What run w is to pay: bonuses the challenges are complete for, and all that
\* were not paid when it looked, so that it leaves none out.
MayPay(w) ==
  /\ paying[w] \subseteq Upto(Cardinality(CompleteChallenges))
  /\ Cardinality(Upto(NewOffset(paying[w]))) <=
       bonuses + Cardinality(paying[w])
  /\ ~overlapped /\ ~forgotten /\ paying[w] # {} =>
       Cardinality(Upto(NewOffset(paying[w]))) =
         bonuses + Cardinality(paying[w])

Pays(w) == "pay" \in running[w]

\* A bonus is paid for each threshold up to the offset, which the complete
\* challenges reach, and so it will be when those who are to pay have paid.
BonusInv ==
  /\ DOMAIN running = Runs /\ DOMAIN paying = Runs
  /\ offset \in Nat /\ bonuses \in Nat
  /\ offset <= Cardinality(CompleteChallenges)
  /\ Cardinality(Upto(offset)) <= bonuses
  /\ overlapped \/ forgotten \/ bonuses = Cardinality(Upto(offset))
  /\ \A w \in Runs : Pays(w) => MayPay(w)
  /\ ~overlapped => \A v, w \in Runs : Pays(v) /\ Pays(w) => v = w

EarnedInv == ClaimInv /\ BonusInv

\* At the start there is no bonus and no threshold to reach.
LEMMA BonusInit == Init => BonusInv
<1> SUFFICES ASSUME Init PROVE BonusInv
  OBVIOUS
<1>1. offset = 0 /\ bonuses = 0 /\ DOMAIN running = Runs /\ DOMAIN paying = Runs
  BY DEF Init
<1>2. \A w \in Runs : ~Pays(w)
  BY DEF Init, Pays
<1> QED BY <1>1, <1>2, CompleteFinite, UptoZero DEF BonusInv

\* A step that pays nothing and begins no bonus job, after which every complete
\* challenge still is complete.
LEMMA BonusKept ==
  ASSUME BonusInv, UNCHANGED <<offset, bonuses, overlapped, forgotten>>,
         CompleteChallenges \subseteq CompleteChallenges',
         DOMAIN running' = Runs, DOMAIN paying' = Runs,
         \A w \in Runs : Pays(w)' => Pays(w) /\ paying'[w] = paying[w]
  PROVE  BonusInv'
<1>1. IsFiniteSet(CompleteChallenges)' /\ (Cardinality(CompleteChallenges) \in Nat)'
  BY CompleteFinite, PTL
<1>2. Cardinality(CompleteChallenges) <= Cardinality(CompleteChallenges')
  BY <1>1, FS_Subset
<1>3. Upto(Cardinality(CompleteChallenges)) \subseteq
        Upto(Cardinality(CompleteChallenges'))
  <2>1. \A b \in Thresholds : b \in Nat
    BY ThresholdsAssumption
  <2> QED BY <1>1, <1>2, <2>1, CompleteFinite DEF Upto
<1>4. ASSUME NEW w \in Runs, Pays(w)' PROVE MayPay(w)'
  <2>1. MayPay(w) /\ paying'[w] = paying[w]
    BY <1>4 DEF BonusInv
  <2> QED BY <1>3, <2>1 DEF MayPay, Upto
<1>5. offset' <= Cardinality(CompleteChallenges')
  BY <1>1, <1>2, CompleteFinite DEF BonusInv
<1>6. Cardinality(Upto(offset))' = Cardinality(Upto(offset))
  BY DEF Upto
<1> QED BY <1>4, <1>5, <1>6 DEF BonusInv

\* Done tasks stay done and active tasks stay active.
LEMMA CompleteKept ==
  ASSUME \A t \in Tasks : status[t] \in Done => status'[t] \in Done,
         active \subseteq active', UNCHANGED challenge
  PROVE  CompleteChallenges \subseteq CompleteChallenges'
BY DEF CompleteChallenges

\* A step that leaves the tasks and the bonuses alone, and one run of handlers
\* at most goes on, without a new bonus job.
BonusIdle ==
  UNCHANGED <<challenge, status, active, offset, bonuses, overlapped, forgotten,
              paying>>

LEMMA BonusStutter ==
  ASSUME BonusInv, BonusIdle, UNCHANGED running PROVE BonusInv'
<1>1. CompleteChallenges \subseteq CompleteChallenges'
  BY DEF BonusIdle, CompleteChallenges
<1> QED BY <1>1, BonusKept DEF BonusIdle, BonusInv, Pays

LEMMA BonusGoesOn ==
  ASSUME BonusInv, BonusIdle, NEW w \in Runs, NEW handlers,
         running' = [running EXCEPT ![w] = handlers],
         "pay" \in handlers => "pay" \in running[w]
  PROVE  BonusInv'
<1>1. CompleteChallenges \subseteq CompleteChallenges'
  BY DEF BonusIdle, CompleteChallenges
<1>2. DOMAIN running' = Runs /\ DOMAIN paying' = Runs
  BY DEF BonusIdle, BonusInv
<1>3. \A v \in Runs : Pays(v)' => Pays(v) /\ paying'[v] = paying[v]
  BY DEF BonusIdle, BonusInv, Pays
<1> QED BY <1>1, <1>2, <1>3, BonusKept DEF BonusIdle

\* A bonus job looks: what is due are the thresholds between the offset and the
\* complete challenges.
LEMMA BonusRead ==
  ASSUME BonusInv, NEW w \in Runs, ReadBonus(w) PROVE BonusInv'
<1> DEFINE n == Cardinality(CompleteChallenges)
           due == BonusesDue
<1>1. /\ BonusInv
      /\ UNCHANGED <<challenge, status, active, offset, bonuses, forgotten>>
  BY DEF ReadBonus, tables, season
<1>2. CASE running' = [running EXCEPT ![w] = running[w] \ {"bonus"}]
           /\ UNCHANGED <<paying, overlapped>>
  BY <1>1, <1>2, BonusGoesOn DEF BonusIdle
<1>3. CASE /\ running' = [running EXCEPT
                            ![w] = (running[w] \ {"bonus"}) \cup {"pay"}]
           /\ paying' = [paying EXCEPT ![w] = due]
           /\ overlapped' = (overlapped \/ Pays(Other(w)))
  <2>1. CompleteChallenges' = CompleteChallenges
    BY <1>1 DEF CompleteChallenges
  <2>2. n \in Nat
    BY CompleteFinite
  <2>3. due \in SUBSET Upto(n)
    BY DEF BonusesDue, Upto
  <2> HIDE DEF n
  <2>4. /\ IsFiniteSet(due) /\ Cardinality(due) \in Nat
        /\ NewOffset(due) \in Nat /\ NewOffset(due) <= n
        /\ due # {} => /\ NewOffset(due) \in due
                       /\ \A b \in due : b <= NewOffset(due)
    BY <2>2, <2>3, NewOffsetMax
  <2>5. due # {} => Cardinality(Upto(NewOffset(due))) =
                      Cardinality(Upto(offset)) + Cardinality(due)
    <3> SUFFICES ASSUME due # {}
                 PROVE  Cardinality(Upto(NewOffset(due))) =
                          Cardinality(Upto(offset)) + Cardinality(due)
      OBVIOUS
    <3>1. Upto(NewOffset(due)) = Upto(offset) \cup due
      <4>1. ASSUME NEW b \in Thresholds
            PROVE  b <= NewOffset(due) <=> b <= offset \/ b \in due
        <5>1. b \in Nat /\ offset \in Nat /\ offset < NewOffset(due)
          BY <2>4, ThresholdsAssumption DEF BonusesDue, BonusInv
        <5>2. b \in due <=> offset < b /\ b <= n
          BY DEF BonusesDue, n
        <5>3. b \in due => b <= NewOffset(due)
          BY <2>4
        <5> HIDE DEF due
        <5> QED BY <2>2, <2>4, <5>1, <5>2, <5>3
      <4>2. due \subseteq Thresholds
        BY DEF BonusesDue
      <4> QED BY <4>1, <4>2 DEF Upto
    <3>2. Upto(offset) \cap due = {}
      <4>1. ASSUME NEW b \in due PROVE ~(b <= offset)
        <5>1. b \in Nat /\ offset \in Nat /\ offset < b
          BY ThresholdsAssumption DEF BonusesDue, BonusInv
        <5> QED BY <5>1
      <4> QED BY <4>1 DEF Upto
    <3>3. IsFiniteSet(Upto(offset)) /\ Cardinality(Upto(offset)) \in Nat
      BY UptoFinite DEF BonusInv
    <3>4. Cardinality(Upto(offset) \cup due) =
            Cardinality(Upto(offset)) + Cardinality(due)
              - Cardinality(Upto(offset) \cap due)
      BY <2>4, <3>3, FS_Union
    <3>5. Cardinality(Upto(offset) \cap due) = 0
      BY <3>2, FS_EmptySet
    <3> HIDE DEF due
    <3> QED BY <2>4, <3>1, <3>3, <3>4, <3>5
  <2>6. due = {} => Cardinality(Upto(NewOffset(due))) = 0
    BY UptoZero DEF NewOffset
  <2>7. MayPay(w)'
    <3>1. paying'[w] = due
      BY <1>3 DEF BonusInv
    <3>2. /\ Cardinality(Upto(NewOffset(due))) <= bonuses + Cardinality(due)
          /\ ~overlapped /\ ~forgotten /\ due # {} =>
               Cardinality(Upto(NewOffset(due))) = bonuses + Cardinality(due)
      <4>1. Cardinality(Upto(offset)) \in Nat
        BY UptoFinite DEF BonusInv
      <4> HIDE DEF due
      <4> QED BY <2>4, <2>5, <2>6, <4>1 DEF BonusInv
    <3>3. due \subseteq Upto(n)
      BY <2>3
    <3> HIDE DEF due
    <3> QED BY <1>1, <1>3, <2>1, <3>1, <3>2, <3>3 DEF MayPay, n, Upto, NewOffset
  <2>8. ASSUME NEW v \in Runs, v # w, Pays(v)' PROVE Pays(v) /\ MayPay(v)'
    <3>1. Pays(v) /\ paying'[v] = paying[v]
      BY <1>3, <2>8 DEF Pays, BonusInv
    <3> QED BY <1>1, <1>3, <2>1, <3>1 DEF MayPay, BonusInv, Upto, NewOffset
  <2>9. ASSUME ~overlapped', NEW u \in Runs, NEW v \in Runs, Pays(u)', Pays(v)'
        PROVE  u = v
    <3>1. \A x \in Runs : x = w \/ x = Other(w)
      BY DEF Runs, Other
    <3>2. ~Pays(Other(w))
      BY <1>3, <2>9
    <3> QED BY <2>8, <2>9, <3>1, <3>2
  <2>10. DOMAIN running' = Runs /\ DOMAIN paying' = Runs
    BY <1>3 DEF BonusInv
  <2>11. \A v \in Runs : Pays(v)' => MayPay(v)'
    BY <2>7, <2>8
  <2>12. Upto(offset)' = Upto(offset)
    BY <1>1 DEF Upto
  <2>13. overlapped => overlapped'
    BY <1>3
  <2> QED BY <1>1, <2>1, <2>9, <2>10, <2>11, <2>12, <2>13 DEF BonusInv
<1> QED BY <1>2, <1>3 DEF ReadBonus, GoOn, Pays

\* The bonus job writes the money and the offset.
LEMMA BonusApplied ==
  ASSUME BonusInv, NEW w \in Runs, ApplyBonus(w) PROVE BonusInv'
<1> DEFINE n == Cardinality(CompleteChallenges)
           due == paying[w]
<1>1. /\ bonuses' = bonuses + Cardinality(due)
      /\ offset' = NewOffset(due)
      /\ forgotten' = (forgotten \/ due = {})
      /\ paying' = [paying EXCEPT ![w] = {}]
      /\ running' = [running EXCEPT ![w] = running[w] \ {"pay"}]
      /\ UNCHANGED <<challenge, status, active, overlapped>>
  BY DEF ApplyBonus, GoOn, season
<1>2. Pays(w) /\ MayPay(w)
  BY DEF ApplyBonus, Pays, BonusInv
<1>3. CompleteChallenges' = CompleteChallenges
  BY <1>1 DEF CompleteChallenges
<1>4. n \in Nat
  BY CompleteFinite
<1>5. /\ IsFiniteSet(due) /\ Cardinality(due) \in Nat
      /\ NewOffset(due) \in Nat /\ NewOffset(due) <= n
  BY <1>2, <1>4, NewOffsetMax DEF MayPay
<1>6. DOMAIN running' = Runs /\ DOMAIN paying' = Runs
  BY <1>1 DEF BonusInv
<1>7. Upto(offset)' = Upto(NewOffset(due))
  BY <1>1 DEF Upto
<1>8. /\ offset' \in Nat /\ bonuses' \in Nat
      /\ offset' <= Cardinality(CompleteChallenges')
  BY <1>1, <1>3, <1>5 DEF BonusInv
<1>9. /\ Cardinality(Upto(NewOffset(due))) <= bonuses'
      /\ overlapped' \/ forgotten' \/ bonuses' = Cardinality(Upto(NewOffset(due)))
  BY <1>1, <1>2 DEF MayPay
<1>10. ASSUME NEW v \in Runs, Pays(v)'
       PROVE  v # w /\ Pays(v) /\ MayPay(v)'
  <2>1. v # w /\ Pays(v) /\ paying'[v] = paying[v]
    BY <1>1, <1>10 DEF Pays, BonusInv
  <2>2. overlapped /\ MayPay(v)
    BY <1>2, <2>1 DEF BonusInv
  <2>3. paying[v] \subseteq Upto(n)
    BY <2>2 DEF MayPay
  <2>4. Cardinality(paying[v]) \in Nat /\ NewOffset(paying[v]) \in Nat
    BY <1>4, <2>3, NewOffsetMax
  <2>5. Cardinality(Upto(NewOffset(paying[v]))) \in Nat
    BY <2>4, UptoFinite
  <2>6. Cardinality(Upto(NewOffset(paying[v]))) <=
          bonuses' + Cardinality(paying[v])
    BY <1>1, <1>5, <2>2, <2>4, <2>5 DEF MayPay, BonusInv
  <2> QED BY <1>1, <1>3, <2>1, <2>2, <2>3, <2>6 DEF MayPay, Upto, NewOffset
<1>11. ~overlapped' => \A u, v \in Runs : Pays(u)' /\ Pays(v)' => u = v
  BY <1>1, <1>10 DEF BonusInv
<1> QED BY <1>6, <1>7, <1>8, <1>9, <1>10, <1>11 DEF BonusInv

\* As long as no task has a row, no challenge is complete.
LEMMA BonusCreate ==
  ASSUME EarnedInv, NEW w \in Runs, OnUserCreated(w) PROVE BonusInv'
<1>1. /\ running' = [running EXCEPT ![w] = running[w] \ {"create"}]
      /\ UNCHANGED <<challenge, offset, bonuses, overlapped, forgotten, paying>>
  BY DEF OnUserCreated, GoOn, season
<1>2. CompleteChallenges \subseteq CompleteChallenges'
  <2>1. CASE Exist
    BY <1>1, <2>1 DEF OnUserCreated, CompleteChallenges
  <2>2. CASE ~Exist
    <3>1. \A t \in Tasks : status[t] = "NONE"
      BY <2>2 DEF EarnedInv, ClaimInv, AllOrNone
    <3> QED BY <3>1 DEF CompleteChallenges, Done
  <2> QED BY <2>1, <2>2
<1>3. DOMAIN running' = Runs /\ DOMAIN paying' = Runs
  BY <1>1 DEF EarnedInv, BonusInv
<1>4. \A v \in Runs : Pays(v)' => Pays(v) /\ paying'[v] = paying[v]
  BY <1>1 DEF EarnedInv, BonusInv, Pays
<1> QED BY <1>1, <1>2, <1>3, <1>4, BonusKept DEF EarnedInv

\* What is closed is complete.
LEMMA BonusClose ==
  ASSUME BonusInv, NEW w \in Callers, CloseTasks(w) PROVE BonusInv'
<1>1. /\ \A t \in Tasks : status[t] \in Done => status'[t] \in Done
      /\ UNCHANGED <<challenge, active, offset, bonuses, overlapped, forgotten,
                     paying>>
  BY DEF CloseTasks, Done, season
<1>2. CompleteChallenges \subseteq CompleteChallenges'
  BY <1>1, CompleteKept
<1>3. \/ UNCHANGED running
      \/ \E h \in {"close", "refused"} :
           w \in Runs /\ running' = [running EXCEPT ![w] = running[w] \ {h}]
  BY DEF CloseTasks, GoOn, FailAt
<1>4. DOMAIN running' = Runs /\ DOMAIN paying' = Runs
  BY <1>1, <1>3 DEF BonusInv
<1>5. \A v \in Runs : Pays(v)' => Pays(v) /\ paying'[v] = paying[v]
  BY <1>1, <1>3 DEF BonusInv, Pays
<1> QED BY <1>1, <1>2, <1>4, <1>5, BonusKept

\* The handlers of an event look for tasks.
LEMMA BonusFindByEvent ==
  ASSUME BonusInv, NEW w \in Runs, FindByEvent(w) PROVE BonusInv'
<1>1. BonusIdle
  BY DEF FindByEvent, BonusIdle, tables, season
<1>2. PICK handlers : /\ running' = [running EXCEPT ![w] = handlers]
                      /\ handlers \subseteq running[w] \cup {"close", "refused"}
  BY DEF FindByEvent, GoOn, FailAt
<1> QED BY <1>1, <1>2, BonusGoesOn

\* A handler fails, the bonus job itself may.
LEMMA BonusHandlerFails ==
  ASSUME BonusInv, NEW w \in Runs, HandlerFails(w) PROVE BonusInv'
<1>1. UNCHANGED <<challenge, status, active, offset, bonuses, overlapped,
                  forgotten>>
  BY DEF HandlerFails, tables, season
<1>2. PICK h \in running[w] :
        /\ running' = [running EXCEPT ![w] = running[w] \ {h}]
        /\ paying' = [paying EXCEPT ![w] = IF h = "pay" THEN {} ELSE @]
  BY DEF HandlerFails, FailAt
<1>3. CompleteChallenges \subseteq CompleteChallenges'
  BY <1>1 DEF CompleteChallenges
<1>4. DOMAIN running' = Runs /\ DOMAIN paying' = Runs
  BY <1>2 DEF BonusInv
<1>5. \A v \in Runs : Pays(v)' => Pays(v) /\ paying'[v] = paying[v]
  BY <1>2 DEF BonusInv, Pays
<1> QED BY <1>1, <1>3, <1>4, <1>5, BonusKept

\* Every step keeps the invariant of the bonuses.
LEMMA BonusWork ==
  ASSUME EarnedInv, NEW w \in Runs, Work(w) PROVE BonusInv'
<1>0. BonusInv /\ ClaimInv
  BY DEF EarnedInv
<1>1. CASE TakeUserCreated /\ w = current
  <2>1. BonusIdle
    BY <1>1 DEF TakeUserCreated, BonusIdle, tables, season
  <2>2. running' = [running EXCEPT ![w] = {"create", "close"}]
    BY <1>1 DEF TakeUserCreated, GoOn
  <2> QED BY <1>0, <2>1, <2>2, BonusGoesOn
<1>2. CASE TakeTaskUpdated /\ w = current
  <2>1. BonusIdle
    BY <1>2 DEF TakeTaskUpdated, BonusIdle, tables, season
  <2>2. PICK e : running' = [running EXCEPT ![w] =
                   {h \in {"activate", "bonus"} :
                      IF h = "activate" THEN ToBeActivated # {}
                      ELSE e.status = "COMPLETED"}]
    BY <1>2 DEF TakeTaskUpdated, GoOn
  <2> QED BY <1>0, <2>1, <2>2, BonusGoesOn
<1>3. CASE OnUserCreated(w)
  BY <1>3, BonusCreate
<1>4. CASE FindByEvent(w)
  BY <1>0, <1>4, BonusFindByEvent
<1>5. CASE CloseTasks(w)
  BY <1>0, <1>5, BonusClose DEF Callers
<1>6. CASE Activate(w)
  <2>1. /\ active \subseteq active'
        /\ UNCHANGED <<challenge, status, offset, bonuses, overlapped, forgotten,
                       running, paying>>
    BY <1>6 DEF Activate, history, season
  <2>2. CompleteChallenges \subseteq CompleteChallenges'
    BY <2>1, CompleteKept
  <2> QED BY <1>0, <2>1, <2>2, BonusKept DEF BonusInv, Pays
<1>7. CASE TellActivated(w)
  <2>1. BonusIdle
    BY <1>7 DEF TellActivated, BonusIdle, tables, season
  <2>2. running' = [running EXCEPT ![w] = running[w] \ {"activate"}]
    BY <1>7 DEF TellActivated, GoOn
  <2> QED BY <1>0, <2>1, <2>2, BonusGoesOn
<1>8. CASE ReadBonus(w)
  BY <1>0, <1>8, BonusRead
<1>9. CASE ApplyBonus(w)
  BY <1>0, <1>9, BonusApplied
<1> QED BY <1>1, <1>2, <1>3, <1>4, <1>5, <1>6, <1>7, <1>8, <1>9 DEF Work

LEMMA BonusClaimPaid ==
  ASSUME EarnedInv, NEW t \in Tasks, ClaimReward(t) PROVE BonusInv'
<1>1. \A u \in Tasks : status[u] \in Done => status'[u] \in Done
  BY DEF ClaimReward, Done, EarnedInv, ClaimInv, RowsTyped
<1>2. UNCHANGED <<challenge, active, offset, bonuses, overlapped, forgotten,
                  running, paying>>
  BY DEF ClaimReward, consumer, season
<1>3. CompleteChallenges \subseteq CompleteChallenges'
  BY <1>1, <1>2, CompleteKept
<1> QED BY <1>2, <1>3, BonusKept DEF EarnedInv, BonusInv, Pays

LEMMA BonusCrash == ASSUME BonusInv, Crash PROVE BonusInv'
<1>1. UNCHANGED <<challenge, status, active, offset, bonuses, overlapped,
                  forgotten>>
  BY DEF Crash, tables, season
<1>2. /\ \A w \in Runs : ~Pays(w)'
      /\ DOMAIN running' = Runs /\ DOMAIN paying' = Runs
  BY DEF Crash, Pays
<1>3. CompleteChallenges \subseteq CompleteChallenges'
  BY <1>1 DEF CompleteChallenges
<1> QED BY <1>1, <1>2, <1>3, BonusKept

LEMMA BonusStep == EarnedInv /\ [Next]_vars => BonusInv'
<1> SUFFICES ASSUME EarnedInv, [Next]_vars PROVE BonusInv'
  OBVIOUS
<1>0. BonusInv /\ ClaimInv
  BY DEF EarnedInv
<1>1. ASSUME NEW deed \in Deeds, Do(deed) PROVE BonusInv'
  BY <1>0, <1>1, BonusStutter
     DEF Do, BonusIdle, tables, consumer, history, season
<1>2. ASSUME NEW t \in Tasks, FindByCall(t) PROVE BonusInv'
  BY <1>0, <1>2, BonusStutter DEF FindByCall, BonusIdle, tables, consumer, season
<1>3. ASSUME NEW t \in Tasks, FindClaimed(t) PROVE BonusInv'
  BY <1>0, <1>3, BonusStutter DEF FindClaimed, BonusIdle, tables, consumer, season
<1>4. ASSUME NEW w \in Runs, Work(w) \/ HandlerFails(w) PROVE BonusInv'
  BY <1>0, <1>4, BonusWork, BonusHandlerFails
<1>5. CASE Answer
  <2>1. CASE CloseTasks("call")
    BY <1>0, <2>1, BonusClose DEF Callers
  <2>2. ASSUME NEW t \in Tasks, ClaimReward(t) PROVE BonusInv'
    BY <2>2, BonusClaimPaid
  <2> QED BY <1>5, <2>1, <2>2 DEF Answer
<1>6. CASE CallFails
  BY <1>0, <1>6, BonusStutter DEF CallFails, BonusIdle, tables, consumer, season
<1>7. CASE Crash
  BY <1>0, <1>7, BonusCrash
<1>8. CASE DeliverAgain
  BY <1>0, <1>8, BonusStutter DEF DeliverAgain, BonusIdle, tables, consumer, season
<1>9. CASE LosePublication
  BY <1>0, <1>9, BonusStutter
     DEF LosePublication, BonusIdle, tables, consumer, season
<1>10. CASE UNCHANGED vars
  BY <1>0, <1>10, BonusStutter
     DEF vars, BonusIdle, tables, consumer, history, season
<1> QED BY <1>1, <1>2, <1>3, <1>4, <1>5, <1>6, <1>7, <1>8, <1>9, <1>10 DEF Next

\* No bonus is left out up to challengeBonusOffset, which complete challenges
\* reach, and each is paid once, whatever is delivered again, fails or runs on
\* beside the next event: unless two bonus jobs overlap, which read the offset
\* before applyBonus writes it by the id, or one of them puts it back to 0.
THEOREM BonusesAreEarned == Spec => []BonusIsEarned
<1>1. Init => EarnedInv
  BY ClaimInit, BonusInit DEF EarnedInv
<1>2. EarnedInv /\ [Next]_vars => EarnedInv'
  BY ClaimStep, BonusStep DEF EarnedInv
<1>3. EarnedInv => BonusIsEarned
  BY DEF EarnedInv, BonusInv, BonusIsEarned, Upto
<1> QED BY <1>1, <1>2, <1>3, PTL DEF Spec
=============================================================================
