------------------------- MODULE UserBonusesProofs -------------------------
(***************************************************************************)
(* Proofs about UserBonuses, for any users, wallets, transfers and limits: *)
(* an invitation, an airdrop and a reward of the bot are paid once, and    *)
(* the bonuses for NFTs on the balances are those the wallets are marked   *)
(* with.                                                                   *)
(***************************************************************************)
EXTENDS UserBonuses, FiniteSetTheorems, WellFoundedInduction, TLAPS

\* The counters of what was paid.
PaidTyped ==
  /\ referralPaid \in [Users -> Nat]
  /\ airdropPaid \in [Wallets -> Nat]
  /\ telegramPaid \in [Wallets -> Nat]

\* The referral is marked with the money.
ReferralMarked ==
  \A u \in Users :
    referralPaid[u] <= 1 /\ (referralPaid[u] = 1 => u \in isReferrerRewardReceived)

\* The bot stops asking for what was paid, or it got no answer.
BotAnswered ==
  \A w \in Wallets \ unanswered :
    telegramPaid[w] <= 1 /\ (w \in toReward => telegramPaid[w] = 0)

\* A job is a record as Job makes it.
IsJob(j) ==
  j \in [job : {j.job}, user : {j.user}, wallet : {j.wallet},
        amount : {j.amount}, late : BOOLEAN]

AirdropOf(j, w) == j.job = "airdrop" /\ j.wallet = w

\* One job at most is at the airdrop of a wallet.
OneJob(w, js) ==
  \A j \in js, k \in js : AirdropOf(j, w) /\ AirdropOf(k, w) => j = k

\* An airdrop that was paid is marked, and no job is at it any more.
AirdropMarked(w) ==
  /\ airdropPaid[w] <= 1
  /\ airdropPaid[w] = 1 =>
       w \in isReceived /\ \A j \in jobs : ~AirdropOf(j, w)

AirdropInv ==
  /\ \A j \in jobs : IsJob(j)
  /\ \A w \in Wallets \ suspect : OneJob(w, jobs) /\ AirdropMarked(w)

PaidInv == PaidTyped /\ ReferralMarked /\ BotAnswered /\ AirdropInv

\* One more on a counter, whether it is for something that is counted or not.
LEMMA CountedOn ==
  ASSUME NEW S, NEW f \in [S -> Nat], NEW x
  PROVE  [f EXCEPT ![x] = @ + 1] \in [S -> Nat]
<1>1. CASE x \in S
  BY <1>1
<1>2. CASE x \notin S
  BY <1>2
<1> QED BY <1>1, <1>2

-----------------------------------------------------------------------------
(* The jobs that go on when some are done or have failed *)

\* What Job makes is a job.
LEMMA NewJob ==
  ASSUME NEW name, NEW u, NEW w, NEW n
  PROVE  /\ IsJob(Job(name, u, w, n))
         /\ Job(name, u, w, n).job = name /\ Job(name, u, w, n).wallet = w
BY DEF Job, IsJob

\* A job whose event was left is the same job otherwise.
LEMMA LateJob ==
  ASSUME NEW j, IsJob(j)
  PROVE  LET k == [j EXCEPT !.late = TRUE]
         IN IsJob(k) /\ k.job = j.job /\ k.wallet = j.wallet
<1> DEFINE k == [j EXCEPT !.late = TRUE]
<1>1. /\ k \in [job : {j.job}, user : {j.user}, wallet : {j.wallet},
               amount : {j.amount}, late : BOOLEAN]
      /\ k.job = j.job /\ k.user = j.user /\ k.wallet = j.wallet
      /\ k.amount = j.amount
  BY DEF IsJob
<1> HIDE DEF k
<1>2. IsJob(k)
  BY <1>1 DEF IsJob
<1> QED BY <1>1, <1>2 DEF k

\* A job that goes on is at the same airdrop as before, and none is added.
LEMMA FinishLeaves ==
  ASSUME NEW done, NEW failed, NEW again, Finish(done, failed, again),
         \A j \in jobs : IsJob(j)
  PROVE  /\ \A k \in jobs' : IsJob(k)
         /\ \A k \in jobs' : \E j \in jobs \ done :
              \A w : AirdropOf(k, w) <=> AirdropOf(j, w)
         /\ \A w : OneJob(w, jobs) => OneJob(w, jobs')
<1> DEFINE rest == jobs \ (done \cup failed)
           Late(j) == [j EXCEPT !.late = TRUE]
<1>1. ASSUME NEW j \in rest
      PROVE  IsJob(Late(j)) /\ \A w : AirdropOf(Late(j), w) <=> AirdropOf(j, w)
  <2>1. IsJob(Late(j)) /\ Late(j).job = j.job /\ Late(j).wallet = j.wallet
    BY LateJob
  <2> QED BY <2>1 DEF AirdropOf
<1>2. CASE jobs' = rest
  BY <1>2 DEF OneJob
<1>3. CASE jobs' = {Late(j) : j \in rest}
  <2>1. \A k \in jobs' : IsJob(k)
    BY <1>1, <1>3
  <2>2. ASSUME NEW k \in jobs'
        PROVE  \E j \in jobs \ done : \A w : AirdropOf(k, w) <=> AirdropOf(j, w)
    BY <1>1, <1>3
  <2>3. ASSUME NEW w, OneJob(w, jobs) PROVE OneJob(w, jobs')
    <3> SUFFICES ASSUME NEW k \in jobs', NEW l \in jobs',
                        AirdropOf(k, w), AirdropOf(l, w)
                 PROVE  k = l
      BY DEF OneJob
    <3>1. PICK i \in rest, j \in rest : k = Late(i) /\ l = Late(j)
      BY <1>3
    <3>2. AirdropOf(i, w) /\ AirdropOf(j, w)
      BY <1>1, <3>1
    <3>3. i = j
      BY <2>3, <3>2 DEF OneJob
    <3> QED BY <3>1, <3>3
  <2> QED BY <2>1, <2>2, <2>3
<1> QED BY <1>2, <1>3 DEF Finish

\* What a step on the jobs alone does to the airdrops.
LEMMA AirdropsGoOn ==
  ASSUME AirdropInv, NEW done, NEW failed, NEW again,
         Finish(done, failed, again),
         UNCHANGED <<isReceived, airdropPaid, suspect>>
  PROVE  AirdropInv'
<1>1. /\ \A k \in jobs' : IsJob(k)
      /\ \A k \in jobs' : \E j \in jobs \ done :
           \A w : AirdropOf(k, w) <=> AirdropOf(j, w)
      /\ \A w : OneJob(w, jobs) => OneJob(w, jobs')
  BY FinishLeaves DEF AirdropInv
<1>2. ASSUME NEW w \in Wallets \ suspect
      PROVE  OneJob(w, jobs') /\ AirdropMarked(w)'
  BY <1>1 DEF AirdropInv, AirdropMarked
<1> QED BY <1>1, <1>2 DEF AirdropInv

\* The parts of the invariant that no job is about.
paying == <<jobs, isReferrerRewardReceived, referralPaid, isReceived, airdropPaid,
            toReward, telegramPaid, suspect, unanswered>>

\* A step that leaves the jobs and the payments alone.
LEMMA PaidStutter == PaidInv /\ UNCHANGED paying => PaidInv'
BY DEF PaidInv, paying, PaidTyped, ReferralMarked, BotAnswered, AirdropInv,
       AirdropMarked

\* At the start nothing is paid and no job runs.
LEMMA PaidInit == Init => PaidInv
BY DEF Init, PaidInv, PaidTyped, ReferralMarked, BotAnswered, AirdropInv,
       AirdropMarked, OneJob

-----------------------------------------------------------------------------
(* The steps *)

\* The new jobs have one for an airdrop at most, and for none that is marked.
LEMMA PaidTake == ASSUME PaidInv, NEW e, Take(e) PROVE PaidInv'
<1>1. /\ jobs' = jobs \cup JobsOf(e)
      /\ suspect' = suspect \cup (AtAirdrop(jobs) \cap AtAirdrop(JobsOf(e)))
      /\ UNCHANGED <<isReferrerRewardReceived, referralPaid, isReceived,
                     airdropPaid, toReward, telegramPaid, unanswered>>
  BY DEF Take, paid, bot
<1>2. ASSUME NEW j \in JobsOf(e)
      PROVE  /\ IsJob(j)
             /\ j.job = "airdrop" =>
                  j = Job("airdrop", e.user, e.wallet, 0) /\ j.wallet \notin isReceived
  <2>1. CASE e.kind \in {"UserCreated", "UserUpdated"}
    <3>1. PICK name \in {"row", "referral", "airdrop", "nft"},
              w \in {NoWallet, e.wallet} :
            /\ j = Job(name, e.user, w, 0)
            /\ name = "airdrop" => w = e.wallet
      BY <2>1 DEF JobsOf
    <3>2. j.job = "airdrop" => e.wallet \notin isReceived
      BY <2>1 DEF JobsOf
    <3> QED BY <3>1, <3>2, NewJob
  <2>2. CASE ~(e.kind \in {"UserCreated", "UserUpdated"})
    <3>1. PICK u \in signedUp :
            j = Job(IF e.kind = "ReceivedNft" THEN "add" ELSE "remove",
                    u, e.wallet, e.amount)
      BY <2>2 DEF JobsOf
    <3>2. PICK name \in {"add", "remove"} : j = Job(name, u, e.wallet, e.amount)
      BY <3>1
    <3> QED BY <3>2, NewJob
  <2> QED BY <2>1, <2>2
<1>3. \A j \in jobs' : IsJob(j)
  BY <1>1, <1>2 DEF PaidInv, AirdropInv
<1>4. ASSUME NEW w \in Wallets \ suspect'
      PROVE  OneJob(w, jobs)' /\ AirdropMarked(w)'
  <2>1. OneJob(w, jobs) /\ AirdropMarked(w)
    BY <1>1 DEF PaidInv, AirdropInv
  <2>2. OneJob(w, JobsOf(e))
    BY <1>2 DEF OneJob, AirdropOf
  <2>3. (\A j \in jobs : ~AirdropOf(j, w)) \/ (\A j \in JobsOf(e) : ~AirdropOf(j, w))
    BY <1>1 DEF AtAirdrop, AirdropOf
  <2>4. OneJob(w, jobs')
    BY <1>1, <2>1, <2>2, <2>3 DEF OneJob
  <2>5. AirdropMarked(w)'
    BY <1>1, <1>2, <2>1 DEF AirdropMarked, AirdropOf
  <2> QED BY <2>4, <2>5
<1>5. PaidTyped' /\ ReferralMarked' /\ BotAnswered'
  BY <1>1 DEF PaidInv, PaidTyped, ReferralMarked, BotAnswered
<1> QED BY <1>3, <1>4, <1>5 DEF PaidInv, AirdropInv

\* The referral, told again or synced by hand, is paid when it is not marked.
LEMMA PaidReferral ==
  ASSUME PaidInv, NEW u, NEW done, PayReferral(u, done),
         UNCHANGED <<suspect, bot>>
  PROVE  PaidInv'
<1>1. PICK failed : Finish(done, failed, FALSE)
  BY DEF PayReferral, Commit
<1>2. UNCHANGED <<isReceived, airdropPaid, suspect, toReward, telegramPaid,
                  unanswered>>
  BY DEF PayReferral, bot
<1>3. AirdropInv'
  BY <1>1, <1>2, AirdropsGoOn DEF PaidInv
<1>4. BotAnswered'
  BY <1>2 DEF PaidInv, BotAnswered
<1>5. PaidTyped' /\ ReferralMarked'
  <2>1. CASE MayBePaid(u)
    <3>1. /\ isReferrerRewardReceived' = isReferrerRewardReceived \cup {u}
          /\ referralPaid' = [referralPaid EXCEPT ![u] = @ + 1]
          /\ u \notin isReferrerRewardReceived
      BY <2>1 DEF PayReferral, MayBePaid
    <3>2. PaidTyped'
      BY <1>2, <3>1, CountedOn DEF PaidInv, PaidTyped
    <3>3. ReferralMarked'
      BY <3>1 DEF PaidInv, PaidTyped, ReferralMarked
    <3> QED BY <3>2, <3>3
  <2>2. CASE ~MayBePaid(u)
    <3>1. UNCHANGED <<isReferrerRewardReceived, referralPaid>>
      BY <2>2 DEF PayReferral
    <3> QED BY <1>2, <3>1 DEF PaidInv, PaidTyped, ReferralMarked
  <2> QED BY <2>1, <2>2
<1> QED BY <1>3, <1>4, <1>5 DEF PaidInv

\* The airdrop of a wallet that is no suspect has one job, and that one pays.
LEMMA PaidAirdrop ==
  ASSUME PaidInv, NEW j \in jobs, Airdrop(j), UNCHANGED <<suspect, bot>>
  PROVE  PaidInv'
<1>1. PICK failed : Finish({j}, failed, FALSE)
  BY DEF Airdrop, Commit
<1>2. /\ j.job = "airdrop"
      /\ airdropPaid' = [airdropPaid EXCEPT ![j.wallet] = @ + 1]
      /\ isReceived' = isReceived \cup {j.wallet}
      /\ UNCHANGED <<isReferrerRewardReceived, referralPaid, suspect, toReward,
                     telegramPaid, unanswered>>
  BY DEF Airdrop, bot
<1>3. /\ \A k \in jobs' : IsJob(k)
      /\ \A k \in jobs' : \E i \in jobs \ {j} :
           \A w : AirdropOf(k, w) <=> AirdropOf(i, w)
      /\ \A w : OneJob(w, jobs) => OneJob(w, jobs')
  BY <1>1, FinishLeaves DEF PaidInv, AirdropInv
<1>4. ASSUME NEW w \in Wallets \ suspect
      PROVE  OneJob(w, jobs') /\ AirdropMarked(w)'
  <2>1. OneJob(w, jobs) /\ AirdropMarked(w)
    BY DEF PaidInv, AirdropInv
  <2>2. CASE w = j.wallet
    <3>1. AirdropOf(j, w)
      BY <1>2, <2>2 DEF AirdropOf
    <3>2. \A i \in jobs \ {j} : ~AirdropOf(i, w)
      BY <2>1, <3>1 DEF OneJob
    <3>3. \A k \in jobs' : ~AirdropOf(k, w)
      BY <1>3, <3>2
    <3>4. airdropPaid[w] = 0
      BY <2>1, <3>1 DEF AirdropMarked, PaidInv, PaidTyped
    <3>5. airdropPaid'[w] = 1 /\ w \in isReceived'
      BY <1>2, <2>2, <3>4 DEF PaidInv, PaidTyped
    <3> QED BY <1>3, <2>1, <3>3, <3>5 DEF AirdropMarked
  <2>3. CASE w # j.wallet
    <3>1. airdropPaid'[w] = airdropPaid[w]
      BY <1>2, <2>3 DEF PaidInv, PaidTyped
    <3> QED BY <1>2, <1>3, <2>1, <3>1 DEF AirdropMarked
  <2> QED BY <2>2, <2>3
<1>5. AirdropInv'
  BY <1>2, <1>3, <1>4 DEF AirdropInv
<1>6. PaidTyped'
  BY <1>2, CountedOn DEF PaidInv, PaidTyped
<1>7. ReferralMarked' /\ BotAnswered'
  BY <1>2 DEF PaidInv, ReferralMarked, BotAnswered
<1> QED BY <1>5, <1>6, <1>7 DEF PaidInv

\* Jobs that pay nothing of the kind.
LEMMA PaidOther ==
  ASSUME PaidInv, NEW done, NEW failed, NEW again, Finish(done, failed, again),
         UNCHANGED <<paid, bot, suspect>>
  PROVE  PaidInv'
<1>1. AirdropInv'
  BY AirdropsGoOn DEF PaidInv, paid
<1>2. PaidTyped' /\ ReferralMarked' /\ BotAnswered'
  BY DEF PaidInv, PaidTyped, ReferralMarked, BotAnswered, paid, bot
<1> QED BY <1>1, <1>2 DEF PaidInv

\* One job of any kind gets through.
LEMMA PaidRun == ASSUME PaidInv, NEW j \in jobs, Run(j) PROVE PaidInv'
<1>1. UNCHANGED <<suspect, bot>>
  BY DEF Run
<1>2. CASE CreateRow(j) \/ SyncBonus(j) \/ AddBonus(j) \/ RemoveBonus(j)
  <2>1. UNCHANGED paid /\ \E failed : Finish({j}, failed, FALSE)
    <3>1. CASE CreateRow(j)
      BY <3>1 DEF CreateRow, Commit
    <3>2. CASE SyncBonus(j)
      BY <3>2 DEF SyncBonus, Commit
    <3>3. CASE AddBonus(j)
      BY <3>3 DEF AddBonus, Commit
    <3>4. CASE RemoveBonus(j)
      BY <3>4 DEF RemoveBonus, Commit
    <3> QED BY <1>2, <3>1, <3>2, <3>3, <3>4
  <2> QED BY <1>1, <2>1, PaidOther
<1>3. CASE Referral(j)
  BY <1>1, <1>3, PaidReferral DEF Referral
<1>4. CASE Airdrop(j)
  BY <1>1, <1>4, PaidAirdrop
<1> QED BY <1>2, <1>3, <1>4 DEF Run

\* The bot's reward is paid on every call; a call is repeated for want of an
\* answer.
LEMMA PaidTelegram ==
  ASSUME PaidInv, NEW w \in Wallets, NEW answered \in BOOLEAN,
         TelegramReward(w, answered)
  PROVE  PaidInv'
<1>1. PICK failed : Finish({}, failed, FALSE)
  BY DEF TelegramReward, Commit
<1>2. /\ w \in toReward
      /\ telegramPaid' = [telegramPaid EXCEPT ![w] = @ + 1]
      /\ \/ toReward' = toReward \ {w} /\ unanswered' = unanswered
         \/ toReward' = toReward /\ unanswered' = unanswered \cup {w}
      /\ UNCHANGED <<isReferrerRewardReceived, referralPaid, isReceived,
                     airdropPaid, suspect>>
  BY DEF TelegramReward, paid
<1>3. AirdropInv'
  BY <1>1, <1>2, AirdropsGoOn DEF PaidInv
<1>4. PaidTyped' /\ ReferralMarked'
  BY <1>2 DEF PaidInv, PaidTyped, ReferralMarked
<1>5. BotAnswered'
  BY <1>2 DEF PaidInv, PaidTyped, BotAnswered
<1> QED BY <1>3, <1>4, <1>5 DEF PaidInv

\* A crash loses the jobs, not what was paid and marked.
LEMMA PaidCrash == PaidInv /\ Crash => PaidInv'
<1> SUFFICES ASSUME PaidInv, Crash PROVE PaidInv'
  OBVIOUS
<1>1. jobs' = {} /\ UNCHANGED <<paid, bot, suspect>>
  BY DEF Crash
<1>2. AirdropInv'
  BY <1>1 DEF PaidInv, AirdropInv, AirdropMarked, OneJob, paid
<1>3. PaidTyped' /\ ReferralMarked' /\ BotAnswered'
  BY <1>1 DEF PaidInv, PaidTyped, ReferralMarked, BotAnswered, paid, bot
<1> QED BY <1>2, <1>3 DEF PaidInv

\* Every step keeps the invariant of the payments.
LEMMA PaidStep == PaidInv /\ [Next]_vars => PaidInv'
<1> SUFFICES ASSUME PaidInv, [Next]_vars PROVE PaidInv'
  OBVIOUS
<1> USE DEF paid, bot, consumer, paying
<1>1. CASE Transfer \/ StartScan \/ CommitScan \/ FailScan
  BY <1>1, PaidStutter DEF Transfer, StartScan, CommitScan, FailScan
<1>2. ASSUME NEW u \in Users, NEW w \in start.wallets \cup {NoWallet},
             SignUp(u, w)
      PROVE  PaidInv'
  BY <1>2, PaidStutter DEF SignUp
<1>3. ASSUME NEW u \in Users, NEW w \in start.wallets, UpdateUser(u, w)
      PROVE  PaidInv'
  BY <1>3, PaidStutter DEF UpdateUser
<1>4. CASE TakeAny
  BY <1>4, PaidTake DEF TakeAny
<1>5. CASE RunAny
  BY <1>5, PaidRun DEF RunAny
<1>6. CASE Acknowledge
  BY <1>6, PaidStutter DEF Acknowledge
<1>7. ASSUME NEW j \in jobs, FailJob(j) PROVE PaidInv'
  <2>1. UNCHANGED <<paid, bot, suspect>>
    BY <1>7 DEF FailJob
  <2>2. PICK again \in BOOLEAN : Finish({}, {j}, again)
    BY <1>7 DEF FailJob
  <2> QED BY <2>1, <2>2, PaidOther
<1>8. CASE ReadPage
  BY <1>8, PaidStutter DEF ReadPage
<1>9. ASSUME NEW u \in Users, PayRow(u) PROVE PaidInv'
  <2>1. PayReferral(u, {}) /\ UNCHANGED <<suspect, bot>>
    BY <1>9 DEF PayRow
  <2> QED BY <2>1, PaidReferral
<1>10. ASSUME NEW w \in Wallets, NEW answered \in BOOLEAN,
              TelegramReward(w, answered)
       PROVE  PaidInv'
  BY <1>10, PaidTelegram
<1>11. CASE Crash
  BY <1>11, PaidCrash
<1>12. CASE LosePublication
  BY <1>12, PaidStutter DEF LosePublication
<1>13. CASE UNCHANGED vars
  BY <1>13, PaidStutter DEF vars
<1> QED BY <1>1, <1>2, <1>3, <1>4, <1>5, <1>6, <1>7, <1>8, <1>9, <1>10, <1>11,
           <1>12, <1>13 DEF Next

\* An invitation is paid once; an airdrop, too, unless two jobs are at it at
\* once, and the bot's reward, unless a call of the bot gets no answer
\* (addBonusForReferral, addAirdropBonus, addTelegramBotRewards).
THEOREM BonusesArePaidOnce == Spec => []PaidOnce
<1>1. PaidInv => PaidOnce
  <2> SUFFICES ASSUME PaidInv PROVE PaidOnce
    OBVIOUS
  <2>1. \A u \in Users : referralPaid[u] <= 1
    BY DEF PaidInv, ReferralMarked
  <2>2. \A w \in Wallets : airdropPaid[w] > 1 => w \in suspect
    BY DEF PaidInv, PaidTyped, AirdropInv, AirdropMarked
  <2>3. \A w \in Wallets : telegramPaid[w] > 1 => w \in unanswered
    BY DEF PaidInv, PaidTyped, BotAnswered
  <2> QED BY <2>1, <2>2, <2>3 DEF PaidOnce
<1> QED BY <1>1, PaidInit, PaidStep, PTL DEF Spec
-----------------------------------------------------------------------------
(* Sums over finite sets: what SumFunctionOnSet is, from its definition as a *)
(* fold, by the smallest set it would fail for                              *)

\* One step of a sum of the values of f, from the sums over smaller sets.
AddOne(f, G, s) ==
  IF s = {} THEN 0 ELSE f[CHOOSE x \in s : TRUE] + G[s \ {CHOOSE x \in s : TRUE}]

\* G has the sums of f over all subsets of S.
Sums(f, G, S) == G = [s \in SUBSET S |-> AddOne(f, G, s)]

\* Of the nonempty collections of subsets of a finite set one is smallest.
LEMMA Smallest ==
  ASSUME NEW S, IsFiniteSet(S), NEW T, T \subseteq SUBSET S, T # {}
  PROVE  \E X \in T : \A Y \in T : Y \subseteq X => Y = X
<1>1. T \subseteq FiniteSubsetsOf(S)
  BY FS_Subset DEF FiniteSubsetsOf
<1>2. PICK X \in T : \A Y \in T : ~(<<Y, X>> \in StrictSubsetOrdering(S))
  BY <1>1, FS_StrictSubsetOrderingWellFounded, WFMin
<1>3. ASSUME NEW Y \in T, Y \subseteq X, Y # X
      PROVE  FALSE
  <2>1. X \in SUBSET S /\ Y \in SUBSET S
    OBVIOUS
  <2>2. <<Y, X>> \in StrictSubsetOrdering(S)
    BY <1>3, <2>1 DEF StrictSubsetOrdering
  <2> QED BY <1>2, <2>2
<1> QED BY <1>3

\* There is one such G at most.
LEMMA SumsUnique ==
  ASSUME NEW f, NEW G, NEW S, IsFiniteSet(S), Sums(f, G, S),
         NEW H, NEW U, Sums(f, H, U), NEW s, s \subseteq S, s \subseteq U
  PROVE  G[s] = H[s]
<1> DEFINE T == {t \in SUBSET S : t \subseteq U /\ G[t] # H[t]}
<1> SUFFICES ASSUME T # {} PROVE FALSE
  OBVIOUS
<1>1. PICK t \in T : \A r \in T : r \subseteq t => r = t
  <2> HIDE DEF T
  <2>1. T \subseteq SUBSET S
    BY DEF T
  <2> QED BY <2>1, Smallest
<1>2. t \subseteq S /\ t \subseteq U /\ G[t] # H[t]
  BY <1>1
<1>3. G[t] = AddOne(f, G, t) /\ H[t] = AddOne(f, H, t)
  <2>1. G = [r \in SUBSET S |-> AddOne(f, G, r)] /\ H = [r \in SUBSET U |-> AddOne(f, H, r)]
    BY DEF Sums
  <2> HIDE DEF T
  <2> QED BY <1>2, <2>1, Zenon
<1>4. t # {}
  BY <1>2, <1>3 DEF AddOne
<1> DEFINE x == CHOOSE y \in t : TRUE
<1>5. x \in t
  BY <1>4
<1> HIDE DEF x
<1>6. t \ {x} \notin T
  BY <1>1, <1>5
<1>7. G[t \ {x}] = H[t \ {x}]
  BY <1>2, <1>6
<1> QED BY <1>2, <1>3, <1>4, <1>7 DEF AddOne, x

\* There is one for every finite set.
LEMMA SumsExist ==
  ASSUME NEW f, NEW S, IsFiniteSet(S)
  PROVE  \E G : Sums(f, G, S)
<1> DEFINE T == {A \in SUBSET S : ~\E G : Sums(f, G, A)}
<1> SUFFICES ASSUME T # {} PROVE FALSE
  OBVIOUS
<1>1. PICK A \in T : \A B \in T : B \subseteq A => B = A
  <2> HIDE DEF T
  <2>1. T \subseteq SUBSET S
    BY DEF T
  <2> QED BY <2>1, Smallest
<1>2. A \subseteq S /\ IsFiniteSet(A)
  BY <1>1, FS_Subset
<1> DEFINE V(B) == CHOOSE G : Sums(f, G, B)
<1>3. ASSUME NEW B, B \subseteq A, B # A
      PROVE  Sums(f, V(B), B) /\ IsFiniteSet(B)
  <2>1. \E G : Sums(f, G, B)
    BY <1>1, <1>2, <1>3
  <2>2. IsFiniteSet(B)
    BY <1>2, <1>3, FS_Subset
  <2> QED BY <2>1, <2>2
<1> HIDE DEF V, T
<1> DEFINE W == [s \in SUBSET A |-> V(s)[s]]
           G == [s \in SUBSET A |-> AddOne(f, W, s)]
<1>4. ASSUME NEW s, s \subseteq A, s # A
      PROVE  G[s] = W[s]
  <2>1. Sums(f, V(s), s) /\ IsFiniteSet(s)
    BY <1>3, <1>4
  <2>2. V(s)[s] = AddOne(f, V(s), s)
    BY <2>1 DEF Sums
  <2>3. W[s] = V(s)[s] /\ G[s] = AddOne(f, W, s)
    BY <1>4
  <2>4. CASE s = {}
    BY <2>2, <2>3, <2>4 DEF AddOne
  <2>5. CASE s # {}
    <3> DEFINE x == CHOOSE y \in s : TRUE
               r == s \ {x}
    <3>1. x \in s
      BY <2>5
    <3> HIDE DEF x
    <3>2. r \subseteq s /\ r \subseteq A /\ r # A
      BY <1>4, <3>1
    <3> HIDE DEF r
    <3>3. Sums(f, V(r), r)
      BY <1>3, <3>2
    <3>4. V(s)[r] = V(r)[r]
      BY <2>1, <3>2, <3>3, SumsUnique
    <3>5. W[r] = V(r)[r]
      BY <3>2
    <3> HIDE DEF W, G
    <3> QED BY <2>2, <2>3, <2>5, <3>4, <3>5 DEF AddOne, x, r
  <2> QED BY <2>4, <2>5
<1>5. ASSUME NEW s, s \subseteq A
      PROVE  AddOne(f, W, s) = AddOne(f, G, s)
  <2>1. CASE s = {}
    BY <2>1 DEF AddOne
  <2>2. CASE s # {}
    <3> DEFINE x == CHOOSE y \in s : TRUE
               r == s \ {x}
    <3>1. x \in s
      BY <2>2
    <3> HIDE DEF x
    <3>2. r \subseteq A /\ r # A
      BY <1>5, <3>1
    <3>3. G[r] = W[r]
      BY <1>4, <3>2
    <3> HIDE DEF W, G
    <3> QED BY <2>2, <3>3 DEF AddOne, x
  <2> QED BY <2>1, <2>2
<1>6. Sums(f, G, A)
  <2>1. G = [s \in SUBSET A |-> AddOne(f, G, s)]
    BY <1>5
  <2> HIDE DEF G
  <2> QED BY <2>1 DEF Sums
<1> QED BY <1>1, <1>6 DEF T

\* The sum over a set is one of its values and the sum over the others.
LEMMA SumStep ==
  ASSUME NEW f, NEW S, IsFiniteSet(S)
  PROVE  SumFunctionOnSet(f, S) =
           IF S = {} THEN 0
           ELSE f[CHOOSE x \in S : TRUE]
                  + SumFunctionOnSet(f, S \ {CHOOSE x \in S : TRUE})
<1> DEFINE V(B) == CHOOSE G : Sums(f, G, B)
<1>1. ASSUME NEW B, IsFiniteSet(B)
      PROVE  Sums(f, V(B), B) /\ SumFunctionOnSet(f, B) = V(B)[B]
  <2>1. Sums(f, V(B), B)
    BY <1>1, SumsExist
  <2>2. SumFunctionOnSet(f, B) = V(B)[B]
    BY DEF SumFunctionOnSet, FoldFunctionOnSet, MapThenFoldSet, Sums, AddOne
  <2> QED BY <2>1, <2>2
<1>2. CASE S = {}
  <2> HIDE DEF V
  <2>1. Sums(f, V(S), S) /\ SumFunctionOnSet(f, S) = V(S)[S]
    BY <1>1
  <2>2. V(S)[S] = AddOne(f, V(S), S)
    BY <2>1 DEF Sums
  <2> QED BY <1>2, <2>1, <2>2 DEF AddOne
<1>3. CASE S # {}
  <2> DEFINE x == CHOOSE y \in S : TRUE
             R == S \ {x}
  <2>1. x \in S
    BY <1>3
  <2> HIDE DEF x
  <2>2. R \subseteq S /\ IsFiniteSet(R)
    BY FS_Subset
  <2> HIDE DEF R, V
  <2>3. /\ Sums(f, V(S), S) /\ SumFunctionOnSet(f, S) = V(S)[S]
        /\ Sums(f, V(R), R) /\ SumFunctionOnSet(f, R) = V(R)[R]
    BY <1>1, <2>2
  <2>4. V(S)[R] = V(R)[R]
    BY <2>2, <2>3, SumsUnique
  <2>5. V(S)[S] = f[x] + V(S)[R]
    BY <1>3, <2>3 DEF Sums, AddOne, x, R
  <2> QED BY <1>3, <2>3, <2>4, <2>5 DEF x, R
<1> QED BY <1>2, <1>3

\* The sum of numbers is a number, and any of them may be added last.
LEMMA SumRemove ==
  ASSUME NEW f, NEW S, IsFiniteSet(S), \A x \in S : f[x] \in Int
  PROVE  /\ SumFunctionOnSet(f, S) \in Int
         /\ \A y \in S : SumFunctionOnSet(f, S) = f[y] + SumFunctionOnSet(f, S \ {y})
         /\ SumFunctionOnSet(f, {}) = 0
<1> DEFINE Sum(A) == SumFunctionOnSet(f, A)
           Good(A) == Sum(A) \in Int /\ \A y \in A : Sum(A) = f[y] + Sum(A \ {y})
           T == {A \in SUBSET S : ~Good(A)}
<1>0. Sum({}) = 0
  BY SumStep, FS_EmptySet
<1>1. ASSUME T # {}
      PROVE  FALSE
  <2>1. PICK A \in T : \A B \in T : B \subseteq A => B = A
    <3>1. T \subseteq SUBSET S
      OBVIOUS
    <3> HIDE DEF T
    <3> QED BY <1>1, <3>1, Smallest
  <2>2. A \subseteq S /\ IsFiniteSet(A) /\ ~Good(A)
    BY <2>1, FS_Subset
  <2>3. \A B : B \subseteq A /\ B # A => Good(B)
    BY <2>1, <2>2
  <2>4. A # {}
    <3> SUFFICES ASSUME A = {} PROVE FALSE
      OBVIOUS
    <3>1. Sum(A) \in Int
      BY <1>0
    <3> QED BY <2>2, <3>1
  <2> DEFINE x == CHOOSE y \in A : TRUE
  <2>5. x \in A /\ f[x] \in Int
    BY <2>2, <2>4
  <2>6. Sum(A) = f[x] + Sum(A \ {x})
    BY <2>2, <2>4, SumStep
  <2> HIDE DEF x, T, Sum
  <2>7. Good(A \ {x})
    BY <2>3, <2>5
  <2>8. Sum(A) \in Int
    BY <2>5, <2>6, <2>7
  <2>9. ASSUME NEW y \in A, y # x
        PROVE  Sum(A) = f[y] + Sum(A \ {y})
    <3>1. Good(A \ {y})
      BY <2>3
    <3>2. Sum(A \ {x}) = f[y] + Sum((A \ {x}) \ {y})
      BY <2>7, <2>9
    <3>3. Sum(A \ {y}) = f[x] + Sum((A \ {y}) \ {x})
      BY <2>5, <2>9, <3>1
    <3>4. (A \ {x}) \ {y} = (A \ {y}) \ {x}
      OBVIOUS
    <3>5. Good((A \ {x}) \ {y})
      BY <2>3, <2>5
    <3>6. f[y] \in Int /\ Sum((A \ {x}) \ {y}) \in Int
      BY <2>2, <3>5
    <3> DEFINE a == Sum(A \ {x})
               b == Sum(A \ {y})
               c == Sum((A \ {x}) \ {y})
    <3>7. a = f[y] + c /\ b = f[x] + c
      BY <3>2, <3>3, <3>4
    <3> HIDE DEF a, b, c
    <3>8. Sum(A) = f[x] + a /\ c \in Int
      BY <2>6, <3>6 DEF a, c
    <3>9. f[x] + a = f[y] + b
      BY <2>5, <3>6, <3>7, <3>8
    <3> QED BY <3>8, <3>9 DEF b
  <2> QED BY <2>2, <2>6, <2>8, <2>9
<1>2. Good(S)
  BY <1>1
<1> QED BY <1>0, <1>2

\* The sum depends on the values it adds, and on nothing else.
LEMMA SumSame ==
  ASSUME NEW f, NEW g, NEW S, IsFiniteSet(S), \A x \in S : f[x] \in Int /\ g[x] = f[x]
  PROVE  SumFunctionOnSet(g, S) = SumFunctionOnSet(f, S)
<1> DEFINE T == {A \in SUBSET S : SumFunctionOnSet(g, A) # SumFunctionOnSet(f, A)}
<1> SUFFICES ASSUME T # {} PROVE FALSE
  OBVIOUS
<1>1. PICK A \in T : \A B \in T : B \subseteq A => B = A
  <2>1. T \subseteq SUBSET S
    OBVIOUS
  <2> HIDE DEF T
  <2> QED BY <2>1, Smallest
<1>2. A \subseteq S /\ IsFiniteSet(A) /\ SumFunctionOnSet(g, A) # SumFunctionOnSet(f, A)
  BY <1>1, FS_Subset
<1>3. A # {}
  BY <1>2, SumStep
<1> DEFINE x == CHOOSE y \in A : TRUE
<1>4. x \in A
  BY <1>3
<1>5. /\ SumFunctionOnSet(f, A) = f[x] + SumFunctionOnSet(f, A \ {x})
      /\ SumFunctionOnSet(g, A) = g[x] + SumFunctionOnSet(g, A \ {x})
  BY <1>2, <1>3, SumStep
<1> HIDE DEF x
<1>6. SumFunctionOnSet(g, A \ {x}) = SumFunctionOnSet(f, A \ {x})
  BY <1>1, <1>4
<1> QED BY <1>2, <1>4, <1>5, <1>6

\* When one value changes, the sum changes as much.
LEMMA SumChanged ==
  ASSUME NEW f, NEW g, NEW S, IsFiniteSet(S), NEW y \in S,
         \A x \in S : f[x] \in Int /\ g[x] \in Int,
         \A x \in S \ {y} : g[x] = f[x]
  PROVE  SumFunctionOnSet(g, S) = SumFunctionOnSet(f, S) + g[y] - f[y]
<1>1. IsFiniteSet(S \ {y})
  BY FS_RemoveElement
<1>2. SumFunctionOnSet(g, S \ {y}) = SumFunctionOnSet(f, S \ {y})
  BY <1>1, SumSame
<1>3. /\ SumFunctionOnSet(f, S) = f[y] + SumFunctionOnSet(f, S \ {y})
      /\ SumFunctionOnSet(g, S) = g[y] + SumFunctionOnSet(g, S \ {y})
  BY SumRemove
<1>4. SumFunctionOnSet(f, S \ {y}) \in Int
  BY <1>1, SumRemove
<1> QED BY <1>2, <1>3, <1>4

\* A number is added to one of the values.
LEMMA SumBooked ==
  ASSUME NEW S, IsFiniteSet(S), NEW f \in [S -> Int], NEW g \in [S -> Int],
         NEW y \in S, NEW d \in Int,
         \A x \in S \ {y} : g[x] = f[x], g[y] = f[y] + d
  PROVE  SumFunctionOnSet(g, S) = SumFunctionOnSet(f, S) + d
<1>1. \A x \in S : f[x] \in Int /\ g[x] \in Int
  OBVIOUS
<1>2. SumFunctionOnSet(g, S) = SumFunctionOnSet(f, S) + g[y] - f[y]
  BY <1>1, SumChanged
<1>3. SumFunctionOnSet(f, S) \in Int
  BY <1>1, SumRemove
<1> QED BY <1>1, <1>2, <1>3

\* The sum of zeros.
LEMMA SumZero ==
  ASSUME NEW S, IsFiniteSet(S), NEW f, \A x \in S : f[x] = 0
  PROVE  SumFunctionOnSet(f, S) = 0
<1> DEFINE T == {A \in SUBSET S : SumFunctionOnSet(f, A) # 0}
<1> SUFFICES ASSUME T # {} PROVE FALSE
  OBVIOUS
<1>1. PICK A \in T : \A B \in T : B \subseteq A => B = A
  <2>1. T \subseteq SUBSET S
    OBVIOUS
  <2> HIDE DEF T
  <2> QED BY <2>1, Smallest
<1>2. A \subseteq S /\ IsFiniteSet(A) /\ SumFunctionOnSet(f, A) # 0
  BY <1>1, FS_Subset
<1>3. A # {}
  BY <1>2, SumStep
<1> DEFINE x == CHOOSE y \in A : TRUE
<1>4. x \in A
  BY <1>3
<1>5. SumFunctionOnSet(f, A) = f[x] + SumFunctionOnSet(f, A \ {x})
  BY <1>2, <1>3, SumStep
<1> HIDE DEF x
<1>6. SumFunctionOnSet(f, A \ {x}) = 0
  BY <1>1, <1>4
<1> QED BY <1>2, <1>4, <1>5, <1>6

\* The sum over two sets that have nothing in common.
LEMMA SumApart ==
  ASSUME NEW f, NEW R, NEW S, IsFiniteSet(R), IsFiniteSet(S), R \cap S = {},
         \A x \in R \cup S : f[x] \in Int
  PROVE  SumFunctionOnSet(f, R \cup S)
           = SumFunctionOnSet(f, R) + SumFunctionOnSet(f, S)
<1> DEFINE Sum(A) == SumFunctionOnSet(f, A)
           T == {A \in SUBSET S : Sum(R \cup A) # Sum(R) + Sum(A)}
<1> SUFFICES ASSUME T # {} PROVE FALSE
  OBVIOUS
<1>1. PICK A \in T : \A B \in T : B \subseteq A => B = A
  <2>1. T \subseteq SUBSET S
    OBVIOUS
  <2> HIDE DEF T
  <2> QED BY <2>1, Smallest
<1>2. A \subseteq S /\ IsFiniteSet(A) /\ IsFiniteSet(R \cup A)
  BY <1>1, FS_Subset, FS_Union
<1>3. Sum(R) \in Int /\ Sum({}) = 0
  BY SumRemove
<1>4. A # {}
  <2> SUFFICES ASSUME A = {} PROVE FALSE
    OBVIOUS
  <2>1. R \cup A = R
    OBVIOUS
  <2>2. Sum(R \cup A) # Sum(R) + Sum(A)
    BY <1>1
  <2> HIDE DEF Sum, T
  <2> QED BY <1>3, <2>1, <2>2
<1>5. PICK x \in A : TRUE
  BY <1>4
<1>6. A \ {x} \subseteq S /\ A \ {x} \notin T
  BY <1>1, <1>2
<1>7. Sum(R \cup (A \ {x})) = Sum(R) + Sum(A \ {x})
  BY <1>6
<1>8. Sum(A) = f[x] + Sum(A \ {x}) /\ f[x] \in Int /\ Sum(A \ {x}) \in Int
  <2>1. \A y \in A : f[y] \in Int
    BY <1>2
  <2>2. IsFiniteSet(A \ {x}) /\ \A y \in A \ {x} : f[y] \in Int
    BY <1>2, <2>1, FS_RemoveElement
  <2> QED BY <1>2, <2>1, <2>2, SumRemove
<1>9. Sum(R \cup A) = f[x] + Sum((R \cup A) \ {x})
  <2>1. \A y \in R \cup A : f[y] \in Int
    BY <1>2
  <2> QED BY <1>2, <2>1, SumRemove
<1>10. (R \cup A) \ {x} = R \cup (A \ {x})
  BY <1>2
<1>11. Sum(R \cup A) # Sum(R) + Sum(A)
  BY <1>1
<1> HIDE DEF Sum, T
<1>12. Sum(R \cup A) = f[x] + (Sum(R) + Sum(A \ {x}))
  BY <1>7, <1>9, <1>10
<1> QED BY <1>3, <1>8, <1>11, <1>12

\* A sum of numbers none of which is negative.
LEMMA SumNotNegative ==
  ASSUME NEW f, NEW S, IsFiniteSet(S), \A x \in S : f[x] \in Nat
  PROVE  SumFunctionOnSet(f, S) \in Nat
<1> DEFINE Sum(A) == SumFunctionOnSet(f, A)
           T == {A \in SUBSET S : Sum(A) \notin Nat}
<1> SUFFICES ASSUME T # {} PROVE FALSE
  OBVIOUS
<1>1. PICK A \in T : \A B \in T : B \subseteq A => B = A
  <2>1. T \subseteq SUBSET S
    OBVIOUS
  <2> HIDE DEF T
  <2> QED BY <2>1, Smallest
<1>2. A \subseteq S /\ IsFiniteSet(A) /\ Sum(A) \notin Nat
  BY <1>1, FS_Subset
<1>3. /\ \A y \in A : Sum(A) = f[y] + Sum(A \ {y})
      /\ Sum({}) = 0
  <2>1. \A y \in A : f[y] \in Int
    BY <1>2
  <2> QED BY <1>2, <2>1, SumRemove
<1>4. A # {}
  <2> SUFFICES ASSUME A = {} PROVE FALSE
    OBVIOUS
  <2>1. Sum(A) = 0
    BY <1>3
  <2> HIDE DEF Sum, T
  <2> QED BY <1>2, <2>1
<1>5. PICK x \in A : TRUE
  BY <1>4
<1>6. A \ {x} \subseteq S /\ A \ {x} \notin T
  BY <1>1, <1>2
<1>7. Sum(A \ {x}) \in Nat /\ f[x] \in Nat
  BY <1>2, <1>6
<1>8. Sum(A) = f[x] + Sum(A \ {x})
  BY <1>3
<1> HIDE DEF Sum, T
<1> QED BY <1>2, <1>7, <1>8
-----------------------------------------------------------------------------
(* The bonuses of the NFTs: the invariant *)

BonusTyped ==
  /\ start \in Starts
  /\ crossed \in BOOLEAN
  /\ bonusState \in [Wallets -> Int]
  /\ money \in [Users -> Int]
  /\ walletOf \in [Users -> Wallets \cup {NoWallet}]
  /\ signedUp \subseteq Users
  /\ had \subseteq Users \X Wallets

\* The table of holders is the chain up to the last block that was scanned.
HoldersAreScanned ==
  /\ head \in 0..Len(start.transfers)
  /\ lastScanBlock \in 0..head
  /\ scan = 0 \/ scan \in FirstToScan..head
  /\ nftHolder \in [Wallets -> Int]
  /\ \A w \in Wallets : nftHolder[w] = Gain(w, 1..lastScanBlock)

\* An event is of a wallet that its user had, or of what a wallet was given.
IsEvent(e) ==
  IF e.kind \in {"UserCreated", "UserUpdated"}
  THEN e.user \in Users /\ (e.wallet # NoWallet => <<e.user, e.wallet>> \in had)
  ELSE e.wallet \in Wallets /\ e.amount \in Nat

\* A job is of a wallet that its user had.
IsBonusJob(j) ==
  j.job \in {"nft", "add", "remove"} => <<j.user, j.wallet>> \in had /\ j.amount \in Nat

WalletsAreHad ==
  /\ \A u \in Users : walletOf[u] # NoWallet => <<u, walletOf[u]>> \in had
  /\ \A e \in BagToSet(owed) : IsEvent(e)
  /\ \A j \in jobs : IsBonusJob(j)

\* The bonuses given for the wallets the user had.
GivenFor(u) == [w \in Wallets |-> IF <<u, w>> \in had THEN bonusState[w] ELSE 0]

\* Until an offset is crossed: no wallet is marked with less than nothing, or
\* before somebody had it, and who had their wallets alone has the bonuses given
\* for them.
BonusesFollow ==
  ~crossed =>
    /\ SumFunctionOnSet(money, Users) = SumFunctionOnSet(bonusState, Wallets)
    /\ \A w \in Wallets :
         /\ bonusState[w] >= 0
         /\ bonusState[w] # 0 => \E u \in Users : <<u, w>> \in had
    /\ \A u \in Users :
         Shared(u) \/ money[u] = SumFunctionOnSet(GivenFor(u), Wallets)

BonusInv ==
  PaidInv /\ BonusTyped /\ HoldersAreScanned /\ WalletsAreHad /\ BonusesFollow
-----------------------------------------------------------------------------
(* The bonuses of the NFTs: sums of the books *)

\* Of two numbers one is least and one is greatest.
LEMMA MinMaxOfTwo ==
  ASSUME NEW a \in Int, NEW b \in Int
  PROVE  /\ Min({a, b}) = IF a <= b THEN a ELSE b
         /\ Max({a, b}) = IF a >= b THEN a ELSE b
<1>1. PICK m \in {a, b} : \A y \in {a, b} : m <= y
  BY DEF Min
<1>2. Min({a, b}) \in {a, b} /\ \A y \in {a, b} : Min({a, b}) <= y
  BY <1>1 DEF Min
<1>3. PICK n \in {a, b} : \A y \in {a, b} : n >= y
  BY DEF Max
<1>4. Max({a, b}) \in {a, b} /\ \A y \in {a, b} : Max({a, b}) >= y
  BY <1>3 DEF Max
<1> QED BY <1>2, <1>4

\* The blocks there are have a transfer each.
LEMMA GainedTyped ==
  ASSUME BonusTyped, NEW w
  PROVE  /\ Len(start.transfers) \in Nat
         /\ DOMAIN start.transfers = 1..Len(start.transfers)
         /\ \A b \in 1..Len(start.transfers) :
              /\ start.transfers[b].amount \in Nat
              /\ Gained(start.transfers, w)[b] \in Int
<1>1. start.transfers \in Seq([from : Wallets \cup {Market},
                              to : Wallets \cup {Market}, amount : Nat])
  BY StartsAssumption DEF BonusTyped
<1> DEFINE t == start.transfers
<1>2. t \in Seq([from : Wallets \cup {Market},
                to : Wallets \cup {Market}, amount : Nat])
  BY <1>1
<1> HIDE DEF t
<1>3. Len(t) \in Nat /\ DOMAIN t = 1..Len(t)
  BY <1>2
<1>4. ASSUME NEW b \in 1..Len(t)
      PROVE  t[b].amount \in Nat
  <2> DEFINE R == [from : Wallets \cup {Market}, to : Wallets \cup {Market},
                   amount : Nat]
  <2>1. t \in Seq(R)
    BY <1>2
  <2> HIDE DEF R
  <2>2. t[b] \in R
    BY <2>1, <1>3
  <2> QED BY <2>2 DEF R
<1>5. \A b \in 1..Len(t) : Gained(t, w)[b] \in Int
  BY <1>3, <1>4 DEF Gained
<1> QED BY <1>3, <1>4, <1>5 DEF t

\* What a wallet gained from the first blocks and from the next ones.
LEMMA GainGrows ==
  ASSUME BonusTyped, NEW w, NEW m \in Nat, NEW n \in Nat,
         m <= n, n <= Len(start.transfers)
  PROVE  Gain(w, 1..n) = Gain(w, 1..m) + Gain(w, (m + 1)..n) /\ Gain(w, (m + 1)..n) \in Int
<1> DEFINE f == Gained(start.transfers, w)
<1>1. \A b \in 1..n : f[b] \in Int
  BY GainedTyped
<1>2. /\ IsFiniteSet(1..m) /\ IsFiniteSet((m + 1)..n)
      /\ (1..m) \cup ((m + 1)..n) = 1..n /\ (1..m) \cap ((m + 1)..n) = {}
  BY FS_Interval
<1>3. \A b \in (1..m) \cup ((m + 1)..n) : f[b] \in Int
  BY <1>1, <1>2
<1> HIDE DEF f
<1>4. SumFunctionOnSet(f, (1..m) \cup ((m + 1)..n))
        = SumFunctionOnSet(f, 1..m) + SumFunctionOnSet(f, (m + 1)..n)
  BY <1>2, <1>3, SumApart
<1>5. SumFunctionOnSet(f, (m + 1)..n) \in Int
  BY <1>2, <1>3, SumRemove
<1> QED BY <1>2, <1>4, <1>5 DEF Gain, f

\* No wallet that was scanned holds less than nothing.
LEMMA HoldersHold ==
  ASSUME BonusTyped, HoldersAreScanned, NEW w \in Wallets
  PROVE  nftHolder[w] \in Nat
<1>1. lastScanBlock \in 0..Len(start.transfers)
  BY GainedTyped DEF HoldersAreScanned
<1>2. SumFunctionOnSet(Gained(start.transfers, w), 1..lastScanBlock) >= 0
  BY <1>1, StartsAssumption DEF BonusTyped
<1> QED BY <1>2 DEF HoldersAreScanned, Gain

\* A number is added to the balance of a user and to a wallet this user had.
LEMMA Booked ==
  ASSUME BonusTyped, BonusesFollow, ~crossed,
         NEW u \in Users, NEW w \in Wallets, <<u, w>> \in had,
         NEW d \in Int, bonusState[w] + d >= 0,
         money' \in [Users -> Int], money'[u] = money[u] + d,
         \A v \in Users \ {u} : money'[v] = money[v],
         bonusState' \in [Wallets -> Int], bonusState'[w] = bonusState[w] + d,
         \A x \in Wallets \ {w} : bonusState'[x] = bonusState[x],
         had' = had
  PROVE  BonusesFollow'
<1>1. /\ money \in [Users -> Int] /\ money' \in [Users -> Int]
      /\ bonusState \in [Wallets -> Int] /\ bonusState' \in [Wallets -> Int]
  BY DEF BonusTyped
<1>2. SumFunctionOnSet(money', Users) = SumFunctionOnSet(money, Users) + d
  BY <1>1, FiniteAssumption, SumBooked
<1>3. SumFunctionOnSet(bonusState', Wallets) = SumFunctionOnSet(bonusState, Wallets) + d
  BY <1>1, FiniteAssumption, SumBooked
<1>4. ASSUME NEW x \in Wallets
      PROVE  /\ bonusState'[x] >= 0
             /\ bonusState'[x] # 0 => \E v \in Users : <<v, x>> \in had'
  <2>1. CASE x = w
    BY <1>1, <2>1
  <2>2. CASE x # w
    <3>1. bonusState'[x] = bonusState[x]
      BY <1>1, <2>2
    <3> QED BY <3>1 DEF BonusesFollow
  <2> QED BY <2>1, <2>2
<1>5. ASSUME NEW v \in Users, NEW g, g = GivenFor(v)', ~Shared(v)'
      PROVE  money'[v] = SumFunctionOnSet(g, Wallets)
  <2> DEFINE f == GivenFor(v)
  <2>1. ~Shared(v) /\ money[v] = SumFunctionOnSet(f, Wallets)
    BY <1>5 DEF BonusesFollow, Shared
  <2>2. g = [x \in Wallets |-> IF <<v, x>> \in had THEN bonusState'[x] ELSE 0]
    BY <1>5 DEF GivenFor
  <2>3. \A x \in Wallets : f[x] \in Int /\ g[x] \in Int
    BY <1>1, <2>2 DEF GivenFor
  <2>4. CASE v = u
    <3>1. \A x \in Wallets \ {w} : g[x] = f[x]
      BY <1>1, <2>2 DEF GivenFor
    <3>2. SumFunctionOnSet(g, Wallets) = SumFunctionOnSet(f, Wallets) + g[w] - f[w]
      <4> HIDE DEF f
      <4> QED BY <2>3, <3>1, FiniteAssumption, SumChanged
    <3>3. g[w] = bonusState[w] + d /\ f[w] = bonusState[w]
      BY <1>1, <2>2, <2>4 DEF GivenFor
    <3>4. money'[v] = money[v] + d
      BY <1>1, <2>4
    <3> QED BY <1>1, <2>1, <3>2, <3>3, <3>4
  <2>5. CASE v # u
    <3>1. <<v, w>> \notin had
      BY <2>1, <2>5 DEF Shared
    <3>2. \A x \in Wallets : g[x] = f[x]
      BY <1>1, <2>2, <3>1 DEF GivenFor
    <3>3. SumFunctionOnSet(g, Wallets) = SumFunctionOnSet(f, Wallets)
      <4> HIDE DEF f
      <4> QED BY <2>3, <3>2, FiniteAssumption, SumSame
    <3>4. money'[v] = money[v]
      BY <1>1, <2>5
    <3> QED BY <2>1, <3>3, <3>4
  <2> QED BY <2>4, <2>5
<1>6. SumFunctionOnSet(money, Users) = SumFunctionOnSet(bonusState, Wallets)
  BY DEF BonusesFollow
<1>7. SumFunctionOnSet(money', Users) = SumFunctionOnSet(bonusState', Wallets)
  BY <1>2, <1>3, <1>6
<1> QED BY <1>4, <1>5, <1>7 DEF BonusesFollow

\* A user gets a wallet: nobody is given anything for it yet, or it is shared.
LEMMA HadGrows ==
  ASSUME BonusTyped, BonusesFollow, NEW u \in Users, NEW w \in Wallets,
         had' = had \cup {<<u, w>>}, UNCHANGED <<bonusState, money, crossed>>
  PROVE  BonusesFollow'
<1> SUFFICES ASSUME ~crossed PROVE BonusesFollow'
  BY DEF BonusesFollow
<1>1. ASSUME NEW v \in Users, NEW g, g = GivenFor(v)', ~Shared(v)'
      PROVE  money'[v] = SumFunctionOnSet(g, Wallets)
  <2>1. ~Shared(v) /\ money[v] = SumFunctionOnSet(GivenFor(v), Wallets)
    BY <1>1 DEF BonusesFollow, Shared
  <2>2. g = [x \in Wallets |-> IF <<v, x>> \in had' THEN bonusState[x] ELSE 0]
    BY <1>1 DEF GivenFor
  <2>3. ASSUME NEW x \in Wallets, <<v, x>> \in had', <<v, x>> \notin had
        PROVE  bonusState[x] = 0
    <3>1. v = u /\ x = w
      BY <2>3
    <3>2. \A y \in Users \ {u} : <<y, x>> \notin had
      BY <1>1, <3>1 DEF Shared
    <3>3. \A y \in Users : <<y, x>> \notin had
      BY <2>3, <3>1, <3>2
    <3> QED BY <3>3 DEF BonusesFollow
  <2>4. g = GivenFor(v)
    BY <2>2, <2>3 DEF GivenFor
  <2> QED BY <2>1, <2>4
<1>2. \A x \in Wallets :
        /\ bonusState'[x] >= 0
        /\ bonusState'[x] # 0 => \E v \in Users : <<v, x>> \in had'
  BY DEF BonusesFollow
<1>3. SumFunctionOnSet(money', Users) = SumFunctionOnSet(bonusState', Wallets)
  BY DEF BonusesFollow
<1> QED BY <1>1, <1>2, <1>3 DEF BonusesFollow

-----------------------------------------------------------------------------
(* The bonuses of the NFTs: the steps *)

\* A job that goes on is the job it was, and the consumer adds no event.
LEMMA FinishKeeps ==
  ASSUME NEW done, NEW failed, NEW again, Finish(done, failed, again),
         \A j \in jobs : IsJob(j)
  PROVE  /\ \A k \in jobs' : \E j \in jobs :
              /\ k.job = j.job /\ k.user = j.user /\ k.wallet = j.wallet
              /\ k.amount = j.amount
         /\ BagToSet(owed') \subseteq BagToSet(owed)
<1> DEFINE rest == jobs \ (done \cup failed)
           Late(j) == [j EXCEPT !.late = TRUE]
<1>1. ASSUME NEW j \in rest
      PROVE  /\ Late(j).job = j.job /\ Late(j).user = j.user
             /\ Late(j).wallet = j.wallet /\ Late(j).amount = j.amount
  BY DEF IsJob
<1>2. CASE jobs' = rest /\ owed' = owed
  BY <1>2
<1>3. CASE /\ jobs' = {Late(j) : j \in rest}
           /\ owed' = owed \/ owed' = owed (-) SetToBag({event})
  <2>1. BagToSet(owed') \subseteq BagToSet(owed)
    BY <1>3 DEF BagToSet, (-)
  <2>2. ASSUME NEW k \in jobs'
        PROVE  \E j \in jobs :
                 /\ k.job = j.job /\ k.user = j.user /\ k.wallet = j.wallet
                 /\ k.amount = j.amount
    <3>1. PICK j \in rest : k = Late(j)
      BY <1>3
    <3> HIDE DEF Late
    <3> QED BY <1>1, <3>1
  <2> QED BY <2>1, <2>2
<1> QED BY <1>2, <1>3 DEF Finish

\* A job that gets through finishes, with those it makes fail.
LEMMA RunFinishes ==
  ASSUME NEW j, Run(j)
  PROVE  \E failed : Finish({j}, failed, FALSE)
<1>1. CASE CreateRow(j)
  BY <1>1 DEF CreateRow, Commit
<1>2. CASE SyncBonus(j)
  BY <1>2 DEF SyncBonus, Commit
<1>3. CASE AddBonus(j)
  BY <1>3 DEF AddBonus, Commit
<1>4. CASE RemoveBonus(j)
  BY <1>4 DEF RemoveBonus, Commit
<1>5. CASE Referral(j)
  BY <1>5 DEF Referral, PayReferral, Commit
<1>6. CASE Airdrop(j)
  BY <1>6 DEF Airdrop, Commit
<1> QED BY <1>1, <1>2, <1>3, <1>4, <1>5, <1>6 DEF Run

\* Steps that tell nothing new and start no job.
LEMMA HadKept ==
  ASSUME WalletsAreHad, UNCHANGED <<walletOf, had>>,
         BagToSet(owed') \subseteq BagToSet(owed), jobs' \subseteq jobs
  PROVE  WalletsAreHad'
BY DEF WalletsAreHad, IsEvent, IsBonusJob

\* Jobs that finish.
LEMMA HadFinish ==
  ASSUME BonusInv, UNCHANGED <<walletOf, had>>,
         NEW done, NEW failed, NEW again, Finish(done, failed, again)
  PROVE  WalletsAreHad'
<1>1. \A j \in jobs : IsJob(j)
  BY DEF BonusInv, PaidInv, AirdropInv
<1>2. /\ \A k \in jobs' : \E j \in jobs :
           /\ k.job = j.job /\ k.user = j.user /\ k.wallet = j.wallet
           /\ k.amount = j.amount
      /\ BagToSet(owed') \subseteq BagToSet(owed)
  BY <1>1, FinishKeeps
<1>3. \A k \in jobs' : IsBonusJob(k)'
  BY <1>2 DEF BonusInv, WalletsAreHad, IsBonusJob
<1>4. \A e \in BagToSet(owed') : IsEvent(e)'
  BY <1>2 DEF BonusInv, WalletsAreHad, IsEvent
<1> QED BY <1>3, <1>4 DEF BonusInv, WalletsAreHad

\* A user has a wallet, and it is told.
LEMMA HadTold ==
  ASSUME BonusInv, NEW u \in Users, NEW w \in Wallets \cup {NoWallet}, NEW e,
         e \in {Created(u, w), Updated(u, w)},
         walletOf' = [walletOf EXCEPT ![u] = w],
         had \subseteq had', w # NoWallet => <<u, w>> \in had',
         owed' = owed (+) SetToBag({e}), jobs' = jobs
  PROVE  WalletsAreHad'
<1>1. BagToSet(owed') = BagToSet(owed) \cup {e}
  BY DEF BagToSet, SetToBag, (+)
<1>2. IsEvent(e)'
  BY DEF IsEvent, Created, Updated
<1>3. \A d \in BagToSet(owed') : IsEvent(d)'
  BY <1>1, <1>2 DEF BonusInv, WalletsAreHad, IsEvent
<1>4. \A j \in jobs' : IsBonusJob(j)'
  BY DEF BonusInv, WalletsAreHad, IsBonusJob
<1>5. \A v \in Users : walletOf'[v] # NoWallet => <<v, walletOf'[v]>> \in had'
  BY DEF BonusInv, BonusTyped, WalletsAreHad
<1> QED BY <1>3, <1>4, <1>5 DEF WalletsAreHad

\* The events of the transfers are of wallets users may have.
LEMMA HadScan == ASSUME BonusInv, CommitScan PROVE WalletsAreHad'
<1> DEFINE blocks == FirstToScan..scan
<1>1. owed' = owed (+) Told(blocks) /\ UNCHANGED <<walletOf, had, jobs>>
  BY DEF CommitScan, users, consumer
<1>2. BagToSet(owed') = BagToSet(owed) \cup UNION {ToldOf(b) : b \in blocks}
  <2> HIDE DEF blocks
  <2> QED BY <1>1 DEF BagToSet, Told, (+)
<1>3. blocks \subseteq 1..Len(start.transfers)
  BY GainedTyped DEF BonusInv, HoldersAreScanned, FirstToScan, CommitScan
<1>4. ASSUME NEW b \in blocks, NEW e \in ToldOf(b)
      PROVE  IsEvent(e)'
  <2>1. start.transfers[b].amount \in Nat
    BY <1>3, GainedTyped DEF BonusInv
  <2>2. e.wallet \in Wallets
    BY DEF ToldOf
  <2>3. e.kind \in {"ReceivedNft", "GaveNft"} /\ e.amount = start.transfers[b].amount
    BY DEF ToldOf, Received, Gave
  <2> QED BY <2>1, <2>2, <2>3 DEF IsEvent
<1>5. \A e \in BagToSet(owed') : IsEvent(e)'
  <2> HIDE DEF blocks
  <2>1. \A e \in BagToSet(owed) : IsEvent(e)'
    BY <1>1 DEF BonusInv, WalletsAreHad, IsEvent
  <2> QED BY <1>2, <1>4, <2>1
<1>6. \A j \in jobs' : IsBonusJob(j)'
  BY <1>1 DEF BonusInv, WalletsAreHad, IsBonusJob
<1>7. \A v \in Users : walletOf'[v] # NoWallet => <<v, walletOf'[v]>> \in had'
  BY <1>1 DEF BonusInv, WalletsAreHad
<1> QED BY <1>5, <1>6, <1>7 DEF WalletsAreHad

\* The jobs that start are of a wallet the user has or had.
LEMMA HadTake == ASSUME BonusInv, NEW e, Take(e) PROVE WalletsAreHad'
<1>1. /\ e \in BagToSet(owed) /\ jobs' = jobs \cup JobsOf(e)
      /\ UNCHANGED <<walletOf, had, owed>>
  BY DEF Take, users
<1>2. IsEvent(e)
  BY <1>1 DEF BonusInv, WalletsAreHad
<1>3. ASSUME NEW j \in JobsOf(e) PROVE IsBonusJob(j)
  <2>1. CASE e.kind \in {"UserCreated", "UserUpdated"}
    <3>1. PICK name \in {"row", "referral", "airdrop", "nft"},
              w \in {NoWallet, e.wallet} :
            /\ j = Job(name, e.user, w, 0)
            /\ name = "nft" => w = e.wallet
      BY <2>1 DEF JobsOf
    <3>2. j.job = name /\ j.user = e.user /\ j.wallet = w /\ j.amount = 0
      BY <3>1 DEF Job
    <3>3. j.job = "nft" => e.wallet # NoWallet
      BY <2>1 DEF JobsOf
    <3> QED BY <1>2, <2>1, <3>1, <3>2, <3>3 DEF IsEvent, IsBonusJob
  <2>2. CASE ~(e.kind \in {"UserCreated", "UserUpdated"})
    <3>1. PICK u \in signedUp :
            /\ walletOf[u] = e.wallet
            /\ j = Job(IF e.kind = "ReceivedNft" THEN "add" ELSE "remove",
                       u, e.wallet, e.amount)
      BY <2>2 DEF JobsOf
    <3>2. j.user = u /\ j.wallet = e.wallet /\ j.amount = e.amount
      BY <3>1 DEF Job
    <3>3. e.wallet \in Wallets /\ e.amount \in Nat
      BY <1>2, <2>2 DEF IsEvent
    <3>4. u \in Users /\ e.wallet # NoWallet
      BY <3>3, NamesAssumption DEF BonusInv, BonusTyped
    <3>5. <<u, e.wallet>> \in had
      BY <3>1, <3>4 DEF BonusInv, WalletsAreHad
    <3> QED BY <3>2, <3>3, <3>5 DEF IsBonusJob
  <2> QED BY <2>1, <2>2
<1>4. \A j \in jobs' : IsBonusJob(j)'
  BY <1>1, <1>3 DEF BonusInv, WalletsAreHad, IsBonusJob
<1>5. \A d \in BagToSet(owed') : IsEvent(d)'
  BY <1>1 DEF BonusInv, WalletsAreHad, IsEvent
<1>6. \A v \in Users : walletOf'[v] # NoWallet => <<v, walletOf'[v]>> \in had'
  BY <1>1 DEF BonusInv, WalletsAreHad
<1> QED BY <1>4, <1>5, <1>6 DEF WalletsAreHad

\* Every step keeps events and jobs to wallets their users had.
LEMMA HadStep == BonusInv /\ [Next]_vars => WalletsAreHad'
<1> SUFFICES ASSUME BonusInv, [Next]_vars PROVE WalletsAreHad'
  OBVIOUS
<1> USE DEF users, consumer
<1>0. WalletsAreHad
  BY DEF BonusInv
<1>1. CASE Transfer \/ StartScan \/ FailScan \/ ReadPage
  BY <1>0, <1>1, HadKept DEF Transfer, StartScan, FailScan, ReadPage
<1>2. CASE CommitScan
  BY <1>2, HadScan
<1>3. ASSUME NEW u \in Users, NEW w \in start.wallets \cup {NoWallet},
             SignUp(u, w)
      PROVE  WalletsAreHad'
  <2>1. w \in Wallets \cup {NoWallet}
    BY StartsAssumption DEF BonusInv, BonusTyped
  <2>2. /\ walletOf' = [walletOf EXCEPT ![u] = w] /\ jobs' = jobs
        /\ had \subseteq had' /\ (w # NoWallet => <<u, w>> \in had')
        /\ owed' = owed (+) SetToBag({Created(u, w)})
    BY <1>3 DEF SignUp
  <2> QED BY <2>1, <2>2, HadTold
<1>4. ASSUME NEW u \in Users, NEW w \in start.wallets, UpdateUser(u, w)
      PROVE  WalletsAreHad'
  <2>1. w \in Wallets \cup {NoWallet}
    BY StartsAssumption DEF BonusInv, BonusTyped
  <2>2. /\ walletOf' = [walletOf EXCEPT ![u] = w] /\ jobs' = jobs
        /\ had \subseteq had' /\ (w # NoWallet => <<u, w>> \in had')
        /\ owed' = owed (+) SetToBag({Updated(u, w)})
    BY <1>4 DEF UpdateUser
  <2> QED BY <2>1, <2>2, HadTold
<1>5. CASE TakeAny
  BY <1>5, HadTake DEF TakeAny
<1>6. ASSUME NEW j \in jobs, Run(j) PROVE WalletsAreHad'
  <2>1. UNCHANGED <<walletOf, had>>
    BY <1>6 DEF Run
  <2> QED BY <1>6, <2>1, RunFinishes, HadFinish
<1>7. CASE Acknowledge
  <2>1. /\ UNCHANGED <<walletOf, had, jobs>>
        /\ owed' = owed (-) SetToBag({event})
    BY <1>7 DEF Acknowledge
  <2>2. BagToSet(owed') \subseteq BagToSet(owed)
    BY <2>1 DEF BagToSet, (-)
  <2> QED BY <1>0, <2>1, <2>2, HadKept
<1>8. ASSUME NEW j \in jobs, FailJob(j) PROVE WalletsAreHad'
  <2>1. UNCHANGED <<walletOf, had>>
    BY <1>8 DEF FailJob
  <2>2. PICK again \in BOOLEAN : Finish({}, {j}, again)
    BY <1>8 DEF FailJob
  <2> QED BY <2>1, <2>2, HadFinish
<1>9. ASSUME NEW u \in Users, PayRow(u) PROVE WalletsAreHad'
  <2>1. PayReferral(u, {}) /\ UNCHANGED <<walletOf, had>>
    BY <1>9 DEF PayRow
  <2>2. PICK failed : Finish({}, failed, FALSE)
    BY <2>1 DEF PayReferral, Commit
  <2> QED BY <2>1, <2>2, HadFinish
<1>10. ASSUME NEW w \in Wallets, NEW answered \in BOOLEAN,
              TelegramReward(w, answered)
       PROVE  WalletsAreHad'
  <2>1. UNCHANGED <<walletOf, had>>
    BY <1>10 DEF TelegramReward
  <2>2. PICK failed : Finish({}, failed, FALSE)
    BY <1>10 DEF TelegramReward, Commit
  <2> QED BY <2>1, <2>2, HadFinish
<1>11. CASE Crash
  BY <1>0, <1>11, HadKept DEF Crash
<1>12. CASE LosePublication
  <2>1. UNCHANGED <<walletOf, had, jobs>>
    BY <1>12 DEF LosePublication
  <2>2. PICK e : owed' = owed (-) SetToBag({e})
    BY <1>12 DEF LosePublication
  <2>3. BagToSet(owed') \subseteq BagToSet(owed)
    BY <2>2 DEF BagToSet, (-)
  <2> QED BY <1>0, <2>1, <2>3, HadKept
<1>13. CASE UNCHANGED vars
  BY <1>0, <1>13, HadKept DEF vars
<1> QED BY <1>1, <1>2, <1>3, <1>4, <1>5, <1>6, <1>7, <1>8, <1>9, <1>10, <1>11,
           <1>12, <1>13 DEF Next, RunAny

\* The table of holders follows the chain, whatever scan fails or is lost.
LEMMA ScannedStep ==
  BonusTyped /\ HoldersAreScanned /\ [Next]_vars => start' = start /\ HoldersAreScanned'
<1> SUFFICES ASSUME BonusTyped, HoldersAreScanned, [Next]_vars
             PROVE  start' = start /\ HoldersAreScanned'
  OBVIOUS
<1> USE DEF chain, nft
<1>1. CASE UNCHANGED <<chain, nft>>
  BY <1>1 DEF HoldersAreScanned, Gain, FirstToScan
<1>2. CASE Transfer
  <2>1. /\ head < Len(start.transfers) /\ head' = head + 1
        /\ UNCHANGED <<start, lastScanBlock, scan, nftHolder>>
    BY <1>2 DEF Transfer
  <2>2. head' \in 0..Len(start.transfers) /\ lastScanBlock \in 0..head'
    BY <2>1, GainedTyped DEF HoldersAreScanned
  <2>3. scan = 0 \/ scan \in FirstToScan..head'
    BY <2>1, GainedTyped DEF HoldersAreScanned, FirstToScan
  <2> QED BY <2>1, <2>2, <2>3 DEF HoldersAreScanned, FirstToScan, Gain
<1>3. CASE StartScan
  <2>1. /\ FirstToScan <= head
        /\ scan' = Min({FirstToScan + LogsLimit, head})
        /\ UNCHANGED <<start, head, lastScanBlock, nftHolder>>
    BY <1>3 DEF StartScan
  <2>2. /\ FirstToScan \in Int /\ head \in Int /\ LogsLimit \in Nat
        /\ FirstToScan + LogsLimit \in Int
    BY LimitsAssumption, GainedTyped DEF HoldersAreScanned, FirstToScan
  <2>3. Min({FirstToScan + LogsLimit, head}) \in FirstToScan..head
    BY <2>1, <2>2, MinMaxOfTwo
  <2> QED BY <2>1, <2>3 DEF HoldersAreScanned, FirstToScan, Gain
<1>4. CASE CommitScan
  <2> DEFINE blocks == FirstToScan..scan
  <2>1. /\ scan \in FirstToScan..head /\ scan' = 0 /\ lastScanBlock' = scan
        /\ nftHolder' = [w \in Wallets |-> nftHolder[w] + Gain(w, blocks)]
        /\ UNCHANGED <<start, head>>
    BY <1>4 DEF CommitScan, HoldersAreScanned
  <2>2. /\ lastScanBlock \in Nat /\ scan \in Nat /\ lastScanBlock <= scan
        /\ scan <= Len(start.transfers) /\ scan \in 0..head
        /\ blocks = (lastScanBlock + 1)..scan
    BY <2>1, GainedTyped DEF HoldersAreScanned, FirstToScan
  <2> HIDE DEF blocks
  <2>3. ASSUME NEW w \in Wallets
        PROVE  /\ Gain(w, 1..scan) = nftHolder[w] + Gain(w, blocks)
               /\ Gain(w, blocks) \in Int
    <3>1. /\ Gain(w, 1..scan) = Gain(w, 1..lastScanBlock) + Gain(w, blocks)
          /\ Gain(w, blocks) \in Int
      BY <2>2, GainGrows
    <3> QED BY <3>1 DEF HoldersAreScanned
  <2>4. ASSUME NEW w \in Wallets
        PROVE  nftHolder'[w] \in Int /\ nftHolder'[w] = Gain(w, 1..scan)
    BY <2>1, <2>3 DEF HoldersAreScanned
  <2>5. nftHolder' \in [Wallets -> Int]
    BY <2>1, <2>4
  <2>6. \A w \in Wallets : nftHolder'[w] = Gain(w, 1..lastScanBlock)'
    BY <2>1, <2>4 DEF Gain
  <2> QED BY <2>1, <2>2, <2>5, <2>6 DEF HoldersAreScanned
<1>5. CASE FailScan \/ Crash
  BY <1>5 DEF FailScan, Crash, HoldersAreScanned, FirstToScan, Gain
<1>6. ASSUME NEW u \in Users, NEW w \in start.wallets \cup {NoWallet},
             SignUp(u, w)
      PROVE  UNCHANGED <<chain, nft>>
  BY <1>6 DEF SignUp
<1>7. ASSUME NEW u \in Users, NEW w \in start.wallets, UpdateUser(u, w)
      PROVE  UNCHANGED <<chain, nft>>
  BY <1>7 DEF UpdateUser
<1>8. ASSUME TakeAny \/ RunAny \/ Acknowledge \/ (\E j \in jobs : FailJob(j))
      PROVE  UNCHANGED <<chain, nft>>
  BY <1>8 DEF TakeAny, Take, RunAny, Run, Acknowledge, FailJob
<1>9. ASSUME ReadPage \/ (\E u \in Users : PayRow(u)) \/ LosePublication
      PROVE  UNCHANGED <<chain, nft>>
  BY <1>9 DEF ReadPage, PayRow, LosePublication
<1>10. ASSUME NEW w \in Wallets, NEW answered \in BOOLEAN,
              TelegramReward(w, answered)
       PROVE  UNCHANGED <<chain, nft>>
  BY <1>10 DEF TelegramReward
<1>11. CASE UNCHANGED vars
  BY <1>1, <1>11 DEF vars
<1> QED BY <1>1, <1>2, <1>3, <1>4, <1>5, <1>6, <1>7, <1>8, <1>9, <1>10, <1>11
        DEF Next

\* A job of an NFT books the same with the user and with the wallet, until an
\* offset is crossed.
LEMMA JobBooks ==
  ASSUME BonusInv, NEW j \in jobs, UNCHANGED had,
         SyncBonus(j) \/ AddBonus(j) \/ RemoveBonus(j)
  PROVE  /\ crossed' \in BOOLEAN
         /\ bonusState' \in [Wallets -> Int] /\ money' \in [Users -> Int]
         /\ BonusesFollow'
<1> DEFINE u == j.user
           w == j.wallet
           o == Offset(j)
<1>0. BonusTyped /\ HoldersAreScanned /\ BonusesFollow
  BY DEF BonusInv
<1>1. /\ <<u, w>> \in had /\ u \in Users /\ w \in Wallets /\ j.amount \in Nat
  <2>1. j.job \in {"nft", "add", "remove"}
    BY DEF SyncBonus, AddBonus, RemoveBonus
  <2>2. <<u, w>> \in had /\ j.amount \in Nat
    BY <2>1 DEF BonusInv, WalletsAreHad, IsBonusJob
  <2> QED BY <2>2 DEF BonusInv, BonusTyped
<1>2. /\ nftHolder[w] \in Nat /\ bonusState[w] \in Int /\ money[u] \in Int
      /\ o = nftHolder[w] - bonusState[w] /\ o \in Int
  BY <1>0, <1>1, HoldersHold DEF BonusTyped, Offset
<1>3. ~crossed => bonusState[w] >= 0
  BY <1>0, <1>1 DEF BonusesFollow
<1> HIDE DEF o, u, w
<1>4. ASSUME NEW d \in Int, NEW e \in Int,
             bonusState' = [bonusState EXCEPT ![w] = @ + d],
             money' = [money EXCEPT ![u] = @ + e],
             crossed' \in BOOLEAN,
             ~crossed' => ~crossed /\ d = e /\ bonusState[w] + d >= 0
      PROVE  /\ crossed' \in BOOLEAN
             /\ bonusState' \in [Wallets -> Int] /\ money' \in [Users -> Int]
             /\ BonusesFollow'
  <2>1. /\ bonusState' \in [Wallets -> Int] /\ bonusState'[w] = bonusState[w] + d
        /\ \A x \in Wallets \ {w} : bonusState'[x] = bonusState[x]
    BY <1>0, <1>1, <1>4 DEF BonusTyped
  <2>2. /\ money' \in [Users -> Int] /\ money'[u] = money[u] + e
        /\ \A x \in Users \ {u} : money'[x] = money[x]
    BY <1>0, <1>1, <1>4 DEF BonusTyped
  <2>3. CASE crossed'
    BY <1>4, <2>1, <2>2, <2>3 DEF BonusesFollow
  <2>4. CASE ~crossed'
    <3>1. ~crossed /\ d = e /\ bonusState[w] + d >= 0
      BY <1>4, <2>4
    <3>2. BonusesFollow'
      BY <1>0, <1>1, <2>1, <2>2, <3>1, Booked
    <3> QED BY <1>4, <2>1, <2>2, <3>2
  <2> QED BY <2>3, <2>4
<1>5. CASE SyncBonus(j)
  <2>1. /\ money' = [money EXCEPT ![u] = @ + o]
        /\ bonusState' = [bonusState EXCEPT ![w] = nftHolder[w]]
        /\ crossed' = crossed
    BY <1>5 DEF SyncBonus, o, u, w
  <2>2. nftHolder[w] = bonusState[w] + o
    BY <1>2
  <2>3. bonusState' = [bonusState EXCEPT ![w] = @ + o]
    BY <2>1, <2>2
  <2>4. crossed' \in BOOLEAN
    BY <1>0, <2>1 DEF BonusTyped
  <2>5. ~crossed' => ~crossed /\ o = o /\ bonusState[w] + o >= 0
    <3>1. bonusState[w] + o >= 0
      BY <1>2, <2>2
    <3> QED BY <2>1, <3>1
  <2>6. o \in Int
    BY <1>2
  <2> QED BY <1>4, <2>1, <2>3, <2>4, <2>5, <2>6, Zenon
<1>6. CASE AddBonus(j)
  <2> DEFINE count == IF o = 0 THEN 0 ELSE CountBonuses(o, j.amount)
  <2>1. /\ bonusState' = [bonusState EXCEPT ![w] = @ + count]
        /\ money' = [money EXCEPT ![u] = @ + Max({count, 0})]
        /\ crossed' = (crossed \/ count < 0)
    BY <1>6 DEF AddBonus, o, u, w
  <2>2. count \in Int
    BY <1>1, <1>2, MinMaxOfTwo DEF CountBonuses
  <2> HIDE DEF count
  <2>3. /\ Max({count, 0}) \in Int
        /\ ~(count < 0) => count = Max({count, 0}) /\ count >= 0
    BY <2>2, MinMaxOfTwo
  <2>4. crossed' \in BOOLEAN /\ (~crossed' => ~crossed /\ ~(count < 0))
    BY <2>1
  <2>5. ASSUME ~crossed'
        PROVE  ~crossed /\ count = Max({count, 0}) /\ bonusState[w] + count >= 0
    <3>1. ~crossed /\ ~(count < 0)
      BY <2>4, <2>5
    <3>2. bonusState[w] >= 0 /\ count >= 0 /\ count = Max({count, 0})
      BY <1>3, <2>3, <3>1
    <3>3. bonusState[w] + count >= 0
      BY <1>2, <2>2, <3>2
    <3> QED BY <3>1, <3>2, <3>3
  <2> QED BY <1>4, <2>1, <2>2, <2>3, <2>4, <2>5, Zenon
<1>7. CASE RemoveBonus(j)
  <2> DEFINE count == IF o = 0 THEN 0 ELSE CountBonuses(-o, j.amount)
             d == -count
             e == -Max({count, 0})
  <2>1. /\ bonusState' = [bonusState EXCEPT ![w] = @ - count]
        /\ money' = [money EXCEPT ![u] = @ - Max({count, 0})]
        /\ crossed' = (crossed \/ count < 0)
    BY <1>7 DEF RemoveBonus, o, u, w
  <2>2. count \in Int /\ (count <= -o \/ count = 0)
    BY <1>1, <1>2, MinMaxOfTwo DEF CountBonuses
  <2> HIDE DEF count
  <2>3. /\ Max({count, 0}) \in Int
        /\ ~(count < 0) => count = Max({count, 0})
    <3>1. count \in Int
      BY <2>2
    <3>2. Max({count, 0}) = IF count >= 0 THEN count ELSE 0
      BY <3>1, MinMaxOfTwo
    <3> QED BY <3>1, <3>2
  <2>4. d \in Int /\ e \in Int /\ bonusState[w] - count = bonusState[w] + d
        /\ money[u] - Max({count, 0}) = money[u] + e
    BY <1>2, <2>2, <2>3
  <2>5. crossed' \in BOOLEAN /\ (~crossed' => ~crossed /\ ~(count < 0))
    BY <2>1
  <2>6. ASSUME ~crossed'
        PROVE  ~crossed /\ d = e /\ bonusState[w] + d >= 0
    <3>1. ~crossed /\ ~(count < 0)
      BY <2>5, <2>6
    <3>2. bonusState[w] >= 0 /\ d = e
      BY <1>3, <2>3, <3>1
    <3>3. bonusState[w] - count >= 0
      BY <1>2, <2>2, <3>2
    <3> QED BY <2>4, <3>1, <3>2, <3>3
  <2> HIDE DEF d, e
  <2>7. /\ bonusState' = [bonusState EXCEPT ![w] = @ + d]
        /\ money' = [money EXCEPT ![u] = @ + e]
    BY <2>1, <2>4
  <2> QED BY <1>4, <2>4, <2>5, <2>6, <2>7, Zenon
<1> QED BY <1>5, <1>6, <1>7

\* What no job of an NFT touches.
LEMMA BooksRest ==
  ASSUME BonusInv, [Next]_vars
  PROVE  \/ UNCHANGED <<bonusState, money, crossed, had, walletOf, signedUp>>
         \/ /\ \E j \in jobs : SyncBonus(j) \/ AddBonus(j) \/ RemoveBonus(j)
            /\ UNCHANGED <<had, walletOf, signedUp>>
         \/ \E u \in Users, w \in start.wallets \cup {NoWallet} :
              /\ walletOf' = [walletOf EXCEPT ![u] = w]
              /\ had' = IF w = NoWallet THEN had ELSE had \cup {<<u, w>>}
              /\ signedUp' \subseteq signedUp \cup {u}
              /\ UNCHANGED <<bonusState, money, crossed>>
<1> DEFINE Rest == UNCHANGED <<bonusState, money, crossed, had, walletOf, signedUp>>
<1> USE DEF users, bonus
<1>1. ASSUME Transfer \/ StartScan \/ CommitScan \/ FailScan PROVE Rest
  BY <1>1 DEF Transfer, StartScan, CommitScan, FailScan
<1>2. ASSUME NEW u \in Users, NEW w \in start.wallets \cup {NoWallet},
             SignUp(u, w)
      PROVE  /\ walletOf' = [walletOf EXCEPT ![u] = w]
             /\ had' = IF w = NoWallet THEN had ELSE had \cup {<<u, w>>}
             /\ signedUp' \subseteq signedUp \cup {u}
             /\ UNCHANGED <<bonusState, money, crossed>>
  BY <1>2 DEF SignUp
<1>3. ASSUME NEW u \in Users, NEW w \in start.wallets, UpdateUser(u, w)
      PROVE  /\ walletOf' = [walletOf EXCEPT ![u] = w]
             /\ had' = IF w = NoWallet THEN had ELSE had \cup {<<u, w>>}
             /\ signedUp' \subseteq signedUp \cup {u}
             /\ UNCHANGED <<bonusState, money, crossed>>
  <2>1. w # NoWallet
    BY StartsAssumption, NamesAssumption DEF BonusInv, BonusTyped
  <2> QED BY <1>3, <2>1 DEF UpdateUser
<1>4. ASSUME NEW j \in jobs, Run(j)
      PROVE  \/ Rest
             \/ /\ SyncBonus(j) \/ AddBonus(j) \/ RemoveBonus(j)
                /\ UNCHANGED <<had, walletOf, signedUp>>
  <2>1. UNCHANGED <<had, walletOf, signedUp>>
    BY <1>4 DEF Run
  <2>2. ASSUME CreateRow(j) \/ Referral(j) \/ Airdrop(j)
        PROVE  UNCHANGED <<bonusState, money, crossed>>
    BY <2>2 DEF CreateRow, Referral, Airdrop
  <2> QED BY <1>4, <2>1, <2>2 DEF Run
<1>5. ASSUME TakeAny \/ Acknowledge \/ (\E j \in jobs : FailJob(j)) PROVE Rest
  BY <1>5 DEF TakeAny, Take, Acknowledge, FailJob
<1>6. ASSUME ReadPage \/ (\E u \in Users : PayRow(u)) \/ LosePublication \/ Crash
      PROVE  Rest
  BY <1>6 DEF ReadPage, PayRow, LosePublication, Crash
<1>7. ASSUME NEW w \in Wallets, NEW answered \in BOOLEAN,
             TelegramReward(w, answered)
      PROVE  Rest
  BY <1>7 DEF TelegramReward
<1>8. ASSUME UNCHANGED vars PROVE Rest
  BY <1>8 DEF vars
<1> HIDE DEF Rest
<1>9. \/ Rest
      \/ \E j \in jobs : /\ SyncBonus(j) \/ AddBonus(j) \/ RemoveBonus(j)
                         /\ UNCHANGED <<had, walletOf, signedUp>>
      \/ \E u \in Users, w \in start.wallets \cup {NoWallet} :
              /\ walletOf' = [walletOf EXCEPT ![u] = w]
              /\ had' = IF w = NoWallet THEN had ELSE had \cup {<<u, w>>}
              /\ signedUp' \subseteq signedUp \cup {u}
              /\ UNCHANGED <<bonusState, money, crossed>>
  BY <1>1, <1>2, <1>3, <1>4, <1>5, <1>6, <1>7, <1>8 DEF Next, RunAny
<1> QED BY <1>9 DEF Rest

\* Every step keeps the books together, and typed.
LEMMA BooksStep == BonusInv /\ [Next]_vars => BonusTyped' /\ BonusesFollow'
<1> SUFFICES ASSUME BonusInv, [Next]_vars PROVE BonusTyped' /\ BonusesFollow'
  OBVIOUS
<1>0. BonusTyped /\ BonusesFollow /\ start' = start
  BY ScannedStep DEF BonusInv
<1>1. CASE UNCHANGED <<bonusState, money, crossed, had, walletOf, signedUp>>
  <2>1. BonusTyped'
    BY <1>0, <1>1 DEF BonusTyped
  <2>2. BonusesFollow'
    BY <1>0, <1>1 DEF BonusesFollow, Shared, GivenFor
  <2> QED BY <2>1, <2>2
<1>2. ASSUME NEW j \in jobs, SyncBonus(j) \/ AddBonus(j) \/ RemoveBonus(j),
             UNCHANGED <<had, walletOf, signedUp>>
      PROVE  BonusTyped' /\ BonusesFollow'
  <2>1. /\ crossed' \in BOOLEAN
        /\ bonusState' \in [Wallets -> Int] /\ money' \in [Users -> Int]
        /\ BonusesFollow'
    BY <1>2, JobBooks
  <2> QED BY <1>0, <1>2, <2>1 DEF BonusTyped
<1>3. ASSUME NEW u \in Users, NEW w \in start.wallets \cup {NoWallet},
             walletOf' = [walletOf EXCEPT ![u] = w],
             had' = IF w = NoWallet THEN had ELSE had \cup {<<u, w>>},
             signedUp' \subseteq signedUp \cup {u},
             UNCHANGED <<bonusState, money, crossed>>
      PROVE  BonusTyped' /\ BonusesFollow'
  <2>1. w \in Wallets \cup {NoWallet}
    BY <1>0, StartsAssumption DEF BonusTyped
  <2>2. BonusTyped'
    BY <1>0, <1>3, <2>1 DEF BonusTyped
  <2>3. CASE w = NoWallet
    <3>1. UNCHANGED <<bonusState, money, crossed, had>>
      BY <1>3, <2>3
    <3>2. BonusesFollow'
      BY <1>0, <3>1 DEF BonusesFollow, Shared, GivenFor
    <3> QED BY <2>2, <3>2
  <2>4. CASE w # NoWallet
    <3>1. w \in Wallets /\ had' = had \cup {<<u, w>>}
      BY <1>3, <2>1, <2>4
    <3>2. BonusesFollow'
      BY <1>0, <1>3, <3>1, HadGrows
    <3> QED BY <2>2, <3>2
  <2> QED BY <2>3, <2>4
<1> QED BY <1>1, <1>2, <1>3, BooksRest

\* At the start nothing was scanned, had or given.
LEMMA BonusInit == Init => BonusInv
<1> SUFFICES ASSUME Init PROVE BonusInv
  OBVIOUS
<1>1. BonusTyped
  <2>1. start \in Starts /\ signedUp = {} /\ had = {} /\ crossed = FALSE
    BY DEF Init
  <2>2. /\ bonusState = [w \in Wallets |-> 0] /\ money = [u \in Users |-> 0]
        /\ walletOf = [u \in Users |-> NoWallet]
    BY DEF Init
  <2>3. /\ bonusState \in [Wallets -> Int] /\ money \in [Users -> Int]
        /\ walletOf \in [Users -> Wallets \cup {NoWallet}]
    BY <2>2
  <2> QED BY <2>1, <2>3 DEF BonusTyped
<1>2. WalletsAreHad
  BY DEF Init, WalletsAreHad, EmptyBag, SetToBag, BagToSet
<1>3. HoldersAreScanned
  <2>1. start.transfers \in Seq([from : Wallets \cup {Market},
                                to : Wallets \cup {Market}, amount : Nat])
    BY <1>1, StartsAssumption DEF BonusTyped
  <2>2. Len(start.transfers) \in Nat
    BY <1>1, GainedTyped
  <2>3. 1..0 = {}
    OBVIOUS
  <2>4. \A w \in Wallets : Gain(w, 1..0) = 0
    BY <2>3, SumStep, FS_EmptySet DEF Gain
  <2> QED BY <2>2, <2>4 DEF Init, HoldersAreScanned
<1>4. BonusesFollow
  <2>1. \A f : (\A x \in Wallets : f[x] = 0) => SumFunctionOnSet(f, Wallets) = 0
    BY FiniteAssumption, SumZero
  <2>2. \A f : (\A x \in Users : f[x] = 0) => SumFunctionOnSet(f, Users) = 0
    BY FiniteAssumption, SumZero
  <2>3. (\A w \in Wallets : bonusState[w] = 0) /\ (\A u \in Users : money[u] = 0)
    BY DEF Init
  <2>4. ASSUME NEW u \in Users
        PROVE  SumFunctionOnSet(GivenFor(u), Wallets) = 0
    <3>1. \A w \in Wallets : GivenFor(u)[w] = 0
      BY <2>3 DEF GivenFor
    <3> QED BY <2>1, <3>1
  <2> QED BY <2>1, <2>2, <2>3, <2>4 DEF BonusesFollow
<1> QED BY <1>1, <1>2, <1>3, <1>4, PaidInit DEF BonusInv

\* Every step keeps the invariant of the bonuses.
LEMMA BonusStep == BonusInv /\ [Next]_vars => BonusInv'
BY PaidStep, ScannedStep, HadStep, BooksStep DEF BonusInv

\* The balances hold what the wallets are marked with, and nobody is charged for
\* an NFT they had no bonus for, unless an event met an offset of the other sign
\* or the wallet was another user's as well, whatever is repeated, lost or
\* overtaken (the jobs of apps/analytics, updateUser of apps/users).
THEOREM BonusesAreBacked == Spec => []NftBonusesAreBacked
<1>1. BonusInv => NftBonusesAreBacked
  <2> SUFFICES ASSUME BonusInv PROVE NftBonusesAreBacked
    OBVIOUS
  <2>1. MoneyFollowsState
    BY DEF BonusInv, BonusesFollow, MoneyFollowsState
  <2>2. ASSUME NEW u \in Users, ~crossed, ~Shared(u)
        PROVE  ~(money[u] < 0)
    <3>1. \A w \in Wallets : bonusState[w] \in Int /\ bonusState[w] >= 0
      BY <2>2 DEF BonusInv, BonusTyped, BonusesFollow
    <3>2. \A w \in Wallets : GivenFor(u)[w] \in Nat
      BY <3>1 DEF GivenFor
    <3>3. SumFunctionOnSet(GivenFor(u), Wallets) \in Nat
      BY <3>2, FiniteAssumption, SumNotNegative
    <3>4. money[u] = SumFunctionOnSet(GivenFor(u), Wallets)
      BY <2>2 DEF BonusInv, BonusesFollow
    <3> QED BY <3>3, <3>4
  <2> QED BY <2>1, <2>2 DEF NftBonusesAreBacked, NobodyPaysForOthers
<1> QED BY <1>1, BonusInit, BonusStep, PTL DEF Spec

\* The copy of the chain's holders is right up to the last block that was
\* scanned: no block is left out or counted twice, whichever scan fails or is
\* lost (syncBlockchainState).
THEOREM HoldersAreCopied ==
  Spec => [](\A w \in Wallets : nftHolder[w] = Gain(w, 1..lastScanBlock))
<1>1. BonusInv => \A w \in Wallets : nftHolder[w] = Gain(w, 1..lastScanBlock)
  BY DEF BonusInv, HoldersAreScanned
<1> QED BY <1>1, BonusInit, BonusStep, PTL DEF Spec
=============================================================================
