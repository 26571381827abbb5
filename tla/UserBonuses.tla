---------------------------- MODULE UserBonuses ----------------------------
(***************************************************************************)
(* The bonuses users get beside their games (apps/users: sign-up, wallets, *)
(* referrals; apps/analytics: nft-sync, referral-rewards, airdrop-rewards):*)
(* a bonus for every NFT their wallet owns, which is taken back when the   *)
(* NFT leaves, a bonus for every user they invited, an airdrop per wallet, *)
(* and what the telegram bot gives them.                                   *)
(*                                                                         *)
(* An interval job copies the transfers of the NFT contract, block by      *)
(* block, into the table of holders and tells who received and who gave.   *)
(* These events and those of the users come from Kafka to one consumer.    *)
(* It starts all jobs of an event at once and goes on when they are        *)
(* through, or when the first of them fails: the others then run on beside *)
(* the jobs of the next events.                                            *)
(***************************************************************************)
EXTENDS Integers, Sequences, FiniteSetsExt, Functions, Bags

CONSTANTS
  Users,
  NoUser,
  Wallets,          \* the wallets that users may attach
  NoWallet,
  Market,           \* any other address that holds NFTs
  Starts,           \* choices of the transfers to come, one per block, of who
                    \* signs up, invited by whom, with which wallets, of the
                    \* airdrop's wallets, of those the telegram bot rewards,
                    \* and of how often users are changed
  LogsLimit,        \* LOGS_LIMIT_BLOCKS
  PageSize,         \* the page of syncRewardsForReferrals
  MaxOwed,          \* bound: the events that users and transfers let pile up
  MaxFailures       \* bound: crashes, lost publications, calls that fail

ASSUME NamesAssumption ==
  /\ NoUser \notin Users
  /\ {NoWallet, Market} \cap Wallets = {} /\ NoWallet # Market
ASSUME LimitsAssumption == LogsLimit \in Nat /\ PageSize \in Nat \ {0}
ASSUME FiniteAssumption == IsFiniteSet(Users) /\ IsFiniteSet(Wallets)

\* What wallet w gains, or loses, by each of these transfers.
Gained(transfers, w) ==
  [b \in DOMAIN transfers |->
     (IF transfers[b].to = w THEN transfers[b].amount ELSE 0)
       - (IF transfers[b].from = w THEN transfers[b].amount ELSE 0)]

\* The contract lets nobody give what they do not own.
ASSUME StartsAssumption ==
  \A s \in Starts :
    /\ s.transfers \in Seq([from : Wallets \cup {Market},
                            to : Wallets \cup {Market}, amount : Nat])
    /\ s.users \subseteq Users /\ s.wallets \subseteq Wallets
    /\ \A w \in Wallets, n \in 0..Len(s.transfers) :
         SumFunctionOnSet(Gained(s.transfers, w), 1..n) >= 0

VARIABLES
  start,        \* the choice of Starts
  head,         \* the blocks there are by now
  lastScanBlock,
  scan,         \* the last block of a scan under way, or 0
  nftHolder,    \* nftHolder[w]: the NFTs of the wallet, as far as scanned
  bonusState,   \* UserNftBonusState: the NFTs a bonus was given for
  money,        \* money[u]: NFT bonuses on the balance of the user
  walletOf,     \* walletOf[u]: User.walletAddress
  signedUp,     \* the users that exist
  rewardRow,    \* the users with a Reward row
  tasked,       \* the users that have been given their challenge tasks
  isReferrerRewardReceived,
  referralPaid, \* referralPaid[u]: how often the one who invited u was paid
  isReceived,   \* UserBonusState.isReceived: wallets that got the airdrop
  airdropPaid,  \* airdropPaid[w]: how often the airdrop was paid
  toReward,     \* wallets whose reward the bot knows of no answer to
  telegramPaid, \* telegramPaid[w]: how often the bot's reward was paid
  owed,         \* Kafka: a bag of events, in no order
  event,        \* the event the consumer is at, or None
  jobs,         \* jobs that are not through; late: their event has been left
  manual,       \* syncRewardsForReferrals: rows of the page, how many to skip
  had,          \* history: the wallets users have had
  crossed,      \* history: an event met the opposite offset
  suspect,      \* history: wallets two airdrop jobs were at
  clashed,      \* history: users with a job lost to another on their balance
  tooEarly,     \* history: invited users handled before their inviter's row
  botFirst,     \* history: users the bot rewarded before they had tasks
  unanswered,   \* history: wallets with a reward whose answer was lost
  updates,      \* how many changes of users there were
  failures

chain == <<start, head>>
nft == <<lastScanBlock, scan, nftHolder>>
bonus == <<bonusState, money>>
users == <<walletOf, signedUp, had, updates>>
rewards == <<rewardRow, tasked>>
bot == <<toReward, telegramPaid, botFirst, unanswered>>
paid == <<isReferrerRewardReceived, referralPaid, isReceived, airdropPaid>>
consumer == <<event, jobs>>
vars == <<chain, nft, bonus, users, rewards, paid, bot, owed, consumer, manual,
          crossed, suspect, clashed, tooEarly, failures>>

None == [kind |-> "none"]
Idle == [skip |-> 0, rows |-> {}]

Created(u, w) == [kind |-> "UserCreated", user |-> u, wallet |-> w]
Updated(u, w) == [kind |-> "UserUpdated", user |-> u, wallet |-> w]
Received(w, n) == [kind |-> "ReceivedNft", wallet |-> w, amount |-> n]
Gave(w, n) == [kind |-> "GaveNft", wallet |-> w, amount |-> n]

Job(name, u, w, n) ==
  [job |-> name, user |-> u, wallet |-> w, amount |-> n, late |-> FALSE]

Names == {"row", "referral", "airdrop", "nft", "add", "remove"}

TypeOK ==
  /\ start \in Starts
  /\ head \in 0..Len(start.transfers)
  /\ lastScanBlock \in 0..head
  /\ scan \in 0..head
  /\ nftHolder \in [Wallets -> Int]
  /\ bonusState \in [Wallets -> Int]
  /\ money \in [Users -> Int]
  /\ walletOf \in [Users -> Wallets \cup {NoWallet}]
  /\ signedUp \subseteq start.users
  /\ rewardRow \subseteq signedUp
  /\ tasked \subseteq rewardRow
  /\ isReferrerRewardReceived \subseteq signedUp
  /\ referralPaid \in [Users -> Nat]
  /\ isReceived \subseteq start.airdrop
  /\ airdropPaid \in [Wallets -> Nat]
  /\ toReward \subseteq start.telegram
  /\ telegramPaid \in [Wallets -> Nat]
  /\ IsABag(owed)
  /\ event \in BagToSet(owed) \cup {None}
  /\ \A j \in jobs : j.job \in Names /\ j.user \in signedUp
  /\ manual.rows \subseteq signedUp
  /\ had \subseteq Users \X Wallets
  /\ crossed \in BOOLEAN
  /\ suspect \subseteq Wallets
  /\ clashed \subseteq Users
  /\ tooEarly \subseteq Users
  /\ botFirst \subseteq Users
  /\ unanswered \subseteq Wallets
  /\ updates \in 0..start.updates
  /\ failures \in 0..MaxFailures

Init ==
  /\ start \in Starts
  /\ head = 0 /\ lastScanBlock = 0 /\ scan = 0
  /\ nftHolder = [w \in Wallets |-> 0]
  /\ bonusState = [w \in Wallets |-> 0]
  /\ money = [u \in Users |-> 0]
  /\ walletOf = [u \in Users |-> NoWallet]
  /\ signedUp = {} /\ rewardRow = {} /\ tasked = {}
  /\ isReferrerRewardReceived = {}
  /\ referralPaid = [u \in Users |-> 0]
  /\ isReceived = {}
  /\ airdropPaid = [w \in Wallets |-> 0]
  /\ toReward = start.telegram
  /\ telegramPaid = [w \in Wallets |-> 0]
  /\ owed = EmptyBag
  /\ event = None
  /\ jobs = {}
  /\ manual = Idle
  /\ had = {}
  /\ crossed = FALSE
  /\ suspect = {} /\ clashed = {} /\ tooEarly = {}
  /\ botFirst = {} /\ unanswered = {}
  /\ updates = 0
  /\ failures = 0

-----------------------------------------------------------------------------
(* The NFT contract and its copy *)

\* What wallet w gains from the transfers of these blocks.
Gain(w, blocks) == SumFunctionOnSet(Gained(start.transfers, w), blocks)

\* What wallet w owns on the chain.
Owned(w) == Gain(w, 1..head)

\* Users and transfers wait while the consumer is far behind.
MayGoOn == BagCardinality(owed) < MaxOwed

Transfer ==
  /\ MayGoOn
  /\ head < Len(start.transfers)
  /\ head' = head + 1
  /\ UNCHANGED <<start, nft, bonus, users, rewards, paid, bot, owed, consumer,
                 manual, crossed, suspect, clashed, tooEarly, failures>>

\* MUTANT of FirstToScan: off by one, a block is left out.
FirstToScanPastNext == lastScanBlock + 2

FirstToScan == lastScanBlock + 1

\* syncBlockchainState, before its transaction.  It starts no second scan
\* while one is under way.
StartScan ==
  /\ scan = 0
  /\ FirstToScan <= head
  /\ scan' = Min({FirstToScan + LogsLimit, head})
  /\ UNCHANGED <<chain, lastScanBlock, nftHolder, bonus, users, rewards, paid,
                 bot, owed, consumer, manual, crossed, suspect, clashed,
                 tooEarly, failures>>

\* Who hears of a block: events of addresses no user ever has are left out.
ToldOf(b) ==
  LET t == start.transfers[b]
  IN {e \in {Received(t.to, t.amount), Gave(t.from, t.amount)} : e.wallet \in Wallets}

\* The events of these blocks, one for each block it is about.
Told(blocks) ==
  [e \in UNION {ToldOf(b) : b \in blocks} |->
     Cardinality({b \in blocks : e \in ToldOf(b)})]

\* The transaction of a scan, and what it tells after the commit.
CommitScan ==
  /\ scan # 0
  /\ LET blocks == FirstToScan..scan
     IN /\ nftHolder' = [w \in Wallets |-> nftHolder[w] + Gain(w, blocks)]
        /\ owed' = owed (+) Told(blocks)
  /\ lastScanBlock' = scan
  /\ scan' = 0
  /\ UNCHANGED <<chain, bonus, users, rewards, paid, bot, consumer, manual,
                 crossed, suspect, clashed, tooEarly, failures>>

\* The node or the database fails: nothing is written, the flag is released.
FailScan ==
  /\ scan # 0
  /\ failures < MaxFailures
  /\ failures' = failures + 1
  /\ scan' = 0
  /\ UNCHANGED <<chain, lastScanBlock, nftHolder, bonus, users, rewards, paid,
                 bot, owed, consumer, manual, crossed, suspect, clashed,
                 tooEarly>>

-----------------------------------------------------------------------------
(* Users *)

InvitedBy(u) == start.referrer[u]

Free(w) == \A u \in signedUp : walletOf[u] # w

\* It takes an invitation, or a wallet (Metamask) with an NFT on the chain.  The
\* user and the referral, with the inviter's reward still to come, are one
\* transaction.
SignUp(u, w) ==
  /\ MayGoOn
  /\ u \in start.users \ signedUp
  /\ InvitedBy(u) \in signedUp \cup {NoUser}
  /\ w # NoWallet => Free(w)
  /\ InvitedBy(u) # NoUser \/ (w # NoWallet /\ Owned(w) > 0)
  /\ signedUp' = signedUp \cup {u}
  /\ walletOf' = [walletOf EXCEPT ![u] = w]
  /\ had' = IF w = NoWallet THEN had ELSE had \cup {<<u, w>>}
  /\ owed' = owed (+) SetToBag({Created(u, w)})
  /\ UNCHANGED <<chain, nft, bonus, updates, rewards, paid, bot, consumer,
                 manual, crossed, suspect, clashed, tooEarly, failures>>

\* updateUser: w is another wallet (attachWallet), or the one the user has when
\* something else was updated or all users are told again
\* (createUserUpdatedEvents).
UpdateUser(u, w) ==
  /\ MayGoOn
  /\ updates < start.updates
  /\ u \in signedUp
  /\ w = walletOf[u] \/ Free(w)
  /\ updates' = updates + 1
  /\ walletOf' = [walletOf EXCEPT ![u] = w]
  /\ had' = had \cup {<<u, w>>}
  /\ owed' = owed (+) SetToBag({Updated(u, w)})
  /\ UNCHANGED <<chain, nft, bonus, signedUp, rewards, paid, bot, consumer,
                 manual, crossed, suspect, clashed, tooEarly, failures>>

-----------------------------------------------------------------------------
(* The consumer *)

\* The jobs of an event; those that return at once are left out.  The jobs of
\* a transfer ask the users service whose wallet it is.
JobsOf(e) ==
  IF e.kind \in {"UserCreated", "UserUpdated"}
  THEN {j \in {Job("row", e.user, NoWallet, 0),
                Job("referral", e.user, NoWallet, 0),
                Job("airdrop", e.user, e.wallet, 0),
                Job("nft", e.user, e.wallet, 0)} :
          /\ j.job \in {"row", "referral"} => e.kind = "UserCreated"
          /\ j.job = "referral" => InvitedBy(e.user) # NoUser
          /\ j.job = "airdrop" => e.wallet \in start.airdrop \ isReceived
          /\ j.job = "nft" => e.wallet # NoWallet}
  ELSE {Job(IF e.kind = "ReceivedNft" THEN "add" ELSE "remove",
            u, e.wallet, e.amount) :
          u \in {v \in signedUp : walletOf[v] = e.wallet}}

AtAirdrop(js) == {j.wallet : j \in {k \in js : k.job = "airdrop"}}

Take(e) ==
  /\ event = None
  /\ e \in BagToSet(owed)
  /\ event' = e
  /\ jobs' = jobs \cup JobsOf(e)
  /\ suspect' = suspect \cup (AtAirdrop(jobs) \cap AtAirdrop(JobsOf(e)))
  /\ UNCHANGED <<chain, nft, bonus, users, rewards, paid, bot, owed, manual,
                 crossed, clashed, tooEarly, failures>>

Acknowledge ==
  /\ event # None
  /\ \A j \in jobs : j.late
  /\ event' = None
  /\ owed' = owed (-) SetToBag({event})
  /\ UNCHANGED <<chain, nft, bonus, users, rewards, paid, bot, jobs, manual,
                 crossed, suspect, clashed, tooEarly, failures>>

\* These jobs are through, those have failed: the consumer leaves the jobs that
\* still run, and gives their event up or gets it again.
Finish(done, failed, again) ==
  LET rest == jobs \ (done \cup failed)
  IN IF \E j \in failed : ~j.late
     THEN /\ jobs' = {[j EXCEPT !.late = TRUE] : j \in rest}
          /\ event' = None
          /\ owed' = IF again THEN owed ELSE owed (-) SetToBag({event})
     ELSE jobs' = rest /\ UNCHANGED <<event, owed>>

Offset(j) == nftHolder[j.wallet] - bonusState[j.wallet]

\* The balance a job is to write, or NoUser if it has nothing to write.
Writes(j) ==
  CASE j.job = "row"      -> NoUser
    [] j.job = "referral" -> IF j.user \in isReferrerRewardReceived THEN NoUser
                             ELSE InvitedBy(j.user)
    [] j.job = "airdrop"  -> j.user
    [] OTHER              -> IF Offset(j) = 0 THEN NoUser ELSE j.user

\* A transaction on the balance of user u commits with these jobs done: jobs
\* that have begun theirs on the same balance cannot be serialized and fail.
\* That an event comes again is left to FailJob.
Commit(u, done) ==
  \E failed \in SUBSET {k \in jobs \ done : u # NoUser /\ Writes(k) = u} :
    /\ Finish(done, failed, FALSE)
    /\ clashed' = IF failed = {} THEN clashed ELSE clashed \cup {u}

\* The tasks of the user and the row are one transaction: when there is a row,
\* there will be no tasks, and nobody is told (P2002).
CreateRow(j) ==
  /\ j.job = "row"
  /\ rewardRow' = rewardRow \cup {j.user}
  /\ tasked' = IF j.user \in rewardRow THEN tasked ELSE tasked \cup {j.user}
  /\ Commit(NoUser, {j})
  /\ UNCHANGED <<bonus, paid, crossed, tooEarly>>

\* MUTANT of SyncBonus: what the wallet has lost is not booked.
SyncBonusUp(j) ==
  /\ j.job = "nft"
  /\ money' = [money EXCEPT ![j.user] = @ + Max({Offset(j), 0})]
  /\ bonusState' = [bonusState EXCEPT ![j.wallet] = nftHolder[j.wallet]]
  /\ Commit(Writes(j), {j})
  /\ UNCHANGED <<rewards, paid, crossed, tooEarly>>

\* addBonusOnUserCreatedOrUpdated: up or down to what the wallet holds.
SyncBonus(j) ==
  /\ j.job = "nft"
  /\ money' = [money EXCEPT ![j.user] = @ + Offset(j)]
  /\ bonusState' = [bonusState EXCEPT ![j.wallet] = nftHolder[j.wallet]]
  /\ Commit(Writes(j), {j})
  /\ UNCHANGED <<rewards, paid, crossed, tooEarly>>

\* Not more than what is missing, but that may be less than nothing.
CountBonuses(offset, amount) == Min({offset, amount})

\* The entries of the ledger are made one by one, none for a negative count.
AddBonus(j) ==
  LET count == IF Offset(j) = 0 THEN 0 ELSE CountBonuses(Offset(j), j.amount)
  IN /\ j.job = "add"
     /\ bonusState' = [bonusState EXCEPT ![j.wallet] = @ + count]
     /\ money' = [money EXCEPT ![j.user] = @ + Max({count, 0})]
     /\ crossed' = (crossed \/ count < 0)
     /\ Commit(Writes(j), {j})
     /\ UNCHANGED <<rewards, paid, tooEarly>>

RemoveBonus(j) ==
  LET count == IF Offset(j) = 0 THEN 0 ELSE CountBonuses(-Offset(j), j.amount)
  IN /\ j.job = "remove"
     /\ bonusState' = [bonusState EXCEPT ![j.wallet] = @ - count]
     /\ money' = [money EXCEPT ![j.user] = @ - Max({count, 0})]
     /\ crossed' = (crossed \/ count < 0)
     /\ Commit(Writes(j), {j})
     /\ UNCHANGED <<rewards, paid, tooEarly>>

\* MUTANT of MayBePaid: the referral is not asked for isReferrerRewardReceived.
MayBePaidAgain(u) == InvitedBy(u) \in rewardRow

\* The rows the transaction updates: without them it is given up in silence.
MayBePaid(u) == u \notin isReferrerRewardReceived /\ InvitedBy(u) \in rewardRow

\* addBonusForReferral of the user u, with these jobs done.
PayReferral(u, done) ==
  /\ IF MayBePaid(u)
     THEN /\ isReferrerRewardReceived' = isReferrerRewardReceived \cup {u}
          /\ referralPaid' = [referralPaid EXCEPT ![u] = @ + 1]
          /\ tooEarly' = tooEarly
          /\ Commit(InvitedBy(u), done)
     ELSE /\ tooEarly' = IF InvitedBy(u) \in rewardRow THEN tooEarly
                         ELSE tooEarly \cup {u}
          /\ Commit(NoUser, done)
          /\ UNCHANGED <<isReferrerRewardReceived, referralPaid>>
  /\ UNCHANGED <<isReceived, airdropPaid>>

Referral(j) ==
  /\ j.job = "referral"
  /\ PayReferral(j.user, {j})
  /\ UNCHANGED <<bonus, rewards, crossed>>

\* That the airdrop is still to be received was read before the transaction.
Airdrop(j) ==
  /\ j.job = "airdrop"
  /\ airdropPaid' = [airdropPaid EXCEPT ![j.wallet] = @ + 1]
  /\ isReceived' = isReceived \cup {j.wallet}
  /\ Commit(j.user, {j})
  /\ UNCHANGED <<bonus, rewards, isReferrerRewardReceived, referralPaid,
                 crossed, tooEarly>>

Run(j) ==
  /\ \/ CreateRow(j) \/ SyncBonus(j) \/ AddBonus(j) \/ RemoveBonus(j)
     \/ Referral(j) \/ Airdrop(j)
  /\ UNCHANGED <<chain, nft, users, bot, manual, suspect, failures>>

\* A service does not answer, or the transaction cannot be serialized with one
\* of somebody else.
FailJob(j) ==
  /\ failures < MaxFailures
  /\ failures' = failures + 1
  /\ \E again \in BOOLEAN : Finish({}, {j}, again)
  /\ UNCHANGED <<chain, nft, bonus, users, rewards, paid, bot, manual, crossed,
                 suspect, clashed, tooEarly>>

-----------------------------------------------------------------------------
(* The referrals that are synced by hand, and what goes wrong *)

Unpaid == {u \in signedUp \ isReferrerRewardReceived : InvitedBy(u) # NoUser}

\* The next page of what is unpaid now, in no order, past what was read before.
ReadPage ==
  /\ manual.rows = {}
  /\ LET size == Max({0, Min({PageSize, Cardinality(Unpaid) - manual.skip})})
     IN \E rows \in {r \in SUBSET Unpaid : Cardinality(r) = size} :
          manual' = IF rows = {} THEN Idle
                    ELSE [skip |-> manual.skip + size, rows |-> rows]
  /\ UNCHANGED <<chain, nft, bonus, users, rewards, paid, bot, owed, consumer,
                 crossed, suspect, clashed, tooEarly, failures>>

PayRow(u) ==
  /\ u \in manual.rows
  /\ manual' = [manual EXCEPT !.rows = @ \ {u}]
  /\ PayReferral(u, {})
  /\ UNCHANGED <<chain, nft, bonus, users, rewards, bot, crossed, suspect,
                 failures>>

\* The jobs and a scan are gone, the event comes again.
Crash ==
  /\ failures < MaxFailures
  /\ failures' = failures + 1
  /\ scan' = 0
  /\ event' = None
  /\ jobs' = {}
  /\ manual' = Idle
  /\ UNCHANGED <<chain, lastScanBlock, nftHolder, bonus, users, rewards, paid,
                 bot, owed, crossed, suspect, clashed, tooEarly>>

\* An event is never published after the commit.
LosePublication ==
  /\ failures < MaxFailures
  /\ failures' = failures + 1
  /\ \E e \in BagToSet(owed) \ {event} : owed' = owed (-) SetToBag({e})
  /\ UNCHANGED <<chain, nft, bonus, users, rewards, paid, bot, consumer,
                 manual, crossed, suspect, clashed, tooEarly>>

\* addTelegramBotRewards: the user of the wallet is paid, with a row if there
\* is none.  The bot sends a reward again until it is answered.
TelegramReward(w, answered) ==
  /\ w \in toReward
  /\ \E u \in signedUp :
       /\ walletOf[u] = w
       /\ rewardRow' = rewardRow \cup {u}
       /\ botFirst' = IF u \in tasked THEN botFirst ELSE botFirst \cup {u}
       /\ Commit(u, {})
  /\ telegramPaid' = [telegramPaid EXCEPT ![w] = @ + 1]
  /\ IF answered
     THEN toReward' = toReward \ {w} /\ UNCHANGED <<unanswered, failures>>
     ELSE /\ failures < MaxFailures
          /\ failures' = failures + 1
          /\ unanswered' = unanswered \cup {w}
          /\ UNCHANGED toReward
  /\ UNCHANGED <<chain, nft, bonus, users, tasked, paid, manual, crossed,
                 suspect, tooEarly>>

TakeAny == \E e \in BagToSet(owed) : Take(e)
RunAny == \E j \in jobs : Run(j)

Next ==
  \/ Transfer \/ StartScan \/ CommitScan \/ FailScan
  \/ \E u \in Users : \E w \in start.wallets \cup {NoWallet} : SignUp(u, w)
  \/ \E u \in Users : \E w \in start.wallets : UpdateUser(u, w)
  \/ TakeAny \/ RunAny \/ Acknowledge
  \/ \E j \in jobs : FailJob(j)
  \/ ReadPage
  \/ \E u \in Users : PayRow(u)
  \/ \E w \in Wallets, answered \in BOOLEAN : TelegramReward(w, answered)
  \/ Crash
  \/ LosePublication

\* The interval keeps coming, Kafka delivers what it holds, a job that was
\* started goes on; users and the administrator need not do anything.
Fairness ==
  /\ WF_vars(StartScan) /\ WF_vars(CommitScan)
  /\ WF_vars(TakeAny) /\ WF_vars(RunAny) /\ WF_vars(Acknowledge)

Spec == Init /\ [][Next]_vars /\ Fairness

-----------------------------------------------------------------------------
(* Properties *)

MoneyFollowsState ==
  ~crossed =>
    SumFunctionOnSet(money, Users) = SumFunctionOnSet(bonusState, Wallets)

Shared(u) ==
  \E w \in Wallets, v \in Users \ {u} : {<<u, w>>, <<v, w>>} \subseteq had

NobodyPaysForOthers ==
  \A u \in Users : money[u] < 0 => crossed \/ Shared(u)

\* The bonuses on the balances are those the wallets are marked with, whatever
\* is delivered again, lost, handled in another order or fails half way, as
\* long as no event of a transfer meets an offset of the other sign: that one
\* moves userNftBonusState without an entry in the ledger.  And a user never
\* pays for NFTs they had no bonus for, but for those of a wallet that another
\* user had, too.
NftBonusesAreBacked == MoneyFollowsState /\ NobodyPaysForOthers

\* An invitation, an airdrop and a reward of the bot are paid once, however
\* often they are told and synced by hand; only an airdrop that two jobs are at
\* may be paid twice, and a reward that was sent again for want of an answer.
PaidOnce ==
  /\ \A u \in Users : referralPaid[u] <= 1
  /\ \A w \in Wallets : airdropPaid[w] > 1 => w \in suspect
  /\ \A w \in Wallets : telegramPaid[w] > 1 => w \in unanswered

Attached == {w \in Wallets : \E u \in signedUp \ clashed : walletOf[u] = w}

Due ==
  {<<"nft", w>> : w \in {v \in Attached : bonusState[v] # Owned(v)}}
  \cup {<<"airdrop", w>> : w \in (Attached \cap start.airdrop) \ isReceived}
  \cup {<<"referral", u>> : u \in {v \in Unpaid \ tooEarly :
                                     InvitedBy(v) \notin clashed}}
  \cup {<<"tasks", u>> : u \in signedUp \ (tasked \cup botFirst)}

\* What users are due for their NFTs, the airdrop and the users they invited
\* comes to them sometime, and so do their challenge tasks, unless something is
\* lost or fails, two jobs of the same user met at the balance, the referral
\* came before the inviter's row, or the bot's reward made that row before the
\* tasks were created.
BonusesArrive == Due # {} ~> Due = {} \/ failures > 0
=============================================================================
