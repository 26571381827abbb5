------------------------------- MODULE Ledger -------------------------------
(***************************************************************************)
(* The ledger of user balances: libs/ledger-package as every service of    *)
(* the platform embeds it, over one Postgres database.                     *)
(*                                                                         *)
(* An operation of the ledger runs inside a database transaction its       *)
(* caller opened.  It reads the user's Balance row, checks it, saves a     *)
(* journal and writes back the amount it computed in memory               *)
(* (BalanceService.updateBalance): a read-modify-write.  The step that     *)
(* reads and the step that commits are separate actions here, so the       *)
(* transactions of all services interleave.  Postgres shows a transaction  *)
(* only committed rows and a write blocks until the earlier writer of the  *)
(* row is done, so the journal, the write and the commit are one step.     *)
(*                                                                         *)
(* Most callers use the default isolation, READ COMMITTED, where the       *)
(* absolute write silently replaces an amount committed in between.  The   *)
(* others ask for REPEATABLE READ or SERIALIZABLE, where Postgres refuses  *)
(* to write a row that changed since the transaction's snapshot.           *)
(***************************************************************************)
EXTENDS LedgerJournals, FiniteSets, FiniteSetsExt

CONSTANTS
  Users,        \* the users that own an account
  Calls,        \* the database transactions that can be open at a time
  Amounts,      \* the amounts operations are asked for, smallest unit
  Fees,         \* the network and platform fees
  MaxCommits    \* bound: transactions that commit

ASSUME UsersAssumption == IsFiniteSet(Users)
ASSUME AmountsAssumption == Amounts \subseteq Nat \ {0}
ASSUME FeesAssumption == Fees \subseteq Nat
ASSUME BoundAssumption == MaxCommits \in Nat

VARIABLES
  balance,      \* balance[u]: Balance.amount of the user's account
  total,        \* total[u]: net credit of the entries on the user's account
  hold,         \* hold[u]: net credit of the entries on its hold account
  books,        \* net credit of the accounts that are not per user
  call,         \* call[c]: the open transaction, or Idle
  removed,      \* history, removed[u]: bonus value taken back from the user
  raced,        \* history: users whose row was overwritten by a stale write
  commits       \* number of committed transactions, for the bound

vars == <<balance, total, hold, books, call, removed, raced, commits>>

\* The isolation levels the callers ask for.  REPEATABLE READ and SERIALIZABLE
\* differ in nothing that these operations can tell.
ReadCommitted == "readCommitted"
Snapshot == "snapshot"
Isolation == {ReadCommitted, Snapshot}

Idle == [op |-> "idle"]

SingleOps == {"createBet", "payBetFee", "deposit", "hold", "unhold",
              "withdraw", "addReward", "addNft", "removeNft"}

\* An open transaction of one user: the operation, the journal it will save,
\* the change it made to its in-memory balance and the amount it had read;
\* `fresh' is FALSE once another transaction has written the row since.
SingleCall ==
  [op: SingleOps, user: Users, journal: Journal, delta: Int, seen: Int,
   isolation: Isolation, fresh: BOOLEAN]

\* An open transaction of the ledger service that pays out a closed game.
RewardsCall ==
  [op: {"giveRewards"}, payout: [Users -> Nat], fee: Nat, stakes: Nat,
   isolation: {Snapshot}, fresh: BOOLEAN]

IsOpen(c) == call[c].op # "idle"
IsSingle(c) == call[c].op \in SingleOps
IsRewards(c) == call[c].op = "giveRewards"

\* The users whose Balance row a call reads or writes.
Rows(r) ==
  IF r.op = "giveRewards" THEN {u \in Users : r.payout[u] > 0} ELSE {r.user}

Books == [bets: Int, assets: Int, income: Int, outcome: Int]

TypeOK ==
  /\ balance \in [Users -> Int]
  /\ total \in [Users -> Int]
  /\ hold \in [Users -> Int]
  /\ books \in Books
  /\ call \in [Calls -> SingleCall \cup RewardsCall \cup {Idle}]
  /\ removed \in [Users -> Nat]
  /\ raced \subseteq Users
  /\ commits \in 0..MaxCommits

\* AccountService.createAccount: the Balance row starts at zero.
Init ==
  /\ balance = [u \in Users |-> 0]
  /\ total = [u \in Users |-> 0]
  /\ hold = [u \in Users |-> 0]
  /\ books = [bets |-> 0, assets |-> 0, income |-> 0, outcome |-> 0]
  /\ call = [c \in Calls |-> Idle]
  /\ removed = [u \in Users |-> 0]
  /\ raced = {}
  /\ commits = 0

-----------------------------------------------------------------------------
(* The first half of an operation: findBalanceByAccountId, the journal in   *)
(* memory and balance.add / balance.sub.                                    *)

Begin(c, op, u, journal, delta, isolation) ==
  /\ call[c] = Idle
  /\ call' = [call EXCEPT ![c] =
       [op |-> op, user |-> u, journal |-> journal, delta |-> delta,
        seen |-> balance[u], isolation |-> isolation, fresh |-> TRUE]]
  /\ UNCHANGED <<balance, total, hold, books, removed, raced, commits>>

\* MUTANT of HasEnough: one unit of overdraft passes the check.
HasEnoughOffByOne(u, amount) == balance[u] + 1 >= amount

\* NotEnoughBalanceForThisOperationError otherwise.
HasEnough(u, amount) == balance[u] >= amount

CreateBet(c, u, amount) ==
  /\ HasEnough(u, amount)
  /\ Begin(c, "createBet", u, CreateBetJournal(amount), -amount, ReadCommitted)

PayBetFee(c, u, amount) ==
  /\ HasEnough(u, amount)
  /\ Begin(c, "payBetFee", u, PayBetFeeJournal(amount), -amount, ReadCommitted)

Deposit(c, u, amount, platformFee) ==
  Begin(c, "deposit", u, DepositJournal(amount, platformFee), amount,
        ReadCommitted)

\* MUTANT of Hold: the network fee is held but not checked for.
HoldUncheckedFee(c, u, amount, networkFee) ==
  /\ HasEnough(u, amount)
  /\ Begin(c, "hold", u, HoldJournal(amount + networkFee),
           -(amount + networkFee), ReadCommitted)

Hold(c, u, amount, networkFee) ==
  /\ HasEnough(u, amount + networkFee)
  /\ Begin(c, "hold", u, HoldJournal(amount + networkFee),
           -(amount + networkFee), ReadCommitted)

\* Called for an order whose hold is in force.
Unhold(c, u, amount, networkFee) ==
  /\ hold[u] >= amount + networkFee
  /\ Begin(c, "unhold", u, UnholdJournal(amount + networkFee),
           amount + networkFee, ReadCommitted)

\* MUTANT of Withdraw: the entry of the fee given back is saved, the balance
\* is not changed.
WithdrawForgetsUnhold(c, u, amount, heldFee, paidFee, platformFee) ==
  /\ hold[u] >= amount + heldFee
  /\ Begin(c, "withdraw", u,
           WithdrawJournal(amount, heldFee, paidFee, platformFee),
           0, ReadCommitted)

Withdraw(c, u, amount, heldFee, paidFee, platformFee) ==
  /\ hold[u] >= amount + heldFee
  /\ Begin(c, "withdraw", u,
           WithdrawJournal(amount, heldFee, paidFee, platformFee),
           UnholdAmount(heldFee, paidFee), ReadCommitted)

\* Referral and airdrop rewards are SERIALIZABLE, challenge and sign-up
\* rewards are given at the default level.
AddReward(c, u, amount, isolation) ==
  Begin(c, "addReward", u, BonusJournal(amount), amount, isolation)

AddNft(c, u, amount) ==
  Begin(c, "addNft", u, BonusJournal(amount), amount, Snapshot)

\* There is no check of the balance: the NFT is gone, so is its bonus.
RemoveNft(c, u, amount) ==
  Begin(c, "removeNft", u, BonusRemovedJournal(amount), -amount, Snapshot)

-----------------------------------------------------------------------------
(* The second half: journalService.save, updateBalance, COMMIT.             *)

\* The other open transactions that touch one of these rows are stale now.
Outdate(rows, c) ==
  [d \in Calls |->
     IF d = c THEN Idle
     ELSE IF IsOpen(d) /\ Rows(call[d]) \cap rows # {}
          THEN [call[d] EXCEPT !.fresh = FALSE]
          ELSE call[d]]

Post(j) ==
  books' = [bets |-> books.bets + j.bets,
            assets |-> books.assets + j.assets,
            income |-> books.income + j.income,
            outcome |-> books.outcome + j.outcome]

\* updateBalance writes the absolute amount.  At READ COMMITTED it does so
\* whatever the row holds by now.
Commit(c) ==
  /\ IsSingle(c)
  /\ commits < MaxCommits
  /\ commits' = commits + 1
  /\ LET r == call[c]
         u == r.user IN
     /\ CheckIsBalanced(r.journal)
     /\ r.isolation = Snapshot => r.fresh
     /\ balance' = [balance EXCEPT ![u] = r.seen + r.delta]
     /\ total' = [total EXCEPT ![u] = @ + r.journal.user]
     /\ hold' = [hold EXCEPT ![u] = @ + r.journal.hold]
     /\ Post(r.journal)
     /\ removed' = IF r.op = "removeNft"
                   THEN [removed EXCEPT ![u] = @ - r.journal.user]
                   ELSE removed
     /\ raced' = IF r.fresh THEN raced ELSE raced \cup {u}
     /\ call' = Outdate({u}, c)

\* JournalIsNotBalancedError, a serialization failure or a deadlock found by
\* Postgres, a failed publish or provider call inside the transaction, its
\* timeout, a crash of the service: the transaction is rolled back.
Rollback(c) ==
  /\ IsOpen(c)
  /\ call' = [call EXCEPT ![c] = Idle]
  /\ UNCHANGED <<balance, total, hold, books, removed, raced, commits>>

-----------------------------------------------------------------------------
(* GamesRewardsService: the payout of a closed game, REPEATABLE READ.  The  *)
(* balances are changed with a database increment.                          *)

PerUserSum(f) == MapThenSumSet(LAMBDA u : f[u], Users)

\* The stakes held by the game pay its winners and the platform's fee: the
\* journal balances.
GiveRewards(c, payout, fee) ==
  /\ call[c] = Idle
  /\ \E stakes \in 0..books.bets :
       /\ stakes = PerUserSum(payout) + fee
       /\ call' = [call EXCEPT ![c] =
            [op |-> "giveRewards", payout |-> payout, fee |-> fee,
             stakes |-> stakes, isolation |-> Snapshot, fresh |-> TRUE]]
  /\ UNCHANGED <<balance, total, hold, books, removed, raced, commits>>

\* MUTANT of CommitRewards: no snapshot, and amounts computed from a balance
\* that a transaction may have changed: the payout skips the stale rows.
CommitRewardsSkipsStale(c) ==
  /\ IsRewards(c)
  /\ commits < MaxCommits
  /\ commits' = commits + 1
  /\ LET r == call[c] IN
     /\ balance' = IF r.fresh THEN [u \in Users |-> balance[u] + r.payout[u]]
                   ELSE balance
     /\ total' = [u \in Users |-> total[u] + r.payout[u]]
     /\ Post(GameResolveJournal(r.stakes, r.stakes - r.fee, r.fee))
     /\ call' = Outdate(Rows(r), c)
  /\ UNCHANGED <<hold, removed, raced>>

CommitRewards(c) ==
  /\ IsRewards(c)
  /\ commits < MaxCommits
  /\ commits' = commits + 1
  /\ LET r == call[c] IN
     /\ r.fresh
     /\ balance' = [u \in Users |-> balance[u] + r.payout[u]]
     /\ total' = [u \in Users |-> total[u] + r.payout[u]]
     /\ Post(GameResolveJournal(r.stakes, r.stakes - r.fee, r.fee))
     /\ call' = Outdate(Rows(r), c)
  /\ UNCHANGED <<hold, removed, raced>>

-----------------------------------------------------------------------------

PayoutAmounts == {0} \cup Amounts

UserStep(c, u) ==
  \/ \E a \in Amounts : CreateBet(c, u, a)
  \/ \E a \in Amounts : PayBetFee(c, u, a)
  \/ \E a \in Amounts, f \in Fees : Deposit(c, u, a, f)
  \/ \E a \in Amounts, f \in Fees : Hold(c, u, a, f)
  \/ \E a \in Amounts, f \in Fees : Unhold(c, u, a, f)
  \/ \E a \in Amounts, f, g, p \in Fees : Withdraw(c, u, a, f, g, p)
  \/ \E a \in Amounts, i \in Isolation : AddReward(c, u, a, i)
  \/ \E a \in Amounts : AddNft(c, u, a)
  \/ \E a \in Amounts : RemoveNft(c, u, a)

Next ==
  \E c \in Calls :
    \/ \E u \in Users : UserStep(c, u)
    \/ \E p \in [Users -> PayoutAmounts], f \in Fees : GiveRewards(c, p, f)
    \/ Commit(c)
    \/ CommitRewards(c)
    \/ Rollback(c)

Spec == Init /\ [][Next]_vars

-----------------------------------------------------------------------------
(* Properties *)

\* No operation ever builds a journal that JournalService.save would refuse:
\* a withdrawal whose network fee differs from the held one included.
JournalsBalanced ==
  \A c \in Calls : IsSingle(c) => CheckIsBalanced(call[c].journal)

\* The Balance row, which is what every check reads and the user sees, agrees
\* with the sum of the entries, unless a stale READ COMMITTED write hit it.
BalanceMatchesEntries ==
  \A u \in Users : u \notin raced => balance[u] = total[u]

\* Nobody spends money they do not have: leaving aside what the removal of an
\* NFT takes back, the entries of an account never sum below zero, unless a
\* stale write hit its row.
NoOverdraft ==
  \A u \in Users : u \notin raced => total[u] >= -removed[u]

\* A payout of a game is never lost or doubled by a concurrent operation: the
\* gap between row and entries moves only when a READ COMMITTED transaction
\* whose snapshot is out of date commits.
Gap(u) == balance[u] - total[u]

StaleCommit(c, u) ==
  /\ IsSingle(c)
  /\ call[c].user = u
  /\ call[c].isolation = ReadCommitted
  /\ ~call[c].fresh
  /\ call'[c] = Idle

GapMovesOnlyByStaleCommit ==
  [][\A u \in Users : Gap(u)' # Gap(u) => \E c \in Calls : StaleCommit(c, u)]_vars

\* The entries of the accounts behave as UserFunds says: of a user whose
\* transactions never overlapped, money arrives, is spent as far as it goes,
\* and is taken back with an NFT.
Funds == INSTANCE UserFunds
           WITH funds <- total, takenBack <- removed, suspect <- raced

ImplementsUserFunds == Funds!FSpec

\* What the check of the balance promises: a bet, a fee or a hold is refused
\* when the user cannot pay for it.
SpendsOnlyWhatUserHas == \A u \in Users : total[u] >= -removed[u]
=============================================================================
