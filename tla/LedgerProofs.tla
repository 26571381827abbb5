---------------------------- MODULE LedgerProofs ----------------------------
(***************************************************************************)
(* Proofs about Ledger, for every set of users, of open transactions, of   *)
(* amounts and of fees; and about Settlement, the journals of the games    *)
(* that it books, for all stakes, rules and prices.                        *)
(***************************************************************************)
EXTENDS Ledger, Settlement, FiniteSetTheorems, WellFoundedInduction, TLAPS

\* What is true of every open transaction of one user: its journal balances,
\* its in-memory balance was changed by what its journal says, and, as long
\* as the row was not written since, what it read is what the row holds; only
\* the removal of an NFT may take more than there was.
CallConsistent(r) ==
  /\ CheckIsBalanced(r.journal)
  /\ r.delta = r.journal.user
  /\ r.fresh => r.seen = balance[r.user]
  /\ r.op # "removeNft" /\ r.delta < 0 => r.seen + r.delta >= 0
  /\ r.op = "removeNft" => r.delta < 0 /\ r.isolation = Snapshot

CallsConsistent == \A c \in Calls : IsSingle(c) => CallConsistent(call[c])

\* The inductive invariant.  Neither BalanceMatchesEntries nor NoOverdraft is
\* inductive alone: both are decided when a transaction reads and broken when
\* it commits.
LedgerInv ==
  /\ TypeOK
  /\ CallsConsistent
  /\ BalanceMatchesEntries
  /\ NoOverdraft

-----------------------------------------------------------------------------
(* The journals *)

\* Each operation's journal is balanced, and moves the user's account by what
\* the operation adds to or takes from the in-memory balance.
LEMMA CreateBetBalances ==
  ASSUME NEW a \in Int
  PROVE  /\ CreateBetJournal(a) \in Journal
         /\ CheckIsBalanced(CreateBetJournal(a))
         /\ CreateBetJournal(a).user = -a
<1> QED
  BY DEF CreateBetJournal, Journal, CheckIsBalanced

LEMMA PayBetFeeBalances ==
  ASSUME NEW a \in Int
  PROVE  /\ PayBetFeeJournal(a) \in Journal
         /\ CheckIsBalanced(PayBetFeeJournal(a))
         /\ PayBetFeeJournal(a).user = -a
<1> QED
  BY DEF PayBetFeeJournal, Journal, CheckIsBalanced

LEMMA HoldBalances ==
  ASSUME NEW a \in Int
  PROVE  /\ HoldJournal(a) \in Journal
         /\ CheckIsBalanced(HoldJournal(a))
         /\ HoldJournal(a).user = -a
<1> QED
  BY DEF HoldJournal, Journal, CheckIsBalanced

LEMMA BonusRemovedBalances ==
  ASSUME NEW a \in Int
  PROVE  /\ BonusRemovedJournal(a) \in Journal
         /\ CheckIsBalanced(BonusRemovedJournal(a))
         /\ BonusRemovedJournal(a).user = -a
<1> QED
  BY DEF BonusRemovedJournal, Journal, CheckIsBalanced

LEMMA DepositBalances ==
  ASSUME NEW a \in Int, NEW f \in Int
  PROVE  /\ DepositJournal(a, f) \in Journal
         /\ CheckIsBalanced(DepositJournal(a, f))
         /\ DepositJournal(a, f).user = a
<1> QED
  BY DEF DepositJournal, Journal, CheckIsBalanced

LEMMA UnholdBalances ==
  ASSUME NEW a \in Int
  PROVE  /\ UnholdJournal(a) \in Journal
         /\ CheckIsBalanced(UnholdJournal(a))
         /\ UnholdJournal(a).user = a
<1> QED
  BY DEF UnholdJournal, Journal, CheckIsBalanced

LEMMA BonusBalances ==
  ASSUME NEW a \in Int
  PROVE  /\ BonusJournal(a) \in Journal
         /\ CheckIsBalanced(BonusJournal(a))
         /\ BonusJournal(a).user = a
<1> QED
  BY DEF BonusJournal, Journal, CheckIsBalanced

\* A withdrawal balances whichever of the two network fees is larger.
LEMMA WithdrawBalances ==
  ASSUME NEW a \in Int, NEW h \in Int, NEW n \in Int, NEW p \in Int
  PROVE  /\ WithdrawJournal(a, h, n, p) \in Journal
         /\ CheckIsBalanced(WithdrawJournal(a, h, n, p))
         /\ WithdrawJournal(a, h, n, p).user = UnholdAmount(h, n)
<1> QED
  BY DEF WithdrawJournal, Journal, CheckIsBalanced, UnholdAmount,
         FeeShortfall

-----------------------------------------------------------------------------
(* The steps *)

LEMMA InitInv == ASSUME Init PROVE LedgerInv
  BY BoundAssumption
     DEF Init, LedgerInv, TypeOK, CallsConsistent, BalanceMatchesEntries,
         NoOverdraft, IsSingle, SingleOps, Idle, Books

\* Any operation that opens a transaction with a balanced journal, having made
\* sure the row covers what it takes.
LEMMA BeginInv ==
  ASSUME LedgerInv,
         NEW c \in Calls, NEW op \in SingleOps, NEW u \in Users,
         NEW j \in Journal, NEW d \in Int, NEW i \in Isolation,
         CheckIsBalanced(j), d = j.user,
         op # "removeNft" /\ d < 0 => balance[u] + d >= 0,
         op = "removeNft" => d < 0 /\ i = Snapshot,
         Begin(c, op, u, j, d, i)
  PROVE  LedgerInv'
<1> DEFINE r == [op |-> op, user |-> u, journal |-> j, delta |-> d,
                 seen |-> balance[u], isolation |-> i, fresh |-> TRUE]
<1>1. r \in SingleCall
  BY DEF LedgerInv, TypeOK, SingleCall
<1>2. call' = [call EXCEPT ![c] = r]
  BY DEF Begin
<1>3. UNCHANGED <<balance, total, hold, books, removed, raced, commits>>
  BY DEF Begin
<1>4. TypeOK'
  BY <1>1, <1>2, <1>3 DEF LedgerInv, TypeOK
<1>5. CallsConsistent'
  <2> SUFFICES ASSUME NEW d1 \in Calls, IsSingle(d1)'
               PROVE  CallConsistent(call[d1])'
    BY DEF CallsConsistent
  <2>1. CASE d1 = c
    BY <1>2, <1>3, <2>1 DEF LedgerInv, TypeOK, CallConsistent
  <2>2. CASE d1 # c
    BY <1>2, <1>3, <2>2
       DEF LedgerInv, TypeOK, CallsConsistent, CallConsistent, IsSingle
  <2> QED BY <2>1, <2>2
<1>6. BalanceMatchesEntries' /\ NoOverdraft'
  BY <1>3 DEF LedgerInv, BalanceMatchesEntries, NoOverdraft
<1> QED BY <1>4, <1>5, <1>6 DEF LedgerInv

\* The operations of one user: each checks the balance before it takes money.
LEMMA UserStepInv ==
  ASSUME LedgerInv, NEW c \in Calls, NEW u \in Users, UserStep(c, u)
  PROVE  LedgerInv'
<1> USE AmountsAssumption, FeesAssumption
<1>0. balance \in [Users -> Int]
  BY DEF LedgerInv, TypeOK
<1>1. ASSUME NEW a \in Amounts, CreateBet(c, u, a)
      PROVE  LedgerInv'
  BY <1>0, <1>1, CreateBetBalances, BeginInv
     DEF CreateBet, HasEnough, SingleOps, Isolation
<1>2. ASSUME NEW a \in Amounts, PayBetFee(c, u, a)
      PROVE  LedgerInv'
  BY <1>0, <1>2, PayBetFeeBalances, BeginInv
     DEF PayBetFee, HasEnough, SingleOps, Isolation
<1>3. ASSUME NEW a \in Amounts, NEW f \in Fees, Deposit(c, u, a, f)
      PROVE  LedgerInv'
  BY <1>3, DepositBalances, BeginInv DEF Deposit, SingleOps, Isolation
<1>4. ASSUME NEW a \in Amounts, NEW f \in Fees, Hold(c, u, a, f)
      PROVE  LedgerInv'
  <2>1. a + f \in Int
    OBVIOUS
  <2> QED BY <1>0, <1>4, <2>1, HoldBalances, BeginInv
          DEF Hold, HasEnough, SingleOps, Isolation
<1>5. ASSUME NEW a \in Amounts, NEW f \in Fees, Unhold(c, u, a, f)
      PROVE  LedgerInv'
  <2>1. a + f \in Int /\ ~(a + f < 0)
    OBVIOUS
  <2> QED BY <1>5, <2>1, UnholdBalances, BeginInv
          DEF Unhold, SingleOps, Isolation
<1>6. ASSUME NEW a \in Amounts, NEW f \in Fees, NEW g \in Fees, NEW p \in Fees,
             Withdraw(c, u, a, f, g, p)
      PROVE  LedgerInv'
  <2>1. /\ WithdrawJournal(a, f, g, p) \in Journal
        /\ CheckIsBalanced(WithdrawJournal(a, f, g, p))
        /\ WithdrawJournal(a, f, g, p).user = UnholdAmount(f, g)
        /\ UnholdAmount(f, g) \in Int /\ ~(UnholdAmount(f, g) < 0)
    BY WithdrawBalances DEF UnholdAmount
  <2> QED BY <1>6, <2>1, BeginInv DEF Withdraw, SingleOps, Isolation
<1>7. ASSUME NEW a \in Amounts, NEW i \in Isolation, AddReward(c, u, a, i)
      PROVE  LedgerInv'
  BY <1>7, BonusBalances, BeginInv DEF AddReward, SingleOps
<1>8. ASSUME NEW a \in Amounts, AddNft(c, u, a)
      PROVE  LedgerInv'
  BY <1>8, BonusBalances, BeginInv DEF AddNft, SingleOps, Isolation
<1>9. ASSUME NEW a \in Amounts, RemoveNft(c, u, a)
      PROVE  LedgerInv'
  BY <1>9, BonusRemovedBalances, BeginInv DEF RemoveNft, SingleOps, Isolation
<1> QED BY <1>1, <1>2, <1>3, <1>4, <1>5, <1>6, <1>7, <1>8, <1>9 DEF UserStep

LEMMA GiveRewardsInv ==
  ASSUME LedgerInv, NEW c \in Calls, NEW p \in [Users -> PayoutAmounts],
         NEW f \in Fees, GiveRewards(c, p, f)
  PROVE  LedgerInv'
<1>1. PICK stakes \in 0..books.bets :
        call' = [call EXCEPT ![c] =
          [op |-> "giveRewards", payout |-> p, fee |-> f, stakes |-> stakes,
           isolation |-> Snapshot, fresh |-> TRUE]]
  BY DEF GiveRewards
<1>2. UNCHANGED <<balance, total, hold, books, removed, raced, commits>>
  BY DEF GiveRewards
<1>3. p \in [Users -> Nat] /\ f \in Nat /\ stakes \in Nat
  <2>1. PayoutAmounts \subseteq Nat
    BY AmountsAssumption DEF PayoutAmounts
  <2>2. books.bets \in Int
    BY DEF LedgerInv, TypeOK, Books
  <2>3. stakes \in Nat
    BY <2>2
  <2> QED BY <2>1, <2>3, FeesAssumption
<1>4. TypeOK'
  BY <1>1, <1>2, <1>3 DEF LedgerInv, TypeOK, RewardsCall
<1>5. CallsConsistent'
  BY <1>1, <1>2
     DEF LedgerInv, TypeOK, CallsConsistent, CallConsistent, IsSingle, SingleOps
<1>6. BalanceMatchesEntries' /\ NoOverdraft'
  BY <1>2 DEF LedgerInv, BalanceMatchesEntries, NoOverdraft
<1> QED BY <1>4, <1>5, <1>6 DEF LedgerInv

LEMMA RollbackInv ==
  ASSUME LedgerInv, NEW c \in Calls, Rollback(c)
  PROVE  LedgerInv'
<1>1. call' = [call EXCEPT ![c] = Idle]
  BY DEF Rollback
<1>2. UNCHANGED <<balance, total, hold, books, removed, raced, commits>>
  BY DEF Rollback
<1>3. TypeOK'
  BY <1>1, <1>2 DEF LedgerInv, TypeOK
<1>4. CallsConsistent'
  BY <1>1, <1>2
     DEF LedgerInv, TypeOK, CallsConsistent, CallConsistent, IsSingle,
         SingleOps, Idle
<1>5. BalanceMatchesEntries' /\ NoOverdraft'
  BY <1>2 DEF LedgerInv, BalanceMatchesEntries, NoOverdraft
<1> QED BY <1>3, <1>4, <1>5 DEF LedgerInv

-----------------------------------------------------------------------------
(* Commits *)

\* After a commit every other transaction is as it was, except that those
\* which share a row with it are no longer fresh.
LEMMA OutdateType ==
  ASSUME TypeOK, NEW rows, NEW c \in Calls
  PROVE  /\ Outdate(rows, c) \in [Calls -> SingleCall \cup RewardsCall \cup {Idle}]
         /\ Outdate(rows, c)[c] = Idle
         /\ \A d \in Calls \ {c} :
              \/ Outdate(rows, c)[d] = call[d]
              \/ Outdate(rows, c)[d] = [call[d] EXCEPT !.fresh = FALSE]
<1>1. \A d \in Calls : IsOpen(d) =>
        [call[d] EXCEPT !.fresh = FALSE] \in SingleCall \cup RewardsCall
  <2> SUFFICES ASSUME NEW d \in Calls, IsOpen(d)
               PROVE  [call[d] EXCEPT !.fresh = FALSE] \in SingleCall \cup RewardsCall
    OBVIOUS
  <2>1. call[d] \in SingleCall \/ call[d] \in RewardsCall
    BY DEF TypeOK, IsOpen, Idle
  <2>2. CASE call[d] \in SingleCall
    BY <2>2 DEF SingleCall
  <2>3. CASE call[d] \in RewardsCall
    BY <2>3 DEF RewardsCall
  <2> QED BY <2>1, <2>2, <2>3
<1> QED BY <1>1 DEF Outdate, TypeOK

\* Transactions that are open after a commit on these rows are consistent: the
\* ones that read another row, because nothing changed for them, the others,
\* because they are no longer fresh.
LEMMA OutdateConsistent ==
  ASSUME LedgerInv, NEW rows \in SUBSET Users, NEW c \in Calls,
         call' = Outdate(rows, c),
         \A u \in Users \ rows : balance'[u] = balance[u]
  PROVE  CallsConsistent'
<1> SUFFICES ASSUME NEW d \in Calls, IsSingle(d)'
             PROVE  CallConsistent(call[d])'
  BY DEF CallsConsistent
<1>1. d # c
  BY OutdateType DEF LedgerInv, IsSingle, SingleOps, Idle
<1>2. call[d] \in SingleCall \cup RewardsCall \cup {Idle}
  BY DEF LedgerInv, TypeOK
<1>3. CASE IsOpen(d) /\ Rows(call[d]) \cap rows # {}
  <2>1. call'[d] = [call[d] EXCEPT !.fresh = FALSE]
    BY <1>1, <1>3 DEF Outdate
  <2>2. call[d] \in SingleCall
    <3>1. call[d] \notin RewardsCall
      BY <2>1 DEF RewardsCall, IsSingle, SingleOps
    <3>2. call[d] # Idle
      BY <1>3 DEF IsOpen, Idle
    <3> QED BY <1>2, <3>1, <3>2
  <2>3. /\ call'[d].op = call[d].op
        /\ call'[d].journal = call[d].journal
        /\ call'[d].delta = call[d].delta
        /\ call'[d].seen = call[d].seen
        /\ call'[d].isolation = call[d].isolation
        /\ call'[d].fresh = FALSE
    BY <2>1, <2>2 DEF SingleCall
  <2>4. CallConsistent(call[d])
    BY <2>2 DEF LedgerInv, CallsConsistent, IsSingle, SingleCall
  <2> QED BY <2>3, <2>4 DEF CallConsistent, CheckIsBalanced
<1>4. CASE ~(IsOpen(d) /\ Rows(call[d]) \cap rows # {})
  <2>1. call'[d] = call[d]
    BY <1>1, <1>4 DEF Outdate
  <2>2. call[d] \in SingleCall
    BY <1>2, <2>1 DEF RewardsCall, IsSingle, SingleOps, Idle
  <2>3. call[d].user \in Users \ rows
    BY <1>4, <2>2 DEF SingleCall, SingleOps, IsOpen, Rows
  <2>4. balance'[call[d].user] = balance[call[d].user]
    BY <2>3
  <2>5. CallConsistent(call[d])
    BY <2>2 DEF LedgerInv, CallsConsistent, IsSingle, SingleCall
  <2> QED BY <2>1, <2>4, <2>5 DEF CallConsistent
<1> QED BY <1>3, <1>4

\* The commit of one user's transaction.  Fresh, it adds to the row what it
\* adds to the entries; stale, it makes the user one of the raced.
LEMMA CommitInv ==
  ASSUME LedgerInv, NEW c \in Calls, Commit(c)
  PROVE  LedgerInv'
<1> DEFINE r == call[c]
           u == call[c].user
<1>1. r \in SingleCall
  BY DEF LedgerInv, TypeOK, Commit, IsSingle, SingleOps, RewardsCall, Idle
<1>2. CallConsistent(r)
  BY DEF LedgerInv, CallsConsistent, Commit
<1>3. /\ u \in Users /\ r.journal \in Journal /\ r.delta \in Int
      /\ r.seen \in Int /\ r.fresh \in BOOLEAN /\ r.op \in SingleOps
      /\ r.journal.user \in Int /\ r.journal.hold \in Int
  BY <1>1 DEF SingleCall, Journal
<1>4. /\ balance \in [Users -> Int] /\ total \in [Users -> Int]
      /\ hold \in [Users -> Int] /\ removed \in [Users -> Nat]
      /\ raced \subseteq Users /\ books \in Books
  BY DEF LedgerInv, TypeOK
<1>5. /\ balance' = [balance EXCEPT ![u] = r.seen + r.delta]
      /\ total' = [total EXCEPT ![u] = @ + r.journal.user]
      /\ hold' = [hold EXCEPT ![u] = @ + r.journal.hold]
      /\ removed' = IF r.op = "removeNft"
                    THEN [removed EXCEPT ![u] = @ - r.journal.user]
                    ELSE removed
      /\ raced' = IF r.fresh THEN raced ELSE raced \cup {u}
      /\ call' = Outdate({u}, c)
  BY DEF Commit
<1>6. TypeOK'
  <2>1. books' \in Books
    BY <1>3, <1>4 DEF Commit, Post, Books, Journal
  <2>2. removed' \in [Users -> Nat]
    BY <1>2, <1>3, <1>4, <1>5 DEF CallConsistent
  <2>3. commits' \in 0..MaxCommits
    BY BoundAssumption DEF LedgerInv, TypeOK, Commit
  <2>4. call' \in [Calls -> SingleCall \cup RewardsCall \cup {Idle}]
    BY <1>5, OutdateType DEF LedgerInv
  <2>5. balance' \in [Users -> Int] /\ total' \in [Users -> Int]
    BY <1>3, <1>4, <1>5
  <2>6. hold' \in [Users -> Int] /\ raced' \subseteq Users
    BY <1>3, <1>4, <1>5
  <2> QED BY <2>1, <2>2, <2>3, <2>4, <2>5, <2>6 DEF TypeOK
<1>7. CallsConsistent'
  BY <1>3, <1>4, <1>5, OutdateConsistent
<1>8. BalanceMatchesEntries'
  BY <1>2, <1>3, <1>4, <1>5
     DEF LedgerInv, BalanceMatchesEntries, CallConsistent
<1>9. NoOverdraft'
  <2> SUFFICES ASSUME NEW v \in Users, v \notin raced'
               PROVE  total'[v] >= -removed'[v]
    BY DEF NoOverdraft
  <2>1. total[v] >= -removed[v] /\ balance[v] = total[v]
    BY <1>5 DEF LedgerInv, NoOverdraft, BalanceMatchesEntries
  <2>2. CASE v # u
    BY <1>3, <1>4, <1>5, <2>1, <2>2
  <2>3. CASE v = u /\ r.op = "removeNft"
    BY <1>2, <1>3, <1>4, <1>5, <2>1, <2>3 DEF CallConsistent
  <2>4. CASE v = u /\ r.op # "removeNft"
    <3>1. r.fresh /\ r.seen = total[v] /\ r.delta = r.journal.user
      BY <1>2, <1>3, <1>5, <2>1, <2>4 DEF CallConsistent
    <3>2. total'[v] = total[v] + r.delta /\ removed'[v] = removed[v]
      BY <1>3, <1>4, <1>5, <2>4, <3>1
    <3>3. r.delta < 0 => total[v] + r.delta >= 0
      BY <1>2, <2>4, <3>1 DEF CallConsistent
    <3> QED BY <1>3, <1>4, <2>1, <3>2, <3>3
  <2> QED BY <2>2, <2>3, <2>4
<1> QED BY <1>6, <1>7, <1>8, <1>9 DEF LedgerInv

\* The commit of a payout adds the same to row and entries of every player.
LEMMA CommitRewardsInv ==
  ASSUME LedgerInv, NEW c \in Calls, CommitRewards(c)
  PROVE  LedgerInv'
<1> DEFINE r == call[c]
<1>1. r \in RewardsCall
  BY DEF LedgerInv, TypeOK, CommitRewards, IsRewards, SingleCall, SingleOps, Idle
<1>2. /\ r.payout \in [Users -> Nat] /\ r.fee \in Nat /\ r.stakes \in Nat
      /\ r.op = "giveRewards"
  BY <1>1 DEF RewardsCall
<1>3. /\ balance \in [Users -> Int] /\ total \in [Users -> Int]
      /\ removed \in [Users -> Nat] /\ books \in Books
  BY DEF LedgerInv, TypeOK
<1>4. /\ balance' = [u \in Users |-> balance[u] + r.payout[u]]
      /\ total' = [u \in Users |-> total[u] + r.payout[u]]
      /\ call' = Outdate(Rows(r), c)
      /\ UNCHANGED <<hold, removed, raced>>
  BY DEF CommitRewards
<1>5. TypeOK'
  <2>1. books' \in Books
    BY <1>2, <1>3 DEF CommitRewards, Post, GameResolveJournal, Books
  <2>2. commits' \in 0..MaxCommits
    BY BoundAssumption DEF LedgerInv, TypeOK, CommitRewards
  <2>3. call' \in [Calls -> SingleCall \cup RewardsCall \cup {Idle}]
    BY <1>4, OutdateType DEF LedgerInv
  <2> QED BY <1>2, <1>3, <1>4, <2>1, <2>2, <2>3 DEF LedgerInv, TypeOK
<1>6. CallsConsistent'
  <2>1. Rows(r) = {u \in Users : r.payout[u] > 0}
    BY <1>2 DEF Rows
  <2>2. \A u \in Users \ Rows(r) : balance'[u] = balance[u]
    BY <1>2, <1>3, <1>4, <2>1
  <2> QED BY <1>4, <2>1, <2>2, OutdateConsistent
<1>7. BalanceMatchesEntries' /\ NoOverdraft'
  BY <1>2, <1>3, <1>4 DEF LedgerInv, BalanceMatchesEntries, NoOverdraft
<1> QED BY <1>5, <1>6, <1>7 DEF LedgerInv

LEMMA StutterInv ==
  ASSUME LedgerInv, UNCHANGED vars
  PROVE  LedgerInv'
BY DEF LedgerInv, vars, TypeOK, CallsConsistent, CallConsistent, IsSingle,
       BalanceMatchesEntries, NoOverdraft

LEMMA NextInv ==
  ASSUME LedgerInv, [Next]_vars
  PROVE  LedgerInv'
<1>1. CASE UNCHANGED vars
  BY <1>1, StutterInv
<1>2. ASSUME NEW c \in Calls, NEW u \in Users, UserStep(c, u)
      PROVE  LedgerInv'
  BY <1>2, UserStepInv
<1>3. ASSUME NEW c \in Calls, NEW p \in [Users -> PayoutAmounts], NEW f \in Fees,
             GiveRewards(c, p, f)
      PROVE  LedgerInv'
  BY <1>3, GiveRewardsInv
<1>4. ASSUME NEW c \in Calls, Commit(c)
      PROVE  LedgerInv'
  BY <1>4, CommitInv
<1>5. ASSUME NEW c \in Calls, CommitRewards(c)
      PROVE  LedgerInv'
  BY <1>5, CommitRewardsInv
<1>6. ASSUME NEW c \in Calls, Rollback(c)
      PROVE  LedgerInv'
  BY <1>6, RollbackInv
<1> QED BY <1>1, <1>2, <1>3, <1>4, <1>5, <1>6 DEF Next

-----------------------------------------------------------------------------
(* Theorems *)

\* The inductive invariant holds in every reachable state.
THEOREM LedgerInvariant == Spec => []LedgerInv
<1>1. Init => LedgerInv
  BY InitInv
<1>2. LedgerInv /\ [Next]_vars => LedgerInv'
  BY NextInv
<1> QED BY <1>1, <1>2, PTL DEF Spec

\* Every variable keeps its type.
THEOREM LedgerTyped == Spec => []TypeOK
<1>1. LedgerInv => TypeOK
  BY DEF LedgerInv
<1> QED BY <1>1, LedgerInvariant, PTL

\* The row of a user and the entries of their account agree unless a stale
\* write hit the row.
THEOREM BalanceCorrect == Spec => []BalanceMatchesEntries
<1>1. LedgerInv => BalanceMatchesEntries
  BY DEF LedgerInv
<1> QED BY <1>1, LedgerInvariant, PTL

\* No user spends money they do not have unless a stale write hit their row.
THEOREM FundsCorrect == Spec => []NoOverdraft
<1>1. LedgerInv => NoOverdraft
  BY DEF LedgerInv
<1> QED BY <1>1, LedgerInvariant, PTL

\* JournalService.save never has to refuse a journal.
THEOREM JournalsCorrect == Spec => []JournalsBalanced
<1>1. LedgerInv => JournalsBalanced
  BY DEF LedgerInv, CallsConsistent, CallConsistent, JournalsBalanced
<1> QED BY <1>1, LedgerInvariant, PTL

\* Opening a transaction changes nothing that is committed.
LEMMA UserStepReads ==
  ASSUME NEW c \in Calls, NEW u \in Users, UserStep(c, u)
  PROVE  UNCHANGED <<balance, total, hold, books, removed, raced, commits>>
<1> DEFINE U == UNCHANGED <<balance, total, hold, books, removed, raced, commits>>
<1>1. ASSUME NEW op, NEW j, NEW d, NEW i, Begin(c, op, u, j, d, i)
      PROVE  U
  BY <1>1 DEF Begin
<1>2. (\E a \in Amounts : CreateBet(c, u, a)) => U
  BY <1>1 DEF CreateBet
<1>3. (\E a \in Amounts : PayBetFee(c, u, a)) => U
  BY <1>1 DEF PayBetFee
<1>4. (\E a \in Amounts, f \in Fees : Deposit(c, u, a, f)) => U
  BY <1>1 DEF Deposit
<1>5. (\E a \in Amounts, f \in Fees : Hold(c, u, a, f)) => U
  BY <1>1 DEF Hold
<1>6. (\E a \in Amounts, f \in Fees : Unhold(c, u, a, f)) => U
  BY <1>1 DEF Unhold
<1>7. (\E a \in Amounts, f, g, p \in Fees : Withdraw(c, u, a, f, g, p)) => U
  BY <1>1 DEF Withdraw
<1>8. (\E a \in Amounts, i \in Isolation : AddReward(c, u, a, i)) => U
  BY <1>1 DEF AddReward
<1>9. (\E a \in Amounts : AddNft(c, u, a)) => U
  BY <1>1 DEF AddNft
<1>10. (\E a \in Amounts : RemoveNft(c, u, a)) => U
  BY <1>1 DEF RemoveNft
<1> QED BY <1>2, <1>3, <1>4, <1>5, <1>6, <1>7, <1>8, <1>9, <1>10 DEF UserStep

\* Only a READ COMMITTED transaction that is out of date can move the row of a
\* user away from the entries: payouts of games never do.
THEOREM GapTheorem == Spec => GapMovesOnlyByStaleCommit
<1> DEFINE A == \A u \in Users :
                  Gap(u)' # Gap(u) => \E c \in Calls : StaleCommit(c, u)
<1>1. LedgerInv /\ [Next]_vars => [A]_vars
  <2> SUFFICES ASSUME LedgerInv, Next, NEW u \in Users, Gap(u)' # Gap(u)
               PROVE  \E c \in Calls : StaleCommit(c, u)
    BY DEF vars
  <2>1. balance \in [Users -> Int] /\ total \in [Users -> Int]
    BY DEF LedgerInv, TypeOK
  <2>2. ~UNCHANGED <<balance, total>>
    BY DEF Gap
  <2>3. ASSUME NEW c \in Calls, NEW v \in Users, UserStep(c, v)
        PROVE  FALSE
    BY <2>2, <2>3, UserStepReads
  <2>4. ASSUME NEW c \in Calls, NEW p \in [Users -> PayoutAmounts],
               NEW f \in Fees, GiveRewards(c, p, f)
        PROVE  FALSE
    BY <2>2, <2>4 DEF GiveRewards
  <2>5. ASSUME NEW c \in Calls, Rollback(c)
        PROVE  FALSE
    BY <2>2, <2>5 DEF Rollback
  <2>6. ASSUME NEW c \in Calls, CommitRewards(c)
        PROVE  FALSE
    <3>1. call[c] \in RewardsCall
      BY <2>6 DEF LedgerInv, TypeOK, CommitRewards, IsRewards, SingleCall,
                  SingleOps, Idle
    <3>2. call[c].payout[u] \in Int
      BY <3>1 DEF RewardsCall
    <3>3. /\ balance'[u] = balance[u] + call[c].payout[u]
          /\ total'[u] = total[u] + call[c].payout[u]
      BY <2>6 DEF CommitRewards
    <3> QED BY <2>1, <3>2, <3>3 DEF Gap
  <2>7. ASSUME NEW c \in Calls, Commit(c)
        PROVE  StaleCommit(c, u)
    <3>1. call[c] \in SingleCall
      BY <2>7 DEF LedgerInv, TypeOK, Commit, IsSingle, SingleOps, RewardsCall,
                  Idle
    <3>2. CallConsistent(call[c])
      BY <2>7 DEF LedgerInv, CallsConsistent, Commit
    <3>3. /\ call[c].seen \in Int /\ call[c].delta \in Int
          /\ call[c].user \in Users /\ call[c].isolation \in Isolation
      BY <3>1 DEF SingleCall
    <3>4. /\ balance' = [balance EXCEPT ![call[c].user] =
                            call[c].seen + call[c].delta]
          /\ total' = [total EXCEPT ![call[c].user] =
                          @ + call[c].journal.user]
          /\ call[c].isolation = Snapshot => call[c].fresh
          /\ call' = Outdate({call[c].user}, c)
      BY <2>7 DEF Commit
    <3>5. call[c].user = u
      BY <2>1, <3>3, <3>4 DEF Gap
    <3>6. ~call[c].fresh
      BY <2>1, <3>2, <3>3, <3>4, <3>5 DEF Gap, CallConsistent
    <3>7. call'[c] = Idle
      BY <3>4, OutdateType DEF LedgerInv
    <3> QED BY <2>7, <3>3, <3>4, <3>5, <3>6, <3>7
            DEF StaleCommit, Commit, Isolation
  <2> QED BY <2>3, <2>4, <2>5, <2>6, <2>7 DEF Next
<1> QED BY <1>1, LedgerInvariant, PTL DEF Spec, GapMovesOnlyByStaleCommit

\* A committing transaction of one user is a step of UserFunds: money arrives,
\* is spent, is taken back, or the user becomes suspect.
LEMMA CommitSimulates ==
  ASSUME LedgerInv, NEW c \in Calls, Commit(c)
  PROVE  [Funds!FNext]_<<total, removed, raced>>
<1> DEFINE r == call[c]
           u == call[c].user
           d == call[c].delta
<1>1. call[c] \in SingleCall
  BY DEF LedgerInv, TypeOK, Commit, IsSingle, SingleOps, RewardsCall, Idle
<1>2. CallConsistent(call[c])
  BY DEF LedgerInv, CallsConsistent, Commit
<1>3. /\ r.seen \in Int /\ d \in Int /\ u \in Users
      /\ r.fresh \in BOOLEAN
  BY <1>1 DEF SingleCall
<1>4. /\ total \in [Users -> Int] /\ balance \in [Users -> Int]
      /\ removed \in [Users -> Nat]
  BY DEF LedgerInv, TypeOK
<1>5. /\ total' = [total EXCEPT ![u] = @ + d]
      /\ removed' = IF r.op = "removeNft"
                    THEN [removed EXCEPT ![u] = @ - d] ELSE removed
      /\ raced' = IF r.fresh THEN raced ELSE raced \cup {u}
  BY <1>2 DEF Commit, CallConsistent
<1>6. total'[u] = total[u] + d
  BY <1>3, <1>4, <1>5
<1>7. Funds!OnlyFundsOf(u)
  BY <1>3, <1>4, <1>5 DEF Funds!OnlyFundsOf
<1>8. CASE r.op = "removeNft" /\ r.fresh
  <2>1. d < 0
    BY <1>2, <1>8 DEF CallConsistent
  <2>2. removed' = [removed EXCEPT ![u] = @ + (total[u] - total'[u])]
    <3>1. total[u] - total'[u] = -d
      BY <1>3, <1>4, <1>6
    <3>2. removed[u] - d = removed[u] + (total[u] - total'[u])
      BY <1>3, <1>4, <3>1
    <3> QED BY <1>5, <1>8, <3>2
  <2>3. total'[u] < total[u]
    BY <1>3, <1>4, <1>6, <2>1
  <2> QED BY <1>3, <1>5, <1>7, <1>8, <2>2, <2>3
          DEF Funds!FNext, Funds!TakeBack
<1>9. CASE r.op # "removeNft" /\ r.fresh /\ d >= 0
  <2>1. \A v \in Users : total'[v] >= total[v]
    BY <1>3, <1>4, <1>5, <1>9
  <2> QED BY <1>5, <1>9, <2>1 DEF Funds!FNext, Funds!Receive
<1>10. CASE r.op # "removeNft" /\ r.fresh /\ d < 0
  <2>1. balance[u] + d >= 0
    BY <1>2, <1>10 DEF CallConsistent
  <2>2. u \notin raced => total'[u] >= 0
    BY <1>3, <1>4, <1>6, <2>1 DEF LedgerInv, BalanceMatchesEntries
  <2>3. total'[u] < total[u]
    BY <1>3, <1>4, <1>6, <1>10
  <2> QED BY <1>3, <1>5, <1>7, <1>10, <2>2, <2>3
          DEF Funds!FNext, Funds!Spend
<1>11. CASE ~r.fresh
  <2>1. r.op # "removeNft"
    BY <1>2, <1>11 DEF CallConsistent, Commit
  <2> QED BY <1>3, <1>5, <1>7, <1>11, <2>1 DEF Funds!FNext, Funds!BecomeSuspect
<1> QED BY <1>3, <1>8, <1>9, <1>10, <1>11

\* The ledger, with all its transactions, implements UserFunds.
THEOREM LedgerImplementsUserFunds == Spec => ImplementsUserFunds
<1> USE DEF Funds!fvars
<1>1. Init => Funds!FInit
  BY DEF Init, Funds!FInit
<1>2. LedgerInv /\ [Next]_vars => [Funds!FNext]_Funds!fvars
  <2> SUFFICES ASSUME LedgerInv, [Next]_vars
               PROVE  [Funds!FNext]_<<total, removed, raced>>
    OBVIOUS
  <2>1. CASE UNCHANGED vars
    BY <2>1 DEF vars
  <2>2. ASSUME NEW c \in Calls, NEW u \in Users, UserStep(c, u)
        PROVE  UNCHANGED <<total, removed, raced>>
    BY <2>2, UserStepReads
  <2>3. ASSUME NEW c \in Calls, NEW p \in [Users -> PayoutAmounts],
               NEW f \in Fees, GiveRewards(c, p, f)
        PROVE  UNCHANGED <<total, removed, raced>>
    BY <2>3 DEF GiveRewards
  <2>4. ASSUME NEW c \in Calls, Commit(c)
        PROVE  [Funds!FNext]_<<total, removed, raced>>
    BY <2>4, CommitSimulates
  <2>5. ASSUME NEW c \in Calls, CommitRewards(c)
        PROVE  Funds!Receive
    <3>1. call[c] \in RewardsCall
      BY <2>5 DEF LedgerInv, TypeOK, CommitRewards, IsRewards, SingleCall,
                  SingleOps, Idle
    <3>2. \A v \in Users : call[c].payout[v] \in Nat
      BY <3>1 DEF RewardsCall
    <3>3. \A v \in Users : total'[v] = total[v] + call[c].payout[v]
      BY <2>5 DEF CommitRewards
    <3>4. \A v \in Users : total[v] \in Int
      BY DEF LedgerInv, TypeOK
    <3>5. \A v \in Users : total'[v] >= total[v]
      BY <3>2, <3>3, <3>4
    <3> QED BY <2>5, <3>5 DEF CommitRewards, Funds!Receive
  <2>6. ASSUME NEW c \in Calls, Rollback(c)
        PROVE  UNCHANGED <<total, removed, raced>>
    BY <2>6 DEF Rollback
  <2> QED BY <2>1, <2>2, <2>3, <2>4, <2>5, <2>6 DEF Next, Funds!FNext
<1> QED BY <1>1, <1>2, LedgerInvariant, PTL
        DEF Spec, ImplementsUserFunds, Funds!FSpec

-----------------------------------------------------------------------------
(* Sums over finite sets: what SumFunctionOnSet is, from its definition as a *)
(* fold, by the smallest set it would fail for                              *)

\* One step of a sum of the values of f, from the sums over smaller sets.
AddOne(f, G, s) ==
  IF s = {} THEN 0 ELSE f[CHOOSE x \in s : TRUE] + G[s \ {CHOOSE x \in s : TRUE}]

\* G has the sums of f over all subsets of S.
Sums(f, G, S) == G = [s \in SUBSET S |-> AddOne(f, G, s)]

\* Of the nonempty collections of subsets of a finite set one is smallest.
LEMMA Smallest ==
  ASSUME NEW S, IsFiniteSet(S), NEW T, T \subseteq SUBSET S, T # {}
  PROVE  \E X \in T : \A Y \in T : Y \subseteq X => Y = X
<1>1. T \subseteq FiniteSubsetsOf(S)
  BY FS_Subset DEF FiniteSubsetsOf
<1>2. PICK X \in T : \A Y \in T : ~(<<Y, X>> \in StrictSubsetOrdering(S))
  BY <1>1, FS_StrictSubsetOrderingWellFounded, WFMin
<1>3. ASSUME NEW Y \in T, Y \subseteq X, Y # X
      PROVE  FALSE
  <2>1. X \in SUBSET S /\ Y \in SUBSET S
    OBVIOUS
  <2>2. <<Y, X>> \in StrictSubsetOrdering(S)
    BY <1>3, <2>1 DEF StrictSubsetOrdering
  <2> QED BY <1>2, <2>2
<1> QED BY <1>3

\* There is one such G at most.
LEMMA SumsUnique ==
  ASSUME NEW f, NEW G, NEW S, IsFiniteSet(S), Sums(f, G, S),
         NEW H, NEW U, Sums(f, H, U), NEW s, s \subseteq S, s \subseteq U
  PROVE  G[s] = H[s]
<1> DEFINE T == {t \in SUBSET S : t \subseteq U /\ G[t] # H[t]}
<1> SUFFICES ASSUME T # {} PROVE FALSE
  OBVIOUS
<1>1. PICK t \in T : \A r \in T : r \subseteq t => r = t
  <2> HIDE DEF T
  <2>1. T \subseteq SUBSET S
    BY DEF T
  <2> QED BY <2>1, Smallest
<1>2. t \subseteq S /\ t \subseteq U /\ G[t] # H[t]
  BY <1>1
<1>3. G[t] = AddOne(f, G, t) /\ H[t] = AddOne(f, H, t)
  <2>1. G = [r \in SUBSET S |-> AddOne(f, G, r)] /\ H = [r \in SUBSET U |-> AddOne(f, H, r)]
    BY DEF Sums
  <2> HIDE DEF T
  <2> QED BY <1>2, <2>1, Zenon
<1>4. t # {}
  BY <1>2, <1>3 DEF AddOne
<1> DEFINE x == CHOOSE y \in t : TRUE
<1>5. x \in t
  BY <1>4
<1> HIDE DEF x
<1>6. t \ {x} \notin T
  BY <1>1, <1>5
<1>7. G[t \ {x}] = H[t \ {x}]
  BY <1>2, <1>6
<1> QED BY <1>2, <1>3, <1>4, <1>7 DEF AddOne, x

\* There is one for every finite set.
LEMMA SumsExist ==
  ASSUME NEW f, NEW S, IsFiniteSet(S)
  PROVE  \E G : Sums(f, G, S)
<1> DEFINE T == {A \in SUBSET S : ~\E G : Sums(f, G, A)}
<1> SUFFICES ASSUME T # {} PROVE FALSE
  OBVIOUS
<1>1. PICK A \in T : \A B \in T : B \subseteq A => B = A
  <2> HIDE DEF T
  <2>1. T \subseteq SUBSET S
    BY DEF T
  <2> QED BY <2>1, Smallest
<1>2. A \subseteq S /\ IsFiniteSet(A)
  BY <1>1, FS_Subset
<1> DEFINE V(B) == CHOOSE G : Sums(f, G, B)
<1>3. ASSUME NEW B, B \subseteq A, B # A
      PROVE  Sums(f, V(B), B) /\ IsFiniteSet(B)
  <2>1. \E G : Sums(f, G, B)
    BY <1>1, <1>2, <1>3
  <2>2. IsFiniteSet(B)
    BY <1>2, <1>3, FS_Subset
  <2> QED BY <2>1, <2>2
<1> HIDE DEF V, T
<1> DEFINE W == [s \in SUBSET A |-> V(s)[s]]
           G == [s \in SUBSET A |-> AddOne(f, W, s)]
<1>4. ASSUME NEW s, s \subseteq A, s # A
      PROVE  G[s] = W[s]
  <2>1. Sums(f, V(s), s) /\ IsFiniteSet(s)
    BY <1>3, <1>4
  <2>2. V(s)[s] = AddOne(f, V(s), s)
    BY <2>1 DEF Sums
  <2>3. W[s] = V(s)[s] /\ G[s] = AddOne(f, W, s)
    BY <1>4
  <2>4. CASE s = {}
    BY <2>2, <2>3, <2>4 DEF AddOne
  <2>5. CASE s # {}
    <3> DEFINE x == CHOOSE y \in s : TRUE
               r == s \ {x}
    <3>1. x \in s
      BY <2>5
    <3> HIDE DEF x
    <3>2. r \subseteq s /\ r \subseteq A /\ r # A
      BY <1>4, <3>1
    <3> HIDE DEF r
    <3>3. Sums(f, V(r), r)
      BY <1>3, <3>2
    <3>4. V(s)[r] = V(r)[r]
      BY <2>1, <3>2, <3>3, SumsUnique
    <3>5. W[r] = V(r)[r]
      BY <3>2
    <3> HIDE DEF W, G
    <3> QED BY <2>2, <2>3, <2>5, <3>4, <3>5 DEF AddOne, x, r
  <2> QED BY <2>4, <2>5
<1>5. ASSUME NEW s, s \subseteq A
      PROVE  AddOne(f, W, s) = AddOne(f, G, s)
  <2>1. CASE s = {}
    BY <2>1 DEF AddOne
  <2>2. CASE s # {}
    <3> DEFINE x == CHOOSE y \in s : TRUE
               r == s \ {x}
    <3>1. x \in s
      BY <2>2
    <3> HIDE DEF x
    <3>2. r \subseteq A /\ r # A
      BY <1>5, <3>1
    <3>3. G[r] = W[r]
      BY <1>4, <3>2
    <3> HIDE DEF W, G
    <3> QED BY <2>2, <3>3 DEF AddOne, x
  <2> QED BY <2>1, <2>2
<1>6. Sums(f, G, A)
  <2>1. G = [s \in SUBSET A |-> AddOne(f, G, s)]
    BY <1>5
  <2> HIDE DEF G
  <2> QED BY <2>1 DEF Sums
<1> QED BY <1>1, <1>6 DEF T

\* The sum over a set is one of its values and the sum over the others.
LEMMA SumStep ==
  ASSUME NEW f, NEW S, IsFiniteSet(S)
  PROVE  SumFunctionOnSet(f, S) =
           IF S = {} THEN 0
           ELSE f[CHOOSE x \in S : TRUE]
                  + SumFunctionOnSet(f, S \ {CHOOSE x \in S : TRUE})
<1> DEFINE V(B) == CHOOSE G : Sums(f, G, B)
<1>1. ASSUME NEW B, IsFiniteSet(B)
      PROVE  Sums(f, V(B), B) /\ SumFunctionOnSet(f, B) = V(B)[B]
  <2>1. Sums(f, V(B), B)
    BY <1>1, SumsExist
  <2>2. SumFunctionOnSet(f, B) = V(B)[B]
    BY DEF SumFunctionOnSet, FoldFunctionOnSet, MapThenFoldSet, Sums, AddOne
  <2> QED BY <2>1, <2>2
<1>2. CASE S = {}
  <2> HIDE DEF V
  <2>1. Sums(f, V(S), S) /\ SumFunctionOnSet(f, S) = V(S)[S]
    BY <1>1
  <2>2. V(S)[S] = AddOne(f, V(S), S)
    BY <2>1 DEF Sums
  <2> QED BY <1>2, <2>1, <2>2 DEF AddOne
<1>3. CASE S # {}
  <2> DEFINE x == CHOOSE y \in S : TRUE
             R == S \ {x}
  <2>1. x \in S
    BY <1>3
  <2> HIDE DEF x
  <2>2. R \subseteq S /\ IsFiniteSet(R)
    BY FS_Subset
  <2> HIDE DEF R, V
  <2>3. /\ Sums(f, V(S), S) /\ SumFunctionOnSet(f, S) = V(S)[S]
        /\ Sums(f, V(R), R) /\ SumFunctionOnSet(f, R) = V(R)[R]
    BY <1>1, <2>2
  <2>4. V(S)[R] = V(R)[R]
    BY <2>2, <2>3, SumsUnique
  <2>5. V(S)[S] = f[x] + V(S)[R]
    BY <1>3, <2>3 DEF Sums, AddOne, x, R
  <2> QED BY <1>3, <2>3, <2>4, <2>5 DEF x, R
<1> QED BY <1>2, <1>3

\* The sum of numbers is a number, and any of them may be added last.
LEMMA SumRemove ==
  ASSUME NEW f, NEW S, IsFiniteSet(S), \A x \in S : f[x] \in Int
  PROVE  /\ SumFunctionOnSet(f, S) \in Int
         /\ \A y \in S : SumFunctionOnSet(f, S) = f[y] + SumFunctionOnSet(f, S \ {y})
         /\ SumFunctionOnSet(f, {}) = 0
<1> DEFINE Sum(A) == SumFunctionOnSet(f, A)
           Good(A) == Sum(A) \in Int /\ \A y \in A : Sum(A) = f[y] + Sum(A \ {y})
           T == {A \in SUBSET S : ~Good(A)}
<1>0. Sum({}) = 0
  BY SumStep, FS_EmptySet
<1>1. ASSUME T # {}
      PROVE  FALSE
  <2>1. PICK A \in T : \A B \in T : B \subseteq A => B = A
    <3>1. T \subseteq SUBSET S
      OBVIOUS
    <3> HIDE DEF T
    <3> QED BY <1>1, <3>1, Smallest
  <2>2. A \subseteq S /\ IsFiniteSet(A) /\ ~Good(A)
    BY <2>1, FS_Subset
  <2>3. \A B : B \subseteq A /\ B # A => Good(B)
    BY <2>1, <2>2
  <2>4. A # {}
    <3> SUFFICES ASSUME A = {} PROVE FALSE
      OBVIOUS
    <3>1. Sum(A) \in Int
      BY <1>0
    <3> QED BY <2>2, <3>1
  <2> DEFINE x == CHOOSE y \in A : TRUE
  <2>5. x \in A /\ f[x] \in Int
    BY <2>2, <2>4
  <2>6. Sum(A) = f[x] + Sum(A \ {x})
    BY <2>2, <2>4, SumStep
  <2> HIDE DEF x, T, Sum
  <2>7. Good(A \ {x})
    BY <2>3, <2>5
  <2>8. Sum(A) \in Int
    BY <2>5, <2>6, <2>7
  <2>9. ASSUME NEW y \in A, y # x
        PROVE  Sum(A) = f[y] + Sum(A \ {y})
    <3>1. Good(A \ {y})
      BY <2>3
    <3>2. Sum(A \ {x}) = f[y] + Sum((A \ {x}) \ {y})
      BY <2>7, <2>9
    <3>3. Sum(A \ {y}) = f[x] + Sum((A \ {y}) \ {x})
      BY <2>5, <2>9, <3>1
    <3>4. (A \ {x}) \ {y} = (A \ {y}) \ {x}
      OBVIOUS
    <3>5. Good((A \ {x}) \ {y})
      BY <2>3, <2>5
    <3>6. f[y] \in Int /\ Sum((A \ {x}) \ {y}) \in Int
      BY <2>2, <3>5
    <3> DEFINE a == Sum(A \ {x})
               b == Sum(A \ {y})
               c == Sum((A \ {x}) \ {y})
    <3>7. a = f[y] + c /\ b = f[x] + c
      BY <3>2, <3>3, <3>4
    <3> HIDE DEF a, b, c
    <3>8. Sum(A) = f[x] + a /\ c \in Int
      BY <2>6, <3>6 DEF a, c
    <3>9. f[x] + a = f[y] + b
      BY <2>5, <3>6, <3>7, <3>8
    <3> QED BY <3>8, <3>9 DEF b
  <2> QED BY <2>2, <2>6, <2>8, <2>9
<1>2. Good(S)
  BY <1>1
<1> QED BY <1>0, <1>2

\* The sum depends on the values it adds, and on nothing else.
LEMMA SumSame ==
  ASSUME NEW f, NEW g, NEW S, IsFiniteSet(S), \A x \in S : f[x] \in Int /\ g[x] = f[x]
  PROVE  SumFunctionOnSet(g, S) = SumFunctionOnSet(f, S)
<1> DEFINE T == {A \in SUBSET S : SumFunctionOnSet(g, A) # SumFunctionOnSet(f, A)}
<1> SUFFICES ASSUME T # {} PROVE FALSE
  OBVIOUS
<1>1. PICK A \in T : \A B \in T : B \subseteq A => B = A
  <2>1. T \subseteq SUBSET S
    OBVIOUS
  <2> HIDE DEF T
  <2> QED BY <2>1, Smallest
<1>2. A \subseteq S /\ IsFiniteSet(A) /\ SumFunctionOnSet(g, A) # SumFunctionOnSet(f, A)
  BY <1>1, FS_Subset
<1>3. A # {}
  BY <1>2, SumStep
<1> DEFINE x == CHOOSE y \in A : TRUE
<1>4. x \in A
  BY <1>3
<1>5. /\ SumFunctionOnSet(f, A) = f[x] + SumFunctionOnSet(f, A \ {x})
      /\ SumFunctionOnSet(g, A) = g[x] + SumFunctionOnSet(g, A \ {x})
  BY <1>2, <1>3, SumStep
<1> HIDE DEF x
<1>6. SumFunctionOnSet(g, A \ {x}) = SumFunctionOnSet(f, A \ {x})
  BY <1>1, <1>4
<1> QED BY <1>2, <1>4, <1>5, <1>6

\* The sum of zeros.
LEMMA SumZero ==
  ASSUME NEW S, IsFiniteSet(S), NEW f, \A x \in S : f[x] = 0
  PROVE  SumFunctionOnSet(f, S) = 0
<1> DEFINE T == {A \in SUBSET S : SumFunctionOnSet(f, A) # 0}
<1> SUFFICES ASSUME T # {} PROVE FALSE
  OBVIOUS
<1>1. PICK A \in T : \A B \in T : B \subseteq A => B = A
  <2>1. T \subseteq SUBSET S
    OBVIOUS
  <2> HIDE DEF T
  <2> QED BY <2>1, Smallest
<1>2. A \subseteq S /\ IsFiniteSet(A) /\ SumFunctionOnSet(f, A) # 0
  BY <1>1, FS_Subset
<1>3. A # {}
  BY <1>2, SumStep
<1> DEFINE x == CHOOSE y \in A : TRUE
<1>4. x \in A
  BY <1>3
<1>5. SumFunctionOnSet(f, A) = f[x] + SumFunctionOnSet(f, A \ {x})
  BY <1>2, <1>3, SumStep
<1> HIDE DEF x
<1>6. SumFunctionOnSet(f, A \ {x}) = 0
  BY <1>1, <1>4
<1> QED BY <1>2, <1>4, <1>5, <1>6

\* A weighted inequality of the values carries over to the sums.
LEMMA SumLinear ==
  ASSUME NEW S, IsFiniteSet(S), NEW f, NEW g, NEW h,
         NEW w \in Int, NEW p \in Int, NEW q \in Int,
         \A x \in S : /\ f[x] \in Int /\ g[x] \in Int /\ h[x] \in Int
                      /\ w * f[x] <= p * g[x] + q * h[x]
  PROVE  w * SumFunctionOnSet(f, S)
           <= p * SumFunctionOnSet(g, S) + q * SumFunctionOnSet(h, S)
<1> DEFINE Holds(A) == w * SumFunctionOnSet(f, A)
                         <= p * SumFunctionOnSet(g, A) + q * SumFunctionOnSet(h, A)
           T == {A \in SUBSET S : ~Holds(A)}
<1> SUFFICES ASSUME T # {} PROVE FALSE
  OBVIOUS
<1>1. PICK A \in T : \A B \in T : B \subseteq A => B = A
  <2>1. T \subseteq SUBSET S
    OBVIOUS
  <2> HIDE DEF T
  <2> QED BY <2>1, Smallest
<1>2. A \subseteq S /\ IsFiniteSet(A) /\ ~Holds(A)
  BY <1>1, FS_Subset
<1>3. A # {}
  <2> SUFFICES ASSUME A = {} PROVE FALSE
    OBVIOUS
  <2>1. /\ SumFunctionOnSet(f, A) = 0 /\ SumFunctionOnSet(g, A) = 0
        /\ SumFunctionOnSet(h, A) = 0
    BY <1>2, SumStep
  <2> QED BY <1>2, <2>1
<1>4. PICK x : x \in A
  BY <1>3
<1> DEFINE R == A \ {x}
<1>5. IsFiniteSet(R) /\ R \subseteq S /\ x \in S
  BY <1>2, <1>4, FS_Subset
<1>6. Holds(R)
  BY <1>1, <1>4
<1>7. /\ SumFunctionOnSet(f, A) = f[x] + SumFunctionOnSet(f, R)
      /\ SumFunctionOnSet(g, A) = g[x] + SumFunctionOnSet(g, R)
      /\ SumFunctionOnSet(h, A) = h[x] + SumFunctionOnSet(h, R)
  <2>1. ASSUME NEW k, \A y \in S : k[y] \in Int
        PROVE  SumFunctionOnSet(k, A) = k[x] + SumFunctionOnSet(k, R)
    <3> HIDE DEF T
    <3>1. \A y \in A : k[y] \in Int
      BY <1>2, <2>1
    <3> QED BY <1>2, <1>4, <3>1, SumRemove
  <2>2. /\ \A y \in S : f[y] \in Int
        /\ \A y \in S : g[y] \in Int
        /\ \A y \in S : h[y] \in Int
    OBVIOUS
  <2> QED BY <2>1, <2>2
<1>8. /\ SumFunctionOnSet(f, R) \in Int /\ SumFunctionOnSet(g, R) \in Int
      /\ SumFunctionOnSet(h, R) \in Int
  BY <1>5, SumRemove
<1>9. w * f[x] <= p * g[x] + q * h[x] /\ f[x] \in Int /\ g[x] \in Int /\ h[x] \in Int
  BY <1>5
<1> DEFINE a == SumFunctionOnSet(f, R)
           b == SumFunctionOnSet(g, R)
           c == SumFunctionOnSet(h, R)
<1>10. w * (f[x] + a) <= p * (g[x] + b) + q * (h[x] + c)
  <2>1. w * a <= p * b + q * c /\ a \in Int /\ b \in Int /\ c \in Int
    BY <1>6, <1>8
  <2> HIDE DEF a, b, c
  <2>2. /\ w * (f[x] + a) = w * f[x] + w * a
        /\ p * (g[x] + b) = p * g[x] + p * b
        /\ q * (h[x] + c) = q * h[x] + q * c
    BY <1>9, <2>1
  <2>3. /\ w * f[x] \in Int /\ w * a \in Int /\ p * g[x] \in Int /\ p * b \in Int
        /\ q * h[x] \in Int /\ q * c \in Int
    BY <1>9, <2>1
  <2> QED BY <1>9, <2>1, <2>2, <2>3
<1> QED BY <1>2, <1>7, <1>10

-----------------------------------------------------------------------------
(* What the games pay *)

\* What is stored is the number itself, to half a unit.
LEMMA RoundedNat ==
  ASSUME NEW num \in Nat, NEW den \in Nat \ {0}
  PROVE  /\ Rounded(num, den) \in Nat
         /\ 2 * (den * Rounded(num, den)) <= 2 * num + den
         /\ 2 * num <= 2 * (den * Rounded(num, den)) + den
<1> DEFINE q == num \div den
           r == num % den
<1>1. q \in Nat /\ r \in Nat /\ r < den /\ num = den * q + r
  OBVIOUS
<1>2. Rounded(num, den) = q + (IF 2 * r >= den THEN 1 ELSE 0)
  BY DEF Rounded
<1> HIDE DEF q, r
<1>3. CASE 2 * r >= den
  <2>1. Rounded(num, den) = q + 1
    BY <1>2, <1>3
  <2>2. den * (q + 1) = den * q + den /\ den * q \in Int
    BY <1>1
  <2> QED BY <1>1, <1>3, <2>1, <2>2
<1>4. CASE ~(2 * r >= den)
  <2>1. Rounded(num, den) = q
    BY <1>1, <1>2, <1>4
  <2>2. den * q \in Int
    BY <1>1
  <2> QED BY <1>1, <1>4, <2>1, <2>2
<1> QED BY <1>3, <1>4

\* A loss is rounded as the gain of as much.
LEMMA RoundedLoss ==
  ASSUME NEW num \in Nat \ {0}, NEW den \in Nat \ {0}
  PROVE  Rounded(-num, den) = -Rounded(num, den)
BY DEF Rounded

\* What a winner gets, with the fee, is his part of the prize to a unit.
LEMMA StoredIsShare ==
  ASSUME NEW s \in Nat, NEW won \in Nat \ {0}, NEW lost \in Nat
  PROVE  LET x == Stored(s, won, lost).pnl + Stored(s, won, lost).fee
         IN /\ Stored(s, won, lost) \in Row /\ Prize(lost) \in Nat /\ x \in Nat
            /\ won * x <= Prize(lost) * s + won
            /\ Prize(lost) * s <= won * x + won
<1> DEFINE p == Prize(lost)
           f == FeeOf(p)
           a == Rounded((p - f) * s, won)
           b == Rounded(f * s, won)
<1>1. p \in Nat
  BY DEF Prize, Dollar, FeeOf
<1> HIDE DEF p
<1>2. f \in Nat /\ p - f \in Nat
  BY <1>1 DEF FeeOf
<1>3. Stored(s, won, lost) = [pnl |-> a, fee |-> b]
  BY DEF Stored, p
<1> HIDE DEF f
<1>4. (p - f) * s \in Nat /\ f * s \in Nat /\ p * s \in Nat /\ (p - f) * s + f * s = p * s
  BY <1>1, <1>2
<1>5. a \in Nat /\ 2 * (won * a) <= 2 * ((p - f) * s) + won
      /\ 2 * ((p - f) * s) <= 2 * (won * a) + won
  BY <1>4, RoundedNat
<1>6. b \in Nat /\ 2 * (won * b) <= 2 * (f * s) + won /\ 2 * (f * s) <= 2 * (won * b) + won
  BY <1>4, RoundedNat
<1> HIDE DEF a, b
<1>7. won * (a + b) = won * a + won * b /\ won * a \in Nat /\ won * b \in Nat
  BY <1>5, <1>6
<1>8. won * (a + b) <= p * s + won /\ p * s <= won * (a + b) + won
  BY <1>4, <1>5, <1>6, <1>7
<1>9. /\ Stored(s, won, lost).pnl = a /\ Stored(s, won, lost).fee = b
      /\ Stored(s, won, lost) \in Row
  BY <1>3, <1>5, <1>6 DEF Row
<1> QED BY <1>1, <1>5, <1>6, <1>8, <1>9 DEF p

\* The dollars and the bets on a side are numbers, and no bet is of nothing.
LEMMA PoolTyped ==
  ASSUME bets \in [Sides -> [Stakes -> Nat]], NEW side \in Sides
  PROVE  /\ Pool(side) \in Nat /\ Count(side) \in Nat
         /\ Count(side) <= Pool(side)
<1> DEFINE f == bets[side]
           g == [s \in Stakes |-> s * bets[side][s]]
           z == [s \in Stakes |-> 0]
<1>1. /\ Count(side) = SumFunctionOnSet(f, Stakes)
      /\ Pool(side) = SumFunctionOnSet(g, Stakes)
  <2>1. f \in [Stakes -> Nat]
    OBVIOUS
  <2>2. DOMAIN f = Stakes /\ DOMAIN g = Stakes
    BY <2>1
  <2> QED BY <2>2 DEF Count, Pool, SumFunction
<1>2. \A s \in Stakes : f[s] \in Nat /\ s \in Nat \ {0} /\ g[s] = s * f[s] /\ z[s] = 0
  BY StakesAssumption
<1> HIDE DEF f, g, z
<1>3. \A s \in Stakes : f[s] \in Nat /\ g[s] \in Nat /\ f[s] <= g[s] /\ z[s] = 0
  <2> TAKE s \in Stakes
  <2>1. f[s] \in Nat /\ s \in Nat /\ s >= 1 /\ g[s] = s * f[s] /\ z[s] = 0
    BY <1>2
  <2>2. s * f[s] \in Nat /\ f[s] <= s * f[s]
    BY <2>1
  <2> QED BY <2>1, <2>2
<1>4. \A s \in Stakes : f[s] \in Int /\ g[s] \in Int /\ z[s] \in Int
  BY <1>3
<1>5. IsFiniteSet(Stakes)
  BY StakesAssumption
<1> DEFINE F == SumFunctionOnSet(f, Stakes)
           G == SumFunctionOnSet(g, Stakes)
           Z == SumFunctionOnSet(z, Stakes)
<1>6. F \in Int /\ G \in Int /\ Z = 0
  <2>1. F \in Int
    BY <1>4, <1>5, SumRemove
  <2>2. G \in Int
    BY <1>4, <1>5, SumRemove
  <2>3. Z = 0
    BY <1>3, <1>5, SumZero
  <2> QED BY <2>1, <2>2, <2>3
<1>7. 1 * F <= 1 * G + 0 * Z
  <2>1. \A s \in Stakes : 1 * f[s] <= 1 * g[s] + 0 * z[s]
    BY <1>3
  <2> QED BY <1>4, <1>5, <2>1, SumLinear
<1>8. 1 * Z <= 1 * F + 0 * Z
  <2>1. \A s \in Stakes : 1 * z[s] <= 1 * f[s] + 0 * z[s]
    BY <1>3
  <2> QED BY <1>4, <1>5, <2>1, SumLinear
<1> HIDE DEF F, G, Z
<1>9. F <= G /\ 0 <= F
  BY <1>6, <1>7, <1>8
<1> QED BY <1>1, <1>6, <1>9 DEF F, G

\* What the rules of a game are.
LEMMA RulesTyped ==
  ASSUME rules \in Rules
  PROVE  /\ rules.kind \in AllKinds
         /\ rules.kind = "updown" => rules.start \in Prices
         /\ IsSetup => /\ rules.isLong \in BOOLEAN /\ rules.start \in Prices
                       /\ rules.takeProfit \in Prices /\ rules.stopLoss \in Prices
                       /\ IsAbove(rules.takeProfit, rules.start, rules.isLong)
                       /\ IsAbove(rules.start, rules.stopLoss, rules.isLong)
         /\ IsX1000 =>
              /\ rules.isLong \in BOOLEAN /\ rules.start \in Prices
              /\ rules.takeProfit \in 0 .. MaxPrice /\ rules.stopLoss \in 0 .. MaxPrice
              /\ rules.takeProfit # 0 =>
                   IsAbove(rules.takeProfit, rules.start, rules.isLong)
              /\ rules.stopLoss # 0 =>
                   IsAbove(rules.start, rules.stopLoss, rules.isLong)
              /\ rules.multiplier \in 1 .. 1000 /\ rules.pnlFee \in BOOLEAN
         /\ rules.kind = "onevsone" => rules.isLong \in BOOLEAN /\ rules.start \in Prices
         /\ rules.kind = "exact" => rules.guess \in [Sides -> Prices]
<1>1. CASE rules \in UpDownRules
  <2>1. rules.kind = "updown" /\ rules.start \in Prices
    BY <1>1 DEF UpDownRules
  <2> QED BY <2>1 DEF AllKinds, IsSetup, IsX1000
<1>2. CASE rules \in SetupRules
  <2>1. /\ rules.kind = "setup" /\ rules.isLong \in BOOLEAN /\ rules.start \in Prices
        /\ rules.takeProfit \in Prices /\ rules.stopLoss \in Prices
    BY <1>2 DEF SetupRules
  <2>2. /\ IsAbove(rules.takeProfit, rules.start, rules.isLong)
        /\ IsAbove(rules.start, rules.stopLoss, rules.isLong)
    BY <1>2 DEF SetupRules
  <2> QED BY <2>1, <2>2 DEF AllKinds, IsSetup, IsX1000
<1>3. CASE rules \in X1000Rules
  <2>1. /\ rules.kind = "x1000" /\ rules.isLong \in BOOLEAN /\ rules.start \in Prices
        /\ rules.pnlFee \in BOOLEAN
    BY <1>3 DEF X1000Rules
  <2>2. rules.takeProfit \in 0 .. MaxPrice /\ rules.stopLoss \in 0 .. MaxPrice
    BY <1>3 DEF X1000Rules
  <2>3. rules.multiplier \in 1 .. 1000
    <3>1. rules.multiplier \in Multipliers
      BY <1>3 DEF X1000Rules
    <3>2. \A m \in Multipliers : m \in 1 .. 1000
      BY MultipliersAssumption
    <3> QED BY <3>1, <3>2
  <2>4. /\ rules.takeProfit # 0 => IsAbove(rules.takeProfit, rules.start, rules.isLong)
        /\ rules.stopLoss # 0 => IsAbove(rules.start, rules.stopLoss, rules.isLong)
    BY <1>3 DEF X1000Rules
  <2> QED BY <2>1, <2>2, <2>3, <2>4 DEF AllKinds, IsSetup, IsX1000
<1>4. CASE rules \in OneVsOneRules
  <2>1. rules.kind = "onevsone" /\ rules.isLong \in BOOLEAN /\ rules.start \in Prices
    BY <1>4 DEF OneVsOneRules
  <2> QED BY <2>1 DEF AllKinds, IsSetup, IsX1000
<1>5. CASE rules \in ExactRules
  <2>1. rules.kind = "exact" /\ rules.guess \in [Sides -> Prices]
    BY <1>5 DEF ExactRules
  <2> QED BY <2>1 DEF AllKinds, IsSetup, IsX1000
<1> QED BY <1>1, <1>2, <1>3, <1>4, <1>5 DEF Rules

\* The numbers of an end.
LEMMA EndsTyped ==
  ASSUME rules \in Rules, endPrice \in 0 .. MaxPrice
  PROVE  /\ endPrice \in Nat
         /\ Winner \in Sides /\ Other(Winner) \in Sides
         /\ OwnerSide \in Sides /\ Other(OwnerSide) \in Sides
         /\ IsX1000 => Move \in Int
<1>1. endPrice \in Nat
  BY MaxPriceAssumption
<1>2. OwnerSide \in Sides /\ Other(OwnerSide) \in Sides
  BY DEF OwnerSide, Other, Sides
<1>3. Winner \in Sides
  BY <1>2, RulesTyped DEF Winner, Sides, AllKinds, IsSetup, IsX1000
<1>4. Other(Winner) \in Sides
  BY DEF Other, Sides
<1>5. IsX1000 => Move \in Int
  BY <1>1, RulesTyped DEF Move, Prices
<1> QED BY <1>1, <1>2, <1>3, <1>4, <1>5

\* The price has burnt a bet when its move, multiplied, is the start price.
LEMMA BurntByMove ==
  ASSUME rules \in Rules, endPrice \in 0 .. MaxPrice, IsX1000
  PROVE  /\ rules.start \in Nat \ {0} /\ rules.multiplier \in Nat \ {0} /\ Move \in Int
         /\ rules.multiplier * Move \in Int
         /\ IsBurnt(endPrice) <=> rules.multiplier * Move <= -rules.start
<1>1. /\ rules.isLong \in BOOLEAN /\ rules.start \in Nat \ {0}
      /\ rules.multiplier \in Nat \ {0} /\ endPrice \in Nat /\ Move \in Int
  <2>1. /\ rules.isLong \in BOOLEAN /\ rules.start \in Prices
        /\ rules.multiplier \in 1 .. 1000
    BY RulesTyped
  <2>2. endPrice \in Nat /\ Move \in Int
    BY EndsTyped
  <2>3. /\ \A p \in Prices : p \in Nat \ {0}
        /\ \A m \in 1 .. 1000 : m \in Nat \ {0}
    BY MaxPriceAssumption DEF Prices
  <2>4. rules.start \in Nat \ {0}
    BY <2>1, <2>3
  <2>5. rules.multiplier \in Nat \ {0}
    <3> DEFINE m == rules.multiplier
    <3>1. m \in 1 .. 1000
      BY <2>1
    <3> HIDE DEF m
    <3>2. m \in Nat \ {0}
      BY <3>1
    <3> QED BY <3>2 DEF m
  <2> QED BY <2>1, <2>2, <2>4, <2>5, Zenon
<1> DEFINE m == rules.multiplier
           st == rules.start
           p == endPrice
<1>2. m \in Nat /\ st \in Nat /\ p \in Nat
  BY <1>1
<1>3. CASE rules.isLong
  <2>1. IsBurnt(p) <=> p * m <= st * (m - 1)
    BY <1>3 DEF IsBurnt
  <2>2. Move = p - st
    BY <1>3 DEF Move
  <2> HIDE DEF m, st, p
  <2>3. /\ m * (p - st) = p * m - st * m /\ st * (m - 1) = st * m - st
        /\ p * m \in Int /\ st * m \in Int
    BY <1>2
  <2>4. p * m <= st * (m - 1) <=> m * (p - st) <= -st
    BY <1>2, <2>3
  <2>5. m * (p - st) \in Int
    BY <1>2
  <2> QED BY <1>1, <2>1, <2>2, <2>4, <2>5 DEF m, st, p
<1>4. CASE ~rules.isLong
  <2>1. IsBurnt(p) <=> p * m >= st * (m + 1)
    BY <1>4 DEF IsBurnt
  <2>2. Move = st - p
    BY <1>4 DEF Move
  <2> HIDE DEF m, st, p
  <2>3. /\ m * (st - p) = st * m - p * m /\ st * (m + 1) = st * m + st
        /\ p * m \in Int /\ st * m \in Int
    BY <1>2
  <2>4. p * m >= st * (m + 1) <=> m * (st - p) <= -st
    BY <1>2, <2>3
  <2>5. m * (st - p) \in Int
    BY <1>2
  <2> QED BY <1>1, <2>1, <2>2, <2>4, <2>5 DEF m, st, p
<1> QED BY <1>1, <1>3, <1>4

\* A loss that is stored is no more than the stake, and it is all of the stake
\* when the price has moved by all of it.
LEMMA LossBounded ==
  ASSUME NEW t \in Nat, NEW j \in Nat, NEW st \in Nat \ {0}, j <= st,
         NEW R \in Nat, 2 * (st * R) <= 2 * (t * j) + st, 2 * (t * j) <= 2 * (st * R) + st
  PROVE  /\ R <= t
         /\ j = st => R = t
         /\ R = t => 2 * (t * (st - j)) <= st
<1>1. t * j <= t * st /\ t * j \in Int /\ t * st \in Int /\ st * R \in Int /\ st * t = t * st
  OBVIOUS
<1>2. R <= t
  <2> SUFFICES ASSUME R >= t + 1 PROVE FALSE
    OBVIOUS
  <2>1. st * R >= st * (t + 1)
    OBVIOUS
  <2>2. st * (t + 1) = st * t + st
    OBVIOUS
  <2> QED BY <1>1, <2>1, <2>2
<1>3. ASSUME j = st
      PROVE  R = t
  <2> SUFFICES ASSUME R + 1 <= t PROVE FALSE
    BY <1>2
  <2>1. st * (R + 1) <= st * t
    OBVIOUS
  <2>2. st * (R + 1) = st * R + st
    OBVIOUS
  <2>3. t * j = t * st
    BY <1>3
  <2> QED BY <1>1, <2>1, <2>2, <2>3
<1>4. ASSUME R = t
      PROVE  2 * (t * (st - j)) <= st
  <2>1. t * (st - j) = t * st - t * j
    OBVIOUS
  <2>2. st * R = t * st
    BY <1>1, <1>4
  <2> QED BY <1>1, <2>1, <2>2
<1> QED BY <1>2, <1>3, <1>4

\* What an x1000 bet gets: nothing exactly when its burn price was reached, or
\* when what the price left of it rounds to nothing.
LEMMA OutcomeX1000 ==
  ASSUME rules \in Rules, endPrice \in 0 .. MaxPrice, IsX1000, NEW s \in Nat \ {0}
  PROVE  LET o == s * Dollar + StoredX1000(s).pnl
         IN /\ StoredX1000(s) \in Row /\ o \in Nat
            /\ IsBurnt(endPrice) => o = 0
            /\ o = 0 => IsBurnt(endPrice) \/ RoundsToNothing(s)
<1> DEFINE m == rules.multiplier
           st == rules.start
           k == m * Move
           part == s * m * Move
           fee == IF rules.pnlFee /\ Move > 0 THEN FeeOf(Dollar) ELSE 0
           t == s * Dollar
<1>1. /\ st \in Nat \ {0} /\ m \in Nat \ {0} /\ Move \in Int /\ k \in Int
      /\ IsBurnt(endPrice) <=> k <= -st
  BY BurntByMove
<1>2. StoredX1000(s) = IF k < -st THEN [pnl |-> -s * Dollar, fee |-> 0]
                       ELSE [pnl |-> Rounded((Dollar - fee) * part, st),
                             fee |-> Rounded(fee * part, st)]
  BY DEF StoredX1000
<1>3. part = s * k /\ part \in Int
  BY <1>1
<1>4. fee \in Nat /\ Dollar - fee \in Nat
  BY DEF FeeOf, Dollar
<1>5. t \in Nat \ {0} /\ -s * Dollar = -t
  BY DEF Dollar
<1>6. CASE k < -st
  <2>1. StoredX1000(s) = [pnl |-> -s * Dollar, fee |-> 0]
    BY <1>2, <1>6
  <2>2. StoredX1000(s).pnl = -t /\ StoredX1000(s) \in Row
    BY <1>5, <2>1 DEF Row
  <2>3. t + StoredX1000(s).pnl = 0
    BY <1>5, <2>2
  <2>4. IsBurnt(endPrice)
    BY <1>1, <1>6
  <2> QED BY <2>2, <2>3, <2>4
<1>7. CASE k >= 0
  <2>1. (Dollar - fee) * part \in Nat /\ fee * part \in Nat
    <3>1. part \in Nat
      BY <1>1, <1>3, <1>7
    <3> HIDE DEF fee, part
    <3> QED BY <1>4, <3>1
  <2>2. Rounded((Dollar - fee) * part, st) \in Nat /\ Rounded(fee * part, st) \in Nat
    BY <1>1, <2>1, RoundedNat
  <2>3. StoredX1000(s).pnl \in Nat /\ StoredX1000(s) \in Row
    <3> HIDE DEF k, st, fee, part
    <3>1. ~(k < -st)
      BY <1>1, <1>7
    <3>2. StoredX1000(s) = [pnl |-> Rounded((Dollar - fee) * part, st),
                            fee |-> Rounded(fee * part, st)]
      BY <1>2, <3>1
    <3> QED BY <2>2, <3>2 DEF Row
  <2>4. ~IsBurnt(endPrice)
    BY <1>1, <1>7
  <2>5. t + StoredX1000(s).pnl \in Nat \ {0}
    <3> HIDE DEF t
    <3> QED BY <1>5, <2>3
  <2> QED BY <2>3, <2>4, <2>5
<1>8. CASE k >= -st /\ k < 0
  <2> DEFINE j == -k
             R == Rounded(t * j, st)
  <2>1. j \in Nat \ {0} /\ j <= st
    BY <1>1, <1>8
  <2>2. ~(Move > 0)
    BY <1>1, <1>8
  <2>3. fee = 0
    BY <2>2
  <2>4. (Dollar - fee) * part = -(t * j)
    BY <1>1, <1>3, <2>3 DEF Dollar
  <2>5. fee * part = 0
    BY <1>3, <2>3
  <2> HIDE DEF k, fee, part, st
  <2>6. t * j \in Nat \ {0}
    <3> HIDE DEF t, j
    <3> QED BY <1>5, <2>1
  <2>7. Rounded((Dollar - fee) * part, st) = -R
    BY <1>1, <2>4, <2>6, RoundedLoss
  <2>8. Rounded(fee * part, st) \in Nat
    BY <1>1, <2>5, RoundedNat
  <2>9. /\ R \in Nat /\ 2 * (st * R) <= 2 * (t * j) + st
        /\ 2 * (t * j) <= 2 * (st * R) + st
    BY <1>1, <2>6, RoundedNat
  <2>10. StoredX1000(s).pnl = -R /\ StoredX1000(s) \in Row
    <3>1. ~(k < -st)
      BY <1>1, <1>8
    <3>2. StoredX1000(s) = [pnl |-> -R, fee |-> Rounded(fee * part, st)]
      BY <1>2, <2>7, <3>1
    <3>3. -R \in Int
      BY <2>9
    <3> QED BY <2>8, <3>2, <3>3 DEF Row
  <2>11. R <= t /\ (j = st => R = t) /\ (R = t => 2 * (t * (st - j)) <= st)
    <3> HIDE DEF t, j, R
    <3> QED BY <1>1, <1>5, <2>1, <2>9, LossBounded
  <2>12. R = t => RoundsToNothing(s)
    <3>1. 2 * Dollar * s * (st + k) = 2 * (t * (st - j))
      BY <1>1 DEF Dollar
    <3> QED BY <2>11, <3>1 DEF RoundsToNothing, st, k
  <2>13. IsBurnt(endPrice) => R = t
    BY <1>1, <1>8, <2>11
  <2> HIDE DEF R, t, j
  <2>14. /\ t + StoredX1000(s).pnl \in Nat
         /\ t + StoredX1000(s).pnl = 0 <=> R = t
    BY <1>5, <2>9, <2>10, <2>11
  <2> QED BY <2>10, <2>12, <2>13, <2>14 DEF t
<1> QED BY <1>1, <1>6, <1>7, <1>8

-----------------------------------------------------------------------------
(* The invariant of the games *)

\* A price that ended a game was beyond one of its bounds.
EndedTruly ==
  endedBy = "price" =>
    /\ endPrice \in Prices
    /\ \/ IsSetup /\ IsHit(endPrice)
       \/ IsX1000 /\ \/ TakesProfit(endPrice) \/ StopsLoss(endPrice)
                     \/ IsBurnt(endPrice)

RowsOfGame ==
  [s \in Stakes |-> IF IsX1000 THEN StoredX1000(s)
                    ELSE Stored(s, Pool(Winner), Pool(Other(Winner)))]

OwnerProfitOfGame == IF IsSetup THEN Pool(Other(Winner)) * FeeOf(Dollar) ELSE 0

\* The bets, the rules and the end of a game stay what they were when it was
\* resolved, so that what was stored is what would be stored now.
ResolvedTruly ==
  result # "none" =>
    /\ endedBy # "none"
    /\ IsRejected => result = "reject"
    /\ ~IsRejected => /\ result = Winner /\ row = RowsOfGame
                      /\ ownerProfit = OwnerProfitOfGame

SettlementInv == SettlementTypeOK /\ EndedTruly /\ ResolvedTruly

\* A game for a pool that is decided has bets on both sides.
LEMMA PoolsOfDecided ==
  ASSUME SettlementTypeOK, ~IsRejected
  PROVE  /\ Winner \in Sides /\ Other(Winner) \in Sides
         /\ Pool(Winner) \in Nat /\ Pool(Other(Winner)) \in Nat
         /\ ~IsX1000 => Pool(Winner) # 0
<1>1. Winner \in Sides /\ Other(Winner) \in Sides
  BY EndsTyped DEF SettlementTypeOK
<1>2. \A side \in Sides : /\ Pool(side) \in Nat /\ Count(side) \in Nat
                          /\ Count(side) <= Pool(side)
  BY PoolTyped DEF SettlementTypeOK
<1>3. ~IsX1000 => Count(Winner) # 0
  BY <1>1 DEF IsRejected, OneSided
<1>4. Count(Winner) \in Nat /\ Count(Winner) <= Pool(Winner) /\ Pool(Winner) \in Nat
  BY <1>1, <1>2
<1>5. Pool(Other(Winner)) \in Nat
  BY <1>1, <1>2
<1>6. ~IsX1000 => Pool(Winner) # 0
  BY <1>3, <1>4
<1> QED BY <1>1, <1>4, <1>5, <1>6

\* What is stored of a game has the type of its columns.
LEMMA RowsTyped ==
  ASSUME SettlementTypeOK, ~IsRejected
  PROVE  RowsOfGame \in [Stakes -> Row] /\ OwnerProfitOfGame \in Nat
<1>1. /\ Pool(Winner) \in Nat /\ Pool(Other(Winner)) \in Nat
      /\ ~IsX1000 => Pool(Winner) # 0
  BY PoolsOfDecided
<1>2. OwnerProfitOfGame \in Nat
  BY <1>1 DEF OwnerProfitOfGame, FeeOf, Dollar
<1>3. ASSUME NEW s \in Stakes, IsX1000
      PROVE  StoredX1000(s) \in Row
  <2>1. s \in Nat \ {0}
    BY StakesAssumption
  <2>2. rules \in Rules /\ endPrice \in 0 .. MaxPrice
    BY DEF SettlementTypeOK
  <2> QED BY <1>3, <2>1, <2>2, OutcomeX1000
<1>4. ASSUME NEW s \in Stakes, ~IsX1000
      PROVE  Stored(s, Pool(Winner), Pool(Other(Winner))) \in Row
  <2>1. s \in Nat
    BY StakesAssumption
  <2>2. Pool(Winner) \in Nat \ {0}
    BY <1>1, <1>4
  <2> QED BY <1>1, <2>1, <2>2, StoredIsShare
<1>5. RowsOfGame \in [Stakes -> Row]
  BY <1>3, <1>4 DEF RowsOfGame
<1> QED BY <1>2, <1>5

LEMMA SettlementStarts ==
  ASSUME SettlementInit
  PROVE  SettlementInv
<1>1. SettlementTypeOK
  BY MaxPriceAssumption DEF SettlementInit, SettlementTypeOK, Row
<1>2. EndedTruly /\ ResolvedTruly
  BY DEF SettlementInit, EndedTruly, ResolvedTruly
<1> QED BY <1>1, <1>2 DEF SettlementInv

\* What decides a game stays the same as long as its row does.
LEMMA DecisionStays ==
  ASSUME UNCHANGED <<rules, bets, endPrice>>
  PROVE  /\ IsRejected' = IsRejected /\ Winner' = Winner /\ RowsOfGame' = RowsOfGame
         /\ OwnerProfitOfGame' = OwnerProfitOfGame
<1>1. /\ IsX1000' = IsX1000 /\ IsSetup' = IsSetup /\ Move' = Move
      /\ OwnerSide' = OwnerSide
      /\ \A side \in Sides : Distance(side)' = Distance(side)
  BY DEF IsX1000, IsSetup, Move, OwnerSide, Distance
<1>2. \A side : Pool(side)' = Pool(side) /\ Count(side)' = Count(side)
  BY DEF Pool, Count
<1>3. Winner' = Winner
  <2>1. PriceDirectionResult' = PriceDirectionResult
    BY DEF PriceDirectionResult
  <2> QED BY <1>1, <2>1 DEF Winner, Sides
<1>4. IsRejected' = IsRejected
  BY <1>1, <1>2 DEF IsRejected, OneSided, IsUndecided
<1>5. OwnerProfitOfGame' = OwnerProfitOfGame
  BY <1>1, <1>2, <1>3 DEF OwnerProfitOfGame
<1>6. ASSUME NEW s \in Stakes, NEW won, NEW lost
      PROVE  Stored(s, won, lost)' = Stored(s, won, lost)
  BY <1>1 DEF Stored, Prize
<1>7. ASSUME NEW s \in Stakes
      PROVE  StoredX1000(s)' = StoredX1000(s)
  BY <1>1 DEF StoredX1000
<1>8. RowsOfGame' = RowsOfGame
  BY <1>1, <1>2, <1>3, <1>6, <1>7 DEF RowsOfGame
<1> QED BY <1>3, <1>4, <1>5, <1>8

\* A bet comes while the game is not over.
LEMMA BetKeeps ==
  ASSUME SettlementInv, NEW side \in Sides, NEW s \in Stakes, AddBet(side, s)
  PROVE  SettlementInv'
<1>1. SettlementTypeOK /\ ResolvedTruly
  BY DEF SettlementInv
<1>2. /\ endedBy = "none" /\ bets' = [bets EXCEPT ![side][s] = @ + 1]
      /\ UNCHANGED <<rules, endPrice, endedBy, result, row, ownerProfit, journal>>
  BY DEF AddBet
<1>3. bets' \in [Sides -> [Stakes -> Nat]]
  BY <1>1, <1>2 DEF SettlementTypeOK
<1>4. SettlementTypeOK'
  BY <1>1, <1>2, <1>3 DEF SettlementTypeOK
<1>5. result' = "none" /\ endedBy' = "none"
  BY <1>1, <1>2 DEF ResolvedTruly
<1> QED BY <1>4, <1>5 DEF SettlementInv, EndedTruly, ResolvedTruly

\* A game ends once.
LEMMA EndKeeps ==
  ASSUME SettlementInv,
         \/ \E p \in Prices : EndByPrice(p)
         \/ \E p \in 0 .. MaxPrice : EndByTime(p)
  PROVE  SettlementInv'
<1>1. SettlementTypeOK /\ ResolvedTruly
  BY DEF SettlementInv
<1>2. /\ endedBy = "none" /\ endPrice' \in 0 .. MaxPrice /\ endedBy' \in {"price", "time"}
      /\ UNCHANGED <<rules, bets, result, row, ownerProfit, journal>>
  BY MaxPriceAssumption DEF EndByPrice, EndByTime, Prices
<1>3. SettlementTypeOK'
  BY <1>1, <1>2 DEF SettlementTypeOK
<1>4. result' = "none"
  BY <1>1, <1>2 DEF ResolvedTruly
<1>5. EndedTruly'
  <2>1. CASE \E p \in 0 .. MaxPrice : EndByTime(p)
    BY <2>1 DEF EndByTime, EndedTruly
  <2>2. CASE \E p \in Prices : EndByPrice(p)
    <3>1. PICK p \in Prices : EndByPrice(p)
      BY <2>2
    <3>2. /\ endPrice' = p /\ UNCHANGED rules
          /\ \/ IsSetup /\ IsHit(p)
             \/ IsX1000 /\ (TakesProfit(p) \/ StopsLoss(p) \/ IsBurnt(p))
      BY <3>1 DEF EndByPrice
    <3>3. /\ IsSetup' = IsSetup /\ IsX1000' = IsX1000
          /\ IsHit(endPrice)' = IsHit(p) /\ IsBurnt(endPrice)' = IsBurnt(p)
          /\ TakesProfit(endPrice)' = TakesProfit(p)
          /\ StopsLoss(endPrice)' = StopsLoss(p)
      BY <3>2 DEF IsSetup, IsX1000, IsHit, IsBurnt, TakesProfit, StopsLoss
    <3> QED BY <3>2, <3>3 DEF EndedTruly
  <2> QED BY <2>1, <2>2
<1> QED BY <1>3, <1>4, <1>5 DEF SettlementInv, ResolvedTruly

\* The resolution stores what the bets and the end of the game make.
LEMMA ResolveKeeps ==
  ASSUME SettlementInv, Resolve
  PROVE  SettlementInv'
<1>1. SettlementTypeOK /\ EndedTruly
  BY DEF SettlementInv
<1>2. /\ endedBy # "none"
      /\ UNCHANGED <<rules, bets, endPrice, endedBy, journal>>
  BY DEF Resolve
<1>3. /\ IsRejected' = IsRejected /\ Winner' = Winner /\ RowsOfGame' = RowsOfGame
      /\ OwnerProfitOfGame' = OwnerProfitOfGame
  BY <1>2, DecisionStays
<1>4. EndedTruly'
  <2>1. /\ IsSetup' = IsSetup /\ IsX1000' = IsX1000
        /\ IsHit(endPrice)' = IsHit(endPrice) /\ IsBurnt(endPrice)' = IsBurnt(endPrice)
        /\ TakesProfit(endPrice)' = TakesProfit(endPrice)
        /\ StopsLoss(endPrice)' = StopsLoss(endPrice)
    BY <1>2 DEF IsSetup, IsX1000, IsHit, IsBurnt, TakesProfit, StopsLoss
  <2> QED BY <1>1, <1>2, <2>1 DEF EndedTruly
<1>5. CASE IsRejected
  <2>1. result' = "reject" /\ UNCHANGED <<row, ownerProfit>>
    BY <1>5 DEF Resolve
  <2>2. SettlementTypeOK'
    BY <1>1, <1>2, <2>1 DEF SettlementTypeOK
  <2> QED BY <1>2, <1>3, <1>4, <1>5, <2>1, <2>2 DEF SettlementInv, ResolvedTruly
<1>6. CASE ~IsRejected
  <2>1. result' = Winner /\ row' = RowsOfGame /\ ownerProfit' = OwnerProfitOfGame
    BY <1>6 DEF Resolve, RowsOfGame, OwnerProfitOfGame
  <2>2. row' \in [Stakes -> Row] /\ ownerProfit' \in Nat
    BY <1>1, <1>6, <2>1, RowsTyped
  <2>3. result' \in Sides
    BY <1>1, <1>6, <2>1, PoolsOfDecided
  <2>4. SettlementTypeOK'
    BY <1>1, <1>2, <2>2, <2>3 DEF SettlementTypeOK
  <2> QED BY <1>2, <1>3, <1>4, <1>6, <2>1, <2>4 DEF SettlementInv, ResolvedTruly
<1> QED BY <1>5, <1>6

\* The payout only says that it was made.
LEMMA PayoutKeeps ==
  ASSUME SettlementInv, journal' \in {"none", "saved", "refused"},
         UNCHANGED <<rules, bets, endPrice, endedBy, result, row, ownerProfit>>
  PROVE  SettlementInv'
<1>1. SettlementTypeOK /\ EndedTruly /\ ResolvedTruly
  BY DEF SettlementInv
<1>2. SettlementTypeOK'
  BY <1>1 DEF SettlementTypeOK
<1>3. EndedTruly'
  <2>1. /\ IsSetup' = IsSetup /\ IsX1000' = IsX1000
        /\ IsHit(endPrice)' = IsHit(endPrice) /\ IsBurnt(endPrice)' = IsBurnt(endPrice)
        /\ TakesProfit(endPrice)' = TakesProfit(endPrice)
        /\ StopsLoss(endPrice)' = StopsLoss(endPrice)
    BY DEF IsSetup, IsX1000, IsHit, IsBurnt, TakesProfit, StopsLoss
  <2> QED BY <1>1, <2>1 DEF EndedTruly
<1>4. ResolvedTruly'
  BY <1>1, DecisionStays DEF ResolvedTruly
<1> QED BY <1>2, <1>3, <1>4 DEF SettlementInv

LEMMA SettlementStep ==
  ASSUME SettlementInv, [SettlementNext]_svars
  PROVE  SettlementInv'
<1>1. ASSUME NEW side \in Sides, NEW s \in Stakes, AddBet(side, s)
      PROVE  SettlementInv'
  BY <1>1, BetKeeps
<1>2. CASE \/ \E p \in Prices : EndByPrice(p)
           \/ \E p \in 0 .. MaxPrice : EndByTime(p)
  BY <1>2, EndKeeps
<1>3. CASE Resolve
  BY <1>3, ResolveKeeps
<1>4. CASE GiveGameRewards
  BY <1>4, PayoutKeeps DEF GiveGameRewards
<1>5. CASE Done \/ UNCHANGED svars
  <2>1. journal \in {"none", "saved", "refused"}
    BY DEF SettlementInv, SettlementTypeOK
  <2> QED BY <1>5, <2>1, PayoutKeeps DEF Done, svars
<1> QED BY <1>1, <1>2, <1>3, <1>4, <1>5 DEF SettlementNext

\* Settlement: a game ends by a price beyond its bounds, and what is stored of it
\* is what its bets and its end make.
THEOREM SettlementInvariant == SettlementSpec => []SettlementInv
<1>1. SettlementInit => SettlementInv
  BY SettlementStarts
<1>2. SettlementInv /\ [SettlementNext]_svars => SettlementInv'
  BY SettlementStep
<1> QED BY <1>1, <1>2, PTL DEF SettlementSpec

-----------------------------------------------------------------------------
(* What the invariant says of the money and of the price *)

\* The journal of an x1000 game gives what it takes.
LEMMA X1000Balances ==
  ASSUME SettlementInv, IsX1000
  PROVE  Surplus = 0
<1>1. \A s \in Stakes : SurplusX1000(s) = 0
  <2> TAKE s \in Stakes
  <2>1. s \in Nat
    BY StakesAssumption
  <2>2. row[s].pnl \in Int
    BY DEF SettlementInv, SettlementTypeOK, Row
  <2>3. s * Dollar \in Int
    BY <2>1 DEF Dollar
  <2>4. CASE Outcome(s) > 0
    <3>1. Outcome(s) = s * Dollar + row[s].pnl \/ Outcome(s) = 0
      BY DEF Outcome
    <3>2. SurplusX1000(s) = s * Dollar + row[s].pnl + (-row[s].pnl) - s * Dollar
      BY <2>4, <3>1 DEF SurplusX1000, FundsGain
    <3> QED BY <2>2, <2>3, <3>2
  <2>5. CASE ~(Outcome(s) > 0)
    <3>1. SurplusX1000(s) = 0 + s * Dollar - s * Dollar
      BY <2>5 DEF SurplusX1000, FundsGain
    <3> QED BY <2>3, <3>1
  <2> QED BY <2>4, <2>5
<1> DEFINE f == [s \in Stakes |-> bets["up"][s] * SurplusX1000(s)]
<1>2. Surplus = SumFunctionOnSet(f, Stakes)
  BY DEF Surplus, SumFunction
<1>3. \A s \in Stakes : bets["up"][s] \in Nat
  BY DEF SettlementInv, SettlementTypeOK, Sides
<1>4. \A s \in Stakes : f[s] = 0
  BY <1>1, <1>3
<1> HIDE DEF f
<1> QED BY <1>2, <1>4, SumZero, StakesAssumption

\* In a game for a pool each winner has his part of the prize to a unit, and
\* the parts of all winners are the prize.
LEMMA PoolBalances ==
  ASSUME SettlementInv, ~IsX1000, result \in Sides
  PROVE  Surplus \in -Winners .. Winners
<1> DEFINE won == Pool(Winner)
           lost == Pool(Other(Winner))
           n == bets[Winner]
           paid == [s \in Stakes |-> bets[result][s] * (row[s].pnl + row[s].fee)]
           stake == [s \in Stakes |-> s * bets[Winner][s]]
           F == SumFunctionOnSet(paid, Stakes)
           C == SumFunctionOnSet(n, Stakes)
           p == Prize(lost)
<1>1. SettlementTypeOK /\ result # "none" /\ result # "reject"
  BY DEF SettlementInv, Sides
<1>2. /\ ~IsRejected /\ result = Winner /\ row = RowsOfGame
      /\ ownerProfit = OwnerProfitOfGame
  BY <1>1 DEF SettlementInv, ResolvedTruly
<1>3. /\ Winner \in Sides /\ won \in Nat \ {0} /\ lost \in Nat
  BY <1>1, <1>2, PoolsOfDecided
<1>4. n \in [Stakes -> Nat]
  BY <1>1, <1>3 DEF SettlementTypeOK
<1>5. /\ Surplus = F + ownerProfit - lost * Dollar
      /\ Winners = C /\ won = SumFunctionOnSet(stake, Stakes)
  <2>1. DOMAIN n = Stakes
    BY <1>4
  <2>2. Winners = C
    BY <1>2, <2>1 DEF Winners, Count, SumFunction
  <2>3. won = SumFunctionOnSet(stake, Stakes)
    BY DEF Pool, SumFunction
  <2>4. Surplus = F + ownerProfit - lost * Dollar
    BY <1>2 DEF Surplus, SumFunction
  <2> QED BY <2>2, <2>3, <2>4
<1>6. p + ownerProfit = lost * Dollar /\ p \in Nat /\ ownerProfit \in Nat
  <2> HIDE DEF lost
  <2>1. ownerProfit = IF IsSetup THEN lost * FeeOf(Dollar) ELSE 0
    BY <1>2 DEF OwnerProfitOfGame, lost
  <2> QED BY <1>3, <2>1 DEF Prize, FeeOf, Dollar
<1>7. ASSUME NEW s \in Stakes
      PROVE  /\ paid[s] \in Nat /\ stake[s] \in Nat /\ n[s] \in Nat
             /\ won * paid[s] <= p * stake[s] + won * n[s]
             /\ p * stake[s] <= won * paid[s] + won * n[s]
  <2> DEFINE x == Stored(s, won, lost).pnl + Stored(s, won, lost).fee
             k == n[s]
  <2>1. s \in Nat
    BY StakesAssumption
  <2>2. /\ x \in Nat /\ won * x <= p * s + won /\ p * s <= won * x + won
    <3> HIDE DEF won, lost
    <3> QED BY <1>3, <2>1, StoredIsShare
  <2>3. k \in Nat
    BY <1>4
  <2>4. paid[s] = k * x /\ stake[s] = s * k
    BY <1>2 DEF RowsOfGame
  <2> HIDE DEF won, lost, x, k, p, n, paid, stake
  <2>5. /\ k * (won * x) <= k * (p * s + won) /\ k * (p * s) <= k * (won * x + won)
        /\ p * s \in Nat /\ won * x \in Nat
    <3>1. p * s \in Nat /\ won * x \in Nat
      BY <1>3, <1>6, <2>1, <2>2
    <3> DEFINE a == p * s
               b == won * x
    <3>2. a \in Nat /\ b \in Nat /\ b <= a + won /\ a <= b + won
      BY <2>2, <3>1
    <3> HIDE DEF a, b
    <3>3. k * b <= k * (a + won) /\ k * a <= k * (b + won)
      BY <1>3, <2>3, <3>2
    <3> QED BY <3>1, <3>3 DEF a, b
  <2>6. /\ k * (won * x) = won * (k * x) /\ k * (p * s) = p * (s * k)
    BY <1>3, <1>6, <2>1, <2>2, <2>3
  <2>7. /\ k * (p * s + won) = k * (p * s) + won * k
        /\ k * (won * x + won) = k * (won * x) + won * k
    BY <1>3, <2>3, <2>5
  <2>8. k * x \in Nat /\ s * k \in Nat
    BY <2>1, <2>2, <2>3
  <2>9. /\ won * (k * x) <= p * (s * k) + won * k
        /\ p * (s * k) <= won * (k * x) + won * k
    BY <2>5, <2>6, <2>7
  <2> QED BY <2>3, <2>4, <2>8, <2>9 DEF k
<1>8. IsFiniteSet(Stakes)
  BY StakesAssumption
<1> HIDE DEF won, lost, n, paid, stake, p
<1>9. \A s \in Stakes : paid[s] \in Int /\ stake[s] \in Int /\ n[s] \in Int
  BY <1>7
<1>10. won * F <= p * SumFunctionOnSet(stake, Stakes) + won * C
  <2>1. \A s \in Stakes : won * paid[s] <= p * stake[s] + won * n[s]
    BY <1>7
  <2>2. won \in Int /\ p \in Int
    BY <1>3, <1>6
  <2> QED BY <1>8, <1>9, <2>1, <2>2, SumLinear
<1>11. p * SumFunctionOnSet(stake, Stakes) <= won * F + won * C
  <2>1. \A s \in Stakes : p * stake[s] <= won * paid[s] + won * n[s]
    BY <1>7
  <2>2. won \in Int /\ p \in Int
    BY <1>3, <1>6
  <2> QED BY <1>8, <1>9, <2>1, <2>2, SumLinear
<1>12. F \in Int /\ C \in Int
  <2>1. \A s \in Stakes : paid[s] \in Int
    BY <1>9
  <2>2. \A s \in Stakes : n[s] \in Int
    BY <1>9
  <2> QED BY <1>8, <2>1, <2>2, SumRemove
<1> HIDE DEF F, C
<1>13. F <= p + C /\ p <= F + C
  <2>1. won * F <= p * won + won * C /\ p * won <= won * F + won * C
    BY <1>5, <1>10, <1>11
  <2>2. p * won + won * C = won * (p + C) /\ won * F + won * C = won * (F + C)
        /\ p * won = won * p
    BY <1>3, <1>6, <1>12
  <2>3. won * F <= won * (p + C) /\ won * p <= won * (F + C)
    BY <2>1, <2>2
  <2>4. ASSUME NEW a \in Int, NEW b \in Int, won * a <= won * b
        PROVE  a <= b
    <3> SUFFICES ASSUME b + 1 <= a PROVE FALSE
      BY <2>4
    <3>1. won * (b + 1) <= won * a
      BY <1>3
    <3>2. won * (b + 1) = won * b + won
      BY <1>3
    <3>3. won * b \in Int /\ won * a \in Int
      BY <1>3
    <3> QED BY <1>3, <2>4, <3>1, <3>2, <3>3
  <2>5. p + C \in Int /\ F + C \in Int /\ p \in Int
    BY <1>6, <1>12
  <2> QED BY <1>12, <2>3, <2>4, <2>5
<1>14. lost * Dollar \in Int
  BY <1>3 DEF Dollar
<1>15. Surplus = F - p
  BY <1>5, <1>6, <1>12, <1>14
<1> QED BY <1>5, <1>6, <1>12, <1>13, <1>15

\* Nothing is made or lost but by rounding, a unit for a winner at most: for
\* any stakes, pools and prices.
THEOREM RoundingIsAll == SettlementSpec => []OnlyRoundingIsLost
<1>1. SettlementInv => OnlyRoundingIsLost
  <2> SUFFICES ASSUME SettlementInv PROVE OnlyRoundingIsLost
    OBVIOUS
  <2>1. Winners \in Nat
    BY PoolTyped DEF Winners, SettlementInv, SettlementTypeOK
  <2>2. CASE IsX1000
    BY <2>1, <2>2, X1000Balances DEF OnlyRoundingIsLost
  <2>3. CASE ~IsX1000 /\ result \in Sides
    BY <2>3, PoolBalances DEF OnlyRoundingIsLost
  <2>4. CASE ~IsX1000 /\ result \notin Sides
    <3>1. Surplus = 0
      BY <2>4 DEF Surplus
    <3> QED BY <2>1, <3>1 DEF OnlyRoundingIsLost
  <2> QED BY <2>2, <2>3, <2>4
<1> QED BY <1>1, SettlementInvariant, PTL

\* A setup is decided by the bound that was reached.
LEMMA SetupsDecided ==
  ASSUME SettlementInv, IsSetup
  PROVE  SetupDecided
<1>1. SettlementTypeOK /\ EndedTruly /\ ResolvedTruly /\ ~IsX1000
  BY DEF SettlementInv, IsSetup, IsX1000
<1> DEFINE p == endPrice
           st == rules.start
           tp == rules.takeProfit
           sl == rules.stopLoss
<1>2. /\ p \in Nat /\ st \in Nat /\ tp \in Nat /\ sl \in Nat /\ rules.isLong \in BOOLEAN
      /\ IsAbove(tp, st, rules.isLong) /\ IsAbove(st, sl, rules.isLong)
  BY <1>1, RulesTyped, EndsTyped DEF SettlementTypeOK, Prices
<1>3. Winner = IF \/ rules.isLong /\ tp <= p
                  \/ ~rules.isLong /\ sl >= p
               THEN "up" ELSE "down"
  BY DEF Winner, PriceDirectionResult, IsSetup, IsX1000
<1>4. IsRejected <=> p = 0 \/ OneSided \/ (IsAbove(tp, p, rules.isLong) /\ IsAbove(p, sl, rules.isLong))
  BY <1>1 DEF IsRejected, IsUndecided, IsSetup
<1>5. result # "none" => IF IsRejected THEN result = "reject" ELSE result = Winner
  BY <1>1 DEF ResolvedTruly
<1>6. result = "up" => ~IsRejected /\ Winner = "up"
  BY <1>5
<1> HIDE DEF p, st, tp, sl
<1>7. result = "up" => \/ ~IsAbove(tp, p, rules.isLong)
                       \/ ~rules.isLong /\ p = sl
  <2> SUFFICES ASSUME result = "up"
               PROVE  \/ ~IsAbove(tp, p, rules.isLong)
                      \/ ~rules.isLong /\ p = sl
    OBVIOUS
  <2>1. CASE rules.isLong
    BY <1>2, <1>3, <1>6, <2>1 DEF IsAbove
  <2>2. CASE ~rules.isLong
    BY <1>2, <1>3, <1>4, <1>6, <2>2 DEF IsAbove
  <2> QED BY <2>1, <2>2
<1>8. ASSUME endedBy = "price", result # "none"
      PROVE  \/ OneSided /\ result = "reject"
             \/ result = "up" /\ IsAbove(p, st, rules.isLong)
             \/ result = "down" /\ IsAbove(st, p, rules.isLong)
  <2>1. p # 0 /\ IsHit(p)
    BY <1>1, <1>8 DEF EndedTruly, Prices, p
  <2>2. CASE OneSided
    BY <1>4, <1>5, <1>8, <2>2
  <2>3. CASE ~OneSided /\ rules.isLong
    <3>1. tp < p \/ p < sl
      BY <2>1, <2>3 DEF IsHit, tp, sl
    <3>2. ~IsRejected
      BY <1>2, <1>4, <2>1, <2>3, <3>1 DEF IsAbove
    <3>3. result = Winner
      BY <1>5, <1>8, <3>2
    <3>4. Winner = IF tp <= p THEN "up" ELSE "down"
      BY <1>3, <2>3
    <3> QED BY <1>2, <2>3, <3>1, <3>3, <3>4 DEF IsAbove
  <2>4. CASE ~OneSided /\ ~rules.isLong
    <3>1. sl < p \/ p < tp
      BY <2>1, <2>4 DEF IsHit, tp, sl
    <3>2. ~IsRejected
      BY <1>2, <1>4, <2>1, <2>4, <3>1 DEF IsAbove
    <3>3. result = Winner
      BY <1>5, <1>8, <3>2
    <3>4. Winner = IF sl >= p THEN "up" ELSE "down"
      BY <1>3, <2>4
    <3> QED BY <1>2, <2>4, <3>1, <3>3, <3>4 DEF IsAbove
  <2> QED BY <2>2, <2>3, <2>4
<1> QED BY <1>7, <1>8 DEF SetupDecided, p, st, tp, sl

\* A 1vs1 game is decided by its price, or won by the opponent of one who says
\* that it falls.
LEMMA OneVsOneIsDecided ==
  ASSUME SettlementInv, IsOneVsOne, result \in Sides
  PROVE  OneVsOneDecided
<1>1. SettlementTypeOK /\ result = Winner
  BY DEF SettlementInv, ResolvedTruly, Sides
<1>2. endPrice \in Nat /\ rules \in Rules
  BY <1>1, EndsTyped DEF SettlementTypeOK
<1>3. CASE rules.kind = "exact"
  <2>1. rules.guess \in [Sides -> Prices]
    BY <1>2, <1>3, RulesTyped
  <2>2. Distance("up") \in Int /\ Distance("down") \in Int
    BY <1>2, <2>1 DEF Distance, Sides, Prices
  <2>3. Winner = IF Distance("up") < Distance("down") THEN "up" ELSE "down"
    BY <1>3 DEF Winner, IsSetup, IsX1000
  <2>4. CASE Distance("up") < Distance("down")
    <3>1. result = "up" /\ Other(result) = "down"
      BY <1>1, <2>3, <2>4 DEF Other
    <3> QED BY <1>3, <2>2, <2>4, <3>1 DEF OneVsOneDecided
  <2>5. CASE ~(Distance("up") < Distance("down"))
    <3>1. result = "down" /\ Other(result) = "up"
      BY <1>1, <2>3, <2>5 DEF Other
    <3> QED BY <1>3, <2>2, <2>5, <3>1 DEF OneVsOneDecided
  <2> QED BY <2>4, <2>5
<1>4. CASE rules.kind = "onevsone"
  <2>1. rules.isLong \in BOOLEAN
    BY <1>2, <1>4, RulesTyped
  <2>2. Winner = IF endPrice > rules.start /\ rules.isLong
                 THEN OwnerSide ELSE Other(OwnerSide)
    BY <1>4 DEF Winner, IsSetup, IsX1000
  <2>3. CASE rules.isLong
    <3>1. OwnerSide = "up" /\ Other(OwnerSide) = "down"
      BY <2>3 DEF OwnerSide, Other
    <3> QED BY <1>1, <1>4, <2>2, <2>3, <3>1 DEF OneVsOneDecided
  <2>4. CASE ~rules.isLong
    BY <1>1, <1>4, <2>2, <2>4 DEF OneVsOneDecided
  <2> QED BY <2>1, <2>3, <2>4
<1> QED BY <1>3, <1>4 DEF IsOneVsOne

\* An x1000 bet takes its profit, or loses all at its burn price and no more.
LEMMA X1000IsDecided ==
  ASSUME SettlementInv, IsX1000, result \in Sides
  PROVE  X1000Decided
<1>1. /\ SettlementTypeOK /\ EndedTruly /\ ~IsRejected /\ result = Winner
      /\ row = RowsOfGame /\ result # "reject"
  BY DEF SettlementInv, ResolvedTruly, Sides
<1>2. rules \in Rules /\ endPrice \in 0 .. MaxPrice
  BY <1>1 DEF SettlementTypeOK
<1>3. /\ rules.start \in Nat \ {0} /\ rules.multiplier \in Nat \ {0} /\ Move \in Int
      /\ IsBurnt(endPrice) <=> rules.multiplier * Move <= -rules.start
  BY <1>2, BurntByMove
<1>4. Winner = IF Move >= 0 THEN "up" ELSE "down"
  BY DEF Winner, IsSetup, IsX1000
<1>5. ASSUME NEW s \in Stakes
      PROVE  /\ Outcome(s) >= 0
             /\ IsBurnt(endPrice) => Outcome(s) = 0
             /\ Outcome(s) = 0 => IsBurnt(endPrice) \/ RoundsToNothing(s)
  <2>1. s \in Nat \ {0}
    BY StakesAssumption
  <2>2. Outcome(s) = s * Dollar + StoredX1000(s).pnl
    BY <1>1 DEF Outcome, RowsOfGame
  <2> QED BY <1>2, <2>1, <2>2, OutcomeX1000
<1>6. IsBurnt(endPrice) => Move < 0
  <2> SUFFICES ASSUME Move >= 0 PROVE ~IsBurnt(endPrice)
    BY <1>3
  <2>1. rules.multiplier * Move >= 0
    BY <1>3
  <2> QED BY <1>3, <2>1
<1>7. ASSUME endedBy = "price"
      PROVE  result = "up" <=> TakesProfit(endPrice)
  <2>1. TakesProfit(endPrice) \/ StopsLoss(endPrice) \/ IsBurnt(endPrice)
    BY <1>1, <1>7 DEF EndedTruly, IsSetup, IsX1000
  <2>2. /\ rules.isLong \in BOOLEAN /\ endPrice \in Nat
        /\ rules.takeProfit \in Nat /\ rules.stopLoss \in Nat
        /\ rules.takeProfit # 0 => IsAbove(rules.takeProfit, rules.start, rules.isLong)
        /\ rules.stopLoss # 0 => IsAbove(rules.start, rules.stopLoss, rules.isLong)
    BY <1>2, RulesTyped, EndsTyped, MaxPriceAssumption
  <2>3. CASE rules.isLong
    BY <1>1, <1>3, <1>4, <1>6, <2>1, <2>2, <2>3
    DEF TakesProfit, StopsLoss, IsAbove, Move
  <2>4. CASE ~rules.isLong
    BY <1>1, <1>3, <1>4, <1>6, <2>1, <2>2, <2>4
    DEF TakesProfit, StopsLoss, IsAbove, Move
  <2> QED BY <2>2, <2>3, <2>4
<1> QED BY <1>5, <1>7 DEF X1000Decided

\* The side that the end price says wins its game, for any rules and prices:
\* with the same price the heap, the burn price and the results agree.
THEOREM PriceIsDecisive == SettlementSpec => []PriceDecides
<1>1. SettlementInv => PriceDecides
  BY SetupsDecided, OneVsOneIsDecided, X1000IsDecided DEF PriceDecides
<1> QED BY <1>1, SettlementInvariant, PTL

\* The state of a game that is settled has its type.
THEOREM SettlementTyped == SettlementSpec => []SettlementTypeOK
BY SettlementInvariant, PTL DEF SettlementInv
=============================================================================
