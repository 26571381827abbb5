------------------------------ MODULE Payments ------------------------------
(***************************************************************************)
(* Withdrawals and deposits of apps/users: PaymentService creates the      *)
(* order, a backoffice user accepts or rejects a withdrawal, the payment   *)
(* provider moves the coins and reports by callbacks, and every change of  *)
(* status moves money in the ledger within its database transaction.       *)
(*                                                                         *)
(* PaymentOrder and PaymentTransaction are two rows written together, so   *)
(* one status stands for both.  The handler of a callback reads the status *)
(* before its transaction and then writes the rows by their ids.           *)
(*                                                                         *)
(* The provider repeats a callback until it is answered, so what it has    *)
(* posted may be handled any number of times and in any order.             *)
(***************************************************************************)
EXTENDS Integers, FiniteSets

CONSTANTS
  Withdrawals,  \* orders of type WITHDRAW of a user
  Deposits,     \* orders of type DEPOSIT of that user, of one currency
  Handlers      \* bound: requests that are handled at the same time

ASSUME OrdersAssumption == Withdrawals \cap Deposits = {}

Orders == Withdrawals \cup Deposits

VARIABLES
  status,      \* status[o] of the order and its transaction, "NONE" before
  provider,    \* provider[o]: what the provider does about it
  posted,      \* callbacks the provider has posted
  handling,    \* handling[h]: a request that read the status, or Idle
  refunds,     \* refunds[o]: times PaymentLedgerService.unhold was committed
  payouts,     \* payouts[o]: times PaymentLedgerService.withdraw was
  credits,     \* credits[o]: times PaymentLedgerService.deposit was
  raced,       \* history: orders changed while a handler had read their status
  late         \* history: withdrawals rejected after they were accepted

vars == <<status, provider, posted, handling,
          refunds, payouts, credits, raced, late>>
money == <<refunds, payouts, credits>>

Statuses == {"PENDING", "NOT_CONFIRMED", "CONFIRMED", "CANCELLED"}
Kinds == {"not_confirmed", "confirmed", "cancelled"}
Callback == [order : Orders, kind : Kinds, error : BOOLEAN]
CallbackOf(o, k, e) == [order |-> o, kind |-> k, error |-> e]
Idle == [does |-> "nothing"]
Creating == [does |-> "create"]
Handling(c) == [does |-> "handle", callback |-> c]
Request == {Idle, Creating} \cup {Handling(c) : c \in Callback}

TypeOK ==
  /\ status \in [Orders -> Statuses \cup {"NONE"}]
  /\ provider \in [Orders -> {"idle", "working", "sent", "failed"}]
  /\ posted \subseteq Callback
  /\ handling \in [Handlers -> Request]
  /\ refunds \in [Orders -> Nat]
  /\ payouts \in [Orders -> Nat]
  /\ credits \in [Orders -> Nat]
  /\ raced \subseteq Orders
  /\ late \subseteq Withdrawals

Init ==
  /\ status = [o \in Orders |-> "NONE"]
  /\ provider = [o \in Orders |-> "idle"]
  /\ posted = {}
  /\ handling = [h \in Handlers |-> Idle]
  /\ refunds = [o \in Orders |-> 0]
  /\ payouts = [o \in Orders |-> 0]
  /\ credits = [o \in Orders |-> 0]
  /\ raced = {}
  /\ late = {}

\* The handlers that have read the order and not written it yet.
ReadBy(o) == {h \in Handlers : handling[h].does = "handle"
                                 /\ handling[h].callback.order = o}

-----------------------------------------------------------------------------
(* Requests of the user and of the backoffice *)

\* The rows and the hold of amount and fees are one transaction: a balance that
\* does not cover it, or an event that is not published, leaves no order.
Withdraw(o) ==
  /\ status[o] = "NONE"
  /\ status' = [status EXCEPT ![o] = "PENDING"]
  /\ UNCHANGED <<provider, posted, handling, money, raced, late>>

\* MUTANT of AcceptWithdrawOrder: the updates are not guarded by PENDING.
AcceptUnguarded(o) ==
  /\ status[o] # "NONE"
  /\ provider[o] = "idle"
  /\ provider' = [provider EXCEPT ![o] = "working"]
  /\ UNCHANGED <<status, posted, handling, money, raced, late>>

\* The updates are guarded by PENDING and leave it so; the provider is called
\* before the commit.  An answer that fails or is lost, or the timeout of the
\* transaction, takes back the blameId alone, whether or not the provider acts.
\* The provider knows a withdrawal by its foreignId and takes it once.
AcceptWithdrawOrder(o) ==
  /\ status[o] = "PENDING"
  /\ provider[o] = "idle"
  /\ provider' = [provider EXCEPT ![o] = "working"]
  /\ UNCHANGED <<status, posted, handling, money, raced, late>>

\* One transaction, guarded by PENDING, which an accepted order still is.
RejectWithdrawOrder(o) ==
  /\ status[o] = "PENDING"
  /\ status' = [status EXCEPT ![o] = "CANCELLED"]
  /\ refunds' = [refunds EXCEPT ![o] = @ + 1]
  /\ raced' = IF ReadBy(o) # {} THEN raced \cup {o} ELSE raced
  /\ late' = IF provider[o] # "idle" THEN late \cup {o} ELSE late
  /\ UNCHANGED <<provider, posted, handling, payouts, credits>>

\* deposit returns the order of this currency that waits for its coins; it
\* makes one when it found none.
FindDeposit(h) ==
  /\ handling[h] = Idle
  /\ \A o \in Deposits : status[o] # "PENDING"
  /\ handling' = [handling EXCEPT ![h] = Creating]
  /\ UNCHANGED <<status, provider, posted, money, raced, late>>

CreateDeposit(h, o) ==
  /\ handling[h] = Creating
  /\ status[o] = "NONE"
  /\ status' = [status EXCEPT ![o] = "PENDING"]
  /\ handling' = [handling EXCEPT ![h] = Idle]
  /\ UNCHANGED <<provider, posted, money, raced, late>>

-----------------------------------------------------------------------------
(* The payment provider, which is not part of the repository *)

\* Coins come to the address of a deposit.
CoinsArrive(o) ==
  /\ status[o] # "NONE"
  /\ provider[o] = "idle"
  /\ provider' = [provider EXCEPT ![o] = "working"]
  /\ UNCHANGED <<status, posted, handling, money, raced, late>>

Post(o, k, e) ==
  /\ posted' = posted \cup {CallbackOf(o, k, e)}
  /\ UNCHANGED <<status, handling, money, raced, late>>

ProviderSees(o) ==
  /\ provider[o] = "working"
  /\ Post(o, "not_confirmed", FALSE)
  /\ UNCHANGED provider

ProviderConfirms(o) ==
  /\ provider[o] = "working"
  /\ provider' = [provider EXCEPT ![o] = "sent"]
  /\ Post(o, "confirmed", FALSE)

ProviderCancels(o, e) ==
  /\ provider[o] = "working"
  /\ provider' = [provider EXCEPT ![o] = "failed"]
  /\ Post(o, "cancelled", e)

-----------------------------------------------------------------------------
(* Callbacks *)

\* MUTANT of Found: a CONFIRMED transaction is found, too.
FoundConfirmed(k) == {"PENDING", "NOT_CONFIRMED", "CONFIRMED"}

\* MUTANT of Found: a callback that came late overwrites any status.
FoundAny(k) == IF k = "not_confirmed" THEN Statuses
                                      ELSE {"PENDING", "NOT_CONFIRMED"}

\* MUTANT of Found: every callback looks for PENDING.
FoundPending(k) == {"PENDING"}

\* The statuses the handler of a callback looks the transaction up with.
Found(k) == IF k = "not_confirmed" THEN {"PENDING"}
                                   ELSE {"PENDING", "NOT_CONFIRMED"}

\* handleCallback, up to the transaction: no row found is an error, and the
\* provider posts the callback again.
OnCallback(h, c) ==
  /\ handling[h] = Idle
  /\ c \in posted
  /\ status[c.order] \in Found(c.kind)
  /\ handling' = [handling EXCEPT ![h] = Handling(c)]
  /\ raced' = IF ReadBy(c.order) # {} THEN raced \cup {c.order} ELSE raced
  /\ UNCHANGED <<status, provider, posted, money, late>>

\* The transaction of a handler: it writes the rows whatever they are by then.
Write(h, s) ==
  /\ status' = [status EXCEPT ![handling[h].callback.order] = s]
  /\ handling' = [handling EXCEPT ![h] = Idle]
  /\ UNCHANGED <<provider, posted, raced, late>>

HandledOf(h, k) == /\ handling[h].does = "handle"
                   /\ handling[h].callback.kind = k

OnPaymentTransactionConfirmed(h) ==
  /\ HandledOf(h, "confirmed")
  /\ LET o == handling[h].callback.order IN
       \/ /\ o \in Deposits
          /\ credits' = [credits EXCEPT ![o] = @ + 1]
          /\ UNCHANGED <<refunds, payouts>>
       \/ /\ o \in Withdrawals
          /\ payouts' = [payouts EXCEPT ![o] = @ + 1]
          /\ UNCHANGED <<refunds, credits>>
  /\ Write(h, "CONFIRMED")

OnPaymentTransactionNotConfirmed(h) ==
  /\ HandledOf(h, "not_confirmed")
  /\ Write(h, "NOT_CONFIRMED")
  /\ UNCHANGED money

\* The order is looked up by its id and the error of the callback as its
\* cancelReason: with an error text no row is found.  unhold adds originalAmount
\* and networkFee, and fails for a deposit, which has no networkFee yet.
OnPaymentTransactionCancelled(h) ==
  /\ HandledOf(h, "cancelled")
  /\ LET c == handling[h].callback IN
       /\ ~c.error
       /\ c.order \in Withdrawals
       /\ refunds' = [refunds EXCEPT ![c.order] = @ + 1]
  /\ Write(h, "CANCELLED")
  /\ UNCHANGED <<payouts, credits>>

\* The handler ends without effect: its transaction is rolled back, by the row
\* that is not found, by an event that cannot be published, or by a crash.
HandlerFails(h) ==
  /\ handling[h] # Idle
  /\ handling' = [handling EXCEPT ![h] = Idle]
  /\ UNCHANGED <<status, provider, posted, money, raced, late>>

-----------------------------------------------------------------------------
Next ==
  \/ \E o \in Withdrawals :
       Withdraw(o) \/ AcceptWithdrawOrder(o) \/ RejectWithdrawOrder(o)
  \/ \E h \in Handlers : FindDeposit(h)
  \/ \E h \in Handlers, o \in Deposits : CreateDeposit(h, o)
  \/ \E o \in Deposits : CoinsArrive(o)
  \/ \E o \in Orders :
       \/ ProviderSees(o)
       \/ ProviderConfirms(o)
       \/ \E e \in BOOLEAN : ProviderCancels(o, e)
  \/ \E h \in Handlers :
       \/ \E c \in posted : OnCallback(h, c)
       \/ OnPaymentTransactionConfirmed(h)
       \/ OnPaymentTransactionNotConfirmed(h)
       \/ OnPaymentTransactionCancelled(h)
       \/ HandlerFails(h)

Spec == Init /\ [][Next]_vars

\* A request ends; a handler that is begun over and over does not fail each
\* time; the provider brings what it works on to an end and repeats what it has
\* posted.  A withdrawal is accepted or rejected when somebody does so.
Fairness ==
  /\ \A h \in Handlers : WF_vars(HandlerFails(h))
  /\ \A o \in Orders :
       /\ WF_vars(ProviderConfirms(o) \/ \E e \in BOOLEAN : ProviderCancels(o, e))
       /\ SF_vars(\E h \in Handlers, c \in posted :
                    c.order = o /\ c.kind # "not_confirmed" /\ OnCallback(h, c))
       /\ SF_vars(\E h \in ReadBy(o) :
                    \/ OnPaymentTransactionConfirmed(h)
                    \/ OnPaymentTransactionCancelled(h))

FairSpec == Spec /\ Fairness

-----------------------------------------------------------------------------
(* Properties *)

Settled == {"CONFIRMED", "CANCELLED"}

\* What an order does to the money of its owner: the hold of a withdrawal is
\* paid out when it is CONFIRMED and given back when it is CANCELLED, a deposit
\* is credited when it is CONFIRMED, each once, and before that nothing is.
MoneyOf(o) ==
  /\ refunds[o] = IF status[o] = "CANCELLED" THEN 1 ELSE 0
  /\ payouts[o] = IF o \in Withdrawals /\ status[o] = "CONFIRMED" THEN 1 ELSE 0
  /\ credits[o] = IF o \in Deposits /\ status[o] = "CONFIRMED" THEN 1 ELSE 0

\* The status of an order and the money that was moved for it agree, however
\* often callbacks are repeated and whatever fails, unless the order changed
\* while the handler of a callback had read it (payment.service.ts 468-675).
MoneyFollowsStatus == \A o \in Orders \ raced : MoneyOf(o)

\* Coins the provider sent are not given back to the user as well, unless the
\* withdrawal was rejected after it had been accepted, which
\* rejectWithdrawOrder allows as long as the order is PENDING.
SentIsNotRefunded ==
  \A o \in Withdrawals \ (raced \cup late) :
    provider[o] = "sent" => refunds[o] = 0

\* Nothing changes an order that is CONFIRMED or CANCELLED, unless a handler had
\* read it before (onPaymentTransactionNotConfirmed writes by the id alone).
SettledIsFinal ==
  [][\A o \in Orders \ raced : status[o] \in Settled => status'[o] = status[o]]_vars

\* A payment the provider takes on is settled, unless the provider cancels it
\* with an error text or, for a deposit, at all.
EveryPaymentIsSettled ==
  \A o \in Orders :
    provider[o] = "working" ~>
      \/ status[o] \in Settled
      \/ CallbackOf(o, "cancelled", TRUE) \in posted
      \/ o \in Deposits /\ provider[o] = "failed"
=============================================================================
