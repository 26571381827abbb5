--------------------------- MODULE PaymentsProofs ---------------------------
(***************************************************************************)
(* Proofs about Payments, for any number of orders and of requests that    *)
(* are handled at the same time.                                           *)
(***************************************************************************)
EXTENDS Payments, TLAPS

\* What the provider posted is about an order it took on, and is final when it
\* says so.
PostedTruly ==
  \A c \in posted :
    /\ c.kind = "confirmed" => provider[c.order] = "sent"
    /\ c.kind = "cancelled" => provider[c.order] = "failed"

\* As long as nothing changed an order behind the handler that read it, there
\* is one such handler, and what it read is still so.
ReadAlone ==
  \A g, h \in Handlers :
    /\ handling[g].does = "handle"
    /\ handling[h].does = "handle"
    /\ handling[g].callback.order = handling[h].callback.order
    /\ handling[g].callback.order \notin raced
    => g = h

ReadFresh ==
  \A h \in Handlers : handling[h].does = "handle" =>
    LET c == handling[h].callback IN
      /\ c \in posted
      /\ c.order \in raced \/ status[c.order] \in Found(c.kind)

\* A withdrawal is cancelled by a rejection before the provider took it on, or
\* because the provider gave it up.
CancelledUnsent ==
  \A o \in Withdrawals \ (raced \cup late) :
    status[o] = "CANCELLED" => provider[o] \in {"idle", "failed"}

\* The inductive invariant.  MoneyFollowsStatus is decided when a handler reads
\* the status and would be broken when it writes, so the invariant says what
\* the handlers in between know.
PaymentsInv ==
  /\ TypeOK
  /\ PostedTruly
  /\ ReadAlone
  /\ ReadFresh
  /\ CancelledUnsent
  /\ MoneyFollowsStatus

-----------------------------------------------------------------------------
\* Idle is no request that reads an order.
LEMMA IdleReadsNothing == Idle.does # "handle" /\ Creating.does # "handle"
  BY DEF Idle, Creating

LEMMA InitInv == ASSUME Init PROVE PaymentsInv
<1>1. TypeOK
  BY DEF Init, TypeOK, Request
<1>2. ReadAlone /\ ReadFresh
  BY IdleReadsNothing DEF Init, ReadAlone, ReadFresh
<1>3. PostedTruly /\ CancelledUnsent
  BY DEF Init, PostedTruly, CancelledUnsent, Orders
<1>4. MoneyFollowsStatus
  BY DEF Init, MoneyFollowsStatus, MoneyOf
<1> QED
  BY <1>1, <1>2, <1>3, <1>4 DEF PaymentsInv

-----------------------------------------------------------------------------
(* Requests of the user and of the backoffice *)

LEMMA WithdrawInv ==
  ASSUME PaymentsInv, NEW o \in Withdrawals, Withdraw(o)
  PROVE  PaymentsInv'
<1> USE DEF PaymentsInv
<1>1. TypeOK'
  BY DEF TypeOK, Withdraw, money, Statuses, Orders
<1>2. PostedTruly' /\ ReadAlone'
  BY DEF Withdraw, PostedTruly, ReadAlone
<1>3. ReadFresh'
  BY DEF Withdraw, ReadFresh, Found, TypeOK, Orders
<1>4. CancelledUnsent'
  BY DEF Withdraw, CancelledUnsent, TypeOK, Orders
<1>5. MoneyFollowsStatus'
  BY DEF Withdraw, MoneyFollowsStatus, MoneyOf, TypeOK, money, Orders
<1> QED
  BY <1>1, <1>2, <1>3, <1>4, <1>5

LEMMA AcceptInv ==
  ASSUME PaymentsInv, NEW o \in Withdrawals, AcceptWithdrawOrder(o)
  PROVE  PaymentsInv'
<1> USE DEF PaymentsInv
<1>1. TypeOK'
  BY DEF TypeOK, AcceptWithdrawOrder, money, Orders
<1>2. PostedTruly'
  BY DEF AcceptWithdrawOrder, PostedTruly, TypeOK, Callback
<1>3. ReadAlone' /\ ReadFresh'
  BY DEF AcceptWithdrawOrder, ReadAlone, ReadFresh
<1>4. CancelledUnsent'
  BY DEF AcceptWithdrawOrder, CancelledUnsent, TypeOK, Orders
<1>5. MoneyFollowsStatus'
  BY DEF AcceptWithdrawOrder, MoneyFollowsStatus, MoneyOf, money
<1> QED
  BY <1>1, <1>2, <1>3, <1>4, <1>5

LEMMA RejectInv ==
  ASSUME PaymentsInv, NEW o \in Withdrawals, RejectWithdrawOrder(o)
  PROVE  PaymentsInv'
<1> USE DEF PaymentsInv
<1>1. TypeOK'
  BY DEF TypeOK, RejectWithdrawOrder, Statuses, Orders
<1>2. PostedTruly'
  BY DEF RejectWithdrawOrder, PostedTruly
<1>3. ReadAlone'
  BY DEF RejectWithdrawOrder, ReadAlone
<1>4. ReadFresh'
  BY DEF RejectWithdrawOrder, ReadFresh, ReadBy, TypeOK
<1>5. CancelledUnsent'
  BY DEF RejectWithdrawOrder, CancelledUnsent, TypeOK, Orders
<1>6. MoneyFollowsStatus'
  BY OrdersAssumption
     DEF RejectWithdrawOrder, MoneyFollowsStatus, MoneyOf, TypeOK, Orders
<1> QED
  BY <1>1, <1>2, <1>3, <1>4, <1>5, <1>6

LEMMA FindDepositInv ==
  ASSUME PaymentsInv, NEW h \in Handlers, FindDeposit(h)
  PROVE  PaymentsInv'
<1> USE DEF PaymentsInv
<1>1. TypeOK'
  BY DEF TypeOK, FindDeposit, money, Request
<1>2. PostedTruly' /\ CancelledUnsent'
  BY DEF FindDeposit, PostedTruly, CancelledUnsent
<1>3. ReadAlone' /\ ReadFresh'
  BY IdleReadsNothing DEF FindDeposit, ReadAlone, ReadFresh, TypeOK
<1>4. MoneyFollowsStatus'
  BY DEF FindDeposit, MoneyFollowsStatus, MoneyOf, money
<1> QED
  BY <1>1, <1>2, <1>3, <1>4

LEMMA CreateDepositInv ==
  ASSUME PaymentsInv, NEW h \in Handlers, NEW o \in Deposits, CreateDeposit(h, o)
  PROVE  PaymentsInv'
<1> USE DEF PaymentsInv
<1>1. TypeOK'
  BY DEF TypeOK, CreateDeposit, money, Request, Statuses, Orders
<1>2. PostedTruly'
  BY DEF CreateDeposit, PostedTruly
<1>3. ReadAlone'
  BY IdleReadsNothing DEF CreateDeposit, ReadAlone, TypeOK
<1>4. ReadFresh'
  BY IdleReadsNothing DEF CreateDeposit, ReadFresh, TypeOK, Found, Orders
<1>5. CancelledUnsent'
  BY DEF CreateDeposit, CancelledUnsent, TypeOK, Orders
<1>6. MoneyFollowsStatus'
  BY DEF CreateDeposit, MoneyFollowsStatus, MoneyOf, TypeOK, money, Orders
<1> QED
  BY <1>1, <1>2, <1>3, <1>4, <1>5, <1>6

-----------------------------------------------------------------------------
(* The provider *)

LEMMA CoinsArriveInv ==
  ASSUME PaymentsInv, NEW o \in Deposits, CoinsArrive(o)
  PROVE  PaymentsInv'
<1> USE DEF PaymentsInv
<1>1. TypeOK'
  BY DEF TypeOK, CoinsArrive, money, Orders
<1>2. PostedTruly'
  BY DEF CoinsArrive, PostedTruly, TypeOK, Callback
<1>3. ReadAlone' /\ ReadFresh'
  BY DEF CoinsArrive, ReadAlone, ReadFresh
<1>4. CancelledUnsent'
  BY OrdersAssumption DEF CoinsArrive, CancelledUnsent, TypeOK, Orders
<1>5. MoneyFollowsStatus'
  BY DEF CoinsArrive, MoneyFollowsStatus, MoneyOf, money
<1> QED
  BY <1>1, <1>2, <1>3, <1>4, <1>5

\* A callback that says truly how far the provider is.
LEMMA PostInv ==
  ASSUME PaymentsInv, NEW o \in Orders, NEW k \in Kinds, NEW e \in BOOLEAN,
         NEW p \in {"working", "sent", "failed"}, provider[o] = "working",
         provider' = [provider EXCEPT ![o] = p],
         k = "confirmed" => p = "sent", k = "cancelled" => p = "failed",
         Post(o, k, e), status[o] = "CANCELLED" /\ o \in Withdrawals
                          => o \in raced \cup late
  PROVE  PaymentsInv'
<1> USE DEF PaymentsInv
<1>1. CallbackOf(o, k, e) \in Callback
  BY DEF CallbackOf, Callback
<1>2. TypeOK'
  BY <1>1 DEF TypeOK, Post, money, Orders
<1>3. PostedTruly'
  BY <1>1 DEF Post, PostedTruly, TypeOK, CallbackOf
<1>4. ReadAlone' /\ ReadFresh'
  BY DEF Post, ReadAlone, ReadFresh
<1>5. CancelledUnsent'
  BY DEF Post, CancelledUnsent, TypeOK, Orders
<1>6. MoneyFollowsStatus'
  BY DEF Post, MoneyFollowsStatus, MoneyOf, money
<1> QED
  BY <1>2, <1>3, <1>4, <1>5, <1>6

LEMMA ProviderInv ==
  ASSUME PaymentsInv, NEW o \in Orders,
         \/ ProviderSees(o)
         \/ ProviderConfirms(o)
         \/ \E e \in BOOLEAN : ProviderCancels(o, e)
  PROVE  PaymentsInv'
<1>1. provider[o] = "working"
  BY DEF ProviderSees, ProviderConfirms, ProviderCancels
<1>2. status[o] = "CANCELLED" /\ o \in Withdrawals => o \in raced \cup late
  BY <1>1 DEF PaymentsInv, CancelledUnsent
<1>3. CASE ProviderSees(o)
  <2>1. provider' = [provider EXCEPT ![o] = "working"]
    BY <1>1, <1>3 DEF ProviderSees, PaymentsInv, TypeOK
  <2> QED
    BY <1>1, <1>2, <1>3, <2>1, PostInv DEF ProviderSees, Kinds
<1>4. CASE ProviderConfirms(o)
  BY <1>1, <1>2, <1>4, PostInv DEF ProviderConfirms, Kinds
<1>5. CASE \E e \in BOOLEAN : ProviderCancels(o, e)
  BY <1>1, <1>2, <1>5, PostInv DEF ProviderCancels, Kinds
<1> QED
  BY <1>3, <1>4, <1>5

-----------------------------------------------------------------------------
(* Callbacks *)

LEMMA OnCallbackInv ==
  ASSUME PaymentsInv, NEW h \in Handlers, NEW c \in posted, OnCallback(h, c)
  PROVE  PaymentsInv'
<1> USE DEF PaymentsInv
<1>1. Handling(c).does = "handle" /\ Handling(c).callback = c
  BY DEF Handling
<1>2. c \in Callback /\ c.order \in Orders
  BY DEF TypeOK, Callback
<1>3. TypeOK'
  BY <1>2 DEF TypeOK, OnCallback, money, Request
<1>4. PostedTruly' /\ CancelledUnsent'
  BY DEF OnCallback, PostedTruly, CancelledUnsent
<1>5. ReadAlone'
  BY <1>1 DEF OnCallback, ReadAlone, ReadBy, TypeOK
<1>6. ReadFresh'
  BY <1>1 DEF OnCallback, ReadFresh, TypeOK
<1>7. MoneyFollowsStatus'
  BY DEF OnCallback, MoneyFollowsStatus, MoneyOf, money
<1> QED
  BY <1>3, <1>4, <1>5, <1>6, <1>7

LEMMA HandlerFailsInv ==
  ASSUME PaymentsInv, NEW h \in Handlers, HandlerFails(h)
  PROVE  PaymentsInv'
<1> USE DEF PaymentsInv
<1>1. TypeOK'
  BY DEF TypeOK, HandlerFails, money, Request
<1>2. PostedTruly' /\ CancelledUnsent'
  BY DEF HandlerFails, PostedTruly, CancelledUnsent
<1>3. ReadAlone' /\ ReadFresh'
  BY IdleReadsNothing DEF HandlerFails, ReadAlone, ReadFresh, TypeOK
<1>4. MoneyFollowsStatus'
  BY DEF HandlerFails, MoneyFollowsStatus, MoneyOf, money
<1> QED
  BY <1>1, <1>2, <1>3, <1>4

\* What a handler that is about to write knows of its callback.
LEMMA HandledFacts ==
  ASSUME PaymentsInv, NEW h \in Handlers, handling[h].does = "handle"
  PROVE  /\ handling[h].callback \in posted
         /\ handling[h].callback \in Callback
         /\ handling[h].callback.order \in Orders
         /\ \/ handling[h].callback.order \in raced
            \/ status[handling[h].callback.order] \in Found(handling[h].callback.kind)
  BY DEF PaymentsInv, ReadFresh, TypeOK, Callback

\* The write of a handler that changes the money as its status asks for.
LEMMA WriteInv ==
  ASSUME PaymentsInv, NEW h \in Handlers, NEW s \in Statuses,
         handling[h].does = "handle", Write(h, s),
         refunds' \in [Orders -> Nat], payouts' \in [Orders -> Nat],
         credits' \in [Orders -> Nat],
         \A o \in Orders \ raced :
           IF o = handling[h].callback.order
             THEN MoneyOf(o)'
             ELSE /\ refunds'[o] = refunds[o]
                  /\ payouts'[o] = payouts[o]
                  /\ credits'[o] = credits[o],
         s = "CANCELLED" => provider[handling[h].callback.order] = "failed"
  PROVE  PaymentsInv'
<1> DEFINE o == handling[h].callback.order
<1> USE DEF PaymentsInv
<1>1. o \in Orders
  BY HandledFacts
<1>2. TypeOK'
  BY <1>1 DEF TypeOK, Write, Request
<1>3. PostedTruly'
  BY DEF Write, PostedTruly
<1>4. ReadAlone'
  BY IdleReadsNothing DEF Write, ReadAlone, TypeOK
<1>5. ReadFresh'
  <2> SUFFICES ASSUME NEW g \in Handlers, handling'[g].does = "handle"
               PROVE  LET c == handling'[g].callback IN
                        /\ c \in posted'
                        /\ c.order \in raced' \/ status'[c.order] \in Found(c.kind)
    BY DEF ReadFresh
  <2>1. g # h /\ handling'[g] = handling[g]
    BY IdleReadsNothing DEF Write, TypeOK
  <2>2. handling[g].callback.order = o => o \in raced
    BY <2>1 DEF ReadAlone
  <2> QED
    BY <1>1, <2>1, <2>2 DEF ReadFresh, Write, TypeOK
<1>6. CancelledUnsent'
  BY <1>1 DEF Write, CancelledUnsent, TypeOK, Orders
<1>7. MoneyFollowsStatus'
  <2> SUFFICES ASSUME NEW q \in Orders \ raced' PROVE MoneyOf(q)'
    BY DEF MoneyFollowsStatus
  <2>1. q \in Orders \ raced
    BY DEF Write
  <2>2. CASE q = o
    BY <2>1, <2>2
  <2>3. CASE q # o
    <3>1. status'[q] = status[q]
      BY <1>1, <2>3 DEF Write, TypeOK
    <3>2. MoneyOf(q)
      BY <2>1 DEF MoneyFollowsStatus
    <3> QED
      BY <2>1, <2>3, <3>1, <3>2 DEF MoneyOf
  <2> QED
    BY <2>2, <2>3
<1> QED
  BY <1>2, <1>3, <1>4, <1>5, <1>6, <1>7

LEMMA ConfirmedInv ==
  ASSUME PaymentsInv, NEW h \in Handlers, OnPaymentTransactionConfirmed(h)
  PROVE  PaymentsInv'
<1> DEFINE o == handling[h].callback.order
<1>1. handling[h].does = "handle" /\ handling[h].callback.kind = "confirmed"
  BY DEF OnPaymentTransactionConfirmed, HandledOf
<1>2. /\ o \in Orders
      /\ o \in raced \/ status[o] \in {"PENDING", "NOT_CONFIRMED"}
  BY <1>1, HandledFacts DEF Found
<1>3. Write(h, "CONFIRMED") /\ status'[o] = "CONFIRMED"
  BY <1>2 DEF OnPaymentTransactionConfirmed, Write, PaymentsInv, TypeOK
<1>4. /\ refunds' \in [Orders -> Nat]
      /\ payouts' \in [Orders -> Nat]
      /\ credits' \in [Orders -> Nat]
  BY <1>2 DEF OnPaymentTransactionConfirmed, PaymentsInv, TypeOK
<1>5. ASSUME NEW q \in Orders \ raced, q # o
      PROVE  /\ refunds'[q] = refunds[q]
             /\ payouts'[q] = payouts[q]
             /\ credits'[q] = credits[q]
  BY <1>5, <1>2 DEF OnPaymentTransactionConfirmed, PaymentsInv, TypeOK
<1>6. ASSUME NEW q \in Orders \ raced, q = o PROVE MoneyOf(q)'
  BY <1>2, <1>3, <1>6, OrdersAssumption
     DEF OnPaymentTransactionConfirmed, PaymentsInv, TypeOK, Orders,
         MoneyFollowsStatus, MoneyOf
<1> QED
  BY <1>1, <1>3, <1>4, <1>5, <1>6, WriteInv DEF Statuses

LEMMA NotConfirmedInv ==
  ASSUME PaymentsInv, NEW h \in Handlers, OnPaymentTransactionNotConfirmed(h)
  PROVE  PaymentsInv'
<1> DEFINE o == handling[h].callback.order
<1>1. handling[h].does = "handle" /\ handling[h].callback.kind = "not_confirmed"
  BY DEF OnPaymentTransactionNotConfirmed, HandledOf
<1>2. o \in Orders /\ (o \in raced \/ status[o] = "PENDING")
  BY <1>1, HandledFacts DEF Found
<1>3. Write(h, "NOT_CONFIRMED") /\ status'[o] = "NOT_CONFIRMED"
  BY <1>2 DEF OnPaymentTransactionNotConfirmed, Write, PaymentsInv, TypeOK
<1>4. UNCHANGED <<refunds, payouts, credits>>
  BY DEF OnPaymentTransactionNotConfirmed, money
<1>5. ASSUME NEW q \in Orders \ raced, q = o PROVE MoneyOf(q)'
  BY <1>2, <1>3, <1>4, <1>5 DEF PaymentsInv, MoneyFollowsStatus, MoneyOf
<1> QED
  BY <1>1, <1>3, <1>4, <1>5, WriteInv DEF Statuses, PaymentsInv, TypeOK

LEMMA CancelledInv ==
  ASSUME PaymentsInv, NEW h \in Handlers, OnPaymentTransactionCancelled(h)
  PROVE  PaymentsInv'
<1> DEFINE o == handling[h].callback.order
<1>1. handling[h].does = "handle" /\ handling[h].callback.kind = "cancelled"
  BY DEF OnPaymentTransactionCancelled, HandledOf
<1>2. /\ o \in Orders /\ handling[h].callback \in posted
      /\ o \in raced \/ status[o] \in {"PENDING", "NOT_CONFIRMED"}
  BY <1>1, HandledFacts DEF Found
<1>3. provider[o] = "failed"
  BY <1>1, <1>2 DEF PaymentsInv, PostedTruly
<1>4. Write(h, "CANCELLED") /\ status'[o] = "CANCELLED"
  BY <1>2 DEF OnPaymentTransactionCancelled, Write, PaymentsInv, TypeOK
<1>5. /\ refunds' = [refunds EXCEPT ![o] = @ + 1]
      /\ payouts' = payouts /\ credits' = credits
  BY DEF OnPaymentTransactionCancelled
<1>6. ASSUME NEW q \in Orders \ raced, q = o PROVE MoneyOf(q)'
  BY <1>2, <1>4, <1>5, <1>6
     DEF PaymentsInv, TypeOK, MoneyFollowsStatus, MoneyOf
<1>7. /\ refunds' \in [Orders -> Nat]
      /\ payouts' \in [Orders -> Nat]
      /\ credits' \in [Orders -> Nat]
  BY <1>2, <1>5 DEF PaymentsInv, TypeOK
<1>8. ASSUME NEW q \in Orders \ raced, q # o
      PROVE  /\ refunds'[q] = refunds[q]
             /\ payouts'[q] = payouts[q]
             /\ credits'[q] = credits[q]
  BY <1>5, <1>8 DEF PaymentsInv, TypeOK
<1> QED
  BY <1>1, <1>3, <1>4, <1>6, <1>7, <1>8, WriteInv DEF Statuses

-----------------------------------------------------------------------------
(* Theorems *)

LEMMA NextInv == ASSUME PaymentsInv, [Next]_vars PROVE PaymentsInv'
<1>1. CASE Next
  BY <1>1, WithdrawInv, AcceptInv, RejectInv, FindDepositInv, CreateDepositInv,
     CoinsArriveInv, ProviderInv, OnCallbackInv, ConfirmedInv, NotConfirmedInv,
     CancelledInv, HandlerFailsInv
     DEF Next
<1>2. CASE UNCHANGED vars
  BY <1>2
     DEF vars, PaymentsInv, TypeOK, PostedTruly, ReadAlone, ReadFresh,
         CancelledUnsent, MoneyFollowsStatus, MoneyOf
<1> QED
  BY <1>1, <1>2

THEOREM InvariantHolds == Spec => []PaymentsInv
<1> QED
  BY InitInv, NextInv, PTL DEF Spec

\* The state of the payments keeps its type.
THEOREM PaymentsTyped == Spec => []TypeOK
<1>1. PaymentsInv => TypeOK
  BY DEF PaymentsInv
<1> QED
  BY <1>1, InvariantHolds, PTL

\* Status and money agree for every order that no handler raced for.
THEOREM MoneyCorrect == Spec => []MoneyFollowsStatus
<1>1. PaymentsInv => MoneyFollowsStatus
  BY DEF PaymentsInv
<1> QED
  BY <1>1, InvariantHolds, PTL

\* Coins that were sent are not given back, too.
THEOREM RefundsCorrect == Spec => []SentIsNotRefunded
<1>1. PaymentsInv => SentIsNotRefunded
  BY DEF PaymentsInv, SentIsNotRefunded, CancelledUnsent, MoneyFollowsStatus,
         MoneyOf, Orders, TypeOK
<1> QED
  BY <1>1, InvariantHolds, PTL

\* A step leaves an order that is settled as it is, unless it was raced for.
LEMMA SettledStep ==
  ASSUME PaymentsInv, [Next]_vars,
         NEW o \in Orders \ raced, status[o] \in Settled
  PROVE  status'[o] = status[o]
<1>1. ASSUME NEW h \in Handlers, NEW s \in Statuses, Write(h, s),
             handling[h].does = "handle"
      PROVE  status'[o] = status[o]
  BY <1>1, HandledFacts DEF Write, Found, Settled, PaymentsInv, TypeOK
<1>2. CASE \E q \in Withdrawals :
             Withdraw(q) \/ AcceptWithdrawOrder(q) \/ RejectWithdrawOrder(q)
  BY <1>2 DEF Withdraw, AcceptWithdrawOrder, RejectWithdrawOrder, Settled,
              PaymentsInv, TypeOK
<1>3. CASE \E h \in Handlers, q \in Deposits : CreateDeposit(h, q)
  BY <1>3 DEF CreateDeposit, Settled, PaymentsInv, TypeOK
<1>4. CASE \E h \in Handlers : \/ OnPaymentTransactionConfirmed(h)
                               \/ OnPaymentTransactionNotConfirmed(h)
                               \/ OnPaymentTransactionCancelled(h)
  BY <1>1, <1>4 DEF OnPaymentTransactionConfirmed, Statuses, HandledOf,
     OnPaymentTransactionNotConfirmed, OnPaymentTransactionCancelled
<1>5. CASE UNCHANGED status
  BY <1>5
<1> QED
  BY <1>2, <1>3, <1>4, <1>5
     DEF Next, vars, FindDeposit, CoinsArrive, Post, ProviderSees,
         ProviderConfirms, ProviderCancels, OnCallback, HandlerFails

\* CONFIRMED and CANCELLED are final, as long as no handler raced.
THEOREM SettledCorrect == Spec => SettledIsFinal
<1>1. PaymentsInv /\ [Next]_vars
        => [\A o \in Orders \ raced :
              status[o] \in Settled => status'[o] = status[o]]_vars
  BY SettledStep
<1> QED
  BY <1>1, InvariantHolds, PTL DEF Spec, SettledIsFinal
=============================================================================
