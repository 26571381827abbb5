\* A withdrawal and a deposit whose callbacks two handlers work on at a time.
CONSTANTS
  Withdrawals = {w1}
  Deposits = {d1}
  Handlers = {h1, h2}
SPECIFICATION FairSpec
INVARIANTS
  MoneyFollowsStatus
  SentIsNotRefunded
PROPERTIES
  SettledIsFinal
  EveryPaymentIsSettled
CHECK_DEADLOCK FALSE
