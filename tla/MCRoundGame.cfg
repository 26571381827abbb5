\* One failure of any kind; no symmetry, because liveness is checked as well.
CONSTANTS
  NGames = 2
  Bets = {b1, b2}
  Prices = {p1, p2}
  NoPrice = NoPrice
  MaxFailures = 1
SPECIFICATION FairSpec
INVARIANTS
  PaidAtMostOnce
  ClosedIsSettled
PROPERTIES
  ResultIsFinal
  EveryRoundIsPaid
