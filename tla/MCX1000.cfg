\* One game, two prices of which one ends it, and two of: a restart, an event that
\* is delivered again, a publication that fails, a payout that fails.
CONSTANTS
  Games = {g1}
  u1 = u1
  p1 = p1
  Users = {u1}
  Owner <- MCOwner
  Prices = {p1, p2}
  NoPrice = NoPrice
  Triggers <- MCTriggers
  MaxCashOuts = 1
  MaxIncidents = 2
SPECIFICATION FairSpec
INVARIANTS
  PaidOncePerEnd
  ResultMatchesEnd
  CommissionIsDue
PROPERTIES
  EndedIsPaid
