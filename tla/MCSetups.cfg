\* One failure of any kind.
CONSTANTS
  Games = {g1}
  owner = u1
  Users = {u1, u2}
  Owner <- MCOwner
  Up = {u1}
  MaxFailures = 1
SPECIFICATION FairSpec
INVARIANTS
  ClosedIsSettled
  PaidOnce
  FirstPriceCounts
  NoStrandedGame
  NoGhostGame
PROPERTIES
  EveryGameIsPaid
