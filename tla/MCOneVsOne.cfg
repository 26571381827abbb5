\* One incident of any kind: a failure, a lost or repeated event, or runs of the
\* resolver that overlap.
CONSTANTS
  Games = {g1}
  owner = owner
  Users = {owner, u1}
  Nobody = Nobody
  Owner <- MCOwner
  Invited <- MCInvited
  NoPrice = NoPrice
  MaxOpenGames = 3
  MaxResolvers = 2
  MaxIncidents = 1
SPECIFICATION FairSpec
INVARIANTS
  ClosedIsSettled
  PaidOnce
  NoStrandedGame
PROPERTIES
  EveryGameIsPaid
