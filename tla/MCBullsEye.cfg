\* One game with three bets: the smallest with a third place.
CONSTANTS
  NGames = 1
  b1 = b1
  b2 = b2
  b3 = b3
  Bets = {b1, b2, b3}
  Prices = {20001, 20030}
  NoPrice = NoPrice
  MaxFailures = 1
  Guess <- MCGuess
  Stake = 10000
SPECIFICATION BullsEyeFairSpec
INVARIANTS
  PlacesAreFair
  StakesCoverPrizes
PROPERTIES
  EveryPrizeIsPaid
