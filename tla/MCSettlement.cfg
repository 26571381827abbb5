\* Bets of one and two dollars, up to ten dollars on a side, all games
\* on five prices.
CONSTANTS
  Kinds = {"updown", "setup", "onevsone", "exact", "x1000"}
  Stakes = {1, 2}
  MaxPool = 10
  MaxPrice = 5
  Multipliers = {1, 2}
SPECIFICATION SettlementSpec
INVARIANTS
  PriceDecides
  OnlyRoundingIsLost
