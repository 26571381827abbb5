\* Up/down games with bets of one dollar, up to 14 on a side.
CONSTANTS
  Kinds = {"updown"}
  Stakes = {1}
  MaxPool = 14
  MaxPrice = 2
  Multipliers = {1}
SPECIFICATION SettlementSpec
INVARIANT JournalIsBalanced
