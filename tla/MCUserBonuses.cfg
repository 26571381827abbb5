SPECIFICATION Spec
CONSTANTS
  a = a
  b = b
  c = c
  w1 = w1
  w2 = w2
  Users = {a, b, c}
  NoUser = NoUser
  Wallets = {w1, w2}
  NoWallet = NoWallet
  Market = Market
  Starts <- MCStarts
  LogsLimit = 1
  PageSize = 1
  MaxOwed = 2
  MaxFailures = 1
CHECK_DEADLOCK FALSE
INVARIANTS NftBonusesAreBacked PaidOnce
PROPERTIES BonusesArrive
