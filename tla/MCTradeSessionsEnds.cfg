CONSTANTS
  u1 = u1
  p1 = p1
  btc = btc
  eth = eth
  s1 = s1
  s2 = s2
  Users = {u1}
  Portfolios = {p1}
  Owner <- MCOwner
  Assets = {btc, eth}
  AssetIds = {btc, eth}
  Quantities = {1}
  Scale = 1
  Prices = {1, 3}
  Times = {1, 2}
  MaxTrades = 4
  MaxPositions = 6
  Sessions = {s1, s2}
  MaxActive = 2
  Inputs <- TwoAssets
  Initially <- TwoEntries
  MaxRequests = 2
  MayCrash = FALSE
SPECIFICATION FairSpec
INVARIANT OnlyMovesOrDamageDeadlock
PROPERTY EveryRequestEnds
CHECK_DEADLOCK FALSE
