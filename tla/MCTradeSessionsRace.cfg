CONSTANTS
  u1 = u1
  p1 = p1
  btc = btc
  eth = eth
  s1 = s1
  s2 = s2
  Users = {u1}
  Portfolios = {p1}
  Owner <- MCOwner
  Assets = {btc}
  AssetIds = {btc}
  Quantities = {1}
  Scale = 1
  Prices = {1, 3}
  Times = {1, 2}
  MaxTrades = 4
  MaxPositions = 7
  Sessions = {s1, s2}
  MaxActive = 2
  Inputs <- OneAsset
  Initially <- OneEntry
  MaxRequests = 3
  MayCrash = TRUE
SPECIFICATION Spec
SYMMETRY Symmetric
INVARIANTS
  OnlyOverlapDamages
CHECK_DEADLOCK FALSE
