CONSTANTS
  u1 = u1
  u2 = u2
  p1 = p1
  p2 = p2
  btc = btc
  eth = eth
  unlisted = unlisted
  Users = {u1, u2}
  Portfolios = {p1}
  Owner <- MCOwner
  Assets = {btc, eth}
  AssetIds = {btc, eth, unlisted}
  Quantities = {1, 4}
  Scale = 4
  Prices = {1}
  Times = {1, 2}
  MaxTrades = 3
  MaxPositions = 2
  LoopQuantities = {0, 1, 2}
  LoopPrices = {1, 3}
  LoopTimes = {1, 2}
  LoopLength = 4
SPECIFICATION MCSpec
INVARIANTS
  PositionsFollowLedger
  LinksFollowPositions
  NoOpEditRefusedOnlyOnTies
  HoldsNet
  AverageWithinEntries
  FoldIsTheLoop
PROPERTIES
  RaisesExactly
CHECK_DEADLOCK FALSE
