CONSTANTS
  p1 = p1
  p2 = p2
  a1 = a1
  a2 = a2
  Portfolios = {p1, p2}
  Assets = {a1, a2}
  Offers <- MCOffers
  Quotes <- MCQuotes
  DayLength = 2
  Lookback = 2
  FirstHour = 0
  Near = 1
  Week = 3
  TradeTimes = {0, 1, 2}
  MaxTime = 5
  MaxRows = 4
SPECIFICATION Spec
INVARIANTS
  TotalIsCashAndValue
  SeriesEndsWithValue
  DrawdownIsDeepestFall
  KellyFollowsProfit
  DayStartsWhereYesterdayEnded
CHECK_DEADLOCK FALSE
