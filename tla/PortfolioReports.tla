--------------------------- MODULE PortfolioReports --------------------------
(***************************************************************************)
(* What is reported of the portfolios of a user: their value and profit    *)
(* from the positions (portfolio/services/analytics_service.py), their     *)
(* value over time and the drawdown from the trades                        *)
(* (risk/services/risk_service.py).  Each walks the ledger in a loop of    *)
(* its own, a copy of the engine's, so that what they say of one portfolio *)
(* may part.                                                               *)
(*                                                                         *)
(* Amounts are fractions <<numerator, denominator>>, as in PositionEngine; *)
(* the clock counts instants, DayLength of them to a day.                  *)
(***************************************************************************)
EXTENDS PositionEngine, Sequences, FiniteSets, FiniteSetsExt, SequencesExt

CONSTANTS
  Portfolios,    \* portfolios of the user
  Assets,        \* assets they may hold
  Offers,        \* trades as they may be registered: all but id and executed_at
  Quotes,        \* prices of assets, as the providers may give them
  DayLength,     \* instants of a day
  Lookback,      \* LOOKBACK_DAYS
  TradeTimes,    \* instants at which trades are executed
  MaxTime,       \* bound on the clock
  MaxRows        \* bound on the trades and prices together

ASSUME ReportsAssumption ==
  /\ \A offer \in Offers :
       /\ offer.portfolio \in Portfolios /\ offer.asset \in Assets
       /\ offer.trade_type \in TradeTypes
       /\ offer.quantity \in Nat \ {0} /\ offer.price \in Nat \ {0}
  /\ \A quote \in Quotes : quote.asset \in Assets /\ quote.price \in Nat \ {0}
  /\ DayLength \in Nat \ {0}
  /\ Lookback \in Nat
  /\ TradeTimes \subseteq Nat
  /\ MaxTime \in Nat /\ MaxRows \in Nat

VARIABLES
  now,      \* datetime.now(UTC)
  trades,   \* the trades of the portfolios
  prices    \* the market_prices of the assets

vars == <<now, trades, prices>>

-----------------------------------------------------------------------------
Fraction(n) == <<n, 1>>
Plus(x, y)  == <<x[1] * y[2] + y[1] * x[2], x[2] * y[2]>>
Minus(x, y) == <<x[1] * y[2] - y[1] * x[2], x[2] * y[2]>>
Times(n, x) == <<n * x[1], x[2]>>
Same(x, y)  == x[1] * y[2] = y[1] * x[2]
AtMost(x, y) == x[1] * y[2] <= y[1] * x[2]

Total(Amount(_), S) == FoldSet(LAMBDA x, sum : Plus(Amount(x), sum), Fraction(0), S)

Greatest(S) == CHOOSE x \in S : \A y \in S : AtMost(y, x)

Date(instant) == instant \div DayLength

LedgerOf(p, a) == {t \in trades : t.portfolio = p /\ t.asset = a}

\* The row of an asset's position is the replay of its ledger.
Position(p, a) == Replay(LedgerOf(p, a))

IsOpen(p, a) == IsPosition(Position(p, a)) /\ Position(p, a).status = "OPEN"

PricesOf(a) == {p \in prices : p.asset = a}

\* By the provider's time, and by id among equal times.
LatestPrice(a) ==
  (CHOOSE x \in PricesOf(a) : \A y \in PricesOf(a) :
     y.stamp < x.stamp \/ (y.stamp = x.stamp /\ y.order <= x.order)).price

-----------------------------------------------------------------------------
(***************************************************************************)
(* The loop that calculate_realized_pnl, _extract_realized_outcomes and    *)
(* _quantity_at_date each write out, over ledgers that the engine has      *)
(* accepted, or a first part of one.                                       *)
(***************************************************************************)
Start == [quantity |-> 0, average |-> Fraction(0), cost |-> Fraction(0), outcomes |-> <<>>]

\* average_price = total_cost / quantity; both are reset when nothing is held.
Averaged(walk) ==
  IF walk.quantity > 0
  THEN [walk EXCEPT !.average = <<walk.cost[1], walk.cost[2] * walk.quantity>>]
  ELSE [walk EXCEPT !.average = Fraction(0), !.cost = Fraction(0)]

In(trade, walk) ==
  Averaged([walk EXCEPT !.cost = Plus(@, Fraction(trade.quantity * trade.price)),
                        !.quantity = @ + trade.quantity])

\* The profit of an exit: of a SELL its price less the average, of a COVER the reverse.
Gain(trade, walk) ==
  LET rise == Times(trade.quantity, Minus(Fraction(trade.price), walk.average))
  IN  IF trade.trade_type = "SELL" THEN rise ELSE Times(-1, rise)

\* A slip: the cost goes down by what the exit brought.
OutAtTradePrice(trade, walk) ==
  Averaged([walk EXCEPT !.outcomes = Append(@, Gain(trade, walk)),
                        !.cost = Minus(@, Fraction(trade.quantity * trade.price)),
                        !.quantity = @ - trade.quantity])

Out(trade, walk) ==
  Averaged([walk EXCEPT !.outcomes = Append(@, Gain(trade, walk)),
                        !.cost = Minus(@, Times(trade.quantity, walk.average)),
                        !.quantity = @ - trade.quantity])

Step(trade, walk) ==
  IF trade.trade_type \in {"BUY", "SHORT"} THEN In(trade, walk) ELSE Out(trade, walk)

Walk(ledger) == MapThenFoldSet(Step, Start, LAMBDA t : t, Latest, ledger)

-----------------------------------------------------------------------------
(***************************************************************************)
(* The value and the performance of a portfolio, from its positions        *)
(***************************************************************************)
\* The open positions that can be valued; the others are listed without a price.
Valued(p) == {a \in Assets : IsOpen(p, a) /\ PricesOf(a) # {}}

PositionValue(p, a) == Fraction(Position(p, a).quantity * LatestPrice(a))

PortfolioValue(p) == Total(LAMBDA a : PositionValue(p, a), Valued(p))

UnrealizedPnl(p, a) ==
  Times(Position(p, a).quantity, Minus(Fraction(LatestPrice(a)), Position(p, a).average_price))

Sum(outcomes) == FoldLeft(Plus, Fraction(0), outcomes)

\* Of closed positions alone: the whole ledger of their asset.
RealizedPnl(p, a) == Sum(Walk(LedgerOf(p, a)).outcomes)

Closed(p) == {a \in Assets : IsPosition(Position(p, a)) /\ ~ IsOpen(p, a)}

TotalPnl(p) ==
  Plus(Total(LAMBDA a : RealizedPnl(p, a), Closed(p)),
       Total(LAMBDA a : UnrealizedPnl(p, a), Valued(p)))

-----------------------------------------------------------------------------
(***************************************************************************)
(* The value over time and the drawdown, from the trades                   *)
(***************************************************************************)
\* A slip: the trades of the day itself are left out.
QuantityBeforeDate(p, a, date) == Walk({t \in LedgerOf(p, a) : Date(t.executed_at) < date}).quantity

\* What is held at the end of a day.
QuantityAtDate(p, a, date) == Walk({t \in LedgerOf(p, a) : Date(t.executed_at) <= date}).quantity

\* list_by_asset_and_range
Between(a, from, to) == {x \in PricesOf(a) : x.stamp \in from .. to}

Recent(a) == Between(a, now - Lookback * DayLength, now)

Traded(p) == {a \in Assets : LedgerOf(p, a) # {}}

\* The last of some prices; of several at one time, the one the database returns last,
\* which may be any.
LastOf(known) == (CHOOSE x \in known : \A y \in known : y.stamp <= x.stamp).price

\* The last price of the day, or else of the last day before it that has one.
PriceOnDate(a, date) == LastOf({x \in Recent(a) : Date(x.stamp) <= date})

ValueOnDate(p, date) ==
  LET priced == {a \in Traded(p) : \E x \in Recent(a) : Date(x.stamp) <= date}
      Value(a) == Fraction(QuantityAtDate(p, a, date) * PriceOnDate(a, date))
  IN  Total(Value, priced)[1]

Dates(p) == {Date(x.stamp) : x \in UNION {Recent(a) : a \in Traded(p)}}

\* The days that have a price, in order; those without a value are left out.
ValueSeries(p) ==
  LET points == {point \in {[date |-> date, value |-> ValueOnDate(p, date)] : date \in Dates(p)} :
                   point.value > 0}
  IN  CHOOSE series \in [1 .. Cardinality(points) -> points] :
        \A i, j \in DOMAIN series : i < j => series[i].date < series[j].date

\* A slip: the current drawdown outlives a new peak.
FallKept(value, fall) ==
  IF value > fall.peak
  THEN [fall EXCEPT !.peak = value]
  ELSE LET drawdown == <<fall.peak - value, fall.peak>>
       IN  [fall EXCEPT !.maximum = IF AtMost(@, drawdown) THEN drawdown ELSE @,
                        !.current = drawdown]

\* One value of calculate_drawdown's loop; values of the series are positive.
Fall(value, fall) ==
  IF value > fall.peak
  THEN [fall EXCEPT !.peak = value, !.current = Fraction(0)]
  ELSE LET drawdown == <<fall.peak - value, fall.peak>>
       IN  [fall EXCEPT !.maximum = IF AtMost(@, drawdown) THEN drawdown ELSE @,
                        !.current = drawdown]

Drawdown(values) ==
  FoldLeft(LAMBDA fall, value : Fall(value, fall),
           [peak |-> values[1], maximum |-> Fraction(0), current |-> Fraction(0)], values)

-----------------------------------------------------------------------------
\* Portfolios without trades, and assets without prices yet.
Init ==
  /\ now = 0
  /\ trades = {}
  /\ prices = {}

HasRoom == Cardinality(trades) + Cardinality(prices) < MaxRows

\* A trade that the engine accepts, of any time, that to come included (trade.py:15).
\* Those of an earlier time need not come late: of the ids only the order at one time
\* matters, so that any ledger comes about in its order.
Register ==
  HasRoom /\ \E offer \in Offers, time \in TradeTimes :
    LET trade == [id |-> Cardinality(trades) + 1, portfolio |-> offer.portfolio,
                  asset |-> offer.asset, trade_type |-> offer.trade_type,
                  quantity |-> offer.quantity, price |-> offer.price, executed_at |-> time]
    IN  /\ \A t \in trades : t.executed_at <= time
        /\ ~ IsFailure(Replay(LedgerOf(offer.portfolio, offer.asset) \cup {trade}))
        /\ trades' = trades \cup {trade}
        /\ UNCHANGED <<now, prices>>

\* A price is stored, perhaps of an earlier time, or again of the same one.  Of the ids of
\* prices only their order at one time matters.
Quote ==
  HasRoom /\ \E quote \in Quotes, stamp \in 0 .. now :
    LET tied == {x \in PricesOf(quote.asset) : x.stamp = stamp}
    IN  /\ prices' = prices \cup {[asset |-> quote.asset, price |-> quote.price, stamp |-> stamp,
                                   order |-> Cardinality(tied) + 1]}
        /\ UNCHANGED <<now, trades>>

Tick == now < MaxTime /\ now' = now + 1 /\ UNCHANGED <<trades, prices>>

Next == Register \/ Quote \/ Tick

Spec == Init /\ [][Next]_vars

-----------------------------------------------------------------------------
\* What came in for the trades of a portfolio less what was paid.
Cash(p) ==
  LET Flow(t) == Fraction((IF t.trade_type \in {"SELL", "SHORT"} THEN 1 ELSE -1)
                          * t.quantity * t.price)
  IN  Total(Flow, {t \in trades : t.portfolio = p})

\* The total profit of a portfolio is its cash and its value (analytics_service.py:370),
\* as long as no open position is short, has been sold from, or has no price: of an open
\* position the profit of its exits is left out (344), and a short one is valued as if it
\* were long (100).
TotalIsCashAndValue ==
  \A p \in Portfolios :
    (\A a \in Assets : IsOpen(p, a) =>
       /\ a \in Valued(p)
       /\ Position(p, a).position_type = "LONG"
       /\ \A t \in LedgerOf(p, a) : t.trade_type = "BUY")
    => Same(TotalPnl(p), Plus(Cash(p), PortfolioValue(p)))

\* The last of some prices are of one time.
Ambiguous(known) == \E x, y \in known :
  x # y /\ x.stamp = y.stamp /\ \A z \in known : z.stamp <= x.stamp

\* A trade of p is dated a later day: nothing keeps its time from being one to come.
DatedAhead(p) == \E t \in trades : t.portfolio = p /\ Date(t.executed_at) > Date(now)

\* On a day that has a price, the value series ends with the value of the portfolio
\* (risk_service.py:278, analytics_service.py:143): ledger and positions, daily and latest
\* prices agree, provided no position's latest price is older than the series goes back,
\* or shares its time with another, which the two queries order differently
\* (market_price_repository.py:23, 42), and no trade is dated a later day, which is in
\* the position at once and in the series from that day on (risk_service.py:437).
SeriesEndsWithValue ==
  \A p \in Portfolios :
    LET series == ValueSeries(p) IN
    (/\ Date(now) \in Dates(p)
     /\ ~ DatedAhead(p)
     /\ \A a \in Valued(p) : Recent(a) # {} /\ ~ Ambiguous(PricesOf(a))) =>
      IF PortfolioValue(p)[1] > 0
      THEN series # <<>> /\ Last(series) = [date |-> Date(now), value |-> PortfolioValue(p)[1]]
      ELSE \A i \in DOMAIN series : series[i].date # Date(now)

\* The maximum drawdown is the deepest fall from any value to a later one, and the
\* current one the fall from the highest value to the last (drawdown.py:18).
DrawdownIsDeepestFall ==
  \A p \in Portfolios :
    LET series == ValueSeries(p)
        values == [i \in DOMAIN series |-> series[i].value]
        n      == Len(values)
        down   == Drawdown(values)
        Depth(i, j) == <<values[i] - values[j], values[i]>>
    IN  n >= 2 =>
          /\ Same(down.maximum, Greatest({Depth(x[1], x[2]) :
                                  x \in {y \in (1 .. n) \X (1 .. n) : y[1] <= y[2]}}))
          /\ Same(down.current, Greatest({Depth(i, n) : i \in 1 .. n}))
=============================================================================
