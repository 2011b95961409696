----------------------------- MODULE TradeTables -----------------------------
(***************************************************************************)
(* What the modules about trades share: the rows of the trades and         *)
(* positions tables, how a value changes when its column stores it, and    *)
(* the reads the services make of them.                                    *)
(***************************************************************************)
EXTENDS PositionEngine, Sequences, FiniteSetsExt

CONSTANTS
  Users,         \* users who may call
  Portfolios,    \* portfolio ids
  Owner,         \* Owner[p]: the user portfolio p belongs to
  Assets,        \* assets in the catalogue
  AssetIds,      \* asset ids a request may name, catalogued or not
  Quantities,    \* requested quantities, in units finer than the column keeps
  Scale,         \* requested units per unit of the Numeric(20, 8) column
  Prices,        \* requested prices
  Times,         \* requested executed_at timestamps
  MaxTrades,     \* bound on the trade ids handed out
  MaxPositions   \* bound on the position ids handed out

ASSUME TablesAssumption ==
  /\ Owner \in [Portfolios -> Users]
  /\ Assets \subseteq AssetIds
  /\ Quantities \subseteq Nat \ {0}
  /\ Scale \in Nat \ {0}
  /\ Prices \subseteq Nat \ {0}
  /\ Times \subseteq Nat \ {NoTime}
  /\ MaxTrades \in Nat
  /\ MaxPositions \in Nat

-----------------------------------------------------------------------------
NoRow == [id |-> 0, book |-> NoBook]

Pairs == Portfolios \X AssetIds

\* PostgreSQL rounds a value to the scale of its column, halves away from zero.
Column(quantity) == ((2 * quantity + Scale) \div (2 * Scale)) * Scale

gcd[m \in Nat, n \in Nat] == IF n = 0 THEN m ELSE gcd[n, m % n]

Lowest(x) == LET g == gcd[x[1], x[2]] IN <<x[1] \div g, x[2] \div g>>

\* Whether the column of an amount rounds it: an average price has eight digits, a total
\* cost those of the quantities.
Rounds(field, amount) ==
  \/ field = "average_price" /\ 100000000 % amount[2] # 0
  \/ field = "total_cost" /\ amount[1] % (Scale * amount[2]) # 0

\* A position as its row holds it.  Equal amounts are one stored value; rounding
\* average_price and total_cost to eight digits is abstracted.
Saved(book) ==
  [book EXCEPT !.average_price = Lowest(@), !.total_cost = Lowest(@)]

\* What a request says about a trade.
TradeData ==
  [asset_id : AssetIds, trade_type : TradeTypes, quantity : Quantities,
   price : Prices, executed_at : Times]

RowOf(id, portfolio, data) ==
  [id |-> id, portfolio_id |-> portfolio, asset_id |-> data.asset_id,
   trade_type |-> data.trade_type, quantity |-> data.quantity,
   price |-> data.price, executed_at |-> data.executed_at]

\* Fields a request leaves out keep the trade's own values.
DataOf(row) ==
  [asset_id |-> row.asset_id, trade_type |-> row.trade_type, quantity |-> row.quantity,
   price |-> row.price, executed_at |-> row.executed_at]

\* What an update may make of the row, with fields given as in inputs: of the values kept,
\* only the stored quantity may be none that a request gives.
EditsOf(row, inputs) ==
  inputs \cup {DataOf(row)} \cup {[data EXCEPT !.quantity = row.quantity] : data \in inputs}

Stored(row) == [row EXCEPT !.quantity = Column(@)]

PairOf(trade) == <<trade.portfolio_id, trade.asset_id>>

\* list_by_portfolio_and_asset
LedgerOf(trades, portfolio, asset) ==
  {t \in trades : t.portfolio_id = portfolio /\ t.asset_id = asset}

\* A variant of Validate: the edited trade is left in.
ValidateKeepingOriginal(trades, candidate, excluded) ==
  LET ledger == LedgerOf(trades, candidate.portfolio_id, candidate.asset_id)
      last   == Max({0} \cup {t.id : t \in ledger})
  IN  Replay(ledger \cup {[candidate EXCEPT !.id = last + 1]})

\* _validate_trade_sequence: the ledger as read, with the candidate in place of
\* the excluded trade and given an id past every id of the ledger.
Validate(trades, candidate, excluded) ==
  LET ledger == LedgerOf(trades, candidate.portfolio_id, candidate.asset_id)
      last   == Max({0} \cup {t.id : t \in ledger})
  IN  Replay({t \in ledger : t.id # excluded} \cup {[candidate EXCEPT !.id = last + 1]})

\* A ValidationError is answered 422, any other exception 500.
StatusOf(book) == IF book = Invalid THEN 422 ELSE 500
=============================================================================
