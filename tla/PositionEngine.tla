--------------------------- MODULE PositionEngine ---------------------------
(***************************************************************************)
(* The replay of a trade ledger into one position                          *)
(* (modules/trade/services/position_engine.py).                            *)
(*                                                                         *)
(* A ledger is a set of trades of one portfolio and asset, each            *)
(*   [id, trade_type, quantity, price, executed_at];                       *)
(* a book is what replay_trades holds between two trades.  Decimal         *)
(* division is exact here: an amount is a fraction <<numerator,            *)
(* denominator>>, so only the rounding to 28 digits is abstracted.         *)
(***************************************************************************)
EXTENDS Integers, Folds

TradeTypes == {"BUY", "SELL", "SHORT", "COVER"}
PositionTypes == {"LONG", "SHORT"}

\* The NULL of closed_at; timestamps are positive.
NoTime == 0

ZeroAmount == <<0, 1>>

\* The three answers of replay_trades that are not a position: None, a
\* ValidationError, and the decimal exception of a division 0 / 0.
NoBook    == [outcome |-> "none"]
Invalid   == [outcome |-> "invalid"]
Undefined == [outcome |-> "undefined"]

IsPosition(book) == book.outcome = "position"
IsFailure(book)  == book.outcome \in {"invalid", "undefined"}

Flat(book) == IsPosition(book) /\ book.status = "CLOSED" /\ book.quantity = 0

\* position_type is None, or the position is closed: the trade opens anew.
Opens(book) == book.outcome = "none" \/ Flat(book)

Book(type, quantity, average, cost, status, opened, closed) ==
  [outcome |-> "position", position_type |-> type, quantity |-> quantity,
   average_price |-> average, total_cost |-> cost, status |-> status,
   opened_at |-> opened, closed_at |-> closed]

OpenedBook(type, time) ==
  Book(type, 0, ZeroAmount, ZeroAmount, "OPEN", time, NoTime)

\* total_cost += quantity * price; quantity += quantity; average = cost / quantity
Increase(book, trade) ==
  LET cost == <<book.total_cost[1] + trade.quantity * trade.price * book.total_cost[2],
                book.total_cost[2]>>
      held == book.quantity + trade.quantity
  IN  IF held = 0
      THEN Undefined
      ELSE Book(book.position_type, held, <<cost[1], cost[2] * held>>, cost,
                book.status, book.opened_at, book.closed_at)

\* total_cost -= quantity * average; quantity -= quantity; closes at zero
Decrease(book, trade) ==
  LET avg  == book.average_price
      cost == book.total_cost
      left == book.quantity - trade.quantity
  IN  IF left = 0
      THEN Book(book.position_type, 0, ZeroAmount, ZeroAmount, "CLOSED",
                book.opened_at, trade.executed_at)
      ELSE Book(book.position_type, left, avg,
                <<cost[1] * avg[2] - trade.quantity * avg[1] * cost[2], cost[2] * avg[2]>>,
                book.status, book.opened_at, book.closed_at)

\* Variants of the definition that follows each of them are plausible bugs: with
\* one in its place, a property of the runs fails.
EnterAnyType(type, book, trade) ==
  IF Opens(book) THEN Increase(OpenedBook(type, trade.executed_at), trade)
  ELSE Increase(book, trade)

EnterReusingTheBook(type, book, trade) ==
  CASE book.outcome = "none" -> Increase(OpenedBook(type, trade.executed_at), trade)
    [] Flat(book) -> Increase([book EXCEPT !.position_type = type, !.status = "OPEN",
                                           !.closed_at = NoTime], trade)
    [] IsPosition(book) /\ ~Flat(book) /\ book.position_type = type -> Increase(book, trade)
    [] OTHER -> Invalid

\* BUY and SHORT: open a position of this type, add to one, or refuse.
Enter(type, book, trade) ==
  CASE Opens(book) -> Increase(OpenedBook(type, trade.executed_at), trade)
    [] ~Opens(book) /\ book.position_type = type -> Increase(book, trade)
    [] OTHER -> Invalid

ExitBeyondHolding(type, book, trade) ==
  IF IsPosition(book) /\ book.position_type = type /\ book.status = "OPEN"
  THEN Decrease(book, trade)
  ELSE Invalid

\* SELL and COVER: only out of an open position of this type, and within it.
Exit(type, book, trade) ==
  IF /\ IsPosition(book)
     /\ book.position_type = type
     /\ book.status = "OPEN"
     /\ book.quantity > 0
     /\ trade.quantity <= book.quantity
  THEN Decrease(book, trade)
  ELSE Invalid

\* One iteration of the loop; an exception ends it.
ApplyTrade(trade, book) ==
  CASE IsFailure(book) -> book
    [] ~IsFailure(book) /\ trade.trade_type = "BUY"   -> Enter("LONG", book, trade)
    [] ~IsFailure(book) /\ trade.trade_type = "SELL"  -> Exit("LONG", book, trade)
    [] ~IsFailure(book) /\ trade.trade_type = "SHORT" -> Enter("SHORT", book, trade)
    [] ~IsFailure(book) /\ trade.trade_type = "COVER" -> Exit("SHORT", book, trade)

PrecedesNewestFirst(t, u) ==
  \/ t.executed_at < u.executed_at
  \/ t.executed_at = u.executed_at /\ t.id > u.id

\* The sort key (executed_at, id).
Precedes(t, u) ==
  \/ t.executed_at < u.executed_at
  \/ t.executed_at = u.executed_at /\ t.id < u.id

Latest(ledger) == CHOOSE t \in ledger : \A u \in ledger \ {t} : Precedes(u, t)

\* replay_trades: the fold applies its outermost element last, hence Latest.
Replay(ledger) ==
  MapThenFoldSet(ApplyTrade, NoBook, LAMBDA t : t, Latest, ledger)
=============================================================================
