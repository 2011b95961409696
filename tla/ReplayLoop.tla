----------------------------- MODULE ReplayLoop -----------------------------
(***************************************************************************)
(* replay_trades as the loop it is: one step per trade of the ordered      *)
(* ledger, each step one branch of the if/elif chain.  The ledger is not   *)
(* fixed in advance: every step takes any trade that may come next in the  *)
(* order, so the behaviours are the replays of all ledgers.                *)
(***************************************************************************)
EXTENDS PositionEngine, Sequences

CONSTANTS
  LoopQuantities,  \* quantities of trade rows (zero is a row's quantity after rounding)
  LoopPrices,      \* prices of trade rows
  LoopTimes,       \* executed_at timestamps
  LoopLength       \* bound on the length of the ledger

ASSUME LoopAssumption ==
  /\ LoopQuantities \subseteq Nat
  /\ LoopPrices \subseteq Nat
  /\ LoopTimes \subseteq Nat \ {NoTime}
  /\ LoopLength \in Nat

VARIABLES
  book,   \* the local variables of replay_trades
  done,   \* the trades already replayed, in order
  net     \* history: signed sum of the replayed quantities

loopVars == <<book, done, net>>

Trade == [trade_type : TradeTypes, quantity : LoopQuantities, price : LoopPrices,
          executed_at : LoopTimes]

LoopInit ==
  /\ book = NoBook
  /\ done = <<>>
  /\ net = 0

\* The ledger is ordered, and the loop has not been left by an exception.
NextInOrder(trade) ==
  /\ ~IsFailure(book)
  /\ Len(done) < LoopLength
  /\ Len(done) > 0 => done[Len(done)].executed_at <= trade.executed_at

Signed(trade) ==
  IF trade.trade_type \in {"BUY", "COVER"} THEN trade.quantity ELSE -trade.quantity

Iterate(trade, after) ==
  /\ NextInOrder(trade)
  /\ book' = after
  /\ done' = Append(done, trade)
  /\ net' = net + Signed(trade)

Buy(trade)   == trade.trade_type = "BUY"   /\ Iterate(trade, Enter("LONG", book, trade))
Sell(trade)  == trade.trade_type = "SELL"  /\ Iterate(trade, Exit("LONG", book, trade))
Short(trade) == trade.trade_type = "SHORT" /\ Iterate(trade, Enter("SHORT", book, trade))
Cover(trade) == trade.trade_type = "COVER" /\ Iterate(trade, Exit("SHORT", book, trade))

LoopNext == \E trade \in Trade : Buy(trade) \/ Sell(trade) \/ Short(trade) \/ Cover(trade)

LoopSpec == LoopInit /\ [][LoopNext]_loopVars
-----------------------------------------------------------------------------
Amount == Int \X (Nat \ {0})

PositionBook ==
  [outcome : {"position"}, position_type : PositionTypes, quantity : Nat,
   average_price : Amount, total_cost : Amount, status : {"OPEN", "CLOSED"},
   opened_at : LoopTimes, closed_at : LoopTimes \cup {NoTime}]

\* Every local of the loop holds a value of its type.
LoopTypeOK ==
  /\ book \in PositionBook \cup {NoBook, Invalid, Undefined}
  /\ done \in Seq(Trade)
  /\ net \in Int

\* The status tells the truth: a book is CLOSED exactly when nothing is held
\* and exactly when it has a closed_at, and it never closes before it opened.
\* A zero-quantity row must not slip an OPEN book with nothing in it past the
\* chain of ifs.
StatusAgrees ==
  IsPosition(book) =>
    /\ book.status = "CLOSED" <=> book.quantity = 0
    /\ book.status = "CLOSED" <=> book.closed_at # NoTime
    /\ book.status = "CLOSED" => book.opened_at <= book.closed_at

\* The loop's case analysis on position_type is bookkeeping for one signed
\* number: what is held is the absolute value of the signed sum of all trades,
\* LONG while it is positive and SHORT while it is negative.
HoldsNet ==
  IsPosition(book) =>
    net = (IF book.position_type = "LONG" THEN book.quantity ELSE -book.quantity)

AtMost(x, y) == x[1] * y[2] <= y[1] * x[2]

\* Index of the trade that opened the current position: the one after the last
\* trade that left nothing held.
Opening ==
  LET held[n \in 0..Len(done)] == IF n = 0 THEN 0 ELSE held[n - 1] + Signed(done[n])
      flat == {n \in 0..Len(done) - 1 : held[n] = 0}
  IN  1 + CHOOSE n \in flat : \A m \in flat : m <= n

EntryPrices ==
  {done[i].price : i \in {j \in Opening..Len(done) : done[j].trade_type \in {"BUY", "SHORT"}}}

\* While a position is open its average price lies between the cheapest and the
\* dearest entry since it was opened: entries before the last close do not leak
\* into it, and exits do not move it out of the range.
AverageWithinEntries ==
  (IsPosition(book) /\ book.status = "OPEN") =>
    /\ \E p \in EntryPrices : AtMost(<<p, 1>>, book.average_price)
    /\ \E p \in EntryPrices : AtMost(book.average_price, <<p, 1>>)
    /\ book.opened_at = done[Opening].executed_at

\* What a ledger must satisfy for its replay not to raise, said without the
\* loop: no trade may carry the signed sum across zero or touch a position of
\* the other type.
LegalAfter(n, trade) ==
  CASE trade.trade_type = "BUY"   -> n >= 0
    [] trade.trade_type = "SELL"  -> n > 0 /\ n >= trade.quantity
    [] trade.trade_type = "SHORT" -> n <= 0
    [] trade.trade_type = "COVER" -> n < 0 /\ -n >= trade.quantity

\* A step raises exactly when the signed sum says so, and divides by zero exactly
\* when it adds nothing to nothing.
RaisesExactly ==
  [][\A trade \in Trade :
       done' = Append(done, trade) =>
         /\ book' = Invalid <=> ~LegalAfter(net, trade)
         /\ book' = Undefined <=> /\ trade.trade_type \in {"BUY", "SHORT"}
                                  /\ net = 0 /\ trade.quantity = 0]_loopVars

\* The position that replay_trades computes from the whole set of trades is the
\* book the loop has reached: sorting by (executed_at, id) and folding is the loop.
Ledger ==
  {[id |-> i, trade_type |-> done[i].trade_type, quantity |-> done[i].quantity,
    price |-> done[i].price, executed_at |-> done[i].executed_at] : i \in 1..Len(done)}

FoldIsTheLoop == Replay(Ledger) = book
=============================================================================
