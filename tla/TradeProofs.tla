----------------------------- MODULE TradeProofs -----------------------------
(***************************************************************************)
(* The replay of a ledger and the journal of trades, for all quantities,   *)
(* prices and timestamps, ledgers of any length, and every set of users,   *)
(* portfolios and assets.                                                  *)
(***************************************************************************)
EXTENDS ReplayLoop, TradeJournal, ReplayProofs, FiniteSetTheorems, TLAPS

-----------------------------------------------------------------------------
(***************************************************************************)
(* What the replay loop maintains.                                         *)
(***************************************************************************)
\* The status and the signed sum n tell what the book holds.
Truthful(b, n) ==
  IsPosition(b) =>
    /\ b.status = "CLOSED" <=> b.quantity = 0
    /\ b.status = "CLOSED" <=> b.closed_at # NoTime
    /\ b.status = "CLOSED" => b.opened_at <= b.closed_at
    /\ n = (IF b.position_type = "LONG" THEN b.quantity ELSE -b.quantity)

\* A position was opened by a trade already replayed, so a later close cannot
\* precede it; before the first trade nothing is held.
OpenedBefore(b, time) == IsPosition(b) => b.opened_at <= time

LastTime == done[Len(done)].executed_at

\* The inductive invariant: without the order of the ledger a close could
\* precede its opening, and without net = 0 at the start the first trade's sign
\* would not be the sum's.
LoopInv ==
  /\ LoopTypeOK
  /\ Truthful(book, net)
  /\ IsPosition(book) => Len(done) > 0 /\ OpenedBefore(book, LastTime)
  /\ book = NoBook => net = 0

Books == PositionBook \cup {NoBook, Invalid, Undefined}

\* The product of two denominators is a denominator.
LEMMA Denominators == \A m, n \in Nat \ {0} : m * n \in Nat \ {0}
  OBVIOUS

\* A book built from typed parts is typed, is none of the three other answers,
\* and gives its parts back.
LEMMA BookFields ==
  ASSUME NEW type \in PositionTypes, NEW quantity \in Nat, NEW average \in Amount,
         NEW cost \in Amount, NEW status \in {"OPEN", "CLOSED"}, NEW opened \in LoopTimes,
         NEW closed \in LoopTimes \cup {NoTime}
  PROVE  LET b == Book(type, quantity, average, cost, status, opened, closed)
         IN  /\ b \in PositionBook
             /\ IsPosition(b) /\ b # NoBook /\ b # Invalid /\ b # Undefined
             /\ b.position_type = type /\ b.quantity = quantity
             /\ b.status = status /\ b.opened_at = opened /\ b.closed_at = closed
  BY DEF Book, PositionBook, IsPosition, NoBook, Invalid, Undefined

\* Increase adds the quantity to an OPEN book and leaves it OPEN; it is undefined
\* exactly when nothing is added to nothing.
LEMMA IncreaseSound ==
  ASSUME NEW b \in PositionBook, NEW trade \in Trade,
         b.status = "OPEN", b.closed_at = NoTime
  PROVE  LET after == Increase(b, trade)
         IN  IF b.quantity = 0 /\ trade.quantity = 0
             THEN after = Undefined
             ELSE /\ after \in PositionBook
                  /\ IsPosition(after) /\ after # Invalid /\ after # Undefined
                  /\ after.quantity = b.quantity + trade.quantity
                  /\ after.quantity # 0
                  /\ after.status = "OPEN" /\ after.closed_at = NoTime
                  /\ after.opened_at = b.opened_at
                  /\ after.position_type = b.position_type
  <1> DEFINE cost == <<b.total_cost[1] + trade.quantity * trade.price * b.total_cost[2],
                       b.total_cost[2]>>
             held == b.quantity + trade.quantity
             mean == <<cost[1], cost[2] * held>>
  <1>1. trade.quantity \in Nat /\ trade.price \in Nat /\ b.quantity \in Nat
    BY LoopAssumption DEF Trade, PositionBook
  <1>2. b.total_cost[1] \in Int /\ b.total_cost[2] \in Nat \ {0}
    BY DEF PositionBook, Amount
  <1>3. trade.quantity * trade.price * b.total_cost[2] \in Int
    BY <1>1, <1>2
  <1>4. cost \in Amount
    BY <1>2, <1>3 DEF Amount
  <1>5. held \in Nat /\ (held = 0 <=> b.quantity = 0 /\ trade.quantity = 0)
    BY <1>1
  <1>6. CASE held = 0
    BY <1>5, <1>6 DEF Increase
  <1>7. CASE held # 0
    <2>1. cost[2] * held \in Nat \ {0}
      BY <1>2, <1>5, <1>7, Denominators
    <2>2. mean \in Amount
      BY <1>2, <1>3, <2>1 DEF Amount
    <2>3. Increase(b, trade)
            = Book(b.position_type, held, mean, cost, b.status, b.opened_at, b.closed_at)
      BY <1>7 DEF Increase
    <2>4. b.position_type \in PositionTypes /\ b.opened_at \in LoopTimes
      BY DEF PositionBook
    <2> HIDE DEF cost, mean, held
    <2>5. QED
      BY <1>1, <1>4, <1>5, <1>7, <2>2, <2>3, <2>4, BookFields DEF held
  <1>8. QED
    BY <1>6, <1>7

\* Decrease takes the quantity out and closes the book exactly at zero.
LEMMA DecreaseSound ==
  ASSUME NEW b \in PositionBook, NEW trade \in Trade,
         b.status = "OPEN", b.closed_at = NoTime, trade.quantity <= b.quantity
  PROVE  LET after == Decrease(b, trade)
         IN  /\ after \in PositionBook
             /\ IsPosition(after) /\ after # Invalid /\ after # Undefined
             /\ after.quantity = b.quantity - trade.quantity
             /\ after.opened_at = b.opened_at
             /\ after.position_type = b.position_type
             /\ IF after.quantity = 0
                THEN after.status = "CLOSED" /\ after.closed_at = trade.executed_at
                ELSE after.status = "OPEN" /\ after.closed_at = NoTime
  <1> DEFINE avg  == b.average_price
             cost == b.total_cost
             rest == <<cost[1] * avg[2] - trade.quantity * avg[1] * cost[2],
                       cost[2] * avg[2]>>
             left == b.quantity - trade.quantity
  <1>1. trade.quantity \in Nat /\ b.quantity \in Nat /\ trade.executed_at \in LoopTimes
    BY LoopAssumption DEF Trade, PositionBook
  <1>2. left \in Nat
    BY <1>1
  <1>3. avg[1] \in Int /\ avg[2] \in Nat \ {0} /\ cost[1] \in Int /\ cost[2] \in Nat \ {0}
    BY DEF PositionBook, Amount
  <1>4. avg \in Amount /\ ZeroAmount \in Amount
    BY DEF PositionBook, Amount, ZeroAmount
  <1>5. b.position_type \in PositionTypes /\ b.opened_at \in LoopTimes
    BY DEF PositionBook
  <1>6. CASE left = 0
    <2>1. Decrease(b, trade)
            = Book(b.position_type, 0, ZeroAmount, ZeroAmount, "CLOSED",
                   b.opened_at, trade.executed_at)
      BY <1>6 DEF Decrease
    <2>2. QED
      BY <1>1, <1>4, <1>5, <1>6, <2>1, BookFields
  <1>7. CASE left # 0
    <2>1. cost[1] * avg[2] \in Int /\ trade.quantity * avg[1] \in Int
      BY <1>1, <1>3
    <2>2. trade.quantity * avg[1] * cost[2] \in Int
      BY <1>3, <2>1
    <2>3. cost[2] * avg[2] \in Nat \ {0}
      BY <1>3, Denominators
    <2>4. rest \in Amount
      BY <2>1, <2>2, <2>3 DEF Amount
    <2>5. Decrease(b, trade)
            = Book(b.position_type, left, avg, rest, b.status, b.opened_at, b.closed_at)
      BY <1>7 DEF Decrease
    <2>6. b.status \in {"OPEN", "CLOSED"} /\ b.closed_at \in LoopTimes \cup {NoTime}
      BY DEF PositionBook
    <2> HIDE DEF avg, rest, left
    <2>7. PICK type, status, opened, closed, after :
            /\ type = b.position_type /\ status = b.status
            /\ opened = b.opened_at /\ closed = b.closed_at
            /\ after = Book(type, left, avg, rest, status, opened, closed)
      OBVIOUS
    <2>8. /\ after \in PositionBook /\ IsPosition(after) /\ after # Invalid /\ after # Undefined
          /\ after.quantity = left /\ after.opened_at = opened
          /\ after.position_type = type
          /\ after.status = status /\ after.closed_at = closed
      BY <1>2, <1>4, <1>5, <2>4, <2>6, <2>7, BookFields
    <2>9. QED
      BY <1>7, <2>5, <2>7, <2>8 DEF left
  <1>8. QED
    BY <1>6, <1>7

\* A freshly opened book is typed, OPEN and empty.
LEMMA OpenedSound ==
  ASSUME NEW type \in PositionTypes, NEW time \in LoopTimes
  PROVE  LET b == OpenedBook(type, time)
         IN  /\ b \in PositionBook
             /\ b.position_type = type /\ b.quantity = 0
             /\ b.status = "OPEN" /\ b.closed_at = NoTime /\ b.opened_at = time
  <1>1. ZeroAmount \in Amount
    BY DEF Amount, ZeroAmount
  <1>2. QED
    BY <1>1, BookFields DEF OpenedBook

Sign(type) == IF type = "LONG" THEN 1 ELSE -1

\* A BUY (type LONG) or SHORT (type SHORT) of a truthful book: refused exactly when
\* the signed sum has the other sign, undefined exactly on nothing plus nothing,
\* truthful for the new signed sum otherwise.
LEMMA EnterSound ==
  ASSUME NEW b \in Books, NEW n \in Int, NEW trade \in Trade,
         NEW type \in PositionTypes,
         ~IsFailure(b), Truthful(b, n), b = NoBook => n = 0,
         OpenedBefore(b, trade.executed_at)
  PROVE  LET after == Enter(type, b, trade)
             m     == n + Sign(type) * trade.quantity
         IN  /\ after \in Books /\ after # NoBook
             /\ after = Invalid <=> Sign(type) * n < 0
             /\ after = Undefined <=> n = 0 /\ trade.quantity = 0
             /\ Truthful(after, m)
             /\ OpenedBefore(after, trade.executed_at)
  <1>1. /\ trade.quantity \in Nat /\ trade.executed_at \in LoopTimes
        /\ trade.executed_at \in Nat /\ trade.executed_at # NoTime
    BY LoopAssumption DEF Trade
  <1>2. ~IsPosition(Invalid) /\ ~IsPosition(Undefined) /\ ~IsPosition(NoBook)
        /\ Invalid # Undefined /\ Invalid # NoBook /\ Undefined # NoBook
    BY DEF IsPosition, Invalid, Undefined, NoBook
  <1>3. CASE Opens(b)
    <2> DEFINE o == OpenedBook(type, trade.executed_at)
    <2>1. n = 0
      <3>1. CASE b = NoBook
        BY <3>1
      <3>2. CASE b # NoBook
        <4>1. b \in PositionBook /\ IsPosition(b) /\ b.quantity = 0
          BY <1>3, <3>2 DEF Opens, Flat, Books, IsPosition, IsFailure, NoBook,
                            Invalid, Undefined, PositionBook
        <4>2. QED
          BY <4>1 DEF Truthful
      <3>3. QED
        BY <3>1, <3>2
    <2>2. /\ o \in PositionBook /\ o.position_type = type /\ o.quantity = 0
          /\ o.status = "OPEN" /\ o.closed_at = NoTime /\ o.opened_at = trade.executed_at
      BY <1>1, OpenedSound
    <2>3. Enter(type, b, trade) = Increase(o, trade)
      BY <1>3 DEF Enter
    <2> HIDE DEF o
    <2>4. IF trade.quantity = 0
          THEN Increase(o, trade) = Undefined
          ELSE /\ Increase(o, trade) \in PositionBook
               /\ IsPosition(Increase(o, trade))
               /\ Increase(o, trade) # Invalid /\ Increase(o, trade) # Undefined
               /\ Increase(o, trade).quantity = trade.quantity
               /\ Increase(o, trade).status = "OPEN"
               /\ Increase(o, trade).closed_at = NoTime
               /\ Increase(o, trade).opened_at = trade.executed_at
               /\ Increase(o, trade).position_type = type
      BY <1>1, <2>2, IncreaseSound
    <2>5. QED
      BY <1>1, <1>2, <2>1, <2>3, <2>4
      DEF Books, Truthful, OpenedBefore, Sign, PositionTypes
  <1>4. CASE ~Opens(b)
    <2>1. b \in PositionBook /\ IsPosition(b)
      BY <1>4 DEF Opens, Books, IsPosition, IsFailure, NoBook, Invalid, Undefined,
                  PositionBook
    <2>2. /\ b.quantity \in Nat /\ b.status \in {"OPEN", "CLOSED"}
          /\ b.position_type \in PositionTypes /\ b.opened_at \in Nat
      BY <2>1, LoopAssumption DEF PositionBook
    <2>3. b.quantity # 0 /\ b.status = "OPEN" /\ b.closed_at = NoTime
      BY <1>4, <2>1, <2>2 DEF Opens, Flat, Truthful
    <2>4. CASE b.position_type = type
      <3>1. Enter(type, b, trade) = Increase(b, trade)
        BY <1>4, <2>4 DEF Enter
      <3>2. /\ Increase(b, trade) \in PositionBook
            /\ IsPosition(Increase(b, trade))
            /\ Increase(b, trade) # Invalid /\ Increase(b, trade) # Undefined
            /\ Increase(b, trade).quantity = b.quantity + trade.quantity
            /\ Increase(b, trade).quantity # 0
            /\ Increase(b, trade).status = "OPEN"
            /\ Increase(b, trade).closed_at = NoTime
            /\ Increase(b, trade).opened_at = b.opened_at
            /\ Increase(b, trade).position_type = b.position_type
        BY <2>1, <2>3, IncreaseSound
      <3>3. QED
        BY <1>1, <1>2, <2>1, <2>2, <2>3, <2>4, <3>1, <3>2
        DEF Books, Truthful, OpenedBefore, Sign, PositionTypes
    <2>5. CASE b.position_type # type
      <3>1. Enter(type, b, trade) = Invalid
        BY <1>4, <2>5 DEF Enter
      <3>2. Sign(type) * n < 0
        BY <2>1, <2>2, <2>3, <2>5 DEF Truthful, Sign, PositionTypes
      <3>3. QED
        BY <1>2, <3>1, <3>2 DEF Books, Truthful, OpenedBefore, Sign
    <2>6. QED
      BY <2>4, <2>5
  <1>5. QED
    BY <1>3, <1>4

\* A SELL (type LONG) or COVER (type SHORT) of a truthful book: refused unless the
\* signed sum covers it, truthful for the new signed sum otherwise.
LEMMA ExitSound ==
  ASSUME NEW b \in Books, NEW n \in Int, NEW trade \in Trade,
         NEW type \in PositionTypes,
         ~IsFailure(b), Truthful(b, n), b = NoBook => n = 0,
         OpenedBefore(b, trade.executed_at)
  PROVE  LET after == Exit(type, b, trade)
             m     == n - Sign(type) * trade.quantity
         IN  /\ after \in Books /\ after # NoBook /\ after # Undefined
             /\ after # Invalid <=> /\ Sign(type) * n > 0
                                    /\ Sign(type) * n >= trade.quantity
             /\ Truthful(after, m)
             /\ OpenedBefore(after, trade.executed_at)
  <1>1. /\ trade.quantity \in Nat /\ trade.executed_at \in LoopTimes
        /\ trade.executed_at \in Nat /\ trade.executed_at # NoTime
    BY LoopAssumption DEF Trade
  <1>2. ~IsPosition(Invalid) /\ ~IsPosition(NoBook)
        /\ Invalid # Undefined /\ Invalid # NoBook
    BY DEF IsPosition, Invalid, Undefined, NoBook
  <1>3. CASE b = NoBook
    <2>1. Exit(type, b, trade) = Invalid
      BY <1>2, <1>3 DEF Exit
    <2>2. QED
      BY <1>1, <1>2, <1>3, <2>1 DEF Books, Truthful, OpenedBefore, Sign
  <1>4. CASE b # NoBook
    <2>1. b \in PositionBook /\ IsPosition(b)
      BY <1>4 DEF Books, IsPosition, IsFailure, NoBook, Invalid, Undefined, PositionBook
    <2>2. /\ b.quantity \in Nat /\ b.status \in {"OPEN", "CLOSED"}
          /\ b.position_type \in PositionTypes /\ b.opened_at \in Nat
      BY <2>1, LoopAssumption DEF PositionBook
    <2> DEFINE Leaves == /\ b.position_type = type /\ b.status = "OPEN"
                         /\ b.quantity > 0 /\ trade.quantity <= b.quantity
    <2>3. Leaves <=> Sign(type) * n > 0 /\ Sign(type) * n >= trade.quantity
      BY <1>1, <2>1, <2>2 DEF Truthful, Sign, PositionTypes
    <2>4. CASE Leaves
      <3>1. b.closed_at = NoTime
        BY <2>1, <2>4 DEF Truthful
      <3>2. Exit(type, b, trade) = Decrease(b, trade)
        BY <2>1, <2>4 DEF Exit
      <3>3. /\ Decrease(b, trade) \in PositionBook
            /\ IsPosition(Decrease(b, trade))
            /\ Decrease(b, trade) # Invalid /\ Decrease(b, trade) # Undefined
            /\ Decrease(b, trade).quantity = b.quantity - trade.quantity
            /\ Decrease(b, trade).opened_at = b.opened_at
            /\ Decrease(b, trade).position_type = b.position_type
            /\ IF Decrease(b, trade).quantity = 0
               THEN /\ Decrease(b, trade).status = "CLOSED"
                    /\ Decrease(b, trade).closed_at = trade.executed_at
               ELSE /\ Decrease(b, trade).status = "OPEN"
                    /\ Decrease(b, trade).closed_at = NoTime
        BY <2>1, <2>4, <3>1, DecreaseSound
      <3>4. Decrease(b, trade) # NoBook
        BY <3>3, <1>2
      <3>5. Truthful(Decrease(b, trade), n - Sign(type) * trade.quantity)
        BY <1>1, <2>1, <2>2, <2>4, <3>3 DEF Truthful, OpenedBefore, Sign, PositionTypes
      <3>6. QED
        BY <2>1, <2>3, <2>4, <3>2, <3>3, <3>4, <3>5 DEF Books, OpenedBefore
    <2>5. CASE ~Leaves
      <3>1. Exit(type, b, trade) = Invalid
        BY <2>1, <2>5 DEF Exit
      <3>2. QED
        BY <1>2, <2>3, <2>5, <3>1 DEF Books, Truthful, OpenedBefore
    <2>6. QED
      BY <2>4, <2>5
  <1>5. QED
    BY <1>3, <1>4
-----------------------------------------------------------------------------
\* One iteration keeps the invariant and answers as RaisesExactly says.
LEMMA StepSound ==
  ASSUME LoopInv, NEW trade \in Trade,
         Buy(trade) \/ Sell(trade) \/ Short(trade) \/ Cover(trade)
  PROVE  /\ LoopInv'
         /\ done' = Append(done, trade)
         /\ book' = Invalid <=> ~LegalAfter(net, trade)
         /\ book' = Undefined <=> /\ trade.trade_type \in {"BUY", "SHORT"}
                                  /\ net = 0 /\ trade.quantity = 0
  <1>1. /\ book \in Books /\ net \in Int /\ done \in Seq(Trade)
        /\ Truthful(book, net)
        /\ book = NoBook => net = 0
        /\ IsPosition(book) => Len(done) > 0 /\ OpenedBefore(book, LastTime)
    BY DEF LoopInv, LoopTypeOK, Books
  <1>2. trade.quantity \in Nat /\ trade.executed_at \in Nat
    BY LoopAssumption DEF Trade
  <1>3. NextInOrder(trade) /\ done' = Append(done, trade) /\ net' = net + Signed(trade)
    BY DEF Buy, Sell, Short, Cover, Iterate
  <1>4. ~IsFailure(book)
    BY <1>3 DEF NextInOrder
  <1>5. OpenedBefore(book, trade.executed_at)
    <2>1. SUFFICES ASSUME IsPosition(book) PROVE book.opened_at <= trade.executed_at
      BY DEF OpenedBefore
    <2>2. book \in PositionBook
      BY <1>1, <2>1 DEF Books, IsPosition, NoBook, Invalid, Undefined, PositionBook
    <2>3. /\ book.opened_at \in Nat /\ Len(done) > 0
          /\ book.opened_at <= LastTime /\ LastTime <= trade.executed_at
      BY <1>1, <1>3, <2>1, <2>2, LoopAssumption
      DEF PositionBook, OpenedBefore, NextInOrder, LastTime
    <2>4. done[Len(done)] \in Trade
      BY <1>1, <2>3
    <2>5. LastTime \in Nat
      BY <2>4, LoopAssumption DEF LastTime, Trade
    <2>6. QED
      BY <1>2, <2>3, <2>5
  <1>6. /\ done' \in Seq(Trade) /\ Len(done') > 0
        /\ LastTime' = trade.executed_at
    BY <1>1, <1>3 DEF LastTime
  <1>7. /\ book' \in Books /\ book' # NoBook
        /\ Truthful(book', net') /\ net' \in Int
        /\ OpenedBefore(book', trade.executed_at)
        /\ book' = Invalid <=> ~LegalAfter(net, trade)
        /\ book' = Undefined <=> /\ trade.trade_type \in {"BUY", "SHORT"}
                                 /\ net = 0 /\ trade.quantity = 0
    <2>1. CASE Buy(trade)
      <3>1. trade.trade_type = "BUY" /\ book' = Enter("LONG", book, trade)
        BY <2>1 DEF Buy, Iterate
      <3>2. "LONG" \in PositionTypes
        BY DEF PositionTypes
      <3>3. /\ Enter("LONG", book, trade) \in Books
            /\ Enter("LONG", book, trade) # NoBook
            /\ Enter("LONG", book, trade) = Invalid <=> Sign("LONG") * net < 0
            /\ Enter("LONG", book, trade) = Undefined <=> net = 0 /\ trade.quantity = 0
            /\ Truthful(Enter("LONG", book, trade), net + Sign("LONG") * trade.quantity)
            /\ OpenedBefore(Enter("LONG", book, trade), trade.executed_at)
        BY <1>1, <1>4, <1>5, <3>2, EnterSound
      <3>4. /\ net' = net + Sign("LONG") * trade.quantity /\ net' \in Int
            /\ Sign("LONG") * net = net
        BY <1>1, <1>2, <1>3, <3>1 DEF Signed, Sign
      <3>5. /\ book' \in Books /\ book' # NoBook /\ Truthful(book', net') /\ net' \in Int
            /\ OpenedBefore(book', trade.executed_at)
        BY <3>1, <3>3, <3>4
      <3>6. book' = Invalid <=> ~LegalAfter(net, trade)
        BY <1>1, <1>2, <3>1, <3>3, <3>4 DEF LegalAfter
      <3>7. book' = Undefined <=> /\ trade.trade_type \in {"BUY", "SHORT"}
                                  /\ net = 0 /\ trade.quantity = 0
        BY <3>1, <3>3
      <3>8. QED
        BY <3>4, <3>5, <3>6, <3>7
    <2>2. CASE Sell(trade)
      <3>1. trade.trade_type = "SELL" /\ book' = Exit("LONG", book, trade)
        BY <2>2 DEF Sell, Iterate
      <3>2. "LONG" \in PositionTypes
        BY DEF PositionTypes
      <3>3. /\ Exit("LONG", book, trade) \in Books
            /\ Exit("LONG", book, trade) # NoBook
            /\ Exit("LONG", book, trade) # Undefined
            /\ Exit("LONG", book, trade) # Invalid
                 <=> Sign("LONG") * net > 0 /\ Sign("LONG") * net >= trade.quantity
            /\ Truthful(Exit("LONG", book, trade), net - Sign("LONG") * trade.quantity)
            /\ OpenedBefore(Exit("LONG", book, trade), trade.executed_at)
        BY <1>1, <1>4, <1>5, <3>2, ExitSound
      <3>4. /\ net' = net - Sign("LONG") * trade.quantity /\ net' \in Int
            /\ Sign("LONG") * net = net
        BY <1>1, <1>2, <1>3, <3>1 DEF Signed, Sign
      <3>5. /\ book' \in Books /\ book' # NoBook /\ Truthful(book', net') /\ net' \in Int
            /\ OpenedBefore(book', trade.executed_at)
        BY <3>1, <3>3, <3>4
      <3>6. book' = Invalid <=> ~LegalAfter(net, trade)
        BY <1>1, <1>2, <3>1, <3>3, <3>4 DEF LegalAfter
      <3>7. book' = Undefined <=> /\ trade.trade_type \in {"BUY", "SHORT"}
                                  /\ net = 0 /\ trade.quantity = 0
        BY <3>1, <3>3
      <3>8. QED
        BY <3>4, <3>5, <3>6, <3>7
    <2>3. CASE Short(trade)
      <3>1. trade.trade_type = "SHORT" /\ book' = Enter("SHORT", book, trade)
        BY <2>3 DEF Short, Iterate
      <3>2. "SHORT" \in PositionTypes
        BY DEF PositionTypes
      <3>3. /\ Enter("SHORT", book, trade) \in Books
            /\ Enter("SHORT", book, trade) # NoBook
            /\ Enter("SHORT", book, trade) = Invalid <=> Sign("SHORT") * net < 0
            /\ Enter("SHORT", book, trade) = Undefined <=> net = 0 /\ trade.quantity = 0
            /\ Truthful(Enter("SHORT", book, trade), net + Sign("SHORT") * trade.quantity)
            /\ OpenedBefore(Enter("SHORT", book, trade), trade.executed_at)
        BY <1>1, <1>4, <1>5, <3>2, EnterSound
      <3>4. /\ net' = net + Sign("SHORT") * trade.quantity /\ net' \in Int
            /\ Sign("SHORT") * net = -net
        BY <1>1, <1>2, <1>3, <3>1 DEF Signed, Sign
      <3>5. /\ book' \in Books /\ book' # NoBook /\ Truthful(book', net') /\ net' \in Int
            /\ OpenedBefore(book', trade.executed_at)
        BY <3>1, <3>3, <3>4
      <3>6. book' = Invalid <=> ~LegalAfter(net, trade)
        BY <1>1, <1>2, <3>1, <3>3, <3>4 DEF LegalAfter
      <3>7. book' = Undefined <=> /\ trade.trade_type \in {"BUY", "SHORT"}
                                  /\ net = 0 /\ trade.quantity = 0
        BY <3>1, <3>3
      <3>8. QED
        BY <3>4, <3>5, <3>6, <3>7
    <2>4. CASE Cover(trade)
      <3>1. trade.trade_type = "COVER" /\ book' = Exit("SHORT", book, trade)
        BY <2>4 DEF Cover, Iterate
      <3>2. "SHORT" \in PositionTypes
        BY DEF PositionTypes
      <3>3. /\ Exit("SHORT", book, trade) \in Books
            /\ Exit("SHORT", book, trade) # NoBook
            /\ Exit("SHORT", book, trade) # Undefined
            /\ Exit("SHORT", book, trade) # Invalid
                 <=> Sign("SHORT") * net > 0 /\ Sign("SHORT") * net >= trade.quantity
            /\ Truthful(Exit("SHORT", book, trade), net - Sign("SHORT") * trade.quantity)
            /\ OpenedBefore(Exit("SHORT", book, trade), trade.executed_at)
        BY <1>1, <1>4, <1>5, <3>2, ExitSound
      <3>4. /\ net' = net - Sign("SHORT") * trade.quantity /\ net' \in Int
            /\ Sign("SHORT") * net = -net
        BY <1>1, <1>2, <1>3, <3>1 DEF Signed, Sign
      <3>5. /\ book' \in Books /\ book' # NoBook /\ Truthful(book', net') /\ net' \in Int
            /\ OpenedBefore(book', trade.executed_at)
        BY <3>1, <3>3, <3>4
      <3>6. book' = Invalid <=> ~LegalAfter(net, trade)
        BY <1>1, <1>2, <3>1, <3>3, <3>4 DEF LegalAfter
      <3>7. book' = Undefined <=> /\ trade.trade_type \in {"BUY", "SHORT"}
                                  /\ net = 0 /\ trade.quantity = 0
        BY <3>1, <3>3
      <3>8. QED
        BY <3>4, <3>5, <3>6, <3>7
    <2>5. QED
      BY <2>1, <2>2, <2>3, <2>4
  <1>8. LoopInv'
    BY <1>6, <1>7 DEF LoopInv, LoopTypeOK, Books, OpenedBefore
  <1>9. QED
    BY <1>3, <1>7, <1>8

LEMMA LoopInductive == LoopSpec => []LoopInv
  <1>1. LoopInit => LoopInv
    BY DEF LoopInit, LoopInv, LoopTypeOK, Truthful, IsPosition, NoBook
  <1>2. LoopInv /\ [LoopNext]_loopVars => LoopInv'
    <2>1. ASSUME LoopInv, LoopNext PROVE LoopInv'
      BY <2>1, StepSound DEF LoopNext
    <2>2. ASSUME LoopInv, UNCHANGED loopVars PROVE LoopInv'
      BY <2>2 DEF loopVars, LoopInv, LoopTypeOK, LastTime
    <2>3. QED
      BY <2>1, <2>2
  <1>3. QED
    BY <1>1, <1>2, PTL DEF LoopSpec

\* Every local of replay_trades has a value of its type, for every ledger.
THEOREM LoopTyped == LoopSpec => []LoopTypeOK
  <1>1. LoopInv => LoopTypeOK
    BY DEF LoopInv
  <1>2. QED
    BY <1>1, LoopInductive, PTL

\* For every ledger the status, the quantity and closed_at of the book agree.
THEOREM StatusAlwaysAgrees == LoopSpec => []StatusAgrees
  <1>1. LoopInv => StatusAgrees
    BY DEF LoopInv, Truthful, StatusAgrees
  <1>2. QED
    BY <1>1, LoopInductive, PTL

\* For every ledger what is held is the signed sum of the trades.
THEOREM AlwaysHoldsNet == LoopSpec => []HoldsNet
  <1>1. LoopInv => HoldsNet
    BY DEF LoopInv, Truthful, HoldsNet
  <1>2. QED
    BY <1>1, LoopInductive, PTL

\* For every ledger the replay raises exactly where the signed sum says it must.
THEOREM AlwaysRaisesExactly == LoopSpec => RaisesExactly
  <1>1. ASSUME LoopInv, [LoopNext]_loopVars
        PROVE  [\A trade \in Trade :
                  done' = Append(done, trade) =>
                    /\ book' = Invalid <=> ~LegalAfter(net, trade)
                    /\ book' = Undefined <=> /\ trade.trade_type \in {"BUY", "SHORT"}
                                             /\ net = 0 /\ trade.quantity = 0]_loopVars
    <2>1. CASE UNCHANGED loopVars
      BY <2>1
    <2>2. CASE LoopNext
      <3>1. PICK taken \in Trade : Buy(taken) \/ Sell(taken) \/ Short(taken) \/ Cover(taken)
        BY <2>2 DEF LoopNext
      <3>2. ASSUME NEW trade \in Trade, done' = Append(done, trade) PROVE trade = taken
        <4>1. done \in Seq(Trade) /\ Append(done, trade) = Append(done, taken)
          BY <1>1, <3>1, <3>2, StepSound DEF LoopInv, LoopTypeOK
        <4>2. QED
          BY <4>1
      <3>3. QED
        BY <1>1, <3>1, <3>2, StepSound
    <2>3. QED
      BY <1>1, <2>1, <2>2
  <1>2. QED
    BY <1>1, LoopInductive, PTL DEF LoopSpec, RaisesExactly

-----------------------------------------------------------------------------
(***************************************************************************)
(* The fold is the loop.                                                   *)
(***************************************************************************)
RowOfLoop(d, i) ==
  [id |-> i, trade_type |-> d[i].trade_type, quantity |-> d[i].quantity,
   price |-> d[i].price, executed_at |-> d[i].executed_at]

RowsOfLoop(d) == {RowOfLoop(d, i) : i \in 1..Len(d)}

Ascending(d) ==
  \A i, j \in 1..Len(d) : i <= j => d[i].executed_at <= d[j].executed_at

LEMMA TimesOfLoop ==
  /\ \A trade \in Trade : trade.executed_at \in Nat
  /\ \A d \in Seq(Trade) : Len(d) \in Nat /\ \A i \in 1..Len(d) : d[i].executed_at \in Nat
<1>1. \A trade \in Trade : trade.executed_at \in Nat
  BY LoopAssumption DEF Trade
<1>2. \A d \in Seq(Trade) : Len(d) \in Nat /\ \A i \in 1..Len(d) : d[i] \in Trade
  OBVIOUS
<1> QED
  BY <1>1, <1>2

LEMMA RowsAreALedger ==
  ASSUME NEW d \in Seq(Trade)
  PROVE  IsLedger(RowsOfLoop(d))
<1>1. Len(d) \in Nat /\ \A i \in 1..Len(d) : d[i].executed_at \in Nat
  BY TimesOfLoop
<1>2. IsFiniteSet(RowsOfLoop(d))
  <2> DEFINE f == [t \in RowsOfLoop(d) |-> t.id]
  <2>1. \A t, u \in RowsOfLoop(d) : t.id \in 1..Len(d) /\ (t.id = u.id => t = u)
    BY DEF RowsOfLoop, RowOfLoop
  <2>3. f \in [RowsOfLoop(d) -> 1..Len(d)]
    BY <2>1
  <2>4. \A t, u \in RowsOfLoop(d) : f[t] = f[u] => t = u
    BY <2>1
  <2> HIDE DEF f
  <2>5. f \in Injection(RowsOfLoop(d), 1..Len(d))
    BY <2>3, <2>4 DEF Injection, IsInjective
  <2>2. IsFiniteSet(1..Len(d))
    BY <1>1, FS_Interval
  <2> QED
    BY <2>2, <2>5, FS_Injection
<1> QED
  BY <1>1, <1>2 DEF IsLedger, RowsOfLoop, RowOfLoop

LEMMA RowsWith ==
  ASSUME NEW d \in Seq(Trade), Ascending(d), NEW trade \in Trade,
         Len(d) > 0 => d[Len(d)].executed_at <= trade.executed_at
  PROVE  /\ Ascending(Append(d, trade))
         /\ LET L == RowsOfLoop(Append(d, trade))
            IN  /\ L # {} /\ SameTrade(Latest(L), trade)
                /\ L \ {Latest(L)} = RowsOfLoop(d)
<1> DEFINE e == Append(d, trade)
           n == Len(d) + 1
           x == RowOfLoop(e, n)
<1>1. Len(d) \in Nat
  OBVIOUS
<1>2. /\ e \in Seq(Trade) /\ Len(e) = n /\ e[n] = trade
      /\ \A i \in 1..Len(d) : e[i] = d[i]
  OBVIOUS
<1>3. 1..n = 1..Len(d) \cup {n} /\ n \notin 1..Len(d)
  BY <1>1
<1>4. \A i \in 1..Len(d) : d[i].executed_at \in Nat /\ d[i].executed_at <= trade.executed_at
  <2> TAKE i \in 1..Len(d)
  <2>0. Len(d) > 0 /\ Len(d) \in 1..Len(d)
    BY <1>1
  <2>1. /\ d[i].executed_at \in Nat /\ d[Len(d)].executed_at \in Nat /\ trade.executed_at \in Nat
        /\ Len(d) > 0 /\ Len(d) \in 1..Len(d)
    BY <2>0, TimesOfLoop
  <2>2. d[i].executed_at <= d[Len(d)].executed_at
    BY <1>1, <2>1 DEF Ascending
  <2> QED
    BY <2>1, <2>2
<1>5. trade.executed_at \in Nat
  BY LoopAssumption DEF Trade
<1> HIDE DEF e
<1>6. Ascending(e)
  <2> SUFFICES ASSUME NEW i \in 1..n, NEW j \in 1..n, i <= j
               PROVE  e[i].executed_at <= e[j].executed_at
    BY <1>2 DEF Ascending
  <2>1. CASE j = n
    BY <1>2, <1>3, <1>4, <1>5, <2>1
  <2>2. CASE j # n
    <3>1. i \in 1..Len(d) /\ j \in 1..Len(d)
      BY <1>1, <2>2
    <3> QED
      BY <1>2, <3>1 DEF Ascending
  <2> QED
    BY <2>1, <2>2
<1>7. \A i \in 1..Len(d) : RowOfLoop(e, i) = RowOfLoop(d, i)
  BY <1>2 DEF RowOfLoop
<1>8. RowsOfLoop(e) = RowsOfLoop(d) \cup {x}
  BY <1>2, <1>3, <1>7 DEF RowsOfLoop
<1>9. x \notin RowsOfLoop(d)
  BY <1>3 DEF RowsOfLoop, RowOfLoop
<1>10. SameTrade(x, trade)
  BY <1>2 DEF RowOfLoop, SameTrade
<1>11. Latest(RowsOfLoop(e)) = x
  <2>1. IsLedger(RowsOfLoop(e))
    BY <1>2, RowsAreALedger
  <2>2. ASSUME NEW u \in RowsOfLoop(d) PROVE Precedes(u, x)
    <3>1. PICK i \in 1..Len(d) : u = RowOfLoop(d, i)
      BY DEF RowsOfLoop
    <3>2. u.id = i /\ u.executed_at = d[i].executed_at /\ x.id = n /\ x.executed_at = trade.executed_at
      BY <1>2, <3>1 DEF RowOfLoop
    <3>3. i < n
      BY <1>1
    <3> HIDE DEF x, n
    <3> QED
      BY <1>4, <1>5, <3>2, <3>3 DEF Precedes
  <2> HIDE DEF x
  <2>3. \A u \in RowsOfLoop(e) \ {x} : Precedes(u, x)
    BY <1>8, <2>2
  <2>4. x \in RowsOfLoop(e)
    BY <1>8
  <2> QED
    BY <2>1, <2>3, <2>4, LatestIsOnly
<1> HIDE DEF x
<1> QED
  BY <1>6, <1>8, <1>9, <1>10, <1>11 DEF e

FoldInv == LoopTypeOK /\ Ascending(done) /\ FoldIsTheLoop

LEMMA LedgerIsRows == Ledger = RowsOfLoop(done)
  BY DEF Ledger, RowsOfLoop, RowOfLoop

LEMMA FoldBegins == LoopInit => Ascending(done) /\ FoldIsTheLoop
<1> SUFFICES ASSUME LoopInit PROVE Ascending(done) /\ FoldIsTheLoop
  OBVIOUS
<1>1. RowsOfLoop(done) = {}
  BY DEF LoopInit, RowsOfLoop
<1>2. IsLedger({})
  BY FS_EmptySet DEF IsLedger
<1>3. Replay({}) = NoBook
  BY <1>2, ReplayUnfolds
<1>4. Ascending(done)
  BY DEF LoopInit, Ascending
<1> QED
  BY <1>1, <1>3, <1>4, LedgerIsRows DEF LoopInit, FoldIsTheLoop

LEMMA FoldKept ==
  ASSUME FoldInv, LoopTypeOK', [LoopNext]_loopVars
  PROVE  FoldInv'
<1>1. CASE UNCHANGED loopVars
  BY <1>1 DEF FoldInv, loopVars, Ascending, FoldIsTheLoop, Ledger
<1>2. CASE LoopNext
  <2>1. PICK trade \in Trade : /\ NextInOrder(trade)
                              /\ done' = Append(done, trade)
                              /\ book' = ApplyTrade(trade, book)
    <3>1. PICK trade \in Trade : Buy(trade) \/ Sell(trade) \/ Short(trade) \/ Cover(trade)
      BY <1>2 DEF LoopNext
    <3>2. NextInOrder(trade) /\ done' = Append(done, trade) /\ ~IsFailure(book)
      BY <3>1 DEF Buy, Sell, Short, Cover, Iterate, NextInOrder
    <3>3. book' = ApplyTrade(trade, book)
      BY <3>1, <3>2 DEF Buy, Sell, Short, Cover, Iterate, ApplyTrade
    <3> QED
      BY <3>2, <3>3
  <2>2. PICK d \in Seq(Trade) : d = done
    BY DEF FoldInv, LoopTypeOK
  <2>3. PICK e : e = Append(d, trade)
    OBVIOUS
  <2>4. PICK L : L = RowsOfLoop(e)
    OBVIOUS
  <2>5. /\ Ascending(d)
        /\ Len(d) > 0 => d[Len(d)].executed_at <= trade.executed_at
    BY <2>1, <2>2 DEF FoldInv, NextInOrder
  <2>6. /\ Ascending(e) /\ L # {} /\ SameTrade(Latest(L), trade)
        /\ L \ {Latest(L)} = RowsOfLoop(d)
    BY <2>2, <2>3, <2>4, <2>5, RowsWith
  <2>12. e \in Seq(Trade)
    BY <2>2, <2>3
  <2>7. IsLedger(L)
    BY <2>12, <2>2, <2>3, <2>4, RowsAreALedger
  <2>8. Replay(L) = ApplyTrade(Latest(L), Replay(RowsOfLoop(d)))
    BY <2>6, <2>7, ReplayUnfolds
  <2>9. Replay(RowsOfLoop(d)) = book
    BY <2>2, LedgerIsRows DEF FoldInv, FoldIsTheLoop
  <2>10. Replay(L) = ApplyTrade(trade, book)
    BY <2>6, <2>8, <2>9, IdsDoNotCount
  <2>11. Ledger' = L
    BY <2>1, <2>2, <2>3, <2>4 DEF Ledger, RowsOfLoop, RowOfLoop
  <2> QED
    BY <2>1, <2>2, <2>3, <2>6, <2>10, <2>11 DEF FoldInv, FoldIsTheLoop
<1> QED
  BY <1>1, <1>2

\* For every ledger: sorting the trades by (executed_at, id) and folding them is
\* what the loop of replay_trades computes one trade at a time.
THEOREM FoldAlwaysIsTheLoop == LoopSpec => []FoldIsTheLoop
<1>1. LoopInit /\ LoopTypeOK => FoldInv
  BY FoldBegins DEF FoldInv
<1>2. FoldInv /\ LoopTypeOK' /\ [LoopNext]_loopVars => FoldInv'
  BY FoldKept
<1>3. FoldInv => FoldIsTheLoop
  BY DEF FoldInv
<1> QED
  BY <1>1, <1>2, <1>3, LoopTyped, PTL DEF LoopSpec

-----------------------------------------------------------------------------
(***************************************************************************)
(* The average price.                                                      *)
(***************************************************************************)
\* Products of integers, step by step.
LEMMA TimesInt == \A x, y \in Int : x * y \in Int
  OBVIOUS

LEMMA TimesMonotone ==
  ASSUME NEW x \in Int, NEW y \in Int, NEW c \in Nat
  PROVE  /\ x <= y => x * c <= y * c
         /\ c > 0 /\ x * c <= y * c => x <= y
<1>1. x <= y => x * c <= y * c
  <2> SUFFICES ASSUME x <= y PROVE x * c <= y * c
    OBVIOUS
  <2>1. PICK d \in Nat : y = x + d
    <3>1. y - x \in Nat /\ y = x + (y - x)
      OBVIOUS
    <3> QED
      BY <3>1
  <2>2. d * c \in Nat /\ y * c = x * c + d * c
    BY <2>1
  <2> QED
    BY <2>2
<1>2. ASSUME c > 0, x * c <= y * c, y < x
      PROVE  FALSE
  <2>1. PICK d \in Nat \ {0} : x = y + d
    <3>1. x - y \in Nat \ {0} /\ x = y + (x - y)
      BY <1>2
    <3> QED
      BY <3>1
  <2>2. d * c \in Nat \ {0} /\ x * c = y * c + d * c
    BY <1>2, <2>1
  <2> QED
    BY <1>2, <2>2
<1> QED
  BY <1>1, <1>2

\* The mean of what is held, cost c1 / c2 = q * a1 / a2, and t more at price p is
\* at least the least of the two prices.
LEMMA MeanRises ==
  ASSUME NEW c1 \in Int, NEW c2 \in Nat \ {0}, NEW a1 \in Int, NEW a2 \in Nat \ {0},
         NEW q \in Nat, NEW t \in Nat, NEW p \in Nat, NEW m \in Nat,
         c1 * a2 = a1 * q * c2, m * a2 <= a1, m <= p
  PROVE  m * (c2 * (q + t)) <= c1 + t * p * c2
<1>1. m * c2 * q <= c1
  <2>1. (m * a2) * (q * c2) <= a1 * (q * c2)
    BY TimesMonotone
  <2>2. (m * c2 * q) * a2 = (m * a2) * (q * c2) /\ a1 * (q * c2) = a1 * q * c2
    OBVIOUS
  <2>3. (m * c2 * q) * a2 <= c1 * a2
    BY <2>1, <2>2
  <2>4. m * c2 * q \in Int
    OBVIOUS
  <2> QED
    BY <2>3, <2>4, TimesMonotone
<1>2. m * (t * c2) <= p * (t * c2)
  BY TimesMonotone
<1>3. /\ m * (c2 * (q + t)) = m * c2 * q + m * (t * c2)
      /\ t * p * c2 = p * (t * c2)
  OBVIOUS
<1> QED
  BY <1>1, <1>2, <1>3

LEMMA MeanFalls ==
  ASSUME NEW c1 \in Int, NEW c2 \in Nat \ {0}, NEW a1 \in Int, NEW a2 \in Nat \ {0},
         NEW q \in Nat, NEW t \in Nat, NEW p \in Nat, NEW m \in Nat,
         c1 * a2 = a1 * q * c2, a1 <= m * a2, p <= m
  PROVE  c1 + t * p * c2 <= m * (c2 * (q + t))
<1>1. c1 <= m * c2 * q
  <2>1. a1 * (q * c2) <= (m * a2) * (q * c2)
    BY TimesMonotone
  <2>2. (m * c2 * q) * a2 = (m * a2) * (q * c2) /\ a1 * (q * c2) = a1 * q * c2
    OBVIOUS
  <2>3. c1 * a2 <= (m * c2 * q) * a2
    BY <2>1, <2>2
  <2>4. m * c2 * q \in Int
    OBVIOUS
  <2> QED
    BY <2>3, <2>4, TimesMonotone
<1>2. p * (t * c2) <= m * (t * c2)
  BY TimesMonotone
<1>3. /\ m * (c2 * (q + t)) = m * c2 * q + m * (t * c2)
      /\ t * p * c2 = p * (t * c2)
  OBVIOUS
<1> QED
  BY <1>1, <1>2, <1>3

\* The cost of a book is its quantity at its average, which lies within prices.
Fair(b, prices) ==
  /\ b.total_cost[1] * b.average_price[2]
       = b.average_price[1] * b.quantity * b.total_cost[2]
  /\ \E p \in prices : AtMost(<<p, 1>>, b.average_price)
  /\ \E p \in prices : AtMost(b.average_price, <<p, 1>>)

\* BookFields, of the two amounts.
LEMMA BookAmounts ==
  ASSUME NEW type, NEW quantity, NEW average, NEW cost, NEW status, NEW opened, NEW closed
  PROVE  LET b == Book(type, quantity, average, cost, status, opened, closed)
         IN  b.quantity = quantity /\ b.average_price = average /\ b.total_cost = cost
  BY DEF Book

LEMMA IncreaseFair ==
  ASSUME NEW b \in PositionBook, NEW trade \in Trade, NEW prices, prices \subseteq Nat,
         b.quantity + trade.quantity # 0,
         b.quantity = 0 => b.total_cost = ZeroAmount,
         b.quantity # 0 => Fair(b, prices)
  PROVE  Fair(Increase(b, trade), prices \cup {trade.price})
<1>1. PICK q, t, p, c1, c2, a1, a2 :
        /\ q = b.quantity /\ t = trade.quantity /\ p = trade.price
        /\ c1 = b.total_cost[1] /\ c2 = b.total_cost[2]
        /\ a1 = b.average_price[1] /\ a2 = b.average_price[2]
  OBVIOUS
<1>2. /\ q \in Nat /\ t \in Nat /\ p \in Nat /\ q + t \in Nat /\ q + t # 0
      /\ c1 \in Int /\ c2 \in Nat \ {0} /\ a1 \in Int /\ a2 \in Nat \ {0}
  <2>1. trade.quantity \in Nat /\ trade.price \in Nat /\ b.quantity \in Nat
    BY LoopAssumption DEF Trade, PositionBook
  <2>2. b.total_cost \in Amount /\ b.average_price \in Amount
    BY DEF PositionBook
  <2> QED
    BY <1>1, <2>1, <2>2 DEF Amount
<1>3. PICK e : e = Increase(b, trade)
  OBVIOUS
<1>4. /\ e.quantity = q + t
      /\ e.total_cost = <<c1 + t * p * c2, c2>>
      /\ e.average_price = <<c1 + t * p * c2, c2 * (q + t)>>
  BY <1>1, <1>2, <1>3, BookAmounts DEF Increase
<1>5. \A m \in Nat : /\ AtMost(<<m, 1>>, e.average_price)
                          <=> m * (c2 * (q + t)) <= c1 + t * p * c2
                     /\ AtMost(e.average_price, <<m, 1>>)
                          <=> c1 + t * p * c2 <= m * (c2 * (q + t))
                     /\ AtMost(<<m, 1>>, b.average_price) <=> m * a2 <= a1
                     /\ AtMost(b.average_price, <<m, 1>>) <=> a1 <= m * a2
  <2> TAKE m \in Nat
  <2>1. PICK x \in Int, y \in Int : x = c1 + t * p * c2 /\ y = c2 * (q + t)
    <3>1. c1 + t * p * c2 \in Int /\ c2 * (q + t) \in Int
      BY <1>2
    <3> QED
      BY <3>1
  <2>2. /\ AtMost(<<m, 1>>, e.average_price) <=> m * y <= x * 1
        /\ AtMost(e.average_price, <<m, 1>>) <=> x * 1 <= m * y
        /\ AtMost(<<m, 1>>, b.average_price) <=> m * a2 <= a1 * 1
        /\ AtMost(b.average_price, <<m, 1>>) <=> a1 * 1 <= m * a2
    BY <1>1, <1>4, <2>1 DEF AtMost
  <2> QED
    BY <1>2, <2>1, <2>2
<1>6. e.total_cost[1] * e.average_price[2]
        = e.average_price[1] * e.quantity * e.total_cost[2]
  <2>1. PICK x \in Int, y \in Nat : x = c1 + t * p * c2 /\ y = q + t
    <3>1. c1 + t * p * c2 \in Int
      BY <1>2
    <3> QED
      BY <1>2, <3>1
  <2>2. x * (c2 * y) = x * y * c2
    BY <1>2, <2>1
  <2> QED
    BY <1>4, <2>1, <2>2
<1>7. CASE q = 0
  <2>1. c1 = 0 /\ c2 = 1
    BY <1>1, <1>7 DEF ZeroAmount
  <2>2. p * (c2 * (q + t)) = c1 + t * p * c2
    BY <1>2, <1>7, <2>1
  <2>3. AtMost(<<p, 1>>, e.average_price) /\ AtMost(e.average_price, <<p, 1>>)
    BY <1>2, <1>5, <2>2
  <2> QED
    BY <1>1, <1>3, <1>6, <2>3 DEF Fair
<1>8. CASE q # 0
  <2>1. c1 * a2 = a1 * q * c2
    BY <1>1, <1>8 DEF Fair
  <2>2. PICK lo \in prices, hi \in prices : lo * a2 <= a1 /\ a1 <= hi * a2
    <3>1. \A m \in prices : m \in Nat
      OBVIOUS
    <3> QED
      BY <1>1, <1>5, <1>8, <3>1 DEF Fair
  <2>3. lo \in Nat /\ hi \in Nat
    OBVIOUS
  <2>4. \E m \in prices \cup {p} : AtMost(<<m, 1>>, e.average_price)
    <3>1. PICK m \in {lo, p} : m <= lo /\ m <= p
      BY <1>2, <2>3
    <3>2. m \in Nat /\ m * a2 <= a1
      <4>1. m \in Nat /\ m * a2 <= lo * a2
        BY <1>2, <2>3, <3>1, TimesMonotone
      <4>2. m * a2 \in Int /\ lo * a2 \in Int
        BY <1>2, <2>3, <4>1
      <4> QED
        BY <1>2, <2>2, <4>1, <4>2
    <3>3. m * (c2 * (q + t)) <= c1 + t * p * c2
      BY <1>2, <2>1, <3>1, <3>2, MeanRises
    <3> QED
      BY <1>5, <3>1, <3>2, <3>3
  <2>5. \E m \in prices \cup {p} : AtMost(e.average_price, <<m, 1>>)
    <3>1. PICK m \in {hi, p} : hi <= m /\ p <= m
      BY <1>2, <2>3
    <3>2. m \in Nat /\ a1 <= m * a2
      <4>1. m \in Nat /\ hi * a2 <= m * a2
        BY <1>2, <2>3, <3>1, TimesMonotone
      <4>2. m * a2 \in Int /\ hi * a2 \in Int
        BY <1>2, <2>3, <4>1
      <4> QED
        BY <1>2, <2>2, <4>1, <4>2
    <3>3. c1 + t * p * c2 <= m * (c2 * (q + t))
      BY <1>2, <2>1, <3>1, <3>2, MeanFalls
    <3> QED
      BY <1>5, <3>1, <3>2, <3>3
  <2> QED
    BY <1>1, <1>3, <1>6, <2>4, <2>5 DEF Fair
<1> QED
  BY <1>7, <1>8

LEMMA DecreaseFair ==
  ASSUME NEW b \in PositionBook, NEW trade \in Trade, NEW prices,
         b.quantity - trade.quantity # 0, Fair(b, prices)
  PROVE  Fair(Decrease(b, trade), prices)
<1>1. PICK q, t, c1, c2, a1, a2 :
        /\ q = b.quantity /\ t = trade.quantity
        /\ c1 = b.total_cost[1] /\ c2 = b.total_cost[2]
        /\ a1 = b.average_price[1] /\ a2 = b.average_price[2]
  OBVIOUS
<1>2. /\ q \in Nat /\ t \in Nat
      /\ c1 \in Int /\ c2 \in Nat \ {0} /\ a1 \in Int /\ a2 \in Nat \ {0}
  <2>1. trade.quantity \in Nat /\ b.quantity \in Nat
    BY LoopAssumption DEF Trade, PositionBook
  <2>2. b.total_cost \in Amount /\ b.average_price \in Amount
    BY DEF PositionBook
  <2> QED
    BY <1>1, <2>1, <2>2 DEF Amount
<1>3. PICK e : e = Decrease(b, trade)
  OBVIOUS
<1>4. /\ e.quantity = q - t
      /\ e.total_cost = <<c1 * a2 - t * a1 * c2, c2 * a2>>
      /\ e.average_price = b.average_price
  BY <1>1, <1>3, BookAmounts DEF Decrease
<1>5. c1 * a2 = a1 * q * c2
  BY <1>1 DEF Fair
<1>6. (c1 * a2 - t * a1 * c2) * a2 = a1 * (q - t) * (c2 * a2)
  <2>1. c1 * a2 - t * a1 * c2 = a1 * (q - t) * c2
    BY <1>2, <1>5
  <2>2. (a1 * (q - t) * c2) * a2 = a1 * (q - t) * (c2 * a2)
    BY <1>2
  <2> QED
    BY <2>1, <2>2
<1> QED
  BY <1>1, <1>3, <1>4, <1>6 DEF Fair

\* The function that Opening recurs through.
HeldOn(d, f) == f = [n \in 0..Len(d) |-> IF n = 0 THEN 0 ELSE f[n - 1] + Signed(d[n])]

\* It is one, so CHOOSE finds it.
Sums(d, f) == HeldOn(d, f) /\ \A g : HeldOn(d, g) => g = f

OpensAt(d, f, o) ==
  /\ o \in 1..Len(d) /\ f[o - 1] = 0
  /\ \A n \in o..Len(d) : f[n] # 0

EntriesFrom(d, o) ==
  {d[i].price : i \in {j \in o..Len(d) : d[j].trade_type \in {"BUY", "SHORT"}}}

IsOpen(b) == IsPosition(b) /\ b.status = "OPEN"

\* The inductive invariant of AverageWithinEntries: the signed sums along the
\* ledger are the ones Opening takes them for, the open position was opened right
\* after the last of them that is zero, and its cost is its quantity at an average
\* within the entries since.
FairSince(b, d, f) ==
  IsOpen(b) => \E o \in 1..Len(d) : /\ OpensAt(d, f, o)
                                    /\ b.opened_at = d[o].executed_at
                                    /\ Fair(b, EntriesFrom(d, o))

FairInv ==
  \E f : /\ Sums(done, f) /\ f[Len(done)] = net
         /\ FairSince(book, done, f)

LEMMA SumsExtend ==
  ASSUME NEW d \in Seq(Trade), NEW f, Sums(d, f), NEW trade \in Trade
  PROVE  \E g : /\ Sums(Append(d, trade), g)
                /\ g[Len(d) + 1] = f[Len(d)] + Signed(trade)
                /\ \A n \in 0..Len(d) : g[n] = f[n]
<1> DEFINE e == Append(d, trade)
<1>1. PICK k \in Nat : k = Len(d)
  OBVIOUS
<1>2. /\ Len(e) = k + 1 /\ e[k + 1] = trade
      /\ \A n \in 1..k : e[n] = d[n]
  BY <1>1
<1> HIDE DEF e
<1>3. /\ f[0] = 0
      /\ \A n \in 1..k : f[n] = f[n - 1] + Signed(d[n])
  <2>1. \A n \in 0..k : f[n] = IF n = 0 THEN 0 ELSE f[n - 1] + Signed(d[n])
    BY <1>1 DEF Sums, HeldOn
  <2> QED
    BY <1>1, <2>1
<1> DEFINE g == [n \in 0..k + 1 |-> IF n <= k THEN f[n] ELSE f[k] + Signed(trade)]
<1>4. g[k + 1] = f[k] + Signed(trade) /\ \A n \in 0..k : g[n] = f[n]
  BY <1>1
<1>5. \A n \in 0..k + 1 : g[n] = IF n = 0 THEN 0 ELSE g[n - 1] + Signed(e[n])
  <2> TAKE n \in 0..k + 1
  <2>1. CASE n = 0
    BY <1>1, <1>3, <1>4, <2>1
  <2>2. CASE n \in 1..k
    <3>1. n - 1 \in 0..k /\ n \in 0..k /\ n # 0
      BY <1>1, <2>2
    <3> HIDE DEF g
    <3> QED
      BY <1>2, <1>3, <1>4, <2>2, <3>1
  <2>3. CASE n = k + 1
    <3>1. n - 1 = k /\ k \in 0..k /\ n # 0
      BY <1>1, <2>3
    <3> HIDE DEF g
    <3> QED
      BY <1>2, <1>4, <2>3, <3>1
  <2> QED
    BY <1>1, <2>1, <2>2, <2>3
<1>6. HeldOn(e, g)
  <2>1. g = [n \in 0..k + 1 |-> g[n]]
    OBVIOUS
  <2> HIDE DEF g
  <2>2. g = [n \in 0..k + 1 |-> IF n = 0 THEN 0 ELSE g[n - 1] + Signed(e[n])]
    BY <1>5, <2>1
  <2> QED
    BY <1>2, <2>2 DEF HeldOn
<1>7. ASSUME NEW h, HeldOn(e, h)
      PROVE  h = g
  <2>1. /\ h = [n \in 0..k + 1 |-> h[n]]
        /\ \A n \in 0..k + 1 : h[n] = IF n = 0 THEN 0 ELSE h[n - 1] + Signed(e[n])
    BY <1>2, <1>7 DEF HeldOn
  <2> DEFINE r == [n \in 0..k |-> h[n]]
  <2>2. \A n \in 0..k : r[n] = IF n = 0 THEN 0 ELSE r[n - 1] + Signed(d[n])
    <3> TAKE n \in 0..k
    <3>1. CASE n = 0
      BY <1>1, <2>1, <3>1
    <3>2. CASE n # 0
      <4>1. n \in 1..k /\ n - 1 \in 0..k /\ n \in 0..k + 1
        BY <1>1, <3>2
      <4> QED
        BY <1>2, <2>1, <3>2, <4>1
    <3> QED
      BY <3>1, <3>2
  <2>3. HeldOn(d, r)
    <3>1. r = [n \in 0..k |-> r[n]]
      OBVIOUS
    <3> HIDE DEF r
    <3>2. r = [n \in 0..k |-> IF n = 0 THEN 0 ELSE r[n - 1] + Signed(d[n])]
      BY <2>2, <3>1
    <3> QED
      BY <1>1, <3>2 DEF HeldOn
  <2>4. r = f
    BY <2>3 DEF Sums
  <2>5. \A n \in 0..k : h[n] = f[n]
    BY <2>4
  <2>6. h[k + 1] = f[k] + Signed(trade)
    <3>1. k + 1 \in 0..k + 1 /\ k + 1 # 0 /\ (k + 1) - 1 = k /\ k \in 0..k
      BY <1>1
    <3> QED
      BY <1>2, <2>1, <2>5, <3>1
  <2>7. \A n \in 0..k + 1 : h[n] = g[n]
    <3>1. \A n \in 0..k + 1 : n \in 0..k \/ n = k + 1
      BY <1>1
    <3> HIDE DEF g
    <3> QED
      BY <1>4, <2>5, <2>6, <3>1
  <2>8. g = [n \in 0..k + 1 |-> g[n]]
    OBVIOUS
  <2> HIDE DEF g
  <2> QED
    BY <2>1, <2>7, <2>8
<1> HIDE DEF g
<1>8. Sums(e, g)
  BY <1>6, <1>7 DEF Sums
<1> QED
  BY <1>1, <1>4, <1>8 DEF e

LEMMA OpeningIs ==
  ASSUME done \in Seq(Trade), NEW f, Sums(done, f), NEW o, OpensAt(done, f, o)
  PROVE  Opening = o
<1>1. PICK k \in Nat : k = Len(done)
  OBVIOUS
<1>2. (CHOOSE g : HeldOn(done, g)) = f
  BY DEF Sums
<1>3. PICK flat : flat = {n \in 0..k - 1 : f[n] = 0}
  OBVIOUS
<1>4. Opening = 1 + CHOOSE n \in flat : \A m \in flat : m <= n
  BY <1>1, <1>2, <1>3 DEF Opening, HeldOn
<1>5. /\ o \in 1..k /\ f[o - 1] = 0
      /\ \A n \in o..k : f[n] # 0
  BY <1>1 DEF OpensAt
<1>6. o - 1 \in flat /\ \A m \in flat : m <= o - 1
  <2>1. o - 1 \in 0..k - 1
    BY <1>1, <1>5
  <2>2. ASSUME NEW m \in flat PROVE m <= o - 1
    <3>1. m \in 0..k - 1 /\ f[m] = 0
      BY <1>3
    <3>2. m \notin o..k
      BY <1>5, <3>1
    <3> QED
      BY <1>1, <1>5, <3>1, <3>2
  <2> QED
    BY <1>3, <1>5, <2>1, <2>2
<1>7. \A n \in flat : n \in Int
  BY <1>3
<1>8. PICK c : c = CHOOSE n \in flat : \A m \in flat : m <= n
  OBVIOUS
<1>9. c \in flat /\ \A m \in flat : m <= c
  BY <1>6, <1>8
<1>10. c \in Int /\ o \in Int /\ c <= o - 1 /\ o - 1 <= c
  BY <1>5, <1>6, <1>7, <1>9
<1>11. Opening = 1 + c
  BY <1>4, <1>8
<1> QED
  BY <1>10, <1>11

LEMMA FairIsWithinEntries ==
  ASSUME LoopTypeOK, FairInv
  PROVE  AverageWithinEntries
<1> SUFFICES ASSUME IsOpen(book)
             PROVE  /\ \E p \in EntryPrices : AtMost(<<p, 1>>, book.average_price)
                    /\ \E p \in EntryPrices : AtMost(book.average_price, <<p, 1>>)
                    /\ book.opened_at = done[Opening].executed_at
  BY DEF AverageWithinEntries, IsOpen
<1>1. PICK f : Sums(done, f) /\ FairSince(book, done, f)
  BY DEF FairInv
<1>2. PICK o : /\ OpensAt(done, f, o)
               /\ book.opened_at = done[o].executed_at
               /\ Fair(book, EntriesFrom(done, o))
  BY <1>1 DEF FairSince
<1>3. Opening = o
  BY <1>1, <1>2, OpeningIs DEF LoopTypeOK
<1>4. EntryPrices = EntriesFrom(done, o)
  BY <1>3 DEF EntryPrices, EntriesFrom
<1> QED
  BY <1>2, <1>3, <1>4 DEF Fair

\* One more trade.  Each lemma is one way a book that is OPEN afterwards comes about.
LEMMA EntriesExtend ==
  ASSUME NEW d \in Seq(Trade), NEW trade \in Trade, NEW o \in 1..Len(d)
  PROVE  /\ EntriesFrom(d, o) \subseteq Nat
         /\ EntriesFrom(Append(d, trade), o)
              = EntriesFrom(d, o) \cup (IF trade.trade_type \in {"BUY", "SHORT"}
                                       THEN {trade.price} ELSE {})
<1>0. PICK e : e = Append(d, trade)
  OBVIOUS
<1>1. PICK k \in Nat : k = Len(d) /\ e = Append(d, trade)
  BY <1>0
<1>2. e[k + 1] = trade /\ Len(e) = k + 1 /\ \A n \in 1..k : e[n] = d[n] /\ d[n] \in Trade
  BY <1>1
<1>3. o \in 1..k /\ o..k \subseteq 1..k /\ o..k + 1 = o..k \cup {k + 1} /\ k + 1 \notin o..k
  BY <1>1
<1>4. \A t \in Trade : t.price \in Nat
  BY LoopAssumption DEF Trade
<1>5. EntriesFrom(d, o) \subseteq Nat
  BY <1>1, <1>2, <1>3, <1>4 DEF EntriesFrom
<1>6. \A n \in o..k : e[n] = d[n]
  BY <1>2, <1>3
<1>7. EntriesFrom(e, o) = EntriesFrom(d, o) \cup (IF trade.trade_type \in {"BUY", "SHORT"}
                                       THEN {trade.price} ELSE {})
  BY <1>1, <1>2, <1>3, <1>6 DEF EntriesFrom
<1> QED
  BY <1>1, <1>5, <1>7

LEMMA FairBegins == LoopInit => FairInv
<1> SUFFICES ASSUME LoopInit PROVE FairInv
  OBVIOUS
<1> DEFINE f == [n \in {0} |-> 0]
<1>1. Len(done) = 0 /\ 0..Len(done) = {0} /\ net = 0 /\ book = NoBook
  BY DEF LoopInit
<1>2. HeldOn(done, f)
  BY <1>1 DEF HeldOn
<1>3. ASSUME NEW g, HeldOn(done, g) PROVE g = f
  BY <1>1, <1>3 DEF HeldOn
<1>4. FairSince(book, done, f)
  BY <1>1 DEF FairSince, IsOpen, IsPosition, NoBook
<1>5. f[Len(done)] = net
  BY <1>1
<1> HIDE DEF f
<1> QED
  BY <1>2, <1>3, <1>4, <1>5 DEF FairInv, Sums

\* The position is opened anew: the sums restart at the new trade.
LEMMA OpenedAnewIsFair ==
  ASSUME NEW d \in Seq(Trade), NEW trade \in Trade, NEW g,
         g[Len(d)] = 0, g[Len(d) + 1] # 0,
         NEW type \in PositionTypes, trade.quantity # 0,
         trade.trade_type \in {"BUY", "SHORT"}
  PROVE  FairSince(Increase(OpenedBook(type, trade.executed_at), trade),
                   Append(d, trade), g)
<1>0. PICK e : e = Append(d, trade)
  OBVIOUS
<1>1. PICK k \in Nat : k = Len(d) /\ e = Append(d, trade)
  BY <1>0
<1>2. e[k + 1] = trade /\ Len(e) = k + 1
  BY <1>1
<1>3. trade.executed_at \in LoopTimes /\ trade.price \in Nat /\ trade.quantity \in Nat
  BY LoopAssumption DEF Trade
<1>4. PICK b : b = OpenedBook(type, trade.executed_at)
  OBVIOUS
<1>5. /\ b \in PositionBook /\ b.quantity = 0 /\ b.status = "OPEN"
      /\ b.closed_at = NoTime /\ b.opened_at = trade.executed_at
  BY <1>3, <1>4, OpenedSound
<1>6. b.total_cost = ZeroAmount
  BY <1>4, BookAmounts DEF OpenedBook
<1>7. Increase(b, trade).opened_at = trade.executed_at
  BY <1>3, <1>5, IncreaseSound
<1>8. b.quantity + trade.quantity # 0
  BY <1>3, <1>5
<1>9. Fair(Increase(b, trade), {} \cup {trade.price})
  BY <1>5, <1>6, <1>8, IncreaseFair
<1>10. EntriesFrom(e, k + 1) = {trade.price}
  <2>1. (k + 1)..(k + 1) = {k + 1}
    BY <1>1
  <2> QED
    BY <1>2, <2>1 DEF EntriesFrom
<1>11. OpensAt(e, g, k + 1)
  <2>1. (k + 1)..(k + 1) = {k + 1} /\ k + 1 \in 1..k + 1 /\ (k + 1) - 1 = k
    BY <1>1
  <2> QED
    BY <1>1, <1>2, <2>1 DEF OpensAt
<1>12. k + 1 \in 1..Len(e)
  BY <1>1, <1>2
<1> QED
  BY <1>1, <1>2, <1>4, <1>7, <1>9, <1>10, <1>11, <1>12 DEF FairSince

\* The position goes on: it was opened where it was.
LEMMA GoingOnIsFair ==
  ASSUME NEW d \in Seq(Trade), NEW trade \in Trade, NEW f, NEW g,
         \A n \in 0..Len(d) : g[n] = f[n], g[Len(d) + 1] # 0,
         NEW b, NEW c, IsOpen(b), FairSince(b, d, f), c.opened_at = b.opened_at,
         \A o \in 1..Len(d) : Fair(b, EntriesFrom(d, o))
                                => Fair(c, EntriesFrom(Append(d, trade), o))
  PROVE  FairSince(c, Append(d, trade), g)
<1>0. PICK e : e = Append(d, trade)
  OBVIOUS
<1>1. PICK k \in Nat : k = Len(d) /\ e = Append(d, trade)
  BY <1>0
<1>2. Len(e) = k + 1 /\ \A n \in 1..k : e[n] = d[n]
  BY <1>1
<1>3. PICK o \in 1..k : /\ OpensAt(d, f, o)
                       /\ b.opened_at = d[o].executed_at
                       /\ Fair(b, EntriesFrom(d, o))
  BY <1>1 DEF FairSince
<1>4. o - 1 \in 0..k /\ o..k \subseteq 0..k /\ o..k + 1 = o..k \cup {k + 1} /\ o \in 1..k + 1
  BY <1>1
<1>5. OpensAt(e, g, o)
  BY <1>1, <1>2, <1>3, <1>4 DEF OpensAt
<1> QED
  BY <1>1, <1>2, <1>3, <1>4, <1>5 DEF FairSince

LEMMA FairKept ==
  ASSUME LoopInv, LoopInv', FairInv, [LoopNext]_loopVars
  PROVE  FairInv'
<1>1. CASE UNCHANGED loopVars
  BY <1>1 DEF FairInv, loopVars
<1>2. CASE LoopNext
  <2>1. PICK trade \in Trade : Buy(trade) \/ Sell(trade) \/ Short(trade) \/ Cover(trade)
    BY <1>2 DEF LoopNext
  <2>2. PICK d \in Seq(Trade), b \in Books, n \in Int : d = done /\ b = book /\ n = net
    BY DEF LoopInv, LoopTypeOK, Books
  <2>3. PICK c \in Books, m \in Int : c = book' /\ m = net'
    BY DEF LoopInv, LoopTypeOK, Books
  <2>4. /\ done' = Append(d, trade) /\ m = n + Signed(trade) /\ ~IsFailure(b)
        /\ Truthful(b, n) /\ (b = NoBook => n = 0)
        /\ Truthful(c, m)
    BY <2>1, <2>2, <2>3 DEF Buy, Sell, Short, Cover, Iterate, NextInOrder, LoopInv
  <2>5. PICK f : Sums(d, f) /\ f[Len(d)] = n /\ FairSince(b, d, f)
    BY <2>2 DEF FairInv
  <2>6. PICK g : /\ Sums(Append(d, trade), g)
                 /\ g[Len(d) + 1] = m
                 /\ \A i \in 0..Len(d) : g[i] = f[i]
    BY <2>4, <2>5, SumsExtend
  <2>7. g[Len(d)] = n
    BY <2>5, <2>6
  <2>8. FairSince(c, Append(d, trade), g)
    <3> SUFFICES ASSUME IsOpen(c) PROVE FairSince(c, Append(d, trade), g)
      BY DEF FairSince
    <3>1. c \in PositionBook /\ c.quantity \in Nat /\ c.quantity # 0 /\ m # 0
      <4>1. c \in PositionBook
        BY <2>3 DEF IsOpen, Books, IsPosition, NoBook, Invalid, Undefined
      <4>2. c.quantity \in Nat
        BY <4>1 DEF PositionBook
      <4> QED
        BY <2>4, <4>1, <4>2 DEF IsOpen, Truthful
    <3>2. PICK type \in PositionTypes :
            \/ trade.trade_type \in {"BUY", "SHORT"} /\ c = Enter(type, b, trade)
            \/ trade.trade_type \in {"SELL", "COVER"} /\ c = Exit(type, b, trade)
      <4>1. "LONG" \in PositionTypes /\ "SHORT" \in PositionTypes
        BY DEF PositionTypes
      <4> QED
        BY <2>1, <2>2, <2>3, <4>1 DEF Buy, Sell, Short, Cover, Iterate
    <3>3. ~IsPosition(Invalid) /\ ~IsPosition(NoBook) /\ ~IsPosition(Undefined)
      BY DEF IsPosition, Invalid, NoBook, Undefined
    <3>4. ASSUME ~Opens(b)
          PROVE  /\ b \in PositionBook /\ b.quantity \in Nat /\ b.quantity # 0
                 /\ IsOpen(b) /\ b.closed_at = NoTime
      <4>1. b \in PositionBook /\ IsPosition(b)
        BY <2>4, <3>4 DEF Opens, Books, IsPosition, IsFailure, NoBook, Invalid, Undefined,
                          PositionBook
      <4>2. b.quantity \in Nat /\ b.status \in {"OPEN", "CLOSED"}
        BY <4>1 DEF PositionBook
      <4> QED
        BY <2>4, <3>4, <4>1, <4>2 DEF Opens, Flat, Truthful, IsOpen
    <3>5. trade.quantity \in Nat /\ trade.executed_at \in LoopTimes
      BY LoopAssumption DEF Trade
    <3>6. CASE trade.trade_type \in {"BUY", "SHORT"} /\ c = Enter(type, b, trade) /\ Opens(b)
      <4>1. n = 0
        <5>1. CASE b = NoBook
          BY <2>4, <5>1
        <5>2. CASE b # NoBook
          <6>1. b \in PositionBook /\ Flat(b)
            BY <2>4, <3>6, <5>2 DEF Opens, Books, IsFailure, NoBook, Invalid, Undefined,
                                    PositionBook
          <6> QED
            BY <2>4, <6>1 DEF Truthful, Flat
        <5> QED
          BY <5>1, <5>2
      <4>2. c = Increase(OpenedBook(type, trade.executed_at), trade)
        BY <3>6 DEF Enter
      <4>3. trade.quantity # 0
        <5>1. /\ OpenedBook(type, trade.executed_at) \in PositionBook
              /\ OpenedBook(type, trade.executed_at).quantity = 0
              /\ OpenedBook(type, trade.executed_at).status = "OPEN"
              /\ OpenedBook(type, trade.executed_at).closed_at = NoTime
          BY <3>5, OpenedSound
        <5>2. trade.quantity = 0 => c = Undefined
          BY <4>2, <5>1, IncreaseSound
        <5> QED
          BY <3>3, <5>2 DEF IsOpen
      <4> QED
        BY <2>6, <2>7, <3>1, <3>6, <4>1, <4>2, <4>3, OpenedAnewIsFair
    <3>7. CASE trade.trade_type \in {"BUY", "SHORT"} /\ c = Enter(type, b, trade) /\ ~Opens(b)
      <4>1. /\ b \in PositionBook /\ b.quantity \in Nat /\ b.quantity # 0
            /\ IsOpen(b) /\ b.closed_at = NoTime
        BY <3>4, <3>7
      <4>2. c = Increase(b, trade)
        BY <3>3, <3>7 DEF Enter, IsOpen
      <4>3. c.opened_at = b.opened_at /\ b.quantity + trade.quantity # 0
        BY <3>5, <4>1, <4>2, IncreaseSound DEF IsOpen
      <4>4. ASSUME NEW o \in 1..Len(d), Fair(b, EntriesFrom(d, o))
            PROVE  Fair(c, EntriesFrom(Append(d, trade), o))
        <5>1. PICK prices : prices = EntriesFrom(d, o)
          OBVIOUS
        <5>2. /\ prices \subseteq Nat /\ Fair(b, prices)
              /\ EntriesFrom(Append(d, trade), o) = prices \cup {trade.price}
          BY <3>7, <4>4, <5>1, EntriesExtend
        <5> QED
          BY <4>1, <4>2, <4>3, <5>2, IncreaseFair
      <4> QED
        BY <2>5, <2>6, <3>1, <4>1, <4>3, <4>4, GoingOnIsFair
    <3>8. CASE trade.trade_type \in {"SELL", "COVER"} /\ c = Exit(type, b, trade)
      <4>1. c = Decrease(b, trade) /\ IsPosition(b) /\ b.status = "OPEN"
            /\ b.quantity > 0 /\ trade.quantity <= b.quantity
        BY <3>3, <3>8 DEF Exit, IsOpen
      <4>2. ~Opens(b)
        BY <4>1 DEF Opens, Flat, IsPosition
      <4>3. /\ b \in PositionBook /\ b.quantity \in Nat /\ IsOpen(b) /\ b.closed_at = NoTime
        BY <3>4, <4>2
      <4>4. c.opened_at = b.opened_at /\ b.quantity - trade.quantity # 0
        BY <3>1, <4>1, <4>3, DecreaseSound
      <4>5. ASSUME NEW o \in 1..Len(d), Fair(b, EntriesFrom(d, o))
            PROVE  Fair(c, EntriesFrom(Append(d, trade), o))
        <5>1. PICK prices : prices = EntriesFrom(d, o)
          OBVIOUS
        <5>2. /\ Fair(b, prices) /\ EntriesFrom(Append(d, trade), o) = prices
          BY <3>8, <4>5, <5>1, EntriesExtend
        <5> QED
          BY <4>1, <4>3, <4>4, <5>2, DecreaseFair
      <4> QED
        BY <2>5, <2>6, <3>1, <4>3, <4>4, <4>5, GoingOnIsFair
    <3> QED
      BY <3>2, <3>6, <3>7, <3>8
  <2>9. Len(Append(d, trade)) = Len(d) + 1
    OBVIOUS
  <2>10. PICK e : e = done' /\ Sums(e, g) /\ g[Len(e)] = m /\ FairSince(c, e, g)
    BY <2>4, <2>6, <2>8, <2>9
  <2> QED
    BY <2>3, <2>10 DEF FairInv
<1> QED
  BY <1>1, <1>2

\* For every ledger: while a position is open its average price lies between the
\* cheapest and the dearest entry since the trade that opened it, whose time is the
\* position's opened_at.
THEOREM AverageAlwaysWithinEntries == LoopSpec => []AverageWithinEntries
<1>1. LoopInv => LoopTypeOK
  BY DEF LoopInv
<1>2. LoopTypeOK /\ FairInv => AverageWithinEntries
  BY FairIsWithinEntries
<1>3. LoopInv /\ LoopInv' /\ FairInv /\ [LoopNext]_loopVars => FairInv'
  BY FairKept
<1> QED
  BY <1>1, <1>2, <1>3, FairBegins, LoopInductive, PTL DEF LoopSpec

-----------------------------------------------------------------------------
(***************************************************************************)
(* The journal.  Of Replay this part needs only that nothing replays to no *)
(* position: otherwise it is an unknown function of a set of trades, and   *)
(* the argument is about the requests and not about the arithmetic.        *)
(***************************************************************************)
\* TypeOK, of any database a request works on.
Typed(d) ==
  /\ DOMAIN d = {"trades", "links", "positions", "nextTrade", "nextPosition"}
  /\ d.trades \subseteq Row
  /\ \A t, u \in d.trades : t.id = u.id => t = u
  /\ \A t \in d.trades : t.id < d.nextTrade
  /\ d.nextTrade \in 1..MaxTrades + 1
  /\ d.nextPosition \in Nat \ {0}
  /\ d.links \in [1..MaxTrades -> 0..d.nextPosition - 1]
  /\ DOMAIN d.positions = Pairs
  /\ \A pa \in Pairs : d.positions[pa].id \in 0..d.nextPosition - 1

\* The ids, of any database a request works on: none shared, none dangling.
Tidy(d) ==
  /\ \A pa, qb \in Pairs :
       d.positions[pa].id = d.positions[qb].id => pa = qb \/ d.positions[pa].id = 0
  /\ \A i \in 1..MaxTrades : (~\E t \in d.trades : t.id = i) => d.links[i] = 0

\* The ledger, the position row and the links of one pair agree.  Between the
\* write of a trade and the last recalculation this holds of all pairs but those
\* the request has still to recalculate.
Settled(d, p, a) ==
  /\ ~IsFailure(BookOf(d, p, a))
  /\ d.positions[<<p, a>>].book
       = (IF IsPosition(BookOf(d, p, a)) THEN Saved(BookOf(d, p, a)) ELSE NoBook)
  /\ \A t \in LedgerOf(d.trades, p, a) : d.links[t.id] = d.positions[<<p, a>>].id

\* The position ids of d are kept in e, except where a row appears or goes.
KeepsIds(d, e) ==
  \A pa \in Pairs : \/ d.positions[pa].id = e.positions[pa].id
                    \/ d.positions[pa].id = 0
                    \/ e.positions[pa].id = 0

\* The inductive invariant.
JournalInv ==
  /\ Typed(db) /\ db.nextPosition <= MaxPositions + 1
  /\ Tidy(db)
  /\ \A p \in Portfolios, a \in AssetIds : Settled(db, p, a)
  /\ reply \in {0, 200, 201, 404, 422, 500}

LEMMA DatabaseFields ==
  ASSUME NEW trades, NEW links, NEW positions, NEW nextTrade, NEW nextPosition
  PROVE  LET d == Database(trades, links, positions, nextTrade, nextPosition)
         IN  /\ DOMAIN d = {"trades", "links", "positions", "nextTrade", "nextPosition"}
             /\ d.trades = trades /\ d.links = links /\ d.positions = positions
             /\ d.nextTrade = nextTrade /\ d.nextPosition = nextPosition
  BY DEF Database

\* What a pair's ledger is depends on the trades alone.
LEMMA SameBook ==
  ASSUME NEW d, NEW e, NEW p, NEW a,
         LedgerOf(d.trades, p, a) = LedgerOf(e.trades, p, a)
  PROVE  BookOf(d, p, a) = BookOf(e, p, a)
  BY DEF BookOf

\* recalculate_position settles its own pair and disturbs no other.
LEMMA RecalculatedSound ==
  ASSUME NEW d, Typed(d), Tidy(d), NEW p \in Portfolios, NEW a \in AssetIds,
         ~IsFailure(BookOf(d, p, a))
  PROVE  LET e == Recalculated(d, p, a)
         IN  /\ Typed(e) /\ Tidy(e) /\ e.trades = d.trades
             /\ Settled(e, p, a)
             /\ \A q \in Portfolios, b \in AssetIds :
                  <<q, b>> # <<p, a>> /\ Settled(d, q, b) => Settled(e, q, b)
             /\ \A qb \in Pairs \ {<<p, a>>} : e.positions[qb] = d.positions[qb]
             /\ KeepsIds(d, e)
  <1> DEFINE pa   == <<p, a>>
             old  == d.positions[pa]
             replayed == BookOf(d, p, a)
             row  == IF ~IsPosition(replayed) THEN NoRow
                     ELSE [id |-> IF old.id = 0 THEN d.nextPosition ELSE old.id,
                           book |-> Saved(replayed)]
             ids  == {t.id : t \in LedgerOf(d.trades, p, a)}
             e    == Recalculated(d, p, a)
             next == IF row.id = d.nextPosition THEN d.nextPosition + 1 ELSE d.nextPosition
             links == [i \in DOMAIN d.links |-> IF i \in ids THEN row.id ELSE d.links[i]]
             positions == [d.positions EXCEPT ![pa] = row]
  <1>1. /\ DOMAIN e = {"trades", "links", "positions", "nextTrade", "nextPosition"}
        /\ e.trades = d.trades /\ e.links = links /\ e.positions = positions
        /\ e.nextTrade = d.nextTrade /\ e.nextPosition = next
    <2>1. e = Database(d.trades, links, positions, d.nextTrade, next)
      BY DEF Recalculated
    <2> HIDE DEF links, positions, next, e
    <2>2. QED
      BY <2>1, DatabaseFields
  <1>2. pa \in Pairs /\ DOMAIN d.positions = Pairs
        /\ d.nextPosition \in Nat \ {0} /\ old.id \in 0..d.nextPosition - 1
    BY DEF Typed, Pairs
  <1>3. /\ row.id \in {0, old.id, d.nextPosition}
        /\ old.id # 0 => row.id # d.nextPosition
        /\ row.id = old.id \/ old.id = 0 \/ row.id = 0
        /\ row.book = (IF IsPosition(replayed) THEN Saved(replayed) ELSE NoBook)
    <2>1. CASE ~IsPosition(replayed)
      BY <1>2, <2>1 DEF NoRow
    <2>2. CASE IsPosition(replayed)
      BY <1>2, <2>2
    <2>3. QED
      BY <2>1, <2>2
  <1> HIDE DEF row, replayed
  <1>4. next \in Nat \ {0} /\ d.nextPosition <= next /\ row.id \in 0..next - 1
    BY <1>2, <1>3
  <1>5. /\ DOMAIN positions = Pairs /\ positions[pa] = row
        /\ \A qb \in Pairs \ {pa} : positions[qb] = d.positions[qb]
    BY <1>2
  <1> HIDE DEF next
  <1>6. links \in [1..MaxTrades -> 0..next - 1]
    <2>1. DOMAIN d.links = 1..MaxTrades
      BY DEF Typed
    <2>2. ASSUME NEW i \in 1..MaxTrades
          PROVE  (IF i \in ids THEN row.id ELSE d.links[i]) \in 0..next - 1
      <3>1. d.links[i] \in 0..d.nextPosition - 1
        BY DEF Typed
      <3>2. QED
        BY <1>2, <1>4, <3>1
    <2>3. QED
      BY <2>1, <2>2
  <1> HIDE DEF positions
  <1>7. Typed(e)
    <2>1. \A qb \in Pairs : positions[qb].id \in 0..next - 1
      BY <1>2, <1>4, <1>5 DEF Typed
    <2>2. QED
      BY <1>1, <1>4, <1>5, <1>6, <2>1 DEF Typed
  <1>8. \A t \in d.trades : t.id \in 1..MaxTrades
    BY DEF Typed, Row
  <1>9. Tidy(e)
    <2>1. ASSUME NEW qb \in Pairs, NEW rc \in Pairs,
                 positions[qb].id = positions[rc].id
          PROVE  qb = rc \/ positions[qb].id = 0
      <3>1. \A sd \in Pairs : d.positions[sd].id \in 0..d.nextPosition - 1
        BY DEF Typed
      <3>2. QED
        BY <1>2, <1>3, <1>5, <2>1, <3>1 DEF Tidy
    <2>2. ASSUME NEW i \in 1..MaxTrades, ~\E t \in d.trades : t.id = i
          PROVE  links[i] = 0
      <3>1. i \notin ids
        BY <2>2 DEF LedgerOf
      <3>2. i \in DOMAIN d.links /\ d.links[i] = 0
        BY <2>2 DEF Tidy, Typed
      <3>3. QED
        BY <3>1, <3>2
    <2>3. QED
      BY <1>1, <2>1, <2>2 DEF Tidy
  <1>10. \A q, b : BookOf(e, q, b) = BookOf(d, q, b)
    BY <1>1 DEF BookOf
  <1>11. Settled(e, p, a)
    <2>1. \A t \in LedgerOf(d.trades, p, a) : links[t.id] = row.id
      BY <1>8 DEF LedgerOf, Typed
    <2>2. QED
      BY <1>1, <1>3, <1>5, <1>10, <2>1 DEF Settled, replayed
  <1>12. ASSUME NEW q \in Portfolios, NEW b \in AssetIds, <<q, b>> # <<p, a>>,
                Settled(d, q, b)
         PROVE  Settled(e, q, b)
    <2>1. \A t \in LedgerOf(d.trades, q, b) : t.id \notin ids
      BY <1>12 DEF LedgerOf, Typed
    <2>2. \A t \in LedgerOf(d.trades, q, b) : links[t.id] = d.links[t.id]
      BY <1>8, <2>1 DEF LedgerOf, Typed
    <2>3. <<q, b>> \in Pairs \ {pa}
      BY <1>12 DEF Pairs
    <2>4. QED
      BY <1>1, <1>5, <1>10, <1>12, <2>2, <2>3 DEF Settled
  <1>13. KeepsIds(d, e)
    BY <1>1, <1>3, <1>5 DEF KeepsIds
  <1>14. QED
    BY <1>1, <1>5, <1>7, <1>9, <1>11, <1>12, <1>13

\* A recalculation draws at most one position id, whether it will raise or not.
LEMMA RecalculatedSequences ==
  ASSUME NEW d, d.nextPosition \in Nat, NEW p, NEW a
  PROVE  LET e == Recalculated(d, p, a)
         IN  /\ e.nextTrade = d.nextTrade
             /\ e.nextPosition \in Nat /\ e.nextPosition >= d.nextPosition
  <1>1. \E next \in {d.nextPosition, d.nextPosition + 1} : \E trades, links, positions :
          Recalculated(d, p, a) = Database(trades, links, positions, d.nextTrade, next)
    BY Zenon DEF Recalculated
  <1>2. PICK next \in {d.nextPosition, d.nextPosition + 1} : \E trades, links, positions :
          Recalculated(d, p, a) = Database(trades, links, positions, d.nextTrade, next)
    BY <1>1
  <1>3. PICK trades, links, positions :
          Recalculated(d, p, a) = Database(trades, links, positions, d.nextTrade, next)
    BY <1>2
  <1>4. QED
    BY <1>3, DatabaseFields

\* Rounding a quantity to its column gives a natural number.
LEMMA ColumnNat == \A q \in Nat : Column(q) \in Nat
  <1>1. Scale \in Nat \ {0} /\ 2 * Scale \in Nat \ {0}
    BY TablesAssumption
  <1>2. ASSUME NEW q \in Nat PROVE (2 * q + Scale) \div (2 * Scale) \in Nat
    BY <1>1
  <1>3. QED
    BY <1>1, <1>2 DEF Column

\* A row a request may store: of this id, in its portfolio.
Storable(row, id, portfolio) ==
  /\ row \in [id : {id}, portfolio_id : {portfolio}, asset_id : Assets,
              trade_type : TradeTypes, quantity : Nat, price : Prices, executed_at : Times]

LEMMA StoredSound ==
  ASSUME NEW id \in 1..MaxTrades, NEW portfolio \in Portfolios, NEW row,
         Storable(row, id, portfolio)
  PROVE  /\ Stored(row) \in Row
         /\ Stored(row).id = id /\ Stored(row).portfolio_id = portfolio
         /\ Stored(row).asset_id = row.asset_id
         /\ row.asset_id \in AssetIds
  <1>1. Column(row.quantity) \in Nat
    BY ColumnNat DEF Storable
  <1>2. Stored(row) = [row EXCEPT !.quantity = Column(row.quantity)]
    BY DEF Stored
  <1>3. Assets \subseteq AssetIds
    BY TablesAssumption
  <1>4. QED
    BY <1>1, <1>2, <1>3 DEF Storable, Row

\* A row built from a request's data, or from a stored trade's own values.
LEMMA RowOfSound ==
  ASSUME NEW id \in 1..MaxTrades, NEW portfolio \in Portfolios, NEW data,
         data \in TradeData \/ \E t \in Row : data \in EditsOf(t, TradeData),
         data.asset_id \in Assets
  PROVE  Storable(RowOf(id, portfolio, data), id, portfolio)
         /\ RowOf(id, portfolio, data).asset_id = data.asset_id
  <1>1. /\ data.trade_type \in TradeTypes /\ data.quantity \in Nat
        /\ data.price \in Prices /\ data.executed_at \in Times
    <2>1. Quantities \subseteq Nat
      BY TablesAssumption
    <2>2. CASE data \in TradeData
      BY <2>1, <2>2 DEF TradeData
    <2>3. CASE \E t \in Row : data \in EditsOf(t, TradeData)
      <3>1. PICK t \in Row : data \in EditsOf(t, TradeData)
        BY <2>3
      <3>2. CASE data = DataOf(t)
        BY <3>1, <3>2 DEF DataOf, Row
      <3>3. CASE \E input \in TradeData : data = [input EXCEPT !.quantity = t.quantity]
        <4>1. PICK input \in TradeData : data = [input EXCEPT !.quantity = t.quantity]
          BY <3>3
        <4>2. t.quantity \in Nat
          BY <3>1 DEF Row
        <4>3. QED
          BY <4>1, <4>2 DEF TradeData
      <3>4. QED
        BY <2>2, <3>1, <3>2, <3>3 DEF EditsOf
    <2>4. QED
      BY <2>2, <2>3
  <1>2. QED
    BY <1>1 DEF RowOf, Storable

\* Writing a new trade unsettles at most the pair it enters.
LEMMA InsertedSound ==
  ASSUME NEW d, Typed(d), Tidy(d), d.nextTrade <= MaxTrades,
         NEW portfolio \in Portfolios, NEW row, Storable(row, d.nextTrade, portfolio)
  PROVE  LET e == Inserted(d, row)
         IN  /\ Typed(e) /\ Tidy(e) /\ e.positions = d.positions
             /\ e.nextTrade = d.nextTrade + 1 /\ e.nextPosition = d.nextPosition
             /\ \A q \in Portfolios, b \in AssetIds :
                  <<q, b>> # <<portfolio, row.asset_id>> /\ Settled(d, q, b)
                    => Settled(e, q, b)
  <1> DEFINE e == Inserted(d, row)
             s == Stored(row)
  <1>1. /\ DOMAIN e = {"trades", "links", "positions", "nextTrade", "nextPosition"}
        /\ e.trades = d.trades \cup {s} /\ e.links = d.links
        /\ e.positions = d.positions
        /\ e.nextTrade = d.nextTrade + 1 /\ e.nextPosition = d.nextPosition
    BY DatabaseFields DEF Inserted
  <1>2. d.nextTrade \in 1..MaxTrades
    BY TablesAssumption DEF Typed
  <1>3. /\ s \in Row /\ s.id = d.nextTrade /\ s.portfolio_id = portfolio
        /\ s.asset_id = row.asset_id
    BY <1>2, StoredSound
  <1> HIDE DEF e, s
  <1>4. \A t \in d.trades : t.id \in Nat /\ t.id < d.nextTrade
    BY DEF Typed, Row
  <1>5. Typed(e)
    <2>1. \A t \in e.trades : t.id < e.nextTrade
      BY <1>1, <1>2, <1>3, <1>4
    <2>2. \A t, u \in e.trades : t.id = u.id => t = u
      BY <1>1, <1>3, <1>4 DEF Typed
    <2>3. e.nextTrade \in 1..MaxTrades + 1 /\ e.trades \subseteq Row
      BY <1>1, <1>2, <1>3, TablesAssumption DEF Typed
    <2>4. /\ e.nextPosition \in Nat \ {0} /\ DOMAIN e.positions = Pairs
          /\ e.links \in [1..MaxTrades -> 0..e.nextPosition - 1]
          /\ \A pa \in Pairs : e.positions[pa].id \in 0..e.nextPosition - 1
      BY <1>1 DEF Typed
    <2>5. QED
      BY <1>1, <2>1, <2>2, <2>3, <2>4 DEF Typed
  <1>6. Tidy(e)
    BY <1>1 DEF Tidy
  <1>7. ASSUME NEW q \in Portfolios, NEW b \in AssetIds,
               <<q, b>> # <<portfolio, row.asset_id>>, Settled(d, q, b)
        PROVE  Settled(e, q, b)
    <2>1. LedgerOf(e.trades, q, b) = LedgerOf(d.trades, q, b)
      BY <1>1, <1>3, <1>7 DEF LedgerOf
    <2>2. BookOf(e, q, b) = BookOf(d, q, b)
      BY <2>1, SameBook
    <2>3. QED
      BY <1>1, <1>7, <2>1, <2>2 DEF Settled
  <1>8. QED
    BY <1>1, <1>5, <1>6, <1>7 DEF e

\* Rewriting a trade unsettles at most the pair it leaves and the pair it enters.
LEMMA ReplacedSound ==
  ASSUME NEW d, Typed(d), Tidy(d), NEW trade \in d.trades,
         NEW row, Storable(row, trade.id, trade.portfolio_id)
  PROVE  LET e == Replaced(d, trade, row)
         IN  /\ Typed(e) /\ Tidy(e) /\ e.positions = d.positions
             /\ e.nextTrade = d.nextTrade /\ e.nextPosition = d.nextPosition
             /\ \A q \in Portfolios, b \in AssetIds :
                  /\ <<q, b>> # <<trade.portfolio_id, row.asset_id>>
                  /\ <<q, b>> # <<trade.portfolio_id, trade.asset_id>>
                  /\ Settled(d, q, b)
                  => Settled(e, q, b)
  <1> DEFINE e == Replaced(d, trade, row)
             s == Stored(row)
  <1>1. /\ DOMAIN e = {"trades", "links", "positions", "nextTrade", "nextPosition"}
        /\ e.trades = (d.trades \ {trade}) \cup {s} /\ e.links = d.links
        /\ e.positions = d.positions
        /\ e.nextTrade = d.nextTrade /\ e.nextPosition = d.nextPosition
    BY DatabaseFields DEF Replaced
  <1>2. trade \in Row /\ trade.id \in 1..MaxTrades /\ trade.portfolio_id \in Portfolios
    BY DEF Typed, Row
  <1>3. /\ s \in Row /\ s.id = trade.id /\ s.portfolio_id = trade.portfolio_id
        /\ s.asset_id = row.asset_id
    BY <1>2, StoredSound
  <1> HIDE DEF e, s
  <1>4. Typed(e)
    BY <1>1, <1>3 DEF Typed
  <1>5. Tidy(e)
    <2>1. \A i \in 1..MaxTrades :
            (~\E t \in e.trades : t.id = i) => ~\E t \in d.trades : t.id = i
      BY <1>1, <1>3
    <2>2. QED
      BY <1>1, <2>1 DEF Tidy
  <1>6. ASSUME NEW q \in Portfolios, NEW b \in AssetIds,
               <<q, b>> # <<trade.portfolio_id, row.asset_id>>,
               <<q, b>> # <<trade.portfolio_id, trade.asset_id>>, Settled(d, q, b)
        PROVE  Settled(e, q, b)
    <2>1. LedgerOf(e.trades, q, b) = LedgerOf(d.trades, q, b)
      BY <1>1, <1>3, <1>6 DEF LedgerOf
    <2>2. BookOf(e, q, b) = BookOf(d, q, b)
      BY <2>1, SameBook
    <2>3. QED
      BY <1>1, <1>6, <2>1, <2>2 DEF Settled
  <1>7. QED
    BY <1>1, <1>4, <1>5, <1>6 DEF e

\* Deleting a trade unsettles at most its own pair.
LEMMA RemovedSound ==
  ASSUME NEW d, Typed(d), Tidy(d), NEW trade \in d.trades
  PROVE  LET e == Removed(d, trade)
         IN  /\ Typed(e) /\ Tidy(e) /\ e.positions = d.positions
             /\ e.nextTrade = d.nextTrade /\ e.nextPosition = d.nextPosition
             /\ \A q \in Portfolios, b \in AssetIds :
                  <<q, b>> # <<trade.portfolio_id, trade.asset_id>> /\ Settled(d, q, b)
                    => Settled(e, q, b)
  <1> DEFINE e == Removed(d, trade)
  <1>1. /\ DOMAIN e = {"trades", "links", "positions", "nextTrade", "nextPosition"}
        /\ e.trades = d.trades \ {trade} /\ e.links = [d.links EXCEPT ![trade.id] = 0]
        /\ e.positions = d.positions
        /\ e.nextTrade = d.nextTrade /\ e.nextPosition = d.nextPosition
    BY DatabaseFields DEF Removed
  <1> HIDE DEF e
  <1>2. /\ trade.id \in 1..MaxTrades
        /\ \A t \in d.trades : t.id \in 1..MaxTrades
        /\ \A t \in e.trades : t \in d.trades /\ t.id # trade.id
    BY <1>1 DEF Typed, Row
  <1>3. /\ e.links \in [1..MaxTrades -> 0..d.nextPosition - 1]
        /\ e.links[trade.id] = 0
        /\ \A i \in 1..MaxTrades : i # trade.id => e.links[i] = d.links[i]
    <2>1. /\ d.links \in [1..MaxTrades -> 0..d.nextPosition - 1]
          /\ 0 \in 0..d.nextPosition - 1
      BY DEF Typed
    <2>2. QED
      BY <1>1, <1>2, <2>1
  <1>4. Typed(e)
    BY <1>1, <1>3 DEF Typed
  <1>5. Tidy(e)
    <2>1. ASSUME NEW i \in 1..MaxTrades, ~\E t \in e.trades : t.id = i
          PROVE  e.links[i] = 0
      <3>1. CASE i = trade.id
        BY <1>3, <3>1
      <3>2. CASE i # trade.id
        <4>1. ~\E t \in d.trades : t.id = i
          BY <1>1, <2>1, <3>2
        <4>2. QED
          BY <1>3, <3>2, <4>1 DEF Tidy
      <3>3. QED
        BY <3>1, <3>2
    <2>2. QED
      BY <1>1, <2>1 DEF Tidy
  <1>6. ASSUME NEW q \in Portfolios, NEW b \in AssetIds,
               <<q, b>> # <<trade.portfolio_id, trade.asset_id>>, Settled(d, q, b)
        PROVE  Settled(e, q, b)
    <2>1. LedgerOf(e.trades, q, b) = LedgerOf(d.trades, q, b)
      BY <1>1, <1>6 DEF LedgerOf
    <2>2. BookOf(e, q, b) = BookOf(d, q, b)
      BY <2>1, SameBook
    <2>3. \A t \in LedgerOf(e.trades, q, b) : e.links[t.id] = d.links[t.id]
      BY <1>2, <1>3 DEF LedgerOf
    <2>4. QED
      BY <1>1, <1>6, <2>1, <2>2, <2>3 DEF Settled
  <1>7. QED
    BY <1>1, <1>4, <1>5, <1>6 DEF e

\* A database a request may leave behind.
Good(d) ==
  /\ Typed(d) /\ Tidy(d)
  /\ \A p \in Portfolios, a \in AssetIds : Settled(d, p, a)

\* What a rollback leaves is good: only the sequences have moved, forwards.
LEMMA RolledBackSound ==
  ASSUME Good(db), NEW nextTrade \in db.nextTrade..MaxTrades + 1,
         NEW nextPosition \in Nat, nextPosition >= db.nextPosition
  PROVE  LET e == RolledBack(db, nextTrade, nextPosition)
         IN  Good(e) /\ KeepsIds(db, e)
  <1> DEFINE e == RolledBack(db, nextTrade, nextPosition)
  <1>1. /\ DOMAIN e = {"trades", "links", "positions", "nextTrade", "nextPosition"}
        /\ e.trades = db.trades /\ e.links = db.links /\ e.positions = db.positions
        /\ e.nextTrade = nextTrade /\ e.nextPosition = nextPosition
    BY DatabaseFields DEF RolledBack
  <1> HIDE DEF e
  <1>2. /\ db.nextTrade \in 1..MaxTrades + 1 /\ db.nextPosition \in Nat \ {0}
        /\ MaxTrades \in Nat
    BY TablesAssumption DEF Good, Typed
  <1>3. Typed(e)
    <2>1. \A t \in db.trades : t.id < nextTrade
      BY <1>2 DEF Good, Typed, Row
    <2>2. 0..db.nextPosition - 1 \subseteq 0..nextPosition - 1
      BY <1>2
    <2>3. db.links \in [1..MaxTrades -> 0..nextPosition - 1]
      BY <2>2 DEF Good, Typed
    <2>4. \A pa \in Pairs : db.positions[pa].id \in 0..nextPosition - 1
      BY <2>2 DEF Good, Typed
    <2>5. nextTrade \in 1..MaxTrades + 1 /\ nextPosition \in Nat \ {0}
      BY <1>2
    <2>6. QED
      BY <1>1, <2>1, <2>3, <2>4, <2>5 DEF Good, Typed
  <1>4. Tidy(e) /\ KeepsIds(db, e)
    BY <1>1 DEF Good, Tidy, KeepsIds
  <1>5. \A p \in Portfolios, a \in AssetIds : Settled(e, p, a)
    <2>1. \A p, a : BookOf(e, p, a) = BookOf(db, p, a)
      BY <1>1 DEF BookOf
    <2>2. ASSUME NEW p \in Portfolios, NEW a \in AssetIds
          PROVE  Settled(e, p, a)
      <3>1. Settled(db, p, a) /\ BookOf(e, p, a) = BookOf(db, p, a)
        BY <2>1 DEF Good
      <3>2. QED
        BY <1>1, <3>1 DEF Settled
    <2>3. QED
      BY <2>2
  <1>6. QED
    BY <1>3, <1>4, <1>5 DEF Good, e

\* The sequences of a database a request has reached: not behind the committed ones.
Reachable(d) ==
  /\ d.nextTrade \in db.nextTrade..MaxTrades + 1
  /\ d.nextPosition \in Nat /\ d.nextPosition >= db.nextPosition

LEMMA LeaveSound ==
  ASSUME NEW d, NEW status \in {0, 200, 201, 404, 422, 500},
         Good(d), KeepsIds(db, d), Leave(d, status)
  PROVE  JournalInv' /\ KeepsIds(db, db')
  BY DEF Leave, JournalInv, Good

\* A request commits a good database or rolls back to the one it found.
LEMMA AttemptSound ==
  ASSUME JournalInv, NEW replays, NEW reached, NEW d, NEW status \in {200, 201},
         \A i \in DOMAIN replays : Reachable(reached[i]),
         DOMAIN replays \subseteq 1..3,
         (\A i \in DOMAIN replays : ~IsFailure(replays[i])) => Good(d) /\ KeepsIds(db, d),
         Attempt(replays, reached, d, status)
  PROVE  JournalInv' /\ KeepsIds(db, db')
  <1> DEFINE raised == {i \in DOMAIN replays : IsFailure(replays[i])}
             first  == Min(raised)
             back   == RolledBack(db, reached[first].nextTrade, reached[first].nextPosition)
  <1>1. \A replayed : StatusOf(replayed) \in {422, 500}
    BY DEF StatusOf
  <1>2. CASE raised # {}
    <2>1. Leave(back, StatusOf(replays[first]))
      BY <1>2 DEF Attempt
    <2>2. first \in raised
      <3>1. \E x \in raised : \A y \in raised : x <= y
        <4>1. raised \subseteq {1, 2, 3}
          OBVIOUS
        <4>2. QED
          BY <1>2, <4>1
      <3>2. QED
        BY <3>1 DEF Min
    <2>3. Good(db)
      BY DEF JournalInv, Good
    <2>4. Good(back) /\ KeepsIds(db, back)
      BY <2>2, <2>3, RolledBackSound DEF Reachable
    <2> HIDE DEF back
    <2>5. QED
      BY <1>1, <2>1, <2>4, LeaveSound
  <1>3. CASE raised = {}
    <2>1. Leave(d, status)
      BY <1>3 DEF Attempt
    <2>2. Good(d) /\ KeepsIds(db, d)
      BY <1>3
    <2>3. QED
      BY <2>1, <2>2, LeaveSound
  <1>4. QED
    BY <1>2, <1>3

LEMMA RefuseSound ==
  ASSUME JournalInv, NEW status \in {404, 422, 500}, Refuse(status)
  PROVE  JournalInv' /\ KeepsIds(db, db')
  BY DEF Refuse, JournalInv, KeepsIds

\* Recalculating the only unsettled pair gives a good database.
LEMMA OneRecalculation ==
  ASSUME JournalInv, NEW d, Typed(d), Tidy(d), d.positions = db.positions,
         NEW p \in Portfolios, NEW a \in AssetIds, ~IsFailure(BookOf(d, p, a)),
         \A q \in Portfolios, b \in AssetIds :
           <<q, b>> # <<p, a>> => Settled(d, q, b)
  PROVE  Good(Recalculated(d, p, a)) /\ KeepsIds(db, Recalculated(d, p, a))
  <1> DEFINE e == Recalculated(d, p, a)
  <1>1. /\ Typed(e) /\ Tidy(e) /\ Settled(e, p, a) /\ KeepsIds(d, e)
        /\ \A q \in Portfolios, b \in AssetIds :
             <<q, b>> # <<p, a>> /\ Settled(d, q, b) => Settled(e, q, b)
    BY RecalculatedSound
  <1> HIDE DEF e
  <1>2. \A q \in Portfolios, b \in AssetIds : Settled(e, q, b)
    BY <1>1
  <1>3. KeepsIds(db, e)
    BY <1>1 DEF KeepsIds
  <1>4. QED
    BY <1>1, <1>2, <1>3 DEF Good, e

LEMMA RegisterSound ==
  ASSUME JournalInv, NEW user \in Users, NEW portfolio \in Portfolios, NEW data \in TradeData,
         RegisterTrade(user, portfolio, data)
  PROVE  JournalInv' /\ KeepsIds(db, db')
  <1> DEFINE row      == RowOf(db.nextTrade, portfolio, data)
             inserted == Inserted(db, row)
             replays  == <<Validate(db.trades, row, 0),
                           BookOf(inserted, portfolio, data.asset_id)>>
             final    == Recalculated(inserted, portfolio, data.asset_id)
             reached  == <<db, inserted>>
  <1>1. CASE Refuse(404)
    BY <1>1, RefuseSound
  <1>2. CASE ~Refuse(404)
    <2>1. /\ data.asset_id \in Assets /\ db.nextTrade <= MaxTrades
          /\ Attempt(replays, reached, final, 201)
      BY <1>2 DEF RegisterTrade
    <2>2. db.nextTrade \in 1..MaxTrades /\ Typed(db) /\ Tidy(db)
      BY <2>1, TablesAssumption DEF JournalInv, Typed
    <2>3. data.asset_id \in AssetIds
      BY <2>1, TablesAssumption
    <2>4. Storable(row, db.nextTrade, portfolio) /\ row.asset_id = data.asset_id
      BY <2>1, <2>2, RowOfSound
    <2> HIDE DEF row
    <2>5. /\ Typed(inserted) /\ Tidy(inserted) /\ inserted.positions = db.positions
          /\ inserted.nextTrade = db.nextTrade + 1
          /\ inserted.nextPosition = db.nextPosition
          /\ \A q \in Portfolios, b \in AssetIds :
               <<q, b>> # <<portfolio, row.asset_id>> /\ Settled(db, q, b)
                 => Settled(inserted, q, b)
      BY <2>1, <2>2, <2>4, InsertedSound
    <2> HIDE DEF inserted
    <2>6. \A q \in Portfolios, b \in AssetIds :
            <<q, b>> # <<portfolio, data.asset_id>> => Settled(inserted, q, b)
      BY <2>4, <2>5 DEF JournalInv
    <2>7. ASSUME \A i \in DOMAIN replays : ~IsFailure(replays[i])
          PROVE  Good(final) /\ KeepsIds(db, final)
      <3>1. ~IsFailure(BookOf(inserted, portfolio, data.asset_id))
        BY <2>7
      <3>2. QED
        BY <2>3, <2>5, <2>6, <3>1, OneRecalculation
    <2>8. /\ DOMAIN replays \subseteq 1..3
          /\ \A i \in DOMAIN replays : Reachable(reached[i])
      <3>1. Reachable(db) /\ Reachable(inserted)
        BY <2>2, <2>5, TablesAssumption DEF Reachable, Typed
      <3>2. QED
        BY <3>1
    <2> HIDE DEF replays, final, reached
    <2>9. QED
      BY <2>1, <2>7, <2>8, AttemptSound
  <1>3. QED
    BY <1>1, <1>2

LEMMA DeleteSound ==
  ASSUME JournalInv, NEW user \in Users, NEW portfolio \in Portfolios, NEW id \in 1..MaxTrades,
         DeleteTrade(user, portfolio, id)
  PROVE  JournalInv' /\ KeepsIds(db, db')
  <1>1. CASE Refuse(404)
    BY <1>1, RefuseSound
  <1>2. CASE ~Refuse(404)
    <2>1. ~Missing(user, portfolio, id)
      BY <1>2 DEF DeleteTrade
    <2>2. PICK trade \in db.trades :
            /\ trade.id = id
            /\ Attempt(<<BookOf(Removed(db, trade), portfolio, trade.asset_id)>>,
                       <<Removed(db, trade)>>,
                       Recalculated(Removed(db, trade), portfolio, trade.asset_id), 200)
      BY <1>2 DEF DeleteTrade
    <2> DEFINE removed == Removed(db, trade)
               replays == <<BookOf(removed, portfolio, trade.asset_id)>>
               final   == Recalculated(removed, portfolio, trade.asset_id)
               reached == <<removed>>
    <2>3. Typed(db) /\ Tidy(db)
      BY DEF JournalInv
    <2>4. trade.portfolio_id = portfolio /\ trade.asset_id \in AssetIds
      <3>1. PICK t \in db.trades : t.id = id /\ t.portfolio_id = portfolio
        BY <2>1 DEF Missing
      <3>2. t = trade
        BY <2>2, <2>3, <3>1 DEF Typed
      <3>3. QED
        BY <2>3, <3>1, <3>2, TablesAssumption DEF Typed, Row
    <2>5. /\ Typed(removed) /\ Tidy(removed) /\ removed.positions = db.positions
          /\ removed.nextTrade = db.nextTrade /\ removed.nextPosition = db.nextPosition
          /\ \A q \in Portfolios, b \in AssetIds :
               <<q, b>> # <<trade.portfolio_id, trade.asset_id>> /\ Settled(db, q, b)
                 => Settled(removed, q, b)
      BY <2>3, RemovedSound
    <2>6. Attempt(replays, reached, final, 200)
      BY <2>2
    <2> HIDE DEF removed
    <2>7. ASSUME \A i \in DOMAIN replays : ~IsFailure(replays[i])
          PROVE  Good(final) /\ KeepsIds(db, final)
      <3>1. ~IsFailure(BookOf(removed, portfolio, trade.asset_id))
        BY <2>7
      <3>2. \A q \in Portfolios, b \in AssetIds :
              <<q, b>> # <<portfolio, trade.asset_id>> => Settled(removed, q, b)
        BY <2>4, <2>5 DEF JournalInv
      <3>3. QED
        BY <2>4, <2>5, <3>1, <3>2, OneRecalculation
    <2>8. /\ DOMAIN replays \subseteq 1..3
          /\ \A i \in DOMAIN replays : Reachable(reached[i])
      <3>1. Reachable(removed)
        BY <2>3, <2>5 DEF Reachable, Typed
      <3>2. QED
        BY <3>1
    <2> HIDE DEF replays, final, reached
    <2>9. QED
      BY <2>6, <2>7, <2>8, AttemptSound
  <1>3. QED
    BY <1>1, <1>2

LEMMA RecalculateSound ==
  ASSUME JournalInv, NEW user \in Users, NEW portfolio \in Portfolios, NEW asset \in AssetIds,
         RecalculateForUser(user, portfolio, asset)
  PROVE  JournalInv' /\ KeepsIds(db, db')
  <1> DEFINE replays == <<BookOf(db, portfolio, asset)>>
             final   == Recalculated(db, portfolio, asset)
             reached == <<db>>
  <1>1. CASE Refuse(404)
    BY <1>1, RefuseSound
  <1>2. CASE ~Refuse(404)
    <2>1. Attempt(replays, reached, final, 200)
      BY <1>2 DEF RecalculateForUser
    <2>2. ASSUME \A i \in DOMAIN replays : ~IsFailure(replays[i])
          PROVE  Good(final) /\ KeepsIds(db, final)
      <3>1. ~IsFailure(BookOf(db, portfolio, asset))
        BY <2>2
      <3>2. QED
        BY <3>1, OneRecalculation DEF JournalInv
    <2>3. /\ DOMAIN replays \subseteq 1..3
          /\ \A i \in DOMAIN replays : Reachable(reached[i])
      BY DEF Reachable, JournalInv, Typed
    <2> HIDE DEF replays, final, reached
    <2>4. QED
      BY <2>1, <2>2, <2>3, AttemptSound
  <1>3. QED
    BY <1>1, <1>2

\* An edit in place needs one recalculation, a move two: the ledger entered first,
\* then the ledger left.
LEMMA EditSound ==
  ASSUME JournalInv, NEW trade \in db.trades, NEW data \in EditsOf(trade, TradeData),
         EditTrade(trade, data)
  PROVE  JournalInv' /\ KeepsIds(db, db')
  <1> DEFINE portfolio == trade.portfolio_id
             row       == RowOf(trade.id, portfolio, data)
             replaced  == Replaced(db, trade, row)
             entered   == Recalculated(replaced, portfolio, data.asset_id)
             final     == Recalculated(entered, portfolio, trade.asset_id)
             validated == Validate(db.trades, row, trade.id)
             joined    == BookOf(replaced, portfolio, data.asset_id)
             left      == BookOf(replaced, portfolio, trade.asset_id)
  <1>1. CASE Refuse(404)
    BY <1>1, RefuseSound
  <1>2. CASE ~Refuse(404)
    <2>1. /\ data.asset_id \in Assets
          /\ \/ data.asset_id = trade.asset_id /\ Attempt(<<validated, joined>>, <<db, replaced>>, entered, 200)
             \/ data.asset_id # trade.asset_id
                /\ Attempt(<<validated, joined, left>>, <<db, replaced, entered>>, final, 200)
      BY <1>2 DEF EditTrade
    <2>2. Typed(db) /\ Tidy(db) /\ trade \in Row
      BY DEF JournalInv, Typed
    <2>3. /\ trade.id \in 1..MaxTrades /\ portfolio \in Portfolios
          /\ data.asset_id \in AssetIds /\ trade.asset_id \in AssetIds
      BY <2>1, <2>2, TablesAssumption DEF Row
    <2>4. Storable(row, trade.id, portfolio) /\ row.asset_id = data.asset_id
      BY <2>1, <2>2, <2>3, RowOfSound
    <2> HIDE DEF row
    <2>5. /\ Typed(replaced) /\ Tidy(replaced) /\ replaced.positions = db.positions
          /\ replaced.nextTrade = db.nextTrade /\ replaced.nextPosition = db.nextPosition
          /\ \A q \in Portfolios, b \in AssetIds :
               /\ <<q, b>> # <<portfolio, row.asset_id>>
               /\ <<q, b>> # <<portfolio, trade.asset_id>>
               /\ Settled(db, q, b)
               => Settled(replaced, q, b)
      BY <2>2, <2>4, ReplacedSound
    <2>10. Reachable(db) /\ Reachable(replaced) /\ replaced.nextPosition \in Nat
      BY <2>2, <2>5 DEF Reachable, Typed
    <2>6. \A q \in Portfolios, b \in AssetIds :
            /\ <<q, b>> # <<portfolio, data.asset_id>>
            /\ <<q, b>> # <<portfolio, trade.asset_id>>
            => Settled(replaced, q, b)
      BY <2>4, <2>5 DEF JournalInv
    <2> HIDE DEF replaced, portfolio, validated
    <2>7. CASE /\ data.asset_id = trade.asset_id
               /\ Attempt(<<validated, joined>>, <<db, replaced>>, entered, 200)
      <3> DEFINE replays == <<validated, joined>>
      <3>1. ASSUME \A i \in DOMAIN replays : ~IsFailure(replays[i])
            PROVE  Good(entered) /\ KeepsIds(db, entered)
        <4>1. ~IsFailure(BookOf(replaced, portfolio, data.asset_id))
          BY <3>1
        <4>2. QED
          BY <2>3, <2>5, <2>6, <2>7, <4>1, OneRecalculation
      <3> DEFINE reached == <<db, replaced>>
      <3>2. Attempt(replays, reached, entered, 200)
        BY <2>7
      <3>3. /\ DOMAIN replays \subseteq 1..3
            /\ \A i \in DOMAIN replays : Reachable(reached[i])
        BY <2>10
      <3> HIDE DEF replays, reached, entered
      <3>4. QED
        BY <3>1, <3>2, <3>3, AttemptSound
    <2>8. CASE /\ data.asset_id # trade.asset_id
               /\ Attempt(<<validated, joined, left>>, <<db, replaced, entered>>, final, 200)
      <3> DEFINE replays == <<validated, joined, left>>
      <3>1. ASSUME \A i \in DOMAIN replays : ~IsFailure(replays[i])
            PROVE  Good(final) /\ KeepsIds(db, final)
        <4>1. ~IsFailure(joined) /\ ~IsFailure(left)
          BY <3>1
        <4>2. /\ Typed(entered) /\ Tidy(entered) /\ entered.trades = replaced.trades
              /\ Settled(entered, portfolio, data.asset_id)
              /\ \A q \in Portfolios, b \in AssetIds :
                   <<q, b>> # <<portfolio, data.asset_id>> /\ Settled(replaced, q, b)
                     => Settled(entered, q, b)
              /\ \A qb \in Pairs \ {<<portfolio, data.asset_id>>} :
                   entered.positions[qb] = replaced.positions[qb]
              /\ KeepsIds(replaced, entered)
          BY <2>3, <2>5, <4>1, RecalculatedSound
        <4>3. ~IsFailure(BookOf(entered, portfolio, trade.asset_id))
          BY <4>1, <4>2 DEF BookOf
        <4> HIDE DEF entered
        <4>4. /\ Typed(final) /\ Tidy(final)
              /\ Settled(final, portfolio, trade.asset_id)
              /\ \A q \in Portfolios, b \in AssetIds :
                   <<q, b>> # <<portfolio, trade.asset_id>> /\ Settled(entered, q, b)
                     => Settled(final, q, b)
              /\ \A qb \in Pairs \ {<<portfolio, trade.asset_id>>} :
                   final.positions[qb] = entered.positions[qb]
              /\ KeepsIds(entered, final)
          BY <2>3, <4>2, <4>3, RecalculatedSound
        <4> HIDE DEF final
        <4>5. \A q \in Portfolios, b \in AssetIds : Settled(final, q, b)
          BY <2>6, <4>2, <4>4
        <4>6. KeepsIds(db, final)
          <5>1. <<portfolio, data.asset_id>> # <<portfolio, trade.asset_id>>
            BY <2>8
          <5>2. QED
            BY <2>5, <4>2, <4>4, <5>1 DEF KeepsIds
        <4>7. QED
          BY <4>4, <4>5, <4>6 DEF Good
      <3>2. Reachable(entered)
        BY <2>5, <2>10, RecalculatedSequences DEF Reachable
      <3> DEFINE reached == <<db, replaced, entered>>
      <3>3. Attempt(replays, reached, final, 200)
        BY <2>8
      <3>4. /\ DOMAIN replays \subseteq 1..3
            /\ \A i \in DOMAIN replays : Reachable(reached[i])
        BY <2>10, <3>2
      <3> HIDE DEF replays, reached, final
      <3>5. QED
        BY <3>1, <3>3, <3>4, AttemptSound
    <2>9. QED
      BY <2>1, <2>7, <2>8
  <1>3. QED
    BY <1>1, <1>2

LEMMA UpdateSound ==
  ASSUME JournalInv, NEW user \in Users, NEW portfolio \in Portfolios, NEW id \in 1..MaxTrades,
         UpdateTrade(user, portfolio, id)
  PROVE  JournalInv' /\ KeepsIds(db, db')
  <1>1. CASE Refuse(404) \/ Refuse(422)
    BY <1>1, RefuseSound
  <1>2. CASE \E trade \in db.trades :
               \E data \in EditsOf(trade, TradeData) : EditTrade(trade, data)
    BY <1>2, EditSound
  <1>3. QED
    BY <1>1, <1>2 DEF UpdateTrade

LEMMA InitSound == Init => JournalInv
  <1> SUFFICES ASSUME Init PROVE JournalInv
    OBVIOUS
  <1> DEFINE links     == [i \in 1..MaxTrades |-> 0]
             positions == [pa \in Pairs |-> NoRow]
  <1>1. /\ DOMAIN db = {"trades", "links", "positions", "nextTrade", "nextPosition"}
        /\ db.trades = {} /\ db.links = links /\ db.positions = positions
        /\ db.nextTrade = 1 /\ db.nextPosition = 1 /\ reply = 0
    <2>1. db = Database({}, links, positions, 1, 1) /\ reply = 0
      BY DEF Init, EmptyDatabase
    <2> HIDE DEF links, positions
    <2>2. QED
      BY <2>1, DatabaseFields
  <1>2. MaxTrades \in Nat /\ MaxPositions \in Nat
    BY TablesAssumption
  <1>3. \A pa \in Pairs : positions[pa] = NoRow /\ NoRow.id = 0 /\ NoRow.book = NoBook
    BY DEF NoRow
  <1>4. Typed(db) /\ Tidy(db)
    BY <1>1, <1>2, <1>3 DEF Typed, Tidy
  <1>5. ASSUME NEW p \in Portfolios, NEW a \in AssetIds
        PROVE  Settled(db, p, a)
    <2>1. LedgerOf(db.trades, p, a) = {}
      BY <1>1 DEF LedgerOf
    <2>2. BookOf(db, p, a) = NoBook
      BY <2>1, EmptyReplay DEF BookOf
    <2>3. ~IsFailure(NoBook) /\ ~IsPosition(NoBook)
      BY DEF IsFailure, IsPosition, NoBook
    <2>4. <<p, a>> \in Pairs
      BY DEF Pairs
    <2>5. QED
      BY <1>1, <1>3, <2>1, <2>2, <2>3, <2>4 DEF Settled
  <1>6. QED
    BY <1>1, <1>2, <1>4, <1>5 DEF JournalInv

LEMMA AbandonSound ==
  ASSUME JournalInv, Abandon
  PROVE  JournalInv' /\ KeepsIds(db, db')
  <1>1. PICK trades \in 0..1, positions \in 0..2 :
          /\ RolledBack(db, db.nextTrade + trades, db.nextPosition + positions).nextTrade
               <= MaxTrades + 1
          /\ Leave(RolledBack(db, db.nextTrade + trades, db.nextPosition + positions), reply)
    BY DEF Abandon
  <1> DEFINE e == RolledBack(db, db.nextTrade + trades, db.nextPosition + positions)
  <1>2. e.nextTrade = db.nextTrade + trades
    BY DatabaseFields DEF RolledBack
  <1>3. /\ db.nextTrade \in 1..MaxTrades + 1 /\ db.nextPosition \in Nat
        /\ MaxTrades \in Nat /\ Good(db)
    BY TablesAssumption DEF JournalInv, Good, Typed
  <1>4. /\ db.nextTrade + trades \in db.nextTrade..MaxTrades + 1
        /\ db.nextPosition + positions \in Nat
        /\ db.nextPosition + positions >= db.nextPosition
    BY <1>1, <1>2, <1>3
  <1>5. Good(e) /\ KeepsIds(db, e)
    BY <1>3, <1>4, RolledBackSound
  <1>6. Leave(e, reply)
    BY <1>1
  <1> HIDE DEF e
  <1>7. QED
    BY <1>5, <1>6, LeaveSound DEF JournalInv

LEMMA RequestSound ==
  ASSUME JournalInv, Requests
  PROVE  JournalInv' /\ KeepsIds(db, db')
  <1>1. PICK user \in Users, portfolio \in Portfolios :
          \/ \E data \in TradeData : RegisterTrade(user, portfolio, data)
          \/ \E id \in 1..MaxTrades : UpdateTrade(user, portfolio, id)
          \/ \E id \in 1..MaxTrades : DeleteTrade(user, portfolio, id)
          \/ \E asset \in AssetIds : RecalculateForUser(user, portfolio, asset)
    BY DEF Requests
  <1>2. QED
    BY <1>1, RegisterSound, UpdateSound, DeleteSound, RecalculateSound

LEMMA JournalInductive ==
  ASSUME JournalInv, Next
  PROVE  JournalInv' /\ KeepsIds(db, db')
  BY AbandonSound, RequestSound DEF Next

LEMMA IInvIsInductive == JournalInv /\ [Next]_vars => JournalInv'
  <1>1. CASE Next
    BY <1>1, JournalInductive
  <1>2. CASE UNCHANGED vars
    BY <1>2 DEF JournalInv, vars
  <1>3. QED
    BY <1>1, <1>2

LEMMA IInvHolds == Spec => []JournalInv
  BY InitSound, IInvIsInductive, PTL DEF Spec

\* The database always holds rows of its schema, one per id handed out.
THEOREM JournalTyped == Spec => []TypeOK
  <1>1. JournalInv => TypeOK
    BY TablesAssumption DEF JournalInv, Typed, TypeOK
  <1>2. QED
    BY <1>1, IInvHolds, PTL

\* Whatever requests are made, in whatever order: every committed ledger replays
\* without raising and the stored position is what the replay computes.
THEOREM PositionsAlwaysFollowLedger == Spec => []PositionsFollowLedger
  <1>1. ASSUME JournalInv PROVE PositionsFollowLedger
    <2>1. ASSUME NEW p \in Portfolios, NEW a \in AssetIds
          PROVE  /\ ~IsFailure(BookOf(db, p, a))
                 /\ db.positions[<<p, a>>].book
                      = (IF IsPosition(BookOf(db, p, a)) THEN Saved(BookOf(db, p, a)) ELSE NoBook)
      BY <1>1 DEF JournalInv, Settled
    <2>2. QED
      BY <2>1 DEF PositionsFollowLedger
  <1>2. QED
    BY <1>1, IInvHolds, PTL

\* Every trade is linked to the position of its own pair, no id is shared and no
\* link dangles.
THEOREM LinksAlwaysFollowPositions == Spec => []LinksFollowPositions
  <1>1. ASSUME JournalInv PROVE LinksFollowPositions
    <2>1. ASSUME NEW t \in db.trades
          PROVE  db.links[t.id] = db.positions[<<t.portfolio_id, t.asset_id>>].id
      <3>1. t.portfolio_id \in Portfolios /\ t.asset_id \in AssetIds
        BY <1>1, TablesAssumption DEF JournalInv, Typed, Row
      <3>2. t \in LedgerOf(db.trades, t.portfolio_id, t.asset_id)
        BY DEF LedgerOf
      <3>3. QED
        BY <1>1, <3>1, <3>2 DEF JournalInv, Settled
    <2>2. QED
      BY <1>1, <2>1 DEF JournalInv, Tidy, LinksFollowPositions
  <1>2. QED
    BY <1>1, IInvHolds, PTL

\* A position keeps its id from its first trade until its pair has none.
THEOREM PositionIdsAlwaysStable == Spec => PositionIdsAreStable
  <1>1. JournalInv /\ [Next]_vars => [IdsKept]_db
    BY JournalInductive DEF KeepsIds, IdsKept, vars
  <1>2. QED
    BY <1>1, IInvHolds, PTL DEF Spec, PositionIdsAreStable

-----------------------------------------------------------------------------
\* A trade that shares its time with no other of its ledger can change its id.
LEMMA RenamedReplaysAlike ==
  ASSUME NEW L, IsLedger(L), NEW t \in L, NEW r, SameTrade(t, r), r \notin L \ {t},
         IsLedger((L \ {t}) \cup {r}),
         \A u \in L \ {t} : u.executed_at # t.executed_at
  PROVE  Replay((L \ {t}) \cup {r}) = Replay(L)
<1> DEFINE With(s) == (s \ {t}) \cup {r}
           bad == {s \in SUBSET L : t \in s /\ Replay(With(s)) # Replay(s)}
<1>1. bad = {}
  <2> SUFFICES ASSUME bad # {} PROVE FALSE
    OBVIOUS
  <2>1. PICK s \in bad : \A q \in bad : q \subseteq s => q = s
    <3>1. bad \subseteq SUBSET L /\ IsFiniteSet(L)
      BY DEF IsLedger
    <3> HIDE DEF bad
    <3> QED
      BY <3>1, LeastSubset
  <2>2. s \in SUBSET L /\ t \in s /\ Replay(With(s)) # Replay(s)
    OBVIOUS
  <2>3. IsLedger(s) /\ IsLedger(With(s)) /\ s # {} /\ With(s) # {}
    <3>1. With(s) \subseteq (L \ {t}) \cup {r}
      BY <2>2
    <3> QED
      BY <2>2, <3>1, SubLedger
  <2>4. PICK x : x = Latest(s)
    OBVIOUS
  <2>5. x \in s /\ \A u \in s \ {x} : Precedes(u, x)
    BY <2>3, <2>4, LatestIs
  <2>6. Replay(s) = ApplyTrade(x, Replay(s \ {x}))
    BY <2>3, <2>4, ReplayUnfolds
  <2>7. Replay(With(s)) = ApplyTrade(Latest(With(s)), Replay(With(s) \ {Latest(With(s))}))
    BY <2>3, ReplayUnfolds
  <2>8. CASE x = t
    <3>1. \A u \in With(s) \ {r} : Precedes(u, r)
      BY <2>2, <2>5, <2>8 DEF Precedes, SameTrade
    <3>2. Latest(With(s)) = r /\ With(s) \ {r} = s \ {t}
      <4>1. r \in With(s) /\ With(s) \ {r} = s \ {t}
        BY <2>2
      <4> HIDE DEF With
      <4> QED
        BY <2>3, <3>1, <4>1, LatestIsOnly
    <3>3. ApplyTrade(r, Replay(s \ {t})) = ApplyTrade(t, Replay(s \ {t}))
      BY IdsDoNotCount
    <3> QED
      BY <2>2, <2>6, <2>7, <2>8, <3>2, <3>3
  <2>9. CASE x # t
    <3>1. Precedes(t, x) /\ x \in L \ {t}
      BY <2>2, <2>5, <2>9
    <3>2. t.executed_at < x.executed_at
      BY <3>1 DEF Precedes
    <3>3. Precedes(r, x)
      BY <3>2 DEF Precedes, SameTrade
    <3>4. \A u \in With(s) \ {x} : Precedes(u, x)
      BY <2>5, <3>3
    <3>5. x \in With(s) /\ With(s) \ {x} = With(s \ {x})
      BY <2>5, <2>9, <3>1
    <3>6. Latest(With(s)) = x
      <4> HIDE DEF With
      <4> QED
        BY <2>3, <3>4, <3>5, LatestIsOnly
    <3>7. s \ {x} \notin bad
      BY <2>1, <2>5
    <3>8. Replay(With(s \ {x})) = Replay(s \ {x})
      BY <2>2, <2>9, <3>7
    <3> QED
      BY <2>2, <2>6, <2>7, <3>5, <3>6, <3>8
  <2> QED
    BY <2>8, <2>9
<1> QED
  BY <1>1

\* A finite set of numbers has a greatest.
LEMMA MaxIs ==
  ASSUME NEW S, IsFiniteSet(S), S # {}
  PROVE  S \subseteq Nat => Max(S) \in S /\ \A n \in S : n <= Max(S)
<1> DEFINE Tops(s, m) == m \in s /\ \A n \in s : n <= m
           bad == {s \in SUBSET S : s \subseteq Nat /\ s # {} /\ ~ \E m \in s : Tops(s, m)}
<1>1. bad = {}
  <2> SUFFICES ASSUME bad # {} PROVE FALSE
    OBVIOUS
  <2>1. PICK s \in bad : \A r \in bad : r \subseteq s => r = s
    <3>1. bad \subseteq SUBSET S
      OBVIOUS
    <3> HIDE DEF bad
    <3> QED
      BY <3>1, LeastSubset
  <2>2. s \subseteq Nat /\ s \in SUBSET S /\ s # {} /\ ~ \E m \in s : Tops(s, m)
    OBVIOUS
  <2>3. PICK x \in s : TRUE
    BY <2>2
  <2>4. CASE s \ {x} = {}
    <3>1. Tops(s, x)
      BY <2>2, <2>3, <2>4
    <3> QED
      BY <2>2, <2>3, <3>1
  <2>5. CASE s \ {x} # {}
    <3>1. s \ {x} \notin bad
      BY <2>1, <2>3
    <3>2. PICK m \in s \ {x} : Tops(s \ {x}, m)
      BY <2>2, <2>5, <3>1
    <3>3. x \in Nat /\ m \in Nat /\ \A n \in s : n \in Nat
      BY <2>2, <2>3
    <3>4. CASE x <= m
      <4>1. Tops(s, m)
        BY <2>3, <3>2, <3>3, <3>4
      <4> QED
        BY <2>2, <4>1
    <3>5. CASE m <= x
      <4>1. Tops(s, x)
        BY <2>3, <3>2, <3>3, <3>5
      <4> QED
        BY <2>2, <4>1
    <3> QED
      BY <3>3, <3>4, <3>5
  <2> QED
    BY <2>4, <2>5
<1> SUFFICES ASSUME S \subseteq Nat PROVE Max(S) \in S /\ \A n \in S : n <= Max(S)
  OBVIOUS
<1>2. PICK m \in S : Tops(S, m)
  BY <1>1
<1> QED
  BY <1>2 DEF Max

\* The rows of one pair are a ledger.
LEMMA CommittedIsALedger ==
  ASSUME JournalInv, NEW p, NEW a
  PROVE  IsLedger(LedgerOf(db.trades, p, a))
<1> DEFINE L == LedgerOf(db.trades, p, a)
           f == [t \in L |-> t.id]
<1>1. /\ \A t \in L : t.id \in 1..MaxTrades /\ t.executed_at \in Nat
      /\ \A t, u \in L : t.id = u.id => t = u
  <2>1. L \subseteq db.trades /\ Typed(db)
    BY DEF LedgerOf, JournalInv
  <2> HIDE DEF L
  <2>2. db.trades \subseteq Row /\ \A t, u \in db.trades : t.id = u.id => t = u
    BY <2>1 DEF Typed
  <2>3. \A t \in Row : t.id \in 1..MaxTrades /\ t.executed_at \in Times
    BY DEF Row
  <2>4. Times \subseteq Nat
    BY TablesAssumption
  <2> QED
    BY <2>1, <2>2, <2>3, <2>4
<1>2. f \in [L -> 1..MaxTrades] /\ \A t, u \in L : f[t] = f[u] => t = u
  BY <1>1
<1>3. MaxTrades \in Nat
  BY TablesAssumption
<1> HIDE DEF f, L
<1>4. f \in Injection(L, 1..MaxTrades)
  BY <1>2 DEF Injection, IsInjective
<1>5. IsFiniteSet(L)
  BY <1>3, <1>4, FS_Interval, FS_Injection
<1>6. \A t \in L : t.id \in Nat /\ t.executed_at \in Nat
  BY <1>1, <1>3
<1> QED
  BY <1>1, <1>5, <1>6 DEF IsLedger, L

\* The id _validate_trade_sequence makes up is past every id of the ledger.
LEMMA MadeUpId ==
  ASSUME NEW L, IsLedger(L)
  PROVE  LET last == Max({0} \cup {t.id : t \in L})
         IN  last \in Nat /\ \A t \in L : t.id <= last
<1> DEFINE ids == {t.id : t \in L}
<1>1. IsFiniteSet(ids)
  <2> DEFINE f == [t \in L |-> t.id]
  <2>1. f \in Surjection(L, ids)
    BY DEF Surjection
  <2> HIDE DEF f
  <2> QED
    BY <2>1, FS_Surjection DEF IsLedger
<1>2. PICK S : S = {0} \cup ids
  OBVIOUS
<1>3. IsFiniteSet(S) /\ S # {} /\ S \subseteq Nat
  BY <1>1, <1>2, FS_AddElement DEF IsLedger
<1>4. Max(S) \in S /\ \A n \in S : n <= Max(S)
  BY <1>3, MaxIs
<1> QED
  BY <1>2, <1>3, <1>4

\* What is committed passes the validation again, unless the made-up id moves the
\* trade past another one of the same time.
LEMMA NoOpEditPasses ==
  ASSUME JournalInv, NEW t \in db.trades,
         \A u \in LedgerOf(db.trades, t.portfolio_id, t.asset_id) \ {t} :
           u.executed_at # t.executed_at
  PROVE  ~IsFailure(Validate(db.trades, t, t.id))
<1>1. PICK p, a : p = t.portfolio_id /\ a = t.asset_id
  OBVIOUS
<1>2. p \in Portfolios /\ a \in AssetIds
  BY <1>1, TablesAssumption DEF JournalInv, Typed, Row
<1>3. PICK L : L = LedgerOf(db.trades, p, a)
  OBVIOUS
<1>4. IsLedger(L) /\ t \in L /\ \A u \in L \ {t} : u.executed_at # t.executed_at
  <2>1. IsLedger(LedgerOf(db.trades, p, a))
    BY CommittedIsALedger
  <2>2. t \in L
    BY <1>1, <1>3 DEF LedgerOf
  <2>3. \A u \in L \ {t} : u.executed_at # t.executed_at
    BY <1>1, <1>3
  <2> QED
    BY <1>3, <2>1, <2>2, <2>3
<1>5. ~IsFailure(Replay(L))
  <2>1. Settled(db, p, a)
    BY <1>2 DEF JournalInv
  <2> QED
    BY <1>3, <2>1 DEF Settled, BookOf
<1>6. PICK last : /\ last = Max({0} \cup {u.id : u \in L})
                  /\ last \in Nat /\ \A u \in L : u.id <= last
  BY <1>4, MadeUpId
<1>7. PICK r : r = [t EXCEPT !.id = last + 1]
  OBVIOUS
<1>8. r.id = last + 1 /\ SameTrade(t, r)
  <2>1. t \in Row
    BY DEF JournalInv, Typed
  <2> QED
    BY <1>7, <2>1 DEF Row, SameTrade
<1>9. {u \in L : u.id # t.id} = L \ {t}
  BY <1>4 DEF IsLedger
<1>10. Validate(db.trades, t, t.id) = Replay((L \ {t}) \cup {r})
  BY <1>1, <1>3, <1>6, <1>7, <1>9 DEF Validate
<1>11. \A u \in L : u.id # r.id
  BY <1>4, <1>6, <1>8 DEF IsLedger
<1>12. IsLedger((L \ {t}) \cup {r})
  <2>1. IsFiniteSet((L \ {t}) \cup {r})
    BY <1>4, FS_RemoveElement, FS_AddElement DEF IsLedger
  <2>2. r.id \in Nat /\ r.executed_at \in Nat
    BY <1>4, <1>6, <1>8 DEF IsLedger, SameTrade
  <2> QED
    BY <1>4, <1>11, <2>1, <2>2 DEF IsLedger
<1>13. r \notin L \ {t}
  BY <1>11
<1>14. Replay((L \ {t}) \cup {r}) = Replay(L)
  BY <1>4, <1>8, <1>12, <1>13, RenamedReplaysAlike
<1> QED
  BY <1>5, <1>10, <1>14

\* However the journal came about: saving one of its trades unchanged, or editing
\* only its notes or fees, is never refused but for another trade of the pair with
\* the same executed_at.
THEOREM NoOpEditsAreRefusedOnlyOnTies == Spec => []NoOpEditRefusedOnlyOnTies
<1>1. JournalInv => NoOpEditRefusedOnlyOnTies
  BY NoOpEditPasses DEF NoOpEditRefusedOnlyOnTies
<1> QED
  BY <1>1, IInvHolds, PTL
=============================================================================
