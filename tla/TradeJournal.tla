---------------------------- MODULE TradeJournal ----------------------------
(***************************************************************************)
(* The trade journal as its clients see it: every request of               *)
(* modules/trade is one atomic step on the committed database, or is       *)
(* refused and changes nothing (the session is closed without a commit).   *)
(* TradeSessions splits the same requests into database steps.             *)
(***************************************************************************)
EXTENDS TradeTables

VARIABLES
  db,      \* the committed database
  reply    \* status of the last request answered

vars == <<db, reply>>

(***************************************************************************)
(* The database.  A trade's position_id column is kept apart from the row  *)
(* (links), 0 being NULL.  Ids come from sequences.                        *)
(***************************************************************************)
Database(trades, links, positions, nextTrade, nextPosition) ==
  [trades |-> trades, links |-> links, positions |-> positions,
   nextTrade |-> nextTrade, nextPosition |-> nextPosition]

EmptyDatabase ==
  Database({}, [i \in 1..MaxTrades |-> 0], [pa \in Pairs |-> NoRow], 1, 1)

BookOf(d, portfolio, asset) == Replay(LedgerOf(d.trades, portfolio, asset))

\* Variants of Recalculated: the links are not synced, the row is inserted anew.
RecalculatedUnsynced(d, portfolio, asset) ==
  LET pa   == <<portfolio, asset>>
      old  == d.positions[pa]
      book == BookOf(d, portfolio, asset)
      row  == IF ~IsPosition(book) THEN NoRow
              ELSE [id |-> IF old.id = 0 THEN d.nextPosition ELSE old.id,
                    book |-> Saved(book)]
  IN  Database(d.trades, d.links, [d.positions EXCEPT ![pa] = row], d.nextTrade,
               IF row.id = d.nextPosition THEN d.nextPosition + 1 ELSE d.nextPosition)

\* recalculate_position, when the replay does not raise: the row of the pair is
\* deleted, inserted or overwritten, and every trade of the pair linked to it.
Recalculated(d, portfolio, asset) ==
  LET pa   == <<portfolio, asset>>
      old  == d.positions[pa]
      book == BookOf(d, portfolio, asset)
      row  == IF ~IsPosition(book) THEN NoRow
              ELSE [id |-> IF old.id = 0 THEN d.nextPosition ELSE old.id,
                    book |-> Saved(book)]
      ids  == {t.id : t \in LedgerOf(d.trades, portfolio, asset)}
  IN  Database(d.trades,
               [i \in DOMAIN d.links |-> IF i \in ids THEN row.id ELSE d.links[i]],
               [d.positions EXCEPT ![pa] = row],
               d.nextTrade,
               IF row.id = d.nextPosition THEN d.nextPosition + 1 ELSE d.nextPosition)

Inserted(d, row) ==
  Database(d.trades \cup {Stored(row)}, d.links, d.positions,
           d.nextTrade + 1, d.nextPosition)

Replaced(d, old, new) ==
  Database((d.trades \ {old}) \cup {Stored(new)}, d.links, d.positions,
           d.nextTrade, d.nextPosition)

Removed(d, row) ==
  Database(d.trades \ {row}, [d.links EXCEPT ![row.id] = 0], d.positions,
           d.nextTrade, d.nextPosition)

\* What a rollback leaves: everything as it was, but a sequence does not take
\* back the ids it handed out.
RolledBack(d, nextTrade, nextPosition) ==
  Database(d.trades, d.links, d.positions, nextTrade, nextPosition)

(***************************************************************************)
(* Requests                                                                *)
(***************************************************************************)
Refuse(status) == reply' = status /\ UNCHANGED db

\* MaxPositions bounds the position ids handed out.
Leave(d, status) ==
  /\ d.nextPosition <= MaxPositions + 1
  /\ db' = d
  /\ reply' = status

\* A variant of Attempt: what fails after the validation is not noticed.
AttemptValidatedOnly(replays, reached, d, status) ==
  IF IsFailure(replays[1])
  THEN Leave(RolledBack(db, reached[1].nextTrade, reached[1].nextPosition),
             StatusOf(replays[1]))
  ELSE Leave(d, status)

\* A request runs its replays in order, reached[i] being the database it has
\* written when the i-th is run; the first that raises is its answer and rolls
\* everything back, otherwise what was computed is committed.
Attempt(replays, reached, d, status) ==
  LET raised == {i \in DOMAIN replays : IsFailure(replays[i])}
      first  == Min(raised)
  IN  IF raised # {}
      THEN Leave(RolledBack(db, reached[first].nextTrade, reached[first].nextPosition),
                 StatusOf(replays[first]))
      ELSE Leave(d, status)

Init == db = EmptyDatabase /\ reply = 0

RegisterTrade(user, portfolio, data) ==
  LET row      == RowOf(db.nextTrade, portfolio, data)
      inserted == Inserted(db, row)
      found    == Owner[portfolio] = user /\ data.asset_id \in Assets
  IN  /\ db.nextTrade <= MaxTrades
      /\ \/ ~found /\ Refuse(404)
         \/ /\ found
            /\ Attempt(<<Validate(db.trades, row, 0),
                         BookOf(inserted, portfolio, data.asset_id)>>,
                       <<db, inserted>>,
                       Recalculated(inserted, portfolio, data.asset_id), 201)

\* Portfolio of another user, or no such trade in this portfolio.
Missing(user, portfolio, id) ==
  \/ Owner[portfolio] # user
  \/ ~\E t \in db.trades : t.id = id /\ t.portfolio_id = portfolio

\* An update of the trade, with some field given.
EditTrade(trade, data) ==
  LET portfolio == trade.portfolio_id
      row       == RowOf(trade.id, portfolio, data)
      replaced  == Replaced(db, trade, row)
      entered   == Recalculated(replaced, portfolio, data.asset_id)
      validated == Validate(db.trades, row, trade.id)
      joined    == BookOf(replaced, portfolio, data.asset_id)
      left      == BookOf(replaced, portfolio, trade.asset_id)
  IN  \/ data.asset_id \notin Assets /\ Refuse(404)
      \/ /\ data.asset_id \in Assets /\ data.asset_id = trade.asset_id
         /\ Attempt(<<validated, joined>>, <<db, replaced>>, entered, 200)
      \/ /\ data.asset_id \in Assets /\ data.asset_id # trade.asset_id
         /\ Attempt(<<validated, joined, left>>, <<db, replaced, entered>>,
                    Recalculated(entered, portfolio, trade.asset_id), 200)

UpdateTrade(user, portfolio, id) ==
  \/ Missing(user, portfolio, id) /\ Refuse(404)
  \/ ~Missing(user, portfolio, id) /\ Refuse(422)    \* no field given
  \/ /\ ~Missing(user, portfolio, id)
     /\ \E trade \in db.trades :
          /\ trade.id = id
          /\ \E data \in EditsOf(trade, TradeData) : EditTrade(trade, data)

DeleteTrade(user, portfolio, id) ==
  \/ Missing(user, portfolio, id) /\ Refuse(404)
  \/ /\ ~Missing(user, portfolio, id)
     /\ \E trade \in db.trades :
          LET removed == Removed(db, trade)
          IN  /\ trade.id = id
              /\ Attempt(<<BookOf(removed, portfolio, trade.asset_id)>>, <<removed>>,
                         Recalculated(removed, portfolio, trade.asset_id), 200)

\* POST /positions/recalculate
RecalculateForUser(user, portfolio, asset) ==
  \/ Owner[portfolio] # user /\ Refuse(404)
  \/ /\ Owner[portfolio] = user
     /\ Attempt(<<BookOf(db, portfolio, asset)>>, <<db>>,
                Recalculated(db, portfolio, asset), 200)

\* The process dies before it answers.  The ids it drew are lost, a move having
\* drawn up to two for positions.
Abandon ==
  \E trades \in 0..1, positions \in 0..2 :
    LET d == RolledBack(db, db.nextTrade + trades, db.nextPosition + positions)
    IN  /\ d.nextTrade <= MaxTrades + 1
        /\ Leave(d, reply)

Requests ==
  \E user \in Users, portfolio \in Portfolios :
    \/ \E data \in TradeData : RegisterTrade(user, portfolio, data)
    \/ \E id \in 1..MaxTrades : UpdateTrade(user, portfolio, id)
    \/ \E id \in 1..MaxTrades : DeleteTrade(user, portfolio, id)
    \/ \E asset \in AssetIds : RecalculateForUser(user, portfolio, asset)

Next == Requests \/ Abandon

Spec == Init /\ [][Next]_vars
-----------------------------------------------------------------------------
Row ==
  [id : 1..MaxTrades, portfolio_id : Portfolios, asset_id : Assets,
   trade_type : TradeTypes, quantity : Nat, price : Prices, executed_at : Times]

\* The committed database holds rows of its schema, one per trade id handed out,
\* and no link or position beyond the ids handed out.
TypeOK ==
  /\ DOMAIN db = {"trades", "links", "positions", "nextTrade", "nextPosition"}
  /\ db.trades \subseteq Row
  /\ \A t, u \in db.trades : t.id = u.id => t = u
  /\ \A t \in db.trades : t.id < db.nextTrade
  /\ db.links \in [1..MaxTrades -> 0..MaxPositions]
  /\ DOMAIN db.positions = Pairs
  /\ \A pa \in Pairs : db.positions[pa].id \in 0..db.nextPosition - 1
  /\ db.nextTrade \in 1..MaxTrades + 1
  /\ db.nextPosition \in 1..MaxPositions + 1
  /\ reply \in {0, 200, 201, 404, 422, 500}

\* What every request has to restore before it commits, whatever it edits, moves
\* or deletes, and on both assets of a move: the committed ledger of each
\* portfolio and asset replays without raising, and the position row is the
\* position that replay computes.
PositionsFollowLedger ==
  \A p \in Portfolios, a \in AssetIds :
    LET book == BookOf(db, p, a)
    IN  /\ ~IsFailure(book)
        /\ db.positions[<<p, a>>].book = (IF IsPosition(book) THEN Saved(book) ELSE NoBook)

\* Every trade points at the position of its own pair, also after it was moved to
\* another asset, and a deleted trade's id points nowhere; two pairs never share
\* a position id.
LinksFollowPositions ==
  /\ \A t \in db.trades :
       db.links[t.id] = db.positions[<<t.portfolio_id, t.asset_id>>].id
  /\ \A i \in 1..MaxTrades : (~\E t \in db.trades : t.id = i) => db.links[i] = 0
  /\ \A pa, qb \in Pairs :
       db.positions[pa].id = db.positions[qb].id => pa = qb \/ db.positions[pa].id = 0

\* Saving a trade unchanged (or editing its notes or fees) is accepted, unless
\* another trade of the pair has the same executed_at: only then does the made-up
\* id move the trade within the order.
NoOpEditRefusedOnlyOnTies ==
  \A t \in db.trades :
    \/ ~IsFailure(Validate(db.trades, t, t.id))
    \/ \E u \in LedgerOf(db.trades, t.portfolio_id, t.asset_id) \ {t} :
         u.executed_at = t.executed_at

\* A position row is overwritten in place while its pair has trades, so its id,
\* which clients hold on to, changes only through the pair losing its last trade.
IdsKept ==
  \A pa \in Pairs : \/ db.positions[pa].id = db'.positions[pa].id
                    \/ db.positions[pa].id = 0
                    \/ db'.positions[pa].id = 0

PositionIdsAreStable == [][IdsKept]_db
=============================================================================
