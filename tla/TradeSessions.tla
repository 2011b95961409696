---------------------------- MODULE TradeSessions ----------------------------
(***************************************************************************)
(* The requests of modules/trade as the database sees them: each runs in a *)
(* session of its own (a thread of the pool), as a sequence of statements  *)
(* of one READ COMMITTED transaction.  A statement reads what is committed *)
(* when it runs, overlaid with the session's own writes; a row written and *)
(* not yet committed is locked; sequences are outside the transaction.     *)
(* A session writes only the columns whose values differ from those it     *)
(* loaded.  Requests refused before their first statement that matters     *)
(* (not the owner, no such asset) are in TradeJournal.                     *)
(***************************************************************************)
EXTENDS TradeTables

CONSTANTS
  Sessions,    \* threads that serve requests
  MaxActive,   \* requests served at once: 1 serialises them
  Inputs,      \* what requests say about a trade
  Initially,   \* rows of the ledgers at the start, each registered by itself
  MaxRequests, \* bound on the requests served
  MayCrash     \* whether the process may die within a request

ASSUME SessionsAssumption ==
  /\ MaxActive \in Nat \ {0}
  /\ Inputs \subseteq TradeData
  /\ MayCrash \in BOOLEAN
  /\ Initially \in Seq(Portfolios \X Inputs)
  /\ MaxRequests \in Nat
  /\ Len(Initially) + MaxRequests <= MaxTrades
  /\ Len(Initially) + 2 * MaxRequests <= MaxPositions
  /\ \A data \in Inputs : data.asset_id \in Assets

VARIABLES
  committed,   \* trades (rows with their position_id) and positions
  next,        \* the two sequences
  session,     \* what each session holds
  reply,       \* status of the last request decided
  begun,       \* history: number of requests begun
  dirty        \* history: pairs last written by requests that overlapped

vars == <<committed, next, session, reply, begun, dirty>>

Idle == [at |-> "idle"]

Active == {s \in Sessions : session[s].at # "idle"}

WithPosition(row, position) ==
  [f \in DOMAIN row \cup {"position_id"} |-> IF f = "position_id" THEN position ELSE row[f]]

\* Each pair has its position from the first of its trades.
InitialRows ==
  LET row(i)   == Stored(RowOf(i, Initially[i][1], Initially[i][2]))
      first(i) == Min({j \in DOMAIN Initially : PairOf(row(j)) = PairOf(row(i))})
  IN  {WithPosition(row(i), first(i)) : i \in DOMAIN Initially}

InitialPosition(pa) ==
  LET ledger == LedgerOf(InitialRows, pa[1], pa[2])
  IN  IF ledger = {} THEN NoRow
      ELSE [id |-> (CHOOSE t \in ledger : TRUE).position_id, book |-> Saved(Replay(ledger))]

\* Each trade was accepted when it was registered.
ASSUME InitialAssumption ==
  \A pa \in Pairs : ~IsFailure(Replay(LedgerOf(InitialRows, pa[1], pa[2])))

Init ==
  /\ committed = [trades |-> InitialRows,
                  positions |-> [pa \in Pairs |-> InitialPosition(pa)]]
  /\ next = [trade |-> Len(Initially) + 1, position |-> Len(Initially) + 1]
  /\ session = [s \in Sessions |-> Idle]
  /\ reply = 0
  /\ begun = 0
  /\ dirty = {}

(***************************************************************************)
(* What a session sees, and what it has to wait for                        *)
(***************************************************************************)
TradesOf(s) ==
  {t \in committed.trades : t.id \notin session[s].written} \cup session[s].rows

PositionOf(s, pa) ==
  IF pa \in DOMAIN session[s].positions
  THEN session[s].positions[pa] ELSE committed.positions[pa]

Holds(r, id) == r \in Active /\ id \in session[r].written
HoldsPosition(r, pa) == r \in Active /\ pa \in DOMAIN session[r].positions

\* A row that refers to a position shares a lock on it until it is committed.
HoldsReference(r, position) ==
  r \in Active /\ \E t \in session[r].rows : t.position_id = position

Pair(s) == Head(session[s].todo)

\* The positions s has written, once it has written this row of its pair.
WithRow(s, row) ==
  [pa \in DOMAIN session[s].positions \cup {Pair(s)} |->
     IF pa = Pair(s) THEN row ELSE session[s].positions[pa]]

\* A variant of Relinked: every trade of the pair is written.
RelinkedAll(s) == session[s].seen

\* position_id is to become target in the trades of the pair that were loaded
\* with another value.
Relinked(s) == {t \in session[s].seen : t.position_id # session[s].target}

\* The flush writes the trades one by one, in the order of their ids.
NextLinked(s) == {t \in Relinked(s) : \A u \in Relinked(s) : t.id <= u.id}
NextUnlinked(s) == {i \in session[s].linked : \A j \in session[s].linked : i <= j}

\* What differs from the row as it was loaded; a value its column rounds always does.
PositionChanges(s) ==
  LET me == session[s]
  IN  {f \in DOMAIN me.calculated :
         me.calculated[f] # me.found.book[f] \/ Rounds(f, me.calculated[f])}

\* The sessions whose locks the next statement of s needs.
Blockers(s) ==
  LET me    == session[s]
      trade == {r \in Sessions \ {s} : Holds(r, me.loaded.id)}
      row   == {r \in Sessions \ {s} : HoldsPosition(r, Pair(s))}
  IN  CASE me.at = "update" /\ me.wanted # me.loaded -> trade
        [] me.at = "delete" -> trade
        [] me.at = "insert-position" -> row
        [] me.at = "update-position" /\ PositionChanges(s) # {} -> row
        [] me.at = "clear" ->
             {r \in Sessions \ {s} : \E i \in NextUnlinked(s) : Holds(r, i)}
        [] me.at = "delete-position" ->
             row \cup {r \in Sessions \ {s} : HoldsReference(r, me.found.id)}
        [] me.at = "link" ->
             {r \in Sessions \ {s} :
                \E t \in NextLinked(s) :
                  \/ Holds(r, t.id)
                  \/ /\ me.target # 0 /\ HoldsPosition(r, Pair(s))
                     /\ session[r].positions[Pair(s)] = NoRow}
        [] OTHER -> {}

At(s, place) == session[s].at = place /\ Blockers(s) = {}

\* The session is closed without a commit.
End(s) == session' = [session EXCEPT ![s] = Idle]

\* A variant of Fail: the trade written before the failure is kept.
FailKeepingTrade(s, status) ==
  /\ End(s)
  /\ reply' = status
  /\ committed' = [committed EXCEPT !.trades = TradesOf(s)]
  /\ UNCHANGED <<begun, dirty>>

Fail(s, status) ==
  /\ End(s)
  /\ reply' = status
  /\ UNCHANGED <<committed, begun, dirty>>

Go(s, me) ==
  /\ session' = [session EXCEPT ![s] = me]
  /\ UNCHANGED <<committed, reply, begun, dirty>>

(***************************************************************************)
(* The first reads of a request                                            *)
(***************************************************************************)
\* s goes on with me, on these pairs: it shares its zone with the requests it overlaps
\* with there, directly or through others, and none of them has it to itself.
Join(s, me, pairs) ==
  LET met   == {r \in Active \ {s} : session[r].zone \cap pairs # {}}
      joint == pairs \cup UNION {session[r].zone : r \in met}
  IN  session' = [r \in Sessions |->
                    CASE r = s -> [me EXCEPT !.zone = joint, !.quiet = @ /\ met = {}]
                      [] r \in met -> [session[r] EXCEPT !.zone = joint, !.quiet = FALSE]
                      [] OTHER -> session[r]]

Begin(s, at, kind, loaded, wanted, pairs) ==
  /\ session[s].at = "idle"
  /\ Cardinality(Active) < MaxActive
  /\ begun < MaxRequests
  /\ begun' = begun + 1
  /\ Join(s, [at |-> at, kind |-> kind, loaded |-> loaded, wanted |-> wanted,
              todo |-> <<>>, seen |-> {}, found |-> NoRow, calculated |-> NoBook,
              target |-> 0, linked |-> {},
              rows |-> {}, written |-> {}, positions |-> <<>>,
              zone |-> pairs, quiet |-> TRUE, first |-> next], pairs)
  /\ UNCHANGED <<committed, next, reply, dirty>>

BeginRegister(s, portfolio, data) ==
  LET row == WithPosition(RowOf(0, portfolio, data), 0)
  IN  Begin(s, "validate", "register", NoRow, row, {PairOf(row)})

BeginUpdate(s, trade, data) ==
  LET row == WithPosition(RowOf(trade.id, trade.portfolio_id, data), trade.position_id)
  IN  Begin(s, "validate", "update", trade, row, {PairOf(trade), PairOf(row)})

BeginDelete(s, trade) == Begin(s, "delete", "delete", trade, trade, {PairOf(trade)})

BeginRecalculate(s, portfolio, asset) ==
  LET pa  == <<portfolio, asset>>
      row == [id |-> 0, portfolio_id |-> portfolio, asset_id |-> asset]
  IN  Begin(s, "start", "recalculate", row, row, {pa})

(***************************************************************************)
(* The trade's own row                                                     *)
(***************************************************************************)
ValidateTrade(s) ==
  LET me   == session[s]
      book == Validate(TradesOf(s), me.wanted, me.loaded.id)
  IN  /\ At(s, "validate")
      /\ \/ IsFailure(book) /\ Fail(s, StatusOf(book)) /\ UNCHANGED next
         \/ /\ ~IsFailure(book)
            /\ Go(s, [me EXCEPT !.at = IF me.kind = "register" THEN "insert" ELSE "update"])
            /\ UNCHANGED next

InsertTrade(s) ==
  LET me  == session[s]
      row == Stored([me.wanted EXCEPT !.id = next.trade])
  IN  /\ At(s, "insert")
      /\ Go(s, [me EXCEPT !.at = "list", !.wanted = row, !.rows = {row},
                         !.written = {row.id}, !.todo = <<PairOf(row)>>])
      /\ next' = [next EXCEPT !.trade = @ + 1]

\* The columns set to a new value, over the row as it is now.
Merged(current, loaded, wanted) ==
  [f \in DOMAIN current |-> IF wanted[f] # loaded[f] THEN wanted[f] ELSE current[f]]

\* trade_repository.update: UPDATE if any column changed, then refresh, which
\* reads the row again; both fail when it is gone.  The request keeps the row it has read:
\* where nothing is written, nothing holds it in the table.
UpdateTrade(s) ==
  LET me == session[s]
  IN  /\ At(s, "update")
      /\ UNCHANGED next
      /\ \/ ~(\E t \in TradesOf(s) : t.id = me.loaded.id) /\ Fail(s, 500)
         \/ \E t \in TradesOf(s) :
              LET row == Stored(Merged(t, me.loaded, me.wanted))
              IN  /\ t.id = me.loaded.id
                  /\ Go(s, [me EXCEPT
                        !.at = "list",
                        !.rows = IF me.wanted = me.loaded THEN {} ELSE {row},
                        !.written = IF me.wanted = me.loaded THEN {} ELSE {t.id},
                        !.seen = IF me.wanted = me.loaded THEN {t} ELSE {},
                        !.todo = <<PairOf(row)>> \o
                                 (IF row.asset_id = me.loaded.asset_id THEN <<>>
                                  ELSE <<PairOf(me.loaded)>>)])

\* A DELETE that finds no row only warns.
DeleteTrade(s) ==
  LET me == session[s]
  IN  /\ At(s, "delete")
      /\ Go(s, [me EXCEPT !.at = "list", !.written = {me.loaded.id},
                         !.todo = <<PairOf(me.loaded)>>])
      /\ UNCHANGED next

StartRecalculation(s) ==
  /\ At(s, "start")
  /\ Go(s, [session[s] EXCEPT !.at = "list", !.todo = <<PairOf(session[s].loaded)>>])
  /\ UNCHANGED next

(***************************************************************************)
(* recalculate_position, for the first pair of todo                        *)
(***************************************************************************)
\* The trades of the pair are listed: those the session still holds from before keep the
\* values loaded then.
Listed(s) ==
  LET listed == LedgerOf(TradesOf(s), Pair(s)[1], Pair(s)[2])
      held   == {t \in session[s].seen : \E u \in listed : u.id = t.id}
  IN  held \cup {u \in listed : ~\E t \in held : t.id = u.id}

ListTrades(s) ==
  /\ At(s, "list")
  /\ Go(s, [session[s] EXCEPT !.at = "find", !.seen = Listed(s)])
  /\ UNCHANGED next

\* Variants of Done: the pair a trade was moved from is forgotten, the pair that is
\* done is not taken off.
DoneAfterFirst(me) ==
  [me EXCEPT !.at = "commit", !.todo = Tail(@), !.seen = {}, !.found = NoRow,
             !.calculated = NoBook]

DoneAgain(me) ==
  [me EXCEPT !.at = IF Len(me.todo) = 1 THEN "commit" ELSE "list",
             !.seen = {}, !.found = NoRow, !.calculated = NoBook]

\* What follows the pair that is done: the next pair, or the commit.  A recalculation
\* answers with the position it has made, target.
Done(me) ==
  [me EXCEPT !.at = IF Len(me.todo) = 1 THEN "commit" ELSE "list",
             !.todo = Tail(@), !.seen = {}, !.found = NoRow,
             !.calculated = NoBook]

FindPosition(s) ==
  LET me    == session[s]
      found == PositionOf(s, Pair(s))
      book  == Replay(me.seen)
      onto(place) == Go(s, [me EXCEPT !.at = place, !.found = found,
                                      !.calculated = IF IsPosition(book) THEN Saved(book)
                                                     ELSE NoBook])
  IN  /\ At(s, "find")
      /\ UNCHANGED next
      /\ \/ IsFailure(book) /\ Fail(s, StatusOf(book))
         \/ book = NoBook /\ found.id = 0 /\ Go(s, Done(me))
         \/ book = NoBook /\ found.id # 0 /\ onto("unlink")
         \/ IsPosition(book) /\ found.id = 0 /\ onto("insert-position")
         \/ IsPosition(book) /\ found.id # 0 /\ onto("update-position")

\* The unique constraint admits one row per portfolio and asset.
InsertPosition(s) ==
  LET me == session[s]
  IN  /\ At(s, "insert-position")
      /\ next' = [next EXCEPT !.position = @ + 1]
      /\ \/ PositionOf(s, Pair(s)).id # 0 /\ Fail(s, 500)
         \/ /\ PositionOf(s, Pair(s)).id = 0
            /\ Go(s, [me EXCEPT !.at = "sync", !.target = next.position,
                  !.positions = WithRow(s, [id |-> next.position, book |-> me.calculated])])

UpdatePosition(s) ==
  LET me      == session[s]
      current == PositionOf(s, Pair(s))
      book    == [f \in DOMAIN me.calculated |->
                    IF f \in PositionChanges(s) THEN me.calculated[f]
                    ELSE current.book[f]]
  IN  /\ At(s, "update-position")
      /\ UNCHANGED next
      /\ \/ current.id # me.found.id /\ Fail(s, 500)
         \/ /\ current.id = me.found.id
            /\ Go(s, [me EXCEPT !.at = "sync", !.target = current.id,
                  !.positions = IF PositionChanges(s) = {} THEN @
                                ELSE WithRow(s, [id |-> current.id, book |-> book])])

\* Rows written by this session, the given ones among them.
Write(me, rows) ==
  LET ids == {t.id : t \in rows}
  IN  [me EXCEPT !.rows = {t \in @ : t.id \notin ids} \cup rows, !.written = @ \cup ids]

\* Deleting a position first loads the trades that refer to it.  Where earlier requests
\* have left trades of other pairs linked to it, it overlaps with the requests on those too.
LoadLinked(s) ==
  LET me     == session[s]
      linked == {t \in TradesOf(s) : t.position_id = me.found.id}
      others == {PairOf(t) : t \in linked} \ me.zone
  IN  /\ At(s, "unlink")
      /\ Join(s, [me EXCEPT !.at = "clear", !.linked = {t.id : t \in linked},
                            !.quiet = @ /\ others = {}], me.zone \cup others)
      /\ UNCHANGED <<committed, next, reply, begun, dirty>>

\* Their position_id is cleared in one UPDATE each; a row that is gone fails the flush.
UnlinkTrade(s) ==
  LET me == session[s]
  IN  /\ At(s, "clear")
      /\ UNCHANGED next
      /\ \E i \in NextUnlinked(s) :
           \/ ~(\E t \in TradesOf(s) : t.id = i) /\ Fail(s, 500)
           \/ \E t \in TradesOf(s) :
                /\ t.id = i
                /\ Go(s, Write([me EXCEPT !.linked = @ \ {i}], {[t EXCEPT !.position_id = 0]}))

EndUnlinking(s) ==
  /\ At(s, "clear")
  /\ session[s].linked = {}
  /\ Go(s, [session[s] EXCEPT !.at = "delete-position"])
  /\ UNCHANGED next

\* The foreign key refuses it when another trade refers to the position by now.
DeletePosition(s) ==
  LET me == session[s]
  IN  /\ At(s, "delete-position")
      /\ UNCHANGED next
      /\ \/ (\E t \in TradesOf(s) : t.position_id = me.found.id) /\ Fail(s, 500)
         \/ /\ ~\E t \in TradesOf(s) : t.position_id = me.found.id
            /\ Go(s, [me EXCEPT !.at = "sync", !.target = 0,
                  !.positions = IF PositionOf(s, Pair(s)).id = me.found.id
                                THEN WithRow(s, NoRow) ELSE @])

\* sync_position_ids lists the trades again.
SyncList(s) ==
  /\ At(s, "sync")
  /\ Go(s, [session[s] EXCEPT !.at = "link", !.seen = Listed(s)])
  /\ UNCHANGED next

\* A row that is gone, or a position that is gone, fails the flush.
LinkTrade(s) ==
  LET me      == session[s]
      current == PositionOf(s, Pair(s))
      linked(t) == [t EXCEPT !.position_id = me.target]
  IN  /\ At(s, "link")
      /\ UNCHANGED next
      /\ \E held \in NextLinked(s) :
           \/ /\ \/ me.target # 0 /\ current.id # me.target
                 \/ ~\E t \in TradesOf(s) : t.id = held.id
              /\ Fail(s, 500)
           \/ /\ me.target = 0 \/ current.id = me.target
              /\ \E t \in TradesOf(s) :
                   /\ t.id = held.id
                   /\ Go(s, Write([me EXCEPT !.seen = (@ \ {held}) \cup {linked(held)}],
                                  {linked(t)}))

EndLinking(s) ==
  /\ At(s, "link")
  /\ Relinked(s) = {}
  /\ Go(s, Done(session[s]))
  /\ UNCHANGED next

(***************************************************************************)
(* The end of a request                                                    *)
(***************************************************************************)
\* An answer with a trade or a position reads its row again, in a new transaction.
Commit(s) ==
  LET me      == session[s]
      answers == \/ me.kind \in {"register", "update"}
                 \/ me.kind = "recalculate" /\ me.target # 0
  IN  /\ At(s, "commit")
      /\ committed' = [trades |-> TradesOf(s),
                       positions |-> [pa \in Pairs |-> PositionOf(s, pa)]]
      /\ dirty' = IF me.quiet THEN dirty \ me.zone ELSE dirty \cup me.zone
      /\ reply' = IF me.kind = "register" THEN 201 ELSE 200
      /\ \/ answers
            /\ session' = [session EXCEPT ![s] =
                  [me EXCEPT !.at = "reread", !.rows = {}, !.written = {},
                             !.positions = <<>>, !.zone = {}, !.first = next]]
         \/ ~answers /\ End(s)
      /\ UNCHANGED <<next, begun>>

Reread(s) ==
  LET me     == session[s]
      exists == IF me.kind = "recalculate"
                THEN committed.positions[PairOf(me.wanted)].id = me.target
                ELSE \E t \in committed.trades : t.id = me.wanted.id
  IN
  /\ At(s, "reread")
  /\ reply' = IF exists THEN reply ELSE 500
  /\ End(s)
  /\ UNCHANGED <<committed, next, begun, dirty>>

\* The process or its connection dies; the database rolls back.
Crash(s) ==
  /\ MayCrash
  /\ session[s].at # "idle"
  /\ End(s)
  /\ UNCHANGED <<committed, next, reply, begun, dirty>>

\* s waits for itself, through others: they are in every set that holds those it waits
\* for and those they wait for.  The database ends the transaction of one in the circle.
InDeadlock(s) ==
  \A waited \in SUBSET Active :
    Blockers(s) \cup UNION {Blockers(r) : r \in waited} \subseteq waited => s \in waited

BreakDeadlock(s) ==
  /\ InDeadlock(s)
  /\ Fail(s, 500)
  /\ UNCHANGED next

Statement(s) ==
  \/ ValidateTrade(s)
  \/ InsertTrade(s)
  \/ UpdateTrade(s)
  \/ DeleteTrade(s)
  \/ StartRecalculation(s)
  \/ ListTrades(s)
  \/ FindPosition(s)
  \/ InsertPosition(s)
  \/ UpdatePosition(s)
  \/ LoadLinked(s)
  \/ UnlinkTrade(s)
  \/ EndUnlinking(s)
  \/ DeletePosition(s)
  \/ SyncList(s)
  \/ LinkTrade(s)
  \/ EndLinking(s)
  \/ Commit(s)
  \/ Reread(s)

Request(s) ==
  \/ \E portfolio \in Portfolios, data \in Inputs : BeginRegister(s, portfolio, data)
  \/ \E trade \in committed.trades :
       \E data \in EditsOf(trade, Inputs) : BeginUpdate(s, trade, data)
  \/ \E trade \in committed.trades : BeginDelete(s, trade)
  \/ \E pa \in Pairs : BeginRecalculate(s, pa[1], pa[2])

Next == \E s \in Sessions : Request(s) \/ Statement(s) \/ Crash(s) \/ BreakDeadlock(s)

Spec == Init /\ [][Next]_vars

\* A session whose next statement need not wait runs it, and the database looks
\* for deadlocks.  As requests are bounded, no session waits behind others forever.
FairSpec ==
  Spec /\ \A s \in Sessions : WF_vars(Statement(s)) /\ WF_vars(BreakDeadlock(s))
-----------------------------------------------------------------------------
Plain(trade) == [f \in DOMAIN trade \ {"position_id"} |-> trade[f]]

\* The ledger, the position row and the links of a pair agree.
Settled(pa) ==
  LET ledger == LedgerOf(committed.trades, pa[1], pa[2])
      book   == Replay(ledger)
      row    == committed.positions[pa]
  IN  /\ ~IsFailure(book)
      /\ row.book = (IF IsPosition(book) THEN Saved(book) ELSE NoBook)
      /\ (row.id = 0) = (ledger = {})
      /\ \A t \in ledger : t.position_id = row.id

\* Requests damage a pair only by overlapping: whatever interleaving, crash or
\* failing statement there was, the ledger, the position and the links of a pair
\* agree unless the last request to write it overlapped another one on the pair.
\* So requests on other pairs never matter, and a recalculation (or any accepted
\* request) that has the pair to itself repairs what an earlier race left.
OnlyOverlapDamages == \A pa \in Pairs \ dirty : Settled(pa)

\* Requests take their locks in one order, the trade first, then the position of
\* its pair, so they wait for each other in a circle only where one of those on the
\* pair moves a trade and so locks two positions, in the order of its move, or where
\* they have to do with a pair that overlapping requests have left with trades still to
\* link: a recalculation then locks the position first and the trades of others after it.
Moves(s) == session[s].kind = "update" /\ PairOf(session[s].loaded) # PairOf(session[s].wanted)

OnlyMovesOrDamageDeadlock ==
  \A s \in Active :
    LET pa == PairOf(session[s].wanted)
    IN  InDeadlock(s) => \/ \E r \in Active : Moves(r) /\ pa \in session[r].zone
                         \/ session[s].zone \cap dirty # {}

\* Every request ends, however its statements wait for each other's locks.
EveryRequestEnds == \A s \in Sessions : s \in Active ~> s \notin Active

\* Served one at a time, the requests are the atomic ones of TradeJournal: what a
\* session has written stays unseen until its commit, and a failure at any
\* statement, or a crash, leaves only gaps in the sequences.
SequencesSeen == IF Active = {} THEN next ELSE session[CHOOSE s \in Active : TRUE].first

Snapshot ==
  [trades |-> {Plain(t) : t \in committed.trades},
   links |-> [i \in 1..MaxTrades |->
                IF \E t \in committed.trades : t.id = i
                THEN (CHOOSE t \in committed.trades : t.id = i).position_id ELSE 0],
   positions |-> committed.positions,
   nextTrade |-> SequencesSeen.trade,
   nextPosition |-> SequencesSeen.position]

Journal == INSTANCE TradeJournal WITH db <- Snapshot

ImplementsJournal == Journal!Spec

\* The schema and the engine allow no ledger that sells more than it holds.
LedgersReplay ==
  \A pa \in Pairs : ~IsFailure(Replay(LedgerOf(committed.trades, pa[1], pa[2])))
=============================================================================
