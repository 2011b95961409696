------------------------- MODULE TradeSessionProofs -------------------------
(***************************************************************************)
(* That only requests which overlap on a pair damage it, and that only     *)
(* moves of trades and damaged pairs deadlock, for any number of sessions, *)
(* pairs and requests (TradeSessions).                                     *)
(***************************************************************************)
EXTENDS TradeSessions, ReplayProofs, FiniteSetTheorems, SequenceTheorems, TLAPS

(***************************************************************************)
(* What the invariant is made of: the tables T and S, the sequences nx,    *)
(* the pair own[i] that the position with id i is of, and what a session   *)
(* holds, me.                                                              *)
(***************************************************************************)
RowFields == {"id", "portfolio_id", "asset_id", "trade_type", "quantity", "price",
              "executed_at", "position_id"}

BookFields == {"outcome", "position_type", "quantity", "average_price", "total_cost",
               "status", "opened_at", "closed_at"}

MeFields == {"at", "kind", "loaded", "wanted", "todo", "seen", "found", "calculated",
             "target", "linked", "rows", "written", "positions", "zone", "quiet", "first"}

\* A row of the trades table, whatever its id.
Fields(t) ==
  /\ t = [f \in RowFields |-> t[f]]
  /\ t.trade_type \in TradeTypes /\ t.executed_at \in Nat /\ PairOf(t) \in Pairs

IsRow(t, nx) ==
  /\ Fields(t)
  /\ t.id \in 1..nx.trade - 1 /\ t.position_id \in 0..nx.position - 1

AreRows(R, nx) ==
  /\ \A t \in R : IsRow(t, nx)
  /\ \A t, u \in R : t.id = u.id => t = u

IsPositionRow(p, pa, nx, own) ==
  \/ p = NoRow
  \/ /\ p.id \in 1..nx.position - 1 /\ own[p.id] = pa
     /\ p.book = [f \in BookFields |-> p.book[f]]

Tables(T, S, nx, own) ==
  /\ AreRows(T, nx)
  /\ \A pa \in Pairs : IsPositionRow(S[pa], pa, nx, own)
  /\ nx.trade \in Nat \ {0} /\ nx.position \in Nat \ {0}

\* TradesOf and PositionOf.
View(T, me) == {t \in T : t.id \notin me.written} \cup me.rows

PositionIn(S, me, pa) == IF pa \in DOMAIN me.positions THEN me.positions[pa] ELSE S[pa]

Early == {"validate", "insert", "update", "delete", "start"}
Works == {"find", "insert-position", "update-position", "unlink", "clear",
          "delete-position", "sync", "link"}
Late  == {"list", "commit"} \cup Works
Looks == {"list"} \cup Works

Wants(me) ==
  IF me.kind = "register" THEN {PairOf(me.wanted)} ELSE {PairOf(me.loaded), PairOf(me.wanted)}

InTodo(me) == {me.todo[i] : i \in DOMAIN me.todo}

\* One or two pairs of the zone, as long as there is something to recalculate.
Todo(me) ==
  \/ me.at = "commit" /\ me.todo = <<>>
  \/ me.at # "commit" /\ \E a \in me.zone : me.todo = <<a>>
  \/ me.at # "commit" /\ \E a, b \in me.zone : a # b /\ me.todo = <<a, b>>

\* The request itself, and how far it has come.
Asked(me, nx) ==
  /\ me.kind \in {"register", "update", "delete", "recalculate"}
  /\ me.at \in Early \cup Late
  /\ me.at \in Early => <<me.kind, me.at>> \in
       {<<"register", "validate">>, <<"register", "insert">>, <<"update", "validate">>,
        <<"update", "update">>, <<"delete", "delete">>, <<"recalculate", "start">>}
  /\ Wants(me) \subseteq me.zone /\ me.zone \subseteq Pairs
  /\ me.quiet => me.zone = Wants(me)
  /\ me.kind = "register" => me.loaded.id = 0 /\ Fields(me.wanted) /\ me.wanted.position_id = 0
  /\ me.kind = "update" => /\ IsRow(me.loaded, nx) /\ Fields(me.wanted)
                           /\ me.wanted.id = me.loaded.id
                           /\ me.wanted.position_id = me.loaded.position_id
                           /\ me.wanted.portfolio_id = me.loaded.portfolio_id
  /\ me.kind = "delete" => IsRow(me.loaded, nx) /\ me.wanted = me.loaded
  /\ me.kind = "recalculate" => me.loaded.id = 0 /\ me.wanted = me.loaded

\* What it has written.
Wrote(me, nx, own) ==
  /\ AreRows(me.rows, nx)
  /\ me.written \subseteq 1..nx.trade - 1
  /\ \A t \in me.rows : t.id \in me.written
  /\ DOMAIN me.positions \subseteq me.zone
  /\ \A pa \in DOMAIN me.positions : IsPositionRow(me.positions[pa], pa, nx, own)
  /\ me.at \in Early => me.rows = {} /\ me.written = {} /\ DOMAIN me.positions = {}

\* What is left to do, and that it has not been begun.
Planned(me) ==
  me.at \in Late =>
    /\ Todo(me)
    /\ \A pa \in DOMAIN me.positions \cap InTodo(me) :
         me.at \in {"sync", "link"} /\ pa = Head(me.todo)

\* What it has read of the pair it recalculates.
HasRead(me, nx, own) ==
  /\ AreRows(me.seen, nx)
  /\ me.at \notin Looks => me.seen = {}
  /\ me.at \in Looks => \A t \in me.seen : PairOf(t) = Head(me.todo)
  /\ me.at \in Works \ {"find"} => IsPositionRow(me.found, Head(me.todo), nx, own)
  /\ me.at \in {"sync", "link"} /\ me.target # 0 =>
       me.target \in 1..nx.position - 1 /\ own[me.target] = Head(me.todo)
  /\ me.at \in {"insert-position", "update-position"} =>
       /\ IsPosition(Replay(me.seen)) /\ me.calculated = Saved(Replay(me.seen))
       /\ me.found.id = 0 <=> me.at = "insert-position"
  /\ me.at \in {"unlink", "clear", "delete-position"} => me.seen = {} /\ me.found.id # 0
  /\ me.linked \subseteq 1..nx.trade - 1
  /\ me.at # "clear" => me.linked = {}

Shape(me, nx, own) ==
  /\ DOMAIN me = MeFields /\ me = [f \in MeFields |-> me[f]]
  /\ Asked(me, nx) /\ Wrote(me, nx, own) /\ Planned(me) /\ HasRead(me, nx, own)

\* What a session has written is in its zone.
Holding(T, me) ==
  /\ \A t \in me.rows : PairOf(t) \in me.zone
  /\ \A u \in T : u.id \in me.written => PairOf(u) \in me.zone
  /\ \A t \in me.rows, u \in T : t.id = u.id => t.portfolio_id = u.portfolio_id

\* The rows it has loaded are in its zone still.
Loading(T, me) ==
  /\ \A u \in T : u.id = me.loaded.id =>
       PairOf(u) \in me.zone /\ u.portfolio_id = me.loaded.portfolio_id
  /\ \A u \in T, t \in me.seen : u.id = t.id => PairOf(u) \in me.zone
  /\ \A u \in T : u.id \in me.linked => PairOf(u) \in me.zone

\* The row as it was seen and as it is.
Alike(t, u) ==
  /\ u.id = t.id /\ PairOf(u) = PairOf(t) /\ SameTrade(t, u)
  /\ u.position_id = t.position_id

SettledIn(V, row, pa) ==
  LET ledger == LedgerOf(V, pa[1], pa[2])
      book   == Replay(ledger)
  IN  /\ ~IsFailure(book)
      /\ row.book = (IF IsPosition(book) THEN Saved(book) ELSE NoBook)
      /\ (row.id = 0) = (ledger = {})
      /\ \A t \in ledger : t.position_id = row.id

\* The trades it has seen are there still; once they are listed, they are the trades of
\* the pair.
SeenStill(T, me) ==
  /\ me.at \in Looks => \A t \in me.seen : \E u \in View(T, me) : Alike(t, u)
  /\ me.at \in Works =>
       \A u \in View(T, me) : PairOf(u) = Head(me.todo) => \E t \in me.seen : Alike(t, u)

\* The trades it has still to unlink refer to the position.
LinkedStill(T, me) ==
  \A u \in View(T, me) : u.id \in me.linked => u.position_id = me.found.id

\* The position is the one it has found, then the one it has made of the trades.
FoundStill(S, me) ==
  me.at \in Works \ {"find"} => me.found = S[Head(me.todo)]

MadeOfSeen(S, me) ==
  me.at \in {"sync", "link"} =>
    LET row == PositionIn(S, me, Head(me.todo))
    IN  /\ row.id = me.target
        /\ me.target = 0 <=> me.seen = {}
        /\ me.target = 0 => row = NoRow
        /\ me.target # 0 => IsPosition(Replay(me.seen)) /\ row.book = Saved(Replay(me.seen))

\* The other pairs of its zone are in order.
RestSettled(T, S, me) ==
  me.at \in Late =>
    \A qb \in me.zone \ InTodo(me) : SettledIn(View(T, me), PositionIn(S, me, qb), qb)

\* A request that has its zone to itself reads what is committed, until its end.
Fresh(T, S, me) ==
  me.quiet =>
    /\ me.at \in Early => \A u \in T : u.id = me.loaded.id => PairOf(u) = PairOf(me.loaded)
    /\ SeenStill(T, me) /\ LinkedStill(T, me) /\ FoundStill(S, me) /\ MadeOfSeen(S, me)
    /\ RestSettled(T, S, me)

Task(T, S, nx, me, own) ==
  Shape(me, nx, own) /\ Holding(T, me) /\ Loading(T, me) /\ Fresh(T, S, me)

\* An id that me has handed out, nobody else has heard of.
Unheard(T, me, you) ==
  \A t \in me.rows : (\A u \in T : u.id # t.id) =>
    /\ t.id # you.loaded.id /\ t.id \notin you.linked
    /\ \A v \in you.seen : v.id # t.id

Apart(T, me, you) ==
  /\ \/ me.zone \cap you.zone = {}
     \/ me.zone = you.zone /\ ~me.quiet /\ ~you.quiet
  /\ me.written \cap you.written = {}
  /\ DOMAIN me.positions \cap DOMAIN you.positions = {}
  /\ Unheard(T, me, you)

\* A request that has committed and reads its row again holds nothing.
Rereads(me) ==
  /\ me.at = "reread"
  /\ me.rows = {} /\ me.written = {} /\ DOMAIN me.positions = {} /\ me.zone = {}

Live(ss) == {s \in Sessions : ss[s].at \notin {"idle", "reread"}}

\* The pairs of its zone that overlapping requests have left damaged.
Spoilt(me, d) == d \cap me.zone

Together(x, y, me, d) == x = y \/ {x, y} \subseteq Spoilt(me, d)

\* Elsewhere than at damaged pairs, a trade stays where the request has read it, and the
\* request works on nothing but what it was asked for.
InPlace(T, me, d) ==
  /\ me.at \in Early => \A u \in T : u.id = me.loaded.id =>
       Together(PairOf(u), PairOf(me.loaded), me, d)
  /\ \A u \in View(T, me), v \in me.seen : u.id = v.id => Together(PairOf(u), PairOf(v), me, d)
  /\ me.at \in Late => InTodo(me) \subseteq Wants(me) \cup Spoilt(me, d)
  /\ \A t \in me.rows : t.position_id # 0 => PairOf(t) \in Wants(me) \cup Spoilt(me, d)

\* A row it has written refers to the position of its pair, or as the row did before.
Refers(T, me, own, d) ==
  \A t \in me.rows : t.position_id # 0 =>
    \/ own[t.position_id] = PairOf(t) \/ own[t.position_id] \in Spoilt(me, d)
    \/ \E u \in T : u.id = t.id /\ u.position_id = t.position_id

\* The request as if it had the pairs it was asked for to itself.
Alone(me) == [me EXCEPT !.zone = Wants(me), !.quiet = TRUE]

Unlinks == {"delete-position", "sync", "link", "commit"}

\* Its zone is not damaged.
Calm(me, d) == me.zone \cap d = {}

\* On the pair a of an undamaged zone it may overlap with others: it notices nothing of
\* them, and until it unlinks the trades, it has written its own trade at most.
Lone(T, S, nx, me, own, a) ==
  /\ Task(T, S, nx, Alone(me), own)
  /\ me.at \notin Unlinks =>
       /\ me.written \subseteq {me.loaded.id} \cup {t.id : t \in me.rows}
       /\ \A t \in me.rows : PairOf(t) = a
  /\ me.kind \in {"update", "delete"} => \E u \in T : u.id = me.loaded.id /\ PairOf(u) = a
  /\ me.linked = {}
  /\ me.at \in {"clear", "delete-position"} =>
       \A t \in T : t.position_id = me.found.id => t.id \in me.written

\* The positions it has written are of those pairs too, and one it has found keeps its id.
Placed(me, d) ==
  /\ DOMAIN me.positions \subseteq Wants(me) \cup Spoilt(me, d)
  /\ me.at \in {"sync", "link"} => me.target = 0 \/ me.found.id \in {0, me.target}

Orderly(T, S, nx, me, own, d) ==
  /\ InPlace(T, me, d) /\ Refers(T, me, own, d) /\ Placed(me, d)
  /\ \A a \in Pairs : Calm(me, d) /\ Wants(me) = {a} => Lone(T, S, nx, me, own, a)

SessionsInv(own) ==
  /\ committed = [trades |-> committed.trades, positions |-> committed.positions]
  /\ next = [trade |-> next.trade, position |-> next.position]
  /\ DOMAIN committed.positions = Pairs
  /\ Tables(committed.trades, committed.positions, next, own)
  /\ session = [s \in Sessions |-> session[s]]
  /\ \A s \in Sessions \ Live(session) : session[s] = Idle \/ Rereads(session[s])
  /\ \A s \in Live(session) :
       Task(committed.trades, committed.positions, next, session[s], own)
  /\ \A s, r \in Live(session) : s # r => Apart(committed.trades, session[s], session[r])
  /\ \A s \in Live(session) :
       Orderly(committed.trades, committed.positions, next, session[s], own, dirty)
  /\ OnlyOverlapDamages

-----------------------------------------------------------------------------
(***************************************************************************)
(* Rows, ledgers and what is still to do.                                  *)
(***************************************************************************)
LEMMA ViewRows ==
  ASSUME NEW T, NEW nx, NEW own, NEW me, AreRows(T, nx), Shape(me, nx, own)
  PROVE  AreRows(View(T, me), nx)
BY DEF AreRows, Shape, Wrote, Planned, HasRead, View

LEMMA LedgerPairs ==
  ASSUME NEW R, NEW pa \in Pairs
  PROVE  LedgerOf(R, pa[1], pa[2]) = {t \in R : PairOf(t) = pa}
<1>1. pa = <<pa[1], pa[2]>>
  BY DEF Pairs
<1> QED
  BY <1>1 DEF LedgerOf, PairOf

\* It has trades to unlink only while it unlinks them.
LEMMA NoneLinked ==
  ASSUME NEW T, NEW S, NEW nx, NEW own, NEW me, Task(T, S, nx, me, own), me.at # "clear"
  PROVE  me.linked = {}
BY DEF Task, Shape, HasRead

LEMMA RowsReplay ==
  ASSUME NEW R, NEW nx, AreRows(R, nx), nx.trade \in Nat \ {0}
  PROVE  /\ IsLedger(R)
         /\ \A t \in R : t.trade_type \in TradeTypes
<1>1. nx.trade - 1 \in Nat
  OBVIOUS
<1> QED
  BY <1>1, NumberedRowsAreALedger DEF AreRows, IsRow, Fields

LEMMA SomeRows ==
  ASSUME NEW R, NEW nx, AreRows(R, nx), NEW Q, Q \subseteq R
  PROVE  AreRows(Q, nx)
BY DEF AreRows

LEMMA TodoIs ==
  ASSUME NEW me, Todo(me)
  PROVE  /\ me.at = "commit" => me.todo = <<>> /\ InTodo(me) = {}
         /\ me.at # "commit" =>
              /\ Head(me.todo) \in me.zone
              /\ InTodo(me) = {Head(me.todo)} \cup {Tail(me.todo)[i] : i \in DOMAIN Tail(me.todo)}
              /\ Head(me.todo) \notin {Tail(me.todo)[i] : i \in DOMAIN Tail(me.todo)}
              /\ \/ Len(me.todo) = 1 /\ Tail(me.todo) = <<>>
                 \/ Len(me.todo) # 1 /\ \E b \in me.zone : Tail(me.todo) = <<b>>
<1>1. CASE me.at = "commit"
  BY <1>1 DEF Todo, InTodo
<1>2. ASSUME NEW a \in me.zone, me.todo = <<a>>
      PROVE  /\ Head(me.todo) = a /\ Tail(me.todo) = <<>> /\ Len(me.todo) = 1
             /\ InTodo(me) = {a}
             /\ {Tail(me.todo)[i] : i \in DOMAIN Tail(me.todo)} = {}
  BY <1>2 DEF InTodo
<1>3. ASSUME NEW a \in me.zone, NEW b \in me.zone, a # b, me.todo = <<a, b>>
      PROVE  /\ Head(me.todo) = a /\ Tail(me.todo) = <<b>> /\ Len(me.todo) = 2
             /\ InTodo(me) = {a, b}
             /\ {Tail(me.todo)[i] : i \in DOMAIN Tail(me.todo)} = {b}
  BY <1>3 DEF InTodo
<1>4. CASE me.at # "commit" /\ \E a \in me.zone : me.todo = <<a>>
  BY <1>2, <1>4
<1>5. CASE me.at # "commit" /\ \E a, b \in me.zone : a # b /\ me.todo = <<a, b>>
  BY <1>3, <1>5
<1> QED
  BY <1>1, <1>4, <1>5 DEF Todo

-----------------------------------------------------------------------------
(***************************************************************************)
(* What others notice of the step of a session.                            *)
(***************************************************************************)
\* The sequences have moved on.
Grows(nx, nx2, own, own2) ==
  /\ nx.trade \in Nat \ {0} /\ nx.position \in Nat \ {0}
  /\ nx2.trade \in Nat \ {0} /\ nx2.position \in Nat \ {0}
  /\ nx.trade <= nx2.trade /\ nx.position <= nx2.position
  /\ \A i \in 1..nx.position - 1 : own2[i] = own[i]

LEMMA RowsGrow ==
  ASSUME NEW nx, NEW nx2, NEW own, NEW own2, Grows(nx, nx2, own, own2)
  PROVE  /\ \A t : IsRow(t, nx) => IsRow(t, nx2)
         /\ \A R : AreRows(R, nx) => AreRows(R, nx2)
         /\ \A p, pa : IsPositionRow(p, pa, nx, own) => IsPositionRow(p, pa, nx2, own2)
<1>1. \A t : IsRow(t, nx) => IsRow(t, nx2)
  BY DEF Grows, IsRow
<1>2. \A p, pa : IsPositionRow(p, pa, nx, own) => IsPositionRow(p, pa, nx2, own2)
  BY DEF Grows, IsPositionRow
<1> QED
  BY <1>1, <1>2 DEF AreRows

LEMMA TablesGrow ==
  ASSUME NEW T, NEW S, NEW nx, NEW nx2, NEW own, NEW own2, Grows(nx, nx2, own, own2),
         Tables(T, S, nx, own)
  PROVE  Tables(T, S, nx2, own2)
BY RowsGrow DEF Tables, Grows

LEMMA TaskGrows ==
  ASSUME NEW T, NEW S, NEW nx, NEW nx2, NEW own, NEW own2, Grows(nx, nx2, own, own2),
         Tables(T, S, nx, own), NEW me, Task(T, S, nx, me, own)
  PROVE  Task(T, S, nx2, me, own2)
<1> USE DEF Task
<1>1. Shape(me, nx2, own2)
  <2>1. Asked(me, nx2)
    BY RowsGrow DEF Asked, Shape, Wrote, Planned, HasRead
  <2>2. me.written \subseteq 1..nx2.trade - 1
    BY DEF Shape, Wrote, Planned, HasRead, Grows
  <2>3. me.at \in {"sync", "link"} /\ me.target # 0 =>
          me.target \in 1..nx2.position - 1 /\ own2[me.target] = Head(me.todo)
    BY DEF Shape, Wrote, Planned, HasRead, Grows
  <2>4. Wrote(me, nx2, own2)
    BY <2>2, RowsGrow DEF Shape, Wrote
  <2>5. HasRead(me, nx2, own2)
    <3>1. me.linked \subseteq 1..nx2.trade - 1
      BY DEF Shape, HasRead, Grows
    <3> QED
      BY <2>3, <3>1, RowsGrow DEF Shape, HasRead
  <2> QED
    BY <2>1, <2>4, <2>5 DEF Shape
<1>2. Holding(T, me) /\ Loading(T, me) /\ Fresh(T, S, me)
  OBVIOUS
<1> QED
  BY <1>1, <1>2

\* From me to me2: nothing but ids of the tables, of its own rows and the next one.
Goes(T, nx, me, me2) ==
  /\ me2.zone = me.zone /\ me2.quiet = me.quiet /\ me2.loaded = me.loaded
  /\ me2.linked \subseteq me.linked
  /\ \A t \in me2.rows : t.id = nx.trade \/ \E v \in T \cup me.rows : v.id = t.id
  /\ \A v \in me2.seen : \E w \in T \cup me.rows \cup me.seen : w.id = v.id

\* Ids below the next one.
LEMMA Heard ==
  ASSUME NEW nx, nx.trade \in Nat \ {0}, NEW own, NEW you, Shape(you, nx, own)
  PROVE  /\ you.loaded.id # nx.trade
         /\ nx.trade \notin you.written /\ nx.trade \notin you.linked
         /\ \A v \in you.seen \cup you.rows : v.id # nx.trade
<1>1. you.loaded.id # nx.trade
  BY DEF Shape, Wrote, Planned, HasRead, Asked, IsRow
<1>2. nx.trade \notin you.written /\ nx.trade \notin you.linked
  <2>1. nx.trade \notin 1..nx.trade - 1
    OBVIOUS
  <2> QED
    BY <2>1 DEF Shape, Wrote, HasRead
<1>3. \A v \in you.seen \cup you.rows : v.id # nx.trade
  BY DEF Shape, Wrote, Planned, HasRead, AreRows, IsRow
<1> QED
  BY <1>1, <1>2, <1>3

LEMMA StillApart ==
  ASSUME NEW T, NEW nx, nx.trade \in Nat \ {0}, NEW own, NEW me, NEW me2, NEW you,
         Apart(T, me, you), Apart(T, you, me), Goes(T, nx, me, me2),
         Shape(me, nx, own), Shape(you, nx, own),
         me2.written \cap you.written = {},
         DOMAIN me2.positions \cap DOMAIN you.positions = {}
  PROVE  Apart(T, me2, you) /\ Apart(T, you, me2)
<1>1. Unheard(T, me2, you)
  <2> SUFFICES ASSUME NEW t \in me2.rows, \A u \in T : u.id # t.id
               PROVE  /\ t.id # you.loaded.id /\ t.id \notin you.linked
                      /\ \A v \in you.seen : v.id # t.id
    BY DEF Unheard
  <2>1. CASE t.id = nx.trade
    BY <2>1, Heard
  <2>2. CASE \E v \in me.rows : v.id = t.id
    BY <2>2 DEF Apart, Unheard
  <2> QED
    BY <2>1, <2>2 DEF Goes
<1>2. Unheard(T, you, me2)
  <2> SUFFICES ASSUME NEW t \in you.rows, \A u \in T : u.id # t.id
               PROVE  /\ t.id # me2.loaded.id /\ t.id \notin me2.linked
                      /\ \A v \in me2.seen : v.id # t.id
    BY DEF Unheard
  <2>1. t.id # me.loaded.id /\ t.id \notin me.linked /\ \A v \in me.seen : v.id # t.id
    BY DEF Apart, Unheard
  <2>2. \A v \in me.rows : v.id # t.id
    BY DEF Apart, Shape, Wrote, Planned, HasRead
  <2> QED
    BY <2>1, <2>2 DEF Goes
<1> QED
  BY <1>1, <1>2 DEF Apart, Goes

LEMMA OneAndOne ==
  ASSUME NEW a, NEW b
  PROVE  <<a>> \o <<b>> = <<a, b>> /\ <<a>> \o <<>> = <<a>>
<1>1. <<a, b>> = Append(<<a>>, b)
  OBVIOUS
<1>2. <<a>> \in Seq({a, b})
  OBVIOUS
<1>3. <<a>> \o <<b>> = <<a, b>>
  BY <1>1, <1>2, AppendIsConcat
<1>4. <<a>> \o <<>> = <<a>>
  OBVIOUS
<1> QED
  BY <1>3, <1>4

LEMMA AloneIs ==
  ASSUME NEW me, DOMAIN me = MeFields, NEW you, you = Alone(me)
  PROVE  /\ DOMAIN you = MeFields /\ you.zone = Wants(me) /\ you.quiet = TRUE
         /\ you.at = me.at /\ you.kind = me.kind /\ you.loaded = me.loaded
         /\ you.wanted = me.wanted /\ you.todo = me.todo /\ you.seen = me.seen
         /\ you.found = me.found /\ you.calculated = me.calculated /\ you.target = me.target
         /\ you.rows = me.rows /\ you.written = me.written /\ you.positions = me.positions
         /\ you.first = me.first /\ you.linked = me.linked
BY DEF Alone, MeFields

LEMMA AloneSees ==
  ASSUME NEW T, NEW S, NEW me, DOMAIN me = MeFields, NEW you, you = Alone(me)
  PROVE  /\ View(T, you) = View(T, me)
         /\ PositionIn(S, you, Head(you.todo)) = PositionIn(S, me, Head(me.todo))
<1>1. you.rows = me.rows /\ you.written = me.written
      /\ you.positions = me.positions /\ you.todo = me.todo
  BY AloneIs
<1> QED
  BY <1>1 DEF View, PositionIn

LEMMA OrderlyGrows ==
  ASSUME NEW T, NEW S, NEW nx, NEW nx2, NEW own, NEW own2, Grows(nx, nx2, own, own2),
         Tables(T, S, nx, own), NEW me, Task(T, S, nx, me, own),
         NEW d, Orderly(T, S, nx, me, own, d)
  PROVE  Orderly(T, S, nx2, me, own2, d)
<1>1. \A t \in me.rows : t.position_id # 0 => own2[t.position_id] = own[t.position_id]
  BY DEF Task, Shape, Wrote, AreRows, IsRow, Grows
<1>2. Refers(T, me, own2, d)
  BY <1>1 DEF Orderly, Refers
<1>3. ASSUME NEW a \in Pairs, Calm(me, d), Wants(me) = {a}
      PROVE  Lone(T, S, nx2, me, own2, a)
  <2>1. Lone(T, S, nx, me, own, a)
    BY <1>3 DEF Orderly
  <2>2. Task(T, S, nx2, Alone(me), own2)
    BY <2>1, TaskGrows DEF Lone
  <2> QED
    BY <2>1, <2>2 DEF Lone
<1> QED
  BY <1>2, <1>3 DEF Orderly

\* From me to me2 nothing is written.
Carries(T, me, me2) ==
  /\ me2.kind = me.kind /\ me2.loaded = me.loaded /\ Wants(me2) = Wants(me)
  /\ me2.zone = me.zone /\ me2.rows = me.rows /\ me2.written = me.written
  /\ \A v \in me2.seen : v \in me.seen \cup View(T, me)
  /\ me2.at \in Early => me.at \in Early
  /\ me2.at \in Late => \/ InTodo(me2) \subseteq Wants(me)
                        \/ me.at \in Late /\ InTodo(me2) \subseteq InTodo(me)
  /\ me2.at \notin Unlinks => me.at \notin Unlinks
  /\ me2.at \notin {"clear", "delete-position"} /\ me2.linked = {}
  /\ DOMAIN me2.positions \subseteq
       DOMAIN me.positions \cup (IF me.at \in Works THEN InTodo(me) ELSE {})
  /\ me2.at \in {"sync", "link"} => me2.target = 0 \/ me2.found.id \in {0, me2.target}

LEMMA CarriesOrderly ==
  ASSUME NEW T, NEW S, NEW nx, NEW nx2, NEW own, NEW own2, Grows(nx, nx2, own, own2),
         Tables(T, S, nx, own), NEW me, Task(T, S, nx, me, own),
         NEW d, Orderly(T, S, nx, me, own, d),
         NEW me2, Carries(T, me, me2),
         Task(T, S, nx, Alone(me), own) => Task(T, S, nx2, Alone(me2), own2)
  PROVE  Orderly(T, S, nx2, me2, own2, d)
<1>1. Orderly(T, S, nx2, me, own2, d)
  BY OrderlyGrows
<1>2. View(T, me2) = View(T, me) /\ Spoilt(me2, d) = Spoilt(me, d)
      /\ \A x, y : Together(x, y, me2, d) <=> Together(x, y, me, d)
  BY DEF Carries, View, Spoilt, Together
<1>3. AreRows(View(T, me), nx)
  BY ViewRows DEF Task, Tables
<1>4. InPlace(T, me2, d)
  <2>1. InPlace(T, me, d)
    BY DEF Orderly
  <2>2. me2.at \in Early => \A u \in T : u.id = me2.loaded.id =>
          Together(PairOf(u), PairOf(me2.loaded), me2, d)
    BY <1>2, <2>1 DEF Carries, InPlace
  <2>3. ASSUME NEW u \in View(T, me2), NEW v \in me2.seen, u.id = v.id
        PROVE  Together(PairOf(u), PairOf(v), me2, d)
    <3>1. CASE v \in me.seen
      BY <1>2, <2>1, <2>3, <3>1 DEF InPlace
    <3>2. CASE v \in View(T, me)
      <4>1. u = v
        BY <1>2, <1>3, <2>3, <3>2 DEF AreRows
      <4> QED
        BY <4>1 DEF Together
    <3> QED
      BY <3>1, <3>2 DEF Carries
  <2>4. me2.at \in Late => InTodo(me2) \subseteq Wants(me2) \cup Spoilt(me2, d)
    BY <1>2, <2>1 DEF Carries, InPlace
  <2>5. \A t \in me2.rows : t.position_id # 0 => PairOf(t) \in Wants(me2) \cup Spoilt(me2, d)
    BY <1>2, <2>1 DEF Carries, InPlace
  <2> QED
    BY <2>2, <2>3, <2>4, <2>5 DEF InPlace
<1>5. Refers(T, me2, own2, d)
  BY <1>1, <1>2 DEF Orderly, Refers, Carries
<1>6. ASSUME NEW a \in Pairs, Calm(me2, d), Wants(me2) = {a}
      PROVE  Lone(T, S, nx2, me2, own2, a)
  <2>1. Wants(me) = {a} /\ Lone(T, S, nx, me, own, a)
    BY <1>6 DEF Carries, Orderly, Calm
  <2>2. Task(T, S, nx2, Alone(me2), own2)
    BY <2>1 DEF Lone
  <2> QED
    BY <2>1, <2>2 DEF Lone, Carries
<1>7. Placed(me2, d)
  <2>1. DOMAIN me2.positions \subseteq DOMAIN me.positions \cup Wants(me) \cup Spoilt(me, d)
    BY DEF Carries, Orderly, InPlace, Late
  <2>2. DOMAIN me2.positions \subseteq Wants(me2) \cup Spoilt(me2, d)
    BY <1>2, <2>1 DEF Orderly, Placed, Carries
  <2> QED
    BY <2>2 DEF Placed, Carries
<1> QED
  BY <1>4, <1>5, <1>6, <1>7 DEF Orderly

\* The step of a session that changes nothing committed.
LEMMA OneGoes ==
  ASSUME NEW own, SessionsInv(own), NEW own2, NEW s \in Live(session), NEW me2,
         session' = [session EXCEPT ![s] = me2],
         committed' = committed, dirty' = dirty,
         next' = [trade |-> next'.trade, position |-> next'.position],
         Grows(next, next', own, own2),
         Goes(committed.trades, next, session[s], me2),
         Task(committed.trades, committed.positions, next', me2, own2),
         Orderly(committed.trades, committed.positions, next', me2, own2, dirty),
         \A r \in Live(session) \ {s} :
           /\ me2.written \cap session[r].written = {}
           /\ DOMAIN me2.positions \cap DOMAIN session[r].positions = {}
  PROVE  SessionsInv(own2)'
<1> DEFINE T == committed.trades
           S == committed.positions
<1>1. s \in Sessions /\ session'[s] = me2 /\ \A r \in Sessions \ {s} : session'[r] = session[r]
  BY DEF SessionsInv, Live
<1>2. session' = [r \in Sessions |-> session'[r]]
  BY DEF SessionsInv
<1>3. me2.at \notin {"idle", "reread"}
  BY DEF Task, Shape, Wrote, Planned, HasRead, Asked, Early, Late, Works
<1>4. Live(session') = Live(session)
  BY <1>1, <1>3 DEF Live
<1>5. Tables(T, S, next', own2)
  BY TablesGrow DEF SessionsInv
<1>6. ASSUME NEW r \in Live(session) PROVE Task(T, S, next', session'[r], own2)
  <2>1. CASE r = s
    BY <1>1, <2>1
  <2>2. CASE r # s
    <3>1. session'[r] = session[r] /\ Task(T, S, next, session[r], own) /\ Tables(T, S, next, own)
      BY <1>1, <2>2 DEF SessionsInv, Live
    <3> HIDE DEF T, S
    <3> QED
      BY <3>1, TaskGrows
  <2> QED
    BY <2>1, <2>2
<1>7. ASSUME NEW r \in Live(session), r # s
      PROVE  Apart(T, me2, session[r]) /\ Apart(T, session[r], me2)
  <2>1. /\ Apart(T, session[s], session[r]) /\ Apart(T, session[r], session[s])
        /\ Shape(session[s], next, own) /\ Shape(session[r], next, own)
        /\ next.trade \in Nat \ {0} /\ Goes(T, next, session[s], me2)
    BY <1>7 DEF SessionsInv, Task, Tables
  <2>2. /\ me2.written \cap session[r].written = {}
        /\ DOMAIN me2.positions \cap DOMAIN session[r].positions = {}
    BY <1>7
  <2> HIDE DEF T
  <2> QED
    BY <2>1, <2>2, StillApart
<1>8. \A q, r \in Live(session) : q # r => Apart(T, session'[q], session'[r])
  <2> SUFFICES ASSUME NEW q \in Live(session), NEW r \in Live(session), q # r
               PROVE  Apart(T, session'[q], session'[r])
    OBVIOUS
  <2>1. q \in Sessions /\ r \in Sessions /\ Apart(T, session[q], session[r])
    BY DEF Live, SessionsInv
  <2> QED
    BY <1>1, <1>7, <2>1
<1>9. \A r \in Sessions \ Live(session) : session'[r] = Idle \/ Rereads(session'[r])
  BY <1>1 DEF SessionsInv, Live
<1>10. OnlyOverlapDamages'
  BY DEF SessionsInv, OnlyOverlapDamages, Settled
<1>11. ASSUME NEW r \in Live(session) PROVE Orderly(T, S, next', session'[r], own2, dirty')
  <2>1. CASE r = s
    BY <1>1, <2>1
  <2>2. CASE r # s
    <3>1. /\ session'[r] = session[r] /\ Task(T, S, next, session[r], own)
          /\ Tables(T, S, next, own) /\ Orderly(T, S, next, session[r], own, dirty)
      BY <1>1, <2>2 DEF SessionsInv, Live
    <3> HIDE DEF T, S
    <3>2. Orderly(T, S, next', session[r], own2, dirty)
      BY <3>1, OrderlyGrows
    <3> QED
      BY <3>1, <3>2
  <2> QED
    BY <2>1, <2>2
<1> QED
  BY <1>2, <1>4, <1>5, <1>6, <1>8, <1>9, <1>10, <1>11 DEF SessionsInv

\* A session that ends without a commit leaves nothing behind, but a gap in the sequences.
LEMMA OneEnds ==
  ASSUME NEW own, SessionsInv(own), NEW s \in Sessions, End(s),
         committed' = committed, dirty' = dirty, Grows(next, next', own, own),
         next' = [trade |-> next'.trade, position |-> next'.position]
  PROVE  SessionsInv(own)'
<1> DEFINE T == committed.trades
           S == committed.positions
<1>1. session'[s] = Idle /\ \A r \in Sessions \ {s} : session'[r] = session[r]
  BY DEF SessionsInv, End
<1>2. session' = [r \in Sessions |-> session'[r]]
  BY DEF SessionsInv, End
<1>3. Live(session') \subseteq Live(session) \ {s}
  BY <1>1 DEF Live, Idle
<1>4. \A r \in Live(session') : session'[r] = session[r] /\ r \in Live(session)
  BY <1>1, <1>3 DEF Live
<1>5. \A r \in Sessions \ Live(session') : session'[r] = Idle \/ Rereads(session'[r])
  BY <1>1 DEF SessionsInv, Live
<1>6. Tables(T, S, next', own)
  BY TablesGrow DEF SessionsInv
<1>7. ASSUME NEW r \in Live(session') PROVE Task(T, S, next', session'[r], own)
  <2>1. session'[r] = session[r] /\ Task(T, S, next, session[r], own) /\ Tables(T, S, next, own)
    BY <1>4 DEF SessionsInv
  <2> HIDE DEF T, S
  <2> QED
    BY <2>1, TaskGrows
<1>8. OnlyOverlapDamages'
  BY DEF SessionsInv, OnlyOverlapDamages, Settled
<1>9. ASSUME NEW r \in Live(session') PROVE Orderly(T, S, next', session'[r], own, dirty')
  <2>1. /\ session'[r] = session[r] /\ Task(T, S, next, session[r], own)
        /\ Tables(T, S, next, own) /\ Orderly(T, S, next, session[r], own, dirty)
    BY <1>4 DEF SessionsInv
  <2> HIDE DEF T, S
  <2>2. Orderly(T, S, next', session[r], own, dirty)
    BY <2>1, OrderlyGrows
  <2> QED
    BY <2>1, <2>2
<1> QED
  BY <1>2, <1>4, <1>5, <1>6, <1>7, <1>8, <1>9 DEF SessionsInv

-----------------------------------------------------------------------------
(***************************************************************************)
(* What the statements of a request make of what its session holds.        *)
(***************************************************************************)
LEMMA ValidateSound ==
  ASSUME NEW T, NEW S, NEW nx, NEW own, NEW me, Tables(T, S, nx, own), Task(T, S, nx, me, own),
         me.at = "validate",
         NEW me2, me2 = [me EXCEPT !.at = IF me.kind = "register" THEN "insert" ELSE "update"]
  PROVE  /\ Task(T, S, nx, me2, own) /\ Goes(T, nx, me, me2)
         /\ me2.written = me.written /\ me2.positions = me.positions
<1>1. DOMAIN me = MeFields /\ me.kind \in {"register", "update"}
  BY DEF Task, Shape, Wrote, Planned, HasRead, Asked, Early
<1>2. /\ me2 = [f \in MeFields |-> me2[f]] /\ DOMAIN me2 = MeFields
      /\ me2.at \in {"insert", "update"} /\ me2.kind = me.kind /\ <<me2.kind, me2.at>> \in
           {<<"register", "insert">>, <<"update", "update">>}
      /\ me2.loaded = me.loaded /\ me2.wanted = me.wanted /\ me2.zone = me.zone
      /\ me2.linked = me.linked
      /\ me2.quiet = me.quiet /\ me2.seen = me.seen /\ me2.rows = me.rows
      /\ me2.written = me.written /\ me2.positions = me.positions
  BY <1>1 DEF MeFields
<1> HIDE DEF MeFields
<1>3. Shape(me2, nx, own)
  <2>1. Asked(me2, nx)
    BY <1>2 DEF Task, Shape, Wrote, Planned, HasRead, Asked, Wants, Early, Late, Works
  <2> QED
    BY <1>2, <2>1 DEF Task, Shape, Wrote, Planned, HasRead, Early, Late, Works, Looks
<1>4. Holding(T, me2) /\ Loading(T, me2)
  BY <1>2 DEF Task, Holding, Loading
<1>5. Fresh(T, S, me2)
  BY <1>2 DEF Task, View, PositionIn, InTodo, Fresh, SeenStill, LinkedStill, FoundStill, MadeOfSeen, RestSettled, Early, Late, Works, Looks
<1>6. Goes(T, nx, me, me2)
  BY <1>2 DEF Goes
<1> QED
  BY <1>2, <1>3, <1>4, <1>5, <1>6 DEF Task

\* The row that is now behind one of the zone that a session sees is of the zone.
LEMMA ViewStays ==
  ASSUME NEW T, NEW S, NEW nx, NEW own, NEW me, Tables(T, S, nx, own), Task(T, S, nx, me, own),
         NEW t \in View(T, me), PairOf(t) \in me.zone, NEW u \in T, u.id = t.id
  PROVE  PairOf(u) \in me.zone
<1>1. CASE t \in T
  BY <1>1 DEF Tables, AreRows
<1>2. CASE t \in me.rows
  <2>1. u.id \in me.written
    BY <1>2 DEF Task, Shape, Wrote
  <2> QED
    BY <2>1 DEF Task, Holding
<1> QED
  BY <1>1, <1>2 DEF View

\* What it sees of the pair, and what of it the session holds already.
ListedAgain(T, me) ==
  LedgerOf(View(T, me), Head(me.todo)[1], Head(me.todo)[2])

Held(me, listed) ==
  {t \in me.seen : \E u \in listed : u.id = t.id}

ListFound(me, listed, held) ==
  [me EXCEPT !.at = "find",
     !.seen = held \cup {u \in listed : ~\E t \in held : t.id = u.id}]

LEMMA ListSound ==
  ASSUME NEW T, NEW S, NEW nx, NEW own, NEW me, Tables(T, S, nx, own), Task(T, S, nx, me, own),
         me.at = "list",
         NEW listed, listed = ListedAgain(T, me),
         NEW held, held = Held(me, listed),
         NEW me2, me2 = ListFound(me, listed, held)
  PROVE  /\ Task(T, S, nx, me2, own) /\ Goes(T, nx, me, me2)
         /\ me2.written = me.written /\ me2.positions = me.positions
<1> USE DEF ListedAgain, Held, ListFound
<1>1. PICK pa : pa = Head(me.todo)
  OBVIOUS
<1>2. /\ DOMAIN me = MeFields /\ Todo(me) /\ me.at \in Late /\ me.at \in Looks
      /\ me.at \notin Early /\ me.at # "commit" /\ pa \in me.zone /\ pa \in Pairs
  <2>1. DOMAIN me = MeFields /\ Todo(me) /\ me.at \in Late /\ me.at \in Looks
        /\ me.at \notin Early /\ me.at # "commit"
    BY DEF Task, Shape, Planned, Late, Looks, Early
  <2>2. pa \in me.zone
    BY <1>1, <2>1, TodoIs
  <2> QED
    BY <2>1, <2>2 DEF Task, Shape, Asked
<1>3. /\ me2 = [f \in MeFields |-> me2[f]] /\ DOMAIN me2 = MeFields
      /\ me2.at = "find" /\ me2.kind = me.kind /\ me2.todo = me.todo
      /\ me2.loaded = me.loaded /\ me2.wanted = me.wanted /\ me2.zone = me.zone
      /\ me2.linked = me.linked
      /\ me2.quiet = me.quiet /\ me2.rows = me.rows
      /\ me2.written = me.written /\ me2.positions = me.positions
      /\ me2.seen = held \cup {u \in listed : ~\E t \in held : t.id = u.id}
  BY <1>2 DEF MeFields
<1> HIDE DEF MeFields
<1>4. listed = {t \in View(T, me) : PairOf(t) = pa} /\ AreRows(View(T, me), nx)
  <2>1. AreRows(View(T, me), nx)
    BY ViewRows DEF Task, Tables
  <2>2. LedgerOf(View(T, me), pa[1], pa[2]) = {t \in View(T, me) : PairOf(t) = pa}
    BY <1>2, LedgerPairs
  <2> QED
    BY <1>1, <2>1, <2>2
<1>5. AreRows(me.seen, nx) /\ \A t \in me.seen : PairOf(t) = pa
  BY <1>1, <1>2 DEF Task, Shape, HasRead
<1>6. AreRows(me2.seen, nx) /\ \A t \in me2.seen : PairOf(t) = pa
  BY <1>3, <1>4, <1>5 DEF AreRows
<1>7. me2.at \in Works /\ me2.at \in Looks /\ me2.at \in Late /\ me2.at \notin Early
  BY <1>3 DEF Works, Looks, Late, Early
<1>8. InTodo(me2) = InTodo(me) /\ Todo(me2) /\ Wants(me2) = Wants(me) /\ View(T, me2) = View(T, me)
  <2>1. me2.at # "commit"
    BY <1>3
  <2> QED
    BY <1>2, <1>3, <2>1 DEF InTodo, Todo, Wants, View
<1>9. Shape(me2, nx, own)
  <2>1. Asked(me2, nx)
    BY <1>3, <1>7, <1>8 DEF Task, Shape, Asked
  <2>2. Wrote(me2, nx, own)
    BY <1>3, <1>7 DEF Task, Shape, Wrote
  <2>3. Planned(me2)
    BY <1>2, <1>3, <1>8 DEF Task, Shape, Planned
  <2>4. HasRead(me2, nx, own)
    <3>1. me2.linked = {}
      BY <1>3, NoneLinked
    <3> QED
      BY <1>1, <1>3, <1>6, <1>7, <3>1 DEF HasRead
  <2> QED
    BY <1>3, <2>1, <2>2, <2>3, <2>4 DEF Shape
<1>10. Holding(T, me2)
  BY <1>3 DEF Task, Holding
<1>11. Loading(T, me2)
  <2>1. \A t \in me2.seen : t \in me.seen \/ (t \in View(T, me) /\ PairOf(t) \in me.zone)
    BY <1>2, <1>3, <1>4
  <2>2. ASSUME NEW u \in T, NEW t \in me2.seen, u.id = t.id PROVE PairOf(u) \in me.zone
    <3>1. CASE t \in me.seen
      BY <2>2, <3>1 DEF Task, Loading
    <3>2. CASE t \in View(T, me) /\ PairOf(t) \in me.zone
      BY <2>2, <3>2, ViewStays
    <3> QED
      BY <2>1, <3>1, <3>2
  <2>3. Loading(T, me) /\ me2.loaded = me.loaded /\ me2.zone = me.zone
    BY <1>3 DEF Task
  <2> QED
    BY <2>2, <2>3 DEF Loading
<1>12. Fresh(T, S, me2)
  <2> SUFFICES ASSUME me.quiet
               PROVE  SeenStill(T, me2) /\ FoundStill(S, me2) /\ MadeOfSeen(S, me2)
                      /\ RestSettled(T, S, me2)
    BY <1>3, <1>7 DEF Fresh, LinkedStill, Task, Shape, HasRead
  <2>1. SeenStill(T, me) /\ RestSettled(T, S, me)
    BY DEF Task, Fresh
  <2>2. \A t \in me.seen : \E u \in View(T, me) : Alike(t, u)
    BY <1>2, <2>1 DEF SeenStill
  <2>3. \A t : Alike(t, t)
    BY DEF Alike, SameTrade
  <2>4. ASSUME NEW u \in View(T, me), PairOf(u) = pa
        PROVE  \E t \in me2.seen : Alike(t, u)
    <3>1. ASSUME NEW t \in held, t.id = u.id PROVE Alike(t, u)
      <4>1. PICK w \in View(T, me) : Alike(t, w)
        BY <2>2
      <4>2. w = u
        BY <1>4, <3>1, <4>1 DEF Alike, AreRows
      <4> QED
        BY <4>1, <4>2
    <3>2. ASSUME ~\E t \in held : t.id = u.id PROVE u \in me2.seen
      BY <1>3, <1>4, <2>4, <3>2
    <3>3. held \subseteq me2.seen
      BY <1>3
    <3> QED
      BY <2>3, <3>1, <3>2, <3>3
  <2>5. ASSUME NEW t \in me2.seen PROVE \E u \in View(T, me) : Alike(t, u)
    <3>1. t \in me.seen \/ t \in View(T, me)
      BY <1>3, <1>4
    <3> QED
      BY <2>2, <2>3, <3>1
  <2>6. SeenStill(T, me2)
    <3>1. Head(me2.todo) = pa
      BY <1>1, <1>3
    <3> QED
      BY <1>8, <2>4, <2>5, <3>1 DEF SeenStill
  <2>7. FoundStill(S, me2) /\ MadeOfSeen(S, me2)
    BY <1>3 DEF FoundStill, MadeOfSeen
  <2>8. RestSettled(T, S, me2)
    <3>1. \A qb : PositionIn(S, me2, qb) = PositionIn(S, me, qb)
      BY <1>3 DEF PositionIn
    <3> QED
      BY <1>2, <1>3, <1>8, <2>1, <3>1 DEF RestSettled
  <2> QED
    BY <2>6, <2>7, <2>8
<1>13. Goes(T, nx, me, me2)
  <2>1. \A t \in me2.seen : t \in T \cup me.rows \cup me.seen
    BY <1>3, <1>4 DEF View
  <2> QED
    BY <1>3, <2>1 DEF Goes
<1> QED
  BY <1>3, <1>9, <1>10, <1>11, <1>12, <1>13 DEF Task

\* A row without the fields of what it is stored from, but for the quantity.
LEMMA StoredFields ==
  ASSUME NEW t, Fields(t)
  PROVE  /\ Fields(Stored(t)) /\ PairOf(Stored(t)) = PairOf(t)
         /\ Stored(t).id = t.id /\ Stored(t).position_id = t.position_id
         /\ Stored(t).portfolio_id = t.portfolio_id /\ Stored(t).asset_id = t.asset_id
BY DEF Fields, Stored, PairOf, RowFields

RowInserted(me, nx) ==
  Stored([me.wanted EXCEPT !.id = nx.trade])

Inserted(me, row) ==
  [me EXCEPT !.at = "list", !.wanted = row, !.rows = {row},
     !.written = {row.id}, !.todo = <<PairOf(row)>>]

LEMMA InsertSound ==
  ASSUME NEW T, NEW S, NEW nx, NEW own, NEW me, Tables(T, S, nx, own), Task(T, S, nx, me, own),
         me.at = "insert",
         NEW row, row = RowInserted(me, nx),
         NEW me2, me2 = Inserted(me, row),
         NEW nx2, nx2.trade = nx.trade + 1, nx2.position = nx.position
  PROVE  /\ Task(T, S, nx2, me2, own) /\ Goes(T, nx, me, me2) /\ Grows(nx, nx2, own, own)
         /\ me2.written = {nx.trade} /\ me2.positions = me.positions
<1> USE DEF RowInserted, Inserted
<1>1. DOMAIN me = MeFields /\ me.kind = "register" /\ Fields(me.wanted) /\ me.seen = {}
      /\ DOMAIN me.positions = {} /\ me.loaded.id = 0 /\ me.wanted.position_id = 0
      /\ me.linked = {}
  BY DEF Task, Shape, Wrote, Planned, HasRead, Asked, Early, Works, Looks
<1>2. nx.trade \in Nat \ {0} /\ nx.position \in Nat \ {0}
  BY DEF Tables
<1>3. /\ Fields([me.wanted EXCEPT !.id = nx.trade])
      /\ PairOf([me.wanted EXCEPT !.id = nx.trade]) = PairOf(me.wanted)
      /\ [me.wanted EXCEPT !.id = nx.trade].id = nx.trade
      /\ [me.wanted EXCEPT !.id = nx.trade].position_id = 0
  BY <1>1 DEF Fields, PairOf, RowFields
<1>4. Fields(row) /\ PairOf(row) = PairOf(me.wanted) /\ row.id = nx.trade /\ row.position_id = 0
  BY <1>3, StoredFields
<1>5. /\ me2 = [f \in MeFields |-> me2[f]] /\ DOMAIN me2 = MeFields
      /\ me2.at = "list" /\ me2.kind = me.kind /\ me2.todo = <<PairOf(row)>>
      /\ me2.loaded = me.loaded /\ me2.wanted = row /\ me2.zone = me.zone
      /\ me2.linked = {}
      /\ me2.quiet = me.quiet /\ me2.rows = {row} /\ me2.seen = {}
      /\ me2.written = {nx.trade} /\ me2.positions = me.positions
  BY <1>1, <1>4 DEF MeFields
<1> HIDE DEF MeFields
<1>6. PairOf(row) \in me.zone /\ (me.quiet => me.zone = {PairOf(row)})
  BY <1>1, <1>4 DEF Task, Shape, Wrote, Planned, HasRead, Asked, Wants
<1>7. Todo(me2) /\ InTodo(me2) = {PairOf(row)}
  BY <1>5, <1>6 DEF Todo, InTodo
<1>8. Grows(nx, nx2, own, own)
  BY <1>2 DEF Grows
<1>9. Shape(me2, nx2, own)
  <2>1. Asked(me2, nx2)
    <3>1. Wants(me2) = {PairOf(row)} /\ me.zone \subseteq Pairs /\ me2.kind = "register"
      BY <1>1, <1>5 DEF Wants, Task, Shape, Wrote, Planned, HasRead, Asked
    <3> QED
      BY <1>1, <1>4, <1>5, <1>6, <3>1 DEF Asked, Early, Late
  <2>2. AreRows(me2.rows, nx2)
    BY <1>2, <1>4, <1>5 DEF AreRows, IsRow
  <2>3. AreRows(me2.seen, nx2)
    BY <1>5 DEF AreRows
  <2>4. me2.written \subseteq 1..nx2.trade - 1
    BY <1>2, <1>5
  <2> QED
    BY <1>1, <1>4, <1>5, <1>7, <2>1, <2>2, <2>3, <2>4 DEF Shape, Wrote, Planned, HasRead, Early, Late, Works
<1>10. Holding(T, me2) /\ Loading(T, me2)
  <2>1. \A u \in T : u.id # nx.trade /\ u.id # 0
    BY DEF Tables, AreRows, IsRow
  <2> QED
    BY <1>1, <1>4, <1>5, <1>6, <2>1 DEF Holding, Loading
<1>11. Fresh(T, S, me2)
  BY <1>5, <1>6, <1>7 DEF Fresh, SeenStill, LinkedStill, FoundStill, MadeOfSeen, RestSettled, Early, Works
<1>12. Goes(T, nx, me, me2)
  BY <1>4, <1>5 DEF Goes
<1> QED
  BY <1>5, <1>8, <1>9, <1>10, <1>11, <1>12 DEF Task

RowUpdated(me, t) ==
  Stored(Merged(t, me.loaded, me.wanted))

Updated(me, t, row) ==
  [me EXCEPT
     !.at = "list",
     !.rows = IF me.wanted = me.loaded THEN {} ELSE {row},
     !.written = IF me.wanted = me.loaded THEN {} ELSE {t.id},
     !.seen = IF me.wanted = me.loaded THEN {t} ELSE {},
     !.todo = <<PairOf(row)>> \o
              (IF row.asset_id = me.loaded.asset_id THEN <<>>
               ELSE <<PairOf(me.loaded)>>)]

LEMMA UpdateSound ==
  ASSUME NEW T, NEW S, NEW nx, NEW own, NEW me, Tables(T, S, nx, own), Task(T, S, nx, me, own),
         me.at = "update", NEW t \in View(T, me), t.id = me.loaded.id,
         NEW row, row = RowUpdated(me, t),
         NEW me2, me2 = Updated(me, t, row)
  PROVE  /\ Task(T, S, nx, me2, own) /\ Goes(T, nx, me, me2)
         /\ me2.written \subseteq (IF me.wanted = me.loaded THEN {} ELSE {me.loaded.id})
         /\ me2.positions = me.positions
<1> USE DEF RowUpdated, Updated
<1>1. DOMAIN me = MeFields /\ me.kind = "update" /\ Fields(me.wanted) /\ IsRow(me.loaded, nx)
      /\ me.seen = {} /\ me.rows = {} /\ me.written = {} /\ DOMAIN me.positions = {}
      /\ me.wanted.position_id = me.loaded.position_id
      /\ me.wanted.portfolio_id = me.loaded.portfolio_id /\ me.linked = {}
  BY DEF Task, Shape, Wrote, Planned, HasRead, Asked, Early, Works, Looks
<1>2. t \in T /\ IsRow(t, nx)
  BY <1>1 DEF View, Tables, AreRows
<1>3. PairOf(t) \in me.zone /\ t.portfolio_id = me.loaded.portfolio_id
      /\ (me.quiet => PairOf(t) = PairOf(me.loaded))
      /\ PairOf(me.loaded) \in me.zone /\ PairOf(me.wanted) \in me.zone
      /\ (me.quiet => me.zone = {PairOf(me.loaded), PairOf(me.wanted)})
  BY <1>1, <1>2 DEF Task, Loading, Fresh, SeenStill, LinkedStill, FoundStill, MadeOfSeen, RestSettled, Shape, Wrote, Planned, HasRead, Asked, Wants, Early
<1>4. PICK merged : merged = Merged(t, me.loaded, me.wanted)
  OBVIOUS
<1>5. /\ merged = [f \in RowFields |-> merged[f]]
      /\ merged.portfolio_id = t.portfolio_id
      /\ merged.position_id = t.position_id
      /\ merged.trade_type \in TradeTypes /\ merged.executed_at \in Nat
      /\ merged.asset_id = IF me.wanted.asset_id # me.loaded.asset_id
                           THEN me.wanted.asset_id ELSE t.asset_id
  BY <1>1, <1>2, <1>3, <1>4 DEF Merged, IsRow, Fields, RowFields
<1>6. merged.id = t.id /\ PairOf(merged) \in me.zone
      /\ (me.quiet => me.zone \subseteq {PairOf(merged)} \cup
                        (IF merged.asset_id = me.loaded.asset_id THEN {} ELSE {PairOf(me.loaded)}))
  <2>1. merged.id = t.id
    BY <1>1, <1>2, <1>4 DEF Merged, IsRow, Fields, RowFields, Task, Shape, Wrote, Planned, HasRead, Asked
  <2>2. PairOf(merged) = IF me.wanted.asset_id # me.loaded.asset_id
                         THEN PairOf(me.wanted) ELSE PairOf(t)
    BY <1>1, <1>3, <1>5 DEF PairOf
  <2> QED
    BY <1>1, <1>3, <1>5, <2>1, <2>2 DEF PairOf
<1>7. Fields(merged)
  BY <1>5, <1>6 DEF Fields, Task, Shape, Wrote, Planned, HasRead, Asked
<1>8. /\ Fields(row) /\ PairOf(row) = PairOf(merged) /\ row.id = t.id
      /\ row.position_id = t.position_id /\ row.portfolio_id = t.portfolio_id
      /\ row.asset_id = merged.asset_id
  <2>1. row = Stored(merged)
    BY <1>4
  <2> QED
    BY <1>5, <1>6, <1>7, <2>1, StoredFields
<1>9. IsRow(row, nx)
  BY <1>2, <1>8 DEF IsRow
<1>10. PICK todo : todo = IF row.asset_id = me.loaded.asset_id THEN <<PairOf(row)>>
                          ELSE <<PairOf(row), PairOf(me.loaded)>>
  OBVIOUS
<1>11. <<PairOf(row)>> \o (IF row.asset_id = me.loaded.asset_id THEN <<>>
                           ELSE <<PairOf(me.loaded)>>) = todo
  BY <1>10, OneAndOne
<1>12. /\ me2 = [f \in MeFields |-> me2[f]] /\ DOMAIN me2 = MeFields
       /\ me2.at = "list" /\ me2.kind = me.kind /\ me2.todo = todo
       /\ me2.loaded = me.loaded /\ me2.wanted = me.wanted /\ me2.zone = me.zone
       /\ me2.linked = {}
       /\ me2.quiet = me.quiet /\ me2.positions = me.positions
       /\ me2.seen = (IF me.wanted = me.loaded THEN {t} ELSE {})
       /\ me2.rows = (IF me.wanted = me.loaded THEN {} ELSE {row})
       /\ me2.written = (IF me.wanted = me.loaded THEN {} ELSE {t.id})
  BY <1>1, <1>11 DEF MeFields
<1> HIDE DEF MeFields
<1>13. /\ Todo(me2)
       /\ InTodo(me2) = {PairOf(row)} \cup (IF row.asset_id = me.loaded.asset_id THEN {}
                                            ELSE {PairOf(me.loaded)})
  <2>1. CASE row.asset_id = me.loaded.asset_id
    <3>1. todo = <<PairOf(row)>> /\ PairOf(row) \in me.zone
      BY <1>6, <1>8, <1>10, <2>1
    <3> QED
      BY <1>12, <2>1, <3>1 DEF Todo, InTodo
  <2>2. CASE row.asset_id # me.loaded.asset_id
    <3>1. todo = <<PairOf(row), PairOf(me.loaded)>> /\ PairOf(row) \in me.zone
          /\ PairOf(me.loaded) \in me.zone
      BY <1>3, <1>6, <1>8, <1>10, <2>2
    <3>2. PairOf(row) # PairOf(me.loaded)
      BY <2>2 DEF PairOf
    <3>3. InTodo(me2) = {PairOf(row), PairOf(me.loaded)}
      BY <1>12, <3>1 DEF InTodo
    <3> QED
      BY <1>12, <2>2, <3>1, <3>2, <3>3 DEF Todo
  <2> QED
    BY <2>1, <2>2
<1>19. ASSUME me.wanted = me.loaded PROVE PairOf(row) = PairOf(t) /\ View(T, me2) = T
  <2>1. PairOf(row) = PairOf(t)
    BY <1>2, <1>5, <1>8, <1>19 DEF PairOf
  <2> QED
    BY <1>12, <1>19, <2>1 DEF View
<1>20. Head(me2.todo) = PairOf(row)
  BY <1>10, <1>12
<1>14. Shape(me2, nx, own)
  <2>1. Asked(me2, nx)
    <3>1. Wants(me2) = Wants(me) /\ Wants(me) \subseteq me.zone /\ me.zone \subseteq Pairs
          /\ (me.quiet => me.zone = Wants(me)) /\ me.wanted.id = me.loaded.id
      BY <1>1, <1>12 DEF Wants, Task, Shape, Wrote, Planned, HasRead, Asked
    <3> QED
      BY <1>1, <1>12, <3>1 DEF Asked, Early, Late
  <2>2. AreRows(me2.rows, nx) /\ AreRows(me2.seen, nx)
    BY <1>2, <1>9, <1>12 DEF AreRows
  <2>3. me2.written \subseteq 1..nx.trade - 1
    BY <1>2, <1>12 DEF IsRow
  <2>4. HasRead(me2, nx, own)
    <3>1. \A v \in me2.seen : PairOf(v) = Head(me2.todo)
      BY <1>12, <1>19, <1>20
    <3> QED
      BY <1>12, <2>2, <3>1 DEF HasRead, Looks, Works
  <2> QED
    <3>1. \A u \in me2.rows : u.id \in me2.written
      BY <1>8, <1>12
    <3> QED
      BY <1>1, <1>12, <1>13, <2>1, <2>2, <2>3, <2>4, <3>1 DEF Shape, Wrote, Planned, Early, Late, Works
<1>15. \A u \in T : u.id = t.id => u = t
  BY <1>2 DEF Tables, AreRows
<1>16. Holding(T, me2) /\ Loading(T, me2)
  BY <1>3, <1>6, <1>8, <1>12, <1>15 DEF Holding, Loading
<1>17. Fresh(T, S, me2)
  <2>1. \A v \in me2.seen : v \in View(T, me2) /\ Alike(v, v)
    BY <1>2, <1>12, <1>19 DEF Alike, SameTrade
  <2> QED
    BY <1>6, <1>8, <1>12, <1>13, <2>1 DEF Fresh, SeenStill, LinkedStill, FoundStill, MadeOfSeen, RestSettled, Early, Works
<1>18. Goes(T, nx, me, me2)
  BY <1>2, <1>8, <1>12 DEF Goes
<1> QED
  BY <1>12, <1>14, <1>16, <1>17, <1>18 DEF Task

Deleted(me) ==
  [me EXCEPT !.at = "list", !.written = {me.loaded.id},
     !.todo = <<PairOf(me.loaded)>>]

LEMMA DeleteSound ==
  ASSUME NEW T, NEW S, NEW nx, NEW own, NEW me, Tables(T, S, nx, own), Task(T, S, nx, me, own),
         me.at = "delete",
         NEW me2, me2 = Deleted(me)
  PROVE  /\ Task(T, S, nx, me2, own) /\ Goes(T, nx, me, me2)
         /\ me2.written = {me.loaded.id} /\ me2.positions = me.positions
<1> USE DEF Deleted
<1>1. DOMAIN me = MeFields /\ me.kind = "delete" /\ IsRow(me.loaded, nx)
      /\ me.wanted = me.loaded /\ me.seen = {} /\ me.rows = {} /\ DOMAIN me.positions = {}
      /\ me.linked = {}
      /\ PairOf(me.loaded) \in me.zone /\ (me.quiet => me.zone = {PairOf(me.loaded)})
  BY DEF Task, Shape, Wrote, Planned, HasRead, Asked, Early, Works, Wants, Looks
<1>2. /\ me2 = [f \in MeFields |-> me2[f]] /\ DOMAIN me2 = MeFields
      /\ me2.at = "list" /\ me2.kind = me.kind /\ me2.todo = <<PairOf(me.loaded)>>
      /\ me2.loaded = me.loaded /\ me2.wanted = me.wanted /\ me2.zone = me.zone
      /\ me2.linked = {}
      /\ me2.quiet = me.quiet /\ me2.seen = {} /\ me2.positions = me.positions
      /\ me2.rows = {} /\ me2.written = {me.loaded.id}
  BY <1>1 DEF MeFields
<1> HIDE DEF MeFields
<1>3. Todo(me2) /\ InTodo(me2) = {PairOf(me.loaded)}
  BY <1>1, <1>2 DEF Todo, InTodo
<1>4. Shape(me2, nx, own)
  <2>1. Asked(me2, nx)
    <3>1. Asked(me, nx) /\ Wants(me2) = Wants(me)
      BY <1>2 DEF Task, Shape, Wants
    <3> QED
      BY <1>1, <1>2, <3>1 DEF Asked, Early, Late, Works
  <2>2. AreRows(me2.rows, nx) /\ AreRows(me2.seen, nx)
    BY <1>2 DEF AreRows
  <2>3. me2.written \subseteq 1..nx.trade - 1
    BY <1>1, <1>2 DEF IsRow
  <2> QED
    BY <1>1, <1>2, <1>3, <2>1, <2>2, <2>3 DEF Shape, Wrote, Planned, HasRead, Early, Late, Works
<1>5. Holding(T, me2) /\ Loading(T, me2)
  BY <1>2 DEF Task, Holding, Loading
<1>6. Fresh(T, S, me2)
  BY <1>1, <1>2, <1>3 DEF Fresh, SeenStill, LinkedStill, FoundStill, MadeOfSeen, RestSettled, Early, Works
<1>7. Goes(T, nx, me, me2)
  BY <1>2 DEF Goes
<1> QED
  BY <1>2, <1>4, <1>5, <1>6, <1>7 DEF Task

Started(me) ==
  [me EXCEPT !.at = "list", !.todo = <<PairOf(me.loaded)>>]

LEMMA StartSound ==
  ASSUME NEW T, NEW S, NEW nx, NEW own, NEW me, Tables(T, S, nx, own), Task(T, S, nx, me, own),
         me.at = "start",
         NEW me2, me2 = Started(me)
  PROVE  /\ Task(T, S, nx, me2, own) /\ Goes(T, nx, me, me2)
         /\ me2.written = {} /\ me2.positions = me.positions
<1> USE DEF Started
<1>1. DOMAIN me = MeFields /\ me.kind = "recalculate" /\ me.loaded.id = 0
      /\ me.wanted = me.loaded /\ me.seen = {} /\ me.rows = {} /\ me.written = {}
      /\ DOMAIN me.positions = {} /\ me.linked = {}
      /\ PairOf(me.loaded) \in me.zone /\ (me.quiet => me.zone = {PairOf(me.loaded)})
  BY DEF Task, Shape, Wrote, Planned, HasRead, Asked, Early, Works, Wants, Looks
<1>2. /\ me2 = [f \in MeFields |-> me2[f]] /\ DOMAIN me2 = MeFields
      /\ me2.at = "list" /\ me2.kind = me.kind /\ me2.todo = <<PairOf(me.loaded)>>
      /\ me2.loaded = me.loaded /\ me2.wanted = me.wanted /\ me2.zone = me.zone
      /\ me2.linked = {}
      /\ me2.quiet = me.quiet /\ me2.seen = {} /\ me2.positions = me.positions
      /\ me2.rows = {} /\ me2.written = {}
  BY <1>1 DEF MeFields
<1> HIDE DEF MeFields
<1>3. Todo(me2) /\ InTodo(me2) = {PairOf(me.loaded)}
  BY <1>1, <1>2 DEF Todo, InTodo
<1>4. Shape(me2, nx, own)
  <2>1. Asked(me2, nx)
    BY <1>1, <1>2 DEF Task, Shape, Wrote, Planned, HasRead, Asked, Wants, Early, Late, Works
  <2>2. AreRows(me2.rows, nx) /\ AreRows(me2.seen, nx)
    BY <1>2 DEF AreRows
  <2> QED
    BY <1>1, <1>2, <1>3, <2>1, <2>2 DEF Shape, Wrote, Planned, HasRead, Early, Late, Works
<1>5. Holding(T, me2) /\ Loading(T, me2)
  BY <1>2 DEF Task, Holding, Loading
<1>6. Fresh(T, S, me2)
  BY <1>1, <1>2, <1>3 DEF Fresh, SeenStill, LinkedStill, FoundStill, MadeOfSeen, RestSettled, Early, Works
<1>7. Goes(T, nx, me, me2)
  BY <1>2 DEF Goes
<1> QED
  BY <1>2, <1>4, <1>5, <1>6, <1>7 DEF Task

\* While it recalculates the first pair of todo.
LEMMA AtWork ==
  ASSUME NEW T, NEW S, NEW nx, NEW own, NEW me, Tables(T, S, nx, own), Task(T, S, nx, me, own),
         me.at \in Works, NEW pa, pa = Head(me.todo)
  PROVE  /\ DOMAIN me = MeFields /\ Todo(me) /\ me.at \in Late /\ me.at \notin Early
         /\ me.at # "commit" /\ me.at # "list"
         /\ pa \in me.zone /\ pa \in Pairs /\ pa \in InTodo(me)
         /\ IsPositionRow(S[pa], pa, nx, own)
         /\ me.at \notin {"sync", "link"} => pa \notin DOMAIN me.positions /\ PositionIn(S, me, pa) = S[pa]
         /\ IsLedger(me.seen) /\ \A t \in me.seen : t.trade_type \in TradeTypes
<1>1. /\ DOMAIN me = MeFields /\ Todo(me) /\ me.at \in Late /\ me.at \notin Early
      /\ me.at # "commit" /\ me.at # "list"
  BY DEF Task, Shape, Wrote, Planned, HasRead, Late, Works, Early
<1>2. pa \in me.zone /\ pa \in InTodo(me)
  BY <1>1, TodoIs
<1>3. pa \in Pairs /\ IsPositionRow(S[pa], pa, nx, own)
  BY <1>2 DEF Task, Shape, Wrote, Planned, HasRead, Asked, Tables
<1>4. me.at \notin {"sync", "link"} => pa \notin DOMAIN me.positions
  BY <1>1, <1>2 DEF Task, Shape, Wrote, Planned, HasRead
<1>5. IsLedger(me.seen) /\ \A t \in me.seen : t.trade_type \in TradeTypes
  BY RowsReplay DEF Task, Shape, Wrote, Planned, HasRead, Tables
<1> QED
  BY <1>1, <1>2, <1>3, <1>4, <1>5 DEF PositionIn

\* Nothing about the rows changes.
SameRows(me, me2) ==
  /\ me2.zone = me.zone /\ me2.rows = me.rows /\ me2.written = me.written
  /\ me2.linked = me.linked
  /\ me2.loaded = me.loaded /\ me2.quiet = me.quiet
  /\ me2.seen = me.seen \/ me2.seen = {}

LEMMA SameRowsHeld ==
  ASSUME NEW T, NEW S, NEW nx, NEW own, NEW me, NEW me2, Task(T, S, nx, me, own),
         SameRows(me, me2)
  PROVE  Holding(T, me2) /\ Loading(T, me2) /\ Goes(T, nx, me, me2)
         /\ View(T, me2) = View(T, me)
BY DEF SameRows, Task, Holding, Loading, Goes, View

FoundOnto(me, found, book, place) ==
  [me EXCEPT !.at = place, !.found = found,
     !.calculated = IF IsPosition(book) THEN Saved(book) ELSE NoBook]

LEMMA FindSound ==
  ASSUME NEW T, NEW S, NEW nx, NEW own, NEW me, Tables(T, S, nx, own), Task(T, S, nx, me, own),
         me.at = "find", NEW found, found = PositionIn(S, me, Head(me.todo)),
         NEW book, book = Replay(me.seen), NEW place,
         \/ book = NoBook /\ found.id # 0 /\ place = "unlink"
         \/ IsPosition(book) /\ found.id = 0 /\ place = "insert-position"
         \/ IsPosition(book) /\ found.id # 0 /\ place = "update-position",
         NEW me2, me2 = FoundOnto(me, found, book, place)
  PROVE  /\ Task(T, S, nx, me2, own) /\ Goes(T, nx, me, me2)
         /\ me2.written = me.written /\ me2.positions = me.positions
<1> USE DEF FoundOnto
<1> DEFINE pa == Head(me.todo)
<1>1. /\ DOMAIN me = MeFields /\ Todo(me) /\ me.at \in Late /\ me.at \in Works
      /\ pa \in me.zone /\ pa \in Pairs /\ pa \in InTodo(me)
      /\ IsPositionRow(S[pa], pa, nx, own) /\ found = S[pa] /\ pa \notin DOMAIN me.positions
      /\ IsLedger(me.seen) /\ \A t \in me.seen : t.trade_type \in TradeTypes
  <2>1. me.at \in Works /\ me.at \notin {"sync", "link"}
    BY DEF Works
  <2> QED
    BY <2>1, AtWork
<1>2. book = NoBook => me.seen = {} /\ ~IsPosition(book)
  BY <1>1, ReplayAnswers DEF NoBook, IsPosition
<1>3. /\ me2 = [f \in MeFields |-> me2[f]] /\ DOMAIN me2 = MeFields
      /\ me2.at = place /\ me2.kind = me.kind /\ me2.todo = me.todo
      /\ me2.loaded = me.loaded /\ me2.wanted = me.wanted /\ me2.zone = me.zone
      /\ me2.linked = me.linked
      /\ me2.quiet = me.quiet /\ me2.rows = me.rows /\ me2.seen = me.seen
      /\ me2.written = me.written /\ me2.positions = me.positions
      /\ me2.found = found
      /\ me2.calculated = IF IsPosition(book) THEN Saved(book) ELSE NoBook
  BY <1>1 DEF MeFields
<1> HIDE DEF MeFields
<1>4. /\ place \in Works \ {"find", "sync", "link"} /\ place \in Late /\ place \notin Early
      /\ place # "commit" /\ place # "list"
  BY DEF Works, Late, Early
<1>5. InTodo(me2) = InTodo(me) /\ Todo(me2) /\ Wants(me2) = Wants(me)
  BY <1>1, <1>3, <1>4 DEF InTodo, Todo, Wants, Late
<1>6. Asked(me2, nx)
  BY <1>3, <1>4, <1>5 DEF Task, Shape, Wrote, Planned, HasRead, Asked
<1>7. Shape(me2, nx, own)
  <2>1. /\ me2.at \in {"insert-position", "update-position"} =>
             /\ IsPosition(Replay(me2.seen)) /\ me2.calculated = Saved(Replay(me2.seen))
             /\ me2.found.id = 0 <=> me2.at = "insert-position"
        /\ me2.at \in {"unlink", "clear", "delete-position"} => me2.seen = {} /\ me2.found.id # 0
    BY <1>2, <1>3
  <2>2. me.at \in Works => \A t \in me.seen : PairOf(t) = pa
    BY DEF Task, Shape, Wrote, Planned, HasRead
  <2>3. \A qb \in DOMAIN me.positions \cap InTodo(me) : FALSE
    BY <1>1 DEF Task, Shape, Wrote, Planned, HasRead
  <2>4. Wrote(me2, nx, own)
    BY <1>3, <1>4 DEF Task, Shape, Wrote
  <2>5. Planned(me2)
    BY <1>3, <1>5, <2>3 DEF Planned
  <2>6. HasRead(me2, nx, own)
    <3>1. HasRead(me, nx, own)
      BY DEF Task, Shape
    <3> QED
      BY <1>1, <1>3, <1>4, <2>1, <2>2, <3>1 DEF HasRead, Looks, Works
  <2> QED
    BY <1>3, <1>6, <2>4, <2>5, <2>6 DEF Shape
<1>8. Holding(T, me2) /\ Loading(T, me2) /\ Goes(T, nx, me, me2) /\ View(T, me2) = View(T, me)
  <2>1. SameRows(me, me2)
    BY <1>3 DEF SameRows
  <2> QED
    BY <2>1, SameRowsHeld
<1>9. Fresh(T, S, me2)
  <2>2. me2.linked = {}
    BY <1>3 DEF Task, Shape, HasRead
  <2>1. \A qb : PositionIn(S, me2, qb) = PositionIn(S, me, qb)
    BY <1>3 DEF PositionIn
  <2> QED
    BY <1>1, <1>3, <1>4, <1>5, <1>8, <2>1, <2>2 DEF Task, Fresh, SeenStill, LinkedStill, FoundStill, MadeOfSeen, RestSettled, Looks, Works
<1> QED
  BY <1>3, <1>7, <1>8, <1>9 DEF Task

LEMMA BookIsARecord ==
  ASSUME NEW L, IsLedger(L), \A t \in L : t.trade_type \in TradeTypes, IsPosition(Replay(L)),
         NEW book, book = Saved(Replay(L))
  PROVE  book = [f \in BookFields |-> book[f]]
<1>1. PICK b : b = Replay(L)
  OBVIOUS
<1>2. b = Book(b.position_type, b.quantity, b.average_price, b.total_cost, b.status, b.opened_at,
               b.closed_at)
  BY <1>1, ReplayAnswers
<1> QED
  BY <1>1, <1>2 DEF Saved, Book, BookFields

\* The position of the pair is written, as row, or left as it is.
Syncs(me, me2, pa, row) ==
  /\ DOMAIN me2 = MeFields /\ me2 = [f \in MeFields |-> me2[f]]
  /\ me2.at = "sync" /\ me2.kind = me.kind /\ me2.loaded = me.loaded /\ me2.wanted = me.wanted
  /\ me2.todo = me.todo /\ me2.seen = me.seen /\ me2.found = me.found
  /\ me2.rows = me.rows /\ me2.written = me.written /\ me2.zone = me.zone /\ me2.quiet = me.quiet
  /\ me2.linked = me.linked
  /\ DOMAIN me.positions \subseteq DOMAIN me2.positions
  /\ DOMAIN me2.positions \subseteq DOMAIN me.positions \cup {pa}
  /\ \A qb \in DOMAIN me2.positions :
       me2.positions[qb] = IF qb = pa THEN row ELSE me.positions[qb]

\* What is written is a position of the pair, made of the trades that were seen.
Synced(S, nx, own, me, me2) ==
  LET pa == Head(me.todo)
  IN  /\ me.at \in {"insert-position", "update-position", "delete-position"}
      /\ \E row : IsPositionRow(row, pa, nx, own) /\ Syncs(me, me2, pa, row)
      /\ me2.target # 0 => me2.target \in 1..nx.position - 1 /\ own[me2.target] = pa
      /\ me.quiet => MadeOfSeen(S, me2)

LEMMA SyncedSound ==
  ASSUME NEW T, NEW S, NEW nx, NEW own, NEW me, Tables(T, S, nx, own), Task(T, S, nx, me, own),
         NEW me2, Synced(S, nx, own, me, me2)
  PROVE  Task(T, S, nx, me2, own) /\ Goes(T, nx, me, me2)
<1> SUFFICES ASSUME NEW pa, pa = Head(me.todo),
                    me.at \in {"insert-position", "update-position", "delete-position"},
                    NEW row, IsPositionRow(row, pa, nx, own), Syncs(me, me2, pa, row),
                    me2.target # 0 => me2.target \in 1..nx.position - 1 /\ own[me2.target] = pa,
                    me.quiet => MadeOfSeen(S, me2)
             PROVE  Task(T, S, nx, me2, own) /\ Goes(T, nx, me, me2)
  BY DEF Synced
<1>2. me.at \in Works \ {"find"} /\ me.at \notin {"sync", "link"}
  BY DEF Works
<1>3. /\ Todo(me) /\ me.at \in Late /\ me.at # "commit"
      /\ pa \in me.zone /\ pa \in InTodo(me) /\ pa \notin DOMAIN me.positions
  BY <1>2, AtWork
<1> DEFINE same == /\ me2.at = "sync" /\ me2.kind = me.kind /\ me2.loaded = me.loaded
                   /\ me2.wanted = me.wanted /\ me2.todo = me.todo
                   /\ me2.zone = me.zone /\ me2.quiet = me.quiet
<1>1. same
  BY DEF Syncs
<1>4. InTodo(me2) = InTodo(me) /\ Wants(me2) = Wants(me) /\ Head(me2.todo) = pa
  BY <1>1 DEF InTodo, Wants
<1>5. Todo(me2)
  BY <1>1, <1>3 DEF Todo
<1> HIDE DEF same
<1>6. Asked(me2, nx)
  BY <1>4 DEF Syncs, Task, Shape, Asked, Early, Late, Works
<1>7. \A qb \in DOMAIN me.positions \cap InTodo(me) : FALSE
  BY <1>2, <1>3 DEF Task, Shape, Planned
<1>8. Shape(me2, nx, own)
  <2>1. ASSUME NEW qb \in DOMAIN me2.positions
        PROVE  IsPositionRow(me2.positions[qb], qb, nx, own) /\ qb \in me.zone
    BY <1>3 DEF Task, Shape, Wrote, Syncs
  <2>2. Wrote(me2, nx, own)
    BY <2>1 DEF Syncs, Task, Shape, Wrote, Early
  <2>3. Planned(me2)
    BY <1>4, <1>5, <1>7 DEF Planned, Syncs
  <2>4. HasRead(me2, nx, own)
    BY <1>2, <1>4 DEF Syncs, Task, Shape, HasRead, Works, Looks
  <2> QED
    BY <1>6, <2>2, <2>3, <2>4 DEF Shape, Syncs
<1>9. SameRows(me, me2)
  BY DEF SameRows, Syncs
<1>10. Holding(T, me2) /\ Loading(T, me2) /\ View(T, me2) = View(T, me) /\ Goes(T, nx, me, me2)
  BY <1>9, SameRowsHeld
<1>11. Fresh(T, S, me2)
  <2>1. \A qb \in me.zone \ InTodo(me) : PositionIn(S, me2, qb) = PositionIn(S, me, qb)
    BY <1>3 DEF PositionIn, Syncs
  <2>2. Fresh(T, S, me)
    BY DEF Task
  <2>3. me.quiet => SeenStill(T, me2) /\ LinkedStill(T, me2) /\ FoundStill(S, me2)
    BY <1>2, <1>10, <2>2 DEF Syncs, Fresh, SeenStill, LinkedStill, FoundStill, Looks, Works
  <2>4. me.quiet => RestSettled(T, S, me2)
    BY <1>3, <1>4, <1>10, <2>1, <2>2 DEF Syncs, Fresh, RestSettled
  <2>5. me2.quiet = me.quiet /\ me2.at \notin Early
    BY DEF Syncs, Early
  <2> QED
    BY <2>3, <2>4, <2>5 DEF Fresh
<1> QED
  BY <1>8, <1>10, <1>11 DEF Task

NewPosition(me, nx) ==
  [id |-> nx.position, book |-> me.calculated]

PositionInserted(me, nx, pa, row) ==
  [me EXCEPT !.at = "sync", !.target = nx.position,
     !.positions = [qb \in DOMAIN me.positions \cup {pa} |->
                      IF qb = pa THEN row ELSE me.positions[qb]]]

Owned(own, nx, pa) ==
  [i \in 1..nx.position |-> IF i = nx.position THEN pa ELSE own[i]]

LEMMA InsertPositionSound ==
  ASSUME NEW T, NEW S, NEW nx, NEW own, NEW me, Tables(T, S, nx, own), Task(T, S, nx, me, own),
         me.at = "insert-position", NEW pa, pa = Head(me.todo), S[pa].id = 0,
         NEW row, row = NewPosition(me, nx),
         NEW me2, me2 = PositionInserted(me, nx, pa, row),
         NEW nx2, nx2.trade = nx.trade, nx2.position = nx.position + 1,
         NEW own2, own2 = Owned(own, nx, pa)
  PROVE  /\ Task(T, S, nx2, me2, own2) /\ Goes(T, nx, me, me2) /\ Grows(nx, nx2, own, own2)
         /\ me2.written = me.written /\ DOMAIN me2.positions = DOMAIN me.positions \cup {pa}
<1> USE DEF NewPosition, PositionInserted, Owned
<1>1. /\ DOMAIN me = MeFields /\ IsLedger(me.seen)
      /\ \A t \in me.seen : t.trade_type \in TradeTypes
  <2>1. me.at \in Works
    BY DEF Works
  <2> QED
    BY <2>1, AtWork
<1>2. /\ nx.trade \in Nat \ {0} /\ nx.position \in Nat \ {0}
  BY DEF Tables
<1>3. Grows(nx, nx2, own, own2)
  BY <1>2 DEF Grows
<1>4. Task(T, S, nx2, me, own2) /\ Tables(T, S, nx2, own2)
  BY <1>3, TaskGrows, TablesGrow
<1>5. me2.target = nx.position /\ me2.positions = [qb \in DOMAIN me.positions \cup {pa} |->
                                            IF qb = pa THEN row ELSE me.positions[qb]]
  BY <1>1 DEF MeFields
<1>6. Syncs(me, me2, pa, row)
  <2>1. /\ me2 = [f \in MeFields |-> me2[f]] /\ DOMAIN me2 = MeFields
        /\ me2.at = "sync" /\ me2.kind = me.kind /\ me2.todo = me.todo
        /\ me2.loaded = me.loaded /\ me2.wanted = me.wanted /\ me2.zone = me.zone
        /\ me2.linked = me.linked
        /\ me2.quiet = me.quiet /\ me2.rows = me.rows /\ me2.seen = me.seen
        /\ me2.written = me.written /\ me2.found = me.found
    BY <1>1 DEF MeFields
  <2>2. /\ DOMAIN me2.positions = DOMAIN me.positions \cup {pa}
        /\ \A qb \in DOMAIN me2.positions :
             me2.positions[qb] = IF qb = pa THEN row ELSE me.positions[qb]
    BY <1>5
  <2> HIDE DEF MeFields
  <2> QED
    BY <2>1, <2>2 DEF Syncs
<1>7. /\ IsPosition(Replay(me.seen)) /\ me.calculated = Saved(Replay(me.seen))
      /\ me.seen # {}
      /\ me.calculated = [f \in BookFields |-> me.calculated[f]]
  <2>1. IsPosition(Replay(me.seen)) /\ me.calculated = Saved(Replay(me.seen))
    BY DEF Task, Shape, HasRead
  <2> QED
    BY <1>1, <2>1, ReplayAnswers, BookIsARecord
<1>8. IsPositionRow(row, pa, nx2, own2) /\ own2[nx.position] = pa
      /\ nx.position \in 1..nx2.position - 1 /\ nx.position # 0
  BY <1>2, <1>7 DEF IsPositionRow
<1>9. MadeOfSeen(S, me2)
  <2>1. PositionIn(S, me2, Head(me2.todo)) = row /\ me2.seen = me.seen
    BY <1>5, <1>6 DEF PositionIn, Syncs
  <2>2. row.id = nx.position /\ row.book = me.calculated
    OBVIOUS
  <2> QED
    BY <1>5, <1>7, <1>8, <2>1, <2>2 DEF MadeOfSeen
<1>10. me2.written = me.written /\ DOMAIN me2.positions = DOMAIN me.positions \cup {pa}
  BY <1>5, <1>6 DEF Syncs
<1>11. Task(T, S, nx2, me2, own2) /\ Goes(T, nx2, me, me2)
  <2>1. Synced(S, nx2, own2, me, me2)
    BY <1>5, <1>6, <1>8, <1>9 DEF Synced
  <2> QED
    BY <1>4, <2>1, SyncedSound
<1>12. Goes(T, nx, me, me2)
  BY <1>11 DEF Goes
<1> QED
  BY <1>3, <1>10, <1>11, <1>12

Changes(me) ==
  {f \in DOMAIN me.calculated :
     me.calculated[f] # me.found.book[f] \/ Rounds(f, me.calculated[f])}

ChangedPosition(S, me, pa, changes) ==
  [id |-> S[pa].id,
   book |-> [f \in DOMAIN me.calculated |->
               IF f \in changes THEN me.calculated[f] ELSE S[pa].book[f]]]

PositionUpdated(S, me, pa, changes, row) ==
  [me EXCEPT !.at = "sync", !.target = S[pa].id,
     !.positions = IF changes = {} THEN me.positions
                   ELSE [qb \in DOMAIN me.positions \cup {pa} |->
                           IF qb = pa THEN row ELSE me.positions[qb]]]

LEMMA UpdatePositionSound ==
  ASSUME NEW T, NEW S, NEW nx, NEW own, NEW me, Tables(T, S, nx, own), Task(T, S, nx, me, own),
         me.at = "update-position", NEW pa, pa = Head(me.todo), S[pa].id = me.found.id,
         NEW changes, changes = Changes(me),
         NEW row, row = ChangedPosition(S, me, pa, changes),
         NEW me2, me2 = PositionUpdated(S, me, pa, changes, row)
  PROVE  /\ Task(T, S, nx, me2, own) /\ Goes(T, nx, me, me2)
         /\ me2.written = me.written
         /\ DOMAIN me2.positions = (IF changes = {} THEN DOMAIN me.positions
                                    ELSE DOMAIN me.positions \cup {pa})
<1> USE DEF Changes, ChangedPosition, PositionUpdated
<1>1. /\ DOMAIN me = MeFields /\ pa \in Pairs /\ IsPositionRow(S[pa], pa, nx, own)
      /\ pa \notin DOMAIN me.positions /\ IsLedger(me.seen)
      /\ \A t \in me.seen : t.trade_type \in TradeTypes
  <2>1. me.at \in Works /\ me.at \notin {"sync", "link"}
    BY DEF Works
  <2> QED
    BY <2>1, AtWork
<1>2. PICK positions : positions = IF changes = {} THEN me.positions
                                   ELSE [qb \in DOMAIN me.positions \cup {pa} |->
                                           IF qb = pa THEN row ELSE me.positions[qb]]
  OBVIOUS
<1>3. /\ DOMAIN positions = (IF changes = {} THEN DOMAIN me.positions
                             ELSE DOMAIN me.positions \cup {pa})
      /\ \A qb \in DOMAIN positions : positions[qb] = (IF qb = pa THEN row ELSE me.positions[qb])
  BY <1>1, <1>2
<1>4. me2.positions = positions /\ me2.target = S[pa].id
  BY <1>1, <1>2 DEF MeFields
<1>5. Syncs(me, me2, pa, row)
  <2>1. /\ me2 = [f \in MeFields |-> me2[f]] /\ DOMAIN me2 = MeFields
        /\ me2.at = "sync" /\ me2.kind = me.kind /\ me2.todo = me.todo
        /\ me2.loaded = me.loaded /\ me2.wanted = me.wanted /\ me2.zone = me.zone
        /\ me2.linked = me.linked
        /\ me2.quiet = me.quiet /\ me2.rows = me.rows /\ me2.seen = me.seen
        /\ me2.written = me.written /\ me2.found = me.found
    BY <1>1 DEF MeFields
  <2>2. /\ DOMAIN me.positions \subseteq DOMAIN positions
        /\ DOMAIN positions \subseteq DOMAIN me.positions \cup {pa}
    BY <1>3
  <2> HIDE DEF MeFields
  <2> QED
    BY <1>3, <1>4, <2>1, <2>2 DEF Syncs
<1>6. /\ IsPosition(Replay(me.seen)) /\ me.calculated = Saved(Replay(me.seen))
      /\ me.seen # {} /\ me.found.id # 0
      /\ me.calculated = [f \in BookFields |-> me.calculated[f]]
  <2>1. /\ IsPosition(Replay(me.seen)) /\ me.calculated = Saved(Replay(me.seen))
        /\ me.found.id # 0
    BY DEF Task, Shape, HasRead
  <2> QED
    BY <1>1, <2>1, ReplayAnswers, BookIsARecord
<1>7. /\ S[pa].id \in 1..nx.position - 1 /\ own[S[pa].id] = pa /\ S[pa].id # 0
      /\ S[pa].book = [f \in BookFields |-> S[pa].book[f]]
  <2>1. IsPositionRow(S[pa], pa, nx, own) /\ S[pa].id # 0
    BY <1>1, <1>6
  <2>2. S[pa] # NoRow
    BY <2>1 DEF NoRow
  <2> QED
    BY <2>1, <2>2 DEF IsPositionRow
<1>8. row.id = S[pa].id /\ row.book = [f \in BookFields |-> row.book[f]]
      /\ \A f \in BookFields : row.book[f] = IF f \in changes THEN me.calculated[f]
                                             ELSE S[pa].book[f]
  <2>1. DOMAIN me.calculated = BookFields
    BY <1>6
  <2> HIDE DEF BookFields
  <2> QED
    BY <2>1
<1>9. IsPositionRow(row, pa, nx, own)
  BY <1>7, <1>8 DEF IsPositionRow
<1>10. ASSUME me.quiet
       PROVE  /\ PositionIn(S, me2, Head(me2.todo)).id = S[pa].id
              /\ PositionIn(S, me2, Head(me2.todo)).book = me.calculated
  <2>0. Head(me2.todo) = pa
    BY <1>5 DEF Syncs
  <2>1. me.found = S[pa]
    BY <1>10 DEF Task, Fresh, LinkedStill, FoundStill, Works
  <2>2. DOMAIN me.calculated = BookFields
    BY <1>6
  <2> HIDE DEF BookFields
  <2>3. CASE changes = {}
    <3>1. \A f \in BookFields : me.calculated[f] = S[pa].book[f]
      BY <2>1, <2>2, <2>3
    <3>2. me.calculated = S[pa].book
      BY <1>6, <1>7, <3>1
    <3>3. PositionIn(S, me2, pa) = S[pa]
      BY <1>1, <1>3, <1>4, <2>3 DEF PositionIn
    <3> QED
      BY <2>0, <3>2, <3>3
  <2>4. CASE changes # {}
    <3>1. \A f \in BookFields : row.book[f] = me.calculated[f]
      BY <1>8, <2>1, <2>2
    <3>2. row.book = me.calculated
      BY <1>6, <1>8, <3>1
    <3>3. PositionIn(S, me2, pa) = row
      BY <1>3, <1>4, <2>4 DEF PositionIn
    <3> QED
      BY <1>8, <2>0, <3>2, <3>3
  <2> QED
    BY <2>3, <2>4
<1>11. me.quiet => MadeOfSeen(S, me2)
  <2>1. me2.seen = me.seen /\ me2.target = S[pa].id /\ Head(me2.todo) = pa
    BY <1>4, <1>5 DEF Syncs
  <2> QED
    BY <1>6, <1>7, <1>10, <2>1 DEF MadeOfSeen
<1>12. Task(T, S, nx, me2, own) /\ Goes(T, nx, me, me2)
  <2>1. Synced(S, nx, own, me, me2)
    BY <1>4, <1>5, <1>7, <1>9, <1>11 DEF Synced
  <2> QED
    BY <2>1, SyncedSound
<1> QED
  BY <1>3, <1>4, <1>5, <1>12 DEF Syncs

PositionDeleted(S, me, pa) ==
  [me EXCEPT !.at = "sync", !.target = 0,
     !.positions = IF S[pa].id = me.found.id
                   THEN [qb \in DOMAIN me.positions \cup {pa} |->
                           IF qb = pa THEN NoRow ELSE me.positions[qb]]
                   ELSE me.positions]

LEMMA DeletePositionSound ==
  ASSUME NEW T, NEW S, NEW nx, NEW own, NEW me, Tables(T, S, nx, own), Task(T, S, nx, me, own),
         me.at = "delete-position", NEW pa, pa = Head(me.todo),
         NEW me2, me2 = PositionDeleted(S, me, pa)
  PROVE  /\ Task(T, S, nx, me2, own) /\ Goes(T, nx, me, me2)
         /\ me2.written = me.written
         /\ DOMAIN me2.positions \subseteq DOMAIN me.positions \cup {pa}
<1> USE DEF PositionDeleted
<1>1. /\ DOMAIN me = MeFields /\ pa \notin DOMAIN me.positions
  <2>1. me.at \in Works /\ me.at \notin {"sync", "link"}
    BY DEF Works
  <2> QED
    BY <2>1, AtWork
<1>2. PICK positions : positions = IF S[pa].id = me.found.id
                                   THEN [qb \in DOMAIN me.positions \cup {pa} |->
                                           IF qb = pa THEN NoRow ELSE me.positions[qb]]
                                   ELSE me.positions
  OBVIOUS
<1>3. /\ DOMAIN positions = (IF S[pa].id = me.found.id THEN DOMAIN me.positions \cup {pa}
                             ELSE DOMAIN me.positions)
      /\ \A qb \in DOMAIN positions : positions[qb] = (IF qb = pa THEN NoRow ELSE me.positions[qb])
  BY <1>1, <1>2
<1>4. me2.positions = positions /\ me2.target = 0
  BY <1>1, <1>2 DEF MeFields
<1>5. Syncs(me, me2, pa, NoRow)
  <2>1. /\ me2 = [f \in MeFields |-> me2[f]] /\ DOMAIN me2 = MeFields
        /\ me2.at = "sync" /\ me2.kind = me.kind /\ me2.todo = me.todo
        /\ me2.loaded = me.loaded /\ me2.wanted = me.wanted /\ me2.zone = me.zone
        /\ me2.linked = me.linked
        /\ me2.quiet = me.quiet /\ me2.rows = me.rows /\ me2.seen = me.seen
        /\ me2.written = me.written /\ me2.found = me.found
    BY <1>1 DEF MeFields
  <2>2. /\ DOMAIN me.positions \subseteq DOMAIN positions
        /\ DOMAIN positions \subseteq DOMAIN me.positions \cup {pa}
    BY <1>3
  <2> HIDE DEF MeFields
  <2> QED
    BY <1>3, <1>4, <2>1, <2>2 DEF Syncs
<1>6. me.seen = {}
  BY DEF Task, Shape, HasRead
<1>7. me.quiet => PositionIn(S, me2, pa) = NoRow
  <2>1. me.quiet => me.found = S[pa]
    BY DEF Task, Fresh, LinkedStill, FoundStill, Works
  <2> QED
    BY <1>3, <1>4, <2>1 DEF PositionIn
<1>8. me.quiet => MadeOfSeen(S, me2)
  <2>1. me2.seen = {} /\ me2.target = 0 /\ Head(me2.todo) = pa /\ NoRow.id = 0
    BY <1>4, <1>5, <1>6 DEF NoRow, Syncs
  <2> QED
    BY <1>7, <2>1 DEF MadeOfSeen
<1>9. IsPositionRow(NoRow, pa, nx, own)
  BY DEF IsPositionRow
<1>10. Task(T, S, nx, me2, own) /\ Goes(T, nx, me, me2)
  <2>1. Synced(S, nx, own, me, me2)
    BY <1>4, <1>5, <1>8, <1>9 DEF Synced
  <2> QED
    BY <2>1, SyncedSound
<1> QED
  BY <1>3, <1>4, <1>5, <1>10 DEF Syncs

LEMMA RowLinked ==
  ASSUME NEW nx, NEW t, IsRow(t, nx), NEW p \in 0..nx.position - 1,
         NEW r, r = [t EXCEPT !.position_id = p]
  PROVE  /\ IsRow(r, nx) /\ r.id = t.id /\ PairOf(r) = PairOf(t) /\ SameTrade(t, r)
         /\ r.portfolio_id = t.portfolio_id /\ r.position_id = p
<1>1. /\ r = [f \in RowFields |-> r[f]] /\ r.id = t.id /\ r.portfolio_id = t.portfolio_id
      /\ r.asset_id = t.asset_id /\ r.trade_type = t.trade_type /\ r.quantity = t.quantity
      /\ r.price = t.price /\ r.executed_at = t.executed_at /\ r.position_id = p
  BY DEF IsRow, Fields, RowFields
<1> QED
  BY <1>1 DEF IsRow, Fields, PairOf, SameTrade

IdsOf(Q) == {t.id : t \in Q}

\* The rows Q of its view get the position p.
Links(T, me, me2, Q, p) ==
  LET R   == {[t EXCEPT !.position_id = p] : t \in Q}
      ids == {t.id : t \in R}
  IN  /\ Q \subseteq View(T, me)
      /\ me2.rows = {t \in me.rows : t.id \notin ids} \cup R
      /\ me2.written = me.written \cup ids

LEMMA LinksIs ==
  ASSUME NEW T, NEW nx, NEW own, NEW me, AreRows(T, nx), Shape(me, nx, own),
         NEW p \in 0..nx.position - 1, NEW Q, NEW me2, Links(T, me, me2, Q, p)
  PROVE  /\ AreRows(me2.rows, nx) /\ me2.written \subseteq 1..nx.trade - 1
         /\ \A t \in me2.rows : t.id \in me2.written
         /\ Q \subseteq View(T, me)
         /\ \A t \in me2.rows : \/ t \in me.rows /\ t \notin Q
                                \/ \E u \in Q : t = [u EXCEPT !.position_id = p]
         /\ \A t \in me.rows : t \in Q \/ t \in me2.rows
         /\ \A u \in Q : [u EXCEPT !.position_id = p] \in me2.rows
         /\ me2.written = me.written \cup IdsOf(Q)
         /\ \A t \in View(T, me2) : \/ t \in View(T, me) /\ t \notin Q
                                    \/ \E u \in Q : t = [u EXCEPT !.position_id = p]
         /\ \A t \in View(T, me) : t \in Q \/ t \in View(T, me2)
         /\ \A u \in Q : [u EXCEPT !.position_id = p] \in View(T, me2)
<1> USE DEF IdsOf
<1> DEFINE R   == {[t EXCEPT !.position_id = p] : t \in Q}
           ids == {t.id : t \in R}
<1>1. AreRows(View(T, me), nx) /\ Q \subseteq View(T, me)
  BY ViewRows DEF Links
<1>2. \A u \in Q : /\ IsRow(u, nx) /\ IsRow([u EXCEPT !.position_id = p], nx)
                   /\ [u EXCEPT !.position_id = p].id = u.id
  BY <1>1, RowLinked DEF AreRows
<1>3. /\ me2.rows = {t \in me.rows : t.id \notin ids} \cup R
      /\ me2.written = me.written \cup ids
  BY DEF Links
<1>4. ids = {u.id : u \in Q}
  BY <1>2
<1>5. \A t \in View(T, me) : t.id \in ids <=> t \in Q
  BY <1>1, <1>4 DEF AreRows
<1>6. me.rows \subseteq View(T, me) /\ AreRows(me.rows, nx)
  BY DEF View, Shape, Wrote
<1>7. \A t \in R : \E u \in Q : t = [u EXCEPT !.position_id = p] /\ t.id = u.id /\ IsRow(t, nx)
  BY <1>2
<1>8. ids \subseteq 1..nx.trade - 1
  BY <1>2, <1>4 DEF IsRow
<1>9. \A t, u \in R : t.id = u.id => t = u
  BY <1>1, <1>7 DEF AreRows
<1>10. \A t \in me2.rows : t.id \in me2.written
  BY <1>3 DEF Shape, Wrote
<1>11. me2.written \subseteq 1..nx.trade - 1
  BY <1>3, <1>8 DEF Shape, Wrote
<1>12. /\ \A t \in me2.rows : \/ t \in me.rows /\ t \notin Q
                              \/ t \in R
       /\ \A t \in me.rows : t \in Q \/ t \in me2.rows
       /\ R \subseteq me2.rows
  BY <1>3, <1>5, <1>6
<1>13. AreRows(me2.rows, nx)
  <2>1. \A t \in me2.rows : IsRow(t, nx)
    BY <1>3, <1>6, <1>7 DEF AreRows
  <2>2. \A t, u \in me2.rows : t.id = u.id => t = u
    <3> SUFFICES ASSUME NEW t \in me2.rows, NEW u \in me2.rows, t.id = u.id PROVE t = u
      OBVIOUS
    <3>1. CASE t \in R
      <4>1. u \in R
        BY <1>3, <3>1
      <4> QED
        BY <1>9, <3>1, <4>1
    <3>2. CASE t \notin R
      <4>1. t \in me.rows /\ t.id \notin ids /\ u \notin R
        BY <1>3, <3>2
      <4> QED
        BY <1>3, <1>6, <4>1 DEF AreRows
    <3> QED
      BY <3>1, <3>2
  <2> QED
    BY <2>1, <2>2 DEF AreRows
<1>14. View(T, me2) = {t \in View(T, me) : t.id \notin ids} \cup R
  BY <1>3 DEF View, Shape, Wrote
<1> HIDE DEF ids
<1>15. /\ \A t \in View(T, me2) : \/ t \in View(T, me) /\ t \notin Q
                                  \/ t \in R
       /\ \A t \in View(T, me) : t \in Q \/ t \in View(T, me2)
       /\ R \subseteq View(T, me2)
  BY <1>5, <1>14
<1> QED
  BY <1>1, <1>3, <1>4, <1>10, <1>11, <1>12, <1>13, <1>15

\* The rows of another pair stay.
LEMMA LinksWrite ==
  ASSUME NEW T, NEW nx, NEW own, NEW me, AreRows(T, nx), Shape(me, nx, own),
         NEW p \in 0..nx.position - 1, NEW Q, NEW me2, Links(T, me, me2, Q, p)
  PROVE  me2.written = me.written \cup IdsOf(Q)
BY LinksIs

LEMMA LinksElsewhere ==
  ASSUME NEW T, NEW nx, NEW own, NEW me, AreRows(T, nx), Shape(me, nx, own),
         NEW p \in 0..nx.position - 1, NEW Q, NEW me2, Links(T, me, me2, Q, p),
         NEW qb \in Pairs, \A u \in Q : PairOf(u) # qb
  PROVE  LedgerOf(View(T, me2), qb[1], qb[2]) = LedgerOf(View(T, me), qb[1], qb[2])
<1>1. AreRows(View(T, me), nx)
  BY ViewRows
<1>2. \A u \in Q : u \in View(T, me) /\ PairOf([u EXCEPT !.position_id = p]) # qb
  BY <1>1, LinksIs, RowLinked DEF AreRows
<1>3. PICK V : V = View(T, me)
  OBVIOUS
<1>4. PICK V2 : V2 = View(T, me2)
  OBVIOUS
<1>5. {t \in V2 : PairOf(t) = qb} = {t \in V : PairOf(t) = qb}
  <2>1. /\ \A t \in V2 : t \in V \/ \E u \in Q : t = [u EXCEPT !.position_id = p]
        /\ \A t \in V : t \in Q \/ t \in V2
    BY <1>3, <1>4, LinksIs
  <2> QED
    BY <1>2, <2>1
<1>6. LedgerOf(V2, qb[1], qb[2]) = {t \in V2 : PairOf(t) = qb}
  BY LedgerPairs
<1>7. LedgerOf(V, qb[1], qb[2]) = {t \in V : PairOf(t) = qb}
  BY LedgerPairs
<1> QED
  BY <1>3, <1>4, <1>5, <1>6, <1>7

\* The rows are of the zone, before and after.
LinksWithin(T, me, Q) ==
  \A u \in Q : PairOf(u) \in me.zone /\ \A w \in T : w.id = u.id => PairOf(w) \in me.zone

LEMMA LinksHeld ==
  ASSUME NEW T, NEW nx, NEW own, NEW me, AreRows(T, nx), Shape(me, nx, own), Holding(T, me),
         NEW p \in 0..nx.position - 1, NEW Q, NEW me2, Links(T, me, me2, Q, p),
         me2.zone = me.zone, LinksWithin(T, me, Q)
  PROVE  Holding(T, me2)
<1>1. Q \subseteq T \cup me.rows /\ AreRows(me.rows, nx) /\ \A t \in me.rows : t.id \in me.written
  BY DEF Links, View, Shape, Wrote
<1>2. \A u \in Q : LET r == [u EXCEPT !.position_id = p]
                   IN  r.id = u.id /\ PairOf(r) = PairOf(u) /\ r.portfolio_id = u.portfolio_id
  BY <1>1, RowLinked DEF AreRows
<1>3. /\ \A t \in me2.rows : \/ t \in me.rows
                             \/ \E u \in Q : t = [u EXCEPT !.position_id = p]
      /\ me2.written = me.written \cup IdsOf(Q)
  BY LinksIs
<1>4. ASSUME NEW t \in me2.rows PROVE PairOf(t) \in me2.zone
  BY <1>2, <1>3 DEF Holding, LinksWithin
<1>5. ASSUME NEW w \in T, w.id \in me2.written PROVE PairOf(w) \in me2.zone
  BY <1>3, <1>5 DEF Holding, LinksWithin, IdsOf
<1>6. ASSUME NEW t \in me2.rows, NEW u \in T, t.id = u.id PROVE t.portfolio_id = u.portfolio_id
  <2>1. CASE t \in me.rows
    BY <1>6, <2>1 DEF Holding
  <2>2. ASSUME NEW v \in Q, t = [v EXCEPT !.position_id = p] PROVE t.portfolio_id = u.portfolio_id
    <3>1. t.id = v.id /\ t.portfolio_id = v.portfolio_id
      BY <1>2, <2>2
    <3> QED
      BY <1>1, <1>6, <3>1 DEF AreRows, Holding
  <2> QED
    BY <1>3, <2>1, <2>2
<1> QED
  BY <1>4, <1>5, <1>6 DEF Holding

\* The position of a pair, as a session sees it.
LEMMA PositionInIs ==
  ASSUME NEW T, NEW S, NEW nx, NEW own, NEW me, Tables(T, S, nx, own), Shape(me, nx, own),
         NEW qb \in Pairs
  PROVE  IsPositionRow(PositionIn(S, me, qb), qb, nx, own)
BY DEF Tables, Shape, Wrote, PositionIn

\* The trades that refer to the position it deletes, and the request once it has loaded
\* them, on the pairs it has now to do with.
Referring(T, me) == {t \in View(T, me) : t.position_id = me.found.id}

Loaded(me, ids, joint, quiet) ==
  [me EXCEPT !.at = "clear", !.linked = ids, !.zone = joint, !.quiet = quiet]

LEMMA LoadedIs ==
  ASSUME NEW me, DOMAIN me = MeFields, NEW ids, NEW joint, NEW quiet,
         NEW me2, me2 = Loaded(me, ids, joint, quiet)
  PROVE  /\ me2 = [f \in MeFields |-> me2[f]] /\ DOMAIN me2 = MeFields
         /\ me2.at = "clear" /\ me2.kind = me.kind /\ me2.todo = me.todo
         /\ me2.loaded = me.loaded /\ me2.wanted = me.wanted /\ me2.zone = joint
         /\ me2.quiet = quiet /\ me2.seen = me.seen /\ me2.found = me.found
         /\ me2.rows = me.rows /\ me2.written = me.written
         /\ me2.positions = me.positions /\ me2.target = me.target
         /\ me2.linked = ids
BY DEF MeFields, Loaded

LEMMA LoadLinkedSound ==
  ASSUME NEW T, NEW S, NEW nx, NEW own, NEW me, Tables(T, S, nx, own), Task(T, S, nx, me, own),
         me.at = "unlink",
         NEW Q, Q = Referring(T, me),
         NEW joint, me.zone \subseteq joint, joint \subseteq Pairs,
         \A t \in Q : PairOf(t) \in joint,
         NEW quiet, quiet => me.quiet /\ joint = me.zone,
         NEW me2, me2 = Loaded(me, IdsOf(Q), joint, quiet)
  PROVE  Task(T, S, nx, me2, own)
<1>1. /\ DOMAIN me = MeFields /\ Todo(me) /\ me.at \in Works
  <2>1. me.at \in Works /\ me.at \notin {"sync", "link"}
    BY DEF Works
  <2> QED
    BY <2>1, AtWork
<1>2. /\ me2 = [f \in MeFields |-> me2[f]] /\ DOMAIN me2 = MeFields
      /\ me2.at = "clear" /\ me2.kind = me.kind /\ me2.todo = me.todo
      /\ me2.loaded = me.loaded /\ me2.wanted = me.wanted /\ me2.zone = joint
      /\ me2.quiet = quiet /\ me2.seen = me.seen /\ me2.found = me.found
      /\ me2.rows = me.rows /\ me2.written = me.written
      /\ me2.positions = me.positions /\ me2.target = me.target
      /\ me2.linked = IdsOf(Q)
  BY <1>1, LoadedIs
<1>3. InTodo(me2) = InTodo(me) /\ Todo(me2) /\ Wants(me2) = Wants(me)
  <2>1. me.zone \subseteq me2.zone /\ me2.todo = me.todo /\ me.at # "commit" /\ me2.at # "commit"
    BY <1>2
  <2>2. Todo(me)
    BY <1>1
  <2>3. Todo(me2)
    BY <2>1, <2>2 DEF Todo
  <2> QED
    BY <1>2, <2>3 DEF InTodo, Wants
<1>4. /\ me2.at \in Works /\ me2.at \in Late /\ me2.at \notin Early
      /\ me.at \in Works /\ me.at \in Late
  BY <1>2 DEF Works, Late, Early
<1>5. AreRows(View(T, me), nx) /\ View(T, me2) = View(T, me) /\ AreRows(T, nx)
  BY <1>2, ViewRows DEF Task, Tables, View
<1>6. Holding(T, me2)
  BY <1>2 DEF Task, Holding
<1>7. Loading(T, me2)
  <2>1. ASSUME NEW u \in T, u.id \in me2.linked PROVE PairOf(u) \in joint
    <3>1. PICK t \in Q : t.id = u.id
      BY <1>2, <2>1 DEF IdsOf
    <3>2. t \in T \/ t \in me.rows
      BY DEF Referring, View
    <3>3. CASE t \in T
      BY <1>5, <3>1, <3>3 DEF AreRows
    <3>4. CASE t \in me.rows
      <4>1. u.id \in me.written
        BY <3>1, <3>4 DEF Task, Shape, Wrote
      <4> QED
        BY <4>1 DEF Task, Holding
    <3> QED
      BY <3>2, <3>3, <3>4
  <2> QED
    BY <1>2, <2>1 DEF Task, Loading
<1>8. Shape(me2, nx, own)
  <2>1. Asked(me2, nx)
    BY <1>2, <1>3, <1>4 DEF Task, Shape, Asked
  <2>2. Wrote(me2, nx, own)
    BY <1>2, <1>4 DEF Task, Shape, Wrote
  <2>3. Planned(me2)
    BY <1>2, <1>3, <1>4 DEF Task, Shape, Planned
  <2>4. HasRead(me2, nx, own)
    <3>1. me2.linked \subseteq 1..nx.trade - 1
      BY <1>2, <1>5 DEF IdsOf, Referring, AreRows, IsRow
    <3> QED
      BY <1>2, <1>4, <3>1 DEF Task, Shape, HasRead, Works
  <2> QED
    BY <1>2, <2>1, <2>2, <2>3, <2>4 DEF Shape
<1>9. Fresh(T, S, me2)
  <2> SUFFICES ASSUME quiet
               PROVE  /\ SeenStill(T, me2) /\ LinkedStill(T, me2) /\ FoundStill(S, me2)
                      /\ MadeOfSeen(S, me2) /\ RestSettled(T, S, me2)
    BY <1>2, <1>4 DEF Fresh
  <2>1. SeenStill(T, me) /\ FoundStill(S, me) /\ RestSettled(T, S, me) /\ joint = me.zone
    BY DEF Task, Fresh
  <2>2. SeenStill(T, me2)
    BY <1>2, <1>4, <1>5, <2>1 DEF SeenStill, Looks
  <2>3. LinkedStill(T, me2)
    <3>1. ASSUME NEW u \in View(T, me), u.id \in IdsOf(Q) PROVE u.position_id = me.found.id
      <4>1. PICK t \in Q : t.id = u.id
        BY <3>1 DEF IdsOf
      <4>2. t = u
        BY <1>5, <4>1 DEF AreRows, Referring
      <4> QED
        BY <4>2 DEF Referring
    <3>2. View(T, me2) = View(T, me) /\ me2.linked = IdsOf(Q) /\ me2.found = me.found
      BY <1>2, <1>5
    <3> QED
      BY <3>1, <3>2 DEF LinkedStill
  <2>4. FoundStill(S, me2)
    BY <1>2, <1>4, <2>1 DEF FoundStill
  <2>5. MadeOfSeen(S, me2)
    BY <1>2 DEF MadeOfSeen
  <2>6. RestSettled(T, S, me2)
    <3>1. \A qb : PositionIn(S, me2, qb) = PositionIn(S, me, qb)
      BY <1>2 DEF PositionIn
    <3> QED
      BY <1>2, <1>3, <1>4, <1>5, <2>1, <3>1 DEF RestSettled
  <2> QED
    BY <2>2, <2>3, <2>4, <2>5, <2>6
<1> QED
  BY <1>6, <1>7, <1>8, <1>9 DEF Task

\* A row of the trades to unlink is cleared.
TradeUnlinked(me, t) ==
  Write([me EXCEPT !.linked = @ \ {t.id}], {[t EXCEPT !.position_id = 0]})

LEMMA TradeUnlinkedIs ==
  ASSUME NEW T, NEW me, DOMAIN me = MeFields, NEW t \in View(T, me),
         NEW me2, me2 = TradeUnlinked(me, t)
  PROVE  /\ me2 = [f \in MeFields |-> me2[f]] /\ DOMAIN me2 = MeFields
         /\ me2.at = me.at /\ me2.kind = me.kind /\ me2.todo = me.todo
         /\ me2.loaded = me.loaded /\ me2.wanted = me.wanted /\ me2.zone = me.zone
         /\ me2.quiet = me.quiet /\ me2.seen = me.seen /\ me2.found = me.found
         /\ me2.positions = me.positions /\ me2.target = me.target
         /\ me2.calculated = me.calculated /\ me2.first = me.first
         /\ me2.linked = me.linked \ {t.id}
         /\ Links(T, me, me2, {t}, 0)
BY DEF MeFields, Write, TradeUnlinked, Links

LEMMA UnlinkTradeSound ==
  ASSUME NEW T, NEW S, NEW nx, NEW own, NEW me, Tables(T, S, nx, own), Task(T, S, nx, me, own),
         me.at = "clear",
         NEW t \in View(T, me), t.id \in me.linked,
         NEW me2, me2 = TradeUnlinked(me, t)
  PROVE  /\ Task(T, S, nx, me2, own) /\ Goes(T, nx, me, me2)
         /\ me2.written = me.written \cup {t.id}
         /\ me2.positions = me.positions
<1> DEFINE pa == Head(me.todo)
           Q  == {t}
<1>1. /\ DOMAIN me = MeFields /\ Todo(me) /\ me.at \in Late /\ me.at \in Works
      /\ pa \in me.zone /\ pa \in Pairs /\ pa \in InTodo(me) /\ pa \notin DOMAIN me.positions
  <2>1. me.at \in Works /\ me.at \notin {"sync", "link"}
    BY DEF Works
  <2> QED
    BY <2>1, AtWork
<1>2. /\ me2 = [f \in MeFields |-> me2[f]] /\ DOMAIN me2 = MeFields
      /\ me2.at = "clear" /\ me2.kind = me.kind /\ me2.todo = me.todo
      /\ me2.loaded = me.loaded /\ me2.wanted = me.wanted /\ me2.zone = me.zone
      /\ me2.quiet = me.quiet /\ me2.seen = me.seen /\ me2.found = me.found
      /\ me2.positions = me.positions /\ me2.target = me.target
      /\ me2.linked = me.linked \ {t.id}
      /\ Links(T, me, me2, Q, 0)
  BY <1>1, TradeUnlinkedIs
<1>4. /\ nx.position \in Nat \ {0} /\ 0 \in 0..nx.position - 1 /\ AreRows(T, nx)
      /\ Shape(me, nx, own)
  BY DEF Tables, Task
<1>5. me.seen = {} /\ me.found.id # 0 /\ own[me.found.id] = pa
  <2>1. me.seen = {} /\ me.found.id # 0 /\ IsPositionRow(me.found, pa, nx, own)
    BY DEF Task, Shape, HasRead, Works
  <2> QED
    BY <2>1 DEF IsPositionRow, NoRow
<1>6. IsRow(t, nx)
  BY <1>4, ViewRows DEF AreRows
<1>7. LET r == [t EXCEPT !.position_id = 0]
      IN  r.id = t.id /\ PairOf(r) = PairOf(t) /\ r.portfolio_id = t.portfolio_id
          /\ r.position_id = 0
  BY <1>4, <1>6, RowLinked
<1>8. LinksWithin(T, me, Q)
  <2>1. \A w \in T : w.id = t.id => PairOf(w) \in me.zone
    BY DEF Task, Loading
  <2>2. PairOf(t) \in me.zone
    BY <2>1 DEF View, Task, Holding
  <2> QED
    BY <2>1, <2>2 DEF LinksWithin
<1>9. Holding(T, me2)
  BY <1>2, <1>4, <1>8, LinksHeld DEF Task
<1>10. InTodo(me2) = InTodo(me) /\ Todo(me2) /\ Wants(me2) = Wants(me)
  <2>1. /\ me2.todo = me.todo /\ me2.zone = me.zone /\ me2.at # "commit" /\ me.at # "commit"
        /\ me2.kind = me.kind /\ me2.loaded = me.loaded /\ me2.wanted = me.wanted
    BY <1>2
  <2>2. Todo(me)
    BY <1>1
  <2>3. Todo(me2)
    BY <2>1, <2>2 DEF Todo
  <2> QED
    BY <2>1, <2>3 DEF InTodo, Wants
<1>11. /\ AreRows(me2.rows, nx) /\ me2.written \subseteq 1..nx.trade - 1
       /\ \A u \in me2.rows : u.id \in me2.written
       /\ \A u \in me2.rows : u \in me.rows \/ u = [t EXCEPT !.position_id = 0]
       /\ me2.written = me.written \cup {t.id}
       /\ \A u \in View(T, me2) : u \in View(T, me) \/ u = [t EXCEPT !.position_id = 0]
  <2>1. /\ AreRows(me2.rows, nx) /\ me2.written \subseteq 1..nx.trade - 1
        /\ \A u \in me2.rows : u.id \in me2.written
    BY <1>2, <1>4, LinksIs
  <2>2. me2.written = me.written \cup IdsOf(Q)
    BY <1>2, <1>4, LinksWrite
  <2>3. \A u \in me2.rows : u \in me.rows \/ \E v \in Q : u = [v EXCEPT !.position_id = 0]
    BY <1>2, <1>4, LinksIs
  <2>4. \A u \in View(T, me2) : \/ u \in View(T, me)
                                \/ \E v \in Q : u = [v EXCEPT !.position_id = 0]
    BY <1>2, <1>4, LinksIs
  <2> QED
    BY <2>1, <2>2, <2>3, <2>4 DEF IdsOf
<1>12. me2.at \in Works /\ me2.at \in Late /\ me2.at \notin Early
  BY <1>2 DEF Works, Late, Early
<1>13. Shape(me2, nx, own)
  <2>1. Asked(me2, nx)
    BY <1>2, <1>10, <1>12 DEF Task, Shape, Asked
  <2>2. Wrote(me2, nx, own)
    BY <1>2, <1>11, <1>12 DEF Task, Shape, Wrote
  <2>3. Planned(me2)
    BY <1>1, <1>2, <1>10 DEF Task, Shape, Planned
  <2>4. HasRead(me2, nx, own)
    BY <1>2, <1>5, <1>12 DEF Task, Shape, HasRead, Works
  <2> QED
    BY <1>2, <2>1, <2>2, <2>3, <2>4 DEF Shape
<1>14. Loading(T, me2)
  BY <1>2 DEF Loading, Task
<1>15. Fresh(T, S, me2)
  <2> SUFFICES ASSUME me.quiet
               PROVE  /\ SeenStill(T, me2) /\ LinkedStill(T, me2) /\ FoundStill(S, me2)
                      /\ MadeOfSeen(S, me2) /\ RestSettled(T, S, me2)
    BY <1>2, <1>12 DEF Fresh
  <2>1. SeenStill(T, me) /\ LinkedStill(T, me) /\ FoundStill(S, me) /\ RestSettled(T, S, me)
    BY DEF Task, Fresh
  <2>2. SeenStill(T, me2)
    <3>1. ASSUME NEW u \in View(T, me2) PROVE PairOf(u) # pa
      <4>1. \A v \in View(T, me) : PairOf(v) # pa
        BY <1>1, <1>5, <2>1 DEF SeenStill
      <4> QED
        BY <1>7, <1>11, <4>1
    <3> QED
      BY <1>2, <1>5, <3>1 DEF SeenStill
  <2>7. LinkedStill(T, me2)
    <3>1. ASSUME NEW u \in View(T, me2), u.id \in me2.linked PROVE u.position_id = me.found.id
      <4>1. u \in View(T, me) /\ u.id \in me.linked
        BY <1>2, <1>7, <1>11, <3>1
      <4> QED
        BY <2>1, <4>1 DEF LinkedStill
    <3> QED
      BY <1>2, <3>1 DEF LinkedStill
  <2>3. FoundStill(S, me2)
    BY <1>2, <2>1 DEF FoundStill, Works
  <2>4. MadeOfSeen(S, me2)
    BY <1>2 DEF MadeOfSeen
  <2>5. ASSUME NEW qb \in me.zone \ InTodo(me)
        PROVE  SettledIn(View(T, me2), PositionIn(S, me2, qb), qb)
    <3>1. PositionIn(S, me2, qb) = PositionIn(S, me, qb)
      BY <1>2 DEF PositionIn
    <3>2. qb \in Pairs /\ SettledIn(View(T, me), PositionIn(S, me, qb), qb)
      BY <1>1, <2>1 DEF RestSettled, Task, Shape, Asked
    <3>3. PICK row : row = PositionIn(S, me, qb)
      OBVIOUS
    <3>4. row.id # me.found.id
      <4>1. IsPositionRow(row, qb, nx, own)
        BY <1>4, <3>2, <3>3, PositionInIs
      <4> QED
        BY <1>1, <1>5, <4>1 DEF IsPositionRow, NoRow
    <3>5. \A u \in Q : PairOf(u) # qb
      <4>1. LedgerOf(View(T, me), qb[1], qb[2]) = {u \in View(T, me) : PairOf(u) = qb}
        BY <3>2, LedgerPairs
      <4>2. \A u \in View(T, me) : PairOf(u) = qb => u.position_id = row.id
        BY <3>2, <3>3, <4>1 DEF SettledIn
      <4>3. t.position_id = me.found.id
        BY <2>1 DEF LinkedStill
      <4> QED
        BY <3>4, <4>2, <4>3
    <3>6. LedgerOf(View(T, me2), qb[1], qb[2]) = LedgerOf(View(T, me), qb[1], qb[2])
      BY <1>2, <1>4, <3>2, <3>5, LinksElsewhere
    <3> QED
      BY <3>1, <3>2, <3>6 DEF SettledIn
  <2>6. RestSettled(T, S, me2)
    BY <1>2, <1>10, <2>5 DEF RestSettled
  <2> QED
    BY <2>2, <2>3, <2>4, <2>6, <2>7
<1>16. Goes(T, nx, me, me2)
  <2>1. t \in T \cup me.rows
    BY DEF View
  <2>2. ASSUME NEW u \in me2.rows PROVE \E v \in T \cup me.rows : v.id = u.id
    BY <1>7, <1>11, <2>1
  <2>3. /\ me2.zone = me.zone /\ me2.quiet = me.quiet /\ me2.loaded = me.loaded
        /\ me2.seen = me.seen /\ me2.linked \subseteq me.linked
    BY <1>2
  <2> QED
    BY <2>2, <2>3 DEF Goes
<1> QED
  BY <1>2, <1>9, <1>11, <1>13, <1>14, <1>15, <1>16 DEF Task

\* No trade is left to unlink.
LEMMA UnlinkedSound ==
  ASSUME NEW T, NEW S, NEW nx, NEW own, NEW me, Tables(T, S, nx, own), Task(T, S, nx, me, own),
         me.at = "clear", me.linked = {},
         NEW me2, me2 = [me EXCEPT !.at = "delete-position"]
  PROVE  /\ Task(T, S, nx, me2, own) /\ Goes(T, nx, me, me2)
         /\ me2.written = me.written /\ me2.positions = me.positions
<1>1. /\ DOMAIN me = MeFields /\ Todo(me) /\ me.at \in Late /\ me.at \in Works
  <2>1. me.at \in Works /\ me.at \notin {"sync", "link"}
    BY DEF Works
  <2> QED
    BY <2>1, AtWork
<1>2. /\ me2 = [f \in MeFields |-> me2[f]] /\ DOMAIN me2 = MeFields
      /\ me2.at = "delete-position" /\ me2.kind = me.kind /\ me2.todo = me.todo
      /\ me2.loaded = me.loaded /\ me2.wanted = me.wanted /\ me2.zone = me.zone
      /\ me2.quiet = me.quiet /\ me2.seen = me.seen /\ me2.found = me.found
      /\ me2.rows = me.rows /\ me2.written = me.written
      /\ me2.positions = me.positions /\ me2.target = me.target /\ me2.linked = {}
  BY <1>1 DEF MeFields
<1> HIDE DEF MeFields
<1>3. InTodo(me2) = InTodo(me) /\ Todo(me2) /\ Wants(me2) = Wants(me)
  BY <1>1, <1>2 DEF InTodo, Todo, Wants
<1>4. me2.at \in Works /\ me2.at \in Late /\ me2.at \notin Early
  BY <1>2 DEF Works, Late, Early
<1>5. Holding(T, me2) /\ Loading(T, me2) /\ Goes(T, nx, me, me2) /\ View(T, me2) = View(T, me)
  <2>1. SameRows(me, me2)
    BY <1>2 DEF SameRows
  <2> QED
    BY <2>1, SameRowsHeld
<1>6. Shape(me2, nx, own)
  <2>1. Asked(me2, nx)
    BY <1>2, <1>3, <1>4 DEF Task, Shape, Asked
  <2>2. Wrote(me2, nx, own)
    BY <1>2, <1>4 DEF Task, Shape, Wrote
  <2>3. Planned(me2)
    BY <1>1, <1>2, <1>3 DEF Task, Shape, Planned
  <2>4. HasRead(me2, nx, own)
    BY <1>2, <1>4 DEF Task, Shape, HasRead, Works
  <2> QED
    BY <1>2, <2>1, <2>2, <2>3, <2>4 DEF Shape
<1>7. Fresh(T, S, me2)
  <2>1. \A qb : PositionIn(S, me2, qb) = PositionIn(S, me, qb)
    BY <1>2 DEF PositionIn
  <2> QED
    BY <1>1, <1>2, <1>3, <1>4, <1>5, <2>1 DEF Task, Fresh, SeenStill, LinkedStill, FoundStill,
       MadeOfSeen, RestSettled, Looks, Works
<1> QED
  BY <1>2, <1>5, <1>6, <1>7 DEF Task

-----------------------------------------------------------------------------
(***************************************************************************)
(* The pair is done.                                                       *)
(***************************************************************************)
\* Everything but the pairs after the first of todo is in order.
Ready(T, S, nx, me, own) ==
  /\ Shape(me, nx, own) /\ me.at \in Works /\ me.linked = {}
  /\ Holding(T, me)
  /\ \A u \in T : u.id = me.loaded.id =>
       PairOf(u) \in me.zone /\ u.portfolio_id = me.loaded.portfolio_id
  /\ me.quiet => \A qb \in me.zone \ (InTodo(me) \ {Head(me.todo)}) :
                   SettledIn(View(T, me), PositionIn(S, me, qb), qb)

LEMMA DoneSound ==
  ASSUME NEW T, NEW S, NEW nx, NEW own, NEW me, Ready(T, S, nx, me, own),
         NEW me2, me2 = Done(me)
  PROVE  /\ Task(T, S, nx, me2, own)
         /\ me2.zone = me.zone /\ me2.quiet = me.quiet /\ me2.loaded = me.loaded
         /\ me2.linked = me.linked
         /\ me2.rows = me.rows /\ me2.written = me.written /\ me2.positions = me.positions
         /\ me2.seen = {}
<1>1. /\ DOMAIN me = MeFields /\ Todo(me) /\ me.at \in Late /\ me.at # "commit"
      /\ me.at \in Works /\ me.at \notin Early
  BY DEF Ready, Shape, Planned, Works, Late, Early
<1>2. /\ me2 = [f \in MeFields |-> me2[f]] /\ DOMAIN me2 = MeFields
      /\ me2.at = (IF Len(me.todo) = 1 THEN "commit" ELSE "list")
      /\ me2.todo = Tail(me.todo) /\ me2.kind = me.kind
      /\ me2.loaded = me.loaded /\ me2.wanted = me.wanted /\ me2.zone = me.zone
      /\ me2.linked = me.linked
      /\ me2.quiet = me.quiet /\ me2.rows = me.rows /\ me2.seen = {}
      /\ me2.written = me.written /\ me2.positions = me.positions
  BY <1>1 DEF MeFields, Done
<1> HIDE DEF MeFields
<1>3. me2.at \in {"list", "commit"} /\ me2.at \in Late /\ me2.at \notin Early /\ me2.at \notin Works
  BY <1>2 DEF Late, Early, Works
<1>4. /\ Head(me.todo) \in me.zone
      /\ InTodo(me) = {Head(me.todo)} \cup InTodo(me2) /\ Head(me.todo) \notin InTodo(me2)
      /\ Todo(me2)
  <2>1. /\ Head(me.todo) \in me.zone
        /\ InTodo(me) = {Head(me.todo)} \cup {Tail(me.todo)[i] : i \in DOMAIN Tail(me.todo)}
        /\ Head(me.todo) \notin {Tail(me.todo)[i] : i \in DOMAIN Tail(me.todo)}
    BY <1>1, TodoIs
  <2>2. \/ Len(me.todo) = 1 /\ Tail(me.todo) = <<>>
        \/ Len(me.todo) # 1 /\ \E b \in me.zone : Tail(me.todo) = <<b>>
    BY <1>1, TodoIs
  <2>3. InTodo(me2) = {Tail(me.todo)[i] : i \in DOMAIN Tail(me.todo)}
    <3>1. me2.todo = Tail(me.todo)
      BY <1>2
    <3> QED
      BY <3>1 DEF InTodo
  <2>4. Todo(me2)
    BY <1>2, <2>2 DEF Todo
  <2> QED
    BY <2>1, <2>3, <2>4
<1>5. Shape(me2, nx, own)
  <2>1. Asked(me2, nx)
    <3>1. Wants(me2) = Wants(me)
      BY <1>2 DEF Wants
    <3> QED
      BY <1>2, <1>3, <3>1 DEF Ready, Shape, Asked
  <2>2. Wrote(me2, nx, own)
    BY <1>2, <1>3 DEF Ready, Shape, Wrote
  <2>3. Planned(me2)
    <3>1. \A qb \in DOMAIN me.positions \cap InTodo(me) : qb = Head(me.todo)
      BY <1>1 DEF Ready, Shape, Planned
    <3> QED
      BY <1>2, <1>4, <3>1 DEF Planned
  <2>4. HasRead(me2, nx, own)
    <3>1. me2.linked = {} /\ me2.seen = {} /\ me2.at \notin Works
      BY <1>2, <1>3 DEF Ready
    <3> QED
      BY <3>1 DEF HasRead, AreRows, Works
  <2> QED
    BY <1>2, <2>1, <2>2, <2>3, <2>4 DEF Shape
<1>6. Holding(T, me2)
  <2>1. me2.zone = me.zone /\ me2.rows = me.rows /\ me2.written = me.written
    BY <1>2
  <2> QED
    BY <2>1 DEF Ready, Holding
<1>7. Loading(T, me2)
  BY <1>2 DEF Ready, Loading
<1>8. Fresh(T, S, me2)
  <2>1. View(T, me2) = View(T, me) /\ \A qb : PositionIn(S, me2, qb) = PositionIn(S, me, qb)
    BY <1>2 DEF View, PositionIn
  <2>2. me.quiet => RestSettled(T, S, me2)
    <3>1. InTodo(me2) = InTodo(me) \ {Head(me.todo)}
      BY <1>4
    <3> QED
      BY <1>2, <2>1, <3>1 DEF Ready, RestSettled
  <2>3. SeenStill(T, me2) /\ LinkedStill(T, me2) /\ FoundStill(S, me2) /\ MadeOfSeen(S, me2)
    BY <1>2, <1>3 DEF Ready, SeenStill, LinkedStill, FoundStill, MadeOfSeen, Works, Looks
  <2> QED
    BY <1>2, <1>3, <2>2, <2>3 DEF Fresh
<1> QED
  BY <1>2, <1>5, <1>6, <1>7, <1>8 DEF Task

\* Nothing to recalculate: no trades and no position.
LEMMA NothingFoundSound ==
  ASSUME NEW T, NEW S, NEW nx, NEW own, NEW me, Tables(T, S, nx, own), Task(T, S, nx, me, own),
         me.at = "find", PositionIn(S, me, Head(me.todo)).id = 0, Replay(me.seen) = NoBook,
         NEW me2, me2 = Done(me)
  PROVE  /\ Task(T, S, nx, me2, own) /\ Goes(T, nx, me, me2)
         /\ me2.written = me.written /\ me2.positions = me.positions
<1>1. PICK pa : pa = Head(me.todo)
  OBVIOUS
<1>2. /\ Todo(me) /\ me.at \in Late /\ me.at \in Works /\ pa \in me.zone /\ pa \in Pairs
      /\ IsLedger(me.seen) /\ \A t \in me.seen : t.trade_type \in TradeTypes
  <2>1. me.at \in Works
    BY DEF Works
  <2> QED
    BY <1>1, <2>1, AtWork
<1>3. me.seen = {}
  BY <1>2, ReplayAnswers
<1>4. PositionIn(S, me, pa) = NoRow
  <2>1. IsPositionRow(PositionIn(S, me, pa), pa, nx, own)
    BY <1>2, PositionInIs DEF Task
  <2> QED
    BY <1>1, <2>1 DEF IsPositionRow, Tables
<1>5. ASSUME me.quiet PROVE SettledIn(View(T, me), PositionIn(S, me, pa), pa)
  <2>1. LedgerOf(View(T, me), pa[1], pa[2]) = {t \in View(T, me) : PairOf(t) = pa}
    BY <1>2, LedgerPairs
  <2>2. \A t \in View(T, me) : PairOf(t) # pa
    BY <1>1, <1>2, <1>3, <1>5 DEF Task, Fresh, SeenStill
  <2>3. LedgerOf(View(T, me), pa[1], pa[2]) = {}
    BY <2>1, <2>2
  <2> QED
    BY <1>4, <2>3, EmptyReplay DEF SettledIn, NoRow, NoBook, IsFailure, IsPosition
<1>6. Ready(T, S, nx, me, own)
  <2>1. me.quiet => \A qb \in me.zone \ InTodo(me) : SettledIn(View(T, me), PositionIn(S, me, qb), qb)
    BY <1>2 DEF Task, Fresh, RestSettled
  <2> QED
    BY <1>1, <1>2, <1>5, <2>1 DEF Ready, Task, Loading, Shape, HasRead
<1>7. /\ Task(T, S, nx, me2, own)
      /\ me2.zone = me.zone /\ me2.quiet = me.quiet /\ me2.loaded = me.loaded
      /\ me2.linked = me.linked
      /\ me2.rows = me.rows /\ me2.written = me.written /\ me2.positions = me.positions
      /\ me2.seen = {}
  BY <1>6, DoneSound
<1> QED
  BY <1>7 DEF Goes

ListSynced(me, listed, held) ==
  [me EXCEPT !.at = "link",
     !.seen = held \cup {u \in listed : ~\E t \in held : t.id = u.id}]

LEMMA SyncListSound ==
  ASSUME NEW T, NEW S, NEW nx, NEW own, NEW me, Tables(T, S, nx, own), Task(T, S, nx, me, own),
         me.at = "sync",
         NEW listed, listed = ListedAgain(T, me),
         NEW held, held = Held(me, listed),
         NEW me2, me2 = ListSynced(me, listed, held)
  PROVE  /\ Task(T, S, nx, me2, own) /\ Goes(T, nx, me, me2)
         /\ me2.written = me.written /\ me2.positions = me.positions
<1> USE DEF ListedAgain, Held, ListSynced
<1>1. PICK pa : pa = Head(me.todo)
  OBVIOUS
<1>2. /\ DOMAIN me = MeFields /\ Todo(me) /\ me.at \in Late /\ me.at \in Works /\ me.at \notin Early
      /\ me.at # "commit" /\ pa \in me.zone /\ pa \in Pairs /\ pa \in InTodo(me)
  <2>1. me.at \in Works
    BY DEF Works
  <2> QED
    BY <1>1, <2>1, AtWork
<1>3. /\ me2 = [f \in MeFields |-> me2[f]] /\ DOMAIN me2 = MeFields
      /\ me2.at = "link" /\ me2.kind = me.kind /\ me2.todo = me.todo
      /\ me2.loaded = me.loaded /\ me2.wanted = me.wanted /\ me2.zone = me.zone
      /\ me2.linked = me.linked
      /\ me2.quiet = me.quiet /\ me2.rows = me.rows /\ me2.found = me.found
      /\ me2.written = me.written /\ me2.positions = me.positions /\ me2.target = me.target
      /\ me2.seen = held \cup {u \in listed : ~\E t \in held : t.id = u.id}
  BY <1>2 DEF MeFields
<1> HIDE DEF MeFields
<1>4. listed = {t \in View(T, me) : PairOf(t) = pa} /\ AreRows(View(T, me), nx)
  <2>1. AreRows(View(T, me), nx)
    BY ViewRows DEF Task, Tables
  <2>2. LedgerOf(View(T, me), pa[1], pa[2]) = {t \in View(T, me) : PairOf(t) = pa}
    BY <1>2, LedgerPairs
  <2> QED
    BY <1>1, <2>1, <2>2
<1>5. /\ AreRows(me.seen, nx) /\ \A t \in me.seen : PairOf(t) = pa
  BY <1>1, <1>2 DEF Task, Shape, HasRead
<1>6. AreRows(me2.seen, nx) /\ \A t \in me2.seen : PairOf(t) = pa
  BY <1>3, <1>4, <1>5 DEF AreRows
<1>7. me2.at \in Works /\ me2.at \in Late /\ me2.at \notin Early
  BY <1>3 DEF Works, Late, Early
<1>8. InTodo(me2) = InTodo(me) /\ Todo(me2) /\ Wants(me2) = Wants(me) /\ View(T, me2) = View(T, me)
  <2>1. me2.at # "commit"
    BY <1>3
  <2> QED
    BY <1>2, <1>3, <2>1 DEF InTodo, Todo, Wants, View
<1>9. Shape(me2, nx, own)
  <2>1. Asked(me2, nx)
    BY <1>3, <1>7, <1>8 DEF Task, Shape, Asked
  <2>2. Wrote(me2, nx, own)
    BY <1>3, <1>7 DEF Task, Shape, Wrote
  <2>3. Planned(me2)
    BY <1>2, <1>3, <1>8 DEF Task, Shape, Planned
  <2>4. HasRead(me2, nx, own)
    <3>1. HasRead(me, nx, own) /\ me.at = "sync" /\ me2.at = "link"
      BY <1>3 DEF Task, Shape
    <3> QED
      BY <1>1, <1>3, <1>6, <3>1 DEF HasRead, Works, Looks
  <2> QED
    BY <1>3, <2>1, <2>2, <2>3, <2>4 DEF Shape
<1>10. Holding(T, me2)
  BY <1>3 DEF Task, Holding
<1>11. Loading(T, me2)
  <2>1. \A t \in me2.seen : t \in me.seen \/ (t \in View(T, me) /\ PairOf(t) \in me.zone)
    BY <1>2, <1>3, <1>4
  <2>2. ASSUME NEW u \in T, NEW t \in me2.seen, u.id = t.id PROVE PairOf(u) \in me.zone
    <3>1. CASE t \in me.seen
      BY <2>2, <3>1 DEF Task, Loading
    <3>2. CASE t \in View(T, me) /\ PairOf(t) \in me.zone
      BY <2>2, <3>2, ViewStays
    <3> QED
      BY <2>1, <3>1, <3>2
  <2>3. Loading(T, me) /\ me2.loaded = me.loaded /\ me2.zone = me.zone
    BY <1>3 DEF Task
  <2> QED
    BY <2>2, <2>3 DEF Loading
<1>12. Fresh(T, S, me2)
  <2> SUFFICES ASSUME me.quiet
               PROVE  SeenStill(T, me2) /\ FoundStill(S, me2) /\ MadeOfSeen(S, me2)
                      /\ RestSettled(T, S, me2)
    BY <1>3, <1>7 DEF Fresh, LinkedStill, Task, Shape, HasRead
  <2>1. /\ SeenStill(T, me) /\ FoundStill(S, me) /\ MadeOfSeen(S, me)
        /\ RestSettled(T, S, me)
    BY DEF Task, Fresh
  <2>2. /\ \A t \in me.seen : \E u \in View(T, me) : u.id = t.id /\ PairOf(u) = PairOf(t)
        /\ \A u \in View(T, me) : PairOf(u) = pa => \E t \in me.seen : u.id = t.id
    BY <1>1, <1>2, <2>1 DEF SeenStill, Alike, Looks, Works
  <2>3. held = me.seen
    BY <1>4, <1>5, <2>2
  <2>4. me2.seen = me.seen
    <3>1. {u \in listed : ~\E t \in held : t.id = u.id} = {}
      BY <1>4, <2>2, <2>3
    <3> QED
      BY <1>3, <2>3, <3>1
  <2>5. \A qb : PositionIn(S, me2, qb) = PositionIn(S, me, qb)
    BY <1>3 DEF PositionIn
  <2>6. SeenStill(T, me2)
    BY <1>2, <1>3, <1>8, <2>1, <2>4 DEF SeenStill, Looks, Works
  <2>7. FoundStill(S, me2)
    <3>1. me.at \in Works \ {"find"}
      BY <1>2
    <3> QED
      BY <1>3, <2>1, <3>1 DEF FoundStill
  <2>8. MadeOfSeen(S, me2)
    <3>1. PositionIn(S, me2, Head(me2.todo)) = PositionIn(S, me, Head(me.todo))
      <4>1. me2.todo = me.todo
        BY <1>3
      <4> QED
        BY <2>5, <4>1
    <3>2. me2.target = me.target /\ me2.seen = me.seen
      BY <1>3, <2>4
    <3> QED
      BY <2>1, <3>1, <3>2 DEF MadeOfSeen
  <2>9. RestSettled(T, S, me2)
    BY <1>2, <1>3, <1>8, <2>1, <2>5 DEF RestSettled
  <2> QED
    BY <2>6, <2>7, <2>8, <2>9
<1>13. Goes(T, nx, me, me2)
  <2>1. \A t \in me2.seen : t \in T \cup me.rows \cup me.seen
    BY <1>3, <1>4 DEF View
  <2> QED
    BY <1>3, <2>1 DEF Goes
<1> QED
  BY <1>3, <1>9, <1>10, <1>11, <1>12, <1>13 DEF Task

LinkedTo(me, t) == [t EXCEPT !.position_id = me.target]

\* v is the trade as it was loaded, u as it is.
TradeLinked(me, v, u) ==
  Write([me EXCEPT !.seen = (@ \ {v}) \cup {LinkedTo(me, v)}], {LinkedTo(me, u)})

LEMMA LinkSound ==
  ASSUME NEW T, NEW S, NEW nx, NEW own, NEW me, Tables(T, S, nx, own), Task(T, S, nx, me, own),
         me.at = "link", NEW v \in me.seen, NEW u \in View(T, me), u.id = v.id,
         NEW me2, me2 = TradeLinked(me, v, u)
  PROVE  /\ Task(T, S, nx, me2, own) /\ Goes(T, nx, me, me2)
         /\ me2.written = me.written \cup {u.id}
         /\ me2.positions = me.positions
<1>1. PICK pa : pa = Head(me.todo)
  OBVIOUS
<1>2. /\ DOMAIN me = MeFields /\ Todo(me) /\ me.at \in Late /\ me.at \in Works /\ me.at \notin Early
      /\ pa \in me.zone /\ pa \in Pairs /\ pa \in InTodo(me)
      /\ IsLedger(me.seen) /\ \A t \in me.seen : t.trade_type \in TradeTypes
  <2>1. me.at \in Works
    BY DEF Works
  <2> QED
    BY <1>1, <2>1, AtWork
<1>3. PICK p : p = me.target
  OBVIOUS
<1>4. PICK Q : Q = {u}
  OBVIOUS
<1>5. PICK v2, u2 : v2 = [v EXCEPT !.position_id = p] /\ u2 = [u EXCEPT !.position_id = p]
  OBVIOUS
<1>6. me2 = Write([me EXCEPT !.seen = (me.seen \ {v}) \cup {v2}], {u2})
  BY <1>3, <1>5 DEF TradeLinked, LinkedTo
<1>7. /\ me2 = [f \in MeFields |-> me2[f]] /\ DOMAIN me2 = MeFields
      /\ me2.at = "link" /\ me2.kind = me.kind /\ me2.todo = me.todo
      /\ me2.loaded = me.loaded /\ me2.wanted = me.wanted /\ me2.zone = me.zone
      /\ me2.linked = me.linked
      /\ me2.quiet = me.quiet /\ me2.found = me.found
      /\ me2.positions = me.positions /\ me2.target = me.target
      /\ me2.seen = (me.seen \ {v}) \cup {v2}
  BY <1>2, <1>6 DEF MeFields, Write
<1>8. Links(T, me, me2, Q, p)
  BY <1>2, <1>4, <1>5, <1>6 DEF MeFields, Write, Links
<1> HIDE DEF MeFields
<1>9. /\ AreRows(T, nx) /\ Shape(me, nx, own) /\ nx.position \in Nat \ {0}
      /\ p \in 0..nx.position - 1
      /\ p # 0 => own[p] = pa
      /\ AreRows(me.seen, nx) /\ \A t \in me.seen : PairOf(t) = pa
  <2>1. /\ nx.position \in Nat \ {0} /\ AreRows(T, nx) /\ Shape(me, nx, own)
    BY DEF Tables, Task
  <2>2. p # 0 => p \in 1..nx.position - 1 /\ own[p] = pa
    BY <1>1, <1>3 DEF Task, Shape, HasRead
  <2>3. AreRows(me.seen, nx) /\ \A t \in me.seen : PairOf(t) = pa
    BY <1>1, <1>2 DEF Task, Shape, HasRead, Looks
  <2> QED
    BY <2>1, <2>2, <2>3
<1>10. AreRows(View(T, me), nx) /\ \A t \in me.rows : t \in View(T, me)
  BY <1>9, ViewRows DEF View
<1>11. /\ IsRow(v2, nx) /\ v2.id = v.id /\ PairOf(v2) = PairOf(v) /\ SameTrade(v, v2)
       /\ v2.position_id = p
  <2>1. IsRow(v, nx)
    BY <1>9 DEF AreRows
  <2> QED
    BY <1>5, <1>9, <2>1, RowLinked
<1>12. /\ IsRow(u2, nx) /\ u2.id = u.id /\ PairOf(u2) = PairOf(u) /\ SameTrade(u, u2)
       /\ u2.position_id = p
  <2>1. IsRow(u, nx)
    BY <1>10 DEF AreRows
  <2> QED
    BY <1>5, <1>9, <2>1, RowLinked
<1>13. LinksWithin(T, me, Q)
  <2>1. ASSUME NEW w \in T, w.id = u.id PROVE PairOf(w) \in me.zone
    BY <2>1 DEF Task, Loading
  <2>2. PairOf(u) \in me.zone
    BY <2>1 DEF View, Task, Holding
  <2> QED
    BY <1>4, <2>1, <2>2 DEF LinksWithin
<1>14. Holding(T, me2)
  BY <1>7, <1>8, <1>9, <1>13, LinksHeld DEF Task
<1>15. /\ AreRows(me2.rows, nx) /\ me2.written \subseteq 1..nx.trade - 1
       /\ \A t \in me2.rows : t.id \in me2.written
       /\ \A t \in me2.rows : t \in me.rows \/ t = u2
       /\ me2.written = me.written \cup {u.id}
  <2>1. me2.written = me.written \cup IdsOf(Q)
    BY <1>8, <1>9, LinksWrite
  <2>2. AreRows(me2.rows, nx) /\ me2.written \subseteq 1..nx.trade - 1
    BY <1>8, <1>9, LinksIs
  <2>3. /\ \A t \in me2.rows : t.id \in me2.written
        /\ \A t \in me2.rows : \/ t \in me.rows /\ t \notin Q
                               \/ \E w \in Q : t = [w EXCEPT !.position_id = p]
    BY <1>8, <1>9, LinksIs
  <2>4. IdsOf(Q) = {u.id}
    BY <1>4 DEF IdsOf
  <2> QED
    BY <1>4, <1>5, <2>1, <2>2, <2>3, <2>4
<1>16. /\ \A t \in View(T, me2) : (t \in View(T, me) /\ t # u) \/ t = u2
       /\ \A t \in View(T, me) : t = u \/ t \in View(T, me2)
       /\ u2 \in View(T, me2)
  <2>1. /\ \A t \in View(T, me2) : \/ t \in View(T, me) /\ t \notin Q
                                   \/ \E w \in Q : t = [w EXCEPT !.position_id = p]
        /\ \A t \in View(T, me) : t \in Q \/ t \in View(T, me2)
        /\ \A w \in Q : [w EXCEPT !.position_id = p] \in View(T, me2)
    BY <1>8, <1>9, LinksIs
  <2> QED
    BY <1>4, <1>5, <2>1
<1>17. InTodo(me2) = InTodo(me) /\ Todo(me2) /\ Wants(me2) = Wants(me)
  <2>1. /\ me2.todo = me.todo /\ me2.zone = me.zone /\ me2.at # "commit" /\ me.at # "commit"
        /\ me2.kind = me.kind /\ me2.loaded = me.loaded /\ me2.wanted = me.wanted
    BY <1>7
  <2>2. Todo(me)
    BY <1>2
  <2> QED
    BY <2>1, <2>2 DEF InTodo, Todo, Wants
<1>18. me2.at \in Works /\ me2.at \in Late /\ me2.at \notin Early /\ me2.at = me.at
       /\ me2.at \in Looks
  BY <1>2, <1>7 DEF Looks
<1>19. AreRows(me2.seen, nx) /\ \A t \in me2.seen : PairOf(t) = pa
  <2>1. \A t \in me2.seen : t = v2 \/ (t \in me.seen /\ t # v)
    BY <1>7
  <2> QED
    BY <1>9, <1>11, <2>1 DEF AreRows
<1>20. Shape(me2, nx, own)
  <2>1. Asked(me2, nx)
    BY <1>7, <1>17, <1>18 DEF Task, Shape, Asked
  <2>2. Wrote(me2, nx, own)
    BY <1>7, <1>15, <1>18 DEF Task, Shape, Wrote
  <2>3. Planned(me2)
    BY <1>7, <1>17, <1>18 DEF Task, Shape, Planned
  <2>4. HasRead(me2, nx, own)
    <3>1. HasRead(me, nx, own) /\ me.at = "link" /\ Head(me2.todo) = pa
      BY <1>1, <1>7 DEF Task, Shape
    <3> QED
      BY <1>1, <1>7, <1>18, <1>19, <3>1 DEF HasRead
  <2> QED
    BY <1>7, <2>1, <2>2, <2>3, <2>4 DEF Shape
<1>21. Loading(T, me2)
  <2>1. \A t \in me2.seen : \E w \in me.seen : w.id = t.id
    BY <1>7, <1>11
  <2> QED
    BY <1>7, <2>1 DEF Task, Loading
<1>22. ASSUME me.quiet
       PROVE  SeenStill(T, me2) /\ MadeOfSeen(S, me2) /\ RestSettled(T, S, me2)
  <2>1. SeenStill(T, me) /\ MadeOfSeen(S, me) /\ RestSettled(T, S, me)
    BY <1>22 DEF Task, Fresh
  <2>2. /\ \A t \in me.seen : \E w \in View(T, me) : Alike(t, w)
        /\ \A w \in View(T, me) : PairOf(w) = pa => \E t \in me.seen : Alike(t, w)
    BY <1>1, <1>2, <2>1 DEF SeenStill, Looks
  <2>3. Alike(v, u)
    <3>1. PICK w \in View(T, me) : Alike(v, w)
      BY <2>2
    <3>2. w = u
      BY <1>10, <3>1 DEF Alike, AreRows
    <3> QED
      BY <3>1, <3>2
  <2>4. Alike(v2, u2) /\ PairOf(u) = pa
    BY <1>9, <1>11, <1>12, <2>3 DEF Alike, SameTrade
  <2>5. ASSUME NEW t \in me2.seen PROVE \E w \in View(T, me2) : Alike(t, w)
    <3>1. CASE t = v2
      BY <1>16, <2>4, <3>1
    <3>2. CASE t \in me.seen /\ t # v
      <4>1. PICK w \in View(T, me) : Alike(t, w)
        BY <2>2, <3>2
      <4>2. w # u
        BY <1>9, <3>2, <4>1 DEF Alike, AreRows
      <4> QED
        BY <1>16, <4>1, <4>2
    <3> QED
      BY <1>7, <3>1, <3>2
  <2>6. ASSUME NEW w \in View(T, me2), PairOf(w) = pa PROVE \E t \in me2.seen : Alike(t, w)
    <3>1. CASE w = u2
      BY <1>7, <2>4, <3>1
    <3>2. CASE w \in View(T, me) /\ w # u
      <4>1. PICK t \in me.seen : Alike(t, w)
        BY <2>2, <2>6, <3>2
      <4>2. t # v
        BY <1>10, <3>2, <4>1 DEF Alike, AreRows
      <4> QED
        BY <1>7, <4>1, <4>2
    <3> QED
      BY <1>16, <3>1, <3>2
  <2>7. SeenStill(T, me2)
    <3>1. Head(me2.todo) = pa
      BY <1>1, <1>7
    <3> QED
      BY <2>5, <2>6, <3>1 DEF SeenStill
  <2>8. \A qb : PositionIn(S, me2, qb) = PositionIn(S, me, qb)
    BY <1>7 DEF PositionIn
  <2>9. Replay(me2.seen) = Replay(me.seen)
    <3>1. IsLedger(me2.seen)
      BY <1>9, <1>19, RowsReplay DEF Tables
    <3>2. \A t : t.id = t.id /\ SameTrade(t, t)
      BY DEF SameTrade
    <3>3. v2.id = v.id /\ SameTrade(v, v2)
      BY <1>11
    <3>4. SameTrades(me.seen, me2.seen)
      BY <1>7, <3>2, <3>3 DEF SameTrades
    <3> QED
      BY <1>2, <3>1, <3>4, SameTradesReplayAlike
  <2>10. MadeOfSeen(S, me2)
    <3>1. PICK row : row = PositionIn(S, me, pa)
      OBVIOUS
    <3>2. /\ row.id = me.target
          /\ me.target = 0 <=> me.seen = {}
          /\ me.target = 0 => row = NoRow
          /\ me.target # 0 => IsPosition(Replay(me.seen)) /\ row.book = Saved(Replay(me.seen))
      BY <1>1, <2>1, <3>1 DEF MadeOfSeen
    <3>3. PositionIn(S, me2, Head(me2.todo)) = row /\ me2.target = me.target
      BY <1>1, <1>7, <2>8, <3>1
    <3>4. me.seen # {} /\ me2.seen # {}
      BY <1>7
    <3> QED
      BY <2>9, <3>2, <3>3, <3>4 DEF MadeOfSeen
  <2>11. RestSettled(T, S, me2)
    <3> SUFFICES ASSUME NEW qb \in me2.zone \ InTodo(me2)
                 PROVE  SettledIn(View(T, me2), PositionIn(S, me2, qb), qb)
      BY DEF RestSettled
    <3>1. SettledIn(View(T, me), PositionIn(S, me, qb), qb)
      BY <1>2, <1>7, <1>17, <2>1 DEF RestSettled
    <3>2. qb \in Pairs /\ qb # pa
      BY <1>2, <1>7, <1>17 DEF Task, Shape, Asked
    <3>3. \A w \in Q : PairOf(w) # qb
      BY <1>4, <2>4, <3>2
    <3>4. LedgerOf(View(T, me2), qb[1], qb[2]) = LedgerOf(View(T, me), qb[1], qb[2])
      BY <1>8, <1>9, <3>2, <3>3, LinksElsewhere
    <3> QED
      BY <2>8, <3>1, <3>4 DEF SettledIn
  <2> QED
    BY <2>7, <2>10, <2>11
<1>23. Fresh(T, S, me2)
  <2>1. me.quiet => LinkedStill(T, me2) /\ FoundStill(S, me2)
    <3>1. me.at \in Works \ {"find"}
      BY <1>2
    <3> QED
      BY <1>7, <3>1 DEF Task, Shape, HasRead, Fresh, LinkedStill, FoundStill
  <2> QED
    BY <1>7, <1>18, <1>22, <2>1 DEF Fresh
<1>24. Goes(T, nx, me, me2)
  <2>1. u \in T \cup me.rows /\ u2.id = u.id
    BY <1>12 DEF View
  <2>2. \A t \in me2.rows : \E w \in T \cup me.rows : w.id = t.id
    BY <1>15, <2>1
  <2>3. \A t \in me2.seen : \E w \in me.seen : w.id = t.id
    BY <1>7, <1>11
  <2> QED
    BY <1>7, <2>2, <2>3 DEF Goes
<1> QED
  BY <1>7, <1>14, <1>15, <1>20, <1>21, <1>23, <1>24 DEF Task

\* Every trade it has seen refers to the position, so the pair is in order.
LEMMA LinkedSound ==
  ASSUME NEW T, NEW S, NEW nx, NEW own, NEW me, Tables(T, S, nx, own), Task(T, S, nx, me, own),
         me.at = "link", \A t \in me.seen : t.position_id = me.target,
         NEW me2, me2 = Done(me)
  PROVE  /\ Task(T, S, nx, me2, own) /\ Goes(T, nx, me, me2)
         /\ me2.written = me.written /\ me2.positions = me.positions
<1>1. PICK pa : pa = Head(me.todo)
  OBVIOUS
<1>2. /\ Todo(me) /\ me.at \in Late /\ me.at \in Works /\ pa \in me.zone /\ pa \in Pairs
      /\ IsLedger(me.seen) /\ \A t \in me.seen : t.trade_type \in TradeTypes
  <2>1. me.at \in Works
    BY DEF Works
  <2> QED
    BY <1>1, <2>1, AtWork
<1>3. PICK p : p = me.target
  OBVIOUS
<1>4. p # 0 => own[p] = pa
  BY <1>1, <1>3 DEF Task, Shape, HasRead
<1>5. ASSUME me.quiet PROVE SettledIn(View(T, me), PositionIn(S, me, pa), pa)
  <2>1. SeenStill(T, me) /\ MadeOfSeen(S, me)
    BY <1>5 DEF Task, Fresh
  <2>2. /\ \A t \in me.seen : \E u \in View(T, me) : Alike(t, u)
        /\ \A u \in View(T, me) : PairOf(u) = pa => \E t \in me.seen : Alike(t, u)
        /\ \A t \in me.seen : PairOf(t) = pa
    BY <1>1, <1>2, <2>1 DEF SeenStill, Task, Shape, HasRead, Looks
  <2>3. PICK ledger : ledger = LedgerOf(View(T, me), pa[1], pa[2])
    OBVIOUS
  <2>4. ledger = {t \in View(T, me) : PairOf(t) = pa}
    BY <1>2, <2>3, LedgerPairs
  <2>5. IsLedger(ledger)
    <3>1. AreRows(View(T, me), nx)
      BY ViewRows DEF Task, Tables
    <3>2. AreRows(ledger, nx)
      BY <2>4, <3>1, SomeRows
    <3> QED
      BY <3>2, RowsReplay DEF Tables
  <2>6. ASSUME NEW u \in ledger
        PROVE  u.position_id = p /\ \E t \in me.seen : u.id = t.id /\ SameTrade(t, u)
    <3>1. PICK t \in me.seen : Alike(t, u)
      BY <2>2, <2>4
    <3>2. t.position_id = p /\ PairOf(t) = pa
      BY <1>3, <2>2
    <3> QED
      BY <1>4, <3>1, <3>2 DEF Alike
  <2>7. ASSUME NEW t \in me.seen PROVE \E u \in ledger : u.id = t.id /\ SameTrade(t, u)
    <3>1. PICK u \in View(T, me) : Alike(t, u)
      BY <2>2
    <3> QED
      BY <2>2, <2>4, <3>1 DEF Alike
  <2>8. Replay(me.seen) = Replay(ledger) /\ (ledger = {} <=> me.seen = {})
    <3>1. SameTrades(me.seen, ledger)
      BY <2>6, <2>7 DEF SameTrades
    <3> QED
      BY <1>2, <2>5, <2>6, <2>7, <3>1, SameTradesReplayAlike
  <2>9. PICK row : row = PositionIn(S, me, pa)
    OBVIOUS
  <2>10. /\ row.id = p
         /\ p = 0 <=> me.seen = {}
         /\ p = 0 => row = NoRow
         /\ p # 0 => IsPosition(Replay(me.seen)) /\ row.book = Saved(Replay(me.seen))
    BY <1>1, <1>3, <2>1, <2>9 DEF MadeOfSeen
  <2>11. /\ ~IsFailure(Replay(ledger))
         /\ row.book = (IF IsPosition(Replay(ledger)) THEN Saved(Replay(ledger)) ELSE NoBook)
    <3>1. CASE p = 0
      <4>1. Replay(ledger) = NoBook /\ row.book = NoBook
        BY <2>8, <2>10, <3>1, EmptyReplay DEF NoRow
      <4> QED
        BY <4>1 DEF NoBook, IsFailure, IsPosition
    <3>2. CASE p # 0
      BY <2>8, <2>10, <3>2 DEF IsFailure, IsPosition
    <3> QED
      BY <3>1, <3>2
  <2>12. (row.id = 0) = (ledger = {}) /\ \A t \in ledger : t.position_id = row.id
    BY <2>6, <2>8, <2>10
  <2>13. SettledIn(View(T, me), row, pa)
    BY <2>3, <2>11, <2>12 DEF SettledIn
  <2> QED
    BY <2>9, <2>13
<1>6. Ready(T, S, nx, me, own)
  <2>1. me.quiet => \A qb \in me.zone \ InTodo(me) : SettledIn(View(T, me), PositionIn(S, me, qb), qb)
    BY <1>2 DEF Task, Fresh, RestSettled
  <2> QED
    BY <1>1, <1>2, <1>5, <2>1 DEF Ready, Task, Loading, Shape, HasRead
<1>7. /\ Task(T, S, nx, me2, own)
      /\ me2.zone = me.zone /\ me2.quiet = me.quiet /\ me2.loaded = me.loaded
      /\ me2.linked = me.linked
      /\ me2.rows = me.rows /\ me2.written = me.written /\ me2.positions = me.positions
      /\ me2.seen = {}
  BY <1>6, DoneSound
<1> QED
  BY <1>7 DEF Goes

-----------------------------------------------------------------------------
(***************************************************************************)
(* What the statements make of the order a request works in.               *)
(***************************************************************************)
LEMMA ValidateOrderly ==
  ASSUME NEW T, NEW S, NEW nx, NEW own, NEW me, Tables(T, S, nx, own), Task(T, S, nx, me, own),
         NEW d, Orderly(T, S, nx, me, own, d), me.at = "validate",
         NEW me2, me2 = [me EXCEPT !.at = IF me.kind = "register" THEN "insert" ELSE "update"]
  PROVE  Orderly(T, S, nx, me2, own, d)
<1>1. DOMAIN me = MeFields /\ me.linked = {}
  BY NoneLinked DEF Task, Shape
<1>2. ASSUME Task(T, S, nx, Alone(me), own)
      PROVE  Task(T, S, nx, Alone(me2), own)
  <2>1. PICK you : you = Alone(me)
    OBVIOUS
  <2>2. PICK you2 : you2 = [you EXCEPT !.at = IF you.kind = "register" THEN "insert" ELSE "update"]
    OBVIOUS
  <2>3. you.at = "validate"
    BY <1>1, <2>1, AloneIs
  <2>4. Task(T, S, nx, you2, own)
    BY <1>2, <2>1, <2>2, <2>3, ValidateSound
  <2>5. you2 = Alone(me2)
    BY <1>1, <2>1, <2>2 DEF Alone, Wants, MeFields
  <2> QED
    BY <2>4, <2>5
<1>3. Carries(T, me, me2)
  BY <1>1 DEF Carries, Wants, MeFields, Early, Late, Works, Unlinks
<1>4. Grows(nx, nx, own, own)
  BY DEF Tables, Grows
<1> QED
  BY <1>2, <1>3, <1>4, CarriesOrderly

LEMMA StartOrderly ==
  ASSUME NEW T, NEW S, NEW nx, NEW own, NEW me, Tables(T, S, nx, own), Task(T, S, nx, me, own),
         NEW d, Orderly(T, S, nx, me, own, d), me.at = "start",
         NEW me2, me2 = Started(me)
  PROVE  Orderly(T, S, nx, me2, own, d)
<1>1. DOMAIN me = MeFields /\ me.kind = "recalculate" /\ me.seen = {} /\ me.linked = {}
  BY NoneLinked DEF Task, Shape, Asked, HasRead, Early, Works, Looks
<1>2. ASSUME Task(T, S, nx, Alone(me), own)
      PROVE  Task(T, S, nx, Alone(me2), own)
  <2>1. PICK you : you = Alone(me)
    OBVIOUS
  <2>2. Task(T, S, nx, Started(you), own)
    BY <1>1, <1>2, <2>1, AloneIs, StartSound
  <2>3. Started(you) = Alone(me2)
    BY <1>1, <2>1 DEF Alone, Wants, MeFields, Started
  <2> QED
    BY <2>2, <2>3
<1>3. Carries(T, me, me2)
  <2>1. /\ me2.kind = me.kind /\ me2.loaded = me.loaded /\ me2.wanted = me.wanted
        /\ me2.zone = me.zone /\ me2.rows = me.rows /\ me2.written = me.written
        /\ me2.positions = me.positions /\ me2.seen = me.seen
        /\ me2.linked = {} /\ me2.at = "list" /\ me2.todo = <<PairOf(me.loaded)>>
    BY <1>1 DEF MeFields, Started
  <2>2. InTodo(me2) = {PairOf(me.loaded)}
    BY <2>1 DEF InTodo
  <2> QED
    BY <1>1, <2>1, <2>2 DEF Carries, Wants, Early, Late, Works, Unlinks
<1>4. Grows(nx, nx, own, own)
  BY DEF Tables, Grows
<1> QED
  BY <1>2, <1>3, <1>4, CarriesOrderly

LEMMA ListOrderly ==
  ASSUME NEW T, NEW S, NEW nx, NEW own, NEW me, Tables(T, S, nx, own), Task(T, S, nx, me, own),
         NEW d, Orderly(T, S, nx, me, own, d), me.at = "list",
         NEW listed, listed = ListedAgain(T, me),
         NEW held, held = Held(me, listed),
         NEW me2, me2 = ListFound(me, listed, held)
  PROVE  Orderly(T, S, nx, me2, own, d)
<1>1. DOMAIN me = MeFields /\ me.at \in Late /\ me.linked = {}
  BY NoneLinked DEF Task, Shape, Late
<1>2. ASSUME Task(T, S, nx, Alone(me), own)
      PROVE  Task(T, S, nx, Alone(me2), own)
  <2>1. PICK you : you = Alone(me)
    OBVIOUS
  <2>2. you.at = "list" /\ listed = ListedAgain(T, you) /\ held = Held(you, listed)
    <3>1. you.at = me.at /\ you.todo = me.todo /\ you.seen = me.seen /\ View(T, you) = View(T, me)
      BY <1>1, <2>1, AloneIs, AloneSees
    <3> QED
      BY <3>1 DEF ListedAgain, Held
  <2>3. Task(T, S, nx, ListFound(you, listed, held), own)
    BY <1>2, <2>1, <2>2, ListSound
  <2>4. ListFound(you, listed, held) = Alone(me2)
    BY <1>1, <2>1 DEF Alone, Wants, MeFields, ListFound
  <2> QED
    BY <2>3, <2>4
<1>3. Carries(T, me, me2)
  <2>1. /\ me2.kind = me.kind /\ me2.loaded = me.loaded /\ me2.wanted = me.wanted
        /\ me2.zone = me.zone /\ me2.rows = me.rows /\ me2.written = me.written
        /\ me2.linked = {} /\ me2.at = "find" /\ me2.todo = me.todo /\ me2.positions = me.positions
        /\ me2.seen = held \cup {u \in listed : ~\E t \in held : t.id = u.id}
    BY <1>1 DEF MeFields, ListFound
  <2>2. me2.seen \subseteq me.seen \cup View(T, me)
    BY <2>1 DEF Held, ListedAgain, LedgerOf
  <2> QED
    BY <1>1, <2>1, <2>2 DEF Carries, Wants, Early, Late, Works, Unlinks, InTodo
<1>4. Grows(nx, nx, own, own)
  BY DEF Tables, Grows
<1> QED
  BY <1>2, <1>3, <1>4, CarriesOrderly

LEMMA FindOrderly ==
  ASSUME NEW T, NEW S, NEW nx, NEW own, NEW me, Tables(T, S, nx, own), Task(T, S, nx, me, own),
         NEW d, Orderly(T, S, nx, me, own, d),
         me.at = "find", NEW found, found = PositionIn(S, me, Head(me.todo)),
         NEW book, book = Replay(me.seen), NEW place,
         \/ book = NoBook /\ found.id # 0 /\ place = "unlink"
         \/ IsPosition(book) /\ found.id = 0 /\ place = "insert-position"
         \/ IsPosition(book) /\ found.id # 0 /\ place = "update-position",
         NEW me2, me2 = FoundOnto(me, found, book, place)
  PROVE  Orderly(T, S, nx, me2, own, d)
<1>1. DOMAIN me = MeFields /\ me.at \in Late /\ me.linked = {}
  BY NoneLinked DEF Task, Shape, Late, Works
<1>2. ASSUME Task(T, S, nx, Alone(me), own)
      PROVE  Task(T, S, nx, Alone(me2), own)
  <2>1. PICK you : you = Alone(me)
    OBVIOUS
  <2>2. you.at = "find" /\ book = Replay(you.seen)
    BY <1>1, <2>1, AloneIs
  <2>3. Task(T, S, nx, FoundOnto(you, found, book, place), own)
    BY <1>1, <1>2, <2>1, <2>2, AloneSees, FindSound
  <2>4. FoundOnto(you, found, book, place) = Alone(me2)
    BY <1>1, <2>1 DEF Alone, Wants, MeFields, FoundOnto
  <2> QED
    BY <2>3, <2>4
<1>3. Carries(T, me, me2)
  <2>1. /\ me2.kind = me.kind /\ me2.loaded = me.loaded /\ me2.wanted = me.wanted
        /\ me2.zone = me.zone /\ me2.rows = me.rows /\ me2.written = me.written
        /\ me2.linked = {} /\ me2.at = place /\ me2.todo = me.todo /\ me2.seen = me.seen
        /\ me2.positions = me.positions
    BY <1>1 DEF MeFields, FoundOnto
  <2> QED
    BY <1>1, <2>1 DEF Carries, Wants, Early, Late, Works, Unlinks, InTodo
<1>4. Grows(nx, nx, own, own)
  BY DEF Tables, Grows
<1> QED
  BY <1>2, <1>3, <1>4, CarriesOrderly

\* The pair is done.
LEMMA DoneIs ==
  ASSUME NEW me, DOMAIN me = MeFields, Todo(me), me.at # "commit", NEW me2, me2 = Done(me)
  PROVE  /\ me2.kind = me.kind /\ me2.loaded = me.loaded /\ me2.wanted = me.wanted
         /\ me2.zone = me.zone /\ me2.rows = me.rows /\ me2.written = me.written
         /\ me2.positions = me.positions /\ me2.linked = me.linked
         /\ me2.seen = {} /\ me2.at \in {"list", "commit"} /\ InTodo(me2) \subseteq InTodo(me)
         /\ Len(me.todo) = 1 => me2.at = "commit"
         /\ Done(Alone(me)) = Alone(me2)
<1>2. /\ me2.kind = me.kind /\ me2.loaded = me.loaded /\ me2.wanted = me.wanted
      /\ me2.zone = me.zone /\ me2.rows = me.rows /\ me2.written = me.written
      /\ me2.positions = me.positions /\ me2.linked = me.linked
      /\ me2.seen = {} /\ me2.at = (IF Len(me.todo) = 1 THEN "commit" ELSE "list")
      /\ me2.todo = Tail(me.todo)
  BY DEF MeFields, Done
<1>3. InTodo(me2) \subseteq InTodo(me)
  <2>1. InTodo(me) = {Head(me.todo)} \cup {Tail(me.todo)[i] : i \in DOMAIN Tail(me.todo)}
    BY TodoIs
  <2> QED
    BY <1>2, <2>1 DEF InTodo
<1>4. Done(Alone(me)) = Alone(me2)
  BY DEF Alone, Wants, MeFields, Done
<1> QED
  BY <1>2, <1>3, <1>4

LEMMA NothingFoundOrderly ==
  ASSUME NEW T, NEW S, NEW nx, NEW own, NEW me, Tables(T, S, nx, own), Task(T, S, nx, me, own),
         NEW d, Orderly(T, S, nx, me, own, d),
         me.at = "find", PositionIn(S, me, Head(me.todo)).id = 0, Replay(me.seen) = NoBook,
         NEW me2, me2 = Done(me)
  PROVE  Orderly(T, S, nx, me2, own, d)
<1>1. /\ DOMAIN me = MeFields /\ me.at \in Late /\ Todo(me) /\ me.at # "commit"
      /\ me.linked = {}
  BY NoneLinked DEF Task, Shape, Planned, Late, Works
<1>2. ASSUME Task(T, S, nx, Alone(me), own)
      PROVE  Task(T, S, nx, Alone(me2), own)
  <2>1. PICK you : you = Alone(me)
    OBVIOUS
  <2>2. you.at = "find" /\ Replay(you.seen) = NoBook
    BY <1>1, <2>1, AloneIs
  <2>3. Task(T, S, nx, Done(you), own)
    BY <1>1, <1>2, <2>1, <2>2, AloneSees, NothingFoundSound
  <2> QED
    BY <1>1, <2>1, <2>3, DoneIs
<1>3. Carries(T, me, me2)
  <2>1. /\ me2.kind = me.kind /\ me2.loaded = me.loaded /\ me2.wanted = me.wanted
        /\ me2.zone = me.zone /\ me2.rows = me.rows /\ me2.written = me.written
        /\ me2.positions = me.positions /\ me2.linked = {}
        /\ me2.seen = {} /\ me2.at \in {"list", "commit"} /\ InTodo(me2) \subseteq InTodo(me)
    BY <1>1, DoneIs
  <2> QED
    BY <1>1, <2>1 DEF Carries, Wants, Early, Late, Works, Unlinks
<1>4. Grows(nx, nx, own, own)
  BY DEF Tables, Grows
<1> QED
  BY <1>2, <1>3, <1>4, CarriesOrderly

\* What it writes of itself is no matter of its zone.
LEMMA WritesAlone ==
  ASSUME NEW me, DOMAIN me = MeFields, NEW at, NEW todo, NEW target, NEW rows, NEW written,
         NEW seen, NEW positions, NEW zone, NEW quiet
  PROVE  /\ [[me EXCEPT !.at = at, !.target = target, !.positions = positions]
              EXCEPT !.zone = zone, !.quiet = quiet]
            = [[me EXCEPT !.zone = zone, !.quiet = quiet]
                EXCEPT !.at = at, !.target = target, !.positions = positions]
         /\ [[me EXCEPT !.at = at, !.rows = rows, !.written = written, !.seen = seen,
                        !.todo = todo]
              EXCEPT !.zone = zone, !.quiet = quiet]
            = [[me EXCEPT !.zone = zone, !.quiet = quiet]
                EXCEPT !.at = at, !.rows = rows, !.written = written, !.seen = seen,
                       !.todo = todo]
         /\ [[me EXCEPT !.at = at, !.rows = rows, !.written = written]
              EXCEPT !.zone = zone, !.quiet = quiet]
            = [[me EXCEPT !.zone = zone, !.quiet = quiet]
                EXCEPT !.at = at, !.rows = rows, !.written = written]
         /\ [[me EXCEPT !.seen = seen, !.rows = rows, !.written = written]
              EXCEPT !.zone = zone, !.quiet = quiet]
            = [[me EXCEPT !.zone = zone, !.quiet = quiet]
                EXCEPT !.seen = seen, !.rows = rows, !.written = written]
BY DEF MeFields

LEMMA InsertPositionOrderly ==
  ASSUME NEW T, NEW S, NEW nx, NEW own, NEW me, Tables(T, S, nx, own), Task(T, S, nx, me, own),
         NEW d, Orderly(T, S, nx, me, own, d),
         me.at = "insert-position", NEW pa, pa = Head(me.todo), S[pa].id = 0,
         NEW row, row = NewPosition(me, nx),
         NEW me2, me2 = PositionInserted(me, nx, pa, row),
         NEW nx2, nx2.trade = nx.trade, nx2.position = nx.position + 1,
         NEW own2, own2 = Owned(own, nx, pa)
  PROVE  Orderly(T, S, nx2, me2, own2, d)
<1>1. DOMAIN me = MeFields /\ me.at \in Late /\ me.linked = {}
  BY NoneLinked DEF Task, Shape, Late, Works
<1>2. ASSUME Task(T, S, nx, Alone(me), own)
      PROVE  Task(T, S, nx2, Alone(me2), own2)
  <2>1. PICK you : you = Alone(me)
    OBVIOUS
  <2>2. you.at = "insert-position" /\ pa = Head(you.todo) /\ row = NewPosition(you, nx)
    BY <1>1, <2>1, AloneIs DEF NewPosition
  <2>3. Task(T, S, nx2, PositionInserted(you, nx, pa, row), own2)
    BY <1>2, <2>1, <2>2, InsertPositionSound
  <2>4. PositionInserted(you, nx, pa, row) = Alone(me2)
    BY <1>1, <2>1 DEF Alone, Wants, MeFields, PositionInserted
  <2> QED
    BY <2>3, <2>4
<1>3. Carries(T, me, me2)
  <2>1. /\ me2.kind = me.kind /\ me2.loaded = me.loaded /\ me2.wanted = me.wanted
        /\ me2.zone = me.zone /\ me2.rows = me.rows /\ me2.written = me.written
        /\ me2.linked = {} /\ me2.at = "sync" /\ me2.todo = me.todo /\ me2.seen = me.seen
        /\ me2.found = me.found
    BY <1>1 DEF MeFields, PositionInserted
  <2>2. DOMAIN me2.positions = DOMAIN me.positions \cup {pa} /\ me.found.id = 0
    <3>1. DOMAIN me2.positions = DOMAIN me.positions \cup {pa}
      BY InsertPositionSound
    <3>2. me.found.id = 0
      BY DEF Task, Shape, HasRead
    <3> QED
      BY <3>1, <3>2
  <2>3. pa \in InTodo(me) /\ me.at \in Works
    BY AtWork DEF Works
  <2> QED
    BY <1>1, <2>1, <2>2, <2>3 DEF Carries, Wants, Early, Late, Works, Unlinks, InTodo
<1>4. Grows(nx, nx2, own, own2)
  BY InsertPositionSound
<1> QED
  BY <1>2, <1>3, <1>4, CarriesOrderly

LEMMA UpdatePositionOrderly ==
  ASSUME NEW T, NEW S, NEW nx, NEW own, NEW me, Tables(T, S, nx, own), Task(T, S, nx, me, own),
         NEW d, Orderly(T, S, nx, me, own, d),
         me.at = "update-position", NEW pa, pa = Head(me.todo), S[pa].id = me.found.id,
         NEW changes, changes = Changes(me),
         NEW row, row = ChangedPosition(S, me, pa, changes),
         NEW me2, me2 = PositionUpdated(S, me, pa, changes, row)
  PROVE  Orderly(T, S, nx, me2, own, d)
<1>1. DOMAIN me = MeFields /\ me.at \in Late /\ me.linked = {}
  BY NoneLinked DEF Task, Shape, Late, Works
<1>2. ASSUME Task(T, S, nx, Alone(me), own)
      PROVE  Task(T, S, nx, Alone(me2), own)
  <2>1. PICK you : you = Alone(me)
    OBVIOUS
  <2>2. /\ you.at = "update-position" /\ pa = Head(you.todo) /\ S[pa].id = you.found.id
        /\ changes = Changes(you) /\ row = ChangedPosition(S, you, pa, changes)
    <3>1. /\ you.at = me.at /\ you.todo = me.todo /\ you.found = me.found
          /\ you.calculated = me.calculated
      BY <1>1, <2>1, AloneIs
    <3> QED
      BY <3>1 DEF Changes, ChangedPosition
  <2>3. Task(T, S, nx, PositionUpdated(S, you, pa, changes, row), own)
    BY <1>2, <2>1, <2>2, UpdatePositionSound
  <2>4. PositionUpdated(S, you, pa, changes, row) = Alone(me2)
    <3>1. PICK rows : rows = IF changes = {} THEN me.positions
                             ELSE [qb \in DOMAIN me.positions \cup {pa} |->
                                     IF qb = pa THEN row ELSE me.positions[qb]]
      OBVIOUS
    <3>2. me2 = [me EXCEPT !.at = "sync", !.target = S[pa].id, !.positions = rows]
      BY <3>1 DEF PositionUpdated
    <3>3. you.positions = me.positions
      BY <1>1, <2>1, AloneIs
    <3>4. PositionUpdated(S, you, pa, changes, row) =
            [you EXCEPT !.at = "sync", !.target = S[pa].id, !.positions = rows]
      BY <3>1, <3>3 DEF PositionUpdated
    <3>5. PICK zone : zone = Wants(me)
      OBVIOUS
    <3>6. Wants(me2) = zone
      BY <1>1, <3>2, <3>5 DEF Wants, MeFields
    <3>7. you = [me EXCEPT !.zone = zone, !.quiet = TRUE]
          /\ Alone(me2) = [me2 EXCEPT !.zone = zone, !.quiet = TRUE]
      BY <2>1, <3>5, <3>6 DEF Alone
    <3>8. [[me EXCEPT !.at = "sync", !.target = S[pa].id, !.positions = rows]
             EXCEPT !.zone = zone, !.quiet = TRUE]
          = [[me EXCEPT !.zone = zone, !.quiet = TRUE]
               EXCEPT !.at = "sync", !.target = S[pa].id, !.positions = rows]
      BY <1>1, WritesAlone
    <3> QED
      BY ONLY <3>2, <3>4, <3>7, <3>8
  <2> QED
    BY <2>3, <2>4
<1>3. Carries(T, me, me2)
  <2>1. /\ me2.kind = me.kind /\ me2.loaded = me.loaded /\ me2.wanted = me.wanted
        /\ me2.zone = me.zone /\ me2.rows = me.rows /\ me2.written = me.written
        /\ me2.linked = {} /\ me2.at = "sync" /\ me2.todo = me.todo /\ me2.seen = me.seen
        /\ me2.found = me.found /\ me2.target = me.found.id
    BY <1>1 DEF MeFields, PositionUpdated
  <2>2. DOMAIN me2.positions \subseteq DOMAIN me.positions \cup {pa}
    <3>1. DOMAIN me2.positions = (IF changes = {} THEN DOMAIN me.positions
                                  ELSE DOMAIN me.positions \cup {pa})
      BY UpdatePositionSound
    <3> QED
      BY <3>1
  <2>3. pa \in InTodo(me) /\ me.at \in Works
    BY AtWork DEF Works
  <2>4. Wants(me2) = Wants(me) /\ InTodo(me2) = InTodo(me)
    BY <2>1 DEF Wants, InTodo
  <2>5. /\ me2.at \notin Early /\ me2.at \in Unlinks
        /\ me2.at \notin {"clear", "delete-position"}
    BY <2>1 DEF Early, Unlinks
  <2> QED
    BY <1>1, <2>1, <2>2, <2>3, <2>4, <2>5 DEF Carries
<1>4. Grows(nx, nx, own, own)
  BY DEF Tables, Grows
<1> QED
  BY <1>2, <1>3, <1>4, CarriesOrderly

LEMMA DeletePositionOrderly ==
  ASSUME NEW T, NEW S, NEW nx, NEW own, NEW me, Tables(T, S, nx, own), Task(T, S, nx, me, own),
         NEW d, Orderly(T, S, nx, me, own, d),
         me.at = "delete-position", NEW pa, pa = Head(me.todo),
         NEW me2, me2 = PositionDeleted(S, me, pa)
  PROVE  Orderly(T, S, nx, me2, own, d)
<1>1. DOMAIN me = MeFields /\ me.at \in Late /\ me.linked = {}
  BY NoneLinked DEF Task, Shape, Late, Works
<1>2. ASSUME Task(T, S, nx, Alone(me), own)
      PROVE  Task(T, S, nx, Alone(me2), own)
  <2>1. PICK you : you = Alone(me)
    OBVIOUS
  <2>2. you.at = "delete-position" /\ pa = Head(you.todo)
    BY <1>1, <2>1, AloneIs
  <2>3. Task(T, S, nx, PositionDeleted(S, you, pa), own)
    BY <1>2, <2>1, <2>2, DeletePositionSound
  <2>4. PositionDeleted(S, you, pa) = Alone(me2)
    BY <1>1, <2>1 DEF Alone, Wants, MeFields, PositionDeleted
  <2> QED
    BY <2>3, <2>4
<1>3. Carries(T, me, me2)
  <2>1. /\ me2.kind = me.kind /\ me2.loaded = me.loaded /\ me2.wanted = me.wanted
        /\ me2.zone = me.zone /\ me2.rows = me.rows /\ me2.written = me.written
        /\ me2.linked = {} /\ me2.at = "sync" /\ me2.todo = me.todo /\ me2.seen = me.seen
        /\ me2.target = 0
    BY <1>1 DEF MeFields, PositionDeleted
  <2>2. DOMAIN me2.positions \subseteq DOMAIN me.positions \cup {pa}
    BY DeletePositionSound
  <2>3. pa \in InTodo(me) /\ me.at \in Works
    BY AtWork DEF Works
  <2> QED
    BY <1>1, <2>1, <2>2, <2>3 DEF Carries, Wants, Early, Late, Works, Unlinks, InTodo
<1>4. Grows(nx, nx, own, own)
  BY DEF Tables, Grows
<1> QED
  BY <1>2, <1>3, <1>4, CarriesOrderly

LEMMA SyncListOrderly ==
  ASSUME NEW T, NEW S, NEW nx, NEW own, NEW me, Tables(T, S, nx, own), Task(T, S, nx, me, own),
         NEW d, Orderly(T, S, nx, me, own, d),
         me.at = "sync",
         NEW listed, listed = ListedAgain(T, me),
         NEW held, held = Held(me, listed),
         NEW me2, me2 = ListSynced(me, listed, held)
  PROVE  Orderly(T, S, nx, me2, own, d)
<1>1. DOMAIN me = MeFields /\ me.at \in Late /\ me.linked = {}
  BY NoneLinked DEF Task, Shape, Late, Works
<1>2. ASSUME Task(T, S, nx, Alone(me), own)
      PROVE  Task(T, S, nx, Alone(me2), own)
  <2>1. PICK you : you = Alone(me)
    OBVIOUS
  <2>2. you.at = "sync" /\ listed = ListedAgain(T, you) /\ held = Held(you, listed)
    <3>1. you.at = me.at /\ you.todo = me.todo /\ you.seen = me.seen /\ View(T, you) = View(T, me)
      BY <1>1, <2>1, AloneIs, AloneSees
    <3> QED
      BY <3>1 DEF ListedAgain, Held
  <2>3. Task(T, S, nx, ListSynced(you, listed, held), own)
    BY <1>2, <2>1, <2>2, SyncListSound
  <2>4. ListSynced(you, listed, held) = Alone(me2)
    BY <1>1, <2>1 DEF Alone, Wants, MeFields, ListSynced
  <2> QED
    BY <2>3, <2>4
<1>3. Carries(T, me, me2)
  <2>1. /\ me2.kind = me.kind /\ me2.loaded = me.loaded /\ me2.wanted = me.wanted
        /\ me2.zone = me.zone /\ me2.rows = me.rows /\ me2.written = me.written
        /\ me2.linked = {} /\ me2.at = "link" /\ me2.todo = me.todo /\ me2.positions = me.positions
        /\ me2.found = me.found /\ me2.target = me.target
        /\ me2.seen = held \cup {u \in listed : ~\E t \in held : t.id = u.id}
    BY <1>1 DEF MeFields, ListSynced
  <2>2. held \subseteq me.seen /\ listed \subseteq View(T, me)
    BY DEF Held, ListedAgain, LedgerOf
  <2>3. me.target = 0 \/ me.found.id \in {0, me.target}
    BY DEF Orderly, Placed
  <2> QED
    BY <1>1, <2>1, <2>2, <2>3 DEF Carries, Wants, Early, Late, Works, Unlinks, InTodo
<1>4. Grows(nx, nx, own, own)
  BY DEF Tables, Grows
<1> QED
  BY <1>2, <1>3, <1>4, CarriesOrderly

LEMMA InsertOrderly ==
  ASSUME NEW T, NEW S, NEW nx, NEW own, NEW me, Tables(T, S, nx, own), Task(T, S, nx, me, own),
         NEW d, Orderly(T, S, nx, me, own, d),
         me.at = "insert",
         NEW row, row = RowInserted(me, nx),
         NEW me2, me2 = Inserted(me, row),
         NEW nx2, nx2.trade = nx.trade + 1, nx2.position = nx.position
  PROVE  Orderly(T, S, nx2, me2, own, d)
<1>1. /\ DOMAIN me = MeFields /\ me.kind = "register" /\ me.seen = {} /\ DOMAIN me.positions = {}
      /\ Fields(me.wanted) /\ me.wanted.position_id = 0 /\ me.linked = {}
  BY NoneLinked DEF Task, Shape, Asked, Wrote, HasRead, Early, Works, Looks
<1>2. PairOf(row) = PairOf(me.wanted) /\ row.position_id = 0
  <2>1. PICK r : r = [me.wanted EXCEPT !.id = nx.trade]
    OBVIOUS
  <2>2. Fields(r) /\ PairOf(r) = PairOf(me.wanted) /\ r.position_id = 0
    BY <1>1, <2>1 DEF Fields, PairOf, RowFields
  <2>3. row = Stored(r)
    BY <2>1 DEF RowInserted
  <2> QED
    BY <2>2, <2>3, StoredFields
<1>3. /\ me2.kind = me.kind /\ me2.loaded = me.loaded /\ me2.wanted = row
      /\ me2.zone = me.zone /\ me2.rows = {row} /\ me2.written = {row.id}
      /\ me2.seen = {} /\ me2.at = "list" /\ me2.todo = <<PairOf(row)>>
      /\ me2.positions = me.positions /\ me2.linked = {}
  BY <1>1 DEF MeFields, Inserted
<1>4. Wants(me2) = {PairOf(row)} /\ Wants(me) = {PairOf(row)} /\ InTodo(me2) = {PairOf(row)}
  BY <1>1, <1>2, <1>3 DEF Wants, InTodo
<1>5. InPlace(T, me2, d) /\ Refers(T, me2, own, d) /\ Placed(me2, d)
  BY <1>1, <1>2, <1>3, <1>4 DEF InPlace, Refers, Placed, Early
<1>6. ASSUME NEW a \in Pairs, Calm(me2, d), Wants(me2) = {a}
      PROVE  Lone(T, S, nx2, me2, own, a)
  <2>1. PICK you : you = Alone(me)
    OBVIOUS
  <2>2. Task(T, S, nx, you, own)
    BY <1>3, <1>4, <1>6, <2>1 DEF Orderly, Lone, Calm
  <2>3. you.at = "insert" /\ row = RowInserted(you, nx)
    <3>1. DOMAIN me = MeFields
      BY <1>1
    <3>2. you.at = me.at /\ you.wanted = me.wanted
      BY <2>1, <3>1, AloneIs
    <3> QED
      BY <3>2 DEF RowInserted
  <2>4. Task(T, S, nx2, Inserted(you, row), own)
    BY <2>2, <2>3, InsertSound
  <2>5. Inserted(you, row) = Alone(me2)
    <3>1. Alone(me2) = [me2 EXCEPT !.zone = {PairOf(row)}, !.quiet = TRUE]
      BY <1>4 DEF Alone
    <3>2. you = [me EXCEPT !.zone = {PairOf(row)}, !.quiet = TRUE]
      BY <1>4, <2>1 DEF Alone
    <3> QED
      BY <1>1, <3>1, <3>2 DEF MeFields, Inserted
  <2> QED
    BY <1>1, <1>3, <1>4, <1>6, <2>4, <2>5 DEF Lone
<1> QED
  BY <1>5, <1>6 DEF Orderly

\* The row is of the pair it was of, or of the pair it is moved to.
LEMMA UpdatedIs ==
  ASSUME NEW T, NEW S, NEW nx, NEW own, NEW me, Tables(T, S, nx, own), Task(T, S, nx, me, own),
         me.at = "update", NEW t \in View(T, me), t.id = me.loaded.id,
         NEW row, row = RowUpdated(me, t)
  PROVE  /\ row.id = t.id /\ row.position_id = t.position_id /\ t \in T
         /\ PairOf(row) \in {PairOf(t), PairOf(me.wanted)}
<1>1. /\ me.kind = "update" /\ Fields(me.wanted) /\ IsRow(me.loaded, nx)
      /\ me.rows = {} /\ me.written = {} /\ me.wanted.id = me.loaded.id
      /\ me.wanted.position_id = me.loaded.position_id
      /\ me.wanted.portfolio_id = me.loaded.portfolio_id
  BY DEF Task, Shape, Wrote, Asked, Early
<1>2. t \in T /\ IsRow(t, nx)
  BY <1>1 DEF View, Tables, AreRows
<1>3. t.portfolio_id = me.loaded.portfolio_id
  BY <1>2 DEF Task, Loading
<1>4. PICK merged : merged = Merged(t, me.loaded, me.wanted)
  OBVIOUS
<1>5. /\ merged = [f \in RowFields |-> merged[f]]
      /\ merged.id = t.id /\ merged.portfolio_id = t.portfolio_id
      /\ merged.position_id = t.position_id
      /\ merged.trade_type \in TradeTypes /\ merged.executed_at \in Nat
      /\ merged.asset_id = IF me.wanted.asset_id # me.loaded.asset_id
                           THEN me.wanted.asset_id ELSE t.asset_id
  BY <1>1, <1>2, <1>3, <1>4 DEF Merged, IsRow, Fields, RowFields
<1>6. PairOf(merged) \in {PairOf(t), PairOf(me.wanted)}
  BY <1>1, <1>3, <1>5 DEF PairOf
<1>7. Fields(merged)
  BY <1>1, <1>2, <1>5, <1>6 DEF Fields, IsRow
<1> QED
  BY <1>2, <1>4, <1>5, <1>6, <1>7, StoredFields DEF RowUpdated

LEMMA UpdateOrderly ==
  ASSUME NEW T, NEW S, NEW nx, NEW own, NEW me, Tables(T, S, nx, own), Task(T, S, nx, me, own),
         NEW d, Orderly(T, S, nx, me, own, d),
         me.at = "update", NEW t \in View(T, me), t.id = me.loaded.id,
         NEW row, row = RowUpdated(me, t),
         NEW me2, me2 = Updated(me, t, row)
  PROVE  Orderly(T, S, nx, me2, own, d)
<1>1. /\ DOMAIN me = MeFields /\ me.kind = "update" /\ me.seen = {} /\ me.rows = {}
      /\ me.at \in Early /\ DOMAIN me.positions = {} /\ me.linked = {}
  BY NoneLinked DEF Task, Shape, Wrote, Asked, HasRead, Early, Works, Looks
<1>2. /\ row.id = t.id /\ row.position_id = t.position_id /\ t \in T
      /\ PairOf(row) \in {PairOf(t), PairOf(me.wanted)}
  BY UpdatedIs
<1>3. PICK todo : todo = <<PairOf(row)>> \o (IF row.asset_id = me.loaded.asset_id THEN <<>>
                                             ELSE <<PairOf(me.loaded)>>)
  OBVIOUS
<1>12. PICK rows, written, seen :
         /\ rows = IF me.wanted = me.loaded THEN {} ELSE {row}
         /\ written = IF me.wanted = me.loaded THEN {} ELSE {t.id}
         /\ seen = IF me.wanted = me.loaded THEN {t} ELSE {}
  OBVIOUS
<1>4. me2 = [me EXCEPT !.at = "list", !.rows = rows, !.written = written, !.seen = seen,
                       !.todo = todo]
  BY <1>3, <1>12 DEF Updated
<1>5. /\ me2.kind = me.kind /\ me2.loaded = me.loaded /\ me2.wanted = me.wanted
      /\ me2.zone = me.zone /\ me2.seen = seen /\ me2.at = "list" /\ me2.todo = todo
      /\ me2.positions = me.positions /\ me2.rows = rows /\ me2.written = written
      /\ rows \subseteq {row} /\ written \subseteq {t.id} /\ \A r \in rows : r.id \in written
      /\ me2.linked = {}
  BY <1>1, <1>2, <1>4, <1>12 DEF MeFields
<1>6. Wants(me2) = Wants(me) /\ Wants(me) = {PairOf(me.loaded), PairOf(me.wanted)}
      /\ Spoilt(me2, d) = Spoilt(me, d)
  BY <1>1, <1>5 DEF Wants, Spoilt
<1>13. Together(PairOf(t), PairOf(me.loaded), me, d)
  BY <1>1, <1>2 DEF Orderly, InPlace
<1>7. PairOf(t) \in Wants(me) \cup Spoilt(me, d)
  BY <1>6, <1>13 DEF Together
<1>8. InTodo(me2) \subseteq {PairOf(row), PairOf(me.loaded)}
  <2>1. todo = <<PairOf(row)>> \/ todo = <<PairOf(row), PairOf(me.loaded)>>
    BY <1>3, OneAndOne
  <2> QED
    BY <1>5, <2>1 DEF InTodo
<1>9. InPlace(T, me2, d)
  <2>1. PairOf(row) \in Wants(me2) \cup Spoilt(me2, d)
    BY <1>2, <1>6, <1>7
  <2>2. \A r \in me2.rows : r = row
    BY <1>5
  <2>3. ASSUME NEW u \in View(T, me2), NEW v \in me2.seen, u.id = v.id PROVE u = v
    <3>1. v = t /\ rows = {} /\ u \in T
      BY <1>5, <1>12, <2>3 DEF View
    <3> QED
      BY <1>2, <2>3, <3>1 DEF Tables, AreRows
  <2> QED
    BY <1>5, <1>6, <1>8, <2>1, <2>2, <2>3 DEF InPlace, Early, Together
<1>10. Refers(T, me2, own, d) /\ Placed(me2, d)
  BY <1>1, <1>2, <1>5 DEF Refers, Placed
<1>11. ASSUME NEW a \in Pairs, Calm(me2, d), Wants(me2) = {a}
       PROVE  Lone(T, S, nx, me2, own, a)
  <2>1. PICK you : you = Alone(me)
    OBVIOUS
  <2>2. Lone(T, S, nx, me, own, a) /\ Task(T, S, nx, you, own)
    BY <1>5, <1>6, <1>11, <2>1 DEF Orderly, Lone, Calm
  <2>3. you.at = "update" /\ t \in View(T, you) /\ t.id = you.loaded.id /\ row = RowUpdated(you, t)
    <3>1. you.at = me.at /\ View(T, you) = View(T, me) /\ you.loaded = me.loaded
          /\ you.wanted = me.wanted
      <4>1. DOMAIN me = MeFields
        BY <1>1
      <4> QED
        BY <2>1, <4>1, AloneIs, AloneSees
    <3> QED
      BY <3>1 DEF RowUpdated
  <2>4. Task(T, S, nx, Updated(you, t, row), own)
    BY <2>2, <2>3, UpdateSound
  <2>5. Updated(you, t, row) = Alone(me2)
    <3>1. Alone(me2) = [me2 EXCEPT !.zone = {a}, !.quiet = TRUE]
      BY <1>11 DEF Alone
    <3>2. you = [me EXCEPT !.zone = {a}, !.quiet = TRUE]
      BY <1>6, <1>11, <2>1 DEF Alone
    <3>3. you.loaded = me.loaded /\ you.wanted = me.wanted
      BY <1>1, <2>1, AloneIs
    <3>4. Updated(you, t, row) =
            [you EXCEPT !.at = "list", !.rows = rows, !.written = written, !.seen = seen,
                        !.todo = todo]
      BY <1>3, <1>12, <3>3 DEF Updated
    <3> QED
      <4>1. [[me EXCEPT !.at = "list", !.rows = rows, !.written = written, !.seen = seen,
                        !.todo = todo]
               EXCEPT !.zone = {a}, !.quiet = TRUE]
            = [[me EXCEPT !.zone = {a}, !.quiet = TRUE]
                 EXCEPT !.at = "list", !.rows = rows, !.written = written, !.seen = seen,
                        !.todo = todo]
        BY <1>1, WritesAlone
      <4> QED
        BY ONLY <1>4, <3>1, <3>2, <3>4, <4>1
  <2>6. PairOf(row) = a
    <3>1. a \notin Spoilt(me, d) /\ PairOf(me.wanted) = a /\ PairOf(me.loaded) = a
      BY <1>5, <1>6, <1>11 DEF Spoilt, Calm
    <3> QED
      BY <1>2, <1>13, <3>1 DEF Together
  <2>7. \E u \in T : u.id = me2.loaded.id /\ PairOf(u) = a
    BY <1>1, <1>5, <2>2 DEF Lone
  <2>8. me2.written \subseteq {me2.loaded.id} /\ \A r \in me2.rows : PairOf(r) = a
    BY <1>5, <2>6, me2.loaded.id = t.id
  <2> QED
    BY <1>5, <2>4, <2>5, <2>7, <2>8 DEF Lone
<1> QED
  BY <1>9, <1>10, <1>11 DEF Orderly

LEMMA DeleteOrderly ==
  ASSUME NEW T, NEW S, NEW nx, NEW own, NEW me, Tables(T, S, nx, own), Task(T, S, nx, me, own),
         NEW d, Orderly(T, S, nx, me, own, d), me.at = "delete",
         NEW me2, me2 = Deleted(me)
  PROVE  Orderly(T, S, nx, me2, own, d)
<1>1. /\ DOMAIN me = MeFields /\ me.kind = "delete" /\ me.seen = {} /\ me.rows = {}
      /\ DOMAIN me.positions = {} /\ me.linked = {}
  BY NoneLinked DEF Task, Shape, Wrote, Asked, HasRead, Early, Works, Looks
<1>2. /\ me2.kind = me.kind /\ me2.loaded = me.loaded /\ me2.wanted = me.wanted
      /\ me2.zone = me.zone /\ me2.seen = {} /\ me2.at = "list" /\ me2.rows = {}
      /\ me2.todo = <<PairOf(me.loaded)>> /\ me2.written = {me.loaded.id}
      /\ me2.positions = me.positions /\ me2.linked = {}
  BY <1>1 DEF MeFields, Deleted
<1>3. InTodo(me2) = {PairOf(me.loaded)} /\ Wants(me2) = Wants(me) /\ PairOf(me.loaded) \in Wants(me)
  BY <1>1, <1>2 DEF InTodo, Wants
<1>4. InPlace(T, me2, d) /\ Refers(T, me2, own, d) /\ Placed(me2, d)
  BY <1>1, <1>2, <1>3 DEF InPlace, Refers, Placed, Early
<1>5. ASSUME NEW a \in Pairs, Calm(me2, d), Wants(me2) = {a}
      PROVE  Lone(T, S, nx, me2, own, a)
  <2>1. PICK you : you = Alone(me)
    OBVIOUS
  <2>2. Lone(T, S, nx, me, own, a) /\ Task(T, S, nx, you, own)
    BY <1>2, <1>3, <1>5, <2>1 DEF Orderly, Lone, Calm
  <2>3. Task(T, S, nx, Deleted(you), own)
    BY <1>1, <2>1, <2>2, AloneIs, DeleteSound
  <2>4. Deleted(you) = Alone(me2)
    BY <1>1, <2>1 DEF Alone, Wants, MeFields, Deleted
  <2>5. \E u \in T : u.id = me2.loaded.id /\ PairOf(u) = a
    BY <1>1, <1>2, <2>2 DEF Lone
  <2> QED
    BY <1>2, <2>3, <2>4, <2>5 DEF Lone
<1> QED
  BY <1>4, <1>5 DEF Orderly

LEMMA UnlinkTradeOrderly ==
  ASSUME NEW T, NEW S, NEW nx, NEW own, NEW me, Tables(T, S, nx, own), Task(T, S, nx, me, own),
         NEW d, Orderly(T, S, nx, me, own, d), me.at = "clear",
         NEW t \in View(T, me), t.id \in me.linked,
         NEW me2, me2 = TradeUnlinked(me, t)
  PROVE  Orderly(T, S, nx, me2, own, d)
<1>1. DOMAIN me = MeFields /\ me.at \in Late /\ me.seen = {}
  BY DEF Task, Shape, HasRead, Late, Works
<1>2. PICK Q : Q = {t}
  OBVIOUS
<1>3. /\ me2.at = me.at /\ me2.kind = me.kind /\ me2.todo = me.todo
      /\ me2.loaded = me.loaded /\ me2.wanted = me.wanted /\ me2.zone = me.zone
      /\ me2.seen = {} /\ me2.positions = me.positions
      /\ Links(T, me, me2, Q, 0)
  BY <1>1, <1>2, TradeUnlinkedIs
<1>4. /\ nx.position \in Nat \ {0} /\ 0 \in 0..nx.position - 1 /\ AreRows(T, nx)
      /\ Shape(me, nx, own) /\ AreRows(View(T, me), nx)
  BY ViewRows DEF Tables, Task
<1>5. \A u \in me2.rows : u.position_id # 0 => u \in me.rows
  <2>1. [t EXCEPT !.position_id = 0].position_id = 0
    <3>1. IsRow(t, nx)
      BY <1>4 DEF AreRows
    <3> QED
      BY <1>4, <3>1, RowLinked
  <2>2. \A u \in me2.rows : u \in me.rows \/ \E v \in Q : u = [v EXCEPT !.position_id = 0]
    BY <1>3, <1>4, LinksIs
  <2> QED
    BY <1>2, <2>1, <2>2
<1>6. Wants(me2) = Wants(me) /\ InTodo(me2) = InTodo(me) /\ Spoilt(me2, d) = Spoilt(me, d)
  BY <1>3 DEF Wants, InTodo, Spoilt
<1>7. InPlace(T, me2, d)
  BY <1>1, <1>3, <1>5, <1>6 DEF Orderly, InPlace, Early
<1>8. Refers(T, me2, own, d) /\ Placed(me2, d)
  BY <1>3, <1>5, <1>6 DEF Orderly, Refers, Placed
<1>9. ASSUME NEW a \in Pairs, Calm(me2, d), Wants(me2) = {a} PROVE FALSE
  BY <1>3, <1>6, <1>9 DEF Orderly, Lone, Calm
<1> QED
  BY <1>7, <1>8, <1>9 DEF Orderly

LEMMA UnlinkedOrderly ==
  ASSUME NEW T, NEW S, NEW nx, NEW own, NEW me, Tables(T, S, nx, own), Task(T, S, nx, me, own),
         NEW d, Orderly(T, S, nx, me, own, d), me.at = "clear", me.linked = {},
         NEW me2, me2 = [me EXCEPT !.at = "delete-position"]
  PROVE  Orderly(T, S, nx, me2, own, d)
<1>1. DOMAIN me = MeFields /\ me.at \in Late /\ me.seen = {}
  BY DEF Task, Shape, HasRead, Late, Works
<1>2. /\ me2.at = "delete-position" /\ me2.kind = me.kind /\ me2.todo = me.todo
      /\ me2.loaded = me.loaded /\ me2.wanted = me.wanted /\ me2.zone = me.zone
      /\ me2.seen = {} /\ me2.found = me.found /\ me2.linked = {}
      /\ me2.rows = me.rows /\ me2.written = me.written /\ me2.positions = me.positions
  BY <1>1 DEF MeFields
<1>3. Wants(me2) = Wants(me) /\ InTodo(me2) = InTodo(me) /\ Spoilt(me2, d) = Spoilt(me, d)
  BY <1>2 DEF Wants, InTodo, Spoilt
<1>4. InPlace(T, me2, d) /\ Refers(T, me2, own, d) /\ Placed(me2, d)
  BY <1>1, <1>2, <1>3 DEF Orderly, InPlace, Refers, Placed, Early
<1>5. ASSUME NEW a \in Pairs, Calm(me2, d), Wants(me2) = {a}
      PROVE  Lone(T, S, nx, me2, own, a)
  <2>1. PICK you : you = Alone(me)
    OBVIOUS
  <2>2. Lone(T, S, nx, me, own, a) /\ Task(T, S, nx, you, own)
    BY <1>2, <1>3, <1>5, <2>1 DEF Orderly, Lone, Calm
  <2>3. you.at = "clear" /\ you.linked = {}
    BY <1>1, <2>1, AloneIs
  <2>4. Task(T, S, nx, [you EXCEPT !.at = "delete-position"], own)
    BY <2>2, <2>3, UnlinkedSound
  <2>5. [you EXCEPT !.at = "delete-position"] = Alone(me2)
    BY <1>1, <1>3, <2>1 DEF Alone, MeFields
  <2> QED
    BY <1>2, <2>2, <2>4, <2>5 DEF Lone, Unlinks
<1> QED
  BY <1>4, <1>5 DEF Orderly

LEMMA LinkOrderly ==
  ASSUME NEW T, NEW S, NEW nx, NEW own, NEW me, Tables(T, S, nx, own), Task(T, S, nx, me, own),
         NEW d, Orderly(T, S, nx, me, own, d), me.at = "link",
         NEW v \in me.seen, NEW u \in View(T, me), u.id = v.id,
         NEW me2, me2 = TradeLinked(me, v, u)
  PROVE  Orderly(T, S, nx, me2, own, d)
<1>1. PICK pa : pa = Head(me.todo)
  OBVIOUS
<1>2. /\ DOMAIN me = MeFields /\ Todo(me) /\ me.at \in Late /\ me.at \in Works /\ me.at # "commit"
      /\ pa \in InTodo(me) /\ \A t \in me.seen : PairOf(t) = pa
      /\ me.linked = {}
  <2>1. me.at \in Works /\ me.at \in Looks
    BY DEF Works, Looks
  <2> QED
    BY <1>1, <2>1, AtWork, NoneLinked DEF Task, Shape, HasRead
<1>3. PICK p : p = me.target
  OBVIOUS
<1>4. PICK Q : Q = {u}
  OBVIOUS
<1>5. PICK v2, u2 : v2 = [v EXCEPT !.position_id = p] /\ u2 = [u EXCEPT !.position_id = p]
  OBVIOUS
<1>6. PICK rows, written, seen :
        /\ rows = {t \in me.rows : t.id \notin {w.id : w \in {u2}}} \cup {u2}
        /\ written = me.written \cup {w.id : w \in {u2}}
        /\ seen = (me.seen \ {v}) \cup {v2}
  OBVIOUS
<1>7. me2 = [me EXCEPT !.seen = seen, !.rows = rows, !.written = written]
  BY <1>2, <1>3, <1>5, <1>6 DEF TradeLinked, LinkedTo, Write, MeFields
<1>8. /\ me2.kind = me.kind /\ me2.loaded = me.loaded /\ me2.wanted = me.wanted
      /\ me2.zone = me.zone /\ me2.seen = seen /\ me2.at = "link" /\ me2.todo = me.todo
      /\ me2.found = me.found /\ me2.target = me.target /\ me2.linked = {}
      /\ me2.rows = rows /\ me2.written = written /\ me2.positions = me.positions
  BY <1>2, <1>7 DEF MeFields
<1>9. Links(T, me, me2, Q, p)
  BY <1>4, <1>5, <1>6, <1>8 DEF Links
<1>10. /\ nx.position \in Nat \ {0} /\ AreRows(T, nx) /\ AreRows(View(T, me), nx)
       /\ Shape(me, nx, own) /\ p \in 0..nx.position - 1
       /\ p # 0 => own[p] = pa
       /\ AreRows(me.seen, nx)
  <2>1. nx.position \in Nat \ {0} /\ AreRows(T, nx) /\ Shape(me, nx, own)
    BY DEF Tables, Task
  <2>2. p # 0 => p \in 1..nx.position - 1 /\ own[p] = pa
    BY <1>1, <1>3 DEF Task, Shape, HasRead
  <2>3. AreRows(me.seen, nx)
    BY DEF Task, Shape, HasRead
  <2> QED
    BY <2>1, <2>2, <2>3, ViewRows
<1>11. /\ PairOf(v2) = PairOf(v) /\ v2.id = v.id
       /\ PairOf(u2) = PairOf(u) /\ u2.id = u.id /\ u2.position_id = p
  <2>1. IsRow(u, nx) /\ IsRow(v, nx)
    BY <1>10 DEF AreRows
  <2> QED
    BY <1>5, <1>10, <2>1, RowLinked
<1>12. /\ \A t \in rows : t \in me.rows \/ t = u2
       /\ \A t \in View(T, me2) : t \in View(T, me) \/ t = u2
  <2>1. \A t \in View(T, me2) : t \in View(T, me) \/ \E w \in Q : t = [w EXCEPT !.position_id = p]
    BY <1>9, <1>10, LinksIs
  <2> QED
    BY <1>4, <1>5, <1>6, <2>1
<1>13. Wants(me2) = Wants(me) /\ Spoilt(me2, d) = Spoilt(me, d) /\ InTodo(me2) = InTodo(me)
       /\ \A x, y : Together(x, y, me2, d) <=> Together(x, y, me, d)
  BY <1>8 DEF Wants, Spoilt, InTodo, Together
<1>14. pa \in Wants(me) \cup Spoilt(me, d)
  BY <1>2 DEF Orderly, InPlace
<1>15. Together(PairOf(u), pa, me, d)
  BY <1>2 DEF Orderly, InPlace
<1>16. InPlace(T, me2, d)
  <2>1. \A t \in me2.rows : t.position_id # 0 => PairOf(t) \in Wants(me2) \cup Spoilt(me2, d)
    <3>1. PairOf(u2) \in Wants(me) \cup Spoilt(me, d)
      BY <1>11, <1>14, <1>15 DEF Together
    <3> QED
      BY <1>8, <1>12, <1>13, <3>1 DEF Orderly, InPlace
  <2>2. ASSUME NEW w \in View(T, me2), NEW t \in me2.seen, w.id = t.id
        PROVE  Together(PairOf(w), PairOf(t), me2, d)
    <3>1. PICK t1 \in me.seen : t1.id = t.id /\ PairOf(t1) = PairOf(t)
      BY <1>6, <1>8, <1>11
    <3>2. PICK w1 \in View(T, me) : w1.id = w.id /\ PairOf(w1) = PairOf(w)
      BY <1>11, <1>12
    <3>3. Together(PairOf(w1), PairOf(t1), me, d)
      BY <2>2, <3>1, <3>2 DEF Orderly, InPlace
    <3> QED
      BY <1>13, <3>1, <3>2, <3>3
  <2> QED
    BY <1>2, <1>8, <1>13, <2>1, <2>2 DEF Orderly, InPlace, Early
<1>17. Refers(T, me2, own, d) /\ Placed(me2, d)
  <2>1. u2.position_id # 0 => own[u2.position_id] = PairOf(u2) \/ own[u2.position_id] \in Spoilt(me, d)
    BY <1>10, <1>11, <1>15 DEF Together
  <2> QED
    BY <1>8, <1>12, <1>13, <2>1 DEF Orderly, Refers, Placed
<1>18. ASSUME NEW a \in Pairs, Calm(me2, d), Wants(me2) = {a}
       PROVE  Lone(T, S, nx, me2, own, a)
  <2>1. PICK you : you = Alone(me)
    OBVIOUS
  <2>2. Lone(T, S, nx, me, own, a) /\ Task(T, S, nx, you, own)
    BY <1>8, <1>13, <1>18, <2>1 DEF Orderly, Lone, Calm
  <2>3. /\ DOMAIN you = MeFields /\ you.at = "link" /\ you.target = p
        /\ you.rows = me.rows /\ you.written = me.written /\ you.seen = me.seen
        /\ View(T, you) = View(T, me)
    <3>1. /\ DOMAIN you = MeFields /\ you.at = me.at /\ you.target = me.target
          /\ you.rows = me.rows /\ you.written = me.written /\ you.seen = me.seen
      BY <1>2, <2>1, AloneIs
    <3> QED
      BY <1>3, <3>1 DEF View
  <2>4. Task(T, S, nx, TradeLinked(you, v, u), own)
    BY <2>2, <2>3, LinkSound
  <2>5. TradeLinked(you, v, u) = Alone(me2)
    <3>1. TradeLinked(you, v, u) = [you EXCEPT !.seen = seen, !.rows = rows, !.written = written]
      BY <1>5, <1>6, <2>3 DEF TradeLinked, LinkedTo, Write, MeFields
    <3>2. Alone(me2) = [me2 EXCEPT !.zone = {a}, !.quiet = TRUE]
          /\ you = [me EXCEPT !.zone = {a}, !.quiet = TRUE]
      BY <1>13, <1>18, <2>1 DEF Alone
    <3>3. [[me EXCEPT !.seen = seen, !.rows = rows, !.written = written]
             EXCEPT !.zone = {a}, !.quiet = TRUE]
          = [[me EXCEPT !.zone = {a}, !.quiet = TRUE]
               EXCEPT !.seen = seen, !.rows = rows, !.written = written]
      BY <1>2, WritesAlone
    <3> QED
      BY ONLY <1>7, <3>1, <3>2, <3>3
  <2>6. me2.kind \in {"update", "delete"} => \E w \in T : w.id = me2.loaded.id /\ PairOf(w) = a
    BY <1>8, <2>2 DEF Lone
  <2> QED
    BY <1>8, <2>4, <2>5, <2>6 DEF Lone, Unlinks
<1> QED
  BY <1>16, <1>17, <1>18 DEF Orderly

\* The pair an undamaged request recalculates.
LEMMA LoneTodo ==
  ASSUME NEW T, NEW S, NEW nx, NEW own, NEW me, DOMAIN me = MeFields, NEW a, Wants(me) = {a},
         Lone(T, S, nx, me, own, a), me.at \in Late, me.at # "commit"
  PROVE  me.todo = <<a>> /\ Head(me.todo) = a /\ a \in InTodo(me)
<1>1. PICK you : you = Alone(me)
  OBVIOUS
<1>2. you.at = me.at /\ you.zone = {a} /\ you.todo = me.todo
  BY <1>1, AloneIs
<1>3. Todo(you) /\ you.at # "commit"
  BY <1>1, <1>2 DEF Lone, Task, Shape, Planned
<1>4. me.todo = <<a>>
  BY <1>2, <1>3 DEF Todo
<1> QED
  BY <1>4 DEF InTodo

LEMMA LoadLinkedOrderly ==
  ASSUME NEW T, NEW S, NEW nx, NEW own, NEW me, Tables(T, S, nx, own), Task(T, S, nx, me, own),
         NEW d, Orderly(T, S, nx, me, own, d), \A pa \in Pairs \ d : SettledIn(T, S[pa], pa),
         me.at = "unlink",
         NEW Q, Q = Referring(T, me),
         NEW joint, me.zone \subseteq joint, joint \subseteq Pairs,
         \A t \in Q : PairOf(t) \in joint,
         NEW quiet,
         NEW me2, me2 = Loaded(me, IdsOf(Q), joint, quiet)
  PROVE  Orderly(T, S, nx, me2, own, d)
<1>1. DOMAIN me = MeFields /\ me.at \in Late /\ me.at \in Works /\ me.seen = {}
  BY DEF Task, Shape, HasRead, Late, Works
<1>2. /\ DOMAIN me2 = MeFields
      /\ me2.at = "clear" /\ me2.kind = me.kind /\ me2.todo = me.todo
      /\ me2.loaded = me.loaded /\ me2.wanted = me.wanted /\ me2.zone = joint
      /\ me2.seen = {} /\ me2.found = me.found /\ me2.linked = IdsOf(Q)
      /\ me2.rows = me.rows /\ me2.written = me.written /\ me2.positions = me.positions
  BY <1>1, LoadedIs
<1>3. /\ Wants(me2) = Wants(me) /\ InTodo(me2) = InTodo(me)
      /\ Spoilt(me, d) \subseteq Spoilt(me2, d)
  BY <1>2 DEF Wants, InTodo, Spoilt
<1>4. InPlace(T, me2, d) /\ Refers(T, me2, own, d) /\ Placed(me2, d)
  BY <1>1, <1>2, <1>3 DEF Orderly, InPlace, Refers, Placed, Early
<1>5. ASSUME NEW a \in Pairs, Calm(me2, d), Wants(me2) = {a}
      PROVE  Lone(T, S, nx, me2, own, a)
  <2>1. PICK you : you = Alone(me)
    OBVIOUS
  <2>2. Lone(T, S, nx, me, own, a) /\ Task(T, S, nx, you, own) /\ Wants(me) = {a}
    BY <1>2, <1>3, <1>5, <2>1 DEF Orderly, Lone, Calm
  <2>3. /\ DOMAIN you = MeFields /\ you.at = "unlink" /\ you.zone = {a} /\ you.quiet = TRUE
        /\ you.found = me.found /\ you.todo = me.todo /\ you.seen = {}
        /\ View(T, you) = View(T, me)
    <3>1. you.zone = Wants(me) /\ you.quiet = TRUE /\ you.at = me.at /\ you.found = me.found
          /\ you.todo = me.todo /\ you.seen = me.seen /\ DOMAIN you = MeFields
      BY <1>1, <2>1, AloneIs
    <3>2. View(T, you) = View(T, me)
      BY <1>1, <2>1, AloneSees
    <3> QED
      BY <1>1, <2>2, <3>1, <3>2
  <2>4. Head(me.todo) = a
    BY <1>1, <2>2, LoneTodo
  <2>5. \A u \in View(T, me) : PairOf(u) # a
    <3>1. SeenStill(T, you)
      BY <2>2, <2>3 DEF Task, Fresh
    <3> QED
      BY <1>1, <2>3, <2>4, <3>1 DEF SeenStill
  <2>6. me.found.id # 0 /\ own[me.found.id] = a
    <3>1. me.found.id # 0 /\ IsPositionRow(me.found, a, nx, own)
      BY <1>1, <2>4 DEF Task, Shape, HasRead
    <3> QED
      BY <3>1 DEF IsPositionRow, NoRow
  <2>7. ASSUME NEW t \in Q PROVE FALSE
    <3>1. t \in View(T, me) /\ t.position_id = me.found.id
      BY DEF Referring
    <3>2. \A u \in me.rows : PairOf(u) = a
      BY <2>2 DEF Lone, Unlinks
    <3>3. t \in T
      BY <2>5, <3>1, <3>2 DEF View
    <3>4. PICK b : b = PairOf(t)
      OBVIOUS
    <3>5. b \in Pairs /\ b \in joint /\ b # a
      BY <2>5, <3>1, <3>4
    <3>6. SettledIn(T, S[b], b)
      <4>1. b \notin d
        BY <1>2, <1>5, <3>5 DEF Calm
      <4> QED
        BY <3>5, <4>1
    <3>7. t \in LedgerOf(T, b[1], b[2])
      <4>1. LedgerOf(T, b[1], b[2]) = {u \in T : PairOf(u) = b}
        BY <3>5, LedgerPairs
      <4> QED
        BY <3>3, <3>4, <4>1
    <3>8. S[b].id = me.found.id
      BY <3>1, <3>6, <3>7 DEF SettledIn
    <3>9. IsPositionRow(S[b], b, nx, own)
      BY <3>5 DEF Tables
    <3> QED
      BY <2>6, <3>5, <3>8, <3>9 DEF IsPositionRow, NoRow
  <2>8. me2.linked = {} /\ IdsOf(Q) = {}
    BY <1>2, <2>7 DEF IdsOf
  <2>9. \A t \in T : t.position_id = me.found.id => t.id \in me.written
    BY <2>7 DEF Referring, View
  <2>10. Task(T, S, nx, Loaded(you, IdsOf(Q), {a}, TRUE), own)
    <3>1. Q = Referring(T, you)
      BY <2>3 DEF Referring
    <3>2. you.zone \subseteq {a} /\ {a} \subseteq Pairs /\ you.quiet /\ {a} = you.zone
      BY <2>3
    <3>3. \A t \in Q : PairOf(t) \in {a}
      BY <2>7
    <3>4. PICK one, alone : one = {a} /\ alone = Loaded(you, IdsOf(Q), one, TRUE)
      OBVIOUS
    <3>5. Task(T, S, nx, alone, own)
      BY <2>2, <2>3, <3>1, <3>2, <3>3, <3>4, LoadLinkedSound
    <3> QED
      BY <3>4, <3>5
  <2>11. Loaded(you, IdsOf(Q), {a}, TRUE) = Alone(me2)
    <3>1. PICK ids : ids = IdsOf(Q)
      OBVIOUS
    <3>2. you = [me EXCEPT !.zone = {a}, !.quiet = TRUE]
      BY <2>1, <2>2 DEF Alone
    <3>3. Alone(me2) = [me2 EXCEPT !.zone = {a}, !.quiet = TRUE]
      BY <1>5 DEF Alone
    <3>4. me2 = [me EXCEPT !.at = "clear", !.linked = ids, !.zone = joint, !.quiet = quiet]
      BY <3>1 DEF Loaded
    <3>5. [you EXCEPT !.at = "clear", !.linked = ids, !.zone = {a}, !.quiet = TRUE]
            = Alone(me2)
      BY ONLY <1>1, <3>2, <3>3, <3>4 DEF MeFields
    <3> QED
      BY <3>1, <3>5 DEF Loaded
  <2>12. me2.kind \in {"update", "delete"} => \E u \in T : u.id = me2.loaded.id /\ PairOf(u) = a
    BY <1>2, <2>2 DEF Lone
  <2>13. /\ me2.written \subseteq {me2.loaded.id} \cup {t.id : t \in me2.rows}
         /\ \A t \in me2.rows : PairOf(t) = a
    BY <1>2, <2>2 DEF Lone, Unlinks
  <2>14. Task(T, S, nx, Alone(me2), own)
    BY <2>10, <2>11
  <2> QED
    BY <1>2, <2>8, <2>9, <2>12, <2>13, <2>14 DEF Lone
<1> QED
  BY <1>4, <1>5 DEF Orderly

LEMMA LinkedOrderly ==
  ASSUME NEW T, NEW S, NEW nx, NEW own, NEW me, Tables(T, S, nx, own), Task(T, S, nx, me, own),
         NEW d, Orderly(T, S, nx, me, own, d),
         me.at = "link", \A t \in me.seen : t.position_id = me.target,
         NEW me2, me2 = Done(me)
  PROVE  Orderly(T, S, nx, me2, own, d)
<1>1. DOMAIN me = MeFields /\ me.at \in Late /\ Todo(me) /\ me.at # "commit"
      /\ me.linked = {}
  BY NoneLinked DEF Task, Shape, Planned, Late, Works
<1>2. /\ me2.kind = me.kind /\ me2.loaded = me.loaded /\ me2.wanted = me.wanted
      /\ me2.zone = me.zone /\ me2.rows = me.rows /\ me2.written = me.written
      /\ me2.positions = me.positions /\ me2.linked = {}
      /\ me2.seen = {} /\ me2.at \in {"list", "commit"} /\ InTodo(me2) \subseteq InTodo(me)
      /\ Len(me.todo) = 1 => me2.at = "commit"
      /\ Done(Alone(me)) = Alone(me2)
  BY <1>1, DoneIs
<1>3. Wants(me2) = Wants(me) /\ Spoilt(me2, d) = Spoilt(me, d)
  BY <1>2 DEF Wants, Spoilt
<1>4. InPlace(T, me2, d) /\ Refers(T, me2, own, d) /\ Placed(me2, d)
  BY <1>1, <1>2, <1>3 DEF Orderly, InPlace, Refers, Placed, Early
<1>5. ASSUME NEW a \in Pairs, Calm(me2, d), Wants(me2) = {a}
      PROVE  Lone(T, S, nx, me2, own, a)
  <2>1. PICK you : you = Alone(me)
    OBVIOUS
  <2>2. Lone(T, S, nx, me, own, a) /\ Task(T, S, nx, you, own)
    BY <1>2, <1>3, <1>5, <2>1 DEF Orderly, Lone, Calm
  <2>3. you.at = "link" /\ \A t \in you.seen : t.position_id = you.target
    <3>1. you.at = me.at /\ you.seen = me.seen /\ you.target = me.target
      BY <1>1, <2>1, AloneIs
    <3> QED
      BY <3>1
  <2>4. Task(T, S, nx, Done(you), own)
    BY <2>2, <2>3, LinkedSound
  <2>5. me2.at = "commit"
    <3>1. Wants(me) = {a} /\ Lone(T, S, nx, me, own, a)
      BY <1>3, <1>5, <2>2
    <3>2. me.todo = <<a>> /\ Head(me.todo) = a /\ a \in InTodo(me)
      BY <1>1, <3>1, LoneTodo
    <3>3. Len(me.todo) = 1
      BY <3>2
    <3> QED
      BY <1>2, <3>3
  <2>6. me2.kind \in {"update", "delete"} => \E u \in T : u.id = me2.loaded.id /\ PairOf(u) = a
    BY <1>2, <2>2 DEF Lone
  <2> QED
    BY <1>2, <2>1, <2>4, <2>5, <2>6 DEF Lone, Unlinks
<1> QED
  BY <1>4, <1>5 DEF Orderly

-----------------------------------------------------------------------------
(***************************************************************************)
(* A commit.                                                               *)
(***************************************************************************)
\* The tables after the commit of me, as it affects the rows of T.
Commits(T, S, me, T2, S2) ==
  /\ T2 = View(T, me)
  /\ S2 = [pa \in Pairs |-> PositionIn(S, me, pa)]

\* Beyond its zone a commit does nothing.
LEMMA CommitBeyond ==
  ASSUME NEW T, NEW S, NEW nx, NEW own, NEW me, Tables(T, S, nx, own), Task(T, S, nx, me, own),
         NEW T2, NEW S2, Commits(T, S, me, T2, S2)
  PROVE  /\ \A u \in T2 : PairOf(u) \notin me.zone => u \in T
         /\ \A w \in T : PairOf(w) \notin me.zone => w \in T2
         /\ \A u \in T2, w \in T : u.id = w.id =>
              /\ u.portfolio_id = w.portfolio_id
              /\ PairOf(u) = PairOf(w) \/ (PairOf(w) \in me.zone /\ PairOf(u) \in me.zone)
         /\ \A u \in T2 : u \in T \/ u.id \in me.written
         /\ \A w \in T : w \in T2 \/ w.id \in me.written
         /\ Tables(T2, S2, nx, own)
         /\ \A qb \in Pairs : qb \notin me.zone => S2[qb] = S[qb]
<1>1. /\ AreRows(T, nx) /\ AreRows(me.rows, nx) /\ \A t \in me.rows : t.id \in me.written
      /\ nx.position \in Nat \ {0}
      /\ Holding(T, me) /\ Shape(me, nx, own)
  BY DEF Tables, Task, Shape, Wrote
<1>3. /\ \A u \in T2 : u \in T \/ u \in me.rows
      /\ \A w \in T : w \in T2 \/ w.id \in me.written
  BY DEF Commits, View
<1>4. \A u \in T2 : PairOf(u) \notin me.zone => u \in T
  BY <1>1, <1>3 DEF Holding
<1>5. \A w \in T : PairOf(w) \notin me.zone => w \in T2
  BY <1>1, <1>3 DEF Holding
<1>6. ASSUME NEW u \in T2, NEW w \in T, u.id = w.id
      PROVE  /\ u.portfolio_id = w.portfolio_id
             /\ PairOf(u) = PairOf(w) \/ (PairOf(w) \in me.zone /\ PairOf(u) \in me.zone)
  <2>1. CASE u \in T
    <3>1. u = w
      BY <1>1, <1>6, <2>1 DEF AreRows
    <3> QED
      BY <3>1
  <2>2. CASE u \in me.rows
    BY <1>1, <1>6, <2>2 DEF Holding
  <2> QED
    BY <1>3, <2>1, <2>2
<1>7. Tables(T2, S2, nx, own)
  <2>1. AreRows(T2, nx)
    BY <1>1, ViewRows DEF Commits
  <2>2. \A pa \in Pairs : IsPositionRow(S2[pa], pa, nx, own)
    BY <1>1, PositionInIs DEF Commits
  <2> QED
    BY <2>1, <2>2 DEF Tables
<1>8. \A qb \in Pairs : qb \notin me.zone => S2[qb] = S[qb]
  BY <1>1 DEF Commits, PositionIn, Shape, Wrote
<1>9. \A u \in T2 : u \in T \/ u.id \in me.written
  BY <1>1, <1>3
<1> QED
  BY <1>3, <1>4, <1>5, <1>6, <1>7, <1>8, <1>9

\* A pair is in order as long as its rows stay.
LEMMA SettledBeyond ==
  ASSUME NEW qb \in Pairs, NEW row, NEW V, SettledIn(V, row, qb), NEW V2,
         \A u : PairOf(u) = qb => (u \in V2 <=> u \in V)
  PROVE  SettledIn(V2, row, qb)
<1>1. LedgerOf(V, qb[1], qb[2]) = {t \in V : PairOf(t) = qb}
  BY LedgerPairs
<1>2. LedgerOf(V2, qb[1], qb[2]) = {t \in V2 : PairOf(t) = qb}
  BY LedgerPairs
<1>3. {t \in V : PairOf(t) = qb} = {t \in V2 : PairOf(t) = qb}
  OBVIOUS
<1> QED
  BY <1>1, <1>2, <1>3 DEF SettledIn

LEMMA OthersCommit ==
  ASSUME NEW T, NEW S, NEW nx, NEW own, NEW me, Tables(T, S, nx, own), Task(T, S, nx, me, own),
         NEW T2, NEW S2, Commits(T, S, me, T2, S2),
         NEW you, Task(T, S, nx, you, own), Apart(T, me, you), Apart(T, you, me)
  PROVE  Task(T2, S2, nx, you, own)
<1>1. /\ AreRows(T, nx) /\ \A t \in you.rows : t.id \in you.written
      /\ me.written \cap you.written = {}
      /\ Holding(T, you) /\ Loading(T, you) /\ Shape(you, nx, own) /\ Fresh(T, S, you)
      /\ Unheard(T, me, you)
      /\ \/ me.zone \cap you.zone = {}
         \/ me.zone = you.zone /\ ~you.quiet
  BY DEF Tables, Task, Shape, Wrote, Apart
<1>2. /\ \A u \in T2 : PairOf(u) \notin me.zone => u \in T
      /\ \A w \in T : PairOf(w) \notin me.zone => w \in T2
      /\ \A u \in T2, w \in T : u.id = w.id =>
           /\ u.portfolio_id = w.portfolio_id
           /\ PairOf(u) = PairOf(w) \/ (PairOf(w) \in me.zone /\ PairOf(u) \in me.zone)
      /\ \A u \in T2 : u \in T \/ u.id \in me.written
      /\ \A qb \in Pairs : qb \notin me.zone => S2[qb] = S[qb]
      /\ \A u \in T2 : u \in T \/ u \in me.rows
      /\ AreRows(T2, nx)
  <2>1. \A u \in T2 : u \in T \/ u \in me.rows
    BY DEF Commits, View
  <2>2. Tables(T2, S2, nx, own)
    BY CommitBeyond
  <2> QED
    BY <2>1, <2>2, CommitBeyond DEF Tables
<1>3. Holding(T2, you)
  <2>1. \A u \in T2 : u.id \in you.written => u \in T
    BY <1>1, <1>2
  <2> QED
    BY <1>1, <2>1 DEF Holding
<1>4. ASSUME NEW u \in T2,
             u.id = you.loaded.id \/ u.id \in you.linked \/ \E v \in you.seen : v.id = u.id
      PROVE  \E w \in T : w.id = u.id
  BY <1>1, <1>2, <1>4 DEF Unheard
<1>5. ASSUME NEW u \in T2, NEW w \in T, w.id = u.id, PairOf(w) \in you.zone
      PROVE  PairOf(u) \in you.zone /\ u.portfolio_id = w.portfolio_id
             /\ (you.quiet => PairOf(u) = PairOf(w))
  BY <1>1, <1>2, <1>5
<1>6. Loading(T2, you)
  <2>1. ASSUME NEW u \in T2, u.id = you.loaded.id
        PROVE  PairOf(u) \in you.zone /\ u.portfolio_id = you.loaded.portfolio_id
    <3>1. PICK w \in T : w.id = u.id
      BY <1>4, <2>1
    <3>2. PairOf(w) \in you.zone /\ w.portfolio_id = you.loaded.portfolio_id
      BY <1>1, <2>1, <3>1 DEF Loading
    <3> QED
      BY <1>5, <3>1, <3>2
  <2>2. ASSUME NEW u \in T2, NEW t \in you.seen, u.id = t.id PROVE PairOf(u) \in you.zone
    <3>1. PICK w \in T : w.id = u.id
      BY <1>4, <2>2
    <3>2. PairOf(w) \in you.zone
      BY <1>1, <2>2, <3>1 DEF Loading
    <3> QED
      BY <1>5, <3>1, <3>2
  <2>3. ASSUME NEW u \in T2, u.id \in you.linked PROVE PairOf(u) \in you.zone
    <3>1. PICK w \in T : w.id = u.id
      BY <1>4, <2>3
    <3>2. PairOf(w) \in you.zone
      BY <1>1, <2>3, <3>1 DEF Loading
    <3> QED
      BY <1>5, <3>1, <3>2
  <2> QED
    BY <2>1, <2>2, <2>3 DEF Loading
<1>7. Fresh(T2, S2, you)
  <2> SUFFICES ASSUME you.quiet
               PROVE  /\ you.at \in Early => \A u \in T2 : u.id = you.loaded.id =>
                                               PairOf(u) = PairOf(you.loaded)
                      /\ SeenStill(T2, you) /\ LinkedStill(T2, you) /\ FoundStill(S2, you)
                      /\ MadeOfSeen(S2, you) /\ RestSettled(T2, S2, you)
    BY DEF Fresh
  <2>1. /\ me.zone \cap you.zone = {} /\ you.zone \subseteq Pairs
        /\ you.at \in Early => \A u \in T : u.id = you.loaded.id =>
                                 PairOf(u) = PairOf(you.loaded)
        /\ SeenStill(T, you) /\ LinkedStill(T, you) /\ FoundStill(S, you)
        /\ MadeOfSeen(S, you) /\ RestSettled(T, S, you)
    BY <1>1 DEF Fresh, Shape, Asked
  <2>2. ASSUME you.at \in Early, NEW u \in T2, u.id = you.loaded.id
        PROVE  PairOf(u) = PairOf(you.loaded)
    <3>1. PICK w \in T : w.id = u.id
      BY <1>4, <2>2
    <3>2. PairOf(w) \in you.zone /\ PairOf(w) = PairOf(you.loaded)
      BY <1>1, <2>1, <2>2, <3>1 DEF Loading
    <3> QED
      BY <1>5, <3>1, <3>2
  <2>3. \A u : PairOf(u) \in you.zone => (u \in View(T2, you) <=> u \in View(T, you))
    <3>1. \A u : PairOf(u) \in you.zone => (u \in T2 <=> u \in T)
      BY <1>2, <2>1
    <3> QED
      BY <3>1 DEF View
  <2>4. LinkedStill(T2, you)
    <3> SUFFICES ASSUME NEW u \in View(T2, you), u.id \in you.linked
                 PROVE  u.position_id = you.found.id
      BY DEF LinkedStill
    <3>1. CASE u \in you.rows
      BY <2>1, <3>1 DEF LinkedStill, View
    <3>2. CASE u \in T2 /\ u.id \notin you.written
      <4>1. PICK w \in T : w.id = u.id
        BY <1>4, <3>2
      <4>2. PairOf(w) \in you.zone
        BY <1>1, <4>1 DEF Loading
      <4>3. w \in T2
        BY <1>2, <2>1, <4>2
      <4>4. w = u
        BY <1>2, <3>2, <4>1, <4>3 DEF AreRows
      <4>5. u \in View(T, you)
        BY <3>2, <4>4 DEF View
      <4> QED
        BY <2>1, <4>5 DEF LinkedStill
    <3> QED
      BY <3>1, <3>2 DEF View
  <2>5. you.at \in Looks => Head(you.todo) \in you.zone
    BY <1>1, TodoIs DEF Shape, Planned, Looks, Works, Late
  <2>6. SeenStill(T2, you)
    <3> SUFFICES ASSUME you.at \in Looks
                 PROVE  /\ \A t \in you.seen : \E u \in View(T2, you) : Alike(t, u)
                        /\ you.at \in Works =>
                             \A u \in View(T2, you) : PairOf(u) = Head(you.todo) =>
                               \E t \in you.seen : Alike(t, u)
      BY DEF SeenStill, Looks
    <3>1. /\ \A t \in you.seen : \E u \in View(T, you) : Alike(t, u)
          /\ you.at \in Works =>
               \A u \in View(T, you) : PairOf(u) = Head(you.todo) =>
                 \E t \in you.seen : Alike(t, u)
          /\ \A t \in you.seen : PairOf(t) = Head(you.todo)
      BY <1>1, <2>1 DEF SeenStill, Shape, HasRead
    <3>2. ASSUME NEW t \in you.seen PROVE \E u \in View(T2, you) : Alike(t, u)
      <4>1. PICK w \in View(T, you) : Alike(t, w)
        BY <3>1
      <4>2. PairOf(w) \in you.zone
        BY <2>5, <3>1, <4>1 DEF Alike
      <4> QED
        BY <2>3, <4>1, <4>2
    <3>3. ASSUME you.at \in Works, NEW u \in View(T2, you), PairOf(u) = Head(you.todo)
          PROVE  \E t \in you.seen : Alike(t, u)
      <4>1. PairOf(u) \in you.zone
        BY <2>5, <3>3
      <4> QED
        BY <2>3, <3>1, <3>3, <4>1
    <3> QED
      BY <3>2, <3>3
  <2>7. \A qb \in you.zone : S2[qb] = S[qb] /\ PositionIn(S2, you, qb) = PositionIn(S, you, qb)
    BY <1>2, <2>1 DEF PositionIn
  <2>8. FoundStill(S2, you)
    BY <2>1, <2>5, <2>7 DEF FoundStill, Looks, Works
  <2>9. MadeOfSeen(S2, you)
    <3>1. you.at \in {"sync", "link"} => Head(you.todo) \in you.zone
      BY <2>5 DEF Looks, Works
    <3> QED
      BY <2>1, <2>7, <3>1 DEF MadeOfSeen
  <2>10. RestSettled(T2, S2, you)
    <3> SUFFICES ASSUME you.at \in Late, NEW qb \in you.zone \ InTodo(you)
                 PROVE  SettledIn(View(T2, you), PositionIn(S2, you, qb), qb)
      BY DEF RestSettled
    <3>1. PICK row : row = PositionIn(S, you, qb)
      OBVIOUS
    <3>2. qb \in Pairs /\ SettledIn(View(T, you), row, qb)
      BY <2>1, <3>1 DEF RestSettled
    <3>3. \A u : PairOf(u) = qb => (u \in View(T2, you) <=> u \in View(T, you))
      BY <2>3
    <3>4. SettledIn(View(T2, you), row, qb)
      BY <3>2, <3>3, SettledBeyond
    <3> QED
      BY <2>7, <3>1, <3>4
  <2> QED
    BY <2>2, <2>4, <2>6, <2>8, <2>9, <2>10
<1> QED
  BY <1>1, <1>3, <1>6, <1>7 DEF Task

LEMMA AloneApart ==
  ASSUME NEW T, NEW me, NEW you, DOMAIN you = MeFields, NEW one, one = Alone(you),
         Apart(T, me, you), Apart(T, you, me), me.zone \cap Wants(you) = {}
  PROVE  Apart(T, me, one) /\ Apart(T, one, me)
<1>1. /\ one.zone = Wants(you) /\ one.rows = you.rows /\ one.written = you.written
      /\ one.positions = you.positions /\ one.loaded = you.loaded /\ one.seen = you.seen
      /\ one.linked = you.linked
  BY AloneIs
<1> QED
  BY <1>1 DEF Apart, Unheard

LEMMA OthersOrderly ==
  ASSUME NEW T, NEW S, NEW nx, NEW own, NEW me, Tables(T, S, nx, own), Task(T, S, nx, me, own),
         NEW T2, NEW S2, Commits(T, S, me, T2, S2),
         NEW you, Task(T, S, nx, you, own), Apart(T, me, you), Apart(T, you, me),
         NEW d, Orderly(T, S, nx, me, own, d), Orderly(T, S, nx, you, own, d),
         NEW d2, d2 = IF me.quiet THEN d \ me.zone ELSE d \cup me.zone
  PROVE  Orderly(T2, S2, nx, you, own, d2)
<1>1. /\ AreRows(T, nx) /\ \A t \in you.rows : t.id \in you.written
      /\ \A t \in me.rows : t.id \in me.written
      /\ me.written \cap you.written = {} /\ DOMAIN you = MeFields
      /\ Loading(T, you) /\ Holding(T, me) /\ Unheard(T, me, you) /\ Wants(you) \subseteq you.zone
  BY DEF Tables, Task, Shape, Wrote, Asked, Apart
<1>2. /\ \A w \in T : PairOf(w) \notin me.zone => w \in T2
      /\ \A u \in T2, w \in T : u.id = w.id =>
           PairOf(u) = PairOf(w) \/ (PairOf(w) \in me.zone /\ PairOf(u) \in me.zone)
      /\ \A w \in T : w \in T2 \/ w.id \in me.written
      /\ AreRows(T2, nx)
  BY CommitBeyond DEF Tables
<1>3. \A u \in T2 : u \in T \/ u \in me.rows
  BY DEF Commits, View
<1>4. Loading(T2, you)
  BY OthersCommit DEF Task
<1>5. \/ me.zone \cap you.zone = {} /\ Spoilt(you, d2) = Spoilt(you, d)
      \/ Spoilt(you, d2) = you.zone
  BY DEF Apart, Spoilt
<1>6. Spoilt(you, d) \subseteq Spoilt(you, d2)
  BY <1>5 DEF Spoilt
<1>7. ASSUME NEW u \in T2, u.id = you.loaded.id \/ \E v \in you.seen : v.id = u.id,
             me.zone \cap you.zone = {}
      PROVE  \E w \in T : w.id = u.id /\ PairOf(w) = PairOf(u)
  <2>1. PICK w \in T : w.id = u.id
    BY <1>1, <1>3, <1>7 DEF Unheard
  <2>2. PairOf(w) \in you.zone
    BY <1>1, <1>7, <2>1 DEF Loading
  <2> QED
    BY <1>2, <1>7, <2>1, <2>2
<1>8. InPlace(T2, you, d2)
  <2>1. InPlace(T, you, d)
    BY DEF Orderly
  <2>2. ASSUME you.at \in Early, NEW u \in T2, u.id = you.loaded.id
        PROVE  Together(PairOf(u), PairOf(you.loaded), you, d2)
    <3>1. CASE me.zone \cap you.zone = {}
      <4>1. PICK w \in T : w.id = u.id /\ PairOf(w) = PairOf(u)
        BY <1>7, <2>2, <3>1
      <4>2. Together(PairOf(u), PairOf(you.loaded), you, d)
        BY <2>1, <2>2, <4>1 DEF InPlace
      <4> QED
        BY <1>6, <4>2 DEF Together
    <3>2. CASE Spoilt(you, d2) = you.zone
      <4>1. u.id # 0
        BY <1>2 DEF AreRows, IsRow
      <4>2. PairOf(you.loaded) \in Wants(you)
        BY <2>2, <4>1 DEF Task, Shape, Asked, Wants
      <4> QED
        BY <1>1, <1>4, <2>2, <3>2, <4>2 DEF Loading, Together
    <3> QED
      BY <1>5, <3>1, <3>2
  <2>3. ASSUME NEW u \in View(T2, you), NEW v \in you.seen, u.id = v.id
        PROVE  Together(PairOf(u), PairOf(v), you, d2)
    <3>1. CASE u \in you.rows
      <4>1. Together(PairOf(u), PairOf(v), you, d)
        BY <2>1, <2>3, <3>1 DEF InPlace, View
      <4> QED
        BY <1>6, <4>1 DEF Together
    <3>2. CASE u \notin you.rows
      <4>1. u \in T2 /\ u.id \notin you.written
        BY <3>2 DEF View
      <4>2. CASE me.zone \cap you.zone = {}
        <5>1. PICK w \in T : w.id = u.id /\ PairOf(w) = PairOf(u)
          BY <1>7, <2>3, <4>1, <4>2
        <5>2. w \in View(T, you)
          BY <4>1, <5>1 DEF View
        <5>3. Together(PairOf(u), PairOf(v), you, d)
          BY <2>1, <2>3, <5>1, <5>2 DEF InPlace
        <5> QED
          BY <1>6, <5>3 DEF Together
      <4>3. CASE Spoilt(you, d2) = you.zone
        <5>1. you.at \in Looks /\ PairOf(v) = Head(you.todo)
          BY DEF Task, Shape, HasRead
        <5>2. PairOf(v) \in you.zone
          BY <5>1, TodoIs DEF Task, Shape, Planned, Looks, Works, Late
        <5> QED
          BY <1>4, <2>3, <4>1, <4>3, <5>2 DEF Loading, Together
      <4> QED
        BY <1>5, <4>2, <4>3
    <3> QED
      BY <3>1, <3>2
  <2> QED
    BY <1>6, <2>1, <2>2, <2>3 DEF InPlace
<1>9. Refers(T2, you, own, d2)
  <2>1. ASSUME NEW t \in you.rows, NEW u \in T, u.id = t.id PROVE u \in T2
    BY <1>1, <1>2, <2>1
  <2> QED
    BY <1>6, <2>1 DEF Orderly, Refers
<1>10. ASSUME NEW a \in Pairs, Calm(you, d2), Wants(you) = {a}
       PROVE  Lone(T2, S2, nx, you, own, a)
  <2>1. a \in you.zone
    BY <1>1, <1>10
  <2>2. me.zone \cap you.zone = {} /\ a \notin me.zone /\ Calm(you, d)
    BY <1>5, <1>10, <2>1 DEF Spoilt, Calm
  <2>3. Lone(T, S, nx, you, own, a)
    BY <1>10, <2>2 DEF Orderly
  <2>4. PICK one : one = Alone(you)
    OBVIOUS
  <2>5. Task(T2, S2, nx, one, own)
    <3>1. Apart(T, me, one) /\ Apart(T, one, me)
      BY <1>1, <1>10, <2>2, <2>4, AloneApart
    <3>2. Task(T, S, nx, one, own)
      BY <2>3, <2>4 DEF Lone
    <3> QED
      BY <3>1, <3>2, OthersCommit
  <2>6. you.kind \in {"update", "delete"} => \E u \in T2 : u.id = you.loaded.id /\ PairOf(u) = a
    BY <1>2, <2>2, <2>3 DEF Lone
  <2>7. ASSUME you.at \in {"clear", "delete-position"}, NEW t \in T2, t.position_id = you.found.id
        PROVE  t.id \in you.written
    <3>1. CASE t \in T
      BY <2>3, <2>7, <3>1 DEF Lone
    <3>2. CASE t \in me.rows
      <4>1. you.at \in Works \ {"find"} /\ you.at \in Late /\ you.at # "commit"
        BY <2>7 DEF Works, Late
      <4>2. Head(you.todo) = a
        BY <1>1, <1>10, <2>3, <4>1, LoneTodo
      <4>3. you.found.id # 0 /\ own[you.found.id] = a
        <5>1. you.found.id # 0 /\ IsPositionRow(you.found, a, nx, own)
          BY <2>7, <4>1, <4>2 DEF Task, Shape, HasRead
        <5> QED
          BY <5>1 DEF IsPositionRow, NoRow
      <4>4. PairOf(t) # a
        BY <1>1, <2>2, <3>2 DEF Holding
      <4>5. PICK u \in T : u.id = t.id /\ u.position_id = t.position_id
        BY <2>2, <2>7, <3>2, <4>3, <4>4 DEF Orderly, Refers, Spoilt
      <4>6. t.id \in you.written
        BY <2>3, <2>7, <4>5 DEF Lone
      <4> QED
        BY <4>6
    <3> QED
      BY <1>3, <3>1, <3>2
  <2> QED
    BY <2>3, <2>4, <2>5, <2>6, <2>7 DEF Lone
<1>11. Placed(you, d2)
  BY <1>6 DEF Orderly, Placed
<1> QED
  BY <1>8, <1>9, <1>10, <1>11 DEF Orderly

\* The ids of others stay known.
LEMMA UnheardCommitted ==
  ASSUME NEW T, NEW me, NEW T2, \A w \in T : w \in T2 \/ w.id \in me.written,
         NEW you, NEW he, Unheard(T, you, he), me.written \cap you.written = {},
         \A t \in you.rows : t.id \in you.written
  PROVE  Unheard(T2, you, he)
BY DEF Unheard

LEMMA CommitKeeps ==
  ASSUME NEW own, SessionsInv(own), NEW s \in Sessions, Commit(s)
  PROVE  SessionsInv(own)'
<1>1. PICK me : me = session[s]
  OBVIOUS
<1>2. PICK T : T = committed.trades
  OBVIOUS
<1>3. PICK S : S = committed.positions
  OBVIOUS
<1>4. PICK nx : nx = next
  OBVIOUS
<1>5. PICK T2 : T2 = View(T, me)
  OBVIOUS
<1>6. PICK S2 : S2 = [pa \in Pairs |-> PositionIn(S, me, pa)]
  OBVIOUS
<1>7. /\ s \in Live(session) /\ me.at = "commit" /\ me.todo = <<>> /\ InTodo(me) = {}
      /\ Tables(T, S, nx, own) /\ Task(T, S, nx, me, own) /\ Commits(T, S, me, T2, S2)
  <2>1. me.at = "commit"
    BY <1>1 DEF Commit, At
  <2>2. s \in Live(session) /\ Tables(T, S, nx, own) /\ Task(T, S, nx, me, own)
    BY <1>1, <1>2, <1>3, <1>4, <2>1 DEF SessionsInv, Live
  <2>3. me.todo = <<>> /\ InTodo(me) = {}
    BY <2>1, <2>2, TodoIs DEF Task, Shape, Planned, Late, Todo
  <2> QED
    BY <1>5, <1>6, <2>1, <2>2, <2>3 DEF Commits
<1>8. /\ committed' = [trades |-> T2, positions |-> S2] /\ next' = next
      /\ dirty' = (IF me.quiet THEN dirty \ me.zone ELSE dirty \cup me.zone)
  <2>1. TradesOf(s) = T2
    BY <1>1, <1>2, <1>5 DEF TradesOf, View
  <2>2. \A pa \in Pairs : PositionOf(s, pa) = PositionIn(S, me, pa)
    BY <1>1, <1>3 DEF PositionOf, PositionIn
  <2> QED
    BY <1>1, <1>6, <2>1, <2>2 DEF Commit
<1>9. /\ session' = [r \in Sessions |-> session'[r]]
      /\ \A r \in Sessions \ {s} : session'[r] = session[r]
      /\ session'[s] = Idle \/ Rereads(session'[s])
  <2>1. CASE session' = [session EXCEPT ![s] =
               [me EXCEPT !.at = "reread", !.rows = {}, !.written = {},
                          !.positions = <<>>, !.zone = {}, !.first = next]]
    <3>1. DOMAIN me = MeFields
      BY <1>7 DEF Task, Shape
    <3>2. Rereads([me EXCEPT !.at = "reread", !.rows = {}, !.written = {},
                             !.positions = <<>>, !.zone = {}, !.first = next])
      BY <3>1 DEF MeFields, Rereads
    <3> QED
      BY <2>1, <3>2 DEF SessionsInv
  <2>2. CASE End(s)
    BY <2>2 DEF End, SessionsInv
  <2> QED
    BY <1>1, <2>1, <2>2 DEF Commit
<1>10. Live(session') \subseteq Live(session) \ {s}
  BY <1>9 DEF Live, Idle, Rereads
<1>11. \A r \in Live(session') : r \in Live(session) /\ r # s /\ session'[r] = session[r]
  BY <1>9, <1>10 DEF Live
<1>12. \A r \in Sessions \ Live(session') : session'[r] = Idle \/ Rereads(session'[r])
  BY <1>9 DEF SessionsInv, Live
<1>13. ASSUME NEW r \in Live(session) \ {s}
       PROVE  Task(T2, S2, nx, session[r], own)
  <2>1. PICK you : you = session[r]
    OBVIOUS
  <2>2. Task(T, S, nx, you, own) /\ Apart(T, me, you) /\ Apart(T, you, me)
    BY <1>1, <1>2, <1>3, <1>4, <1>7, <2>1 DEF SessionsInv
  <2>3. Task(T2, S2, nx, you, own)
    BY <1>7, <2>2, OthersCommit
  <2> QED
    BY <2>1, <2>3
<1>14. /\ \A u : PairOf(u) \notin me.zone => (u \in T2 <=> u \in T)
       /\ \A w \in T : w \in T2 \/ w.id \in me.written
       /\ Tables(T2, S2, nx, own)
       /\ \A qb \in Pairs : qb \notin me.zone => S2[qb] = S[qb]
  BY <1>7, CommitBeyond
<1>15. ASSUME NEW q \in Live(session) \ {s}, NEW r \in Live(session) \ {s}, q # r
       PROVE  Apart(T2, session[q], session[r])
  <2>1. PICK you : you = session[q]
    OBVIOUS
  <2>2. PICK he : he = session[r]
    OBVIOUS
  <2>3. /\ Apart(T, you, he) /\ Apart(T, me, you)
        /\ \A t \in you.rows : t.id \in you.written
    BY <1>1, <1>2, <1>7, <1>15, <2>1, <2>2 DEF SessionsInv, Task, Shape, Wrote
  <2>4. Unheard(T2, you, he)
    BY <1>14, <2>3, UnheardCommitted DEF Apart
  <2>5. Apart(T2, you, he)
    BY <2>3, <2>4 DEF Apart
  <2> QED
    BY <2>1, <2>2, <2>5
<1>16. ASSUME NEW pa \in Pairs \ dirty' PROVE SettledIn(T2, S2[pa], pa)
  <2>1. CASE pa \in me.zone
    <3>1. me.quiet
      BY <1>8, <1>16, <2>1
    <3>2. SettledIn(View(T, me), PositionIn(S, me, pa), pa)
      BY <1>7, <2>1, <3>1 DEF Task, Fresh, RestSettled, Late
    <3> QED
      BY <1>5, <1>6, <3>2
  <2>2. CASE pa \notin me.zone
    <3>1. pa \in Pairs \ dirty
      BY <1>8, <1>16, <2>2
    <3>2. PICK row : row = S[pa]
      OBVIOUS
    <3>3. SettledIn(T, row, pa)
      BY <1>2, <1>3, <3>1, <3>2 DEF SessionsInv, OnlyOverlapDamages, Settled, SettledIn
    <3>4. \A u : PairOf(u) = pa => (u \in T2 <=> u \in T)
      BY <1>14, <2>2
    <3>5. SettledIn(T2, row, pa)
      BY <3>3, <3>4, SettledBeyond
    <3> QED
      BY <1>14, <2>2, <3>2, <3>5
  <2> QED
    BY <2>1, <2>2
<1>17. OnlyOverlapDamages'
  BY <1>8, <1>16 DEF OnlyOverlapDamages, Settled, SettledIn
<1>18. committed'.trades = T2 /\ committed'.positions = S2 /\ DOMAIN S2 = Pairs
  BY <1>6, <1>8
<1>19. \A r \in Live(session') : Task(T2, S2, nx, session'[r], own)
  BY <1>11, <1>13
<1>20. \A q, r \in Live(session') : q # r => Apart(T2, session'[q], session'[r])
  BY <1>11, <1>15
<1>21. next' = nx /\ next' = [trade |-> next'.trade, position |-> next'.position]
       /\ committed' = [trades |-> committed'.trades, positions |-> committed'.positions]
  BY <1>4, <1>8 DEF SessionsInv
<1>22. ASSUME NEW r \in Live(session) \ {s}
       PROVE  Orderly(T2, S2, nx, session[r], own, dirty')
  <2>1. PICK you : you = session[r]
    OBVIOUS
  <2>2. PICK d, d2 : d = dirty /\ d2 = dirty'
    OBVIOUS
  <2>3. /\ Task(T, S, nx, you, own) /\ Apart(T, me, you) /\ Apart(T, you, me)
        /\ Orderly(T, S, nx, me, own, d) /\ Orderly(T, S, nx, you, own, d)
    BY <1>1, <1>2, <1>3, <1>4, <1>7, <2>1, <2>2 DEF SessionsInv
  <2>4. d2 = IF me.quiet THEN d \ me.zone ELSE d \cup me.zone
    BY <1>8, <2>2
  <2>5. Orderly(T2, S2, nx, you, own, d2)
    BY <1>7, <2>3, <2>4, OthersOrderly
  <2> QED
    BY <2>1, <2>2, <2>5
<1>23. \A r \in Live(session') : Orderly(T2, S2, nx, session'[r], own, dirty')
  BY <1>11, <1>22
<1> QED
  BY <1>9, <1>12, <1>14, <1>17, <1>18, <1>19, <1>20, <1>21, <1>23 DEF SessionsInv

-----------------------------------------------------------------------------
(***************************************************************************)
(* The beginning of a request.                                             *)
(***************************************************************************)
\* It overlaps with others from now on.
LEMMA ZoneGrows ==
  ASSUME NEW T, NEW S, NEW nx, NEW own, NEW you, Task(T, S, nx, you, own),
         NEW joint, you.zone \subseteq joint, joint \subseteq Pairs,
         NEW you2, you2 = [you EXCEPT !.zone = joint, !.quiet = FALSE]
  PROVE  Task(T, S, nx, you2, own)
<1>1. DOMAIN you = MeFields
  BY DEF Task, Shape
<1>2. /\ you2 = [f \in MeFields |-> you2[f]] /\ DOMAIN you2 = MeFields
      /\ you2.at = you.at /\ you2.kind = you.kind /\ you2.todo = you.todo
      /\ you2.loaded = you.loaded /\ you2.wanted = you.wanted /\ you2.zone = joint
      /\ you2.linked = you.linked
      /\ you2.quiet = FALSE /\ you2.rows = you.rows /\ you2.seen = you.seen
      /\ you2.written = you.written /\ you2.positions = you.positions
      /\ you2.found = you.found /\ you2.target = you.target
      /\ you2.calculated = you.calculated
  BY <1>1 DEF MeFields
<1> HIDE DEF MeFields
<1>3. Shape(you2, nx, own)
  <2>1. Asked(you2, nx)
    <3>1. Wants(you2) = Wants(you)
      BY <1>2 DEF Wants
    <3>2. Wants(you) \subseteq joint
      BY DEF Task, Shape, Asked
    <3> QED
      BY <1>2, <3>1, <3>2 DEF Task, Shape, Asked
  <2>2. Wrote(you2, nx, own)
    BY <1>2 DEF Task, Shape, Wrote
  <2>3. Planned(you2)
    <3>1. InTodo(you2) = InTodo(you)
      BY <1>2 DEF InTodo
    <3>2. you2.at = you.at /\ you2.todo = you.todo /\ you2.zone = joint
      BY <1>2
    <3>3. Todo(you) => Todo(you2)
      BY <3>2 DEF Todo
    <3> QED
      BY <1>2, <3>1, <3>3 DEF Task, Shape, Planned
  <2>4. HasRead(you2, nx, own)
    BY <1>2 DEF Task, Shape, HasRead
  <2> QED
    BY <1>2, <2>1, <2>2, <2>3, <2>4 DEF Shape
<1>4. Holding(T, you2)
  BY <1>2 DEF Task, Holding
<1>5. Loading(T, you2)
  BY <1>2 DEF Task, Loading
<1>6. Fresh(T, S, you2)
  BY <1>2 DEF Fresh
<1> QED
  BY <1>3, <1>4, <1>5, <1>6 DEF Task

\* What the requests begin with.
Fits(T, nx, at, kind, loaded, wanted, pairs) ==
  /\ <<kind, at>> \in {<<"register", "validate">>, <<"update", "validate">>,
                       <<"delete", "delete">>, <<"recalculate", "start">>}
  /\ pairs = (IF kind = "register" THEN {PairOf(wanted)} ELSE {PairOf(loaded), PairOf(wanted)})
  /\ pairs \subseteq Pairs
  /\ loaded \in T \/ loaded.id = 0
  /\ kind = "register" => loaded.id = 0 /\ Fields(wanted) /\ wanted.position_id = 0
  /\ kind = "update" => /\ IsRow(loaded, nx) /\ Fields(wanted) /\ wanted.id = loaded.id
                        /\ wanted.position_id = loaded.position_id
                        /\ wanted.portfolio_id = loaded.portfolio_id
  /\ kind = "delete" => IsRow(loaded, nx) /\ wanted = loaded
  /\ kind = "recalculate" => loaded.id = 0 /\ wanted = loaded

Begun(me, at, kind, loaded, wanted, joint, quiet) ==
  /\ me = [f \in MeFields |-> me[f]] /\ DOMAIN me = MeFields
  /\ me.at = at /\ me.kind = kind /\ me.loaded = loaded /\ me.wanted = wanted
  /\ me.todo = <<>> /\ me.seen = {} /\ me.linked = {} /\ me.rows = {} /\ me.written = {}
  /\ DOMAIN me.positions = {} /\ me.zone = joint /\ me.quiet = quiet

LEMMA BegunSound ==
  ASSUME NEW T, NEW S, NEW nx, NEW own, Tables(T, S, nx, own),
         NEW at, NEW kind, NEW loaded, NEW wanted, NEW pairs,
         Fits(T, nx, at, kind, loaded, wanted, pairs),
         NEW joint, pairs \subseteq joint, joint \subseteq Pairs,
         NEW quiet, quiet => joint = pairs,
         NEW me, Begun(me, at, kind, loaded, wanted, joint, quiet)
  PROVE  Task(T, S, nx, me, own) /\ at \notin {"idle", "reread"}
<1>1. /\ me.at \in Early /\ me.at \notin Late /\ me.at \notin Works /\ at \notin {"idle", "reread"}
  BY DEF Begun, Fits, Early, Late, Works
<1>2. \A u \in T : u.id = loaded.id => u = loaded /\ kind \notin {"register", "recalculate"}
  <2>1. \A u \in T : u.id # 0
    BY DEF Tables, AreRows, IsRow
  <2> QED
    BY <2>1 DEF Fits, Tables, AreRows
<1>3. Asked(me, nx)
  <2>1. Wants(me) = pairs
    BY DEF Begun, Fits, Wants
  <2> QED
    BY <1>1, <2>1 DEF Begun, Fits, Asked
<1>4. Wrote(me, nx, own)
  BY DEF Begun, Wrote, AreRows
<1>5. HasRead(me, nx, own)
  BY <1>1 DEF Begun, HasRead, AreRows, Works
<1>6. Holding(T, me)
  BY DEF Begun, Holding
<1>7. Loading(T, me)
  BY <1>2 DEF Begun, Loading, Fits
<1>8. Fresh(T, S, me)
  BY <1>1, <1>2 DEF Begun, Fresh, SeenStill, LinkedStill, FoundStill, MadeOfSeen, RestSettled, Works
<1> QED
  BY <1>1, <1>3, <1>4, <1>5, <1>6, <1>7, <1>8 DEF Task, Shape, Planned, Begun

LEMMA ZoneOrderly ==
  ASSUME NEW T, NEW S, NEW nx, NEW own, NEW you, Task(T, S, nx, you, own),
         NEW d, Orderly(T, S, nx, you, own, d), NEW joint, you.zone \subseteq joint,
         NEW you2, you2 = [you EXCEPT !.zone = joint, !.quiet = FALSE]
  PROVE  Orderly(T, S, nx, you2, own, d)
<1>1. DOMAIN you = MeFields
  BY DEF Task, Shape
<1>2. /\ you2.at = you.at /\ you2.kind = you.kind /\ you2.todo = you.todo
      /\ you2.loaded = you.loaded /\ you2.wanted = you.wanted /\ you2.zone = joint
      /\ you2.linked = you.linked
      /\ you2.rows = you.rows /\ you2.seen = you.seen /\ you2.written = you.written
      /\ you2.found = you.found /\ you2.positions = you.positions /\ you2.target = you.target
  BY <1>1 DEF MeFields
<1>3. /\ Wants(you2) = Wants(you) /\ InTodo(you2) = InTodo(you) /\ View(T, you2) = View(T, you)
      /\ Spoilt(you, d) \subseteq Spoilt(you2, d)
  BY <1>2 DEF Wants, InTodo, View, Spoilt
<1>4. Alone(you2) = Alone(you)
  BY <1>1, <1>3 DEF Alone, MeFields
<1>5. InPlace(T, you2, d)
  <2>1. \A x, y : Together(x, y, you, d) => Together(x, y, you2, d)
    BY <1>3 DEF Together
  <2> QED
    BY <1>2, <1>3, <2>1 DEF Orderly, InPlace
<1>6. Refers(T, you2, own, d) /\ Placed(you2, d)
  BY <1>2, <1>3 DEF Orderly, Refers, Placed
<1>7. ASSUME NEW a \in Pairs, Calm(you2, d), Wants(you2) = {a}
      PROVE  Lone(T, S, nx, you2, own, a)
  <2>1. Lone(T, S, nx, you, own, a)
    BY <1>2, <1>3, <1>7 DEF Orderly, Calm
  <2> QED
    BY <1>2, <1>4, <2>1 DEF Lone
<1> QED
  BY <1>5, <1>6, <1>7 DEF Orderly

LEMMA BegunOrderly ==
  ASSUME NEW T, NEW S, NEW nx, NEW own, Tables(T, S, nx, own), NEW d,
         NEW at, NEW kind, NEW loaded, NEW wanted, NEW pairs,
         Fits(T, nx, at, kind, loaded, wanted, pairs),
         NEW joint, NEW quiet, NEW me, Begun(me, at, kind, loaded, wanted, joint, quiet)
  PROVE  Orderly(T, S, nx, me, own, d)
<1>1. /\ DOMAIN me = MeFields /\ me.at = at /\ me.kind = kind /\ me.loaded = loaded
      /\ me.wanted = wanted /\ me.seen = {} /\ me.linked = {} /\ me.rows = {} /\ me.written = {}
      /\ me.at \notin Late /\ me.at \notin {"clear", "delete-position"} /\ Wants(me) = pairs
      /\ DOMAIN me.positions = {}
  BY DEF Begun, Fits, Wants, Late, Works
<1>2. \A u \in T : u.id = loaded.id => u = loaded
  <2>1. \A u \in T : u.id # 0
    BY DEF Tables, AreRows, IsRow
  <2> QED
    BY <2>1 DEF Fits, Tables, AreRows
<1>3. InPlace(T, me, d) /\ Refers(T, me, own, d) /\ Placed(me, d)
  BY <1>1, <1>2 DEF InPlace, Refers, Placed, Together, Late, Works
<1>4. ASSUME NEW a \in Pairs, Calm(me, d), Wants(me) = {a}
      PROVE  Lone(T, S, nx, me, own, a)
  <2>1. PICK one : one = Alone(me)
    OBVIOUS
  <2>2. Begun(one, at, kind, loaded, wanted, pairs, TRUE)
    <3>1. one = [f \in MeFields |-> one[f]]
      BY <1>1, <2>1 DEF Alone, MeFields
    <3>2. /\ DOMAIN one = MeFields /\ one.at = me.at /\ one.kind = me.kind
          /\ one.loaded = me.loaded /\ one.wanted = me.wanted /\ one.todo = me.todo
          /\ one.seen = me.seen /\ one.linked = me.linked /\ one.rows = me.rows /\ one.written = me.written
          /\ one.positions = me.positions /\ one.zone = pairs /\ one.quiet = TRUE
      <4>1. DOMAIN me = MeFields /\ Wants(me) = pairs
        BY <1>1
      <4>2. one.zone = Wants(me) /\ one.quiet = TRUE
        BY <2>1, <4>1, AloneIs
      <4> QED
        BY <2>1, <4>1, <4>2, AloneIs
    <3> QED
      BY <3>1, <3>2 DEF Begun
  <2>3. Task(T, S, nx, one, own)
    <3>1. pairs \subseteq Pairs
      BY DEF Fits
    <3>2. PICK joint2 : joint2 = pairs
      OBVIOUS
    <3>3. Begun(one, at, kind, loaded, wanted, joint2, TRUE) /\ joint2 \subseteq Pairs
      BY <2>2, <3>1, <3>2
    <3> QED
      BY <3>2, <3>3, BegunSound
  <2>4. me.kind \in {"update", "delete"} => \E u \in T : u.id = me.loaded.id /\ PairOf(u) = a
    <3>1. kind \in {"update", "delete"} => loaded \in T /\ PairOf(loaded) \in pairs
      BY DEF Fits, IsRow
    <3> QED
      BY <1>1, <1>4, <3>1
  <2> QED
    BY <1>1, <2>1, <2>3, <2>4 DEF Lone
<1> QED
  BY <1>3, <1>4 DEF Orderly

\* s goes on, sharing its zone with those it meets.
LEMMA JoinKeeps ==
  ASSUME NEW own, SessionsInv(own), NEW s \in Sessions, NEW me, NEW pairs, pairs \subseteq Pairs,
         committed' = committed, next' = next, dirty' = dirty, Join(s, me, pairs),
         DOMAIN me = MeFields, me.at \notin {"idle", "reread"},
         \A joint, quiet, me2 :
           /\ pairs \subseteq joint /\ joint \subseteq Pairs
           /\ quiet => me.quiet /\ joint = pairs
           /\ me2 = [me EXCEPT !.zone = joint, !.quiet = quiet]
           => /\ Task(committed.trades, committed.positions, next, me2, own)
              /\ Orderly(committed.trades, committed.positions, next, me2, own, dirty),
         \A r \in Live(session) \ {s} :
           /\ me.written \cap session[r].written = {}
           /\ DOMAIN me.positions \cap DOMAIN session[r].positions = {}
           /\ Unheard(committed.trades, me, session[r])
           /\ Unheard(committed.trades, session[r], me)
  PROVE  SessionsInv(own)'
<1>1. PICK T, S, nx, d :
        T = committed.trades /\ S = committed.positions /\ nx = next /\ d = dirty
  OBVIOUS
<1> DEFINE m == {r \in Active \ {s} : session[r].zone \cap pairs # {}}
           j == pairs \cup UNION {session[r].zone : r \in m}
           b == [me EXCEPT !.zone = j, !.quiet = @ /\ m = {}]
           after(r) == CASE r = s -> b
                         [] r \in m -> [session[r] EXCEPT !.zone = j, !.quiet = FALSE]
                         [] OTHER -> session[r]
<1>2. session' = [r \in Sessions |-> after(r)]
  BY DEF Join
<1>3. /\ \A r \in Sessions : session'[r] = after(r)
      /\ session' = [r \in Sessions |-> session'[r]]
  <2> HIDE DEF after
  <2> QED
    BY <1>2
<1>4. PICK met, joint, quiet : met = m /\ joint = j /\ quiet = (me.quiet /\ m = {})
  OBVIOUS
<1>5. PICK me2 : me2 = [me EXCEPT !.zone = joint, !.quiet = quiet]
  OBVIOUS
<1>6. PICK live : live = Live(session) \ {s}
  OBVIOUS
<1>7. /\ \A r \in met : r \in Active /\ r # s /\ session[r].zone \cap pairs # {}
      /\ \A r \in Active \ {s} : session[r].zone \cap pairs # {} => r \in met
      /\ joint = pairs \cup UNION {session[r].zone : r \in met}
      /\ quiet => me.quiet /\ met = {}
  <2> HIDE DEF b
  <2> QED
    BY <1>4
<1>8. /\ Tables(T, S, nx, own)
      /\ \A r \in live : /\ Task(T, S, nx, session[r], own) /\ session[r].zone \subseteq Pairs
                         /\ Orderly(T, S, nx, session[r], own, d)
      /\ \A q, r \in live : q # r => Apart(T, session[q], session[r])
      /\ \A r \in Sessions \ live : r # s => session[r] = Idle \/ Rereads(session[r])
  <2>1. \A r \in live : Task(T, S, nx, session[r], own) /\ Orderly(T, S, nx, session[r], own, d)
    BY <1>1, <1>6 DEF SessionsInv
  <2>2. \A r \in live : session[r].zone \subseteq Pairs
    BY <2>1 DEF Task, Shape, Asked
  <2> QED
    BY <1>1, <1>6, <2>1, <2>2 DEF SessionsInv
<1>9. met \subseteq live /\ s \notin live /\ live \subseteq Sessions /\ s \notin met
  <2>1. live \subseteq Sessions /\ s \notin live
    BY <1>6 DEF Live
  <2>2. \A r \in Active \ {s} : r \in live \/ session[r].zone = {}
    <3>1. ASSUME NEW r \in Sessions, r # s, r \notin live, session[r].at # "idle"
          PROVE  session[r].zone = {}
      <4>1. session[r] = Idle \/ Rereads(session[r])
        BY <1>8, <3>1
      <4>2. Idle.at = "idle"
        BY DEF Idle
      <4> QED
        BY <3>1, <4>1, <4>2 DEF Rereads
    <3> QED
      BY <3>1 DEF Active
  <2> QED
    BY <1>7, <2>1, <2>2
<1>10. /\ joint \subseteq Pairs /\ pairs \subseteq joint /\ (quiet => me.quiet /\ joint = pairs)
       /\ \A r \in met : session[r].zone \subseteq joint
  BY <1>7, <1>8, <1>9
<1>11. b = me2
  <2> HIDE DEF m, j
  <2> QED
    BY <1>4, <1>5
<1>12. /\ session'[s] = me2
       /\ \A r \in met : session'[r] = [session[r] EXCEPT !.zone = joint, !.quiet = FALSE]
       /\ \A r \in Sessions : r # s /\ r \notin met => session'[r] = session[r]
  <2> HIDE DEF m, j, b
  <2> QED
    BY <1>3, <1>4, <1>9, <1>11
<1> HIDE DEF m, j, b, after
<1>13. /\ me2.at = me.at /\ me2.rows = me.rows /\ me2.written = me.written
       /\ me2.loaded = me.loaded /\ me2.positions = me.positions /\ me2.seen = me.seen
       /\ me2.linked = me.linked /\ me2.zone = joint /\ me2.quiet = quiet
  BY <1>5 DEF MeFields
<1>14. Task(T, S, nx, me2, own) /\ Orderly(T, S, nx, me2, own, d)
  <2> DEFINE Enters(jo, qu) == /\ pairs \subseteq jo /\ jo \subseteq Pairs
                               /\ qu => me.quiet /\ jo = pairs
             Good(you) == Task(T, S, nx, you, own) /\ Orderly(T, S, nx, you, own, d)
  <2>1. \A jo, qu, you :
          Enters(jo, qu) /\ you = [me EXCEPT !.zone = jo, !.quiet = qu] => Good(you)
    BY <1>1
  <2>2. Enters(joint, quiet)
    BY <1>10
  <2>3. Good(me2)
    <3> HIDE DEF Enters, Good
    <3> QED
      BY ONLY <1>5, <2>1, <2>2, Zenon
  <2> QED
    BY <2>3
<1>15. ASSUME NEW r \in met
       PROVE  /\ Task(T, S, nx, session'[r], own)
              /\ session'[r].zone = joint /\ ~session'[r].quiet /\ session'[r].at = session[r].at
              /\ session'[r].rows = session[r].rows /\ session'[r].written = session[r].written
              /\ session'[r].loaded = session[r].loaded
              /\ session'[r].positions = session[r].positions
              /\ session'[r].seen = session[r].seen
              /\ session'[r].linked = session[r].linked
              /\ Orderly(T, S, nx, session'[r], own, d)
  <2>1. PICK you, you2 : you = session[r] /\ you2 = session'[r]
    OBVIOUS
  <2>2. /\ Task(T, S, nx, you, own) /\ you.zone \subseteq joint /\ joint \subseteq Pairs
        /\ Orderly(T, S, nx, you, own, d)
        /\ you2 = [you EXCEPT !.zone = joint, !.quiet = FALSE]
    BY <1>8, <1>9, <1>10, <1>12, <2>1
  <2>3. Task(T, S, nx, you2, own)
    BY <2>2, ZoneGrows
  <2>4. Orderly(T, S, nx, you2, own, d)
    BY <2>2, ZoneOrderly
  <2>5. DOMAIN you = MeFields
    BY <2>2 DEF Task, Shape
  <2>6. /\ you2.zone = joint /\ ~you2.quiet /\ you2.at = you.at
        /\ you2.rows = you.rows /\ you2.written = you.written /\ you2.loaded = you.loaded
        /\ you2.positions = you.positions /\ you2.seen = you.seen /\ you2.linked = you.linked
    BY <2>2, <2>5 DEF MeFields
  <2> QED
    BY <2>1, <2>3, <2>4, <2>6
<1>16. Live(session') = live \cup {s}
  <2>1. \A r \in Sessions \ {s} : session'[r].at = session[r].at
    BY <1>12, <1>15
  <2> QED
    BY <1>6, <1>12, <1>13, <2>1 DEF Live
<1>17. \A r \in live : /\ r # s
                       /\ session'[r].rows = session[r].rows
                       /\ session'[r].written = session[r].written
                       /\ session'[r].loaded = session[r].loaded
                       /\ session'[r].positions = session[r].positions
                       /\ session'[r].seen = session[r].seen
                       /\ session'[r].linked = session[r].linked
  BY <1>9, <1>12, <1>15
<1>18. ASSUME NEW r \in live, r \notin met PROVE session'[r].zone \cap joint = {}
  <2>1. session'[r] = session[r] /\ session[r].zone \cap pairs = {}
    <3>1. r \in Active \ {s}
      BY <1>6 DEF Active, Live
    <3> QED
      BY <1>7, <1>9, <1>12, <1>18, <3>1
  <2>2. ASSUME NEW q \in met PROVE session[r].zone \cap session[q].zone = {}
    <3>1. Apart(T, session[q], session[r]) /\ session[q].zone \cap pairs # {}
      BY <1>7, <1>8, <1>9, <1>18
    <3> QED
      BY <2>1, <3>1 DEF Apart
  <2>3. session'[r].zone = session[r].zone
    BY <2>1
  <2>4. ASSUME NEW x \in session[r].zone, x \in joint PROVE FALSE
    <3>1. x \notin pairs
      BY <2>1, <2>4
    <3>2. PICK q \in met : x \in session[q].zone
      BY <1>7, <2>4, <3>1
    <3> QED
      BY <2>2, <2>4, <3>2
  <2> QED
    BY <2>3, <2>4
<1>19. ASSUME NEW r \in live PROVE Apart(T, me2, session'[r]) /\ Apart(T, session'[r], me2)
  <2>1. /\ me.written \cap session[r].written = {}
        /\ DOMAIN me.positions \cap DOMAIN session[r].positions = {}
        /\ Unheard(T, me, session[r]) /\ Unheard(T, session[r], me)
    BY <1>1, <1>6
  <2>2. Unheard(T, me2, session'[r]) /\ Unheard(T, session'[r], me2)
    BY <1>13, <1>17, <2>1 DEF Unheard
  <2>3. met # {} => ~quiet
    BY <1>7
  <2>4. \/ me2.zone \cap session'[r].zone = {}
        \/ me2.zone = session'[r].zone /\ ~me2.quiet /\ ~session'[r].quiet
    BY <1>13, <1>15, <1>18, <2>3
  <2> QED
    BY <1>13, <1>17, <2>1, <2>2, <2>4 DEF Apart
<1>20. ASSUME NEW q \in live, NEW r \in live, q # r PROVE Apart(T, session'[q], session'[r])
  <2>1. Apart(T, session[q], session[r])
    BY <1>8, <1>20
  <2>2. Unheard(T, session'[q], session'[r])
    BY <1>17, <2>1 DEF Apart, Unheard
  <2>3. \/ session'[q].zone \cap session'[r].zone = {}
        \/ session'[q].zone = session'[r].zone /\ ~session'[q].quiet /\ ~session'[r].quiet
    <3>1. CASE q \in met /\ r \in met
      BY <1>15, <3>1
    <3>2. CASE q \in met /\ r \notin met
      BY <1>15, <1>18, <3>2
    <3>3. CASE q \notin met /\ r \in met
      BY <1>15, <1>18, <3>3
    <3>4. CASE q \notin met /\ r \notin met
      <4>1. session'[q] = session[q] /\ session'[r] = session[r]
        BY <1>9, <1>12, <1>17, <3>4
      <4> QED
        BY <2>1, <4>1 DEF Apart
    <3> QED
      BY <3>1, <3>2, <3>3, <3>4
  <2> QED
    BY <1>17, <2>1, <2>2, <2>3 DEF Apart
<1>21. \A q, r \in Live(session') : q # r => Apart(T, session'[q], session'[r])
  BY <1>12, <1>16, <1>19, <1>20
<1>22. \A r \in Live(session') :
         Task(T, S, nx, session'[r], own) /\ Orderly(T, S, nx, session'[r], own, d)
  <2>1. \A r \in live : r \notin met => session'[r] = session[r]
    BY <1>9, <1>12
  <2> QED
    BY <1>8, <1>12, <1>14, <1>15, <1>16, <2>1
<1>23. \A r \in Sessions \ Live(session') : session'[r] = Idle \/ Rereads(session'[r])
  BY <1>8, <1>9, <1>12, <1>16
<1>24. OnlyOverlapDamages'
  BY DEF SessionsInv, OnlyOverlapDamages, Settled
<1>25. /\ committed'.trades = T /\ committed'.positions = S /\ next' = nx /\ dirty' = d
       /\ committed' = committed /\ next' = next
  BY <1>1
<1> QED
  BY <1>3, <1>8, <1>21, <1>22, <1>23, <1>24, <1>25 DEF SessionsInv

LEMMA BeginKeeps ==
  ASSUME NEW own, SessionsInv(own), NEW s \in Sessions,
         NEW at, NEW kind, NEW loaded, NEW wanted, NEW pairs,
         Fits(committed.trades, next, at, kind, loaded, wanted, pairs),
         Begin(s, at, kind, loaded, wanted, pairs)
  PROVE  SessionsInv(own)'
<1>1. PICK T, S, nx, d :
        T = committed.trades /\ S = committed.positions /\ nx = next /\ d = dirty
  OBVIOUS
<1>2. PICK me : me = [at |-> at, kind |-> kind, loaded |-> loaded, wanted |-> wanted,
                      todo |-> <<>>, seen |-> {}, found |-> NoRow, calculated |-> NoBook,
                      target |-> 0, linked |-> {},
                      rows |-> {}, written |-> {}, positions |-> <<>>,
                      zone |-> pairs, quiet |-> TRUE, first |-> next]
  OBVIOUS
<1>3. /\ committed' = committed /\ next' = next /\ dirty' = dirty /\ Join(s, me, pairs)
      /\ Tables(T, S, nx, own) /\ Fits(T, nx, at, kind, loaded, wanted, pairs)
  BY <1>1, <1>2 DEF Begin, SessionsInv
<1>4. /\ DOMAIN me = MeFields /\ me.at = at /\ me.rows = {} /\ me.written = {}
      /\ DOMAIN me.positions = {} /\ me.loaded = loaded /\ me.seen = {} /\ me.linked = {}
  BY <1>2 DEF MeFields
<1>5. pairs \subseteq Pairs /\ at \notin {"idle", "reread"}
  BY <1>3 DEF Fits
<1>6. ASSUME NEW joint, NEW quiet, NEW me2, pairs \subseteq joint, joint \subseteq Pairs,
             quiet => me.quiet /\ joint = pairs,
             me2 = [me EXCEPT !.zone = joint, !.quiet = quiet]
      PROVE  Task(T, S, nx, me2, own) /\ Orderly(T, S, nx, me2, own, d)
  <2>1. Begun(me2, at, kind, loaded, wanted, joint, quiet)
    <3>1. me2 = [f \in MeFields |-> me2[f]] /\ DOMAIN me2 = MeFields
      BY <1>4, <1>6
    <3>2. /\ me2.at = at /\ me2.kind = kind /\ me2.loaded = loaded /\ me2.wanted = wanted
          /\ me2.todo = <<>> /\ me2.seen = {} /\ me2.linked = {} /\ me2.rows = {}
          /\ me2.written = {} /\ me2.zone = joint /\ me2.quiet = quiet
          /\ DOMAIN me2.positions = {}
      BY <1>2, <1>6
    <3> QED
      BY <3>1, <3>2 DEF Begun
  <2>2. Task(T, S, nx, me2, own)
    BY <1>3, <1>6, <2>1, BegunSound
  <2>3. Orderly(T, S, nx, me2, own, d)
    BY <1>3, <2>1, BegunOrderly
  <2> QED
    BY <2>2, <2>3
<1>7. ASSUME NEW r \in Live(session) \ {s}
      PROVE  /\ me.written \cap session[r].written = {}
             /\ DOMAIN me.positions \cap DOMAIN session[r].positions = {}
             /\ Unheard(T, me, session[r]) /\ Unheard(T, session[r], me)
  <2>1. \A t \in session[r].rows : t.id # 0
    <3>1. AreRows(session[r].rows, nx)
      BY <1>1 DEF SessionsInv, Task, Shape, Wrote
    <3> QED
      BY <3>1 DEF AreRows, IsRow
  <2>2. loaded \in T \/ loaded.id = 0
    BY <1>3 DEF Fits
  <2>3. Unheard(T, session[r], me)
    BY <1>4, <2>1, <2>2 DEF Unheard
  <2> QED
    BY <1>4, <2>3 DEF Unheard
<1> QED
  BY <1>1, <1>3, <1>4, <1>5, <1>6, <1>7, JoinKeeps

-----------------------------------------------------------------------------
(***************************************************************************)
(* The initial state.                                                      *)
(***************************************************************************)
LEMMA MinIs ==
  ASSUME NEW n \in Nat, NEW D, D \subseteq 1..n, D # {}
  PROVE  Min(D) \in D
<1> DEFINE upTo(k) == {i \in 1..n : i <= k}
<1>1. PICK L : L = 1..n
  OBVIOUS
<1>2. IsFiniteSet(L)
  BY <1>1, FS_Interval
<1>3. PICK U : U = {upTo(k) : k \in D}
  OBVIOUS
<1>4. U \subseteq SUBSET L /\ U # {}
  BY <1>1, <1>3
<1>5. PICK s \in U : \A r \in U : r \subseteq s => r = s
  BY <1>2, <1>4, LeastSubset
<1>6. PICK m \in D : s = upTo(m)
  BY <1>3, <1>5
<1>7. ASSUME NEW k \in D PROVE m <= k
  <2>1. k \in 1..n /\ m \in 1..n
    OBVIOUS
  <2>2. upTo(k) \subseteq upTo(m) => upTo(k) = upTo(m)
    BY <1>3, <1>5, <1>6
  <2> QED
    BY <2>1, <2>2
<1> QED
  BY <1>7 DEF Min

RowFieldsAtFirst == RowFields \ {"position_id"}

LEMMA InitKeeps ==
  ASSUME Init
  PROVE  \E own : SessionsInv(own)
<1> DEFINE n        == Len(Initially)
           row(i)   == Stored(RowOf(i, Initially[i][1], Initially[i][2]))
           D(i)     == {j \in DOMAIN Initially : PairOf(row(j)) = PairOf(row(i))}
           first(i) == Min(D(i))
<1>1. PICK own : own = [i \in 1..n |-> PairOf(row(i))]
  OBVIOUS
<1>2. PICK nx : nx = next
  OBVIOUS
<1>3. n \in Nat /\ DOMAIN Initially = 1..n /\ \A i \in 1..n : Initially[i] \in Portfolios \X Inputs
  BY SessionsAssumption
<1>4. nx.trade = n + 1 /\ nx.position = n + 1
  BY <1>2 DEF Init
<1>5. ASSUME NEW i \in 1..n
      PROVE  /\ DOMAIN row(i) = RowFieldsAtFirst /\ row(i) = [f \in RowFieldsAtFirst |-> row(i)[f]]
             /\ row(i).id = i /\ row(i).trade_type \in TradeTypes
             /\ row(i).executed_at \in Nat /\ PairOf(row(i)) \in Pairs
  <2>1. PICK p \in Portfolios, data \in Inputs : Initially[i] = <<p, data>>
    BY <1>3
  <2>2. /\ data.trade_type \in TradeTypes /\ data.executed_at \in Nat
        /\ data.asset_id \in AssetIds
    <3>1. data \in TradeData
      BY SessionsAssumption
    <3> QED
      BY <3>1, TablesAssumption DEF TradeData
  <2>3. row(i) = Stored(RowOf(i, p, data))
    BY <2>1
  <2>4. PICK r : r = RowOf(i, p, data)
    OBVIOUS
  <2>5. /\ DOMAIN r = RowFieldsAtFirst /\ r = [f \in RowFieldsAtFirst |-> r[f]]
        /\ r.id = i /\ r.trade_type \in TradeTypes
        /\ r.executed_at \in Nat /\ PairOf(r) \in Pairs
    BY <2>2, <2>4 DEF RowOf, RowFieldsAtFirst, RowFields, PairOf, Pairs
  <2>6. row(i) = [r EXCEPT !.quantity = Column(r.quantity)]
    BY <2>3, <2>4 DEF Stored
  <2> HIDE DEF row
  <2> QED
    BY <2>5, <2>6 DEF RowFieldsAtFirst, RowFields, PairOf
<1> HIDE DEF row
<1>6. ASSUME NEW i \in 1..n
      PROVE  first(i) \in 1..n /\ PairOf(row(first(i))) = PairOf(row(i))
  <2>1. D(i) \subseteq 1..n /\ D(i) # {}
    BY <1>3
  <2>2. first(i) \in D(i)
    <3> HIDE DEF D
    <3> QED
      BY <1>3, <2>1, MinIs
  <2> QED
    BY <2>1, <2>2
<1>7. ASSUME NEW i \in 1..n, NEW j \in 1..n, PairOf(row(i)) = PairOf(row(j))
      PROVE  first(i) = first(j)
  <2>1. D(i) = D(j)
    BY <1>7
  <2> QED
    BY <2>1
<1>8. PICK T : T = InitialRows
  OBVIOUS
<1> HIDE DEF D
<1>9. T = {WithPosition(row(i), first(i)) : i \in 1..n}
  BY <1>3, <1>8 DEF InitialRows, row, D
<1> HIDE DEF first
<1>10. ASSUME NEW i \in 1..n, NEW t, t = WithPosition(row(i), first(i))
       PROVE  /\ Fields(t) /\ t.id = i /\ t.position_id = first(i) /\ PairOf(t) = PairOf(row(i))
  <2>1. t = [f \in RowFields |-> IF f = "position_id" THEN first(i) ELSE row(i)[f]]
    <3>1. DOMAIN row(i) \cup {"position_id"} = RowFields
      BY <1>5 DEF RowFieldsAtFirst, RowFields
    <3> QED
      BY <1>10, <3>1 DEF WithPosition
  <2>2. /\ t = [f \in RowFields |-> t[f]] /\ t.id = row(i).id /\ t.position_id = first(i)
        /\ t.trade_type = row(i).trade_type /\ t.executed_at = row(i).executed_at
        /\ t.portfolio_id = row(i).portfolio_id /\ t.asset_id = row(i).asset_id
    BY <2>1 DEF RowFields
  <2> QED
    BY <1>5, <2>2 DEF Fields, PairOf
<1>11. AreRows(T, nx)
  <2>1. \A t \in T : IsRow(t, nx)
    BY <1>3, <1>4, <1>6, <1>9, <1>10 DEF IsRow
  <2>2. \A t, u \in T : t.id = u.id => t = u
    BY <1>9, <1>10
  <2> QED
    BY <2>1, <2>2 DEF AreRows
<1>12. nx.trade \in Nat \ {0} /\ nx.position \in Nat \ {0}
  BY <1>3, <1>4
<1>13. ASSUME NEW pa \in Pairs
       PROVE  IsPositionRow(InitialPosition(pa), pa, nx, own) /\ SettledIn(T, InitialPosition(pa), pa)
  <2>1. PICK ledger : ledger = LedgerOf(T, pa[1], pa[2])
    OBVIOUS
  <2>2. PICK p : p = InitialPosition(pa)
    OBVIOUS
  <2>3. ledger = {t \in T : PairOf(t) = pa}
    BY <2>1, LedgerPairs
  <2>4. IsLedger(ledger) /\ \A t \in ledger : t.trade_type \in TradeTypes
    BY <1>11, <1>12, <2>3, SomeRows, RowsReplay
  <2>5. ~IsFailure(Replay(ledger))
    BY <1>8, <2>1, InitialAssumption
  <2>6. p = IF ledger = {} THEN NoRow
            ELSE [id |-> (CHOOSE t \in ledger : TRUE).position_id, book |-> Saved(Replay(ledger))]
    BY <1>8, <2>1, <2>2 DEF InitialPosition
  <2>7. CASE ledger = {}
    <3>1. p = NoRow /\ Replay(ledger) = NoBook
      BY <2>6, <2>7, EmptyReplay
    <3>2. p.id = 0 /\ p.book = NoBook
      BY <3>1 DEF NoRow
    <3>3. SettledIn(T, p, pa)
      BY <2>1, <2>7, <3>1, <3>2 DEF SettledIn, NoBook, IsFailure, IsPosition
    <3> QED
      BY <2>2, <3>1, <3>3 DEF IsPositionRow
  <2>8. CASE ledger # {}
    <3>1. PICK c : c = CHOOSE t \in ledger : TRUE
      OBVIOUS
    <3>2. c \in ledger
      BY <2>8, <3>1
    <3>3. PICK i \in 1..n : c = WithPosition(row(i), first(i))
      BY <1>9, <2>3, <3>2
    <3>4. PairOf(row(i)) = pa /\ c.position_id = first(i)
      BY <1>10, <2>3, <3>2, <3>3
    <3>5. IsPosition(Replay(ledger))
      BY <2>4, <2>5, <2>8, ReplayAnswers
    <3>6. p.id = first(i) /\ p.book = Saved(Replay(ledger))
      BY <2>6, <2>8, <3>1, <3>4
    <3>7. p.book = [f \in BookFields |-> p.book[f]]
      BY <2>4, <3>5, <3>6, BookIsARecord
    <3>8. first(i) \in 1..n /\ own[first(i)] = pa
      BY <1>1, <1>6, <3>4
    <3>9. IsPositionRow(p, pa, nx, own)
      BY <1>3, <1>4, <3>6, <3>7, <3>8 DEF IsPositionRow
    <3>10. ASSUME NEW t \in ledger PROVE t.position_id = p.id
      <4>1. PICK j \in 1..n : t = WithPosition(row(j), first(j))
        BY <1>9, <2>3
      <4>2. PairOf(row(j)) = pa /\ t.position_id = first(j)
        BY <1>10, <2>3, <4>1
      <4> QED
        BY <1>7, <3>4, <3>6, <4>2
    <3>11. SettledIn(T, p, pa)
      BY <2>1, <2>5, <2>8, <3>5, <3>6, <3>8, <3>10 DEF SettledIn
    <3> QED
      BY <2>2, <3>9, <3>11
  <2> QED
    BY <2>7, <2>8
<1>14. PICK S : S = [pa \in Pairs |-> InitialPosition(pa)]
  OBVIOUS
<1>15. /\ committed = [trades |-> T, positions |-> S]
       /\ next = [trade |-> n + 1, position |-> n + 1]
       /\ session = [s \in Sessions |-> Idle] /\ dirty = {}
  BY <1>8, <1>14 DEF Init
<1>16. Tables(T, S, nx, own)
  BY <1>11, <1>12, <1>13, <1>14 DEF Tables
<1>17. Live(session) = {}
  BY <1>15 DEF Live, Idle
<1>18. OnlyOverlapDamages
  BY <1>13, <1>14, <1>15 DEF OnlyOverlapDamages, Settled, SettledIn
<1>19. committed.trades = T /\ committed.positions = S /\ DOMAIN S = Pairs
       /\ committed = [trades |-> committed.trades, positions |-> committed.positions]
       /\ next = [trade |-> next.trade, position |-> next.position]
       /\ session = [s \in Sessions |-> session[s]]
       /\ \A s \in Sessions : session[s] = Idle
  BY <1>14, <1>15
<1>20. SessionsInv(own)
  BY <1>2, <1>16, <1>17, <1>18, <1>19 DEF SessionsInv
<1> QED
  BY <1>20

-----------------------------------------------------------------------------
(***************************************************************************)
(* Every step.                                                             *)
(***************************************************************************)
Here(s, T, S, nx, me) ==
  T = committed.trades /\ S = committed.positions /\ nx = next /\ me = session[s]

LEMMA Setting ==
  ASSUME NEW own, SessionsInv(own), NEW s \in Sessions, session[s].at \notin {"idle", "reread"},
         NEW T, NEW S, NEW nx, NEW me, Here(s, T, S, nx, me)
  PROVE  /\ s \in Live(session)
         /\ Tables(T, S, nx, own) /\ Task(T, S, nx, me, own)
         /\ Orderly(T, S, nx, me, own, dirty)
         /\ TradesOf(s) = View(T, me) /\ Pair(s) = Head(me.todo)
         /\ \A pa : PositionOf(s, pa) = PositionIn(S, me, pa)
         /\ nx = [trade |-> nx.trade, position |-> nx.position]
         /\ nx.trade \in Nat \ {0} /\ nx.position \in Nat \ {0}
         /\ \A r \in Live(session) \ {s} :
              /\ r \in Sessions \ {s} /\ r \in Active
              /\ me.written \cap session[r].written = {}
              /\ DOMAIN me.positions \cap DOMAIN session[r].positions = {}
              /\ Shape(session[r], nx, own)
<1> USE DEF Here
<1>1. s \in Live(session) /\ Tables(T, S, nx, own)
  BY DEF Live, SessionsInv
<1>2. nx.trade \in Nat \ {0} /\ nx.position \in Nat \ {0}
  BY <1>1 DEF Tables
<1>3. TradesOf(s) = View(T, me) /\ Pair(s) = Head(me.todo)
  BY DEF TradesOf, View, Pair
<1>4. \A pa : PositionOf(s, pa) = PositionIn(S, me, pa)
  BY DEF PositionOf, PositionIn
<1>5. ASSUME NEW r \in Live(session) \ {s}
      PROVE  /\ r \in Sessions \ {s} /\ r \in Active
             /\ me.written \cap session[r].written = {}
             /\ DOMAIN me.positions \cap DOMAIN session[r].positions = {}
             /\ Shape(session[r], nx, own)
  <2>1. r \in Sessions \ {s} /\ r \in Active
    BY DEF Live, Active
  <2>2. Apart(T, me, session[r]) /\ Shape(session[r], nx, own)
    BY <1>1 DEF SessionsInv, Task
  <2> QED
    BY <2>1, <2>2 DEF Apart
<1> QED
  BY <1>1, <1>2, <1>3, <1>4, <1>5 DEF SessionsInv

LEMMA FailKeeps ==
  ASSUME NEW own, SessionsInv(own), NEW s \in Sessions, End(s),
         committed' = committed, dirty' = dirty, next' = next
  PROVE  SessionsInv(own)'
<1>1. Grows(next, next', own, own)
  BY DEF SessionsInv, Tables, Grows
<1>2. next' = [trade |-> next'.trade, position |-> next'.position]
  BY DEF SessionsInv
<1> QED
  BY <1>1, <1>2, OneEnds

LEMMA GoKeeps ==
  ASSUME NEW own, SessionsInv(own), NEW s \in Sessions, session[s].at \notin {"idle", "reread"},
         NEW T, NEW S, NEW nx, NEW me, Here(s, T, S, nx, me),
         NEW me2, Go(s, me2), next' = next,
         Task(T, S, nx, me2, own), Goes(T, nx, me, me2), Orderly(T, S, nx, me2, own, dirty),
         \A r \in Live(session) \ {s} :
           /\ me2.written \cap session[r].written = {}
           /\ DOMAIN me2.positions \cap DOMAIN session[r].positions = {}
  PROVE  SessionsInv(own)'
<1>1. s \in Live(session)
  BY Setting
<1>2. Grows(next, next', own, own) /\ next' = [trade |-> next'.trade, position |-> next'.position]
  BY DEF SessionsInv, Tables, Grows
<1>3. session' = [session EXCEPT ![s] = me2] /\ committed' = committed /\ dirty' = dirty
  BY DEF Go
<1>4. /\ Task(committed.trades, committed.positions, next', me2, own)
      /\ Goes(committed.trades, next, session[s], me2)
      /\ Orderly(committed.trades, committed.positions, next', me2, own, dirty)
  BY DEF Here
<1> QED
  BY <1>1, <1>2, <1>3, <1>4, OneGoes

LEMMA ValidateKeeps ==
  ASSUME NEW own, SessionsInv(own), NEW s \in Sessions, ValidateTrade(s)
  PROVE  SessionsInv(own)'
<1>1. session[s].at = "validate" /\ next' = next
  BY DEF ValidateTrade, At
<1>2. PICK T, S, nx, me : Here(s, T, S, nx, me)
  BY DEF Here
<1>3. PICK me2 : me2 = [me EXCEPT !.at = IF me.kind = "register" THEN "insert" ELSE "update"]
  OBVIOUS
<1>4. \/ End(s) /\ committed' = committed /\ dirty' = dirty
      \/ Go(s, me2)
  BY <1>2, <1>3 DEF ValidateTrade, Fail, Here
<1>5. /\ Task(T, S, nx, me2, own) /\ Goes(T, nx, me, me2)
      /\ Orderly(T, S, nx, me2, own, dirty)
      /\ me2.written = me.written /\ me2.positions = me.positions
  <2>1. /\ Tables(T, S, nx, own) /\ Task(T, S, nx, me, own) /\ me.at = "validate"
        /\ Orderly(T, S, nx, me, own, dirty)
    BY <1>1, <1>2, Setting DEF Here
  <2>2. Orderly(T, S, nx, me2, own, dirty)
    BY <1>3, <2>1, ValidateOrderly
  <2> QED
    BY <1>3, <2>1, <2>2, ValidateSound
<1>6. \A r \in Live(session) \ {s} :
        /\ me2.written \cap session[r].written = {}
        /\ DOMAIN me2.positions \cap DOMAIN session[r].positions = {}
  BY <1>1, <1>2, <1>5, Setting
<1> QED
  BY <1>1, <1>2, <1>4, <1>5, <1>6, GoKeeps, FailKeeps

LEMMA InsertKeeps ==
  ASSUME NEW own, SessionsInv(own), NEW s \in Sessions, InsertTrade(s)
  PROVE  SessionsInv(own)'
<1>1. session[s].at = "insert" /\ next' = [next EXCEPT !.trade = @ + 1]
  BY DEF InsertTrade, At
<1>2. PICK T, S, nx, me : Here(s, T, S, nx, me)
  BY DEF Here
<1>3. PICK row : row = RowInserted(me, nx)
  OBVIOUS
<1>4. PICK me2 : me2 = Inserted(me, row)
  OBVIOUS
<1>5. /\ session' = [session EXCEPT ![s] = me2] /\ committed' = committed /\ dirty' = dirty
  BY <1>2, <1>3, <1>4 DEF InsertTrade, Go, Here, RowInserted, Inserted
<1>6. PICK nx2 : nx2 = next'
  OBVIOUS
<1>7. /\ nx2.trade = nx.trade + 1 /\ nx2.position = nx.position
      /\ nx2 = [trade |-> nx2.trade, position |-> nx2.position]
  <2>1. nx = [trade |-> nx.trade, position |-> nx.position] /\ nx = next
    BY <1>2 DEF SessionsInv, Here
  <2> QED
    BY <1>1, <1>6, <2>1
<1>8. /\ Task(T, S, nx2, me2, own) /\ Goes(T, nx, me, me2) /\ Grows(nx, nx2, own, own)
      /\ Orderly(T, S, nx2, me2, own, dirty)
      /\ me2.written = {nx.trade} /\ me2.positions = me.positions
  <2>1. /\ Tables(T, S, nx, own) /\ Task(T, S, nx, me, own) /\ me.at = "insert"
        /\ Orderly(T, S, nx, me, own, dirty)
    BY <1>1, <1>2, Setting DEF Here
  <2>2. nx2.trade = nx.trade + 1 /\ nx2.position = nx.position
    BY <1>7
  <2>3. Orderly(T, S, nx2, me2, own, dirty)
    BY <1>3, <1>4, <2>1, <2>2, InsertOrderly
  <2> QED
    BY <1>3, <1>4, <2>1, <2>2, <2>3, InsertSound
<1>9. ASSUME NEW r \in Live(session) \ {s}
      PROVE  /\ me2.written \cap session[r].written = {}
             /\ DOMAIN me2.positions \cap DOMAIN session[r].positions = {}
  <2>1. /\ DOMAIN me.positions \cap DOMAIN session[r].positions = {}
        /\ Shape(session[r], nx, own) /\ nx.trade \in Nat \ {0}
    BY <1>1, <1>2, Setting
  <2>2. nx.trade \notin session[r].written
    BY <2>1, Heard
  <2> QED
    BY <1>8, <2>1, <2>2
<1>10. /\ s \in Live(session) /\ Goes(committed.trades, next, session[s], me2)
       /\ Task(committed.trades, committed.positions, next', me2, own)
       /\ Orderly(committed.trades, committed.positions, next', me2, own, dirty)
       /\ Grows(next, next', own, own)
       /\ next' = [trade |-> next'.trade, position |-> next'.position]
  BY <1>1, <1>2, <1>6, <1>7, <1>8, Setting DEF Here
<1> QED
  BY <1>5, <1>9, <1>10, OneGoes

LEMMA UpdateKeeps ==
  ASSUME NEW own, SessionsInv(own), NEW s \in Sessions, UpdateTrade(s)
  PROVE  SessionsInv(own)'
<1>1. session[s].at = "update" /\ next' = next /\ Blockers(s) = {}
  BY DEF UpdateTrade, At
<1>2. PICK T, S, nx, me : Here(s, T, S, nx, me)
  BY DEF Here
<1>3. CASE Fail(s, 500)
  BY <1>1, <1>3, FailKeeps DEF Fail
<1>4. ASSUME NEW t \in TradesOf(s), t.id = me.loaded.id,
             NEW row, row = RowUpdated(me, t), NEW me2, me2 = Updated(me, t, row),
             Go(s, me2)
      PROVE  SessionsInv(own)'
  <2>1. /\ t \in View(T, me) /\ Tables(T, S, nx, own) /\ Task(T, S, nx, me, own)
        /\ me.at = "update" /\ Orderly(T, S, nx, me, own, dirty)
    BY <1>1, <1>2, Setting DEF Here
  <2>2. /\ Task(T, S, nx, me2, own) /\ Goes(T, nx, me, me2)
        /\ me2.written \subseteq (IF me.wanted = me.loaded THEN {} ELSE {me.loaded.id})
        /\ me2.positions = me.positions
    BY <1>4, <2>1, UpdateSound
  <2>3. ASSUME NEW r \in Live(session) \ {s}
        PROVE  /\ me2.written \cap session[r].written = {}
               /\ DOMAIN me2.positions \cap DOMAIN session[r].positions = {}
    <3>1. /\ r \in Sessions \ {s} /\ r \in Active
          /\ DOMAIN me.positions \cap DOMAIN session[r].positions = {}
      BY <1>1, <1>2, Setting
    <3>2. me.wanted # me.loaded => ~Holds(r, me.loaded.id)
      BY <1>1, <1>2, <3>1 DEF Blockers, Here
    <3> QED
      BY <2>2, <3>1, <3>2 DEF Holds
  <2>4. Orderly(T, S, nx, me2, own, dirty)
    BY <1>4, <2>1, UpdateOrderly
  <2> QED
    BY <1>1, <1>2, <1>4, <2>2, <2>3, <2>4, GoKeeps
<1>5. CASE \E t \in TradesOf(s) :
              t.id = me.loaded.id /\ Go(s, Updated(me, t, RowUpdated(me, t)))
  BY <1>4, <1>5
<1>6. \/ Fail(s, 500)
      \/ \E t \in TradesOf(s) :
           t.id = me.loaded.id /\ Go(s, Updated(me, t, RowUpdated(me, t)))
  BY <1>2 DEF UpdateTrade, Here, Updated, RowUpdated
<1> QED
  BY <1>3, <1>5, <1>6

LEMMA DeleteKeeps ==
  ASSUME NEW own, SessionsInv(own), NEW s \in Sessions, DeleteTrade(s)
  PROVE  SessionsInv(own)'
<1>1. session[s].at = "delete" /\ next' = next /\ Blockers(s) = {}
  BY DEF DeleteTrade, At
<1>2. PICK T, S, nx, me : Here(s, T, S, nx, me)
  BY DEF Here
<1>3. PICK me2 : me2 = Deleted(me)
  OBVIOUS
<1>4. Go(s, me2)
  BY <1>1, <1>2, <1>3, Setting DEF DeleteTrade, Here, Deleted
<1>5. /\ Task(T, S, nx, me2, own) /\ Goes(T, nx, me, me2)
      /\ Orderly(T, S, nx, me2, own, dirty)
      /\ me2.written = {me.loaded.id} /\ me2.positions = me.positions
  <2>1. /\ Tables(T, S, nx, own) /\ Task(T, S, nx, me, own) /\ me.at = "delete"
        /\ Orderly(T, S, nx, me, own, dirty)
    BY <1>1, <1>2, Setting DEF Here
  <2>2. Orderly(T, S, nx, me2, own, dirty)
    BY <1>3, <2>1, DeleteOrderly
  <2> QED
    BY <1>3, <2>1, <2>2, DeleteSound
<1>6. ASSUME NEW r \in Live(session) \ {s}
      PROVE  /\ me2.written \cap session[r].written = {}
             /\ DOMAIN me2.positions \cap DOMAIN session[r].positions = {}
  <2>1. /\ r \in Sessions \ {s} /\ r \in Active
        /\ DOMAIN me.positions \cap DOMAIN session[r].positions = {}
    BY <1>1, <1>2, Setting
  <2>2. ~Holds(r, me.loaded.id)
    BY <1>1, <1>2, <2>1 DEF Blockers, Here
  <2> QED
    BY <1>5, <2>1, <2>2 DEF Holds
<1> QED
  BY <1>1, <1>2, <1>4, <1>5, <1>6, GoKeeps

LEMMA StartKeeps ==
  ASSUME NEW own, SessionsInv(own), NEW s \in Sessions, StartRecalculation(s)
  PROVE  SessionsInv(own)'
<1>1. session[s].at = "start" /\ next' = next
  BY DEF StartRecalculation, At
<1>2. PICK T, S, nx, me : Here(s, T, S, nx, me)
  BY DEF Here
<1>3. PICK me2 : me2 = Started(me)
  OBVIOUS
<1>4. Go(s, me2)
  BY <1>1, <1>2, <1>3, Setting DEF StartRecalculation, Here, Started
<1>5. /\ Task(T, S, nx, me2, own) /\ Goes(T, nx, me, me2)
      /\ Orderly(T, S, nx, me2, own, dirty)
      /\ me2.written = {} /\ me2.positions = me.positions
  <2>1. /\ Tables(T, S, nx, own) /\ Task(T, S, nx, me, own) /\ me.at = "start"
        /\ Orderly(T, S, nx, me, own, dirty)
    BY <1>1, <1>2, Setting DEF Here
  <2>2. Orderly(T, S, nx, me2, own, dirty)
    BY <1>3, <2>1, StartOrderly
  <2> QED
    BY <1>3, <2>1, <2>2, StartSound
<1>6. \A r \in Live(session) \ {s} :
        /\ me2.written \cap session[r].written = {}
        /\ DOMAIN me2.positions \cap DOMAIN session[r].positions = {}
  BY <1>1, <1>2, <1>5, Setting
<1> QED
  BY <1>1, <1>2, <1>4, <1>5, <1>6, GoKeeps

LEMMA ListKeeps ==
  ASSUME NEW own, SessionsInv(own), NEW s \in Sessions, ListTrades(s)
  PROVE  SessionsInv(own)'
<1>1. session[s].at = "list" /\ next' = next
  BY DEF ListTrades, At
<1>2. PICK T, S, nx, me : Here(s, T, S, nx, me)
  BY DEF Here
<1>7. PICK listed, held : listed = ListedAgain(T, me) /\ held = Held(me, listed)
  OBVIOUS
<1>3. PICK me2 : me2 = ListFound(me, listed, held)
  OBVIOUS
<1>4. Go(s, me2)
  <2>1. TradesOf(s) = View(T, me) /\ Pair(s) = Head(me.todo) /\ me = session[s]
    BY <1>1, <1>2, Setting DEF Here
  <2>2. Listed(s) = held \cup {u \in listed : ~\E t \in held : t.id = u.id}
    BY <1>7, <2>1 DEF Listed, ListedAgain, Held
  <2> QED
    BY <1>3, <2>1, <2>2 DEF ListTrades, ListFound
<1>5. /\ Task(T, S, nx, me2, own) /\ Goes(T, nx, me, me2)
      /\ Orderly(T, S, nx, me2, own, dirty)
      /\ me2.written = me.written /\ me2.positions = me.positions
  <2>1. /\ Tables(T, S, nx, own) /\ Task(T, S, nx, me, own) /\ me.at = "list"
        /\ Orderly(T, S, nx, me, own, dirty)
    BY <1>1, <1>2, Setting DEF Here
  <2>2. Orderly(T, S, nx, me2, own, dirty)
    BY <1>3, <1>7, <2>1, ListOrderly
  <2> QED
    BY <1>3, <1>7, <2>1, <2>2, ListSound
<1>6. \A r \in Live(session) \ {s} :
        /\ me2.written \cap session[r].written = {}
        /\ DOMAIN me2.positions \cap DOMAIN session[r].positions = {}
  BY <1>1, <1>2, <1>5, Setting
<1> QED
  BY <1>1, <1>2, <1>4, <1>5, <1>6, GoKeeps

LEMMA FindKeeps ==
  ASSUME NEW own, SessionsInv(own), NEW s \in Sessions, FindPosition(s)
  PROVE  SessionsInv(own)'
<1>1. session[s].at = "find" /\ next' = next
  BY DEF FindPosition, At
<1>2. PICK T, S, nx, me : Here(s, T, S, nx, me)
  BY DEF Here
<1>3. PICK found : found = PositionIn(S, me, Head(me.todo))
  OBVIOUS
<1>4. PICK book : book = Replay(me.seen)
  OBVIOUS
<1>5. /\ Tables(T, S, nx, own) /\ Task(T, S, nx, me, own) /\ me.at = "find"
      /\ Orderly(T, S, nx, me, own, dirty)
      /\ PositionOf(s, Pair(s)) = found /\ me = session[s]
  BY <1>1, <1>2, <1>3, Setting DEF Here
<1>6. ASSUME NEW me2, Go(s, me2), Task(T, S, nx, me2, own), Goes(T, nx, me, me2),
             Orderly(T, S, nx, me2, own, dirty),
             me2.written = me.written, me2.positions = me.positions
      PROVE  SessionsInv(own)'
  <2>1. \A r \in Live(session) \ {s} :
          /\ me2.written \cap session[r].written = {}
          /\ DOMAIN me2.positions \cap DOMAIN session[r].positions = {}
    BY <1>1, <1>2, <1>6, Setting
  <2> QED
    BY <1>1, <1>2, <1>6, <2>1, GoKeeps
<1>7. ASSUME NEW place, NEW me2, me2 = FoundOnto(me, found, book, place), Go(s, me2),
             \/ book = NoBook /\ found.id # 0 /\ place = "unlink"
             \/ IsPosition(book) /\ found.id = 0 /\ place = "insert-position"
             \/ IsPosition(book) /\ found.id # 0 /\ place = "update-position"
      PROVE  SessionsInv(own)'
  <2>1. /\ Task(T, S, nx, me2, own) /\ Goes(T, nx, me, me2)
        /\ me2.written = me.written /\ me2.positions = me.positions
    BY <1>3, <1>4, <1>5, <1>7, FindSound
  <2>2. Orderly(T, S, nx, me2, own, dirty)
    BY <1>3, <1>4, <1>5, <1>7, FindOrderly
  <2> QED
    BY <1>6, <1>7, <2>1, <2>2
<1>8. ASSUME NEW me2, me2 = Done(me), Go(s, me2), book = NoBook, found.id = 0
      PROVE  SessionsInv(own)'
  <2>1. PositionIn(S, me, Head(me.todo)).id = 0 /\ Replay(me.seen) = NoBook
    BY <1>3, <1>4, <1>8
  <2>2. /\ Task(T, S, nx, me2, own) /\ Goes(T, nx, me, me2)
        /\ me2.written = me.written /\ me2.positions = me.positions
    BY <1>5, <1>8, <2>1, NothingFoundSound
  <2>3. Orderly(T, S, nx, me2, own, dirty)
    BY <1>5, <1>8, <2>1, NothingFoundOrderly
  <2> QED
    BY <1>6, <1>8, <2>2, <2>3
<1>9. \/ Fail(s, StatusOf(book))
      \/ book = NoBook /\ found.id = 0 /\ Go(s, Done(me))
      \/ book = NoBook /\ found.id # 0 /\ Go(s, FoundOnto(me, found, book, "unlink"))
      \/ IsPosition(book) /\ found.id = 0 /\ Go(s, FoundOnto(me, found, book, "insert-position"))
      \/ IsPosition(book) /\ found.id # 0 /\ Go(s, FoundOnto(me, found, book, "update-position"))
  BY <1>4, <1>5 DEF FindPosition, FoundOnto
<1>10. CASE Fail(s, StatusOf(book))
  BY <1>1, <1>10, FailKeeps DEF Fail
<1> QED
  BY <1>7, <1>8, <1>9, <1>10

LEMMA InsertPositionKeeps ==
  ASSUME NEW own, SessionsInv(own), NEW s \in Sessions, InsertPosition(s)
  PROVE  \E own2 : SessionsInv(own2)'
<1>1. /\ session[s].at = "insert-position" /\ next' = [next EXCEPT !.position = @ + 1]
      /\ {r \in Sessions \ {s} : HoldsPosition(r, Pair(s))} = {}
  BY DEF InsertPosition, At, Blockers
<1>2. PICK T, S, nx, me : Here(s, T, S, nx, me)
  BY DEF Here
<1>3. PICK pa : pa = Head(me.todo)
  OBVIOUS
<1>4. /\ Tables(T, S, nx, own) /\ Task(T, S, nx, me, own) /\ me.at = "insert-position"
      /\ Pair(s) = pa /\ PositionOf(s, pa) = PositionIn(S, me, pa)
      /\ s \in Live(session) /\ Orderly(T, S, nx, me, own, dirty)
  BY <1>1, <1>2, <1>3, Setting DEF Here
<1>5. PositionIn(S, me, pa) = S[pa]
  <2>1. me.at \in Works /\ me.at \notin {"sync", "link"}
    BY <1>4 DEF Works
  <2> QED
    BY <1>3, <1>4, <2>1, AtWork
<1>6. PICK nx2 : nx2 = next'
  OBVIOUS
<1>7. /\ nx2.trade = nx.trade /\ nx2.position = nx.position + 1
      /\ nx2 = [trade |-> nx2.trade, position |-> nx2.position]
      /\ nx.trade \in Nat \ {0} /\ nx.position \in Nat \ {0}
  <2>1. nx = [trade |-> nx.trade, position |-> nx.position] /\ nx = next
    BY <1>2 DEF SessionsInv, Here
  <2> QED
    BY <1>1, <1>4, <1>6, <2>1 DEF Tables
<1>8. CASE Fail(s, 500)
  <2>1. Grows(next, next', own, own)
    BY <1>2, <1>6, <1>7 DEF Grows, Here
  <2>2. SessionsInv(own)'
    BY <1>6, <1>7, <1>8, <2>1, OneEnds DEF Fail
  <2> QED
    BY <2>2
<1>9. ASSUME NEW row, row = NewPosition(me, nx), NEW me2, me2 = PositionInserted(me, nx, pa, row),
             Go(s, me2), S[pa].id = 0
      PROVE  \E own2 : SessionsInv(own2)'
  <2>1. PICK own2 : own2 = Owned(own, nx, pa)
    OBVIOUS
  <2>2. /\ Task(T, S, nx2, me2, own2) /\ Goes(T, nx, me, me2) /\ Grows(nx, nx2, own, own2)
        /\ me2.written = me.written /\ DOMAIN me2.positions = DOMAIN me.positions \cup {pa}
    <3>1. nx2.trade = nx.trade /\ nx2.position = nx.position + 1
      BY <1>7
    <3> QED
      BY <1>3, <1>4, <1>9, <2>1, <3>1, InsertPositionSound
  <2>3. ASSUME NEW r \in Live(session) \ {s}
        PROVE  /\ me2.written \cap session[r].written = {}
               /\ DOMAIN me2.positions \cap DOMAIN session[r].positions = {}
    <3>1. /\ r \in Sessions \ {s} /\ r \in Active
          /\ me.written \cap session[r].written = {}
          /\ DOMAIN me.positions \cap DOMAIN session[r].positions = {}
      BY <1>1, <1>2, Setting
    <3>2. pa \notin DOMAIN session[r].positions
      BY <1>1, <1>4, <3>1 DEF HoldsPosition
    <3> QED
      BY <2>2, <3>1, <3>2
  <2>7. Orderly(T, S, nx2, me2, own2, dirty)
    <3>1. nx2.trade = nx.trade /\ nx2.position = nx.position + 1
      BY <1>7
    <3> QED
      BY <1>3, <1>4, <1>9, <2>1, <3>1, InsertPositionOrderly
  <2>4. /\ Goes(committed.trades, next, session[s], me2)
        /\ Orderly(committed.trades, committed.positions, next', me2, own2, dirty)
        /\ Task(committed.trades, committed.positions, next', me2, own2)
        /\ Grows(next, next', own, own2)
        /\ next' = [trade |-> next'.trade, position |-> next'.position]
    BY <1>2, <1>6, <1>7, <2>2, <2>7 DEF Here
  <2>5. session' = [session EXCEPT ![s] = me2] /\ committed' = committed /\ dirty' = dirty
    BY <1>9 DEF Go
  <2>6. SessionsInv(own2)'
    BY <1>4, <2>3, <2>4, <2>5, OneGoes
  <2> QED
    BY <2>6
<1>10. \/ Fail(s, 500)
       \/ S[pa].id = 0 /\ Go(s, PositionInserted(me, nx, pa, NewPosition(me, nx)))
  <2>1. WithRow(s, [id |-> next.position, book |-> me.calculated]) =
          [qb \in DOMAIN me.positions \cup {pa} |->
             IF qb = pa THEN NewPosition(me, nx) ELSE me.positions[qb]]
    BY <1>2, <1>4 DEF WithRow, Here, NewPosition
  <2> QED
    BY <1>2, <1>4, <1>5, <2>1 DEF InsertPosition, Here, PositionInserted
<1> QED
  BY <1>8, <1>9, <1>10

LEMMA UpdatePositionKeeps ==
  ASSUME NEW own, SessionsInv(own), NEW s \in Sessions, UpdatePosition(s)
  PROVE  SessionsInv(own)'
<1>1. /\ session[s].at = "update-position" /\ next' = next
      /\ PositionChanges(s) # {} => {r \in Sessions \ {s} : HoldsPosition(r, Pair(s))} = {}
  BY DEF UpdatePosition, At, Blockers
<1>2. PICK T, S, nx, me : Here(s, T, S, nx, me)
  BY DEF Here
<1>3. PICK pa : pa = Head(me.todo)
  OBVIOUS
<1>4. /\ Tables(T, S, nx, own) /\ Task(T, S, nx, me, own) /\ me.at = "update-position"
      /\ Pair(s) = pa /\ PositionOf(s, pa) = PositionIn(S, me, pa)
      /\ s \in Live(session) /\ me = session[s] /\ Orderly(T, S, nx, me, own, dirty)
  BY <1>1, <1>2, <1>3, Setting DEF Here
<1>5. PositionIn(S, me, pa) = S[pa]
  <2>1. me.at \in Works /\ me.at \notin {"sync", "link"}
    BY <1>4 DEF Works
  <2> QED
    BY <1>3, <1>4, <2>1, AtWork
<1>6. PICK changes : changes = Changes(me)
  OBVIOUS
<1>7. PositionChanges(s) = changes
  BY <1>4, <1>6 DEF PositionChanges, Changes
<1>8. PICK row : row = ChangedPosition(S, me, pa, changes)
  OBVIOUS
<1>9. CASE Fail(s, 500)
  BY <1>1, <1>9, FailKeeps DEF Fail
<1>10. ASSUME NEW me2, me2 = PositionUpdated(S, me, pa, changes, row), Go(s, me2),
              S[pa].id = me.found.id
       PROVE  SessionsInv(own)'
  <2>1. /\ Task(T, S, nx, me2, own) /\ Goes(T, nx, me, me2)
        /\ me2.written = me.written
        /\ DOMAIN me2.positions = (IF changes = {} THEN DOMAIN me.positions
                                   ELSE DOMAIN me.positions \cup {pa})
    BY <1>3, <1>4, <1>6, <1>8, <1>10, UpdatePositionSound
  <2>2. ASSUME NEW r \in Live(session) \ {s}
        PROVE  /\ me2.written \cap session[r].written = {}
               /\ DOMAIN me2.positions \cap DOMAIN session[r].positions = {}
    <3>1. /\ r \in Sessions \ {s} /\ r \in Active
          /\ me.written \cap session[r].written = {}
          /\ DOMAIN me.positions \cap DOMAIN session[r].positions = {}
      BY <1>1, <1>2, Setting
    <3>2. changes # {} => pa \notin DOMAIN session[r].positions
      BY <1>1, <1>4, <1>7, <3>1 DEF HoldsPosition
    <3> QED
      BY <2>1, <3>1, <3>2
  <2>3. Orderly(T, S, nx, me2, own, dirty)
    BY <1>3, <1>4, <1>6, <1>8, <1>10, UpdatePositionOrderly
  <2> QED
    BY <1>1, <1>2, <1>10, <2>1, <2>2, <2>3, GoKeeps
<1>11. \/ Fail(s, 500)
       \/ S[pa].id = me.found.id /\ Go(s, PositionUpdated(S, me, pa, changes, row))
  <2>1. PICK current : current = PositionOf(s, pa)
    OBVIOUS
  <2>2. current = S[pa]
    BY <1>4, <1>5, <2>1
  <2>3. PICK book : book = [f \in DOMAIN me.calculated |->
                              IF f \in changes THEN me.calculated[f] ELSE current.book[f]]
    OBVIOUS
  <2>4. row = [id |-> current.id, book |-> book]
    BY <1>8, <2>2, <2>3 DEF ChangedPosition
  <2>5. WithRow(s, row) =
          [qb \in DOMAIN me.positions \cup {pa} |-> IF qb = pa THEN row ELSE me.positions[qb]]
    BY <1>4 DEF WithRow
  <2>6. \/ Fail(s, 500)
        \/ current.id = me.found.id /\
           Go(s, [me EXCEPT !.at = "sync", !.target = current.id,
                            !.positions = IF changes = {} THEN @
                                          ELSE WithRow(s, [id |-> current.id, book |-> book])])
    BY <1>4, <1>7, <2>1, <2>3 DEF UpdatePosition
  <2> QED
    BY <2>2, <2>4, <2>5, <2>6 DEF PositionUpdated
<1> QED
  BY <1>9, <1>10, <1>11

LEMMA LoadLinkedKeeps ==
  ASSUME NEW own, SessionsInv(own), NEW s \in Sessions, LoadLinked(s)
  PROVE  SessionsInv(own)'
<1>1. /\ session[s].at = "unlink" /\ next' = next /\ committed' = committed /\ dirty' = dirty
  BY DEF LoadLinked, At
<1>2. PICK T, S, nx, me : Here(s, T, S, nx, me)
  BY DEF Here
<1>3. PICK d : d = dirty
  OBVIOUS
<1>4. /\ Tables(T, S, nx, own) /\ Task(T, S, nx, me, own) /\ me.at = "unlink"
      /\ TradesOf(s) = View(T, me) /\ me = session[s] /\ Orderly(T, S, nx, me, own, d)
      /\ T = committed.trades /\ S = committed.positions /\ nx = next
      /\ s \in Live(session)
  BY <1>1, <1>2, <1>3, Setting DEF Here
<1>5. PICK Q : Q = Referring(T, me)
  OBVIOUS
<1>6. PICK others : others = {PairOf(t) : t \in Q} \ me.zone
  OBVIOUS
<1>7. PICK pairs : pairs = me.zone \cup others
  OBVIOUS
<1>8. PICK quiet0 : quiet0 = (me.quiet /\ others = {})
  OBVIOUS
<1>9. PICK me1 : me1 = [me EXCEPT !.at = "clear", !.linked = IdsOf(Q), !.quiet = quiet0]
  OBVIOUS
<1>10. Join(s, me1, pairs)
  <2>1. Q = {t \in TradesOf(s) : t.position_id = session[s].found.id}
    BY <1>4, <1>5 DEF Referring
  <2>2. Join(s, [me EXCEPT !.at = "clear", !.linked = IdsOf(Q), !.quiet = @ /\ others = {}],
             me.zone \cup others)
    BY <1>4, <1>6, <2>1 DEF LoadLinked, IdsOf
  <2>3. [me EXCEPT !.at = "clear", !.linked = IdsOf(Q), !.quiet = @ /\ others = {}] = me1
    BY <1>8, <1>9
  <2> QED
    BY <1>7, <2>2, <2>3
<1>11. DOMAIN me = MeFields
  BY <1>4 DEF Task, Shape
<1>12. /\ DOMAIN me1 = MeFields /\ me1.at = "clear" /\ me1.quiet = quiet0
       /\ me1.rows = me.rows /\ me1.written = me.written /\ me1.positions = me.positions
       /\ me1.loaded = me.loaded /\ me1.seen = me.seen /\ me1.linked = IdsOf(Q)
  BY <1>9, <1>11 DEF MeFields
<1>13. /\ AreRows(View(T, me), nx) /\ me.zone \subseteq Pairs
       /\ \A t \in me.rows : t.id \in me.written
  BY <1>4, ViewRows DEF Tables, Task, Shape, Asked, Wrote
<1>14. /\ pairs \subseteq Pairs /\ me.zone \subseteq pairs /\ \A t \in Q : PairOf(t) \in pairs
       /\ quiet0 => me.quiet /\ pairs = me.zone
  <2>1. \A t \in Q : PairOf(t) \in Pairs
    BY <1>5, <1>13 DEF Referring, AreRows, IsRow, Fields
  <2> QED
    BY <1>6, <1>7, <1>8, <1>13, <2>1
<1>15. \A pa \in Pairs \ d : SettledIn(T, S[pa], pa)
  BY <1>3, <1>4 DEF SessionsInv, OnlyOverlapDamages, Settled, SettledIn
<1>16. ASSUME NEW joint, NEW quiet, NEW me2, pairs \subseteq joint, joint \subseteq Pairs,
              quiet => me1.quiet /\ joint = pairs,
              me2 = [me1 EXCEPT !.zone = joint, !.quiet = quiet]
       PROVE  Task(T, S, nx, me2, own) /\ Orderly(T, S, nx, me2, own, d)
  <2>1. me2 = Loaded(me, IdsOf(Q), joint, quiet)
    <3>1. PICK ids : ids = IdsOf(Q)
      OBVIOUS
    <3>2. me2 = [me EXCEPT !.at = "clear", !.linked = ids, !.zone = joint, !.quiet = quiet]
      BY ONLY <1>9, <1>11, <1>16, <3>1 DEF MeFields
    <3> QED
      BY <3>1, <3>2 DEF Loaded
  <2>2. /\ me.zone \subseteq joint /\ \A t \in Q : PairOf(t) \in joint
        /\ quiet => me.quiet /\ joint = me.zone
    BY <1>12, <1>14, <1>16
  <2>3. Task(T, S, nx, me2, own)
    BY <1>4, <1>5, <1>16, <2>1, <2>2, LoadLinkedSound
  <2>4. Orderly(T, S, nx, me2, own, d)
    BY <1>4, <1>5, <1>15, <1>16, <2>1, <2>2, LoadLinkedOrderly
  <2> QED
    BY <2>3, <2>4
<1>17. ASSUME NEW r \in Live(session) \ {s}
       PROVE  /\ me1.written \cap session[r].written = {}
              /\ DOMAIN me1.positions \cap DOMAIN session[r].positions = {}
              /\ Unheard(T, me1, session[r]) /\ Unheard(T, session[r], me1)
  <2>1. PICK you : you = session[r]
    OBVIOUS
  <2>2. Apart(T, me, you) /\ Apart(T, you, me)
    BY <1>4, <2>1 DEF SessionsInv
  <2>3. \A t \in you.rows : t.id \in you.written
    BY <1>4, <2>1 DEF SessionsInv, Task, Shape, Wrote
  <2>4. Unheard(T, me1, you)
    BY <1>12, <2>2 DEF Apart, Unheard
  <2>5. ASSUME NEW t \in you.rows, \A u \in T : u.id # t.id PROVE t.id \notin IdsOf(Q)
    <3>1. \A v \in Q : v \in T \/ v.id \in me.written
      BY <1>5, <1>13 DEF Referring, View
    <3>2. t.id \notin me.written
      BY <2>2, <2>3 DEF Apart
    <3> QED
      BY <2>5, <3>1, <3>2 DEF IdsOf
  <2>6. Unheard(T, you, me1)
    BY <1>12, <2>2, <2>5 DEF Apart, Unheard
  <2> QED
    BY <1>12, <2>1, <2>2, <2>4, <2>6 DEF Apart
<1>18. me1.at \notin {"idle", "reread"}
  BY <1>12
<1> QED
  BY <1>1, <1>3, <1>4, <1>10, <1>12, <1>14, <1>16, <1>17, <1>18, JoinKeeps

LEMMA UnlinkTradeKeeps ==
  ASSUME NEW own, SessionsInv(own), NEW s \in Sessions, UnlinkTrade(s)
  PROVE  SessionsInv(own)'
<1>1. session[s].at = "clear" /\ next' = next /\ Blockers(s) = {}
  BY DEF UnlinkTrade, At
<1>2. PICK T, S, nx, me : Here(s, T, S, nx, me)
  BY DEF Here
<1>3. /\ Tables(T, S, nx, own) /\ Task(T, S, nx, me, own) /\ me.at = "clear"
      /\ TradesOf(s) = View(T, me) /\ me = session[s] /\ Orderly(T, S, nx, me, own, dirty)
  BY <1>1, <1>2, Setting DEF Here
<1>4. CASE Fail(s, 500)
  BY <1>1, <1>4, FailKeeps DEF Fail
<1>5. ASSUME NEW i \in NextUnlinked(s), NEW t \in TradesOf(s), t.id = i,
             NEW me2, me2 = TradeUnlinked(me, t), Go(s, me2)
      PROVE  SessionsInv(own)'
  <2>1. t.id \in me.linked /\ t \in View(T, me)
    BY <1>3, <1>5 DEF NextUnlinked
  <2>2. /\ Task(T, S, nx, me2, own) /\ Goes(T, nx, me, me2)
        /\ me2.written = me.written \cup {t.id} /\ me2.positions = me.positions
    BY <1>3, <1>5, <2>1, UnlinkTradeSound
  <2>3. ASSUME NEW r \in Live(session) \ {s}
        PROVE  /\ me2.written \cap session[r].written = {}
               /\ DOMAIN me2.positions \cap DOMAIN session[r].positions = {}
    <3>1. /\ r \in Sessions \ {s} /\ r \in Active
          /\ me.written \cap session[r].written = {}
          /\ DOMAIN me.positions \cap DOMAIN session[r].positions = {}
      BY <1>1, <1>2, Setting
    <3>2. r \notin Blockers(s)
      BY <1>1
    <3>3. ~Holds(r, i)
      BY <1>1, <1>5, <3>1, <3>2 DEF Blockers
    <3> QED
      BY <1>5, <2>2, <3>1, <3>3 DEF Holds
  <2>4. Orderly(T, S, nx, me2, own, dirty)
    BY <1>3, <1>5, <2>1, UnlinkTradeOrderly
  <2> QED
    BY <1>1, <1>2, <1>5, <2>2, <2>3, <2>4, GoKeeps
<1>6. \/ Fail(s, 500)
      \/ \E i \in NextUnlinked(s) : \E t \in TradesOf(s) : t.id = i /\ Go(s, TradeUnlinked(me, t))
  BY <1>3 DEF UnlinkTrade, TradeUnlinked
<1> QED
  BY <1>4, <1>5, <1>6

LEMMA EndUnlinkingKeeps ==
  ASSUME NEW own, SessionsInv(own), NEW s \in Sessions, EndUnlinking(s)
  PROVE  SessionsInv(own)'
<1>1. session[s].at = "clear" /\ next' = next
  BY DEF EndUnlinking, At
<1>2. PICK T, S, nx, me : Here(s, T, S, nx, me)
  BY DEF Here
<1>3. /\ Tables(T, S, nx, own) /\ Task(T, S, nx, me, own) /\ me.at = "clear"
      /\ me = session[s] /\ Orderly(T, S, nx, me, own, dirty) /\ me.linked = {}
  BY <1>1, <1>2, Setting DEF Here, EndUnlinking
<1>4. PICK me2 : me2 = [me EXCEPT !.at = "delete-position"]
  OBVIOUS
<1>5. Go(s, me2)
  BY <1>3, <1>4 DEF EndUnlinking
<1>6. /\ Task(T, S, nx, me2, own) /\ Goes(T, nx, me, me2)
      /\ me2.written = me.written /\ me2.positions = me.positions
  BY <1>3, <1>4, UnlinkedSound
<1>7. \A r \in Live(session) \ {s} :
        /\ me2.written \cap session[r].written = {}
        /\ DOMAIN me2.positions \cap DOMAIN session[r].positions = {}
  BY <1>1, <1>2, <1>6, Setting
<1>8. Orderly(T, S, nx, me2, own, dirty)
  BY <1>3, <1>4, UnlinkedOrderly
<1> QED
  BY <1>1, <1>2, <1>5, <1>6, <1>7, <1>8, GoKeeps

LEMMA DeletePositionKeeps ==
  ASSUME NEW own, SessionsInv(own), NEW s \in Sessions, DeletePosition(s)
  PROVE  SessionsInv(own)'
<1>1. /\ session[s].at = "delete-position" /\ next' = next
      /\ {r \in Sessions \ {s} : HoldsPosition(r, Pair(s))} = {}
  BY DEF DeletePosition, At, Blockers
<1>2. PICK T, S, nx, me : Here(s, T, S, nx, me)
  BY DEF Here
<1>3. PICK pa : pa = Head(me.todo)
  OBVIOUS
<1>4. /\ Tables(T, S, nx, own) /\ Task(T, S, nx, me, own) /\ me.at = "delete-position"
      /\ Pair(s) = pa /\ PositionOf(s, pa) = PositionIn(S, me, pa) /\ me = session[s]
      /\ Orderly(T, S, nx, me, own, dirty)
  BY <1>1, <1>2, <1>3, Setting DEF Here
<1>5. PositionIn(S, me, pa) = S[pa]
  <2>1. me.at \in Works /\ me.at \notin {"sync", "link"}
    BY <1>4 DEF Works
  <2> QED
    BY <1>3, <1>4, <2>1, AtWork
<1>6. PICK me2 : me2 = PositionDeleted(S, me, pa)
  OBVIOUS
<1>7. CASE Fail(s, 500)
  BY <1>1, <1>7, FailKeeps DEF Fail
<1>8. CASE Go(s, me2)
  <2>1. /\ Task(T, S, nx, me2, own) /\ Goes(T, nx, me, me2)
        /\ me2.written = me.written
        /\ DOMAIN me2.positions \subseteq DOMAIN me.positions \cup {pa}
    BY <1>3, <1>4, <1>6, DeletePositionSound
  <2>2. ASSUME NEW r \in Live(session) \ {s}
        PROVE  /\ me2.written \cap session[r].written = {}
               /\ DOMAIN me2.positions \cap DOMAIN session[r].positions = {}
    <3>1. /\ r \in Sessions \ {s} /\ r \in Active
          /\ me.written \cap session[r].written = {}
          /\ DOMAIN me.positions \cap DOMAIN session[r].positions = {}
      BY <1>1, <1>2, Setting
    <3>2. pa \notin DOMAIN session[r].positions
      BY <1>1, <1>4, <3>1 DEF HoldsPosition
    <3> QED
      BY <2>1, <3>1, <3>2
  <2>3. Orderly(T, S, nx, me2, own, dirty)
    BY <1>3, <1>4, <1>6, DeletePositionOrderly
  <2> QED
    BY <1>1, <1>2, <1>8, <2>1, <2>2, <2>3, GoKeeps
<1>9. Fail(s, 500) \/ Go(s, me2)
  <2>1. WithRow(s, NoRow) =
          [qb \in DOMAIN me.positions \cup {pa} |-> IF qb = pa THEN NoRow ELSE me.positions[qb]]
    BY <1>4 DEF WithRow
  <2>2. \/ Fail(s, 500)
        \/ Go(s, [me EXCEPT !.at = "sync", !.target = 0,
                            !.positions = IF S[pa].id = me.found.id THEN WithRow(s, NoRow) ELSE @])
    BY <1>4, <1>5 DEF DeletePosition
  <2> QED
    BY <1>6, <2>1, <2>2 DEF PositionDeleted
<1> QED
  BY <1>7, <1>8, <1>9

LEMMA SyncListKeeps ==
  ASSUME NEW own, SessionsInv(own), NEW s \in Sessions, SyncList(s)
  PROVE  SessionsInv(own)'
<1>1. session[s].at = "sync" /\ next' = next
  BY DEF SyncList, At
<1>2. PICK T, S, nx, me : Here(s, T, S, nx, me)
  BY DEF Here
<1>3. /\ Tables(T, S, nx, own) /\ Task(T, S, nx, me, own) /\ me.at = "sync"
      /\ TradesOf(s) = View(T, me) /\ Pair(s) = Head(me.todo) /\ me = session[s]
      /\ Orderly(T, S, nx, me, own, dirty)
  BY <1>1, <1>2, Setting DEF Here
<1>4. PICK listed : listed = ListedAgain(T, me)
  OBVIOUS
<1>5. PICK held : held = Held(me, listed)
  OBVIOUS
<1>6. PICK me2 : me2 = ListSynced(me, listed, held)
  OBVIOUS
<1>7. Go(s, me2)
  <2>1. Listed(s) = held \cup {u \in listed : ~\E t \in held : t.id = u.id}
    BY <1>3, <1>4, <1>5 DEF Listed, ListedAgain, Held
  <2> QED
    BY <1>3, <1>6, <2>1 DEF SyncList, ListSynced
<1>8. /\ Task(T, S, nx, me2, own) /\ Goes(T, nx, me, me2)
      /\ me2.written = me.written /\ me2.positions = me.positions
  BY <1>3, <1>4, <1>5, <1>6, SyncListSound
<1>9. \A r \in Live(session) \ {s} :
        /\ me2.written \cap session[r].written = {}
        /\ DOMAIN me2.positions \cap DOMAIN session[r].positions = {}
  BY <1>1, <1>2, <1>8, Setting
<1>10. Orderly(T, S, nx, me2, own, dirty)
  BY <1>3, <1>4, <1>5, <1>6, SyncListOrderly
<1> QED
  BY <1>1, <1>2, <1>7, <1>8, <1>9, <1>10, GoKeeps

LEMMA LinkKeeps ==
  ASSUME NEW own, SessionsInv(own), NEW s \in Sessions, LinkTrade(s)
  PROVE  SessionsInv(own)'
<1>1. session[s].at = "link" /\ next' = next /\ Blockers(s) = {}
  BY DEF LinkTrade, At
<1>2. PICK T, S, nx, me : Here(s, T, S, nx, me)
  BY DEF Here
<1>3. /\ Tables(T, S, nx, own) /\ Task(T, S, nx, me, own) /\ me.at = "link"
      /\ TradesOf(s) = View(T, me) /\ me = session[s] /\ Orderly(T, S, nx, me, own, dirty)
  BY <1>1, <1>2, Setting DEF Here
<1>4. CASE Fail(s, 500)
  BY <1>1, <1>4, FailKeeps DEF Fail
<1>5. ASSUME NEW v \in NextLinked(s), NEW u \in TradesOf(s), u.id = v.id,
             NEW me2, me2 = TradeLinked(me, v, u), Go(s, me2)
      PROVE  SessionsInv(own)'
  <2>1. v \in me.seen /\ u \in View(T, me)
    BY <1>3, <1>5 DEF NextLinked, Relinked
  <2>2. /\ Task(T, S, nx, me2, own) /\ Goes(T, nx, me, me2)
        /\ me2.written = me.written \cup {u.id} /\ me2.positions = me.positions
    BY <1>3, <1>5, <2>1, LinkSound
  <2>3. ASSUME NEW r \in Live(session) \ {s}
        PROVE  /\ me2.written \cap session[r].written = {}
               /\ DOMAIN me2.positions \cap DOMAIN session[r].positions = {}
    <3>1. /\ r \in Sessions \ {s} /\ r \in Active
          /\ me.written \cap session[r].written = {}
          /\ DOMAIN me.positions \cap DOMAIN session[r].positions = {}
      BY <1>1, <1>2, Setting
    <3>2. r \notin Blockers(s)
      BY <1>1
    <3>3. ~Holds(r, v.id)
      BY <1>1, <1>5, <3>1, <3>2 DEF Blockers
    <3> QED
      BY <1>5, <2>2, <3>1, <3>3 DEF Holds
  <2>4. Orderly(T, S, nx, me2, own, dirty)
    BY <1>3, <1>5, <2>1, LinkOrderly
  <2> QED
    BY <1>1, <1>2, <1>5, <2>2, <2>3, <2>4, GoKeeps
<1>6. \/ Fail(s, 500)
      \/ \E v \in NextLinked(s) : \E u \in TradesOf(s) : u.id = v.id /\ Go(s, TradeLinked(me, v, u))
  BY <1>3 DEF LinkTrade, TradeLinked, LinkedTo
<1> QED
  BY <1>4, <1>5, <1>6

LEMMA LinkedKeeps ==
  ASSUME NEW own, SessionsInv(own), NEW s \in Sessions, EndLinking(s)
  PROVE  SessionsInv(own)'
<1>1. session[s].at = "link" /\ next' = next
  BY DEF EndLinking, At
<1>2. PICK T, S, nx, me : Here(s, T, S, nx, me)
  BY DEF Here
<1>3. /\ Tables(T, S, nx, own) /\ Task(T, S, nx, me, own) /\ me.at = "link"
      /\ me = session[s] /\ Orderly(T, S, nx, me, own, dirty)
  BY <1>1, <1>2, Setting DEF Here
<1>4. PICK me2 : me2 = Done(me)
  OBVIOUS
<1>5. \A t \in me.seen : t.position_id = me.target
  BY <1>3 DEF EndLinking, Relinked
<1>6. Go(s, me2)
  BY <1>3, <1>4 DEF EndLinking
<1>7. /\ Task(T, S, nx, me2, own) /\ Goes(T, nx, me, me2)
      /\ me2.written = me.written /\ me2.positions = me.positions
  BY <1>3, <1>4, <1>5, LinkedSound
<1>8. \A r \in Live(session) \ {s} :
        /\ me2.written \cap session[r].written = {}
        /\ DOMAIN me2.positions \cap DOMAIN session[r].positions = {}
  BY <1>1, <1>2, <1>7, Setting
<1>9. Orderly(T, S, nx, me2, own, dirty)
  BY <1>3, <1>4, <1>5, LinkedOrderly
<1> QED
  BY <1>1, <1>2, <1>6, <1>7, <1>8, <1>9, GoKeeps

LEMMA RereadKeeps ==
  ASSUME NEW own, SessionsInv(own), NEW s \in Sessions, Reread(s)
  PROVE  SessionsInv(own)'
BY FailKeeps DEF Reread

LEMMA StatementKeeps ==
  ASSUME NEW own, SessionsInv(own), NEW s \in Sessions, Statement(s)
  PROVE  \E own2 : SessionsInv(own2)'
<1>1. CASE InsertPosition(s)
  BY <1>1, InsertPositionKeeps
<1>2. CASE ~InsertPosition(s)
  <2>1. SessionsInv(own)'
    BY <1>2, ValidateKeeps, InsertKeeps, UpdateKeeps, DeleteKeeps, StartKeeps, ListKeeps,
       FindKeeps, UpdatePositionKeeps, LoadLinkedKeeps, UnlinkTradeKeeps, EndUnlinkingKeeps,
       DeletePositionKeeps, SyncListKeeps, LinkKeeps, LinkedKeeps, CommitKeeps, RereadKeeps
    DEF Statement
  <2> QED
    BY <2>1
<1> QED
  BY <1>1, <1>2

-----------------------------------------------------------------------------
(***************************************************************************)
(* The first reads of a request.                                           *)
(***************************************************************************)
LEMMA CandidateIs ==
  ASSUME NEW id, NEW portfolio \in Portfolios, NEW data,
         data.asset_id \in AssetIds, data.trade_type \in TradeTypes, data.executed_at \in Nat,
         NEW position, NEW row, row = WithPosition(RowOf(id, portfolio, data), position)
  PROVE  /\ Fields(row) /\ row.id = id /\ row.portfolio_id = portfolio
         /\ row.position_id = position /\ PairOf(row) \in Pairs
<1>1. PICK bare : bare = RowOf(id, portfolio, data)
  OBVIOUS
<1>2. /\ DOMAIN bare = RowFields \ {"position_id"}
      /\ bare.id = id /\ bare.portfolio_id = portfolio /\ bare.asset_id = data.asset_id
      /\ bare.trade_type = data.trade_type /\ bare.executed_at = data.executed_at
  BY <1>1 DEF RowOf, RowFields
<1>3. DOMAIN bare \cup {"position_id"} = RowFields
  BY <1>2 DEF RowFields
<1>4. row = [f \in RowFields |-> IF f = "position_id" THEN position ELSE bare[f]]
  BY <1>1, <1>3 DEF WithPosition
<1>5. /\ row = [f \in RowFields |-> row[f]]
      /\ row.id = id /\ row.portfolio_id = portfolio /\ row.position_id = position
      /\ row.asset_id = data.asset_id /\ row.trade_type = data.trade_type
      /\ row.executed_at = data.executed_at
  BY <1>2, <1>4 DEF RowFields
<1> HIDE DEF RowFields
<1>6. PairOf(row) \in Pairs
  BY <1>5 DEF PairOf, Pairs
<1> QED
  BY <1>5, <1>6 DEF Fields

LEMMA InputsAre ==
  ASSUME NEW data \in Inputs
  PROVE  data.asset_id \in AssetIds /\ data.trade_type \in TradeTypes /\ data.executed_at \in Nat
BY SessionsAssumption, TablesAssumption DEF TradeData

LEMMA TradesAre ==
  ASSUME NEW own, SessionsInv(own), NEW trade \in committed.trades
  PROVE  /\ IsRow(trade, next) /\ PairOf(trade) \in Pairs
         /\ trade.portfolio_id \in Portfolios /\ trade.asset_id \in AssetIds
<1>1. IsRow(trade, next)
  BY DEF SessionsInv, Tables, AreRows
<1>2. PairOf(trade) \in Pairs
  BY <1>1 DEF IsRow, Fields
<1> QED
  BY <1>1, <1>2 DEF PairOf, Pairs

LEMMA BeginRegisterKeeps ==
  ASSUME NEW own, SessionsInv(own), NEW s \in Sessions, NEW portfolio \in Portfolios,
         NEW data \in Inputs, BeginRegister(s, portfolio, data)
  PROVE  SessionsInv(own)'
<1>1. PICK row : row = WithPosition(RowOf(0, portfolio, data), 0)
  OBVIOUS
<1>2. Fields(row) /\ row.position_id = 0 /\ PairOf(row) \in Pairs
  BY <1>1, CandidateIs, InputsAre
<1>3. NoRow.id = 0
  BY DEF NoRow
<1>4. Fits(committed.trades, next, "validate", "register", NoRow, row, {PairOf(row)})
  BY <1>2, <1>3 DEF Fits
<1>5. Begin(s, "validate", "register", NoRow, row, {PairOf(row)})
  BY <1>1 DEF BeginRegister
<1> QED
  BY <1>4, <1>5, BeginKeeps

LEMMA BeginUpdateKeeps ==
  ASSUME NEW own, SessionsInv(own), NEW s \in Sessions, NEW trade \in committed.trades,
         NEW data \in EditsOf(trade, Inputs), BeginUpdate(s, trade, data)
  PROVE  SessionsInv(own)'
<1>1. /\ IsRow(trade, next) /\ PairOf(trade) \in Pairs
      /\ trade.portfolio_id \in Portfolios /\ trade.asset_id \in AssetIds
  BY TradesAre
<1>2. data.asset_id \in AssetIds /\ data.trade_type \in TradeTypes /\ data.executed_at \in Nat
  <2>1. CASE data \in Inputs
    BY <2>1, InputsAre
  <2>2. CASE data = DataOf(trade)
    BY <1>1, <2>2 DEF DataOf, IsRow, Fields
  <2>3. ASSUME NEW input \in Inputs, data = [input EXCEPT !.quantity = trade.quantity]
        PROVE  /\ data.asset_id = input.asset_id /\ data.trade_type = input.trade_type
               /\ data.executed_at = input.executed_at
    BY <2>3
  <2> QED
    BY <2>1, <2>2, <2>3, InputsAre DEF EditsOf
<1>3. PICK row : row = WithPosition(RowOf(trade.id, trade.portfolio_id, data), trade.position_id)
  OBVIOUS
<1>4. /\ Fields(row) /\ row.id = trade.id /\ row.portfolio_id = trade.portfolio_id
      /\ row.position_id = trade.position_id /\ PairOf(row) \in Pairs
  BY <1>1, <1>2, <1>3, CandidateIs
<1>5. Fits(committed.trades, next, "validate", "update", trade, row, {PairOf(trade), PairOf(row)})
  BY <1>1, <1>4 DEF Fits
<1>6. Begin(s, "validate", "update", trade, row, {PairOf(trade), PairOf(row)})
  BY <1>3 DEF BeginUpdate
<1> QED
  BY <1>5, <1>6, BeginKeeps

LEMMA BeginDeleteKeeps ==
  ASSUME NEW own, SessionsInv(own), NEW s \in Sessions, NEW trade \in committed.trades,
         BeginDelete(s, trade)
  PROVE  SessionsInv(own)'
<1>1. IsRow(trade, next) /\ PairOf(trade) \in Pairs
  BY TradesAre
<1>2. {PairOf(trade), PairOf(trade)} = {PairOf(trade)}
  OBVIOUS
<1>3. Fits(committed.trades, next, "delete", "delete", trade, trade, {PairOf(trade)})
  BY <1>1, <1>2 DEF Fits
<1>4. Begin(s, "delete", "delete", trade, trade, {PairOf(trade)})
  BY DEF BeginDelete
<1> QED
  BY <1>3, <1>4, BeginKeeps

LEMMA BeginRecalculateKeeps ==
  ASSUME NEW own, SessionsInv(own), NEW s \in Sessions, NEW pa \in Pairs,
         BeginRecalculate(s, pa[1], pa[2])
  PROVE  SessionsInv(own)'
<1>1. PICK row : row = [id |-> 0, portfolio_id |-> pa[1], asset_id |-> pa[2]]
  OBVIOUS
<1>2. pa = <<pa[1], pa[2]>>
  BY DEF Pairs
<1>3. row.id = 0 /\ PairOf(row) = pa
  BY <1>1, <1>2 DEF PairOf
<1>4. Fits(committed.trades, next, "start", "recalculate", row, row, {pa})
  BY <1>3 DEF Fits
<1>5. Begin(s, "start", "recalculate", row, row, {pa})
  BY <1>1, <1>2 DEF BeginRecalculate
<1> QED
  BY <1>4, <1>5, BeginKeeps

LEMMA RequestKeeps ==
  ASSUME NEW own, SessionsInv(own), NEW s \in Sessions, Request(s)
  PROVE  SessionsInv(own)'
BY BeginRegisterKeeps, BeginUpdateKeeps, BeginDeleteKeeps, BeginRecalculateKeeps DEF Request

-----------------------------------------------------------------------------
LEMMA NextKeeps ==
  ASSUME NEW own, SessionsInv(own), [Next]_vars
  PROVE  \E own2 : SessionsInv(own2)'
<1>1. ASSUME NEW s \in Sessions, Request(s) PROVE SessionsInv(own)'
  BY <1>1, RequestKeeps
<1>2. ASSUME NEW s \in Sessions, Statement(s) PROVE \E own2 : SessionsInv(own2)'
  BY <1>2, StatementKeeps
<1>3. ASSUME NEW s \in Sessions, Crash(s) PROVE SessionsInv(own)'
  BY <1>3, FailKeeps DEF Crash
<1>4. ASSUME NEW s \in Sessions, BreakDeadlock(s) PROVE SessionsInv(own)'
  BY <1>4, FailKeeps DEF BreakDeadlock, Fail
<1>5. ASSUME UNCHANGED vars PROVE SessionsInv(own)'
  BY <1>5 DEF vars, SessionsInv, OnlyOverlapDamages, Settled
<1> QED
  BY <1>1, <1>2, <1>3, <1>4, <1>5 DEF Next

-----------------------------------------------------------------------------
(***************************************************************************)
(* Who waits for whom, on a pair that nobody moves a trade to or from and  *)
(* where nothing is damaged: who has written the position waits for none,  *)
(* who links trades waits for nothing but the position, and who finds no   *)
(* trade left has none to unlink. So no chain of requests that wait for    *)
(* each other leads back to where it began.                                *)
(***************************************************************************)
\* The rows a request has still to link are its own.
LEMMA LinksItsOwn ==
  ASSUME NEW T, NEW S, NEW nx, NEW own, NEW me, DOMAIN me = MeFields, NEW a \in Pairs,
         Wants(me) = {a}, Lone(T, S, nx, me, own, a), SettledIn(T, S[a], a),
         NEW d, Placed(me, d), me.at = "link",
         NEW t \in me.seen, t.position_id # me.target
  PROVE  t.id \in me.written
<1>1. PICK you : you = Alone(me)
  OBVIOUS
<1>2. /\ you.at = "link" /\ you.seen = me.seen /\ you.rows = me.rows /\ you.written = me.written
      /\ you.found = me.found /\ you.target = me.target /\ you.todo = me.todo /\ you.quiet
  BY <1>1, AloneIs
<1>3. Head(me.todo) = a
  BY LoneTodo DEF Late, Works
<1>4. Task(T, S, nx, you, own)
  BY <1>1 DEF Lone
<1>5. /\ SeenStill(T, you) /\ FoundStill(S, you) /\ MadeOfSeen(S, you)
      /\ \A u \in you.rows : u.id \in you.written
      /\ PairOf(t) = a
  BY <1>2, <1>3, <1>4 DEF Task, Fresh, Shape, Wrote, HasRead, Works
<1>6. PICK u \in View(T, you) : Alike(t, u)
  BY <1>2, <1>5 DEF SeenStill, Works, Looks
<1>7. u.id = t.id /\ PairOf(u) = a
  BY <1>5, <1>6 DEF Alike
<1>8. CASE u \in me.rows
  BY <1>2, <1>5, <1>7, <1>8
<1>9. CASE u \notin me.rows
  <2>1. u \in LedgerOf(T, a[1], a[2])
    BY <1>2, <1>7, <1>9, LedgerPairs DEF View
  <2>2. u.position_id = S[a].id /\ S[a].id # 0
    BY <2>1 DEF SettledIn
  <2>3. me.found = S[a]
    BY <1>2, <1>3, <1>5 DEF FoundStill, Works
  <2>4. t.position_id = me.found.id
    BY <1>6, <2>2, <2>3 DEF Alike
  <2>5. me.target # 0
    BY <1>2, <1>5 DEF MadeOfSeen
  <2> QED
    BY <2>2, <2>3, <2>4, <2>5 DEF Placed
<1> QED
  BY <1>8, <1>9

\* Nothing is left of the pair when its position is deleted.
LEMMA NothingIsLeft ==
  ASSUME NEW T, NEW S, NEW nx, NEW own, NEW me, DOMAIN me = MeFields, NEW a,
         Wants(me) = {a}, Lone(T, S, nx, me, own, a), me.at = "delete-position"
  PROVE  \A u \in View(T, me) : PairOf(u) # a
<1>1. PICK you : you = Alone(me)
  OBVIOUS
<1>2. you.at = me.at /\ you.seen = me.seen /\ you.todo = me.todo /\ you.quiet
  BY <1>1, AloneIs
<1>3. View(T, you) = View(T, me)
  BY <1>1, AloneSees
<1>4. Head(me.todo) = a /\ me.at \in Works
  BY LoneTodo DEF Late, Works
<1>5. Task(T, S, nx, you, own)
  BY <1>1 DEF Lone
<1>6. SeenStill(T, you) /\ me.seen = {}
  BY <1>2, <1>5 DEF Task, Fresh, Shape, HasRead
<1> QED
  BY <1>2, <1>3, <1>4, <1>6 DEF SeenStill

\* A pair that nobody moves a trade to or from, and that is not damaged, no more than the
\* others that the requests on it have to do with.
Undisturbed(a) ==
  /\ a \in Pairs \ dirty
  /\ \A r \in Active : a \in session[r].zone => ~Moves(r) /\ session[r].zone \cap dirty = {}

\* All about a session at work.
LEMMA LiveIs ==
  ASSUME NEW own, SessionsInv(own), NEW s \in Live(session),
         NEW T, NEW S, NEW nx, NEW me, Here(s, T, S, nx, me)
  PROVE  /\ s \in Sessions /\ s \in Active /\ me.at \in Early \cup Late /\ DOMAIN me = MeFields
         /\ Tables(T, S, nx, own) /\ Task(T, S, nx, me, own) /\ Orderly(T, S, nx, me, own, dirty)
         /\ TradesOf(s) = View(T, me) /\ Pair(s) = Head(me.todo)
         /\ \A a \in Pairs \ dirty : SettledIn(T, S[a], a)
<1>1. s \in Sessions /\ session[s].at \notin {"idle", "reread"}
  BY DEF Live
<1>2. /\ Tables(T, S, nx, own) /\ Task(T, S, nx, me, own)
      /\ TradesOf(s) = View(T, me) /\ Pair(s) = Head(me.todo)
  BY <1>1, Setting DEF SessionsInv
<1>3. Orderly(T, S, nx, me, own, dirty)
  BY DEF SessionsInv, Here
<1>4. \A a \in Pairs \ dirty : SettledIn(T, S[a], a)
  BY DEF Here, SessionsInv, OnlyOverlapDamages, Settled, SettledIn
<1> QED
  BY <1>1, <1>2, <1>3, <1>4 DEF Active, Task, Shape, Asked

\* Who has to do with such a pair, was asked for this pair only.
LEMMA AskedForIt ==
  ASSUME NEW own, SessionsInv(own), NEW s \in Live(session),
         NEW T, NEW S, NEW nx, NEW me, Here(s, T, S, nx, me),
         NEW a, Undisturbed(a), a \in Wants(me) \cup Spoilt(me, dirty)
  PROVE  Wants(me) = {a} /\ Lone(T, S, nx, me, own, a)
<1>1. s \in Active /\ Task(T, S, nx, me, own) /\ Orderly(T, S, nx, me, own, dirty)
  BY LiveIs
<1>2. a \in Wants(me) /\ a \in me.zone
  BY <1>1 DEF Undisturbed, Spoilt, Task, Shape, Asked
<1>3. ~Moves(s) /\ Calm(me, dirty)
  BY <1>1, <1>2 DEF Undisturbed, Here, Calm
<1>4. Wants(me) = {a}
  BY <1>1, <1>2, <1>3 DEF Moves, Wants, Here, Task, Shape, Asked
<1> QED
  BY <1>1, <1>3, <1>4 DEF Orderly, Undisturbed

LEMMA BlockersAre ==
  ASSUME NEW s, NEW me, me = session[s]
  PROVE  /\ me.at = "update" => \A r \in Blockers(s) : r \in Sessions \ {s} /\ Holds(r, me.loaded.id)
         /\ me.at = "delete" => \A r \in Blockers(s) : r \in Sessions \ {s} /\ Holds(r, me.loaded.id)
         /\ me.at \in {"insert-position", "update-position"} =>
              \A r \in Blockers(s) : r \in Sessions \ {s} /\ HoldsPosition(r, Pair(s))
         /\ me.at = "clear" =>
              \A r \in Blockers(s) : /\ r \in Sessions \ {s}
                                     /\ \E i \in me.linked : Holds(r, i)
         /\ me.at = "delete-position" =>
              \A r \in Blockers(s) : /\ r \in Sessions \ {s}
                /\ \/ HoldsPosition(r, Pair(s))
                   \/ HoldsReference(r, me.found.id)
         /\ me.at = "link" =>
              \A r \in Blockers(s) : /\ r \in Sessions \ {s}
                /\ \/ HoldsPosition(r, Pair(s))
                   \/ \E t \in Relinked(s) : Holds(r, t.id)
         /\ me.at \notin {"update", "delete", "insert-position", "update-position", "clear",
                          "delete-position", "link"} => Blockers(s) = {}
<1>1. CASE me.at \in {"update", "delete"}
  BY <1>1 DEF Blockers
<1>2. CASE me.at \in {"insert-position", "update-position"}
  BY <1>2 DEF Blockers
<1>3. CASE me.at = "clear"
  BY <1>3 DEF Blockers, NextUnlinked
<1>4. CASE me.at = "delete-position"
  BY <1>4 DEF Blockers
<1>5. CASE me.at = "link"
  BY <1>5 DEF Blockers, NextLinked
<1>6. CASE me.at \notin {"update", "delete", "insert-position", "update-position", "clear",
                         "delete-position", "link"}
  BY <1>6 DEF Blockers
<1> QED
  BY <1>1, <1>2, <1>3, <1>4, <1>5, <1>6

\* Nobody waits for a request that has written nothing yet.
LEMMA BlockersWork ==
  ASSUME NEW own, SessionsInv(own), NEW s, NEW r \in Blockers(s)
  PROVE  r \in Live(session) /\ r # s /\ session[r].at \notin Early
<1>1. PICK me : me = session[s]
  OBVIOUS
<1>2. PICK you : you = session[r]
  OBVIOUS
<1>3. /\ r \in Sessions \ {s} /\ r \in Active
      /\ you.written # {} \/ DOMAIN you.positions # {} \/ you.rows # {}
  <2>1. CASE me.at \in {"update", "delete"}
    BY <1>1, <1>2, <2>1, BlockersAre DEF Holds
  <2>2. CASE me.at \in {"insert-position", "update-position"}
    BY <1>1, <1>2, <2>2, BlockersAre DEF HoldsPosition
  <2>3. CASE me.at = "clear"
    BY <1>1, <1>2, <2>3, BlockersAre DEF Holds
  <2>4. CASE me.at = "delete-position"
    BY <1>1, <1>2, <2>4, BlockersAre DEF HoldsPosition, HoldsReference
  <2>5. CASE me.at = "link"
    BY <1>1, <1>2, <2>5, BlockersAre DEF HoldsPosition, Holds
  <2> QED
    BY <1>1, <2>1, <2>2, <2>3, <2>4, <2>5, BlockersAre
<1>4. r \in Live(session)
  BY <1>2, <1>3 DEF SessionsInv, Rereads, Idle, Active
<1>5. you.at \notin Early
  BY <1>2, <1>3, <1>4 DEF SessionsInv, Task, Shape, Wrote
<1> QED
  BY <1>2, <1>3, <1>4, <1>5

LEMMA HeldApart ==
  ASSUME NEW own, SessionsInv(own), NEW r \in Live(session), NEW q \in Live(session), q # r
  PROVE  /\ session[r].written \cap session[q].written = {}
         /\ DOMAIN session[r].positions \cap DOMAIN session[q].positions = {}
BY DEF SessionsInv, Apart

\* A request that links the trades of such a pair waits for none that holds one of them.
LEMMA LinkersWaitForPositions ==
  ASSUME NEW own, SessionsInv(own), NEW a, Undisturbed(a), NEW r \in Live(session),
         Wants(session[r]) = {a}, session[r].at = "link", NEW q \in Blockers(r)
  PROVE  Pair(r) = a /\ a \in DOMAIN session[q].positions
<1>1. PICK T, S, nx, me : Here(r, T, S, nx, me)
  BY DEF Here
<1>2. me = session[r] /\ a \in Pairs \ dirty
  BY <1>1 DEF Here, Undisturbed
<1>3. /\ DOMAIN me = MeFields /\ Pair(r) = Head(me.todo) /\ SettledIn(T, S[a], a)
      /\ Placed(me, dirty)
  BY <1>1, <1>2, LiveIs DEF Orderly
<1>4. Lone(T, S, nx, me, own, a)
  BY <1>1, <1>2, AskedForIt
<1>5. Head(me.todo) = a
  BY <1>2, <1>3, <1>4, LoneTodo DEF Late, Works
<1>6. ASSUME NEW t \in Relinked(r), Holds(q, t.id) PROVE FALSE
  <2>1. t \in me.seen /\ t.position_id # me.target
    BY <1>2, <1>6 DEF Relinked
  <2>2. t.id \in me.written
    BY <1>2, <1>3, <1>4, <2>1, LinksItsOwn
  <2>3. q \in Live(session) /\ q # r
    BY BlockersWork
  <2> QED
    BY <1>2, <1>6, <2>2, <2>3, HeldApart DEF Holds
<1>7. HoldsPosition(q, Pair(r))
  BY <1>2, <1>6, BlockersAre
<1> QED
  BY <1>3, <1>5, <1>7 DEF HoldsPosition

\* A request that has written the position of such a pair waits for nobody.
LEMMA HoldersPass ==
  ASSUME NEW own, SessionsInv(own), NEW a, Undisturbed(a), NEW r \in Live(session),
         a \in DOMAIN session[r].positions
  PROVE  Blockers(r) = {}
<1>1. PICK T, S, nx, me : Here(r, T, S, nx, me)
  BY DEF Here
<1>2. me = session[r] /\ a \in Pairs \ dirty
  BY <1>1 DEF Here, Undisturbed
<1>3. /\ DOMAIN me = MeFields /\ me.at \in Early \cup Late /\ Task(T, S, nx, me, own)
      /\ Placed(me, dirty)
  BY <1>1, LiveIs DEF Orderly
<1>4. Wants(me) = {a} /\ Lone(T, S, nx, me, own, a)
  BY <1>1, <1>2, <1>3, AskedForIt DEF Placed
<1>5. me.at \in {"sync", "link", "commit"}
  <2>1. me.at \in Late
    BY <1>2, <1>3 DEF Task, Shape, Wrote
  <2>2. CASE me.at # "commit"
    <3>1. a \in InTodo(me)
      BY <1>3, <1>4, <2>1, <2>2, LoneTodo
    <3> QED
      BY <1>2, <1>3, <2>1, <3>1 DEF Task, Shape, Planned
  <2> QED
    BY <2>2
<1>6. ASSUME NEW q \in Blockers(r), me.at = "link" PROVE FALSE
  <2>1. a \in DOMAIN session[q].positions
    BY <1>2, <1>4, <1>6, LinkersWaitForPositions
  <2>2. q \in Live(session) /\ q # r
    BY BlockersWork
  <2> QED
    BY <2>1, <2>2, HeldApart
<1> QED
  BY <1>2, <1>5, <1>6, BlockersAre

\* Those a request waits for, that recalculates such a pair and does not delete its
\* position, wait for nobody.
LEMMA BlockersPass ==
  ASSUME NEW own, SessionsInv(own), NEW a, Undisturbed(a), NEW r \in Live(session),
         Wants(session[r]) = {a},
         session[r].at \in {"insert-position", "update-position", "link"}, NEW q \in Blockers(r)
  PROVE  Blockers(q) = {}
<1>1. PICK T, S, nx, me : Here(r, T, S, nx, me)
  BY DEF Here
<1>2. me = session[r] /\ a \in Pairs \ dirty
  BY <1>1 DEF Here, Undisturbed
<1>3. DOMAIN me = MeFields /\ Pair(r) = Head(me.todo)
  BY <1>1, LiveIs
<1>4. Lone(T, S, nx, me, own, a)
  BY <1>1, <1>2, AskedForIt
<1>5. Head(me.todo) = a
  BY <1>2, <1>3, <1>4, LoneTodo DEF Late, Works
<1>6. a \in DOMAIN session[q].positions
  <2>1. CASE me.at = "link"
    BY <1>2, <2>1, LinkersWaitForPositions
  <2>2. CASE me.at \in {"insert-position", "update-position"}
    BY <1>2, <1>3, <1>5, <2>2, BlockersAre DEF HoldsPosition
  <2> QED
    BY <1>2, <2>1, <2>2
<1>7. q \in Live(session)
  BY BlockersWork
<1> QED
  BY <1>6, <1>7, HoldersPass

\* Those that refer to the position of such a pair are at work on the pair themselves.
LEMMA ReferrersPass ==
  ASSUME NEW own, SessionsInv(own), NEW a, Undisturbed(a), NEW s \in Live(session),
         Wants(session[s]) = {a}, session[s].at = "delete-position",
         NEW r \in Blockers(s), NEW q \in Blockers(r)
  PROVE  Blockers(q) = {}
<1>1. PICK T, S, nx, me : Here(s, T, S, nx, me)
  BY DEF Here
<1>2. PICK you : Here(r, T, S, nx, you)
  BY <1>1 DEF Here
<1>3. me = session[s] /\ you = session[r] /\ a \in Pairs \ dirty
  BY <1>1, <1>2 DEF Here, Undisturbed
<1>4. r \in Live(session) /\ r # s /\ you.at \notin Early
  BY <1>3, BlockersWork
<1>5. /\ DOMAIN me = MeFields /\ Task(T, S, nx, me, own) /\ SettledIn(T, S[a], a)
      /\ Pair(s) = Head(me.todo)
  BY <1>1, <1>3, LiveIs
<1>6. Lone(T, S, nx, me, own, a)
  BY <1>1, <1>3, AskedForIt
<1>7. Head(me.todo) = a
  BY <1>3, <1>5, <1>6, LoneTodo DEF Late, Works
<1>8. CASE HoldsPosition(r, Pair(s))
  BY <1>3, <1>4, <1>5, <1>7, <1>8, HoldersPass DEF HoldsPosition
<1>9. CASE HoldsReference(r, me.found.id)
  <2>1. PICK t \in you.rows : t.position_id = me.found.id
    BY <1>3, <1>9 DEF HoldsReference
  <2>2. /\ DOMAIN you = MeFields /\ Task(T, S, nx, you, own) /\ InPlace(T, you, dirty)
        /\ Refers(T, you, own, dirty)
    BY <1>2, <1>4, LiveIs DEF Orderly
  <2>3. me.found.id # 0 /\ own[me.found.id] = a
    <3>1. me.found.id # 0 /\ IsPositionRow(me.found, a, nx, own)
      BY <1>3, <1>5, <1>7 DEF Task, Shape, HasRead, Works
    <3> QED
      BY <3>1 DEF IsPositionRow, NoRow
  <2>4. PairOf(t) = a
    <3>1. ASSUME NEW u \in T, u.id = t.id, u.position_id = t.position_id PROVE FALSE
      <4>1. t.id \in me.written
        BY <1>3, <1>6, <2>1, <3>1 DEF Lone
      <4>2. t.id \in you.written
        BY <2>1, <2>2 DEF Task, Shape, Wrote
      <4> QED
        BY <1>3, <1>4, <4>1, <4>2, HeldApart
    <3> QED
      BY <1>3, <2>1, <2>2, <2>3, <3>1 DEF Refers, Spoilt
  <2>5. Wants(you) = {a} /\ Lone(T, S, nx, you, own, a)
    BY <1>2, <1>4, <2>1, <2>2, <2>3, <2>4, AskedForIt DEF InPlace
  <2>6. you.at # "delete-position"
    <3>1. t \in View(T, you)
      BY <2>1 DEF View
    <3> QED
      BY <2>2, <2>4, <2>5, <3>1, NothingIsLeft
  <2>7. you.at \in {"insert-position", "update-position", "link"}
    <3>1. you.at \notin {"update", "delete"}
      BY <1>4 DEF Early
    <3>2. you.linked = {}
      BY <2>5 DEF Lone
    <3>3. you.at # "clear"
      BY <1>3, <3>2, BlockersAre
    <3> QED
      BY <1>3, <2>6, <3>1, <3>3, BlockersAre
  <2> QED
    BY <1>3, <1>4, <2>5, <2>7, BlockersPass
<1> QED
  BY <1>3, <1>8, <1>9, BlockersAre

LEMMA NoCircle ==
  ASSUME NEW own, SessionsInv(own), NEW s \in Active, NEW a, a = PairOf(session[s].wanted),
         session[s].zone \cap dirty = {}, \A r \in Active : a \in session[r].zone => ~Moves(r)
  PROVE  ~InDeadlock(s)
<1> SUFFICES ASSUME InDeadlock(s)
             PROVE  FALSE
  OBVIOUS
<1>1. ASSUME NEW waited, waited \subseteq Active, Blockers(s) \subseteq waited,
             \A r \in waited : Blockers(r) \subseteq waited
      PROVE  s \in waited
  <2>1. Blockers(s) \cup UNION {Blockers(r) : r \in waited} \subseteq waited
    BY <1>1
  <2> QED
    BY <1>1, <2>1 DEF InDeadlock
<1>2. Blockers(s) # {}
  BY <1>1
<1>3. s \in Live(session)
  <2>1. CASE Rereads(session[s])
    <3>1. Blockers(s) = {}
      BY <2>1, BlockersAre DEF Rereads
    <3> QED
      BY <1>2, <3>1
  <2> QED
    BY <2>1 DEF SessionsInv, Active, Idle
<1>4. PICK T, S, nx, me : Here(s, T, S, nx, me)
  BY DEF Here
<1>5. me = session[s]
  BY <1>4 DEF Here
<1>6. a \in Wants(me)
  BY <1>5 DEF Wants
<1>7. Undisturbed(a)
  <2>1. a \in Pairs /\ a \in me.zone
    BY <1>3, <1>4, <1>6, LiveIs DEF Task, Shape, Asked
  <2>2. ASSUME NEW r \in Active, a \in session[r].zone PROVE session[r].zone \cap dirty = {}
    <3>1. r \in Live(session)
      BY <2>2 DEF SessionsInv, Active, Idle, Rereads
    <3>2. r = s \/ Apart(committed.trades, session[s], session[r])
      BY <1>3, <3>1 DEF SessionsInv
    <3>3. session[r].zone = session[s].zone
      BY <1>5, <2>1, <2>2, <3>2 DEF Apart
    <3> QED
      BY <3>3
  <2> QED
    BY <1>5, <2>1, <2>2 DEF Undisturbed
<1>8. Wants(me) = {a} /\ Lone(T, S, nx, me, own, a)
  BY <1>3, <1>4, <1>6, <1>7, AskedForIt
<1> DEFINE busy == {r \in Live(session) : session[r].at \notin Early}
<1>9. /\ busy \subseteq Active
      /\ \A r : Blockers(r) \subseteq busy \ {r}
  <2>1. busy \subseteq Active
    BY DEF Live, Active
  <2> QED
    BY <2>1, BlockersWork
<1>10. CASE me.at \in {"update", "delete"}
  <2>1. s \in busy
    BY <1>1, <1>9
  <2> QED
    BY <1>5, <1>10, <2>1 DEF Early
<1>11. CASE me.at \in {"insert-position", "update-position", "link"}
  <2>1. \A r \in Blockers(s) : Blockers(r) = {}
    BY <1>3, <1>5, <1>7, <1>8, <1>11, BlockersPass
  <2>2. s \in Blockers(s)
    BY <1>1, <1>9, <2>1
  <2> QED
    BY <1>9, <2>2
<1>12. CASE me.at = "clear"
  <2>1. me.linked = {}
    BY <1>8 DEF Lone
  <2>2. Blockers(s) = {}
    BY <1>5, <1>12, <2>1, BlockersAre
  <2> QED
    BY <1>2, <2>2
<1>13. CASE me.at = "delete-position"
  <2> DEFINE waited == {r \in Active : Blockers(r) = {}} \cup Blockers(s)
  <2>1. waited \subseteq Active
    BY <1>9
  <2>2. ASSUME NEW r \in Blockers(s) PROVE Blockers(r) \subseteq waited
    <3>1. \A q \in Blockers(r) : Blockers(q) = {}
      BY <1>3, <1>5, <1>7, <1>8, <1>13, ReferrersPass
    <3> QED
      BY <1>9, <3>1
  <2>3. s \in waited
    <3>1. \A r \in waited : Blockers(r) \subseteq waited
      BY <2>2
    <3> HIDE DEF waited
    <3>2. Blockers(s) \subseteq waited
      BY DEF waited
    <3> QED
      BY <1>1, <2>1, <3>1, <3>2
  <2> QED
    BY <1>2, <1>9, <2>3
<1> QED
  BY <1>2, <1>5, <1>10, <1>11, <1>12, <1>13, BlockersAre

LEMMA NoOtherDeadlock ==
  ASSUME NEW own, SessionsInv(own)
  PROVE  OnlyMovesOrDamageDeadlock
<1> SUFFICES ASSUME NEW s \in Active, NEW pa, pa = PairOf(session[s].wanted), InDeadlock(s),
                    ~\E r \in Active : Moves(r) /\ pa \in session[r].zone
             PROVE  session[s].zone \cap dirty # {}
  BY DEF OnlyMovesOrDamageDeadlock
<1> QED
  BY NoCircle

-----------------------------------------------------------------------------
\* modules/trade/services/trade_service.py, sync_service.py and position_service.py, run by
\* any number of threads at once, on READ COMMITTED: whatever interleaving, crash, deadlock
\* or failing statement there was, the ledger, the position and the position_ids of a pair
\* agree as long as the last request to write the pair had it to itself.
THEOREM OnlyOverlapEverDamages == Spec => []OnlyOverlapDamages
<1> DEFINE Inv == \E own : SessionsInv(own)
<1>1. Init => Inv
  BY InitKeeps
<1>2. Inv /\ [Next]_vars => Inv'
  BY NextKeeps
<1>3. Inv => OnlyOverlapDamages
  BY DEF SessionsInv
<1> HIDE DEF Inv
<1> QED
  BY <1>1, <1>2, <1>3, PTL DEF Spec

\* The same services, and the row locks the database takes for them: sessions that wait for
\* each other in a circle, so that the database aborts one of them, are never all of requests
\* for an undamaged pair that nobody moves a trade to or from.
THEOREM OnlyMovesOrDamageEverDeadlock == Spec => []OnlyMovesOrDamageDeadlock
<1> DEFINE Inv == \E own : SessionsInv(own)
<1>1. Init => Inv
  BY InitKeeps
<1>2. Inv /\ [Next]_vars => Inv'
  BY NextKeeps
<1>3. Inv => OnlyMovesOrDamageDeadlock
  BY NoOtherDeadlock
<1> HIDE DEF Inv
<1> QED
  BY <1>1, <1>2, <1>3, PTL DEF Spec
=============================================================================
