---------------------------- MODULE ReplayProofs ----------------------------
(***************************************************************************)
(* What the proofs about trades use of the replay of a ledger              *)
(* (modules/trade/services/position_engine.py).                            *)
(***************************************************************************)
EXTENDS PositionEngine, FiniteSetTheorems, TLAPS

-----------------------------------------------------------------------------
(***************************************************************************)
(* Replay, unfolded: the replay of a ledger is its latest trade applied to *)
(* the replay of the others.  Induction is over the subsets of a ledger:   *)
(* of those that break a claim one is the least.                           *)
(***************************************************************************)
\* What no two trades of a ledger share, and what orders them.
IsLedger(L) ==
  /\ IsFiniteSet(L)
  /\ \A t \in L : t.id \in Nat /\ t.executed_at \in Nat
  /\ \A t, u \in L : t.id = u.id => t = u

LEMMA LeastSubset ==
  ASSUME NEW L, IsFiniteSet(L), NEW T, T \subseteq SUBSET L, T # {}
  PROVE  \E s \in T : \A r \in T : r \subseteq s => r = s
<1>1. FiniteSubsetsOf(L) = SUBSET L
  BY FS_FiniteSubsetsOfFinite
<1>2. IsWellFoundedOn(StrictSubsetOrdering(L), SUBSET L)
  BY <1>1, FS_StrictSubsetOrderingWellFounded
<1>3. PICK s \in T : \A r \in T : ~ (<<r, s>> \in StrictSubsetOrdering(L))
  BY <1>2, WFMin
<1> QED
  BY <1>3 DEF StrictSubsetOrdering

LEMMA PrecedesIsAnOrder ==
  ASSUME NEW L, IsLedger(L), NEW t \in L, NEW u \in L, NEW v \in L
  PROVE  /\ t # u => Precedes(t, u) \/ Precedes(u, t)
         /\ Precedes(t, u) /\ Precedes(u, v) => Precedes(t, v)
         /\ ~ (Precedes(t, u) /\ Precedes(u, t))
  BY DEF IsLedger, Precedes

LEMMA SubLedger ==
  ASSUME NEW L, IsLedger(L), NEW s, s \subseteq L
  PROVE  IsLedger(s)
<1>1. IsFiniteSet(s)
  BY FS_Subset DEF IsLedger
<1> QED
  BY <1>1 DEF IsLedger

LEMMA LatestIs ==
  ASSUME NEW L, IsLedger(L), L # {}
  PROVE  Latest(L) \in L /\ \A u \in L \ {Latest(L)} : Precedes(u, Latest(L))
<1> DEFINE Lasts(s, t) == t \in s /\ \A u \in s \ {t} : Precedes(u, t)
           bad == {s \in SUBSET L : s # {} /\ ~ \E t \in s : Lasts(s, t)}
<1>1. bad = {}
  <2> SUFFICES ASSUME bad # {} PROVE FALSE
    OBVIOUS
  <2>1. PICK s \in bad : \A r \in bad : r \subseteq s => r = s
    <3>1. bad \subseteq SUBSET L /\ IsFiniteSet(L)
      BY DEF IsLedger
    <3> HIDE DEF bad
    <3> QED
      BY <3>1, LeastSubset
  <2>2. s \in SUBSET L /\ s # {} /\ ~ \E t \in s : Lasts(s, t)
    OBVIOUS
  <2>3. PICK x \in s : TRUE
    BY <2>2
  <2>4. CASE s \ {x} = {}
    BY <2>2, <2>3, <2>4
  <2>5. CASE s \ {x} # {}
    <3>1. s \ {x} \notin bad
      BY <2>1, <2>3
    <3>2. PICK t \in s \ {x} : Lasts(s \ {x}, t)
      BY <2>2, <2>5, <3>1
    <3>3. CASE Precedes(x, t)
      BY <2>2, <3>2, <3>3
    <3>4. CASE Precedes(t, x)
      <4>1. \A u \in s \ {x} : Precedes(u, x)
        BY <2>2, <2>3, <3>2, <3>4, PrecedesIsAnOrder
      <4> QED
        BY <2>2, <2>3, <4>1
    <3> QED
      BY <2>2, <2>3, <3>2, <3>3, <3>4, PrecedesIsAnOrder
  <2> QED
    BY <2>4, <2>5
<1>2. PICK t \in L : Lasts(L, t)
  BY <1>1
<1> QED
  BY <1>2 DEF Latest

\* There is only one.
LEMMA LatestIsOnly ==
  ASSUME NEW L, IsLedger(L), NEW t \in L, \A u \in L \ {t} : Precedes(u, t)
  PROVE  Latest(L) = t
<1>1. Latest(L) \in L /\ \A u \in L \ {Latest(L)} : Precedes(u, Latest(L))
  BY LatestIs
<1> QED
  BY <1>1, PrecedesIsAnOrder

\* The function that Replay recurs through.
Iterates(L, it) ==
  it = [s \in SUBSET L |->
          IF s = {} THEN NoBook ELSE ApplyTrade(Latest(s), it[s \ {Latest(s)}])]

LEMMA ReplayIs == ASSUME NEW L PROVE Replay(L) = (CHOOSE it : Iterates(L, it))[L]
  BY DEF Replay, MapThenFoldSet, Iterates

LEMMA IteratesOnce ==
  ASSUME NEW L, IsLedger(L), NEW M, L \subseteq M,
         NEW f, Iterates(L, f), NEW g, Iterates(M, g)
  PROVE  f[L] = g[L]
<1> DEFINE bad == {s \in SUBSET L : f[s] # g[s]}
<1>1. bad = {}
  <2> SUFFICES ASSUME bad # {} PROVE FALSE
    OBVIOUS
  <2>1. PICK s \in bad : \A r \in bad : r \subseteq s => r = s
    <3>1. bad \subseteq SUBSET L /\ IsFiniteSet(L)
      BY DEF IsLedger
    <3> HIDE DEF bad
    <3> QED
      BY <3>1, LeastSubset
  <2>2. s \in SUBSET L /\ s \in SUBSET M /\ f[s] # g[s]
    OBVIOUS
  <2>3. /\ f[s] = IF s = {} THEN NoBook ELSE ApplyTrade(Latest(s), f[s \ {Latest(s)}])
        /\ g[s] = IF s = {} THEN NoBook ELSE ApplyTrade(Latest(s), g[s \ {Latest(s)}])
    BY <2>2 DEF Iterates
  <2>4. CASE s = {}
    BY <2>2, <2>3, <2>4
  <2>5. CASE s # {}
    <3>1. Latest(s) \in s
      BY <2>2, <2>5, SubLedger, LatestIs
    <3>2. s \ {Latest(s)} \notin bad
      BY <2>1, <3>1
    <3>3. f[s \ {Latest(s)}] = g[s \ {Latest(s)}]
      BY <2>2, <3>2
    <3> QED
      BY <2>2, <2>3, <2>5, <3>3
  <2> QED
    BY <2>4, <2>5
<1> QED
  BY <1>1

LEMMA IteratesSome ==
  ASSUME NEW L, IsLedger(L)
  PROVE  \E it : Iterates(L, it)
<1> DEFINE bad == {s \in SUBSET L : ~ \E it : Iterates(s, it)}
<1>1. bad = {}
  <2> SUFFICES ASSUME bad # {} PROVE FALSE
    OBVIOUS
  <2>1. PICK s \in bad : \A r \in bad : r \subseteq s => r = s
    <3>1. bad \subseteq SUBSET L /\ IsFiniteSet(L)
      BY DEF IsLedger
    <3> HIDE DEF bad
    <3> QED
      BY <3>1, LeastSubset
  <2>2. s \in SUBSET L /\ IsLedger(s)
    BY SubLedger
  <2>3. ASSUME NEW t \in SUBSET s, t # s
        PROVE  /\ IsLedger(t)
               /\ \E it : Iterates(t, it) /\ Replay(t) = it[t]
    <3>1. t \notin bad /\ t \in SUBSET L
      BY <2>1, <2>2, <2>3
    <3>2. Iterates(t, CHOOSE it : Iterates(t, it))
      BY <3>1
    <3> QED
      BY <2>2, <3>2, SubLedger, ReplayIs
  <2>4. ASSUME NEW t \in SUBSET s, t # {}
        PROVE  /\ Latest(t) \in t /\ t \ {Latest(t)} \in SUBSET s /\ t \ {Latest(t)} # s
               /\ t # s => Replay(t) = ApplyTrade(Latest(t), Replay(t \ {Latest(t)}))
    <3>1. Latest(t) \in t
      BY <2>2, <2>4, SubLedger, LatestIs
    <3> DEFINE r == t \ {Latest(t)}
    <3>2. r \in SUBSET s /\ r # s /\ r \subseteq t /\ r \in SUBSET t
      BY <3>1
    <3>3. ASSUME t # s
          PROVE  Replay(t) = ApplyTrade(Latest(t), Replay(r))
      <4>1. PICK f : Iterates(t, f) /\ Replay(t) = f[t]
        BY <2>3, <3>3
      <4>2. PICK g : Iterates(r, g) /\ Replay(r) = g[r]
        BY <2>3, <3>2
      <4>3. IsLedger(r)
        BY <2>3, <3>2
      <4> HIDE DEF r
      <4>4. g[r] = f[r]
        BY <3>2, <4>1, <4>2, <4>3, IteratesOnce
      <4>5. f[t] = ApplyTrade(Latest(t), f[t \ {Latest(t)}])
        BY <2>4, <4>1 DEF Iterates
      <4> QED
        BY <4>1, <4>2, <4>4, <4>5 DEF r
    <3> QED
      BY <3>1, <3>2, <3>3
  <2>5. s # {} => Replay({}) = NoBook
    <3> SUFFICES ASSUME s # {} PROVE Replay({}) = NoBook
      OBVIOUS
    <3>1. PICK f : Iterates({}, f) /\ Replay({}) = f[{}]
      BY <2>3
    <3> QED
      BY <3>1 DEF Iterates
  <2> DEFINE step(t, b) == IF t = {} THEN NoBook ELSE ApplyTrade(Latest(t), b)
             it == [t \in SUBSET s |->
                      IF t = s THEN step(t, Replay(s \ {Latest(s)})) ELSE Replay(t)]
  <2>6. ASSUME NEW t \in SUBSET s
        PROVE  it[t] = IF t = {} THEN NoBook ELSE ApplyTrade(Latest(t), it[t \ {Latest(t)}])
    <3>1. CASE t = {}
      BY <2>5, <3>1
    <3>2. CASE t # {}
      <4>1. it[t \ {Latest(t)}] = Replay(t \ {Latest(t)})
        BY <2>4, <3>2
      <4>2. it[t] = ApplyTrade(Latest(t), Replay(t \ {Latest(t)}))
        BY <2>4, <3>2
      <4> QED
        BY <3>2, <4>1, <4>2
    <3> QED
      BY <3>1, <3>2
  <2>7. Iterates(s, it)
    BY <2>6 DEF Iterates
  <2> QED
    BY <2>1, <2>7
<1> QED
  BY <1>1

\* The replay of nothing is None, and of a ledger its latest trade applied to the
\* replay of the others.
LEMMA ReplayUnfolds ==
  ASSUME NEW L, IsLedger(L)
  PROVE  /\ L = {} => Replay(L) = NoBook
         /\ L # {} => Replay(L) = ApplyTrade(Latest(L), Replay(L \ {Latest(L)}))
<1>1. ASSUME NEW M, IsLedger(M)
      PROVE  \E it : Iterates(M, it) /\ Replay(M) = it[M]
  BY <1>1, IteratesSome, ReplayIs
<1>2. PICK f : Iterates(L, f) /\ Replay(L) = f[L]
  BY <1>1
<1>3. ASSUME L # {}
      PROVE  Replay(L) = ApplyTrade(Latest(L), Replay(L \ {Latest(L)}))
  <2> DEFINE r == L \ {Latest(L)}
  <2>1. r \subseteq L /\ IsLedger(r)
    BY SubLedger
  <2>2. PICK g : Iterates(r, g) /\ Replay(r) = g[r]
    BY <1>1, <2>1
  <2>3. f[L] = ApplyTrade(Latest(L), f[r])
    BY <1>2, <1>3 DEF Iterates
  <2> HIDE DEF r
  <2>4. g[r] = f[r]
    BY <1>2, <2>1, <2>2, IteratesOnce
  <2> QED
    BY <1>2, <2>2, <2>3, <2>4 DEF r
<1>4. L = {} => Replay(L) = NoBook
  BY <1>2 DEF Iterates
<1> QED
  BY <1>3, <1>4

\* The empty ledger replays to no position.
LEMMA EmptyReplay == Replay({}) = NoBook
<1>1. IsLedger({})
  BY FS_EmptySet DEF IsLedger
<1> QED
  BY <1>1, ReplayUnfolds

\* What the replay reads of a trade besides its id.
SameTrade(t, u) ==
  /\ t.trade_type = u.trade_type /\ t.quantity = u.quantity /\ t.price = u.price
  /\ t.executed_at = u.executed_at

\* The id of a trade orders it and does nothing else.
LEMMA IdsDoNotCount ==
  ASSUME NEW t, NEW u, SameTrade(t, u), NEW b
  PROVE  ApplyTrade(t, b) = ApplyTrade(u, b)
<1>1. /\ \A c : Increase(c, t) = Increase(c, u)
      /\ \A c : Decrease(c, t) = Decrease(c, u)
  BY DEF SameTrade, Increase, Decrease
<1>2. \A type : Enter(type, b, t) = Enter(type, b, u) /\ Exit(type, b, t) = Exit(type, b, u)
  BY <1>1 DEF SameTrade, Enter, Exit
<1> QED
  BY <1>2 DEF SameTrade, ApplyTrade

\* A trade of one of the four types makes a position, or the replay raises.
LEMMA ApplyTradeAnswers ==
  ASSUME NEW t, t.trade_type \in TradeTypes, NEW b
  PROVE  LET answer == ApplyTrade(t, b)
         IN  /\ answer # NoBook /\ (IsFailure(answer) \/ IsPosition(answer))
             /\ IsPosition(answer) =>
                  answer = Book(answer.position_type, answer.quantity, answer.average_price,
                                answer.total_cost, answer.status, answer.opened_at,
                                answer.closed_at)
<1> DEFINE Sound(answer) ==
      /\ answer # NoBook /\ (IsFailure(answer) \/ IsPosition(answer))
      /\ IsPosition(answer) =>
           answer = Book(answer.position_type, answer.quantity, answer.average_price,
                         answer.total_cost, answer.status, answer.opened_at,
                         answer.closed_at)
<1>1. ASSUME NEW type, NEW quantity, NEW average, NEW cost, NEW status, NEW opened, NEW closed
      PROVE  Sound(Book(type, quantity, average, cost, status, opened, closed))
  BY DEF Book, NoBook, IsPosition, IsFailure
<1>2. Sound(Invalid) /\ Sound(Undefined)
  BY DEF Invalid, Undefined, NoBook, IsPosition, IsFailure
<1>3. IsFailure(b) => Sound(b)
  BY DEF IsFailure, IsPosition, NoBook
<1> HIDE DEF Sound
<1>4. \A c : Sound(Increase(c, t)) /\ Sound(Decrease(c, t))
  BY <1>1, <1>2 DEF Increase, Decrease
<1>5. \A type : Sound(Enter(type, b, t)) /\ Sound(Exit(type, b, t))
  BY <1>2, <1>4 DEF Enter, Exit
<1>6. Sound(ApplyTrade(t, b))
  BY <1>3, <1>5 DEF ApplyTrade, TradeTypes
<1> QED
  BY <1>6 DEF Sound

\* Only the empty ledger replays to None.
LEMMA ReplayAnswers ==
  ASSUME NEW L, IsLedger(L), \A t \in L : t.trade_type \in TradeTypes
  PROVE  /\ Replay(L) = NoBook <=> L = {}
         /\ IsPosition(Replay(L)) => L # {}
         /\ L # {} => IsFailure(Replay(L)) \/ IsPosition(Replay(L))
         /\ IsPosition(Replay(L)) =>
              Replay(L) = Book(Replay(L).position_type, Replay(L).quantity,
                               Replay(L).average_price, Replay(L).total_cost,
                               Replay(L).status, Replay(L).opened_at, Replay(L).closed_at)
<1>1. CASE L = {}
  BY <1>1, EmptyReplay DEF IsPosition, NoBook
<1>2. CASE L # {}
  <2>1. Replay(L) = ApplyTrade(Latest(L), Replay(L \ {Latest(L)}))
    BY <1>2, ReplayUnfolds
  <2>2. Latest(L) \in L
    BY <1>2, LatestIs
  <2> QED
    BY <1>2, <2>1, <2>2, ApplyTradeAnswers
<1> QED
  BY <1>1, <1>2

\* s and r hold the same trades, whatever else their rows say.
SameTrades(s, r) ==
  /\ \A t \in s : \E u \in r : u.id = t.id /\ SameTrade(t, u)
  /\ \A u \in r : \E t \in s : u.id = t.id /\ SameTrade(t, u)

LEMMA SameTradesReplayAlike ==
  ASSUME NEW L, IsLedger(L), NEW M, IsLedger(M), SameTrades(L, M)
  PROVE  Replay(L) = Replay(M)
<1> DEFINE Differ(s) == \E r \in SUBSET M : SameTrades(s, r) /\ Replay(s) # Replay(r)
           bad == {s \in SUBSET L : Differ(s)}
<1>1. bad = {}
  <2> SUFFICES ASSUME bad # {} PROVE FALSE
    OBVIOUS
  <2>1. PICK s \in bad : \A q \in bad : q \subseteq s => q = s
    <3>1. bad \subseteq SUBSET L /\ IsFiniteSet(L)
      BY DEF IsLedger
    <3> HIDE DEF bad
    <3> QED
      BY <3>1, LeastSubset
  <2>2. s \in SUBSET L /\ Differ(s)
    OBVIOUS
  <2>3. PICK r \in SUBSET M : SameTrades(s, r) /\ Replay(s) # Replay(r)
    BY <2>2
  <2>4. IsLedger(s) /\ IsLedger(r)
    BY <2>2, SubLedger
  <2>5. s # {}
    <3> SUFFICES ASSUME s = {} PROVE FALSE
      OBVIOUS
    <3>1. r = {}
      BY <2>3 DEF SameTrades
    <3> QED
      BY <2>3, <3>1
  <2>6. PICK x : x = Latest(s)
    OBVIOUS
  <2>7. x \in s /\ \A u \in s \ {x} : Precedes(u, x)
    BY <2>4, <2>5, <2>6, LatestIs
  <2>8. PICK y \in r : y.id = x.id /\ SameTrade(x, y)
    BY <2>3, <2>7 DEF SameTrades
  <2>9. \A u \in r \ {y} : Precedes(u, y)
    <3> SUFFICES ASSUME NEW u \in r \ {y} PROVE Precedes(u, y)
      OBVIOUS
    <3>1. PICK t \in s : u.id = t.id /\ SameTrade(t, u)
      BY <2>3 DEF SameTrades
    <3>2. u.id # y.id
      BY <2>4 DEF IsLedger
    <3>3. t \in s \ {x}
      BY <2>8, <3>1, <3>2
    <3> QED
      BY <2>7, <2>8, <3>1, <3>3 DEF Precedes, SameTrade
  <2>10. Latest(r) = y
    BY <2>4, <2>9, LatestIsOnly
  <2>11. /\ Replay(s) = ApplyTrade(x, Replay(s \ {x}))
         /\ Replay(r) = ApplyTrade(y, Replay(r \ {y}))
    BY <2>4, <2>5, <2>6, <2>10, ReplayUnfolds
  <2>12. SameTrades(s \ {x}, r \ {y})
    BY <2>3, <2>4, <2>7, <2>8 DEF SameTrades, IsLedger
  <2>13. s \ {x} \notin bad
    BY <2>1, <2>7
  <2>14. Replay(s \ {x}) = Replay(r \ {y})
    <3>1. s \ {x} \in SUBSET L /\ r \ {y} \in SUBSET M
      BY <2>2
    <3> QED
      BY <2>12, <2>13, <3>1
  <2> QED
    BY <2>3, <2>8, <2>11, <2>14, IdsDoNotCount
<1>2. ~ Differ(L)
  BY <1>1
<1> QED
  BY <1>2

\* Rows whose ids are among 1..n are finitely many.
LEMMA NumberedRowsAreALedger ==
  ASSUME NEW n \in Nat, NEW L, \A t \in L : t.id \in 1..n /\ t.executed_at \in Nat,
         \A t, u \in L : t.id = u.id => t = u
  PROVE  IsLedger(L)
<1> DEFINE id == [t \in L |-> t.id]
<1>1. id \in Injection(L, 1..n)
  BY DEF Injection, IsInjective
<1>2. IsFiniteSet(1..n)
  BY FS_Interval
<1>3. IsFiniteSet(L)
  <2> HIDE DEF id
  <2> QED
    BY <1>1, <1>2, FS_Injection
<1> QED
  BY <1>3 DEF IsLedger
=============================================================================
