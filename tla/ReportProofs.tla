---------------------------- MODULE ReportProofs -----------------------------
(***************************************************************************)
(* What is reported of a portfolio, for every set of offers and quotes,    *)
(* every clock and every look-back: value, profit, series, drawdown, start *)
(* of the day and stake agree with each other and with the trades.         *)
(*                                                                         *)
(* The reports are recursions over ledgers, prices and assets.  Three ways *)
(* lead through them: a fold over a set is unfolded by its last element    *)
(* (among the subsets that break a claim there is a least); a loop over a  *)
(* sequence is followed from its first element on; and the loop that the   *)
(* reports write out for themselves is kept in line with the engine's.     *)
(***************************************************************************)
EXTENDS Dashboard, PositionSizing, ReplayProofs

-----------------------------------------------------------------------------
(***************************************************************************)
(* Folds.  A fold takes one element after the other away from a finite     *)
(* set; the function it recurs through exists.                             *)
(***************************************************************************)
Recurs(L, pick, base, F, it) ==
  it[{}] = base /\ \A s \in SUBSET L : s # {} => it[s] = F[<<pick[s], it[s \ {pick[s]}]>>]

LEMMA RecursOnce ==
  ASSUME NEW L, IsFiniteSet(L), NEW M, NEW pick, NEW base, NEW F,
         \A s \in SUBSET L : s # {} => pick[s] \in s,
         NEW f, Recurs(L, pick, base, F, f), NEW g, Recurs(M, pick, base, F, g), L \subseteq M
  PROVE  f[L] = g[L]
<1> DEFINE bad == {s \in SUBSET L : f[s] # g[s]}
<1>1. bad = {}
  <2> SUFFICES ASSUME bad # {} PROVE FALSE
    OBVIOUS
  <2>1. PICK s \in bad : \A r \in bad : r \subseteq s => r = s
    <3>1. bad \subseteq SUBSET L
      OBVIOUS
    <3> HIDE DEF bad
    <3> QED
      BY <3>1, LeastSubset
  <2>2. s \in SUBSET L /\ s \in SUBSET M /\ f[s] # g[s]
    OBVIOUS
  <2>3. s # {}
    BY <2>2 DEF Recurs
  <2>4. pick[s] \in s /\ s \ {pick[s]} \in SUBSET L
    BY <2>2, <2>3
  <2>5. f[s \ {pick[s]}] = g[s \ {pick[s]}]
    BY <2>1, <2>4
  <2> QED
    BY <2>2, <2>3, <2>5 DEF Recurs
<1> QED
  BY <1>1

LEMMA RecursSome ==
  ASSUME NEW L, IsFiniteSet(L), NEW V, NEW base \in V, NEW F, NEW pick,
         \A x \in L, v \in V : F[<<x, v>>] \in V,
         \A s \in SUBSET L : s # {} => pick[s] \in s
  PROVE  \E it \in [SUBSET L -> V] : Recurs(L, pick, base, F, it)
<1> DEFINE Has(s) == \E it \in [SUBSET s -> V] : Recurs(s, pick, base, F, it)
           bad == {s \in SUBSET L : ~ Has(s)}
<1>1. bad = {}
  <2> SUFFICES ASSUME bad # {} PROVE FALSE
    OBVIOUS
  <2>1. PICK s \in bad : \A r \in bad : r \subseteq s => r = s
    <3>1. bad \subseteq SUBSET L
      OBVIOUS
    <3> HIDE DEF bad
    <3> QED
      BY <3>1, LeastSubset
  <2>2. s \in SUBSET L /\ ~ Has(s)
    OBVIOUS
  <2> DEFINE of == [t \in SUBSET s |->
                      CHOOSE it \in [SUBSET t -> V] : Recurs(t, pick, base, F, it)]
  <2>3. ASSUME NEW t \in SUBSET s, t # s
        PROVE  of[t] \in [SUBSET t -> V] /\ Recurs(t, pick, base, F, of[t])
    <3>1. Has(t)
      BY <2>1, <2>2, <2>3
    <3> QED
      BY <3>1
  <2>4. ASSUME NEW t \in SUBSET s, t # s, t # {}
        PROVE  /\ pick[t] \in t /\ t \ {pick[t]} \in SUBSET s /\ t \ {pick[t]} # s
               /\ of[t][t] = F[<<pick[t], of[t \ {pick[t]}][t \ {pick[t]}]>>]
    <3>1. pick[t] \in t
      BY <2>2, <2>4
    <3>2. PICK r : r = t \ {pick[t]}
      OBVIOUS
    <3>3. r \in SUBSET s /\ r # s /\ r \subseteq t
      BY <3>1, <3>2, <2>4
    <3>4. IsFiniteSet(r) /\ \A q \in SUBSET r : q # {} => pick[q] \in q
      <4>1. r \in SUBSET L
        BY <2>2, <3>3
      <4> QED
        BY <4>1, FS_Subset
    <3>5. PICK f : f = of[r]
      OBVIOUS
    <3>6. PICK g : g = of[t]
      OBVIOUS
    <3>7. Recurs(r, pick, base, F, f) /\ Recurs(t, pick, base, F, g)
      BY <2>3, <2>4, <3>3, <3>5, <3>6
    <3>8. f[r] = g[r]
      BY <3>3, <3>4, <3>7, RecursOnce
    <3>9. g[t] = F[<<pick[t], g[r]>>]
      BY <2>4, <3>2, <3>7 DEF Recurs
    <3> QED
      BY <3>1, <3>2, <3>3, <3>5, <3>6, <3>8, <3>9
  <2>5. s # {}
    <3> SUFFICES ASSUME s = {} PROVE FALSE
      OBVIOUS
    <3>1. [t \in SUBSET s |-> base] \in [SUBSET s -> V]
      OBVIOUS
    <3>2. Recurs(s, pick, base, F, [t \in SUBSET s |-> base])
      BY DEF Recurs
    <3> QED
      BY <2>2, <3>1, <3>2
  <2>6. of[{}][{}] = base
    BY <2>3, <2>5 DEF Recurs
  <2>7. pick[s] \in s /\ s \ {pick[s]} \in SUBSET s /\ s \ {pick[s]} # s
    BY <2>2, <2>5
  <2> DEFINE it == [t \in SUBSET s |->
                      IF t = s THEN F[<<pick[s], of[s \ {pick[s]}][s \ {pick[s]}]>>] ELSE of[t][t]]
  <2>8. it \in [SUBSET s -> V]
    <3>1. \A t \in SUBSET s : t # s => of[t][t] \in V
      BY <2>3
    <3>2. pick[s] \in L
      BY <2>2, <2>7
    <3> HIDE DEF of
    <3> QED
      BY <2>7, <3>1, <3>2
  <2>9. Recurs(s, pick, base, F, it)
    <3>1. it[{}] = base
      BY <2>5, <2>6
    <3>2. ASSUME NEW t \in SUBSET s, t # {}
          PROVE  it[t] = F[<<pick[t], it[t \ {pick[t]}]>>]
      <4> HIDE DEF of
      <4>1. CASE t = s
        BY <2>7, <4>1
      <4>2. CASE t # s
        BY <2>4, <3>2, <4>2
      <4> QED
        BY <4>1, <4>2
    <3> QED
      BY <3>1, <3>2 DEF Recurs
  <2> QED
    BY <2>2, <2>8, <2>9
<1> QED
  BY <1>1

-----------------------------------------------------------------------------
(***************************************************************************)
(* Sums of amounts.  Plus cancels nothing, so that a sum is the same in    *)
(* every order, to the numerator and the denominator.                      *)
(***************************************************************************)
Amounts == Int \X Int

OneOf(s) == CHOOSE x \in s : TRUE

Adds(f, S, it) ==
  it = [s \in SUBSET S |-> IF s = {} THEN Fraction(0) ELSE Plus(f[OneOf(s)], it[s \ {OneOf(s)}])]

SumOf(f, S) == (CHOOSE it : Adds(f, S, it))[S]

AreAmounts(f, S) == IsFiniteSet(S) /\ \A x \in S : f[x] \in Amounts

LEMMA PlusIs ==
  ASSUME NEW x \in Amounts, NEW y \in Amounts, NEW z \in Amounts
  PROVE  /\ Plus(x, y) \in Amounts
         /\ Plus(x, y) = Plus(y, x)
         /\ Plus(x, Plus(y, z)) = Plus(y, Plus(x, z))
         /\ Plus(Fraction(0), x) = x
  BY DEF Plus, Amounts, Fraction

LEMMA AddsOnce ==
  ASSUME NEW f, NEW S, AreAmounts(f, S), NEW T, S \subseteq T,
         NEW it, Adds(f, S, it), NEW jt, Adds(f, T, jt)
  PROVE  it[S] = jt[S]
<1> DEFINE bad == {s \in SUBSET S : it[s] # jt[s]}
<1>1. bad = {}
  <2> SUFFICES ASSUME bad # {} PROVE FALSE
    OBVIOUS
  <2>1. PICK s \in bad : \A r \in bad : r \subseteq s => r = s
    <3>1. bad \subseteq SUBSET S /\ IsFiniteSet(S)
      BY DEF AreAmounts
    <3> HIDE DEF bad
    <3> QED
      BY <3>1, LeastSubset
  <2>2. s \in SUBSET S /\ s \in SUBSET T /\ it[s] # jt[s]
    OBVIOUS
  <2>3. s # {}
    BY <2>2 DEF Adds
  <2>4. OneOf(s) \in s
    BY <2>3 DEF OneOf
  <2>5. it[s \ {OneOf(s)}] = jt[s \ {OneOf(s)}]
    BY <2>1, <2>2, <2>4
  <2>6. /\ it[s] = Plus(f[OneOf(s)], it[s \ {OneOf(s)}])
        /\ jt[s] = Plus(f[OneOf(s)], jt[s \ {OneOf(s)}])
    BY <2>2, <2>3 DEF Adds
  <2> QED
    BY <2>2, <2>5, <2>6
<1> QED
  BY <1>1

LEMMA AddsSome ==
  ASSUME NEW f, NEW S, AreAmounts(f, S)
  PROVE  \E it \in [SUBSET S -> Amounts] : Adds(f, S, it)
<1>1. PICK pick : pick = [s \in SUBSET S |-> OneOf(s)]
  OBVIOUS
<1>2. PICK F : F = [x \in S \X Amounts |-> Plus(f[x[1]], x[2])]
  OBVIOUS
<1>3. \A x \in S, v \in Amounts : F[<<x, v>>] = Plus(f[x], v) /\ F[<<x, v>>] \in Amounts
  BY <1>2, PlusIs DEF AreAmounts
<1>4. \A s \in SUBSET S : s # {} => pick[s] = OneOf(s) /\ pick[s] \in s
  BY <1>1 DEF OneOf
<1>5. Fraction(0) \in Amounts
  BY DEF Fraction, Amounts
<1>6. IsFiniteSet(S)
  BY DEF AreAmounts
<1>7. PICK it \in [SUBSET S -> Amounts] : Recurs(S, pick, Fraction(0), F, it)
  BY <1>3, <1>4, <1>5, <1>6, RecursSome
<1>8. ASSUME NEW s \in SUBSET S
      PROVE  it[s] = IF s = {} THEN Fraction(0) ELSE Plus(f[OneOf(s)], it[s \ {OneOf(s)}])
  <2>1. CASE s = {}
    BY <1>7, <2>1 DEF Recurs
  <2>2. CASE s # {}
    <3>1. pick[s] = OneOf(s) /\ pick[s] \in s /\ it[s] = F[<<pick[s], it[s \ {pick[s]}]>>]
      BY <1>4, <1>7, <2>2 DEF Recurs
    <3>2. OneOf(s) \in S /\ it[s \ {OneOf(s)}] \in Amounts
      BY <1>7, <3>1
    <3> QED
      BY <1>3, <2>2, <3>1, <3>2
  <2> QED
    BY <2>1, <2>2
<1> QED
  BY <1>7, <1>8 DEF Adds

\* Whatever adds up f gives its sum.
LEMMA SumIs ==
  ASSUME NEW f, NEW S, AreAmounts(f, S), NEW T, S \subseteq T, NEW it, Adds(f, T, it)
  PROVE  it[S] = SumOf(f, S)
<1>1. \E jt : Adds(f, S, jt)
  BY AddsSome
<1>2. PICK jt : Adds(f, S, jt) /\ SumOf(f, S) = jt[S]
  BY <1>1 DEF SumOf
<1> QED
  BY <1>2, AddsOnce

LEMMA Summands ==
  ASSUME NEW f, NEW S, AreAmounts(f, S), NEW T, T \subseteq S
  PROVE  AreAmounts(f, T)
  BY FS_Subset DEF AreAmounts

LEMMA SumFirst ==
  ASSUME NEW f, NEW S, AreAmounts(f, S)
  PROVE  /\ SumOf(f, S) \in Amounts
         /\ SumOf(f, {}) = Fraction(0)
         /\ S # {} => OneOf(S) \in S /\ SumOf(f, S) = Plus(f[OneOf(S)], SumOf(f, S \ {OneOf(S)}))
<1>1. PICK it \in [SUBSET S -> Amounts] : Adds(f, S, it)
  BY AddsSome
<1>2. \A T \in SUBSET S : it[T] = SumOf(f, T)
  BY <1>1, SumIs, Summands
<1>3. it[{}] = Fraction(0)
  BY <1>1 DEF Adds
<1>4. ASSUME S # {}
      PROVE  OneOf(S) \in S /\ it[S] = Plus(f[OneOf(S)], it[S \ {OneOf(S)}])
  <2>1. OneOf(S) \in S
    BY <1>4 DEF OneOf
  <2> QED
    BY <1>1, <1>4, <2>1 DEF Adds
<1> QED
  BY <1>1, <1>2, <1>3, <1>4

\* Any of the summands may come first.
LEMMA SumUnfolds ==
  ASSUME NEW f, NEW S, AreAmounts(f, S), NEW x \in S
  PROVE  SumOf(f, S) = Plus(f[x], SumOf(f, S \ {x}))
<1> DEFINE Bad(s) == \E y \in s : SumOf(f, s) # Plus(f[y], SumOf(f, s \ {y}))
           bad == {s \in SUBSET S : Bad(s)}
<1>1. bad = {}
  <2> SUFFICES ASSUME bad # {} PROVE FALSE
    OBVIOUS
  <2>1. PICK s \in bad : \A r \in bad : r \subseteq s => r = s
    <3>1. bad \subseteq SUBSET S /\ IsFiniteSet(S)
      BY DEF AreAmounts
    <3> HIDE DEF bad
    <3> QED
      BY <3>1, LeastSubset
  <2>2. s \in SUBSET S /\ Bad(s)
    OBVIOUS
  <2>3. PICK y \in s : SumOf(f, s) # Plus(f[y], SumOf(f, s \ {y}))
    BY <2>2
  <2>4. \A r \in SUBSET s : r # s => ~ Bad(r)
    BY <2>1, <2>2
  <2>5. PICK c : c = OneOf(s)
    OBVIOUS
  <2>6. c \in s /\ SumOf(f, s) = Plus(f[c], SumOf(f, s \ {c}))
    BY <2>2, <2>3, <2>5, Summands, SumFirst
  <2>7. c # y
    BY <2>3, <2>6
  <2>8. SumOf(f, s \ {c}) = Plus(f[y], SumOf(f, (s \ {c}) \ {y}))
    BY <2>3, <2>4, <2>6, <2>7
  <2>9. SumOf(f, s \ {y}) = Plus(f[c], SumOf(f, (s \ {y}) \ {c}))
    BY <2>3, <2>4, <2>6, <2>7
  <2>10. (s \ {c}) \ {y} = (s \ {y}) \ {c}
    OBVIOUS
  <2>11. PICK rest : rest = SumOf(f, (s \ {c}) \ {y})
    OBVIOUS
  <2>12. rest \in Amounts
    <3>1. (s \ {c}) \ {y} \subseteq S
      BY <2>2
    <3>2. AreAmounts(f, (s \ {c}) \ {y})
      BY <3>1, Summands
    <3> QED
      BY <2>11, <3>2, SumFirst
  <2>13. f[c] \in Amounts /\ f[y] \in Amounts
    BY <2>2, <2>3, <2>6 DEF AreAmounts
  <2>14. Plus(f[c], Plus(f[y], rest)) = Plus(f[y], Plus(f[c], rest))
    <3>1. \A u, v, w \in Amounts : Plus(u, Plus(v, w)) = Plus(v, Plus(u, w))
      BY PlusIs
    <3> QED
      BY <2>12, <2>13, <3>1
  <2> QED
    BY <2>3, <2>6, <2>8, <2>9, <2>10, <2>11, <2>14
<1>2. ~ Bad(S)
  BY <1>1
<1> QED
  BY <1>2

\* The sum is of the summands, and those that are nothing may be left out.
LEMMA SumsAgree ==
  ASSUME NEW f, NEW S, AreAmounts(f, S), NEW g, NEW T, T \subseteq S, AreAmounts(g, T),
         \A x \in T : f[x] = g[x], \A x \in S \ T : f[x] = Fraction(0)
  PROVE  SumOf(f, S) = SumOf(g, T)
<1> DEFINE Bad(s) == SumOf(f, s) # SumOf(g, s \cap T)
           bad == {s \in SUBSET S : Bad(s)}
<1>1. bad = {}
  <2> SUFFICES ASSUME bad # {} PROVE FALSE
    OBVIOUS
  <2>1. PICK s \in bad : \A r \in bad : r \subseteq s => r = s
    <3>1. bad \subseteq SUBSET S /\ IsFiniteSet(S)
      BY DEF AreAmounts
    <3> HIDE DEF bad
    <3> QED
      BY <3>1, LeastSubset
  <2>2. s \in SUBSET S /\ Bad(s)
    OBVIOUS
  <2>3. s # {}
    <3> SUFFICES ASSUME s = {} PROVE FALSE
      OBVIOUS
    <3>1. {} \cap T = {} /\ SumOf(f, {}) = Fraction(0) /\ SumOf(g, {}) = Fraction(0)
      BY SumFirst
    <3> QED
      BY <2>2, <3>1
  <2>4. PICK y \in s : TRUE
    BY <2>3
  <2>5. SumOf(f, s \ {y}) = SumOf(g, (s \ {y}) \cap T)
    BY <2>1, <2>2, <2>4
  <2>6. AreAmounts(f, s) /\ AreAmounts(g, s \cap T)
    BY <2>2, Summands
  <2>7. SumOf(f, s) = Plus(f[y], SumOf(f, s \ {y}))
    BY <2>4, <2>6, SumUnfolds
  <2>8. CASE y \in T
    <3>1. SumOf(g, s \cap T) = Plus(g[y], SumOf(g, (s \cap T) \ {y}))
      BY <2>4, <2>6, <2>8, SumUnfolds
    <3>2. (s \cap T) \ {y} = (s \ {y}) \cap T
      OBVIOUS
    <3> QED
      BY <2>2, <2>5, <2>7, <2>8, <3>1, <3>2
  <2>9. CASE y \notin T
    <3>1. (s \ {y}) \cap T = s \cap T
      BY <2>9
    <3>2. SumOf(f, s \ {y}) \in Amounts
      BY <2>6, Summands, SumFirst
    <3>3. f[y] = Fraction(0)
      BY <2>2, <2>4, <2>9
    <3> QED
      BY <2>2, <2>5, <2>7, <3>1, <3>2, <3>3, PlusIs
  <2> QED
    BY <2>8, <2>9
<1>2. ~ Bad(S) /\ S \cap T = T
  BY <1>1
<1> QED
  BY <1>2

-----------------------------------------------------------------------------
(***************************************************************************)
(* The loop of the reports, unfolded as the replay was.                    *)
(***************************************************************************)
AreTrades(L) ==
  /\ IsLedger(L)
  /\ \A t \in L : /\ t.trade_type \in TradeTypes
                  /\ t.quantity \in Nat \ {0} /\ t.price \in Nat \ {0}

Walks == [quantity : Int, average : Amounts, cost : Amounts, outcomes : Seq(Amounts)]

LEMMA SomeTrades ==
  ASSUME NEW L, AreTrades(L), NEW M, M \subseteq L
  PROVE  AreTrades(M)
  BY SubLedger DEF AreTrades

\* What one trade makes of the four fields.
LEMMA StepIs ==
  ASSUME NEW t, t.trade_type \in TradeTypes, t.quantity \in Nat \ {0}, t.price \in Nat \ {0},
         NEW w \in Walks
  PROVE  LET enters == t.trade_type \in {"BUY", "SHORT"}
             held   == IF enters THEN w.quantity + t.quantity ELSE w.quantity - t.quantity
             cost   == IF enters THEN Plus(w.cost, Fraction(t.quantity * t.price))
                       ELSE Minus(w.cost, Times(t.quantity, w.average))
         IN  /\ Step(t, w) \in Walks
             /\ Step(t, w).quantity = held
             /\ Step(t, w).cost = (IF held > 0 THEN cost ELSE Fraction(0))
             /\ Step(t, w).average = (IF held > 0 THEN <<cost[1], cost[2] * held>> ELSE Fraction(0))
             /\ Step(t, w).outcomes = (IF enters THEN w.outcomes ELSE Append(w.outcomes, Gain(t, w)))
             /\ Gain(t, w) \in Amounts
<1>1. PICK q : q = t.quantity
  OBVIOUS
<1>2. PICK r : r = t.price
  OBVIOUS
<1>3. q \in Nat \ {0} /\ r \in Nat \ {0}
  BY <1>1, <1>2
<1>4. /\ w.quantity \in Int /\ w.average \in Amounts /\ w.cost \in Amounts
      /\ w.outcomes \in Seq(Amounts)
      /\ w = [quantity |-> w.quantity, average |-> w.average, cost |-> w.cost,
              outcomes |-> w.outcomes]
  BY DEF Walks
<1>5. Fraction(q * r) \in Amounts /\ Fraction(r) \in Amounts /\ Fraction(0) \in Amounts
  BY <1>3 DEF Fraction, Amounts
<1>6. Times(q, w.average) \in Amounts
  BY <1>3, <1>4 DEF Times, Amounts
<1>7. /\ \A x, y \in Amounts : Plus(x, y) \in Amounts /\ Minus(x, y) \in Amounts
      /\ \A n \in Int, x \in Amounts : Times(n, x) \in Amounts
  BY DEF Plus, Minus, Times, Amounts
<1>8. Gain(t, w) \in Amounts
  <2>1. PICK rise : rise = Times(q, Minus(Fraction(r), w.average))
    OBVIOUS
  <2>2. Minus(Fraction(r), w.average) \in Amounts
    BY <1>4, <1>5, <1>7
  <2>3. rise \in Amounts /\ Times(-1, rise) \in Amounts
    BY <1>3, <1>7, <2>1, <2>2
  <2>4. Gain(t, w) = IF t.trade_type = "SELL" THEN rise ELSE Times(-1, rise)
    BY <1>1, <1>2, <2>1 DEF Gain
  <2> QED
    BY <2>3, <2>4
<1>9. Append(w.outcomes, Gain(t, w)) \in Seq(Amounts)
  BY <1>4, <1>8
<1>10. ASSUME NEW held \in Int, NEW cost \in Amounts, NEW average \in Amounts,
              NEW outs \in Seq(Amounts), NEW v,
              v = [quantity |-> held, average |-> average, cost |-> cost, outcomes |-> outs]
       PROVE  /\ Averaged(v) \in Walks
              /\ Averaged(v).quantity = held
              /\ Averaged(v).outcomes = outs
              /\ Averaged(v).cost = (IF held > 0 THEN cost ELSE Fraction(0))
              /\ Averaged(v).average =
                   (IF held > 0 THEN <<cost[1], cost[2] * held>> ELSE Fraction(0))
  <2>1. <<cost[1], cost[2] * held>> \in Amounts
    BY DEF Amounts
  <2> QED
    BY <2>1, <1>5, <1>10 DEF Averaged, Walks
<1>11. PICK g : g = Gain(t, w)
  OBVIOUS
<1>12. PICK h, av, c, o : h = w.quantity /\ av = w.average /\ c = w.cost /\ o = w.outcomes
  OBVIOUS
<1>13. w = [quantity |-> h, average |-> av, cost |-> c, outcomes |-> o]
  BY <1>4, <1>12
<1>14. CASE t.trade_type \in {"BUY", "SHORT"}
  <2>1. PICK v : v = [quantity |-> h + q, average |-> av, cost |-> Plus(c, Fraction(q * r)),
                      outcomes |-> o]
    OBVIOUS
  <2>2. Step(t, w) = Averaged(v)
    <3>1. Step(t, w) = In(t, w)
      BY <1>14 DEF Step
    <3>2. [w EXCEPT !.cost = Plus(c, Fraction(q * r)), !.quantity = h + q] = v
      <4>1. PICK u : u = [w EXCEPT !.cost = Plus(c, Fraction(q * r)), !.quantity = h + q]
        OBVIOUS
      <4>2. DOMAIN w = {"quantity", "average", "cost", "outcomes"}
        BY <1>13
      <4>3. /\ u = [field \in DOMAIN w |-> u[field]]
            /\ u.quantity = h + q /\ u.average = av
            /\ u.cost = Plus(c, Fraction(q * r)) /\ u.outcomes = o
        BY <1>13, <4>1, <4>2
      <4> QED
        BY <2>1, <4>1, <4>2, <4>3
    <3> QED
      BY <1>1, <1>2, <1>12, <3>1, <3>2 DEF In
  <2>3. h + q \in Int /\ Plus(c, Fraction(q * r)) \in Amounts
    BY <1>3, <1>4, <1>5, <1>7, <1>12
  <2>4. /\ Averaged(v) \in Walks
        /\ Averaged(v).quantity = h + q
        /\ Averaged(v).outcomes = o
        /\ Averaged(v).cost = (IF h + q > 0 THEN Plus(c, Fraction(q * r)) ELSE Fraction(0))
        /\ Averaged(v).average =
             (IF h + q > 0
              THEN <<Plus(c, Fraction(q * r))[1], Plus(c, Fraction(q * r))[2] * (h + q)>>
              ELSE Fraction(0))
    BY <1>4, <1>10, <1>12, <2>1, <2>3
  <2> QED
    BY <1>1, <1>2, <1>8, <1>12, <1>14, <2>2, <2>4
<1>15. CASE t.trade_type \notin {"BUY", "SHORT"}
  <2>1. PICK v : v = [quantity |-> h - q, average |-> av, cost |-> Minus(c, Times(q, av)),
                      outcomes |-> Append(o, g)]
    OBVIOUS
  <2>2. Step(t, w) = Averaged(v)
    <3>1. Step(t, w) = Out(t, w)
      BY <1>15 DEF Step
    <3>2. [w EXCEPT !.outcomes = Append(o, g), !.cost = Minus(c, Times(q, av)),
                    !.quantity = h - q] = v
      <4>1. PICK u : u = [w EXCEPT !.outcomes = Append(o, g), !.cost = Minus(c, Times(q, av)),
                                   !.quantity = h - q]
        OBVIOUS
      <4>2. DOMAIN w = {"quantity", "average", "cost", "outcomes"}
        BY <1>13
      <4>3. /\ u = [field \in DOMAIN w |-> u[field]]
            /\ u.quantity = h - q /\ u.average = av
            /\ u.cost = Minus(c, Times(q, av)) /\ u.outcomes = Append(o, g)
        BY <1>13, <4>1, <4>2
      <4> QED
        BY <2>1, <4>1, <4>2, <4>3
    <3> QED
      BY <1>1, <1>11, <1>12, <3>1, <3>2 DEF Out
  <2>3. h - q \in Int /\ Minus(c, Times(q, av)) \in Amounts /\ Append(o, g) \in Seq(Amounts)
    BY <1>3, <1>4, <1>6, <1>7, <1>9, <1>11, <1>12
  <2>4. /\ Averaged(v) \in Walks
        /\ Averaged(v).quantity = h - q
        /\ Averaged(v).outcomes = Append(o, g)
        /\ Averaged(v).cost = (IF h - q > 0 THEN Minus(c, Times(q, av)) ELSE Fraction(0))
        /\ Averaged(v).average =
             (IF h - q > 0
              THEN <<Minus(c, Times(q, av))[1], Minus(c, Times(q, av))[2] * (h - q)>>
              ELSE Fraction(0))
    <3>1. PICK held, cost, outs :
            held = h - q /\ cost = Minus(c, Times(q, av)) /\ outs = Append(o, g)
      OBVIOUS
    <3>2. held \in Int /\ cost \in Amounts /\ outs \in Seq(Amounts) /\ av \in Amounts
      BY <1>4, <1>12, <2>3, <3>1
    <3>3. v = [quantity |-> held, average |-> av, cost |-> cost, outcomes |-> outs]
      BY <2>1, <3>1
    <3>4. /\ Averaged(v) \in Walks
          /\ Averaged(v).quantity = held
          /\ Averaged(v).outcomes = outs
          /\ Averaged(v).cost = (IF held > 0 THEN cost ELSE Fraction(0))
          /\ Averaged(v).average =
               (IF held > 0 THEN <<cost[1], cost[2] * held>> ELSE Fraction(0))
      BY <1>10, <3>2, <3>3
    <3> QED
      BY <3>1, <3>4
  <2> QED
    BY <1>1, <1>8, <1>11, <1>12, <1>15, <2>2, <2>4
<1> QED
  BY <1>14, <1>15

LEMMA StartIs == Start \in Walks
  BY DEF Start, Walks, Amounts, Fraction

\* The function that the loop recurs through.
Steps(L, it) ==
  it = [s \in SUBSET L |-> IF s = {} THEN Start ELSE Step(Latest(s), it[s \ {Latest(s)}])]

LEMMA StepsOnce ==
  ASSUME NEW L, IsLedger(L), NEW M, L \subseteq M, NEW f, Steps(L, f), NEW g, Steps(M, g)
  PROVE  f[L] = g[L]
<1> DEFINE bad == {s \in SUBSET L : f[s] # g[s]}
<1>1. bad = {}
  <2> SUFFICES ASSUME bad # {} PROVE FALSE
    OBVIOUS
  <2>1. PICK s \in bad : \A r \in bad : r \subseteq s => r = s
    <3>1. bad \subseteq SUBSET L /\ IsFiniteSet(L)
      BY DEF IsLedger
    <3> HIDE DEF bad
    <3> QED
      BY <3>1, LeastSubset
  <2>2. s \in SUBSET L /\ s \in SUBSET M /\ f[s] # g[s]
    OBVIOUS
  <2>3. s # {}
    BY <2>2 DEF Steps
  <2>4. Latest(s) \in s
    BY <2>2, <2>3, SubLedger, LatestIs
  <2>5. f[s \ {Latest(s)}] = g[s \ {Latest(s)}]
    BY <2>1, <2>2, <2>4
  <2>6. /\ f[s] = Step(Latest(s), f[s \ {Latest(s)}])
        /\ g[s] = Step(Latest(s), g[s \ {Latest(s)}])
    BY <2>2, <2>3 DEF Steps
  <2> QED
    BY <2>2, <2>5, <2>6
<1> QED
  BY <1>1

LEMMA StepsSome ==
  ASSUME NEW L, AreTrades(L)
  PROVE  \E it \in [SUBSET L -> Walks] : Steps(L, it)
<1>1. PICK pick : pick = [s \in SUBSET L |-> Latest(s)]
  OBVIOUS
<1>2. PICK F : F = [x \in L \X Walks |-> Step(x[1], x[2])]
  OBVIOUS
<1>3. \A x \in L, v \in Walks : F[<<x, v>>] = Step(x, v) /\ F[<<x, v>>] \in Walks
  BY <1>2, StepIs DEF AreTrades
<1>4. \A s \in SUBSET L : s # {} => pick[s] = Latest(s) /\ pick[s] \in s
  BY <1>1, SubLedger, LatestIs DEF AreTrades
<1>5. IsFiniteSet(L)
  BY DEF AreTrades, IsLedger
<1>6. PICK it \in [SUBSET L -> Walks] : Recurs(L, pick, Start, F, it)
  BY <1>3, <1>4, <1>5, StartIs, RecursSome
<1>7. ASSUME NEW s \in SUBSET L
      PROVE  it[s] = IF s = {} THEN Start ELSE Step(Latest(s), it[s \ {Latest(s)}])
  <2>1. CASE s = {}
    BY <1>6, <2>1 DEF Recurs
  <2>2. CASE s # {}
    <3>1. pick[s] = Latest(s) /\ pick[s] \in s /\ it[s] = F[<<pick[s], it[s \ {pick[s]}]>>]
      BY <1>4, <1>6, <2>2 DEF Recurs
    <3>2. Latest(s) \in L /\ it[s \ {Latest(s)}] \in Walks
      BY <1>6, <3>1
    <3> QED
      BY <1>3, <2>2, <3>1, <3>2
  <2> QED
    BY <2>1, <2>2
<1> QED
  BY <1>6, <1>7 DEF Steps

LEMMA WalkUnfolds ==
  ASSUME NEW L, AreTrades(L)
  PROVE  /\ Walk(L) \in Walks
         /\ Walk({}) = Start
         /\ L # {} => /\ Latest(L) \in L
                      /\ Walk(L) = Step(Latest(L), Walk(L \ {Latest(L)}))
<1>1. PICK it \in [SUBSET L -> Walks] : Steps(L, it)
  BY StepsSome
<1>2. ASSUME NEW M \in SUBSET L
      PROVE  Walk(M) = it[M]
  <2>1. Walk(M) = (CHOOSE jt : Steps(M, jt))[M]
    BY DEF Walk, MapThenFoldSet, Steps
  <2>2. AreTrades(M)
    BY SomeTrades
  <2>3. \E jt : Steps(M, jt)
    BY <2>2, StepsSome
  <2>4. PICK jt : Steps(M, jt) /\ Walk(M) = jt[M]
    BY <2>1, <2>3
  <2> QED
    BY <1>1, <2>2, <2>4, StepsOnce DEF AreTrades
<1>3. it[{}] = Start
  BY <1>1 DEF Steps
<1>4. ASSUME L # {}
      PROVE  Latest(L) \in L /\ it[L] = Step(Latest(L), it[L \ {Latest(L)}])
  <2>1. Latest(L) \in L
    BY <1>4, LatestIs DEF AreTrades
  <2> QED
    BY <1>1, <1>4, <2>1 DEF Steps
<1> QED
  BY <1>1, <1>2, <1>3, <1>4

-----------------------------------------------------------------------------
(***************************************************************************)
(* Fractions.                                                              *)
(***************************************************************************)
Worths == Int \X (Nat \ {0})

LEMMA Cancel ==
  ASSUME NEW x \in Int, NEW y \in Int, NEW n \in Nat \ {0}
  PROVE  /\ n * x = n * y <=> x = y
         /\ n * x <= n * y <=> x <= y
         /\ n * x < n * y <=> x < y
  OBVIOUS

LEMMA Cross ==
  ASSUME NEW x1 \in Int, NEW x2 \in Nat \ {0}, NEW y1 \in Int, NEW y2 \in Nat \ {0},
         NEW z1 \in Int, NEW z2 \in Nat \ {0}
  PROVE  /\ x1 * y2 = y1 * x2 /\ y1 * z2 = z1 * y2 => x1 * z2 = z1 * x2
         /\ x1 * y2 <= y1 * x2 /\ y1 * z2 <= z1 * y2 => x1 * z2 <= z1 * x2
<1>1. y2 * (x1 * z2) = (x1 * y2) * z2
  OBVIOUS
<1>2. (y1 * x2) * z2 = (y1 * z2) * x2
  OBVIOUS
<1>3. (z1 * y2) * x2 = y2 * (z1 * x2)
  OBVIOUS
<1>4. x1 * z2 \in Int /\ z1 * x2 \in Int
  OBVIOUS
<1>5. ASSUME x1 * y2 = y1 * x2, y1 * z2 = z1 * y2 PROVE x1 * z2 = z1 * x2
  <2>1. y2 * (x1 * z2) = y2 * (z1 * x2)
    BY <1>1, <1>2, <1>3, <1>5
  <2> QED
    BY <1>4, <2>1, Cancel
<1>6. ASSUME x1 * y2 <= y1 * x2, y1 * z2 <= z1 * y2 PROVE x1 * z2 <= z1 * x2
  <2>1. /\ x1 * y2 \in Int /\ y1 * x2 \in Int /\ y1 * z2 \in Int /\ z1 * y2 \in Int
    OBVIOUS
  <2>2. z2 * (x1 * y2) <= z2 * (y1 * x2)
    BY <1>6, <2>1, Cancel
  <2>3. x2 * (y1 * z2) <= x2 * (z1 * y2)
    BY <1>6, <2>1, Cancel
  <2>4. /\ z2 * (x1 * y2) = y2 * (x1 * z2) /\ z2 * (y1 * x2) = x2 * (y1 * z2)
        /\ x2 * (z1 * y2) = y2 * (z1 * x2)
    OBVIOUS
  <2>5. y2 * (x1 * z2) <= y2 * (z1 * x2)
    <3>1. PICK a, b, c : a = z2 * (x1 * y2) /\ b = z2 * (y1 * x2) /\ c = x2 * (z1 * y2)
      OBVIOUS
    <3>2. a \in Int /\ b \in Int /\ c \in Int
      BY <3>1
    <3>3. a <= b /\ b <= c
      BY <2>2, <2>3, <2>4, <3>1
    <3>4. a <= c
      BY <3>2, <3>3
    <3> QED
      BY <2>4, <3>1, <3>4
  <2> QED
    BY <1>4, <2>5, Cancel
<1> QED
  BY <1>5, <1>6

LEMMA Parts ==
  ASSUME NEW x \in Worths
  PROVE  x[1] \in Int /\ x[2] \in Nat \ {0} /\ x = <<x[1], x[2]>> /\ x \in Amounts
  BY DEF Worths, Amounts

LEMMA WorthsOf ==
  ASSUME NEW x \in Worths, NEW y \in Worths, NEW n \in Int
  PROVE  Plus(x, y) \in Worths /\ Minus(x, y) \in Worths /\ Times(n, x) \in Worths
         /\ Fraction(n) \in Worths
<1>1. x[1] \in Int /\ x[2] \in Nat \ {0} /\ y[1] \in Int /\ y[2] \in Nat \ {0}
  BY DEF Worths
<1>2. x[2] * y[2] \in Nat \ {0} /\ x[1] * y[2] \in Int /\ y[1] * x[2] \in Int /\ n * x[1] \in Int
  BY <1>1
<1> QED
  BY <1>1, <1>2 DEF Plus, Minus, Times, Fraction, Worths

LEMMA SameIs ==
  ASSUME NEW x \in Worths, NEW y \in Worths, NEW z \in Worths
  PROVE  /\ Same(x, x)
         /\ Same(x, y) => Same(y, x)
         /\ Same(x, y) /\ Same(y, z) => Same(x, z)
         /\ AtMost(x, x)
         /\ AtMost(x, y) \/ AtMost(y, x)
         /\ AtMost(x, y) /\ AtMost(y, z) => AtMost(x, z)
         /\ AtMost(x, y) /\ AtMost(y, x) <=> Same(x, y)
<1>1. PICK x1, x2, y1, y2, z1, z2 : /\ x1 = x[1] /\ x2 = x[2] /\ y1 = y[1] /\ y2 = y[2]
                                    /\ z1 = z[1] /\ z2 = z[2]
  OBVIOUS
<1>2. /\ x1 \in Int /\ x2 \in Nat \ {0} /\ y1 \in Int /\ y2 \in Nat \ {0}
      /\ z1 \in Int /\ z2 \in Nat \ {0}
  BY <1>1, Parts
<1>3. /\ x1 * y2 = y1 * x2 /\ y1 * z2 = z1 * y2 => x1 * z2 = z1 * x2
      /\ x1 * y2 <= y1 * x2 /\ y1 * z2 <= z1 * y2 => x1 * z2 <= z1 * x2
  BY <1>2, Cross
<1>4. x1 * y2 \in Int /\ y1 * x2 \in Int /\ x1 * x2 \in Int
  BY <1>2
<1> QED
  BY <1>1, <1>3, <1>4 DEF Same, AtMost

LEMMA CrossSums ==
  ASSUME NEW x1 \in Int, NEW x2 \in Nat \ {0}, NEW y1 \in Int, NEW y2 \in Nat \ {0},
         NEW v1 \in Int, NEW v2 \in Nat \ {0}, NEW w1 \in Int, NEW w2 \in Nat \ {0},
         x1 * v2 = v1 * x2, y1 * w2 = w1 * y2
  PROVE  /\ (x1 * y2 + y1 * x2) * (v2 * w2) = (v1 * w2 + w1 * v2) * (x2 * y2)
         /\ (x1 * y2 - y1 * x2) * (v2 * w2) = (v1 * w2 - w1 * v2) * (x2 * y2)
<1>1. /\ (x1 * y2 + y1 * x2) * (v2 * w2) = (x1 * v2) * (y2 * w2) + (y1 * w2) * (x2 * v2)
      /\ (x1 * y2 - y1 * x2) * (v2 * w2) = (x1 * v2) * (y2 * w2) - (y1 * w2) * (x2 * v2)
  OBVIOUS
<1>2. /\ (v1 * w2 + w1 * v2) * (x2 * y2) = (v1 * x2) * (y2 * w2) + (w1 * y2) * (x2 * v2)
      /\ (v1 * w2 - w1 * v2) * (x2 * y2) = (v1 * x2) * (y2 * w2) - (w1 * y2) * (x2 * v2)
  OBVIOUS
<1> QED
  BY <1>1, <1>2

\* Equal fractions give equal sums, differences and multiples.
LEMMA SameSums ==
  ASSUME NEW x \in Worths, NEW y \in Worths, NEW v \in Worths, NEW w \in Worths,
         Same(x, v), Same(y, w)
  PROVE  Same(Plus(x, y), Plus(v, w)) /\ Same(Minus(x, y), Minus(v, w))
<1>1. PICK x1, x2, y1, y2 : x1 = x[1] /\ x2 = x[2] /\ y1 = y[1] /\ y2 = y[2]
  OBVIOUS
<1>2. PICK v1, v2, w1, w2 : v1 = v[1] /\ v2 = v[2] /\ w1 = w[1] /\ w2 = w[2]
  OBVIOUS
<1>3. /\ x1 \in Int /\ x2 \in Nat \ {0} /\ y1 \in Int /\ y2 \in Nat \ {0}
      /\ v1 \in Int /\ v2 \in Nat \ {0} /\ w1 \in Int /\ w2 \in Nat \ {0}
  BY <1>1, <1>2, Parts
<1>4. x1 * v2 = v1 * x2 /\ y1 * w2 = w1 * y2
  BY <1>1, <1>2 DEF Same
<1>5. /\ (x1 * y2 + y1 * x2) * (v2 * w2) = (v1 * w2 + w1 * v2) * (x2 * y2)
      /\ (x1 * y2 - y1 * x2) * (v2 * w2) = (v1 * w2 - w1 * v2) * (x2 * y2)
  BY <1>3, <1>4, CrossSums
<1> QED
  BY <1>1, <1>2, <1>5 DEF Same, Plus, Minus

LEMMA SameTimes ==
  ASSUME NEW n \in Int, NEW y \in Worths, NEW w \in Worths, Same(y, w)
  PROVE  Same(Times(n, y), Times(n, w))
<1>1. PICK y1, y2, w1, w2 : y1 = y[1] /\ y2 = y[2] /\ w1 = w[1] /\ w2 = w[2]
  OBVIOUS
<1>2. y1 \in Int /\ y2 \in Nat \ {0} /\ w1 \in Int /\ w2 \in Nat \ {0} /\ y1 * w2 = w1 * y2
  BY <1>1, Parts DEF Same
<1>3. (n * y1) * w2 = n * (y1 * w2) /\ (n * w1) * y2 = n * (w1 * y2)
  BY <1>2
<1> QED
  BY <1>1, <1>2, <1>3 DEF Same, Times

\* The n-th part of an amount.
Share(x, n) == <<x[1], x[2] * n>>

LEMMA SharesOf ==
  ASSUME NEW x \in Worths, NEW y \in Worths, NEW n \in Nat \ {0}
  PROVE  /\ Share(x, n) \in Worths
         /\ Same(x, y) => Same(Share(x, n), Share(y, n))
         /\ Same(x, Times(n, Share(x, n)))
         /\ Same(Share(Times(n, x), n), x)
<1>1. PICK x1, x2, y1, y2 : x1 = x[1] /\ x2 = x[2] /\ y1 = y[1] /\ y2 = y[2]
  OBVIOUS
<1>2. x1 \in Int /\ x2 \in Nat \ {0} /\ y1 \in Int /\ y2 \in Nat \ {0}
  BY <1>1, Parts
<1>3. x2 * n \in Nat \ {0}
  BY <1>2
<1>4. Share(x, n) \in Worths
  BY <1>1, <1>2, <1>3 DEF Share, Worths
<1>5. ASSUME x1 * y2 = y1 * x2 PROVE x1 * (y2 * n) = y1 * (x2 * n)
  <2>1. x1 * (y2 * n) = (x1 * y2) * n /\ y1 * (x2 * n) = (y1 * x2) * n
    BY <1>2
  <2> QED
    BY <1>5, <2>1
<1>6. x1 * (x2 * n) = (n * x1) * x2 /\ (n * x1) * x2 = x1 * (x2 * n)
  BY <1>2
<1> QED
  BY <1>1, <1>4, <1>5, <1>6 DEF Same, Share, Times

LEMMA TimesLess ==
  ASSUME NEW x \in Worths, NEW n \in Int, NEW k \in Int
  PROVE  Same(Minus(Times(n, x), Times(k, x)), Times(n - k, x))
<1>1. PICK x1, x2 : x1 = x[1] /\ x2 = x[2]
  OBVIOUS
<1>2. x1 \in Int /\ x2 \in Nat \ {0}
  BY <1>1, Parts
<1>3. ((n * x1) * x2 - (k * x1) * x2) * x2 = ((n - k) * x1) * (x2 * x2)
  BY <1>2
<1> QED
  BY <1>1, <1>3 DEF Same, Minus, Times

-----------------------------------------------------------------------------
(***************************************************************************)
(* The loop of the reports and the engine's, over a ledger that the engine *)
(* accepts.  The one takes the average anew after every trade, the other   *)
(* after entries only.                                                     *)
(***************************************************************************)
Accepted(L) == AreTrades(L) /\ ~ IsFailure(Replay(L))

Walked(w) ==
  /\ w \in Walks /\ w.average \in Worths /\ w.cost \in Worths /\ w.quantity \in Nat
  /\ Same(w.cost, Times(w.quantity, w.average))
  /\ w.quantity = 0 => w.cost = Fraction(0) /\ w.average = Fraction(0)

InLine(book, w) ==
  /\ Walked(w)
  /\ book = NoBook \/ IsPosition(book)
  /\ book = NoBook => w.quantity = 0
  /\ IsPosition(book) =>
       /\ book.position_type \in PositionTypes /\ book.status \in {"OPEN", "CLOSED"}
       /\ book.quantity = w.quantity
       /\ (book.status = "CLOSED") = (w.quantity = 0)
       /\ book.average_price \in Worths /\ Same(book.average_price, w.average)
       /\ book.total_cost \in Worths /\ Same(book.total_cost, w.cost)

Side(t) == IF t.trade_type \in {"BUY", "SELL"} THEN "LONG" ELSE "SHORT"
Enters(t) == t.trade_type \in {"BUY", "SHORT"}

IsTrade(t) ==
  t.trade_type \in TradeTypes /\ t.quantity \in Nat \ {0} /\ t.price \in Nat \ {0}

\* What the engine checks of a trade, in terms of the loop.
LEMMA TakenTrade ==
  ASSUME NEW t, IsTrade(t), NEW book, NEW w, InLine(book, w), ~ IsFailure(ApplyTrade(t, book))
  PROVE  /\ w.quantity # 0 => IsPosition(book) /\ book.position_type = Side(t)
         /\ Enters(t) => ApplyTrade(t, book) =
              Increase(IF w.quantity = 0 THEN OpenedBook(Side(t), t.executed_at) ELSE book, t)
         /\ ~ Enters(t) => /\ ApplyTrade(t, book) = Decrease(book, t)
                           /\ IsPosition(book) /\ book.position_type = Side(t)
                           /\ t.quantity <= w.quantity
<1>1. ~ IsFailure(book)
  BY DEF InLine, IsPosition, IsFailure, NoBook
<1>2. Opens(book) <=> w.quantity = 0
  BY DEF InLine, Walked, Opens, Flat, NoBook, IsPosition
<1>3. IsFailure(Invalid)
  BY DEF IsFailure, Invalid
<1>4. CASE Enters(t)
  <2>1. ApplyTrade(t, book) = Enter(Side(t), book, t)
    BY <1>1, <1>4 DEF ApplyTrade, Enters, Side
  <2>2. Opens(book) \/ book.position_type = Side(t)
    BY <1>3, <2>1 DEF Enter
  <2>3. ApplyTrade(t, book) =
          Increase(IF w.quantity = 0 THEN OpenedBook(Side(t), t.executed_at) ELSE book, t)
    BY <1>2, <2>1, <2>2 DEF Enter
  <2> QED
    BY <1>2, <1>4, <2>2, <2>3 DEF InLine
<1>5. CASE ~ Enters(t)
  <2>1. ApplyTrade(t, book) = Exit(Side(t), book, t)
    BY <1>1, <1>5 DEF ApplyTrade, Enters, Side, IsTrade, TradeTypes
  <2> QED
    BY <1>3, <1>5, <2>1 DEF Exit, InLine
<1> QED
  BY <1>4, <1>5

LEMMA IncreaseInLine ==
  ASSUME NEW t, IsTrade(t), Enters(t), NEW b, NEW w, Walked(w), IsPosition(b),
         b.position_type \in PositionTypes, b.status = "OPEN", b.quantity = w.quantity,
         b.total_cost \in Worths, Same(b.total_cost, w.cost)
  PROVE  InLine(Increase(b, t), Step(t, w)) /\ Increase(b, t).position_type = b.position_type
<1>1. PICK q, p : q = t.quantity /\ p = t.price
  OBVIOUS
<1>2. q \in Nat \ {0} /\ p \in Nat \ {0} /\ w.quantity \in Nat
  BY <1>1 DEF IsTrade, Walked
<1>3. PICK h : h = w.quantity + q
  OBVIOUS
<1>4. h \in Nat \ {0} /\ h # 0 /\ h > 0
  BY <1>2, <1>3
<1>5. PICK c : c = Plus(w.cost, Fraction(q * p))
  OBVIOUS
<1>6. Fraction(q * p) \in Worths /\ w.cost \in Worths
  BY <1>2 DEF Fraction, Worths, Walked
<1>7. c \in Worths
  BY <1>5, <1>6, <1>2, WorthsOf
<1>8. /\ Step(t, w) \in Walks /\ Step(t, w).quantity = h /\ Step(t, w).cost = c
      /\ Step(t, w).average = Share(c, h)
  <2>1. w \in Walks
    BY DEF Walked
  <2> QED
    BY <1>1, <1>3, <1>4, <1>5, <2>1, StepIs DEF IsTrade, Enters, Share
<1>9. PICK d : d = <<b.total_cost[1] + q * p * b.total_cost[2], b.total_cost[2]>>
  OBVIOUS
<1>10. d = Plus(b.total_cost, Fraction(q * p))
  <2>1. b.total_cost[1] \in Int /\ b.total_cost[2] \in Nat \ {0} /\ q * p \in Int
    BY <1>2, Parts
  <2> QED
    BY <1>9, <2>1 DEF Plus, Fraction
<1>11. d \in Worths
  BY <1>2, <1>6, <1>10, WorthsOf
<1>12. Same(d, c)
  <2>1. Same(Fraction(q * p), Fraction(q * p))
    BY <1>6, SameIs
  <2> QED
    BY <1>5, <1>6, <1>10, <2>1, SameSums
<1>13. Increase(b, t) = Book(b.position_type, h, Share(d, h), d, b.status, b.opened_at, b.closed_at)
  BY <1>1, <1>3, <1>4, <1>9 DEF Increase, Share
<1>14. /\ Share(c, h) \in Worths /\ Share(d, h) \in Worths /\ Same(Share(d, h), Share(c, h))
       /\ Same(c, Times(h, Share(c, h)))
  BY <1>4, <1>7, <1>11, <1>12, SharesOf
<1>15. Walked(Step(t, w))
  BY <1>4, <1>7, <1>8, <1>14 DEF Walked
<1> QED
  BY <1>4, <1>8, <1>11, <1>12, <1>13, <1>14, <1>15 DEF InLine, Book, IsPosition, NoBook

LEMMA DecreaseInLine ==
  ASSUME NEW t, IsTrade(t), ~ Enters(t), NEW b, NEW w, InLine(b, w), IsPosition(b),
         t.quantity <= w.quantity
  PROVE  InLine(Decrease(b, t), Step(t, w)) /\ Decrease(b, t).position_type = b.position_type
<1>1. PICK q : q = t.quantity
  OBVIOUS
<1>2. q \in Nat \ {0} /\ w.quantity \in Nat /\ q <= w.quantity
  BY <1>1 DEF IsTrade, InLine, Walked
<1>3. PICK h : h = w.quantity - q
  OBVIOUS
<1>4. h \in Nat /\ w.quantity # 0 /\ w.quantity = h + q
  BY <1>2, <1>3
<1>5. PICK a, c : a = w.average /\ c = w.cost
  OBVIOUS
<1>6. a \in Worths /\ c \in Worths /\ Same(c, Times(h + q, a))
  BY <1>4, <1>5 DEF InLine, Walked
<1>7. PICK e : e = Minus(c, Times(q, a))
  OBVIOUS
<1>8. e \in Worths /\ Times(q, a) \in Worths /\ Times(h + q, a) \in Worths /\ Times(h, a) \in Worths
  BY <1>2, <1>4, <1>6, <1>7, WorthsOf
<1>9. /\ Step(t, w) \in Walks /\ Step(t, w).quantity = h
      /\ Step(t, w).cost = (IF h > 0 THEN e ELSE Fraction(0))
      /\ Step(t, w).average = (IF h > 0 THEN Share(e, h) ELSE Fraction(0))
  <2>1. w \in Walks
    BY DEF InLine, Walked
  <2> QED
    BY <1>1, <1>3, <1>5, <1>7, <2>1, StepIs DEF IsTrade, Enters, Share
<1>10. b.quantity = w.quantity /\ b.position_type \in PositionTypes /\ b.status = "OPEN"
  BY <1>4 DEF InLine
<1>11. PICK f, d : f = b.average_price /\ d = b.total_cost
  OBVIOUS
<1>12. f \in Worths /\ d \in Worths /\ Same(f, a) /\ Same(d, c)
  BY <1>5, <1>11 DEF InLine
<1>13. CASE h = 0
  <2>1. Decrease(b, t) = Book(b.position_type, 0, ZeroAmount, ZeroAmount, "CLOSED",
                              b.opened_at, t.executed_at)
    BY <1>1, <1>3, <1>10, <1>13 DEF Decrease
  <2>2. /\ ZeroAmount = Fraction(0) /\ Fraction(0) \in Worths
        /\ Same(Fraction(0), Fraction(0)) /\ Same(Fraction(0), Times(0, Fraction(0)))
    BY DEF ZeroAmount, Fraction, Same, Worths, Times
  <2>3. /\ Step(t, w) \in Walks /\ Step(t, w).quantity = 0
        /\ Step(t, w).cost = Fraction(0) /\ Step(t, w).average = Fraction(0)
    BY <1>9, <1>13
  <2>4. Walked(Step(t, w))
    BY <2>2, <2>3 DEF Walked
  <2> QED
    BY <1>10, <2>1, <2>2, <2>3, <2>4 DEF InLine, Book, IsPosition, NoBook
<1>14. CASE h # 0
  <2>1. h \in Nat \ {0} /\ h > 0
    BY <1>4, <1>14
  <2>2. PICK g : g = <<d[1] * f[2] - q * f[1] * d[2], d[2] * f[2]>>
    OBVIOUS
  <2>3. g = Minus(d, Times(q, f)) /\ g \in Worths
    <3>1. /\ d[1] \in Int /\ d[2] \in Nat \ {0} /\ f[1] \in Int /\ f[2] \in Nat \ {0}
      BY <1>12, Parts
    <3>2. Times(q, f) \in Worths
      BY <1>2, <1>12, WorthsOf
    <3> QED
      BY <1>2, <1>12, <2>2, <3>1, <3>2, WorthsOf DEF Minus, Times
  <2>4. Decrease(b, t) = Book(b.position_type, h, f, g, b.status, b.opened_at, b.closed_at)
    BY <1>1, <1>3, <1>10, <1>11, <1>14, <2>2 DEF Decrease
  <2>5. Same(g, e)
    <3>1. Times(q, f) \in Worths /\ Same(Times(q, f), Times(q, a))
      BY <1>2, <1>6, <1>12, WorthsOf, SameTimes
    <3> QED
      BY <1>6, <1>7, <1>8, <1>12, <2>3, <3>1, SameSums
  <2>6. Same(e, Times(h, a))
    <3>1. Same(Times(q, a), Times(q, a))
      BY <1>8, SameIs
    <3>2. Same(e, Minus(Times(h + q, a), Times(q, a)))
      BY <1>6, <1>7, <1>8, <3>1, SameSums
    <3>3. Same(Minus(Times(h + q, a), Times(q, a)), Times((h + q) - q, a)) /\ (h + q) - q = h
      BY <1>2, <1>4, <1>6, TimesLess
    <3>4. Minus(Times(h + q, a), Times(q, a)) \in Worths
      BY <1>8, <1>2, WorthsOf
    <3> QED
      BY <1>8, <3>2, <3>3, <3>4, SameIs
  <2>7. /\ Share(e, h) \in Worths /\ Same(e, Times(h, Share(e, h)))
        /\ Same(Share(e, h), Share(Times(h, a), h)) /\ Same(Share(Times(h, a), h), a)
        /\ Share(Times(h, a), h) \in Worths
    BY <1>6, <1>8, <2>1, <2>6, SharesOf
  <2>8. Same(f, Share(e, h))
    <3>1. Same(Share(e, h), a)
      BY <1>6, <2>7, SameIs
    <3>2. Same(a, Share(e, h))
      BY <1>6, <2>7, <3>1, SameIs
    <3> QED
      BY <1>6, <1>12, <2>7, <3>2, SameIs
  <2>9. /\ Step(t, w) \in Walks /\ Step(t, w).quantity = h
        /\ Step(t, w).cost = e /\ Step(t, w).average = Share(e, h)
    BY <1>9, <2>1
  <2>10. Walked(Step(t, w))
    BY <1>8, <2>1, <2>7, <2>9 DEF Walked
  <2> QED
    BY <1>10, <1>12, <2>1, <2>3, <2>4, <2>5, <2>8, <2>9, <2>10
       DEF InLine, Book, IsPosition, NoBook
<1> QED
  BY <1>13, <1>14

LEMMA StepInLine ==
  ASSUME NEW t, IsTrade(t), NEW book, NEW w, InLine(book, w), ~ IsFailure(ApplyTrade(t, book))
  PROVE  /\ InLine(ApplyTrade(t, book), Step(t, w))
         /\ IsPosition(ApplyTrade(t, book))
         /\ ApplyTrade(t, book).position_type = Side(t)
<1>1. ASSUME NEW b, NEW v, InLine(b, v), v.quantity # 0 \/ IsPosition(b) PROVE IsPosition(b)
  BY <1>1 DEF InLine
<1>2. CASE Enters(t)
  <2>1. PICK b : b = IF w.quantity = 0 THEN OpenedBook(Side(t), t.executed_at) ELSE book
    OBVIOUS
  <2>2. ApplyTrade(t, book) = Increase(b, t)
    BY <1>2, <2>1, TakenTrade
  <2>3. /\ IsPosition(b) /\ b.position_type = Side(t) /\ b.position_type \in PositionTypes
        /\ b.status = "OPEN" /\ b.quantity = w.quantity
        /\ b.total_cost \in Worths /\ Same(b.total_cost, w.cost)
    <3>1. CASE w.quantity = 0
      <4>1. ZeroAmount = Fraction(0) /\ Fraction(0) \in Worths /\ Same(Fraction(0), Fraction(0))
        BY DEF ZeroAmount, Fraction, Same, Worths
      <4>2. w.cost = Fraction(0)
        BY <3>1 DEF InLine, Walked
      <4>3. b = OpenedBook(Side(t), t.executed_at)
        BY <2>1, <3>1
      <4>4. Side(t) \in PositionTypes
        BY DEF Side, PositionTypes
      <4> QED
        BY <3>1, <4>1, <4>2, <4>3, <4>4 DEF OpenedBook, Book, IsPosition
    <3>2. CASE w.quantity # 0
      BY <2>1, <3>2, TakenTrade DEF InLine
    <3> QED
      BY <3>1, <3>2
  <2>4. Walked(w)
    BY DEF InLine
  <2>5. InLine(Increase(b, t), Step(t, w)) /\ Increase(b, t).position_type = b.position_type
    BY <1>2, <2>3, <2>4, IncreaseInLine
  <2>6. Step(t, w).quantity # 0
    <3>1. w.quantity \in Nat /\ t.quantity \in Nat \ {0} /\ w \in Walks
      BY DEF IsTrade, InLine, Walked
    <3>2. Step(t, w).quantity = w.quantity + t.quantity
      BY <1>2, <3>1, StepIs DEF IsTrade, Enters
    <3> QED
      BY <3>1, <3>2
  <2> QED
    BY <1>1, <2>2, <2>3, <2>5, <2>6
<1>3. CASE ~ Enters(t)
  <2>1. /\ ApplyTrade(t, book) = Decrease(book, t) /\ IsPosition(book)
        /\ book.position_type = Side(t) /\ t.quantity <= w.quantity
    BY <1>3, TakenTrade
  <2>2. IsPosition(Decrease(book, t))
    BY DEF Decrease, Book, IsPosition
  <2> QED
    BY <1>3, <2>1, <2>2, DecreaseInLine
<1> QED
  BY <1>2, <1>3

\* The part of an accepted ledger that comes before its latest trade is accepted.
LEMMA AcceptedBefore ==
  ASSUME NEW L, Accepted(L), L # {}
  PROVE  /\ Latest(L) \in L /\ IsTrade(Latest(L))
         /\ Accepted(L \ {Latest(L)})
         /\ Replay(L) = ApplyTrade(Latest(L), Replay(L \ {Latest(L)}))
         /\ Walk(L) = Step(Latest(L), Walk(L \ {Latest(L)}))
<1>1. /\ Latest(L) \in L
      /\ Replay(L) = ApplyTrade(Latest(L), Replay(L \ {Latest(L)}))
      /\ Walk(L) = Step(Latest(L), Walk(L \ {Latest(L)}))
  BY ReplayUnfolds, WalkUnfolds DEF Accepted, AreTrades
<1>2. ~ IsFailure(Replay(L \ {Latest(L)}))
  BY <1>1 DEF Accepted, ApplyTrade
<1>3. AreTrades(L \ {Latest(L)})
  BY SomeTrades DEF Accepted
<1> QED
  BY <1>1, <1>2, <1>3 DEF Accepted, AreTrades, IsTrade

LEMMA WalkInLine ==
  ASSUME NEW L, Accepted(L)
  PROVE  InLine(Replay(L), Walk(L))
<1> DEFINE Bad(s) == Accepted(s) /\ ~ InLine(Replay(s), Walk(s))
           bad == {s \in SUBSET L : Bad(s)}
<1>1. bad = {}
  <2> SUFFICES ASSUME bad # {} PROVE FALSE
    OBVIOUS
  <2>1. PICK s \in bad : \A r \in bad : r \subseteq s => r = s
    <3>1. bad \subseteq SUBSET L /\ IsFiniteSet(L)
      BY DEF Accepted, AreTrades, IsLedger
    <3> HIDE DEF bad
    <3> QED
      BY <3>1, LeastSubset
  <2>2. s \in SUBSET L /\ Accepted(s) /\ ~ InLine(Replay(s), Walk(s))
    OBVIOUS
  <2>3. CASE s = {}
    <3>1. Replay(s) = NoBook /\ Walk(s) = Start
      BY <2>2, <2>3, ReplayUnfolds, WalkUnfolds DEF Accepted, AreTrades
    <3>2. /\ Start \in Walks /\ Start.quantity = 0 /\ Start.cost = Fraction(0)
          /\ Start.average = Fraction(0)
      BY StartIs DEF Start
    <3>3. Fraction(0) \in Worths /\ Same(Fraction(0), Times(0, Fraction(0)))
      BY DEF Fraction, Same, Worths, Times
    <3>4. Walked(Start)
      BY <3>2, <3>3 DEF Walked
    <3> QED
      BY <2>2, <3>1, <3>2, <3>4 DEF InLine, NoBook, IsPosition
  <2>4. CASE s # {}
    <3>1. PICK t : t = Latest(s)
      OBVIOUS
    <3>2. /\ t \in s /\ IsTrade(t) /\ Accepted(s \ {t})
          /\ Replay(s) = ApplyTrade(t, Replay(s \ {t})) /\ Walk(s) = Step(t, Walk(s \ {t}))
      BY <2>2, <2>4, <3>1, AcceptedBefore
    <3>3. InLine(Replay(s \ {t}), Walk(s \ {t}))
      BY <2>1, <2>2, <3>2
    <3>4. ~ IsFailure(ApplyTrade(t, Replay(s \ {t})))
      BY <2>2, <3>2 DEF Accepted
    <3> QED
      BY <2>2, <3>2, <3>3, <3>4, StepInLine
  <2> QED
    BY <2>3, <2>4
<1>2. ~ Bad(L)
  BY <1>1
<1> QED
  BY <1>2

-----------------------------------------------------------------------------
(***************************************************************************)
(* What is always so of trades and prices.                                 *)
(***************************************************************************)
IsQuote(x) ==
  x.asset \in Assets /\ x.price \in Nat \ {0} /\ x.stamp \in Nat /\ x.order \in Nat

ReportsInv ==
  /\ now \in Nat
  /\ AreTrades(trades) /\ IsFiniteSet(prices)
  /\ \A t \in trades : /\ t.portfolio \in Portfolios /\ t.asset \in Assets
                       /\ t.id <= Cardinality(trades)
  /\ \A p \in Portfolios, a \in Assets : Accepted(LedgerOf(p, a))
  /\ \A x \in prices : IsQuote(x) /\ x.stamp <= now

LEMMA ReportsInit == Init => ReportsInv
<1> SUFFICES ASSUME Init PROVE ReportsInv
  OBVIOUS
<1>1. now = 0 /\ trades = {} /\ prices = {}
  BY DEF Init
<1>2. IsFiniteSet({}) /\ AreTrades({})
  BY FS_EmptySet DEF AreTrades, IsLedger
<1>3. ~ IsFailure(Replay({}))
  BY EmptyReplay DEF IsFailure, NoBook
<1>4. \A p, a : LedgerOf(p, a) = {}
  BY <1>1 DEF LedgerOf
<1> QED
  BY <1>1, <1>2, <1>3, <1>4 DEF ReportsInv, Accepted

LEMMA RegisterKeeps ==
  ASSUME ReportsInv, Register
  PROVE  ReportsInv'
<1> DEFINE Trade(offer, time) ==
      [id |-> Cardinality(trades) + 1, portfolio |-> offer.portfolio, asset |-> offer.asset,
       trade_type |-> offer.trade_type, quantity |-> offer.quantity, price |-> offer.price,
       executed_at |-> time]
<1>0. PICK offer \in Offers, time \in TradeTimes :
        /\ ~ IsFailure(Replay(LedgerOf(offer.portfolio, offer.asset) \cup {Trade(offer, time)}))
        /\ trades' = trades \cup {Trade(offer, time)}
        /\ UNCHANGED <<now, prices>>
  BY DEF Register
<1>a. PICK trade : trade = Trade(offer, time)
  OBVIOUS
<1>1. /\ ~ IsFailure(Replay(LedgerOf(offer.portfolio, offer.asset) \cup {trade}))
      /\ trades' = trades \cup {trade}
      /\ UNCHANGED <<now, prices>>
  BY <1>0, <1>a
<1>2. /\ trade.id = Cardinality(trades) + 1 /\ trade.executed_at = time
      /\ trade.portfolio = offer.portfolio /\ trade.asset = offer.asset
      /\ trade.trade_type = offer.trade_type /\ trade.quantity = offer.quantity
      /\ trade.price = offer.price
  BY <1>a
<1>3. /\ offer.portfolio \in Portfolios /\ offer.asset \in Assets
      /\ offer.trade_type \in TradeTypes
      /\ offer.quantity \in Nat \ {0} /\ offer.price \in Nat \ {0}
  BY ReportsAssumption
<1>4. IsFiniteSet(trades) /\ Cardinality(trades) \in Nat
  BY FS_CardinalityType DEF ReportsInv, AreTrades, IsLedger
<1>5. time \in Nat
  BY ReportsAssumption
<1>6. trade \notin trades
  BY <1>2, <1>4 DEF ReportsInv, AreTrades, IsLedger
<1>7. IsFiniteSet(trades') /\ Cardinality(trades') = Cardinality(trades) + 1
  BY <1>1, <1>4, <1>6, FS_AddElement
<1>8. AreTrades(trades')
  <2>1. \A t \in trades' : t.id \in Nat /\ t.executed_at \in Nat
    BY <1>1, <1>2, <1>4, <1>5 DEF ReportsInv, AreTrades, IsLedger
  <2>2. \A t, u \in trades' : t.id = u.id => t = u
    BY <1>1, <1>2, <1>4 DEF ReportsInv, AreTrades, IsLedger
  <2>3. \A t \in trades' : /\ t.trade_type \in TradeTypes
                           /\ t.quantity \in Nat \ {0} /\ t.price \in Nat \ {0}
    BY <1>1, <1>2, <1>3 DEF ReportsInv, AreTrades
  <2> QED
    BY <1>7, <2>1, <2>2, <2>3 DEF AreTrades, IsLedger
<1>9. \A t \in trades' : /\ t.portfolio \in Portfolios /\ t.asset \in Assets
                         /\ t.id <= Cardinality(trades')
  BY <1>1, <1>2, <1>3, <1>4, <1>5, <1>7 DEF ReportsInv, AreTrades, IsLedger
<1>10. ASSUME NEW p \in Portfolios, NEW a \in Assets
       PROVE  Accepted(LedgerOf(p, a)')
  <2>1. LedgerOf(p, a)' \subseteq trades'
    BY DEF LedgerOf
  <2>2. AreTrades(LedgerOf(p, a)')
    BY <1>8, <2>1, SomeTrades
  <2>3. CASE p = offer.portfolio /\ a = offer.asset
    <3>1. LedgerOf(p, a)' = LedgerOf(p, a) \cup {trade}
      BY <1>1, <1>2, <2>3 DEF LedgerOf
    <3> QED
      BY <1>1, <2>2, <2>3, <3>1 DEF Accepted
  <2>4. CASE ~ (p = offer.portfolio /\ a = offer.asset)
    <3>1. LedgerOf(p, a)' = LedgerOf(p, a)
      BY <1>1, <1>2, <2>4 DEF LedgerOf
    <3> QED
      BY <3>1 DEF ReportsInv
  <2> QED
    BY <2>3, <2>4
<1> QED
  BY <1>1, <1>8, <1>9, <1>10 DEF ReportsInv

LEMMA QuoteKeeps ==
  ASSUME ReportsInv, Quote
  PROVE  ReportsInv'
<1> DEFINE Price(quote, stamp, n) ==
      [asset |-> quote.asset, price |-> quote.price, stamp |-> stamp, order |-> n]
           Tied(quote, stamp) == {x \in PricesOf(quote.asset) : x.stamp = stamp}
<1>0. PICK quote \in Quotes, stamp \in 0 .. now :
        /\ prices' = prices \cup {Price(quote, stamp, Cardinality(Tied(quote, stamp)) + 1)}
        /\ UNCHANGED <<now, trades>>
  BY DEF Quote
<1>c. Cardinality(Tied(quote, stamp)) + 1 \in Nat
  <2>1. Tied(quote, stamp) \subseteq prices
    BY DEF PricesOf
  <2> HIDE DEF Tied
  <2> QED
    BY <2>1, FS_Subset, FS_CardinalityType DEF ReportsInv
<1>a. PICK n \in Nat : prices' = prices \cup {Price(quote, stamp, n)}
  BY <1>0, <1>c
<1>b. PICK x : x = Price(quote, stamp, n)
  OBVIOUS
<1>1. prices' = prices \cup {x} /\ UNCHANGED <<now, trades>>
  BY <1>0, <1>a, <1>b
<1>2. IsQuote(x) /\ x.stamp <= now
  BY <1>b, ReportsAssumption DEF IsQuote, ReportsInv
<1>3. IsFiniteSet(prices')
  BY <1>1, FS_AddElement DEF ReportsInv
<1> QED
  BY <1>1, <1>2, <1>3 DEF ReportsInv, LedgerOf

LEMMA TickKeeps ==
  ASSUME ReportsInv, now' \in Nat, now' >= now, UNCHANGED <<trades, prices>>
  PROVE  ReportsInv'
  BY DEF ReportsInv, LedgerOf, AreTrades, IsLedger, IsQuote

LEMMA ReportsAlways == Spec => []ReportsInv
<1>1. ReportsInv /\ [Next]_vars => ReportsInv'
  <2> SUFFICES ASSUME ReportsInv, [Next]_vars PROVE ReportsInv'
    OBVIOUS
  <2>1. CASE Register
    BY <2>1, RegisterKeeps
  <2>2. CASE Quote
    BY <2>2, QuoteKeeps
  <2>3. CASE Tick
    BY <2>3, TickKeeps DEF Tick, ReportsInv
  <2>4. CASE UNCHANGED vars
    BY <2>4, TickKeeps DEF vars, ReportsInv
  <2> QED
    BY <2>1, <2>2, <2>3, <2>4 DEF Next
<1> QED
  BY <1>1, ReportsInit, PTL DEF Spec

-----------------------------------------------------------------------------
(***************************************************************************)
(* The last of some things, and things in their order.                     *)
(***************************************************************************)
LEMMA LastExists ==
  ASSUME NEW K, IsFiniteSet(K), K # {}, NEW m, \A x \in K : m[x] \in Int
  PROVE  \E x \in K : \A y \in K : m[y] <= m[x]
<1> DEFINE From(x) == {y \in K : m[y] >= m[x]}
<1>1. PICK U : U = {From(x) : x \in K}
  OBVIOUS
<1>2. U \subseteq SUBSET K /\ U # {}
  BY <1>1
<1>3. PICK s \in U : \A r \in U : r \subseteq s => r = s
  BY <1>2, LeastSubset
<1>4. PICK x \in K : s = From(x)
  BY <1>1, <1>3
<1>5. ASSUME NEW y \in K PROVE m[y] <= m[x]
  <2>1. From(y) \subseteq From(x) => From(y) = From(x)
    BY <1>1, <1>3, <1>4
  <2>2. m[x] \in Int /\ m[y] \in Int
    OBVIOUS
  <2> QED
    BY <2>1, <2>2
<1> QED
  BY <1>5

Ordered(P, series) ==
  /\ series \in [1 .. Cardinality(P) -> P]
  /\ \A i, j \in DOMAIN series : i < j => series[i].date < series[j].date

Dated(P) ==
  /\ IsFiniteSet(P)
  /\ \A x \in P : x.date \in Int
  /\ \A x, y \in P : x.date = y.date => x = y

LEMMA OrderedExists ==
  ASSUME NEW P, Dated(P)
  PROVE  \E series : Ordered(P, series)
<1> DEFINE bad == {s \in SUBSET P : ~ \E series : Ordered(s, series)}
<1>1. bad = {}
  <2> SUFFICES ASSUME bad # {} PROVE FALSE
    OBVIOUS
  <2>1. PICK s \in bad : \A r \in bad : r \subseteq s => r = s
    <3>1. bad \subseteq SUBSET P /\ IsFiniteSet(P)
      BY DEF Dated
    <3> HIDE DEF bad
    <3> QED
      BY <3>1, LeastSubset
  <2>2. s \in SUBSET P /\ ~ \E series : Ordered(s, series)
    OBVIOUS
  <2>3. IsFiniteSet(s) /\ \A x \in s : x.date \in Int
    BY <2>2, FS_Subset DEF Dated
  <2>4. s # {}
    <3> SUFFICES ASSUME s = {} PROVE FALSE
      OBVIOUS
    <3>1. Cardinality(s) = 0
      BY FS_EmptySet
    <3>2. PICK e : e = [i \in 1 .. 0 |-> 0]
      OBVIOUS
    <3>3. 1 .. 0 = {} /\ DOMAIN e = {} /\ e \in [{} -> s]
      BY <3>2
    <3>4. Ordered(s, e)
      BY <3>1, <3>3 DEF Ordered
    <3> QED
      BY <2>2, <3>4
  <2>5. PICK x \in s : \A y \in s : y.date <= x.date
    <3>1. PICK m : m = [y \in s |-> y.date]
      OBVIOUS
    <3>2. \A y \in s : m[y] = y.date /\ m[y] \in Int
      BY <2>3, <3>1
    <3>3. \E x \in s : \A y \in s : m[y] <= m[x]
      BY <2>3, <2>4, <3>2, LastExists
    <3> QED
      BY <3>2, <3>3
  <2>6. PICK r : r = s \ {x}
    OBVIOUS
  <2>7. PICK f : Ordered(r, f)
    <3>1. r \subseteq s /\ r # s /\ r \in SUBSET P
      BY <2>2, <2>5, <2>6
    <3> QED
      BY <2>1, <3>1
  <2>8. PICK n : n = Cardinality(r)
    OBVIOUS
  <2>9. n \in Nat /\ Cardinality(s) = n + 1
    <3>1. Cardinality(s) \in Nat
      BY <2>3, FS_CardinalityType
    <3>2. IsFiniteSet(r) /\ Cardinality(r) = Cardinality(s) - 1
      BY <2>3, <2>5, <2>6, FS_RemoveElement
    <3>3. Cardinality(r) \in Nat
      BY <3>2, FS_CardinalityType
    <3> QED
      BY <2>8, <3>1, <3>2, <3>3
  <2>10. PICK g : g = [i \in 1 .. n + 1 |-> IF i = n + 1 THEN x ELSE f[i]]
    OBVIOUS
  <2>11. /\ f \in [1 .. n -> r]
         /\ \A i, j \in 1 .. n : i < j => f[i].date < f[j].date
    BY <2>7, <2>8 DEF Ordered
  <2>12. \A i \in 1 .. n + 1 : i # n + 1 => i \in 1 .. n
    BY <2>9
  <2>13. g \in [1 .. n + 1 -> s]
    BY <2>5, <2>6, <2>10, <2>11, <2>12
  <2>14. ASSUME NEW i \in 1 .. n + 1, NEW j \in 1 .. n + 1, i < j
         PROVE  g[i].date < g[j].date
    <3>1. i # n + 1 /\ i \in 1 .. n
      BY <2>9, <2>14
    <3>2. g[i] = f[i] /\ f[i] \in r
      BY <2>10, <2>11, <3>1
    <3>3. CASE j = n + 1
      <4>1. g[j] = x
        BY <2>10, <3>3
      <4>2. f[i] \in s /\ f[i] # x /\ f[i].date <= x.date /\ f[i] \in P /\ x \in P
        BY <2>2, <2>5, <2>6, <3>2
      <4>3. f[i].date # x.date /\ f[i].date \in Int /\ x.date \in Int
        BY <4>2 DEF Dated
      <4> QED
        BY <3>2, <4>1, <4>2, <4>3
    <3>4. CASE j # n + 1
      BY <2>10, <2>11, <2>12, <2>14, <3>1, <3>2, <3>4
    <3> QED
      BY <3>3, <3>4
  <2>15. Ordered(s, g)
    BY <2>9, <2>13, <2>14 DEF Ordered
  <2> QED
    BY <2>2, <2>15
<1> QED
  BY <1>1

\* A series in order is a sequence that leaves nothing out and has no two of one date.
LEMMA OrderedIs ==
  ASSUME NEW P, Dated(P), NEW series, Ordered(P, series)
  PROVE  /\ series \in Seq(P) /\ Len(series) = Cardinality(P)
         /\ \A x \in P : \E i \in DOMAIN series : series[i] = x
         /\ \A i \in DOMAIN series : series[i] \in P /\ series[i].date \in Int
         /\ P # {} => Len(series) \in DOMAIN series
<1>1. PICK n : n = Cardinality(P)
  OBVIOUS
<1>2. n \in Nat
  BY <1>1, FS_CardinalityType DEF Dated
<1>3. series \in [1 .. n -> P] /\ \A i, j \in 1 .. n : i < j => series[i].date < series[j].date
  BY <1>1 DEF Ordered
<1>4. series \in Seq(P) /\ Len(series) = n /\ DOMAIN series = 1 .. n
  BY <1>2, <1>3
<1>5. \A i \in 1 .. n : series[i] \in P /\ series[i].date \in Int
  BY <1>3 DEF Dated
<1>6. \A i, j \in 1 .. n : series[i] = series[j] => i = j
  <2> SUFFICES ASSUME NEW i \in 1 .. n, NEW j \in 1 .. n, series[i] = series[j], i # j
               PROVE  FALSE
    OBVIOUS
  <2>1. i < j \/ j < i
    BY <1>2
  <2>2. series[i].date \in Int
    BY <1>5
  <2> QED
    BY <1>3, <2>1, <2>2
<1>7. series \in Injection(1 .. n, P)
  BY <1>3, <1>6 DEF Injection, IsInjective
<1>8. IsFiniteSet(1 .. n) /\ Cardinality(1 .. n) = n
  BY <1>2, FS_Interval
<1>9. series \in Surjection(1 .. n, P)
  BY <1>1, <1>7, <1>8, FS_Injection DEF Dated
<1>10. \A x \in P : \E i \in 1 .. n : series[i] = x
  BY <1>9 DEF Surjection
<1>11. P # {} => n \in 1 .. n
  <2>1. P # {} => n # 0
    BY <1>1, FS_EmptySet DEF Dated
  <2> QED
    BY <1>2, <2>1
<1> QED
  BY <1>1, <1>4, <1>5, <1>10, <1>11

-----------------------------------------------------------------------------
(***************************************************************************)
(* Days and prices.                                                        *)
(***************************************************************************)
LEMMA DateIs ==
  ASSUME NEW i \in Nat, NEW j \in Nat
  PROVE  /\ Date(i) \in Nat
         /\ Date(i) * DayLength <= i /\ i < Date(i) * DayLength + DayLength
         /\ i <= j => Date(i) <= Date(j)
         /\ i < Date(j) * DayLength <=> Date(i) < Date(j)
<1>1. DayLength \in Nat \ {0}
  BY ReportsAssumption
<1>2. PICK d, e : d = Date(i) /\ e = Date(j)
  OBVIOUS
<1>3. /\ d \in Nat /\ d * DayLength <= i /\ i < d * DayLength + DayLength
      /\ e \in Nat /\ e * DayLength <= j /\ j < e * DayLength + DayLength
  BY <1>1, <1>2 DEF Date
<1>4. ASSUME NEW m \in Nat, NEW n \in Nat, m < n
      PROVE  m * DayLength + DayLength <= n * DayLength
  <2>1. PICK k \in Nat : n = (m + 1) + k
    <3>1. n - (m + 1) \in Nat /\ n = (m + 1) + (n - (m + 1))
      BY <1>4
    <3> QED
      BY <3>1
  <2>2. n * DayLength = (m * DayLength + DayLength) + k * DayLength
    BY <1>1, <2>1
  <2>3. k * DayLength \in Nat /\ m * DayLength \in Nat
    BY <1>1
  <2> QED
    BY <1>1, <2>2, <2>3
<1>5. d * DayLength \in Nat /\ e * DayLength \in Nat
  BY <1>1, <1>3
<1>6. i <= j => d <= e
  <2> SUFFICES ASSUME i <= j, e < d PROVE FALSE
    BY <1>3
  <2>1. e * DayLength + DayLength <= d * DayLength
    BY <1>3, <1>4
  <2> QED
    BY <1>1, <1>3, <1>5, <2>1
<1>7. ASSUME i < e * DayLength PROVE d < e
  <2> SUFFICES ASSUME e <= d PROVE FALSE
    BY <1>3
  <2>1. e = d \/ e < d
    BY <1>3
  <2>2. e * DayLength <= d * DayLength
    <3>1. CASE e = d
      BY <1>5, <3>1
    <3>2. CASE e < d
      <4>1. e * DayLength + DayLength <= d * DayLength
        BY <1>3, <1>4, <3>2
      <4> QED
        BY <1>1, <1>5, <4>1
    <3> QED
      BY <2>1, <3>1, <3>2
  <2> QED
    BY <1>3, <1>5, <1>7, <2>2
<1>8. ASSUME d < e PROVE i < e * DayLength
  <2>1. d * DayLength + DayLength <= e * DayLength
    BY <1>3, <1>4, <1>8
  <2> QED
    BY <1>1, <1>3, <1>5, <2>1
<1> QED
  BY <1>2, <1>3, <1>6, <1>7, <1>8

\* Nothing of these prices is later.
IsLast(x, K) == x \in K /\ \A y \in K : y.stamp <= x.stamp

AreQuotes(K) == IsFiniteSet(K) /\ \A x \in K : IsQuote(x)

LEMMA LastQuote ==
  ASSUME NEW K, AreQuotes(K), K # {}
  PROVE  /\ \E x : IsLast(x, K)
         /\ \E x : IsLast(x, K) /\ LastOf(K) = x.price
         /\ LastOf(K) \in Nat \ {0}
<1>1. PICK m : m = [y \in K |-> y.stamp]
  OBVIOUS
<1>2. \A y \in K : m[y] = y.stamp /\ m[y] \in Int
  BY <1>1 DEF AreQuotes, IsQuote
<1>3. \E x \in K : \A y \in K : m[y] <= m[x]
  BY <1>2, LastExists DEF AreQuotes
<1>4. \E x \in K : \A y \in K : y.stamp <= x.stamp
  BY <1>2, <1>3
<1>5. PICK x \in K : (\A y \in K : y.stamp <= x.stamp) /\ LastOf(K) = x.price
  BY <1>4 DEF LastOf
<1> QED
  BY <1>5 DEF IsLast, AreQuotes, IsQuote

\* Of prices that do not share their last time there is one last.
LEMMA OneLast ==
  ASSUME NEW K, AreQuotes(K), ~ Ambiguous(K), NEW x, IsLast(x, K), NEW y, IsLast(y, K)
  PROVE  x = y
<1>1. x.stamp = y.stamp
  BY DEF IsLast, AreQuotes, IsQuote
<1> QED
  BY <1>1 DEF IsLast, Ambiguous

LEMMA PricesAre ==
  ASSUME ReportsInv, NEW a, NEW K, K \subseteq PricesOf(a)
  PROVE  AreQuotes(K) /\ \A x \in K : x.stamp <= now
<1>1. K \subseteq prices
  BY DEF PricesOf
<1> QED
  BY <1>1, FS_Subset DEF ReportsInv, AreQuotes

LEMMA LatestPriceIs ==
  ASSUME ReportsInv, NEW a, PricesOf(a) # {}, ~ Ambiguous(PricesOf(a))
  PROVE  \E x : IsLast(x, PricesOf(a)) /\ LatestPrice(a) = x.price
<1>1. AreQuotes(PricesOf(a))
  BY PricesAre
<1>2. PICK x : IsLast(x, PricesOf(a))
  BY <1>1, LastQuote
<1> DEFINE Newest(z) == \A y \in PricesOf(a) :
             y.stamp < z.stamp \/ (y.stamp = z.stamp /\ y.order <= z.order)
<1>3. Newest(x)
  <2> SUFFICES ASSUME NEW y \in PricesOf(a)
               PROVE  y.stamp < x.stamp \/ (y.stamp = x.stamp /\ y.order <= x.order)
    OBVIOUS
  <2>1. y.stamp \in Nat /\ x.stamp \in Nat /\ x.order \in Nat /\ y.stamp <= x.stamp
    BY <1>1, <1>2 DEF AreQuotes, IsQuote, IsLast
  <2>2. CASE y.stamp = x.stamp
    <3>1. IsLast(y, PricesOf(a))
      BY <1>2, <2>2 DEF IsLast
    <3>2. y = x
      BY <1>1, <1>2, <3>1, OneLast
    <3> QED
      BY <2>1, <3>2
  <2> QED
    BY <2>1, <2>2
<1>4. PICK z \in PricesOf(a) : Newest(z) /\ LatestPrice(a) = z.price
  <2>1. x \in PricesOf(a)
    BY <1>2 DEF IsLast
  <2> HIDE DEF Newest
  <2>2. LatestPrice(a) = (CHOOSE w \in PricesOf(a) : Newest(w)).price
    BY DEF LatestPrice, Newest
  <2> QED
    BY <1>3, <2>1, <2>2
<1>5. IsLast(z, PricesOf(a))
  BY <1>1, <1>4 DEF IsLast, AreQuotes, IsQuote
<1> QED
  BY <1>4, <1>5

-----------------------------------------------------------------------------
(***************************************************************************)
(* Positions, and the amounts reported of them.                            *)
(***************************************************************************)
LEMMA PositionIs ==
  ASSUME ReportsInv, NEW p \in Portfolios, NEW a \in Assets
  PROVE  /\ InLine(Position(p, a), Walk(LedgerOf(p, a)))
         /\ a \in Traded(p) <=> IsPosition(Position(p, a))
         /\ a \in Traded(p) => (IsOpen(p, a) <=> Walk(LedgerOf(p, a)).quantity # 0)
         /\ IsOpen(p, a) => a \in Traded(p)
<1>1. Accepted(LedgerOf(p, a))
  BY DEF ReportsInv
<1>2. InLine(Position(p, a), Walk(LedgerOf(p, a)))
  BY <1>1, WalkInLine DEF Position
<1>3. a \in Traded(p) <=> IsPosition(Position(p, a))
  <2>1. LedgerOf(p, a) = {} <=> Replay(LedgerOf(p, a)) = NoBook
    BY <1>1, ReplayAnswers DEF Accepted, AreTrades
  <2> QED
    BY <1>2, <2>1 DEF Position, InLine, Traded, IsPosition, NoBook
<1> QED
  BY <1>2, <1>3 DEF InLine, IsOpen

LEMMA TradedFinite ==
  ASSUME ReportsInv, NEW p
  PROVE  IsFiniteSet(Traded(p)) /\ Traded(p) \subseteq Assets
<1>1. PICK A : A = {t.asset : t \in trades}
  OBVIOUS
<1>2. PICK f : f = [t \in trades |-> t.asset]
  OBVIOUS
<1>3. f \in Surjection(trades, A)
  BY <1>1, <1>2 DEF Surjection
<1>4. IsFiniteSet(A)
  BY <1>3, FS_Surjection DEF ReportsInv, AreTrades, IsLedger
<1>5. Traded(p) \subseteq A
  BY <1>1 DEF Traded, LedgerOf
<1> QED
  BY <1>4, <1>5, FS_Subset DEF Traded

\* A portfolio's value is the sum of its positions' values.
LEMMA PortfolioValueIs ==
  ASSUME NEW p, NEW f, f = [a \in Valued(p) |-> PositionValue(p, a)], AreAmounts(f, Valued(p))
  PROVE  PortfolioValue(p) = SumOf(f, Valued(p))
<1>1. PICK S : S = Valued(p)
  OBVIOUS
<1> DEFINE Eq(it) == it = [s \in SUBSET S |->
             IF s = {} THEN Fraction(0) ELSE Plus(PositionValue(p, OneOf(s)), it[s \ {OneOf(s)}])]
<1>2. PortfolioValue(p) = (CHOOSE it : Eq(it))[S]
  BY <1>1 DEF PortfolioValue, Total, FoldSet, MapThenFoldSet, OneOf
<1>3. \A s \in SUBSET S : s # {} => f[OneOf(s)] = PositionValue(p, OneOf(s))
  BY <1>1 DEF OneOf
<1>4. \A it : Eq(it) <=> Adds(f, S, it)
  BY <1>3 DEF Adds
<1>5. PICK it : Eq(it) /\ PortfolioValue(p) = it[S]
  <2>1. \E it : Adds(f, S, it)
    BY <1>1, AddsSome
  <2> HIDE DEF Eq
  <2> QED
    BY <1>2, <1>4, <2>1
<1>6. Adds(f, S, it) /\ AreAmounts(f, S)
  BY <1>1, <1>4, <1>5
<1> HIDE DEF Eq
<1>7. it[S] = SumOf(f, S)
  BY <1>6, SumIs
<1> QED
  BY <1>1, <1>5, <1>7

PricedOn(p, date) == {a \in Traded(p) : \E x \in Recent(a) : Date(x.stamp) <= date}

ValueOn(p, date, a) == Fraction(QuantityAtDate(p, a, date) * PriceOnDate(a, date))

LEMMA ValueOnDateIs ==
  ASSUME NEW p, NEW date, NEW f, f = [a \in PricedOn(p, date) |-> ValueOn(p, date, a)],
         AreAmounts(f, PricedOn(p, date))
  PROVE  ValueOnDate(p, date) = SumOf(f, PricedOn(p, date))[1]
<1>1. PICK S : S = PricedOn(p, date)
  OBVIOUS
<1> DEFINE Eq(it) == it = [s \in SUBSET S |->
             IF s = {} THEN Fraction(0) ELSE Plus(ValueOn(p, date, OneOf(s)), it[s \ {OneOf(s)}])]
<1>2. ValueOnDate(p, date) = (CHOOSE it : Eq(it))[S][1]
  BY <1>1 DEF ValueOnDate, ValueOn, PricedOn, Total, FoldSet, MapThenFoldSet, OneOf
<1>3. \A s \in SUBSET S : s # {} => f[OneOf(s)] = ValueOn(p, date, OneOf(s))
  BY <1>1 DEF OneOf
<1>4. \A it : Eq(it) <=> Adds(f, S, it)
  BY <1>3 DEF Adds
<1>5. PICK it : Eq(it) /\ ValueOnDate(p, date) = it[S][1]
  <2>1. \E it : Adds(f, S, it)
    BY <1>1, AddsSome
  <2> HIDE DEF Eq
  <2> QED
    BY <1>2, <1>4, <2>1
<1>6. Adds(f, S, it) /\ AreAmounts(f, S)
  BY <1>1, <1>4, <1>5
<1> HIDE DEF Eq
<1>7. it[S] = SumOf(f, S)
  BY <1>6, SumIs
<1> QED
  BY <1>1, <1>5, <1>7


-----------------------------------------------------------------------------
(***************************************************************************)
(* The value series.                                                       *)
(***************************************************************************)
LEMMA RecentAre ==
  ASSUME ReportsInv, NEW a, NEW date
  PROVE  /\ AreQuotes({x \in Recent(a) : Date(x.stamp) <= date})
         /\ Recent(a) \subseteq PricesOf(a)
         /\ \A x \in Recent(a) : x.stamp \in Nat /\ x.stamp <= now
                                 /\ Date(x.stamp) \in Nat /\ Date(x.stamp) <= Date(now)
<1>1. Recent(a) \subseteq PricesOf(a)
  BY DEF Recent, Between
<1>2. \A x \in Recent(a) : x.stamp \in Nat /\ x.stamp <= now
  BY <1>1, PricesAre DEF AreQuotes, IsQuote
<1>3. \A x \in Recent(a) : Date(x.stamp) \in Nat /\ Date(x.stamp) <= Date(now)
  BY <1>2, DateIs DEF ReportsInv
<1>4. {x \in Recent(a) : Date(x.stamp) <= date} \subseteq PricesOf(a)
  BY <1>1
<1> QED
  BY <1>1, <1>2, <1>3, <1>4, PricesAre

LEMMA HeldOnDate ==
  ASSUME ReportsInv, NEW p \in Portfolios, NEW a \in Assets, NEW date
  PROVE  QuantityAtDate(p, a, date) \in Int
<1>1. PICK L : L = {t \in LedgerOf(p, a) : Date(t.executed_at) <= date}
  OBVIOUS
<1>2. AreTrades(L)
  BY <1>1, SomeTrades DEF LedgerOf, ReportsInv
<1>3. Walk(L).quantity \in Int
  BY <1>2, WalkUnfolds DEF Walks
<1> QED
  BY <1>1, <1>3 DEF QuantityAtDate

LEMMA ValuesOnDate ==
  ASSUME ReportsInv, NEW p \in Portfolios, NEW date,
         NEW f, f = [a \in PricedOn(p, date) |-> ValueOn(p, date, a)]
  PROVE  /\ AreAmounts(f, PricedOn(p, date))
         /\ ValueOnDate(p, date) = SumOf(f, PricedOn(p, date))[1]
         /\ ValueOnDate(p, date) \in Int
<1>1. IsFiniteSet(PricedOn(p, date)) /\ PricedOn(p, date) \subseteq Assets
  BY TradedFinite, FS_Subset DEF PricedOn
<1>2. ASSUME NEW a \in PricedOn(p, date) PROVE f[a] \in Amounts
  <2>1. {x \in Recent(a) : Date(x.stamp) <= date} # {}
    BY DEF PricedOn
  <2>2. PriceOnDate(a, date) \in Nat \ {0}
    BY <2>1, RecentAre, LastQuote DEF PriceOnDate
  <2>3. QuantityAtDate(p, a, date) \in Int
    BY <1>1, HeldOnDate
  <2> QED
    BY <2>2, <2>3 DEF ValueOn, Fraction, Amounts
<1>3. AreAmounts(f, PricedOn(p, date))
  BY <1>1, <1>2 DEF AreAmounts
<1>4. ValueOnDate(p, date) = SumOf(f, PricedOn(p, date))[1]
  BY <1>3, ValueOnDateIs
<1>5. SumOf(f, PricedOn(p, date)) \in Amounts
  BY <1>3, SumFirst
<1> QED
  BY <1>3, <1>4, <1>5 DEF Amounts

\* At the end of today is held what is held now, unless a trade is dated a later day.
LEMMA HeldToday ==
  ASSUME ReportsInv, NEW p \in Portfolios, NEW a \in Assets, ~ DatedAhead(p)
  PROVE  QuantityAtDate(p, a, Date(now)) = Walk(LedgerOf(p, a)).quantity
<1>1. ASSUME NEW t \in LedgerOf(p, a) PROVE Date(t.executed_at) <= Date(now)
  <2>1. t \in trades /\ t.portfolio = p
    BY DEF LedgerOf
  <2>2. t.executed_at \in Nat /\ now \in Nat
    BY <2>1 DEF ReportsInv, AreTrades, IsLedger
  <2>3. Date(t.executed_at) \in Nat /\ Date(now) \in Nat
    BY <2>2, DateIs
  <2> QED
    BY <2>1, <2>3 DEF DatedAhead
<1>2. {t \in LedgerOf(p, a) : Date(t.executed_at) <= Date(now)} = LedgerOf(p, a)
  BY <1>1
<1> QED
  BY <1>2 DEF QuantityAtDate

\* The last price of today is the latest of all.
LEMMA LatestIsRecent ==
  ASSUME ReportsInv, NEW a, Recent(a) # {}, ~ Ambiguous(PricesOf(a))
  PROVE  PriceOnDate(a, Date(now)) = LatestPrice(a)
<1>1. {x \in Recent(a) : Date(x.stamp) <= Date(now)} = Recent(a)
  BY RecentAre
<1>2. Recent(a) \subseteq PricesOf(a) /\ AreQuotes(Recent(a)) /\ AreQuotes(PricesOf(a))
  BY RecentAre, PricesAre
<1>3. PICK x : IsLast(x, Recent(a)) /\ PriceOnDate(a, Date(now)) = x.price
  BY <1>1, <1>2, LastQuote DEF PriceOnDate
<1>4. IsLast(x, PricesOf(a))
  <2>1. x \in Recent(a) /\ x \in PricesOf(a)
    BY <1>2, <1>3 DEF IsLast
  <2>2. PICK from : from = now - Lookback * DayLength
    OBVIOUS
  <2>3. from \in Int /\ x.stamp \in Int /\ from <= x.stamp
    BY <2>1, <2>2, ReportsAssumption DEF Recent, Between, ReportsInv
  <2>4. ASSUME NEW y \in PricesOf(a) PROVE y.stamp <= x.stamp
    <3>1. y.stamp \in Nat /\ y.stamp <= now
      BY <1>2, PricesAre DEF AreQuotes, IsQuote
    <3>2. CASE from <= y.stamp
      <4>1. y \in Recent(a)
        BY <2>2, <2>3, <3>1, <3>2 DEF Recent, Between, ReportsInv
      <4> QED
        BY <1>3, <4>1 DEF IsLast
    <3>3. CASE ~ (from <= y.stamp)
      BY <2>3, <3>1, <3>3
    <3> QED
      BY <3>2, <3>3
  <2> QED
    BY <2>1, <2>4 DEF IsLast
<1>5. PricesOf(a) # {}
  BY <1>2
<1>6. PICK z : IsLast(z, PricesOf(a)) /\ LatestPrice(a) = z.price
  BY <1>5, LatestPriceIs
<1> QED
  BY <1>2, <1>3, <1>4, <1>6, OneLast

LEMMA HeldQuantity ==
  ASSUME ReportsInv, NEW p \in Portfolios, NEW a \in Assets
  PROVE  /\ Walk(LedgerOf(p, a)).quantity \in Nat
         /\ a \in Traded(p) /\ ~ IsOpen(p, a) => Walk(LedgerOf(p, a)).quantity = 0
         /\ IsOpen(p, a) => /\ Position(p, a).quantity = Walk(LedgerOf(p, a)).quantity
                            /\ a \in Traded(p)
  BY PositionIs DEF InLine, Walked, IsOpen

\* Ledgers and positions, daily and latest prices give today's value alike.
LEMMA ValueToday ==
  ASSUME ReportsInv, NEW p \in Portfolios, ~ DatedAhead(p),
         \A a \in Valued(p) : Recent(a) # {} /\ ~ Ambiguous(PricesOf(a))
  PROVE  PortfolioValue(p)[1] = ValueOnDate(p, Date(now))
<1>1. PICK S, T : S = PricedOn(p, Date(now)) /\ T = Valued(p)
  OBVIOUS
<1>2. PICK f : f = [a \in S |-> ValueOn(p, Date(now), a)]
  OBVIOUS
<1>3. PICK g : g = [a \in T |-> PositionValue(p, a)]
  OBVIOUS
<1>4. AreAmounts(f, S) /\ ValueOnDate(p, Date(now)) = SumOf(f, S)[1]
  BY <1>1, <1>2, ValuesOnDate
<1>5. T \subseteq S
  <2> SUFFICES ASSUME NEW a \in T PROVE a \in S
    OBVIOUS
  <2>1. a \in Assets /\ IsOpen(p, a) /\ Recent(a) # {}
    BY <1>1 DEF Valued
  <2>2. a \in Traded(p)
    BY <2>1, HeldQuantity
  <2>3. \E x \in Recent(a) : Date(x.stamp) <= Date(now)
    BY <2>1, RecentAre
  <2> QED
    BY <1>1, <2>2, <2>3 DEF PricedOn
<1>6. ASSUME NEW a \in T PROVE f[a] = g[a]
  <2>1. a \in Assets /\ IsOpen(p, a) /\ Recent(a) # {} /\ ~ Ambiguous(PricesOf(a)) /\ a \in S
    BY <1>1, <1>5 DEF Valued
  <2>2. PriceOnDate(a, Date(now)) = LatestPrice(a)
    BY <2>1, LatestIsRecent
  <2>3. QuantityAtDate(p, a, Date(now)) = Position(p, a).quantity
    BY <2>1, HeldToday, HeldQuantity
  <2> QED
    BY <1>2, <1>3, <2>1, <2>2, <2>3 DEF ValueOn, PositionValue
<1>7. ASSUME NEW a \in S \ T PROVE f[a] = Fraction(0)
  <2>1. a \in Traded(p) /\ a \in Assets
    BY <1>1 DEF PricedOn, Traded
  <2>2. {x \in Recent(a) : Date(x.stamp) <= Date(now)} # {}
    BY <1>1 DEF PricedOn
  <2>3. PricesOf(a) # {} /\ PriceOnDate(a, Date(now)) \in Nat
    BY <2>2, RecentAre, LastQuote DEF PriceOnDate
  <2>4. ~ IsOpen(p, a)
    BY <1>1, <2>1, <2>3 DEF Valued
  <2>5. QuantityAtDate(p, a, Date(now)) = 0
    BY <2>1, <2>4, HeldToday, HeldQuantity
  <2>6. 0 * PriceOnDate(a, Date(now)) = 0
    BY <2>3
  <2> QED
    BY <1>2, <2>5, <2>6 DEF ValueOn
<1>8. AreAmounts(g, T)
  BY <1>4, <1>5, <1>6, FS_Subset DEF AreAmounts
<1>9. SumOf(f, S) = SumOf(g, T)
  BY <1>4, <1>5, <1>6, <1>7, <1>8, SumsAgree
<1>10. PortfolioValue(p) = SumOf(g, T)
  BY <1>1, <1>3, <1>8, PortfolioValueIs
<1> QED
  BY <1>4, <1>9, <1>10

Point(p, date) == [date |-> date, value |-> ValueOnDate(p, date)]

Points(p) == {point \in {Point(p, date) : date \in Dates(p)} : point.value > 0}

LEMMA PointsDated ==
  ASSUME ReportsInv, NEW p \in Portfolios
  PROVE  /\ Dated(Points(p))
         /\ \A x \in Points(p) : /\ x.date \in Nat /\ x.date <= Date(now) /\ x.date \in Dates(p)
                                 /\ x.value = ValueOnDate(p, x.date)
                                 /\ x.value \in Nat \ {0}
<1>1. \A date \in Dates(p) : date \in Nat /\ date <= Date(now)
  BY RecentAre DEF Dates
<1>2. IsFiniteSet(Dates(p))
  <2>1. Dates(p) \subseteq 0 .. Date(now)
    BY <1>1, DateIs DEF ReportsInv
  <2>2. Date(now) \in Nat
    BY DateIs DEF ReportsInv
  <2>3. IsFiniteSet(0 .. Date(now))
    BY <2>2, FS_Interval
  <2> QED
    BY <2>1, <2>3, FS_Subset
<1>3. PICK Q, f : Q = {Point(p, date) : date \in Dates(p)}
                  /\ f = [date \in Dates(p) |-> Point(p, date)]
  OBVIOUS
<1>4. f \in Surjection(Dates(p), Q)
  BY <1>3 DEF Surjection
<1>5. IsFiniteSet(Q)
  BY <1>2, <1>4, FS_Surjection
<1>6. Points(p) \subseteq Q
  BY <1>3 DEF Points
<1>7. IsFiniteSet(Points(p))
  BY <1>5, <1>6, FS_Subset
<1>8. ASSUME NEW x \in Points(p)
      PROVE  /\ x.date \in Nat /\ x.date <= Date(now) /\ x.date \in Dates(p)
             /\ x.value = ValueOnDate(p, x.date) /\ x = Point(p, x.date)
             /\ x.value \in Nat \ {0}
  <2>1. PICK date \in Dates(p) : x = Point(p, date)
    BY <1>3, <1>6
  <2>2. x.date = date /\ x.value = ValueOnDate(p, date)
    BY <2>1 DEF Point
  <2>3. x.value > 0 /\ x.value \in Int
    BY <2>2, ValuesOnDate DEF Points
  <2> QED
    BY <1>1, <2>1, <2>2, <2>3
<1>9. \A x, y \in Points(p) : x.date = y.date => x = y
  BY <1>8
<1> QED
  BY <1>7, <1>8, <1>9 DEF Dated

LEMMA SeriesIs ==
  ASSUME ReportsInv, NEW p \in Portfolios
  PROVE  Ordered(Points(p), ValueSeries(p))
<1>1. PICK P : P = Points(p)
  OBVIOUS
<1>2. ValueSeries(p) = CHOOSE series \in [1 .. Cardinality(P) -> P] :
        \A i, j \in DOMAIN series : i < j => series[i].date < series[j].date
  BY <1>1 DEF ValueSeries, Points, Point
<1>3. \E series : Ordered(P, series)
  BY <1>1, PointsDated, OrderedExists
<1> QED
  BY <1>1, <1>2, <1>3 DEF Ordered

LEMMA SeriesToday ==
  ASSUME ReportsInv, NEW p \in Portfolios, Date(now) \in Dates(p)
  PROVE  LET series == ValueSeries(p)
         IN  IF ValueOnDate(p, Date(now)) > 0
             THEN series # <<>> /\ Last(series) = Point(p, Date(now))
             ELSE \A i \in DOMAIN series : series[i].date # Date(now)
<1>1. PICK series, P : series = ValueSeries(p) /\ P = Points(p)
  OBVIOUS
<1>2. Ordered(P, series) /\ Dated(P)
  BY <1>1, SeriesIs, PointsDated
<1>3. PICK v : v = ValueOnDate(p, Date(now))
  OBVIOUS
<1>4. CASE v > 0
  <2>1. PICK x : x = Point(p, Date(now))
    OBVIOUS
  <2>2. x \in P /\ x.date = Date(now)
    BY <1>1, <1>3, <1>4, <2>1 DEF Points, Point
  <2>3. PICK i \in DOMAIN series : series[i] = x
    BY <1>2, <2>2, OrderedIs
  <2>4. series \in Seq(P) /\ Len(series) \in DOMAIN series
    BY <1>2, <2>2, OrderedIs
  <2>5. PICK n : n = Len(series)
    OBVIOUS
  <2>6. n \in Nat /\ i \in 1 .. n /\ n \in DOMAIN series /\ series[n] \in P
    BY <2>3, <2>4, <2>5
  <2>7. ~ (i < n)
    <3> SUFFICES ASSUME i < n PROVE FALSE
      OBVIOUS
    <3>1. series[i].date < series[n].date
      BY <1>2, <2>3, <2>6 DEF Ordered
    <3>2. series[n].date \in Nat /\ series[n].date <= Date(now)
      BY <1>1, <2>6, PointsDated
    <3>3. Date(now) \in Nat
      BY DateIs DEF ReportsInv
    <3> QED
      BY <2>2, <2>3, <3>1, <3>2, <3>3
  <2>8. i = n
    BY <2>6, <2>7
  <2>9. Last(series) = x /\ series # <<>>
    BY <2>3, <2>5, <2>6, <2>8 DEF Last
  <2> QED
    BY <1>1, <1>3, <1>4, <2>1, <2>9
<1>5. CASE ~ (v > 0)
  <2>1. ASSUME NEW i \in DOMAIN series, series[i].date = Date(now) PROVE FALSE
    <3>1. series[i] \in P
      BY <1>2, OrderedIs
    <3>2. series[i].value = v /\ series[i].value \in Nat \ {0}
      BY <1>1, <1>3, <2>1, <3>1, PointsDated
    <3> QED
      BY <1>5, <3>2
  <2> QED
    BY <1>1, <1>3, <1>5, <2>1
<1> QED
  BY <1>4, <1>5

\* On a day that has a price, the value series of the risk service ends with the value that
\* the analytics have of the portfolio, taken from its positions and the latest prices, as
\* long as no price is older than the series goes back or shares its time with another, and
\* no trade is dated a later day (risk_service.py:278, analytics_service.py:143).
THEOREM SeriesAlwaysEndsWithValue == Spec => []SeriesEndsWithValue
<1>1. ASSUME ReportsInv PROVE SeriesEndsWithValue
  <2> SUFFICES ASSUME NEW p \in Portfolios, Date(now) \in Dates(p), ~ DatedAhead(p),
                      \A a \in Valued(p) : Recent(a) # {} /\ ~ Ambiguous(PricesOf(a))
               PROVE  LET series == ValueSeries(p)
                      IN  IF PortfolioValue(p)[1] > 0
                          THEN /\ series # <<>>
                               /\ Last(series) = [date |-> Date(now), value |-> PortfolioValue(p)[1]]
                          ELSE \A i \in DOMAIN series : series[i].date # Date(now)
    BY DEF SeriesEndsWithValue
  <2>1. PortfolioValue(p)[1] = ValueOnDate(p, Date(now))
    BY <1>1, ValueToday
  <2>2. LET series == ValueSeries(p)
        IN  IF ValueOnDate(p, Date(now)) > 0
            THEN series # <<>> /\ Last(series) = Point(p, Date(now))
            ELSE \A i \in DOMAIN series : series[i].date # Date(now)
    BY <1>1, SeriesToday
  <2> QED
    BY <2>1, <2>2 DEF Point
<1> QED
  BY <1>1, ReportsAlways, PTL

-----------------------------------------------------------------------------
(***************************************************************************)
(* Loops over a sequence, from its first element on.                       *)
(***************************************************************************)
LEMMA UpTo ==
  ASSUME NEW n \in Nat, NEW good, 0 \in good,
         \A k \in 1 .. n : k - 1 \in good => k \in good
  PROVE  \A k \in 0 .. n : k \in good
<1>1. PICK bad, m : bad = (0 .. n) \ good /\ m = [k \in bad |-> - k]
  OBVIOUS
<1>2. bad = {}
  <2> SUFFICES ASSUME bad # {} PROVE FALSE
    OBVIOUS
  <2>1. IsFiniteSet(0 .. n)
    BY FS_Interval
  <2>2. IsFiniteSet(bad)
    BY <1>1, <2>1, FS_Subset
  <2>3. \A k \in bad : m[k] = - k /\ m[k] \in Int
    BY <1>1
  <2>4. PICK k \in bad : \A j \in bad : m[j] <= m[k]
    BY <2>2, <2>3, LastExists
  <2>5. k \in 0 .. n /\ k \notin good /\ \A j \in bad : - j <= - k
    BY <1>1, <2>3, <2>4
  <2>6. k \in 1 .. n /\ k - 1 \in 0 .. n
    BY <2>5
  <2>7. k - 1 \in good
    BY <1>1, <2>5, <2>6
  <2> QED
    BY <2>5, <2>6, <2>7
<1> QED
  BY <1>1, <1>2

LEMMA MaxIs ==
  ASSUME NEW n \in Nat, NEW s \in SUBSET (1 .. n), s # {}
  PROVE  Max(s) \in s /\ \A k \in s : k <= Max(s)
<1>1. PICK m : m = [k \in s |-> k]
  OBVIOUS
<1>2. \A k \in s : m[k] = k /\ m[k] \in Int
  BY <1>1
<1>3. IsFiniteSet(1 .. n)
  BY FS_Interval
<1>4. IsFiniteSet(s)
  BY <1>3, FS_Subset
<1>5. \E k \in s : \A j \in s : m[j] <= m[k]
  BY <1>2, <1>4, LastExists
<1>6. \E k \in s : \A j \in s : k >= j
  BY <1>2, <1>5
<1> QED
  BY <1>6 DEF Max

\* The last of the first k, and what is before it.
LEMMA LastOfFirst ==
  ASSUME NEW n \in Nat, NEW k \in 1 .. n
  PROVE  /\ 1 .. k \in SUBSET (1 .. n) /\ 1 .. k # {} /\ 1 .. k - 1 \in SUBSET (1 .. n)
         /\ Max(1 .. k) = k /\ (1 .. k) \ {Max(1 .. k)} = 1 .. k - 1
<1>1. 1 .. k \in SUBSET (1 .. n) /\ k \in 1 .. k /\ k \in Int
  OBVIOUS
<1>2. Max(1 .. k) \in 1 .. k /\ k <= Max(1 .. k)
  BY <1>1, MaxIs
<1>3. Max(1 .. k) = k
  BY <1>1, <1>2
<1> QED
  BY <1>1, <1>3

Loops(n, base, F, it) ==
  \A s \in SUBSET (1 .. n) : it[s] = IF s = {} THEN base ELSE F[<<Max(s), it[s \ {Max(s)}]>>]

LEMMA LoopSome ==
  ASSUME NEW n \in Nat, NEW V, NEW base \in V, NEW F,
         \A k \in 1 .. n, v \in V : F[<<k, v>>] \in V
  PROVE  \E it \in [SUBSET (1 .. n) -> V] : Loops(n, base, F, it)
<1>1. PICK pick : pick = [s \in SUBSET (1 .. n) |-> Max(s)]
  OBVIOUS
<1>2. \A s \in SUBSET (1 .. n) : s # {} => pick[s] = Max(s) /\ pick[s] \in s
  BY <1>1, MaxIs
<1>3. IsFiniteSet(1 .. n)
  BY FS_Interval
<1>4. PICK it \in [SUBSET (1 .. n) -> V] : Recurs(1 .. n, pick, base, F, it)
  BY <1>2, <1>3, RecursSome
<1>5. ASSUME NEW s \in SUBSET (1 .. n)
      PROVE  it[s] = IF s = {} THEN base ELSE F[<<Max(s), it[s \ {Max(s)}]>>]
  BY <1>2, <1>4 DEF Recurs
<1> QED
  BY <1>4, <1>5 DEF Loops

-----------------------------------------------------------------------------
(***************************************************************************)
(* The drawdown.                                                           *)
(***************************************************************************)
Falls == [peak : Nat \ {0}, maximum : Worths, current : Worths]

LEMMA FallIs ==
  ASSUME NEW v \in Nat \ {0}, NEW d \in Falls
  PROVE  /\ Fall(v, d) \in Falls
         /\ v > d.peak =>
              /\ Fall(v, d).peak = v /\ Fall(v, d).maximum = d.maximum
              /\ Fall(v, d).current = Fraction(0)
         /\ ~ (v > d.peak) =>
              LET drawdown == <<d.peak - v, d.peak>>
              IN  /\ drawdown \in Worths /\ Fall(v, d).peak = d.peak
                  /\ Fall(v, d).maximum = (IF AtMost(d.maximum, drawdown) THEN drawdown
                                           ELSE d.maximum)
                  /\ Fall(v, d).current = drawdown
<1>1. PICK p, m, c : p = d.peak /\ m = d.maximum /\ c = d.current
  OBVIOUS
<1>2. /\ p \in Nat \ {0} /\ m \in Worths /\ c \in Worths
      /\ d = [peak |-> p, maximum |-> m, current |-> c]
  BY <1>1 DEF Falls
<1>3. <<p - v, p>> \in Worths /\ Fraction(0) \in Worths
  BY <1>2 DEF Worths, Fraction
<1>4. DOMAIN d = {"peak", "maximum", "current"}
  BY <1>2
<1>5. CASE v > p
  <2>1. PICK u : u = [d EXCEPT !.peak = v, !.current = Fraction(0)]
    OBVIOUS
  <2>2. /\ u = [field \in DOMAIN d |-> u[field]]
        /\ u.peak = v /\ u.maximum = m /\ u.current = Fraction(0)
    BY <1>2, <1>4, <2>1
  <2>3. Fall(v, d) = u
    BY <1>1, <1>5, <2>1 DEF Fall
  <2>4. u = [peak |-> v, maximum |-> m, current |-> Fraction(0)]
    BY <1>4, <2>2
  <2> QED
    BY <1>1, <1>2, <1>3, <1>5, <2>2, <2>3, <2>4 DEF Falls
<1>6. CASE ~ (v > p)
  <2>1. PICK x : x = <<p - v, p>>
    OBVIOUS
  <2>2. PICK y : y = IF AtMost(m, x) THEN x ELSE m
    OBVIOUS
  <2>3. PICK u : u = [d EXCEPT !.maximum = y, !.current = x]
    OBVIOUS
  <2>4. /\ u = [field \in DOMAIN d |-> u[field]]
        /\ u.peak = p /\ u.maximum = y /\ u.current = x
    BY <1>2, <1>4, <2>3
  <2>5. Fall(v, d) = u
    BY <1>1, <1>6, <2>1, <2>2, <2>3 DEF Fall
  <2>6. u = [peak |-> p, maximum |-> y, current |-> x]
    BY <1>4, <2>4
  <2>7. y \in Worths
    BY <1>2, <1>3, <2>1, <2>2
  <2> QED
    BY <1>1, <1>2, <1>3, <1>6, <2>1, <2>2, <2>4, <2>5, <2>6, <2>7 DEF Falls
<1> QED
  BY <1>1, <1>5, <1>6

LEMMA DrawdownIs ==
  ASSUME NEW n \in Nat, n # 0, NEW values \in [1 .. n -> Nat \ {0}]
  PROVE  \E down \in [0 .. n -> Falls] :
           /\ down[0] = [peak |-> values[1], maximum |-> Fraction(0), current |-> Fraction(0)]
           /\ \A k \in 1 .. n : down[k] = Fall(values[k], down[k - 1])
           /\ Drawdown(values) = down[n]
<1>1. PICK base : base = [peak |-> values[1], maximum |-> Fraction(0), current |-> Fraction(0)]
  OBVIOUS
<1>2. base \in Falls
  <2>1. 1 \in 1 .. n
    OBVIOUS
  <2> QED
    BY <1>1, <2>1 DEF Falls, Fraction, Worths
<1> DEFINE Eq(it) == it = [s \in SUBSET (1 .. n) |->
             IF s = {} THEN base ELSE Fall(values[Max(s)], it[s \ {Max(s)}])]
<1>3. Drawdown(values) = (CHOOSE it : Eq(it))[1 .. n]
  <2>1. DOMAIN values = 1 .. n
    OBVIOUS
  <2> QED
    BY <1>1, <2>1 DEF Drawdown, FoldLeft, MapThenFoldSet
<1>4. \E it : Eq(it)
  <2>1. PICK F : F = [x \in (1 .. n) \X Falls |-> Fall(values[x[1]], x[2])]
    OBVIOUS
  <2>2. \A k \in 1 .. n, v \in Falls : F[<<k, v>>] = Fall(values[k], v) /\ F[<<k, v>>] \in Falls
    BY <2>1, FallIs
  <2>3. PICK it \in [SUBSET (1 .. n) -> Falls] : Loops(n, base, F, it)
    <3>1. \A k \in 1 .. n, v \in Falls : F[<<k, v>>] \in Falls
      BY <2>2
    <3> HIDE DEF Eq
    <3> QED
      BY <1>2, <3>1, LoopSome
  <2>4. ASSUME NEW s \in SUBSET (1 .. n)
        PROVE  it[s] = IF s = {} THEN base ELSE Fall(values[Max(s)], it[s \ {Max(s)}])
    <3>1. CASE s = {}
      BY <2>3, <3>1 DEF Loops
    <3>2. CASE s # {}
      <4>1. Max(s) \in 1 .. n
        BY <3>2, MaxIs
      <4>2. it[s \ {Max(s)}] \in Falls
        BY <2>3
      <4> QED
        BY <2>2, <2>3, <3>2, <4>1, <4>2 DEF Loops
    <3> QED
      BY <3>1, <3>2
  <2>5. it = [s \in SUBSET (1 .. n) |->
                IF s = {} THEN base ELSE Fall(values[Max(s)], it[s \ {Max(s)}])]
    BY <2>3, <2>4
  <2> QED
    BY <2>5
<1>5. PICK it : Eq(it) /\ Drawdown(values) = it[1 .. n]
  <2> HIDE DEF Eq
  <2> QED
    BY <1>3, <1>4
<1>6. PICK down : down = [k \in 0 .. n |-> it[1 .. k]]
  OBVIOUS
<1>7. down[0] = base
  <2>1. 1 .. 0 = {} /\ {} \in SUBSET (1 .. n)
    OBVIOUS
  <2> QED
    BY <1>5, <1>6, <2>1
<1>8. ASSUME NEW k \in 1 .. n PROVE down[k] = Fall(values[k], down[k - 1])
  <2>1. k \in 0 .. n /\ k - 1 \in 0 .. n
    OBVIOUS
  <2>2. /\ 1 .. k \in SUBSET (1 .. n) /\ 1 .. k # {}
        /\ Max(1 .. k) = k /\ (1 .. k) \ {Max(1 .. k)} = 1 .. k - 1
    BY LastOfFirst
  <2>3. it[1 .. k] = Fall(values[Max(1 .. k)], it[(1 .. k) \ {Max(1 .. k)}])
    BY <1>5, <2>2
  <2> QED
    BY <1>6, <2>1, <2>2, <2>3
<1>9. \A k \in 0 .. n : down[k] \in Falls
  <2>1. PICK good : good = {k \in 0 .. n : down[k] \in Falls}
    OBVIOUS
  <2>2. 0 \in good
    BY <1>2, <1>7, <2>1
  <2>3. ASSUME NEW k \in 1 .. n, k - 1 \in good PROVE k \in good
    <3>1. down[k - 1] \in Falls /\ values[k] \in Nat \ {0} /\ k \in 0 .. n
      BY <2>1, <2>3
    <3>2. down[k] \in Falls
      BY <1>8, <3>1, FallIs
    <3> QED
      BY <2>1, <3>1, <3>2
  <2> QED
    BY <2>1, <2>2, <2>3, UpTo
<1>10. down \in [0 .. n -> Falls]
  BY <1>6, <1>9
<1>11. Drawdown(values) = down[n]
  <2>1. n \in 0 .. n
    OBVIOUS
  <2> QED
    BY <1>5, <1>6, <2>1
<1> HIDE DEF Eq
<1> QED
  BY <1>1, <1>7, <1>8, <1>10, <1>11

\* The fall from x to y, as a part of x.
Depth(x, y) == <<x - y, x>>

LEMMA DepthIs ==
  ASSUME NEW x \in Nat \ {0}, NEW y \in Nat \ {0}
  PROVE  /\ Depth(x, y) \in Worths
         /\ x <= y => AtMost(Depth(x, y), Fraction(0))
         /\ Same(Depth(x, x), Fraction(0)) /\ Same(Fraction(0), Depth(x, x))
         /\ y <= x => AtMost(Fraction(0), Depth(x, y))
<1>1. Depth(x, y) \in Worths
  BY DEF Depth, Worths
<1>2. x - x = 0 /\ 0 * x = 0
  OBVIOUS
<1> QED
  BY <1>1, <1>2 DEF Depth, Same, AtMost, Fraction

\* From a higher value the fall is deeper.
LEMMA DeeperFrom ==
  ASSUME NEW x \in Nat \ {0}, NEW z \in Nat \ {0}, NEW y \in Nat \ {0}, x <= z
  PROVE  AtMost(Depth(x, y), Depth(z, y))
<1>1. y * x <= y * z
  BY Cancel
<1>2. (x - y) * z = x * z - y * z /\ (z - y) * x = x * z - y * x
  OBVIOUS
<1>3. y * x \in Int /\ y * z \in Int /\ x * z \in Int
  OBVIOUS
<1>4. (x - y) * z <= (z - y) * x
  BY <1>1, <1>2, <1>3
<1> QED
  BY <1>4 DEF AtMost, Depth

\* What the loop holds after the first k values.
Fallen(values, k, d) ==
  /\ d \in Falls
  /\ \E m \in 1 .. k : d.peak = values[m] /\ \A i \in 1 .. k : values[i] <= values[m]
  /\ Same(d.current, Depth(d.peak, values[k]))
  /\ \A i, j \in 1 .. k : i <= j => AtMost(Depth(values[i], values[j]), d.maximum)
  /\ \E i, j \in 1 .. k : i <= j /\ Same(d.maximum, Depth(values[i], values[j]))

LEMMA FallenFirst ==
  ASSUME NEW n \in Nat, n # 0, NEW values \in [1 .. n -> Nat \ {0}], NEW d,
         d = Fall(values[1], [peak |-> values[1], maximum |-> Fraction(0), current |-> Fraction(0)])
  PROVE  Fallen(values, 1, d)
<1>1. PICK v : v = values[1]
  OBVIOUS
<1>2. v \in Nat \ {0}
  BY <1>1
<1>3. PICK base : base = [peak |-> v, maximum |-> Fraction(0), current |-> Fraction(0)]
  OBVIOUS
<1>4. /\ base \in Falls /\ base.peak = v /\ base.maximum = Fraction(0)
      /\ base.current = Fraction(0) /\ Fraction(0) \in Worths
  BY <1>2, <1>3 DEF Falls, Fraction, Worths
<1>5. Depth(v, v) \in Worths /\ Same(Depth(v, v), Fraction(0)) /\ Same(Fraction(0), Depth(v, v))
  BY <1>2, DepthIs
<1>6. /\ d \in Falls /\ d.peak = v /\ d.current = Depth(v, v)
      /\ d.maximum = Depth(v, v) \/ d.maximum = Fraction(0)
  <2>0. base \in Falls
    BY <1>4
  <2>1. d = Fall(v, base)
    BY <1>1, <1>3
  <2>2. ~ (v > base.peak)
    BY <1>2, <1>4
  <2>3. /\ d \in Falls /\ d.peak = base.peak /\ d.current = <<base.peak - v, base.peak>>
        /\ d.maximum = <<base.peak - v, base.peak>> \/ d.maximum = base.maximum
    <3>1. Fall(v, base) \in Falls
      BY <1>2, <2>0, FallIs
    <3>2. Fall(v, base).peak = base.peak
      BY <1>2, <2>0, <2>2, FallIs
    <3>3. Fall(v, base).current = <<base.peak - v, base.peak>>
      BY <1>2, <2>0, <2>2, FallIs
    <3>4. Fall(v, base).maximum = (IF AtMost(base.maximum, <<base.peak - v, base.peak>>)
                                   THEN <<base.peak - v, base.peak>> ELSE base.maximum)
      BY <1>2, <2>0, <2>2, FallIs
    <3> QED
      BY <2>1, <3>1, <3>2, <3>3, <3>4
  <2> QED
    BY <1>4, <2>3 DEF Depth
<1>7. Same(d.maximum, Depth(v, v)) /\ Same(d.current, Depth(v, v)) /\ AtMost(Depth(v, v), d.maximum)
  <2>1. Same(Depth(v, v), Depth(v, v)) /\ AtMost(Depth(v, v), Depth(v, v))
    BY <1>5, SameIs
  <2>2. AtMost(Depth(v, v), Fraction(0))
    BY <1>4, <1>5, SameIs
  <2> QED
    BY <1>5, <1>6, <2>1, <2>2
<1>8. \A i \in 1 .. 1 : i = 1 /\ 1 \in 1 .. 1
  OBVIOUS
<1>9. \E m \in 1 .. 1 : d.peak = values[m] /\ \A i \in 1 .. 1 : values[i] <= values[m]
  BY <1>1, <1>2, <1>6, <1>8
<1>10. \A i, j \in 1 .. 1 : i <= j => AtMost(Depth(values[i], values[j]), d.maximum)
  BY <1>1, <1>7, <1>8
<1>11. \E i, j \in 1 .. 1 : i <= j /\ Same(d.maximum, Depth(values[i], values[j]))
  <2>1. 1 \in 1 .. 1 /\ 1 <= 1
    OBVIOUS
  <2> QED
    BY <1>1, <1>7, <2>1
<1> QED
  BY <1>1, <1>6, <1>7, <1>9, <1>10, <1>11 DEF Fallen

LEMMA FallenNext ==
  ASSUME NEW n \in Nat, NEW values \in [1 .. n -> Nat \ {0}], NEW k \in 2 .. n,
         NEW d, Fallen(values, k - 1, d)
  PROVE  Fallen(values, k, Fall(values[k], d))
<1>1. PICK v, e : v = values[k] /\ e = Fall(v, d)
  OBVIOUS
<1>2. v \in Nat \ {0} /\ d \in Falls
  BY <1>1 DEF Fallen
<1>3. PICK h \in 1 .. k - 1 : d.peak = values[h] /\ \A i \in 1 .. k - 1 : values[i] <= values[h]
  BY DEF Fallen
<1>4. PICK r, s \in 1 .. k - 1 : r <= s /\ Same(d.maximum, Depth(values[r], values[s]))
  BY DEF Fallen
<1>5. PICK p, m : p = d.peak /\ m = d.maximum
  OBVIOUS
<1>6. p \in Nat \ {0} /\ m \in Worths /\ e \in Falls
  BY <1>1, <1>2, <1>5, FallIs DEF Falls
<1>7. \A i \in 1 .. k : i # k => i \in 1 .. k - 1
  OBVIOUS
<1>8. 1 .. k - 1 \subseteq 1 .. k /\ 1 .. k \subseteq 1 .. n /\ k \in 1 .. k
  OBVIOUS
<1>9. \A i \in 1 .. k : values[i] \in Nat \ {0}
  BY <1>8
<1>10. ASSUME NEW i \in 1 .. k - 1, NEW j \in 1 .. k - 1, i <= j
       PROVE  AtMost(Depth(values[i], values[j]), m)
  BY <1>5, <1>10 DEF Fallen
<1>11. AtMost(Fraction(0), m)
  <2>1. AtMost(Depth(p, p), m) /\ Depth(p, p) \in Worths /\ Fraction(0) \in Worths
    <3>1. AtMost(Depth(values[h], values[h]), m)
      BY <1>10
    <3>2. Depth(p, p) \in Worths
      BY <1>6, DepthIs
    <3> QED
      BY <1>3, <1>5, <3>1, <3>2 DEF Fraction, Worths
  <2>2. AtMost(Fraction(0), Depth(p, p))
    BY <1>6, DepthIs
  <2> QED
    BY <1>6, <2>1, <2>2, SameIs
<1>12. CASE v > p
  <2>1. e.peak = v /\ e.maximum = m /\ e.current = Fraction(0)
    BY <1>1, <1>2, <1>5, <1>12, FallIs
  <2>2. \A i \in 1 .. k : values[i] <= v
    BY <1>1, <1>2, <1>3, <1>5, <1>6, <1>7, <1>9, <1>12
  <2>3. \E i \in 1 .. k : e.peak = values[i] /\ \A j \in 1 .. k : values[j] <= values[i]
    BY <1>1, <1>8, <2>1, <2>2
  <2>4. Same(e.current, Depth(e.peak, v))
    BY <1>2, <2>1, DepthIs
  <2>5. ASSUME NEW i \in 1 .. k, NEW j \in 1 .. k, i <= j
        PROVE  AtMost(Depth(values[i], values[j]), m)
    <3>1. CASE j = k
      <4>1. PICK x : x = values[i]
        OBVIOUS
      <4>2. x \in Nat \ {0} /\ x <= v
        BY <1>9, <2>2, <4>1
      <4>3. Depth(x, v) \in Worths /\ AtMost(Depth(x, v), Fraction(0))
        BY <1>2, <4>2, DepthIs
      <4>4. Fraction(0) \in Worths
        BY DEF Fraction, Worths
      <4> QED
        BY <1>1, <1>6, <1>11, <3>1, <4>1, <4>3, <4>4, SameIs
    <3>2. CASE j # k
      <4>1. i \in 1 .. k - 1 /\ j \in 1 .. k - 1
        BY <2>5, <3>2
      <4> QED
        BY <1>10, <2>5, <4>1
    <3> QED
      BY <3>1, <3>2
  <2>6. \E i, j \in 1 .. k : i <= j /\ Same(m, Depth(values[i], values[j]))
    BY <1>4, <1>5, <1>8
  <2> QED
    BY <1>1, <1>6, <2>1, <2>3, <2>4, <2>5, <2>6 DEF Fallen
<1>13. CASE ~ (v > p)
  <2>1. PICK x : x = Depth(p, v)
    OBVIOUS
  <2>2. /\ x \in Worths /\ e.peak = p /\ e.current = x
        /\ e.maximum = IF AtMost(m, x) THEN x ELSE m
    BY <1>1, <1>2, <1>5, <1>13, <2>1, FallIs DEF Depth
  <2>3. \E i \in 1 .. k : e.peak = values[i] /\ \A j \in 1 .. k : values[j] <= values[i]
    <3>1. \A j \in 1 .. k : values[j] <= values[h]
      BY <1>1, <1>2, <1>3, <1>5, <1>6, <1>7, <1>9, <1>13
    <3> QED
      BY <1>3, <1>5, <1>8, <2>2, <3>1
  <2>4. Same(e.current, Depth(e.peak, v))
    BY <2>1, <2>2, SameIs
  <2>5. /\ e.maximum \in Worths /\ AtMost(m, e.maximum) /\ AtMost(x, e.maximum)
    BY <1>6, <2>2, SameIs
  <2>6. ASSUME NEW i \in 1 .. k, NEW j \in 1 .. k, i <= j
        PROVE  AtMost(Depth(values[i], values[j]), e.maximum)
    <3>1. PICK y, z : y = values[i] /\ z = values[j]
      OBVIOUS
    <3>2. y \in Nat \ {0} /\ z \in Nat \ {0} /\ Depth(y, z) \in Worths
      BY <1>9, <3>1, DepthIs
    <3>3. CASE j = k
      <4>1. y <= p
        BY <1>1, <1>2, <1>3, <1>5, <1>6, <1>7, <1>13, <3>1, <3>2
      <4>2. AtMost(Depth(y, z), x)
        BY <1>1, <1>2, <1>6, <2>1, <3>1, <3>2, <3>3, <4>1, DeeperFrom
      <4> QED
        BY <2>2, <2>5, <3>1, <3>2, <4>2, SameIs
    <3>4. CASE j # k
      <4>1. i \in 1 .. k - 1 /\ j \in 1 .. k - 1
        BY <2>6, <3>4
      <4>2. AtMost(Depth(y, z), m)
        BY <1>10, <2>6, <3>1, <4>1
      <4> QED
        BY <1>6, <2>5, <3>1, <3>2, <4>2, SameIs
    <3> QED
      BY <3>3, <3>4
  <2>7. \E i, j \in 1 .. k : i <= j /\ Same(e.maximum, Depth(values[i], values[j]))
    <3>1. CASE e.maximum = x
      <4>1. Same(x, Depth(values[h], values[k])) /\ h <= k
        BY <1>1, <1>3, <1>5, <2>1, <2>2, SameIs
      <4> QED
        BY <1>3, <1>8, <3>1, <4>1
    <3>2. CASE e.maximum # x
      BY <1>4, <1>5, <1>8, <2>2, <3>2
    <3> QED
      BY <3>1, <3>2
  <2> QED
    BY <1>1, <1>6, <2>2, <2>3, <2>4, <2>6, <2>7 DEF Fallen
<1> QED
  BY <1>12, <1>13

LEMMA DrawdownFallen ==
  ASSUME NEW n \in Nat, n # 0, NEW values \in [1 .. n -> Nat \ {0}]
  PROVE  Fallen(values, n, Drawdown(values))
<1>1. PICK down \in [0 .. n -> Falls] :
           /\ down[0] = [peak |-> values[1], maximum |-> Fraction(0), current |-> Fraction(0)]
           /\ \A k \in 1 .. n : down[k] = Fall(values[k], down[k - 1])
           /\ Drawdown(values) = down[n]
  BY DrawdownIs
<1>2. PICK good : good = {k \in 0 .. n : k # 0 => Fallen(values, k, down[k])}
  OBVIOUS
<1>3. 0 \in good
  BY <1>2
<1>4. ASSUME NEW k \in 1 .. n, k - 1 \in good PROVE k \in good
  <2>1. k \in 0 .. n /\ down[k] = Fall(values[k], down[k - 1])
    BY <1>1
  <2>2. CASE k = 1
    <3>1. k - 1 = 0
      BY <2>2
    <3>2. Fallen(values, 1, down[k])
      BY <1>1, <2>1, <2>2, <3>1, FallenFirst
    <3> QED
      BY <1>2, <2>1, <2>2, <3>2
  <2>3. CASE k # 1
    <3>1. k \in 2 .. n /\ k - 1 # 0
      BY <2>3
    <3>2. Fallen(values, k - 1, down[k - 1])
      BY <1>2, <1>4, <3>1
    <3>3. Fallen(values, k, Fall(values[k], down[k - 1]))
      BY <3>1, <3>2, FallenNext
    <3> QED
      BY <1>2, <2>1, <3>3
  <2> QED
    BY <2>2, <2>3
<1>5. n \in good
  <2>1. n \in 0 .. n
    OBVIOUS
  <2> QED
    BY <1>3, <1>4, <2>1, UpTo
<1> QED
  BY <1>1, <1>2, <1>5

LEMMA GreatestIs ==
  ASSUME NEW S, \A y \in S : y \in Worths, NEW m \in Worths, \A y \in S : AtMost(y, m),
         NEW x \in S, Same(m, x)
  PROVE  Same(m, Greatest(S))
<1>1. x \in Worths /\ AtMost(m, x)
  BY SameIs
<1>2. \A y \in S : AtMost(y, x)
  BY <1>1, SameIs
<1>3. PICK g : g = Greatest(S)
  OBVIOUS
<1>4. g \in S /\ \A y \in S : AtMost(y, g)
  BY <1>2, <1>3 DEF Greatest
<1>5. AtMost(x, g) /\ AtMost(g, x) /\ g \in Worths
  BY <1>2, <1>4
<1>6. Same(x, g)
  BY <1>1, <1>5, SameIs
<1> QED
  BY <1>1, <1>3, <1>5, <1>6, SameIs

\* The maximum drawdown is the deepest fall in the value series from any value to a later
\* one, and the current one the fall from the highest value to the last, although the loop
\* sees every value once and keeps no more than its peak (drawdown.py:18).
THEOREM DrawdownIsAlwaysDeepest == Spec => []DrawdownIsDeepestFall
<1>1. ASSUME ReportsInv PROVE DrawdownIsDeepestFall
  <2> SUFFICES ASSUME NEW p \in Portfolios PROVE DrawdownIsDeepestFall!(p)
    BY DEF DrawdownIsDeepestFall
  <2> DEFINE series == ValueSeries(p)
             values == [i \in DOMAIN series |-> series[i].value]
             n      == Len(values)
  <2> SUFFICES ASSUME n >= 2
               PROVE  /\ Same(Drawdown(values).maximum,
                              Greatest({Depth(values[x[1]], values[x[2]]) :
                                  x \in {y \in (1 .. n) \X (1 .. n) : y[1] <= y[2]}}))
                      /\ Same(Drawdown(values).current,
                              Greatest({Depth(values[i], values[n]) : i \in 1 .. n}))
    BY DEF Depth
  <2>1. Ordered(Points(p), series) /\ Dated(Points(p))
    BY <1>1, SeriesIs, PointsDated
  <2> HIDE DEF series
  <2>2. series \in Seq(Points(p)) /\ \A i \in DOMAIN series : series[i] \in Points(p)
    BY <2>1, OrderedIs
  <2>3. PICK l : l = Len(series)
    OBVIOUS
  <2>4. l \in Nat /\ DOMAIN series = 1 .. l
    BY <2>2, <2>3
  <2>5. \A i \in 1 .. l : series[i].value \in Nat \ {0}
    BY <1>1, <2>2, <2>4, PointsDated
  <2>6. values \in [1 .. l -> Nat \ {0}]
    BY <2>4, <2>5
  <2>7. n = l /\ n \in Nat /\ n # 0
    <3>1. values \in Seq(Nat \ {0}) /\ Len(values) = l
      BY <2>4, <2>6
    <3> QED
      BY <2>4, <3>1
  <2> HIDE DEF values, n
  <2>8. PICK d : d = Drawdown(values)
    OBVIOUS
  <2>9. Fallen(values, n, d)
    BY <2>6, <2>7, <2>8, DrawdownFallen
  <2>10. d.maximum \in Worths /\ d.current \in Worths /\ d.peak \in Nat \ {0}
    BY <2>9 DEF Fallen, Falls
  <2>11. \A i, j \in 1 .. n : Depth(values[i], values[j]) \in Worths
    BY <2>6, <2>7, DepthIs
  <2>12. Same(d.maximum, Greatest({Depth(values[x[1]], values[x[2]]) :
                            x \in {y \in (1 .. n) \X (1 .. n) : y[1] <= y[2]}}))
    <3>1. PICK S : S = {Depth(values[x[1]], values[x[2]]) :
                          x \in {y \in (1 .. n) \X (1 .. n) : y[1] <= y[2]}}
      OBVIOUS
    <3>2. \A y \in S : y \in Worths /\ AtMost(y, d.maximum)
      BY <2>9, <2>11, <3>1 DEF Fallen
    <3>3. PICK i, j \in 1 .. n : i <= j /\ Same(d.maximum, Depth(values[i], values[j]))
      BY <2>9 DEF Fallen
    <3>4. Depth(values[i], values[j]) \in S
      <4>1. PICK y : y = <<i, j>>
        OBVIOUS
      <4>2. y \in (1 .. n) \X (1 .. n) /\ y[1] = i /\ y[2] = j
        BY <4>1
      <4>3. y \in {z \in (1 .. n) \X (1 .. n) : z[1] <= z[2]}
        BY <3>3, <4>2
      <4>4. Depth(values[y[1]], values[y[2]]) \in S
        BY <3>1, <4>3
      <4> QED
        BY <4>2, <4>4
    <3>5. Same(d.maximum, Greatest(S))
      BY <2>10, <3>2, <3>3, <3>4, GreatestIs
    <3> QED
      BY <3>1, <3>5
  <2>13. Same(d.current, Greatest({Depth(values[i], values[n]) : i \in 1 .. n}))
    <3>1. PICK S : S = {Depth(values[i], values[n]) : i \in 1 .. n}
      OBVIOUS
    <3>2. PICK h \in 1 .. n : d.peak = values[h] /\ \A i \in 1 .. n : values[i] <= values[h]
      BY <2>9 DEF Fallen
    <3>3. n \in 1 .. n
      BY <2>7
    <3>4. PICK x : x = Depth(values[h], values[n])
      OBVIOUS
    <3>5. x \in S /\ x \in Worths /\ Same(d.current, x)
      BY <2>9, <2>11, <3>1, <3>2, <3>3, <3>4 DEF Fallen
    <3>6. ASSUME NEW y \in S PROVE y \in Worths /\ AtMost(y, d.current)
      <4>1. PICK i \in 1 .. n : y = Depth(values[i], values[n])
        BY <3>1
      <4>2. PICK a, b, c : a = values[i] /\ b = values[h] /\ c = values[n]
        OBVIOUS
      <4>3. a \in Nat \ {0} /\ b \in Nat \ {0} /\ c \in Nat \ {0} /\ a <= b
        BY <2>6, <2>7, <3>2, <3>3, <4>2
      <4>4. AtMost(y, x)
        BY <3>4, <4>1, <4>2, <4>3, DeeperFrom
      <4>5. AtMost(x, d.current) /\ y \in Worths
        BY <2>10, <2>11, <3>3, <3>5, <4>1, SameIs
      <4> QED
        BY <2>10, <3>5, <4>4, <4>5, SameIs
    <3>7. Same(d.current, Greatest(S))
      BY <2>10, <3>5, <3>6, GreatestIs
    <3> QED
      BY <3>1, <3>7
  <2> QED
    BY <2>8, <2>12, <2>13
<1> QED
  BY <1>1, ReportsAlways, PTL

-----------------------------------------------------------------------------
(***************************************************************************)
(* The dashboard's start of the day.                                       *)
(***************************************************************************)
Before(a) == Between(a, DayStart - Week, DayStart - 1)

\* What the promise of the dashboard asks of an asset.
Plain(a) ==
  Before(a) # {} /\ ~ Ambiguous(Before(a)) /\ Between(a, DayStart, DayStart + Near) = {}

LEMMA DayStartIs ==
  ASSUME ReportsInv
  PROVE  /\ now \in Nat /\ Date(now) \in Nat /\ DayStart \in Nat
         /\ DayStart <= now /\ now < DayStart + DayLength
         /\ now - Lookback * DayLength <= DayStart - Week
         /\ \A i \in Nat : i < DayStart <=> Date(i) <= Date(now) - 1
<1>1. now \in Nat
  BY DEF ReportsInv
<1>2. PICK d : d = Date(now)
  OBVIOUS
<1>3. d \in Nat /\ d * DayLength <= now /\ now < d * DayLength + DayLength
  BY <1>1, <1>2, DateIs
<1>4. DayLength \in Nat \ {0} /\ Lookback \in Nat /\ Week \in Nat
      /\ Week + DayLength <= Lookback * DayLength + 1
  BY ReportsAssumption, DashboardAssumption
<1>5. PICK s, l : s = d * DayLength /\ l = Lookback * DayLength
  OBVIOUS
<1>6. s \in Nat /\ l \in Nat /\ DayStart = s
  BY <1>2, <1>3, <1>4, <1>5 DEF DayStart
<1>7. now - l <= s - Week
  BY <1>1, <1>3, <1>4, <1>5, <1>6
<1>8. ASSUME NEW i \in Nat PROVE i < DayStart <=> Date(i) <= Date(now) - 1
  <2>1. i < DayStart <=> Date(i) < Date(now)
    BY <1>1, DateIs DEF DayStart
  <2>2. Date(i) \in Nat /\ Date(now) \in Nat
    BY <1>1, DateIs
  <2> QED
    BY <2>1, <2>2
<1> QED
  BY <1>1, <1>2, <1>3, <1>5, <1>6, <1>7, <1>8

LEMMA StampsBetween ==
  ASSUME ReportsInv, NEW a, NEW from \in Int, NEW to \in Int
  PROVE  /\ Between(a, from, to) \subseteq PricesOf(a) /\ AreQuotes(Between(a, from, to))
         /\ \A x \in PricesOf(a) : x \in Between(a, from, to) <=> from <= x.stamp /\ x.stamp <= to
<1>1. Between(a, from, to) \subseteq PricesOf(a)
  BY DEF Between
<1>2. \A x \in PricesOf(a) : x.stamp \in Nat
  BY PricesAre DEF AreQuotes, IsQuote
<1> QED
  BY <1>1, <1>2, PricesAre DEF Between

\* With no price near after it, the price near the start of the day is the last before it.
LEMMA PriceNearStart ==
  ASSUME ReportsInv, NEW a, Plain(a)
  PROVE  \E x : IsLast(x, Before(a)) /\ PriceAtDayStart(a) = x.price
<1>1. PICK s : s = DayStart
  OBVIOUS
<1>2. /\ s \in Nat /\ Near \in Nat /\ Week \in Nat /\ FirstHour \in Nat
      /\ FirstHour <= Near /\ Near <= Week
  BY <1>1, DayStartIs, DashboardAssumption
<1>3. /\ s - Near \in Int /\ s + Near \in Int /\ s - Week \in Int /\ s - 1 \in Int
      /\ s + FirstHour \in Int /\ s \in Int
  BY <1>2
<1>4. PICK near, older, before : /\ near = Between(a, s - Near, s + Near)
                                 /\ older = Between(a, s - Week, s)
                                 /\ before = Between(a, s - Week, s - 1)
  OBVIOUS
<1>5. /\ near \subseteq PricesOf(a) /\ AreQuotes(near)
      /\ \A x \in PricesOf(a) : x \in near <=> s - Near <= x.stamp /\ x.stamp <= s + Near
  BY <1>3, <1>4, StampsBetween
<1>6. /\ older \subseteq PricesOf(a)
      /\ \A x \in PricesOf(a) : x \in older <=> s - Week <= x.stamp /\ x.stamp <= s
  BY <1>3, <1>4, StampsBetween
<1>7. /\ before \subseteq PricesOf(a) /\ AreQuotes(before)
      /\ \A x \in PricesOf(a) : x \in before <=> s - Week <= x.stamp /\ x.stamp <= s - 1
  BY <1>3, <1>4, StampsBetween
<1>8. \A x \in PricesOf(a) : x.stamp \in Nat
  BY PricesAre DEF AreQuotes, IsQuote
<1>9. \A x \in PricesOf(a) : ~ (s <= x.stamp /\ x.stamp <= s + Near)
  <2>1. Between(a, s, s + Near) = {}
    BY <1>1 DEF Plain
  <2> QED
    BY <1>3, <2>1, StampsBetween
<1>10. Between(a, s, s + FirstHour) = {}
  <2>1. \A x \in PricesOf(a) : ~ (s <= x.stamp /\ x.stamp <= s + FirstHour)
    BY <1>2, <1>8, <1>9
  <2> QED
    BY <1>3, <2>1, StampsBetween
<1>11. older = before
  <2>1. ASSUME NEW x \in PricesOf(a) PROVE x \in older <=> x \in before
    <3>1. x.stamp \in Nat /\ x.stamp # s
      BY <1>2, <1>8, <1>9
    <3> QED
      BY <1>2, <1>6, <1>7, <3>1
  <2> QED
    BY <1>6, <1>7, <2>1
<1>12. before # {}
  BY <1>1, <1>4 DEF Plain, Before
<1> DEFINE Gap(x) == IF x.stamp < s THEN s - x.stamp ELSE x.stamp - s
           closest == {x \in near : \A y \in near : Gap(x) <= Gap(y)}
<1>13. PriceAtDayStart(a) = IF near # {} THEN FirstOf(closest) ELSE LastOf(before)
  <2>1. PriceAtDayStart(a) = PriceNear(a, s)
    BY <1>1, <1>10 DEF PriceAtDayStart
  <2>2. PriceNear(a, s) = IF near # {} THEN FirstOf(closest)
                          ELSE IF older # {} THEN LastOf(older) ELSE NoPrice
    BY <1>4 DEF PriceNear
  <2> QED
    BY <1>11, <1>12, <2>1, <2>2
<1>14. CASE near # {}
  <2>1. \A x \in near : x.stamp \in Nat /\ x.stamp < s /\ Gap(x) = s - x.stamp
    BY <1>2, <1>5, <1>8, <1>9
  <2>2. PICK x : IsLast(x, near)
    BY <1>5, <1>14, LastQuote
  <2>3. x \in closest
    BY <1>2, <2>1, <2>2 DEF IsLast
  <2>4. \A y \in closest : IsLast(y, near)
    BY <1>2, <2>1, <2>2 DEF IsLast
  <2>5. \A y \in closest : x.stamp <= y.stamp
    BY <2>2, <2>4 DEF IsLast
  <2> HIDE DEF closest
  <2>6. PICK z \in closest : FirstOf(closest) = z.price
    BY <2>3, <2>5 DEF FirstOf
  <2>7. IsLast(z, near)
    BY <2>4, <2>6
  <2>8. IsLast(z, before)
    <3>1. z \in near /\ z \in PricesOf(a) /\ z.stamp < s /\ z.stamp \in Nat /\ s - Near <= z.stamp
      BY <1>5, <2>1, <2>7 DEF IsLast
    <3>2. z \in before
      BY <1>2, <1>7, <3>1
    <3>3. ASSUME NEW y \in before PROVE y.stamp <= z.stamp
      <4>1. y \in PricesOf(a) /\ y.stamp \in Nat /\ y.stamp <= s - 1
        BY <1>7, <1>8
      <4>2. CASE s - Near <= y.stamp
        <5>1. y \in near
          BY <1>2, <1>5, <4>1, <4>2
        <5> QED
          BY <2>7, <5>1 DEF IsLast
      <4>3. CASE ~ (s - Near <= y.stamp)
        BY <1>2, <3>1, <4>1, <4>3
      <4> QED
        BY <4>2, <4>3
    <3> QED
      BY <3>2, <3>3 DEF IsLast
  <2> QED
    BY <1>1, <1>4, <1>13, <1>14, <2>6, <2>8 DEF Before
<1>15. CASE near = {}
  <2>1. PICK x : IsLast(x, before) /\ LastOf(before) = x.price
    BY <1>7, <1>12, LastQuote
  <2> QED
    BY <1>1, <1>4, <1>13, <1>15, <2>1 DEF Before
<1> QED
  BY <1>14, <1>15

\* The last price of yesterday's series is that one too.
LEMMA PriceYesterday ==
  ASSUME ReportsInv, NEW a, Plain(a)
  PROVE  /\ \E x \in Recent(a) : Date(x.stamp) <= Date(now) - 1
         /\ PriceOnDate(a, Date(now) - 1) = PriceAtDayStart(a)
         /\ PriceAtDayStart(a) \in Nat \ {0}
<1>1. PICK s, from : s = DayStart /\ from = now - Lookback * DayLength
  OBVIOUS
<1>2. /\ s \in Nat /\ now \in Nat /\ from \in Int /\ s <= now /\ from <= s - Week /\ Week \in Nat
      /\ \A i \in Nat : i < s <=> Date(i) <= Date(now) - 1
  BY <1>1, DayStartIs, DashboardAssumption, ReportsAssumption
<1>3. PICK K : K = {x \in Recent(a) : Date(x.stamp) <= Date(now) - 1}
  OBVIOUS
<1>4. AreQuotes(K)
  BY <1>3, RecentAre
<1>5. /\ Before(a) \subseteq PricesOf(a) /\ AreQuotes(Before(a))
      /\ \A x \in PricesOf(a) : x \in Before(a) <=> s - Week <= x.stamp /\ x.stamp <= s - 1
  <2>1. s - Week \in Int /\ s - 1 \in Int
    BY <1>2
  <2> QED
    BY <1>1, <2>1, StampsBetween DEF Before
<1>6. \A x \in PricesOf(a) : x.stamp \in Nat
  BY PricesAre DEF AreQuotes, IsQuote
<1>7. \A x \in PricesOf(a) : x \in K <=> from <= x.stamp /\ x.stamp <= s - 1
  <2> SUFFICES ASSUME NEW x \in PricesOf(a)
               PROVE  x \in K <=> from <= x.stamp /\ x.stamp <= s - 1
    OBVIOUS
  <2>1. x \in Recent(a) <=> from <= x.stamp /\ x.stamp <= now
    <3>1. Recent(a) = Between(a, from, now)
      BY <1>1 DEF Recent
    <3> QED
      BY <1>2, <3>1, StampsBetween
  <2>2. Date(x.stamp) <= Date(now) - 1 <=> x.stamp < s
    BY <1>2, <1>6
  <2> QED
    BY <1>2, <1>3, <1>6, <2>1, <2>2
<1>8. K \subseteq PricesOf(a)
  BY <1>3, RecentAre
<1>9. Before(a) \subseteq K /\ K # {}
  <2>1. Before(a) \subseteq K
    BY <1>2, <1>5, <1>6, <1>7
  <2> QED
    BY <2>1 DEF Plain
<1>10. PICK x : IsLast(x, K) /\ LastOf(K) = x.price
  BY <1>4, <1>9, LastQuote
<1>11. IsLast(x, Before(a))
  <2>1. PICK b : b \in Before(a)
    BY DEF Plain
  <2>2. b \in K /\ b.stamp <= x.stamp /\ x \in K /\ x \in PricesOf(a) /\ b \in PricesOf(a)
    BY <1>8, <1>9, <1>10, <2>1 DEF IsLast
  <2>3. x \in Before(a)
    BY <1>2, <1>5, <1>6, <1>7, <2>1, <2>2
  <2> QED
    BY <1>9, <1>10, <2>3 DEF IsLast
<1>12. PICK z : IsLast(z, Before(a)) /\ PriceAtDayStart(a) = z.price
  BY PriceNearStart
<1>13. x = z
  BY <1>5, <1>11, <1>12, OneLast DEF Plain
<1>14. z.price \in Nat \ {0}
  BY <1>5, <1>12 DEF IsLast, AreQuotes, IsQuote
<1> QED
  BY <1>3, <1>9, <1>10, <1>12, <1>13, <1>14 DEF PriceOnDate

\* With no trades today, what was held yesterday is held.
LEMMA HeldYesterday ==
  ASSUME ReportsInv, \A t \in trades : t.executed_at < DayStart,
         NEW p \in Portfolios, NEW a \in Assets
  PROVE  QuantityAtDate(p, a, Date(now) - 1) = Walk(LedgerOf(p, a)).quantity
<1>1. ASSUME NEW t \in LedgerOf(p, a) PROVE Date(t.executed_at) <= Date(now) - 1
  <2>1. t \in trades
    BY DEF LedgerOf
  <2>2. t.executed_at \in Nat /\ t.executed_at < DayStart
    BY <2>1 DEF ReportsInv, AreTrades, IsLedger
  <2> QED
    BY <2>2, DayStartIs
<1>2. {t \in LedgerOf(p, a) : Date(t.executed_at) <= Date(now) - 1} = LedgerOf(p, a)
  BY <1>1
<1> QED
  BY <1>2 DEF QuantityAtDate

LEMMA UnitSums ==
  ASSUME NEW f, NEW S, AreAmounts(f, S), \A x \in S : f[x][2] = 1
  PROVE  SumOf(f, S) = Fraction(SumOf(f, S)[1])
<1> DEFINE bad == {s \in SUBSET S : SumOf(f, s)[2] # 1}
<1>1. bad = {}
  <2> SUFFICES ASSUME bad # {} PROVE FALSE
    OBVIOUS
  <2>1. PICK s \in bad : \A r \in bad : r \subseteq s => r = s
    <3>1. bad \subseteq SUBSET S /\ IsFiniteSet(S)
      BY DEF AreAmounts
    <3> HIDE DEF bad
    <3> QED
      BY <3>1, LeastSubset
  <2>2. s \in SUBSET S /\ SumOf(f, s)[2] # 1
    OBVIOUS
  <2>3. AreAmounts(f, s)
    BY <2>2, Summands
  <2>4. s # {}
    <3> HIDE DEF bad
    <3>1. SumOf(f, {}) = Fraction(0)
      BY <2>3, SumFirst
    <3>2. SumOf(f, {})[2] = 1
      BY <3>1 DEF Fraction
    <3> QED
      BY ONLY <2>2, <3>2
  <2>5. PICK x : x \in s /\ SumOf(f, s) = Plus(f[x], SumOf(f, s \ {x}))
    BY ONLY <2>3, <2>4, SumFirst
  <2>6. SumOf(f, s \ {x})[2] = 1 /\ f[x][2] = 1
    BY <2>1, <2>2, <2>5
  <2> QED
    BY <2>2, <2>5, <2>6 DEF Plus
<1>2. SumOf(f, S)[2] = 1 /\ SumOf(f, S) \in Amounts
  BY <1>1, SumFirst
<1> QED
  BY <1>2 DEF Amounts, Fraction

StartPriced(p) == {a \in Valued(p) : PriceAtDayStart(a) # NoPrice}

StartAmount(p, a) == Fraction(Position(p, a).quantity * PriceAtDayStart(a))

StartValue(p) == Total(LAMBDA a : StartAmount(p, a), StartPriced(p))

LEMMA StartValueIs ==
  ASSUME NEW p, NEW f, f = [a \in StartPriced(p) |-> StartAmount(p, a)],
         AreAmounts(f, StartPriced(p))
  PROVE  StartValue(p) = SumOf(f, StartPriced(p))
<1>1. PICK S : S = StartPriced(p)
  OBVIOUS
<1> DEFINE Eq(it) == it = [s \in SUBSET S |->
             IF s = {} THEN Fraction(0) ELSE Plus(StartAmount(p, OneOf(s)), it[s \ {OneOf(s)}])]
<1>2. StartValue(p) = (CHOOSE it : Eq(it))[S]
  BY <1>1 DEF StartValue, Total, FoldSet, MapThenFoldSet, OneOf
<1>3. \A s \in SUBSET S : s # {} => f[OneOf(s)] = StartAmount(p, OneOf(s))
  BY <1>1 DEF OneOf
<1>4. \A it : Eq(it) <=> Adds(f, S, it)
  BY <1>3 DEF Adds
<1>5. PICK it : Eq(it) /\ StartValue(p) = it[S]
  <2>1. \E it : Adds(f, S, it)
    BY <1>1, AddsSome
  <2> HIDE DEF Eq
  <2> QED
    BY <1>2, <1>4, <2>1
<1>6. Adds(f, S, it) /\ AreAmounts(f, S)
  BY <1>1, <1>4, <1>5
<1> HIDE DEF Eq
<1>7. it[S] = SumOf(f, S)
  BY <1>6, SumIs
<1> QED
  BY <1>1, <1>5, <1>7

LEMMA StartIsYesterday ==
  ASSUME ReportsInv, StartIsPlain, NEW p \in Portfolios
  PROVE  StartValue(p) = Fraction(ValueOnDate(p, Date(now) - 1))
<1>1. PICK date : date = Date(now) - 1
  OBVIOUS
<1>2. PICK S, T : S = PricedOn(p, date) /\ T = StartPriced(p)
  OBVIOUS
<1>3. PICK f : f = [a \in S |-> ValueOn(p, date, a)]
  OBVIOUS
<1>4. PICK g : g = [a \in T |-> StartAmount(p, a)]
  OBVIOUS
<1>5. AreAmounts(f, S) /\ ValueOnDate(p, date) = SumOf(f, S)[1]
  BY <1>2, <1>3, ValuesOnDate
<1>6. ASSUME NEW a \in Valued(p)
      PROVE  a \in Assets /\ IsOpen(p, a) /\ Plain(a)
  <2>1. a \in Assets /\ IsOpen(p, a)
    BY DEF Valued
  <2>2. a \in Held
    BY <2>1 DEF Held
  <2> QED
    BY <2>1, <2>2 DEF StartIsPlain, Plain, Before
<1>7. T = Valued(p)
  <2>1. \A a \in Valued(p) : PriceAtDayStart(a) # NoPrice
    BY <1>6, PriceYesterday DEF NoPrice
  <2> QED
    BY <1>2, <2>1 DEF StartPriced
<1>8. \A t \in trades : t.executed_at < DayStart
  BY DEF StartIsPlain
<1>9. T \subseteq S
  <2> SUFFICES ASSUME NEW a \in T PROVE a \in S
    OBVIOUS
  <2>1. a \in Traded(p)
    BY <1>6, <1>7, HeldQuantity
  <2>2. \E x \in Recent(a) : Date(x.stamp) <= date
    BY <1>1, <1>6, <1>7, PriceYesterday
  <2> QED
    BY <1>2, <2>1, <2>2 DEF PricedOn
<1>10. ASSUME NEW a \in T PROVE f[a] = g[a]
  <2>1. a \in Assets /\ IsOpen(p, a) /\ Plain(a) /\ a \in S
    BY <1>6, <1>7, <1>9
  <2>2. PriceOnDate(a, date) = PriceAtDayStart(a)
    BY <1>1, <2>1, PriceYesterday
  <2>3. QuantityAtDate(p, a, date) = Position(p, a).quantity
    BY <1>1, <1>8, <2>1, HeldYesterday, HeldQuantity
  <2> QED
    BY <1>3, <1>4, <2>1, <2>2, <2>3 DEF ValueOn, StartAmount
<1>11. ASSUME NEW a \in S \ T PROVE f[a] = Fraction(0)
  <2>1. a \in Traded(p) /\ a \in Assets
    BY <1>2 DEF PricedOn, Traded
  <2>2. {x \in Recent(a) : Date(x.stamp) <= date} # {}
    BY <1>2 DEF PricedOn
  <2>3. PricesOf(a) # {} /\ PriceOnDate(a, date) \in Nat
    BY <2>2, RecentAre, LastQuote DEF PriceOnDate
  <2>4. ~ IsOpen(p, a)
    BY <1>7, <2>1, <2>3 DEF Valued
  <2>5. QuantityAtDate(p, a, date) = 0
    BY <1>1, <1>8, <2>1, <2>4, HeldYesterday, HeldQuantity
  <2>6. 0 * PriceOnDate(a, date) = 0
    BY <2>3
  <2> QED
    BY <1>3, <2>5, <2>6 DEF ValueOn
<1>12. AreAmounts(g, T)
  BY <1>5, <1>9, <1>10, FS_Subset DEF AreAmounts
<1>13. SumOf(f, S) = SumOf(g, T)
  BY <1>5, <1>9, <1>10, <1>11, <1>12, SumsAgree
<1>14. StartValue(p) = SumOf(g, T)
  BY <1>2, <1>4, <1>12, StartValueIs
<1>15. \A a \in T : g[a][2] = 1
  BY <1>4 DEF StartAmount, Fraction
<1>16. SumOf(g, T) = Fraction(SumOf(g, T)[1])
  BY <1>12, <1>15, UnitSums
<1> QED
  BY <1>1, <1>5, <1>13, <1>14, <1>16

\* On a day without trades, the dashboard starts with the value that the series of the risk
\* service has for yesterday, when the last price before today of everything held is of the
\* last week and alone at its time, and no price is near after the start of the day
\* (dashboard_service.py:227, risk_service.py:278).
THEOREM DayAlwaysStartsWhereYesterdayEnded == Spec => []DayStartsWhereYesterdayEnded
<1>1. ASSUME ReportsInv, StartIsPlain
      PROVE  Same(StartOfDayValue,
                  Total(LAMBDA p : Fraction(ValueOnDate(p, Date(now) - 1)), Portfolios))
  <2> DEFINE Of(p) == Fraction(ValueOnDate(p, Date(now) - 1))
             Start1(it) == it = [s \in SUBSET Portfolios |->
               IF s = {} THEN Fraction(0) ELSE Plus(StartValue(OneOf(s)), it[s \ {OneOf(s)}])]
             End(it) == it = [s \in SUBSET Portfolios |->
               IF s = {} THEN Fraction(0) ELSE Plus(Of(OneOf(s)), it[s \ {OneOf(s)}])]
  <2>1. StartOfDayValue = (CHOOSE it : Start1(it))[Portfolios]
    BY DEF StartOfDayValue, StartValue, StartPriced, StartAmount,
           Total, FoldSet, MapThenFoldSet, OneOf
  <2>2. Total(Of, Portfolios) = (CHOOSE it : End(it))[Portfolios]
    BY DEF Total, FoldSet, MapThenFoldSet, OneOf
  <2>3. ASSUME NEW s \in SUBSET Portfolios, s # {}
        PROVE  StartValue(OneOf(s)) = Of(OneOf(s))
    <3>1. OneOf(s) \in Portfolios
      BY <2>3 DEF OneOf
    <3> QED
      BY <1>1, <3>1, StartIsYesterday
  <2>4. \A it : Start1(it) <=> End(it)
    BY <2>3
  <2> HIDE DEF Start1, End
  <2>5. (CHOOSE it : Start1(it)) = (CHOOSE it : End(it))
    BY <2>4, Zenon
  <2> QED
    BY <2>1, <2>2, <2>5 DEF Same
<1> QED
  BY <1>1, ReportsAlways, PTL DEF DayStartsWhereYesterdayEnded

-----------------------------------------------------------------------------
(***************************************************************************)
(* More of sums: of parts, of sums, of equal fractions.                    *)
(***************************************************************************)
LEMMA ZeroIs == Fraction(0) \in Amounts /\ Fraction(0) \in Worths
  BY DEF Fraction, Amounts, Worths

LEMMA PlusMoves ==
  ASSUME NEW u \in Amounts, NEW v \in Amounts, NEW x \in Amounts
  PROVE  Plus(u, v) \in Amounts /\ Plus(u, Plus(v, x)) = Plus(v, Plus(u, x))
  BY PlusIs

LEMMA SumOfParts ==
  ASSUME NEW f, NEW S, AreAmounts(f, S), NEW T, T \subseteq S
  PROVE  SumOf(f, S) = Plus(SumOf(f, T), SumOf(f, S \ T))
<1> DEFINE Bad(s) == SumOf(f, s) # Plus(SumOf(f, s \cap T), SumOf(f, s \ T))
           bad == {s \in SUBSET S : Bad(s)}
<1>1. bad = {}
  <2> SUFFICES ASSUME bad # {} PROVE FALSE
    OBVIOUS
  <2>1. PICK s \in bad : \A r \in bad : r \subseteq s => r = s
    <3>1. bad \subseteq SUBSET S /\ IsFiniteSet(S)
      BY DEF AreAmounts
    <3> HIDE DEF bad
    <3> QED
      BY <3>1, LeastSubset
  <2>2. s \in SUBSET S /\ Bad(s)
    OBVIOUS
  <2>3. s # {}
    <3> SUFFICES ASSUME s = {} PROVE FALSE
      OBVIOUS
    <3>1. {} \cap T = {} /\ {} \ T = {} /\ SumOf(f, {}) = Fraction(0) /\ Fraction(0) \in Amounts
      BY SumFirst, ZeroIs
    <3> QED
      BY <2>2, <3>1, PlusIs
  <2>4. PICK y \in s : TRUE
    BY <2>3
  <2>5. PICK r : r = s \ {y}
    OBVIOUS
  <2>6. ~ Bad(r)
    BY <2>1, <2>2, <2>4, <2>5
  <2>7. AreAmounts(f, s) /\ AreAmounts(f, s \cap T) /\ AreAmounts(f, s \ T)
        /\ AreAmounts(f, r \cap T) /\ AreAmounts(f, r \ T)
    BY <2>2, <2>5, Summands
  <2>8. SumOf(f, s) = Plus(f[y], SumOf(f, r)) /\ f[y] \in Amounts
    BY <2>4, <2>5, <2>7, SumUnfolds DEF AreAmounts
  <2>9. PICK u, v : u = SumOf(f, r \cap T) /\ v = SumOf(f, r \ T)
    OBVIOUS
  <2>10. u \in Amounts /\ v \in Amounts /\ SumOf(f, r) = Plus(u, v)
    BY <2>6, <2>7, <2>9, SumFirst
  <2>11. CASE y \in T
    <3>1. SumOf(f, s \cap T) = Plus(f[y], SumOf(f, (s \cap T) \ {y}))
      BY <2>4, <2>7, <2>11, SumUnfolds
    <3>2. (s \cap T) \ {y} = r \cap T /\ s \ T = r \ T
      BY <2>5, <2>11
    <3>3. Plus(f[y], Plus(u, v)) = Plus(Plus(f[y], u), v)
      BY <2>8, <2>10, PlusIs DEF Plus, Amounts
    <3> QED
      BY <2>2, <2>8, <2>9, <2>10, <3>1, <3>2, <3>3
  <2>12. CASE y \notin T
    <3>1. SumOf(f, s \ T) = Plus(f[y], SumOf(f, (s \ T) \ {y}))
      BY <2>4, <2>7, <2>12, SumUnfolds
    <3>2. (s \ T) \ {y} = r \ T /\ s \cap T = r \cap T
      BY <2>5, <2>12
    <3>3. Plus(f[y], Plus(u, v)) = Plus(u, Plus(f[y], v))
      BY <2>8, <2>10, PlusMoves
    <3> QED
      BY <2>2, <2>8, <2>9, <2>10, <3>1, <3>2, <3>3
  <2> QED
    BY <2>11, <2>12
<1>2. ~ Bad(S) /\ S \cap T = T
  BY <1>1
<1> QED
  BY <1>2

LEMMA PlusTwice ==
  ASSUME NEW u \in Amounts, NEW v \in Amounts, NEW x \in Amounts, NEW y \in Amounts
  PROVE  /\ Plus(Plus(u, v), Plus(x, y)) = Plus(Plus(u, x), Plus(v, y))
         /\ Plus(Plus(u, v), x) = Plus(u, Plus(v, x))
  BY DEF Plus, Amounts

LEMMA SumOfSums ==
  ASSUME NEW f, NEW g, NEW h, NEW S, AreAmounts(f, S), AreAmounts(g, S),
         \A x \in S : h[x] = Plus(f[x], g[x])
  PROVE  AreAmounts(h, S) /\ SumOf(h, S) = Plus(SumOf(f, S), SumOf(g, S))
<1>0. AreAmounts(h, S)
  BY PlusIs DEF AreAmounts
<1> DEFINE Bad(s) == SumOf(h, s) # Plus(SumOf(f, s), SumOf(g, s))
           bad == {s \in SUBSET S : Bad(s)}
<1>1. bad = {}
  <2> SUFFICES ASSUME bad # {} PROVE FALSE
    OBVIOUS
  <2>1. PICK s \in bad : \A r \in bad : r \subseteq s => r = s
    <3>1. bad \subseteq SUBSET S /\ IsFiniteSet(S)
      BY DEF AreAmounts
    <3> HIDE DEF bad
    <3> QED
      BY <3>1, LeastSubset
  <2>2. s \in SUBSET S /\ Bad(s)
    OBVIOUS
  <2>3. s # {}
    <3> SUFFICES ASSUME s = {} PROVE FALSE
      OBVIOUS
    <3>1. SumOf(f, {}) = Fraction(0) /\ SumOf(g, {}) = Fraction(0) /\ SumOf(h, {}) = Fraction(0)
          /\ Fraction(0) \in Amounts
      BY <1>0, SumFirst, ZeroIs
    <3> QED
      BY <2>2, <3>1, PlusIs
  <2>4. PICK y \in s : TRUE
    BY <2>3
  <2>5. PICK r : r = s \ {y}
    OBVIOUS
  <2>6. ~ Bad(r)
    BY <2>1, <2>2, <2>4, <2>5
  <2>7. /\ AreAmounts(f, s) /\ AreAmounts(g, s) /\ AreAmounts(h, s)
        /\ AreAmounts(f, r) /\ AreAmounts(g, r)
    BY <1>0, <2>2, <2>5, Summands
  <2>8. /\ SumOf(f, s) = Plus(f[y], SumOf(f, r)) /\ SumOf(g, s) = Plus(g[y], SumOf(g, r))
        /\ SumOf(h, s) = Plus(h[y], SumOf(h, r)) /\ h[y] = Plus(f[y], g[y])
    BY <2>2, <2>4, <2>5, <2>7, SumUnfolds
  <2>9. /\ f[y] \in Amounts /\ g[y] \in Amounts
        /\ SumOf(f, r) \in Amounts /\ SumOf(g, r) \in Amounts
    BY <2>4, <2>7, SumFirst DEF AreAmounts
  <2> QED
    BY <2>2, <2>6, <2>8, <2>9, PlusTwice
<1>2. ~ Bad(S)
  BY <1>1
<1> QED
  BY <1>0, <1>2

AreWorths(f, S) == IsFiniteSet(S) /\ \A x \in S : f[x] \in Worths

LEMMA SumsSame ==
  ASSUME NEW f, NEW g, NEW S, AreWorths(f, S), AreWorths(g, S), \A x \in S : Same(f[x], g[x])
  PROVE  /\ AreAmounts(f, S) /\ AreAmounts(g, S)
         /\ SumOf(f, S) \in Worths /\ SumOf(g, S) \in Worths /\ Same(SumOf(f, S), SumOf(g, S))
<1>0. AreAmounts(f, S) /\ AreAmounts(g, S)
  BY Parts DEF AreAmounts, AreWorths
<1> DEFINE Good(s) == /\ SumOf(f, s) \in Worths /\ SumOf(g, s) \in Worths
                      /\ Same(SumOf(f, s), SumOf(g, s))
           bad == {s \in SUBSET S : ~ Good(s)}
<1>1. bad = {}
  <2> SUFFICES ASSUME bad # {} PROVE FALSE
    OBVIOUS
  <2>1. PICK s \in bad : \A r \in bad : r \subseteq s => r = s
    <3>1. bad \subseteq SUBSET S /\ IsFiniteSet(S)
      BY DEF AreWorths
    <3> HIDE DEF bad
    <3> QED
      BY <3>1, LeastSubset
  <2>2. s \in SUBSET S /\ ~ Good(s)
    OBVIOUS
  <2>3. s # {}
    <3> SUFFICES ASSUME s = {} PROVE FALSE
      OBVIOUS
    <3>1. SumOf(f, {}) = Fraction(0) /\ SumOf(g, {}) = Fraction(0) /\ Fraction(0) \in Worths
      BY <1>0, SumFirst, ZeroIs
    <3> QED
      BY <2>2, <3>1, SameIs
  <2>4. PICK y \in s : TRUE
    BY <2>3
  <2>5. PICK r : r = s \ {y}
    OBVIOUS
  <2>6. Good(r)
    BY <2>1, <2>2, <2>4, <2>5
  <2>7. AreAmounts(f, s) /\ AreAmounts(g, s)
    BY <1>0, <2>2, Summands
  <2>8. /\ SumOf(f, s) = Plus(f[y], SumOf(f, r)) /\ SumOf(g, s) = Plus(g[y], SumOf(g, r))
    BY <2>4, <2>5, <2>7, SumUnfolds
  <2>9. f[y] \in Worths /\ g[y] \in Worths /\ Same(f[y], g[y])
    BY <2>2, <2>4 DEF AreWorths
  <2>10. Plus(f[y], SumOf(f, r)) \in Worths /\ Plus(g[y], SumOf(g, r)) \in Worths
    <3>1. \A x, z \in Worths : Plus(x, z) \in Worths
      BY WorthsOf
    <3> QED
      BY <2>6, <2>9, <3>1
  <2>11. Same(Plus(f[y], SumOf(f, r)), Plus(g[y], SumOf(g, r)))
    BY <2>6, <2>9, SameSums
  <2> QED
    BY <2>2, <2>8, <2>10, <2>11
<1>2. Good(S)
  BY <1>1
<1> QED
  BY <1>0, <1>2

-----------------------------------------------------------------------------
(***************************************************************************)
(* What the exits brought, added up.                                       *)
(***************************************************************************)
\* The running total of a sequence of amounts.
Totals(o, n, sums) ==
  /\ sums \in [0 .. n -> Amounts] /\ sums[0] = Fraction(0)
  /\ \A k \in 1 .. n : sums[k] = Plus(sums[k - 1], o[k])

LEMMA SumRuns ==
  ASSUME NEW o \in Seq(Amounts)
  PROVE  \E sums : Totals(o, Len(o), sums) /\ Sum(o) = sums[Len(o)]
<1>1. PICK n : n = Len(o)
  OBVIOUS
<1>2. n \in Nat /\ DOMAIN o = 1 .. n /\ \A k \in 1 .. n : o[k] \in Amounts
  BY <1>1
<1> DEFINE Eq(it) == it = [s \in SUBSET (1 .. n) |->
             IF s = {} THEN Fraction(0) ELSE Plus(it[s \ {Max(s)}], o[Max(s)])]
<1>3. Sum(o) = (CHOOSE it : Eq(it))[1 .. n]
  BY <1>2 DEF Sum, FoldLeft, MapThenFoldSet
<1>4. Fraction(0) \in Amounts
  BY DEF Fraction, Amounts
<1>5. \E it : Eq(it)
  <2>1. PICK F : F = [x \in (1 .. n) \X Amounts |-> Plus(x[2], o[x[1]])]
    OBVIOUS
  <2>2. \A k \in 1 .. n, v \in Amounts : F[<<k, v>>] = Plus(v, o[k]) /\ F[<<k, v>>] \in Amounts
    BY <1>2, <2>1, PlusIs
  <2>3. PICK it \in [SUBSET (1 .. n) -> Amounts] : Loops(n, Fraction(0), F, it)
    <3>1. \A k \in 1 .. n, v \in Amounts : F[<<k, v>>] \in Amounts
      BY <2>2
    <3> HIDE DEF Eq
    <3> QED
      BY <1>2, <1>4, <3>1, LoopSome
  <2>4. ASSUME NEW s \in SUBSET (1 .. n)
        PROVE  it[s] = IF s = {} THEN Fraction(0) ELSE Plus(it[s \ {Max(s)}], o[Max(s)])
    <3>1. CASE s = {}
      BY <2>3, <3>1 DEF Loops
    <3>2. CASE s # {}
      <4>1. Max(s) \in 1 .. n
        BY <1>2, <3>2, MaxIs
      <4>2. it[s \ {Max(s)}] \in Amounts
        BY <2>3
      <4> QED
        BY <2>2, <2>3, <3>2, <4>1, <4>2 DEF Loops
    <3> QED
      BY <3>1, <3>2
  <2>5. it = [s \in SUBSET (1 .. n) |->
                IF s = {} THEN Fraction(0) ELSE Plus(it[s \ {Max(s)}], o[Max(s)])]
    BY <2>3, <2>4
  <2> QED
    BY <2>5
<1>6. PICK it : Eq(it) /\ Sum(o) = it[1 .. n]
  <2> HIDE DEF Eq
  <2> QED
    BY <1>3, <1>5
<1>7. PICK sums : sums = [k \in 0 .. n |-> it[1 .. k]]
  OBVIOUS
<1>8. sums[0] = Fraction(0)
  <2>1. 1 .. 0 = {} /\ {} \in SUBSET (1 .. n) /\ 0 \in 0 .. n
    BY <1>2
  <2> QED
    BY <1>6, <1>7, <2>1
<1>9. ASSUME NEW k \in 1 .. n PROVE sums[k] = Plus(sums[k - 1], o[k])
  <2>1. k \in 0 .. n /\ k - 1 \in 0 .. n
    BY <1>2
  <2>2. /\ 1 .. k \in SUBSET (1 .. n) /\ 1 .. k # {}
        /\ Max(1 .. k) = k /\ (1 .. k) \ {Max(1 .. k)} = 1 .. k - 1
    BY <1>2, LastOfFirst
  <2>3. it[1 .. k] = Plus(it[(1 .. k) \ {Max(1 .. k)}], o[Max(1 .. k)])
    BY <1>6, <2>2
  <2> QED
    BY <1>7, <2>1, <2>2, <2>3
<1>10. \A k \in 0 .. n : sums[k] \in Amounts
  <2>1. PICK good : good = {k \in 0 .. n : sums[k] \in Amounts}
    OBVIOUS
  <2>2. 0 \in good
    BY <1>2, <1>4, <1>8, <2>1
  <2>3. ASSUME NEW k \in 1 .. n, k - 1 \in good PROVE k \in good
    <3>1. sums[k - 1] \in Amounts /\ o[k] \in Amounts /\ k \in 0 .. n
      BY <1>2, <2>1, <2>3
    <3>2. sums[k] \in Amounts
      BY <1>9, <3>1, PlusMoves
    <3> QED
      BY <2>1, <3>1, <3>2
  <2> QED
    BY <1>2, <2>1, <2>2, <2>3, UpTo
<1>11. Totals(o, n, sums)
  BY <1>7, <1>8, <1>9, <1>10 DEF Totals
<1>12. Sum(o) = sums[n]
  <2>1. n \in 0 .. n
    BY <1>2
  <2> QED
    BY <1>6, <1>7, <2>1
<1> HIDE DEF Eq
<1> QED
  BY <1>1, <1>11, <1>12

Alike(o, r, n) == \A k \in 1 .. n : o[k] = r[k]

\* Running totals of sequences that begin alike agree.
LEMMA TotalsAgree ==
  ASSUME NEW o, NEW r, NEW n \in Nat, NEW m \in Nat, n <= m, Alike(o, r, n),
         NEW f, Totals(o, n, f), NEW g, Totals(r, m, g)
  PROVE  f[n] = g[n]
<1>1. PICK good : good = {k \in 0 .. n : f[k] = g[k]}
  OBVIOUS
<1>2. 0 \in good
  BY <1>1 DEF Totals
<1>3. ASSUME NEW k \in 1 .. n, k - 1 \in good PROVE k \in good
  <2>1. k \in 1 .. m /\ k \in 0 .. n
    OBVIOUS
  <2>2. f[k] = Plus(f[k - 1], o[k]) /\ g[k] = Plus(g[k - 1], r[k])
    BY <2>1 DEF Totals
  <2> QED
    BY <1>1, <1>3, <2>1, <2>2 DEF Alike
<1>4. n \in 0 .. n
  OBVIOUS
<1>5. n \in good
  BY <1>2, <1>3, <1>4, UpTo
<1> QED
  BY <1>1, <1>5

LEMMA SumIsAmount ==
  ASSUME NEW o \in Seq(Amounts)
  PROVE  Sum(o) \in Amounts /\ (o = <<>> => Sum(o) = Fraction(0))
<1>1. PICK n, sums : n = Len(o) /\ Totals(o, n, sums) /\ Sum(o) = sums[n]
  BY SumRuns
<1>2. n \in Nat /\ n \in 0 .. n /\ (o = <<>> => n = 0)
  BY <1>1
<1> QED
  BY <1>1, <1>2 DEF Totals

LEMMA SumAppends ==
  ASSUME NEW o \in Seq(Amounts), NEW x \in Amounts
  PROVE  Sum(Append(o, x)) = Plus(Sum(o), x)
<1>1. PICK n, f : n = Len(o) /\ Totals(o, n, f) /\ Sum(o) = f[n]
  BY SumRuns
<1>2. PICK r : r = Append(o, x)
  OBVIOUS
<1>3. /\ n \in Nat /\ r \in Seq(Amounts) /\ Len(r) = n + 1 /\ r[n + 1] = x
      /\ \A k \in 1 .. n : r[k] = o[k]
  BY <1>1, <1>2
<1>4. PICK g : Totals(r, n + 1, g) /\ Sum(r) = g[n + 1]
  BY <1>3, SumRuns
<1>5. f[n] = g[n]
  <2>1. PICK m : m = n + 1
    OBVIOUS
  <2>2. n \in Nat /\ m \in Nat /\ n <= m /\ Alike(o, r, n)
    BY <1>3, <2>1 DEF Alike
  <2>3. Totals(o, n, f) /\ Totals(r, m, g)
    BY <1>1, <1>4, <2>1
  <2> QED
    BY <2>2, <2>3, TotalsAgree
<1>6. n + 1 \in 1 .. n + 1 /\ (n + 1) - 1 = n
  BY <1>3
<1>7. g[n + 1] = Plus(g[n], r[n + 1])
  BY <1>4, <1>6 DEF Totals
<1> QED
  BY <1>1, <1>2, <1>3, <1>4, <1>5, <1>7

-----------------------------------------------------------------------------
(***************************************************************************)
(* The cash of a ledger: what its exits brought, less what is held at its  *)
(* cost.                                                                   *)
(***************************************************************************)
FlowOf(t) ==
  Fraction((IF t.trade_type \in {"SELL", "SHORT"} THEN 1 ELSE -1) * t.quantity * t.price)

CashOf(L) == SumOf([t \in L |-> FlowOf(t)], L)

\* Of a short position the cost has come in.
Sign(book) == IF IsPosition(book) /\ book.position_type = "SHORT" THEN -1 ELSE 1

LEMMA FlowIs ==
  ASSUME NEW t, IsTrade(t)
  PROVE  FlowOf(t) \in Amounts /\ FlowOf(t) \in Worths
<1>1. PICK n : n = (IF t.trade_type \in {"SELL", "SHORT"} THEN 1 ELSE -1) * t.quantity * t.price
  OBVIOUS
<1>2. n \in Int
  BY <1>1 DEF IsTrade
<1> QED
  BY <1>1, <1>2 DEF FlowOf, Fraction, Amounts, Worths

LEMMA FlowsAre ==
  ASSUME NEW L, AreTrades(L), NEW f, NEW M, M \subseteq L, \A t \in M : f[t] = FlowOf(t)
  PROVE  /\ AreAmounts(f, M) /\ AreWorths(f, M)
         /\ SumOf(f, M) = CashOf(M) /\ CashOf(M) \in Worths
<1>1. IsFiniteSet(M)
  BY FS_Subset DEF AreTrades, IsLedger
<1>2. \A t \in M : FlowOf(t) \in Amounts /\ FlowOf(t) \in Worths
  BY FlowIs DEF AreTrades, IsTrade
<1>3. AreAmounts(f, M) /\ AreWorths(f, M)
  BY <1>1, <1>2 DEF AreAmounts, AreWorths
<1>4. PICK g : g = [t \in M |-> FlowOf(t)]
  OBVIOUS
<1>5. AreAmounts(g, M) /\ \A t \in M : f[t] = g[t]
  BY <1>1, <1>2, <1>4 DEF AreAmounts
<1>6. SumOf(f, M) = SumOf(g, M)
  BY <1>3, <1>5, SumsAgree
<1>7. SumOf(f, M) \in Worths
  <2>1. \A t \in M : Same(f[t], f[t])
    BY DEF Same
  <2> QED
    BY <1>3, <2>1, SumsSame
<1> QED
  BY <1>3, <1>4, <1>6, <1>7 DEF CashOf

LEMMA CashUnfolds ==
  ASSUME NEW L, AreTrades(L), NEW t \in L
  PROVE  /\ CashOf(L) = Plus(FlowOf(t), CashOf(L \ {t})) /\ CashOf(L \ {t}) \in Worths
         /\ FlowOf(t) \in Worths
<1>1. PICK f : f = [u \in L |-> FlowOf(u)]
  OBVIOUS
<1>2. PICK M : M = L \ {t}
  OBVIOUS
<1>3. AreAmounts(f, L) /\ AreWorths(f, L) /\ SumOf(f, L) = CashOf(L)
  BY <1>1, FlowsAre
<1>4. SumOf(f, M) = CashOf(M) /\ CashOf(M) \in Worths
  <2>1. M \subseteq L /\ \A u \in M : f[u] = FlowOf(u)
    BY <1>1, <1>2
  <2> QED
    BY <2>1, FlowsAre
<1>5. SumOf(f, L) = Plus(f[t], SumOf(f, M))
  BY <1>2, <1>3, SumUnfolds
<1>6. f[t] = FlowOf(t) /\ FlowOf(t) \in Worths
  BY <1>1, <1>3 DEF AreWorths
<1> QED
  BY <1>2, <1>3, <1>4, <1>5, <1>6

LEMMA EnterFlow ==
  ASSUME NEW s \in Int, NEW x \in Worths, NEW c \in Worths, NEW n \in Int, NEW m \in Int,
         n = - (s * m)
  PROVE  Plus(Plus(Fraction(n), x), Times(s, Plus(c, Fraction(m))))
         = Plus(x, Times(s, c))
<1>1. PICK x1, x2, c1, c2 : x1 = x[1] /\ x2 = x[2] /\ c1 = c[1] /\ c2 = c[2]
  OBVIOUS
<1>2. x1 \in Int /\ x2 \in Int /\ c1 \in Int /\ c2 \in Int
  BY <1>1, Parts
<1>3. (n * x2 + x1 * 1) * (c2 * 1) + (s * (c1 * 1 + m * c2)) * (1 * x2)
      = x1 * c2 + (s * c1) * x2
  BY <1>2
<1>4. (1 * x2) * (c2 * 1) = x2 * c2
  BY <1>2
<1> QED
  BY <1>1, <1>3, <1>4 DEF Plus, Times, Fraction

LEMMA ExitFlow ==
  ASSUME NEW s \in Int, NEW q \in Int, NEW p \in Int,
         NEW x \in Worths, NEW c \in Worths, NEW a \in Worths
  PROVE  Plus(Plus(x, Times(s, c)), Times(s, Times(q, Minus(Fraction(p), a))))
         = Plus(Plus(Fraction(s * q * p), x), Times(s, Minus(c, Times(q, a))))
<1>1. PICK x1, x2, c1, c2, a1, a2 : /\ x1 = x[1] /\ x2 = x[2] /\ c1 = c[1] /\ c2 = c[2]
                                    /\ a1 = a[1] /\ a2 = a[2]
  OBVIOUS
<1>2. x1 \in Int /\ x2 \in Int /\ c1 \in Int /\ c2 \in Int /\ a1 \in Int /\ a2 \in Int
  BY <1>1, Parts
<1>3. (x1 * c2 + (s * c1) * x2) * (1 * a2) + (s * (q * (p * a2 - a1 * 1))) * (x2 * c2)
      = ((s * q * p) * x2 + x1 * 1) * (c2 * a2) + (s * (c1 * a2 - (q * a1) * c2)) * (1 * x2)
  BY <1>2
<1>4. (x2 * c2) * (1 * a2) = (1 * x2) * (c2 * a2)
  BY <1>2
<1> QED
  BY <1>1, <1>3, <1>4 DEF Plus, Minus, Times, Fraction

\* What a trade brings and costs, by the side it is on.
LEMMA SidedFlow ==
  ASSUME NEW t, IsTrade(t), NEW w, Walked(w),
         NEW s, s = IF Side(t) = "SHORT" THEN -1 ELSE 1
  PROVE  /\ s \in Int /\ s \in {1, -1}
         /\ Enters(t) => FlowOf(t) = Fraction(- s * t.quantity * t.price)
         /\ ~ Enters(t) => /\ FlowOf(t) = Fraction(s * t.quantity * t.price)
                           /\ Gain(t, w) = Times(s, Times(t.quantity,
                                                          Minus(Fraction(t.price), w.average)))
                           /\ Gain(t, w) \in Worths
<1>1. PICK q, p : q = t.quantity /\ p = t.price
  OBVIOUS
<1>2. q \in Nat \ {0} /\ p \in Nat \ {0}
  BY <1>1 DEF IsTrade
<1>3. s \in Int /\ s \in {1, -1}
  OBVIOUS
<1>4. Enters(t) => FlowOf(t) = Fraction(- s * t.quantity * t.price)
  BY DEF Enters, Side, FlowOf, IsTrade, TradeTypes
<1>5. ASSUME ~ Enters(t) PROVE FlowOf(t) = Fraction(s * t.quantity * t.price)
  BY <1>5 DEF Enters, Side, FlowOf, IsTrade, TradeTypes
<1>6. ASSUME ~ Enters(t)
      PROVE  /\ Gain(t, w) = Times(s, Times(t.quantity, Minus(Fraction(t.price), w.average)))
             /\ Gain(t, w) \in Worths
  <2>1. PICK rise : rise = Times(q, Minus(Fraction(p), w.average))
    OBVIOUS
  <2>2. Minus(Fraction(p), w.average) \in Worths
    <3>1. Fraction(p) \in Worths /\ w.average \in Worths
      BY <1>2 DEF Walked, Fraction, Worths
    <3> QED
      BY <3>1, <1>2, WorthsOf
  <2>3. rise \in Worths
    BY <1>2, <2>1, <2>2, WorthsOf
  <2>4. Gain(t, w) = IF t.trade_type = "SELL" THEN rise ELSE Times(-1, rise)
    BY <1>1, <2>1 DEF Gain
  <2>5. Times(1, rise) = rise /\ Times(-1, rise) \in Worths
    <3>1. Times(-1, rise) \in Worths
      BY <2>3, WorthsOf
    <3>2. rise = <<rise[1], rise[2]>> /\ rise[1] \in Int
      BY <2>3, Parts
    <3> QED
      BY <3>1, <3>2 DEF Times
  <2>6. CASE t.trade_type = "SELL"
    <3>1. s = 1
      BY <2>6 DEF Side
    <3> QED
      BY <1>1, <2>1, <2>3, <2>4, <2>5, <2>6, <3>1
  <2>7. CASE t.trade_type # "SELL"
    <3>1. s = -1
      BY <1>6, <2>7 DEF Side, Enters, IsTrade, TradeTypes
    <3> QED
      BY <1>1, <2>1, <2>4, <2>5, <2>7, <3>1
  <2> QED
    BY <2>6, <2>7
<1> QED
  BY <1>3, <1>4, <1>5, <1>6

\* The cash comes out: what was brought is the cash and the cost of what is held.
ComesOut(book, w, cash) ==
  /\ w.outcomes \in Seq(Worths) /\ w.outcomes \in Seq(Amounts) /\ Sum(w.outcomes) \in Worths
  /\ Same(Sum(w.outcomes), Plus(cash, Times(Sign(book), w.cost)))

LEMMA StepComesOut ==
  ASSUME NEW t, IsTrade(t), NEW book, NEW w, InLine(book, w), ~ IsFailure(ApplyTrade(t, book)),
         NEW cash \in Worths, ComesOut(book, w, cash)
  PROVE  ComesOut(ApplyTrade(t, book), Step(t, w), Plus(FlowOf(t), cash))
<1>1. PICK q, p, c, a, o : /\ q = t.quantity /\ p = t.price /\ c = w.cost /\ a = w.average
                           /\ o = w.outcomes
  OBVIOUS
<1>2. /\ q \in Nat \ {0} /\ p \in Nat \ {0} /\ c \in Worths /\ a \in Worths /\ w \in Walks
      /\ w.quantity \in Nat /\ Walked(w) /\ Same(c, Times(w.quantity, a))
      /\ o \in Seq(Worths) /\ o \in Seq(Amounts)
  BY <1>1 DEF IsTrade, InLine, Walked, ComesOut
<1>3. PICK s : s = IF Side(t) = "SHORT" THEN -1 ELSE 1
  OBVIOUS
<1>4. s \in Int /\ s \in {1, -1}
  BY <1>3
<1>5. Sign(ApplyTrade(t, book)) = s
  BY <1>3, StepInLine DEF Sign
<1>6. Times(s, Fraction(0)) = Fraction(0)
  BY <1>4 DEF Times, Fraction
<1>7. Times(Sign(book), c) = Times(s, c)
  <2>1. CASE w.quantity = 0
    <3>1. c = Fraction(0)
      BY <1>1, <1>2, <2>1 DEF Walked
    <3>2. Times(1, Fraction(0)) = Fraction(0) /\ Times(-1, Fraction(0)) = Fraction(0)
      BY DEF Times, Fraction
    <3> QED
      BY <1>6, <3>1, <3>2 DEF Sign
  <2>2. CASE w.quantity # 0
    BY <1>3, <2>2, TakenTrade DEF Sign
  <2> QED
    BY <2>1, <2>2
<1>8. Sum(o) \in Worths /\ Same(Sum(o), Plus(cash, Times(s, c)))
  BY <1>1, <1>7 DEF ComesOut
<1>9. Times(s, c) \in Worths /\ Plus(cash, Times(s, c)) \in Worths
  BY <1>2, <1>4, WorthsOf
<1>10. CASE Enters(t)
  <2>0. PICK n : n = - s * q * p
    OBVIOUS
  <2>1. FlowOf(t) = Fraction(n)
    BY <1>1, <1>2, <1>3, <1>10, <2>0, SidedFlow
  <2>2. w.quantity + q > 0
    BY <1>2
  <2>3. Step(t, w).cost = Plus(c, Fraction(q * p)) /\ Step(t, w).outcomes = o
    BY <1>1, <1>2, <1>10, <2>2, StepIs DEF IsTrade, Enters
  <2>4. Plus(Plus(FlowOf(t), cash), Times(s, Step(t, w).cost)) = Plus(cash, Times(s, c))
    <3>1. q \in Int /\ p \in Int
      BY <1>2
    <3>2. PICK m : m = q * p
      OBVIOUS
    <3>3. n \in Int /\ m \in Int /\ n = - (s * m)
      BY <1>4, <2>0, <3>1, <3>2
    <3>4. Plus(Plus(Fraction(n), cash), Times(s, Plus(c, Fraction(m)))) = Plus(cash, Times(s, c))
      BY <1>2, <1>4, <3>3, EnterFlow
    <3> QED
      BY <2>1, <2>3, <3>2, <3>4
  <2> QED
    BY <1>2, <1>5, <1>8, <2>3, <2>4 DEF ComesOut
<1>11. CASE ~ Enters(t)
  <2>1. PICK g, e, h : /\ g = Gain(t, w) /\ e = Minus(c, Times(q, a))
                       /\ h = w.quantity - q
    OBVIOUS
  <2>2. /\ FlowOf(t) = Fraction(s * q * p) /\ g \in Worths
        /\ g = Times(s, Times(q, Minus(Fraction(p), a)))
    BY <1>1, <1>2, <1>3, <1>11, <2>1, SidedFlow
  <2>3. /\ Step(t, w).outcomes = Append(o, g)
        /\ Step(t, w).cost = IF h > 0 THEN e ELSE Fraction(0)
    BY <1>1, <1>2, <1>11, <2>1, StepIs DEF IsTrade, Enters
  <2>4. h \in Nat /\ w.quantity = q + h
    <3>1. q <= w.quantity
      BY <1>1, <1>11, TakenTrade
    <3> QED
      BY <1>2, <2>1, <3>1
  <2>5. e \in Worths /\ Times(q, a) \in Worths /\ Fraction(0) \in Worths
    <3>1. q \in Int
      BY <1>2
    <3>2. Times(q, a) \in Worths
      BY <1>2, <3>1, WorthsOf
    <3>3. Minus(c, Times(q, a)) \in Worths
      BY <1>2, <3>1, <3>2, WorthsOf
    <3> QED
      BY <2>1, <3>2, <3>3, ZeroIs
  <2>6. Step(t, w).cost \in Worths /\ Same(e, Step(t, w).cost)
    <3>1. CASE h > 0
      BY <2>3, <2>5, <3>1, SameIs
    <3>2. CASE ~ (h > 0)
      <4>1. h = 0 /\ w.quantity = q
        BY <1>2, <2>4, <3>2
      <4>2. Same(c, Times(q, a))
        BY <1>2, <4>1
      <4>3. Same(e, Fraction(0))
        <5>1. PICK c1, c2, b1, b2 : /\ c1 = c[1] /\ c2 = c[2]
                                    /\ b1 = Times(q, a)[1] /\ b2 = Times(q, a)[2]
          OBVIOUS
        <5>2. c1 \in Int /\ c2 \in Int /\ b1 \in Int /\ b2 \in Int /\ c1 * b2 = b1 * c2
          BY <1>2, <2>5, <4>2, <5>1, Parts DEF Same
        <5>3. (c1 * b2 - b1 * c2) * 1 = 0 * (c2 * b2)
          BY <5>2
        <5> QED
          BY <2>1, <5>1, <5>3 DEF Same, Minus, Fraction
      <4> QED
        BY <2>3, <2>5, <3>2, <4>3
    <3> QED
      BY <3>1, <3>2
  <2>7. /\ Sum(Append(o, g)) = Plus(Sum(o), g)
        /\ Append(o, g) \in Seq(Amounts) /\ Append(o, g) \in Seq(Worths)
    <3>1. g \in Amounts
      BY <2>2, Parts
    <3>2. Sum(Append(o, g)) = Plus(Sum(o), g)
      BY <1>2, <3>1, SumAppends
    <3>3. Append(o, g) \in Seq(Amounts) /\ Append(o, g) \in Seq(Worths)
      BY <1>2, <2>2, <3>1
    <3> QED
      BY <3>2, <3>3
  <2>8. Plus(Sum(o), g) \in Worths
    BY <1>8, <2>2, <1>4, WorthsOf
  <2>9. Same(Plus(Sum(o), g), Plus(Plus(cash, Times(s, c)), g))
    <3>1. Same(g, g)
      BY DEF Same
    <3> QED
      BY <1>8, <1>9, <2>2, <3>1, SameSums
  <2>10. Plus(Plus(cash, Times(s, c)), g) = Plus(Plus(FlowOf(t), cash), Times(s, e))
    BY <1>2, <1>4, <2>1, <2>2, ExitFlow
  <2>11. PICK r : r = Plus(FlowOf(t), cash)
    OBVIOUS
  <2>12. FlowOf(t) \in Worths
    BY FlowIs
  <2>13. r \in Worths
    BY <2>11, <2>12, <1>4, WorthsOf
  <2>14. /\ Times(s, e) \in Worths /\ Times(s, Step(t, w).cost) \in Worths
         /\ Same(Times(s, e), Times(s, Step(t, w).cost))
    BY <1>4, <2>5, <2>6, WorthsOf, SameTimes
  <2>15. Same(Plus(r, Times(s, e)), Plus(r, Times(s, Step(t, w).cost)))
    <3>1. Same(r, r)
      BY DEF Same
    <3> QED
      BY <2>13, <2>14, <3>1, SameSums
  <2>16. Plus(r, Times(s, e)) \in Worths /\ Plus(r, Times(s, Step(t, w).cost)) \in Worths
    BY <1>4, <2>13, <2>14, WorthsOf
  <2>17. Same(Plus(Sum(o), g), Plus(r, Times(s, Step(t, w).cost)))
    BY <2>8, <2>9, <2>10, <2>11, <2>15, <2>16, SameIs
  <2> QED
    BY <1>5, <2>3, <2>7, <2>8, <2>11, <2>17 DEF ComesOut
<1> QED
  BY <1>10, <1>11

LEMMA LedgerCash ==
  ASSUME NEW L, Accepted(L)
  PROVE  CashOf(L) \in Worths /\ ComesOut(Replay(L), Walk(L), CashOf(L))
<1> DEFINE Bad(s) == Accepted(s) /\ ~ ComesOut(Replay(s), Walk(s), CashOf(s))
           bad == {s \in SUBSET L : Bad(s)}
<1>0. \A s \in SUBSET L : CashOf(s) \in Worths
  <2> SUFFICES ASSUME NEW s \in SUBSET L PROVE CashOf(s) \in Worths
    OBVIOUS
  <2>1. PICK f : f = [t \in L |-> FlowOf(t)]
    OBVIOUS
  <2>2. \A t \in s : f[t] = FlowOf(t)
    BY <2>1
  <2> QED
    BY <2>2, FlowsAre DEF Accepted
<1>1. bad = {}
  <2> SUFFICES ASSUME bad # {} PROVE FALSE
    OBVIOUS
  <2>1. PICK s \in bad : \A r \in bad : r \subseteq s => r = s
    <3>1. bad \subseteq SUBSET L /\ IsFiniteSet(L)
      BY DEF Accepted, AreTrades, IsLedger
    <3> HIDE DEF bad
    <3> QED
      BY <3>1, LeastSubset
  <2>2. s \in SUBSET L /\ Accepted(s) /\ ~ ComesOut(Replay(s), Walk(s), CashOf(s))
    OBVIOUS
  <2>3. CASE s = {}
    <3>1. Walk(s) = Start /\ Replay(s) = NoBook
      BY <2>2, <2>3, ReplayUnfolds, WalkUnfolds DEF Accepted, AreTrades
    <3>2. Sign(NoBook) = 1
      BY DEF Sign, IsPosition, NoBook
    <3>3. CashOf(s) = Fraction(0)
      <4>1. PICK f : f = [t \in s |-> FlowOf(t)]
        OBVIOUS
      <4>2. AreAmounts(f, s)
        BY <2>3, FS_EmptySet DEF AreAmounts
      <4> QED
        BY <2>3, <4>1, <4>2, SumFirst DEF CashOf
    <3>4. Start.outcomes = <<>> /\ Start.cost = Fraction(0) /\ <<>> \in Seq(Amounts)
          /\ <<>> \in Seq(Worths)
      BY DEF Start
    <3>5. Sum(<<>>) = Fraction(0) /\ Fraction(0) \in Worths
      BY <3>4, SumIsAmount, ZeroIs
    <3>6. Same(Fraction(0), Plus(Fraction(0), Times(1, Fraction(0))))
      BY DEF Same, Plus, Times, Fraction
    <3> QED
      BY <2>2, <3>1, <3>2, <3>3, <3>4, <3>5, <3>6 DEF ComesOut
  <2>4. CASE s # {}
    <3>1. PICK t : t = Latest(s)
      OBVIOUS
    <3>2. /\ t \in s /\ IsTrade(t) /\ Accepted(s \ {t})
          /\ Replay(s) = ApplyTrade(t, Replay(s \ {t})) /\ Walk(s) = Step(t, Walk(s \ {t}))
      BY <2>2, <2>4, <3>1, AcceptedBefore
    <3>3. ComesOut(Replay(s \ {t}), Walk(s \ {t}), CashOf(s \ {t}))
      BY <2>1, <2>2, <3>2
    <3>4. ~ IsFailure(ApplyTrade(t, Replay(s \ {t})))
      BY <2>2, <3>2 DEF Accepted
    <3>5. CashOf(s) = Plus(FlowOf(t), CashOf(s \ {t})) /\ CashOf(s \ {t}) \in Worths
      BY <2>2, <3>2, CashUnfolds DEF Accepted
    <3>6. InLine(Replay(s \ {t}), Walk(s \ {t}))
      BY <3>2, WalkInLine
    <3> QED
      BY <2>2, <3>2, <3>3, <3>4, <3>5, <3>6, StepComesOut
  <2> QED
    BY <2>3, <2>4
<1>2. ~ Bad(L)
  BY <1>1
<1> QED
  BY <1>0, <1>2

-----------------------------------------------------------------------------
(***************************************************************************)
(* The total profit of a portfolio.                                        *)
(***************************************************************************)
LEMMA NoExits ==
  ASSUME NEW L, AreTrades(L), \A t \in L : Enters(t)
  PROVE  Walk(L).outcomes = <<>>
<1> DEFINE bad == {s \in SUBSET L : Walk(s).outcomes # <<>>}
<1>1. bad = {}
  <2> SUFFICES ASSUME bad # {} PROVE FALSE
    OBVIOUS
  <2>1. PICK s \in bad : \A r \in bad : r \subseteq s => r = s
    <3>1. bad \subseteq SUBSET L /\ IsFiniteSet(L)
      BY DEF AreTrades, IsLedger
    <3> HIDE DEF bad
    <3> QED
      BY <3>1, LeastSubset
  <2>2. s \in SUBSET L /\ Walk(s).outcomes # <<>> /\ AreTrades(s)
    BY SomeTrades
  <2>3. s # {}
    <3> SUFFICES ASSUME s = {} PROVE FALSE
      OBVIOUS
    <3>1. Walk(s) = Start /\ Start.outcomes = <<>>
      BY <2>2, WalkUnfolds DEF Start
    <3> QED
      BY <2>2, <3>1
  <2>4. PICK t : t = Latest(s)
    OBVIOUS
  <2>5. t \in s /\ Walk(s) = Step(t, Walk(s \ {t}))
    BY <2>2, <2>3, <2>4, WalkUnfolds
  <2>6. Walk(s \ {t}).outcomes = <<>>
    BY <2>1, <2>2, <2>5
  <2>7. Walk(s \ {t}) \in Walks
    BY <2>2, SomeTrades, WalkUnfolds
  <2>8. t \in L /\ t.trade_type \in {"BUY", "SHORT"}
    BY <2>2, <2>5 DEF Enters
  <2>9. Step(t, Walk(s \ {t})).outcomes = Walk(s \ {t}).outcomes
    BY <2>7, <2>8, StepIs DEF AreTrades
  <2> QED
    BY <2>2, <2>5, <2>6, <2>9
<1> QED
  BY <1>1

LEMMA PlusNothing ==
  ASSUME NEW x \in Worths
  PROVE  Plus(x, Fraction(0)) = x
<1>1. x = <<x[1], x[2]>> /\ x[1] \in Int /\ x[2] \in Int
  BY Parts
<1> QED
  BY <1>1 DEF Plus, Fraction

\* The profit of a closed position is the cash of its ledger.
LEMMA ClosedProfit ==
  ASSUME ReportsInv, NEW p \in Portfolios, NEW a \in Closed(p)
  PROVE  /\ RealizedPnl(p, a) \in Worths /\ CashOf(LedgerOf(p, a)) \in Worths
         /\ Same(RealizedPnl(p, a), CashOf(LedgerOf(p, a)))
<1>1. PICK L, w, book : L = LedgerOf(p, a) /\ w = Walk(L) /\ book = Replay(L)
  OBVIOUS
<1>2. a \in Assets /\ IsPosition(book) /\ ~ IsOpen(p, a) /\ Accepted(L)
  BY <1>1 DEF Closed, Position, ReportsInv
<1>3. a \in Traded(p) /\ w.quantity = 0 /\ Walked(w)
  BY <1>1, <1>2, PositionIs, HeldQuantity DEF Position, InLine
<1>4. CashOf(L) \in Worths /\ ComesOut(book, w, CashOf(L))
  BY <1>1, <1>2, LedgerCash
<1>5. Times(Sign(book), w.cost) = Fraction(0)
  <2>1. w.cost = Fraction(0)
    BY <1>3 DEF Walked
  <2>2. Times(1, Fraction(0)) = Fraction(0) /\ Times(-1, Fraction(0)) = Fraction(0)
    BY DEF Times, Fraction
  <2> QED
    BY <2>1, <2>2 DEF Sign
<1>6. Plus(CashOf(L), Fraction(0)) = CashOf(L)
  BY <1>4, PlusNothing
<1> QED
  BY <1>1, <1>4, <1>5, <1>6 DEF RealizedPnl, ComesOut

LEMMA WithoutCost ==
  ASSUME NEW x \in Worths, NEW k \in Worths, NEW c \in Worths,
         Same(Fraction(0), Plus(c, k))
  PROVE  Same(Minus(x, k), Plus(c, x))
<1>1. PICK x1, x2, k1, k2, c1, c2 : /\ x1 = x[1] /\ x2 = x[2] /\ k1 = k[1] /\ k2 = k[2]
                                    /\ c1 = c[1] /\ c2 = c[2]
  OBVIOUS
<1>2. x1 \in Int /\ x2 \in Int /\ k1 \in Int /\ k2 \in Int /\ c1 \in Int /\ c2 \in Int
  BY <1>1, Parts
<1>3. 0 * (c2 * k2) = (c1 * k2 + k1 * c2) * 1
  BY <1>1 DEF Same, Plus, Fraction
<1>4. PICK z : z = c1 * k2 + k1 * c2
  OBVIOUS
<1>5. z = 0
  BY <1>2, <1>3, <1>4
<1>6. (x1 * k2 - k1 * x2) * (c2 * x2) = (c1 * x2 + x1 * c2) * (x2 * k2) - z * (x2 * x2)
  BY <1>2, <1>4
<1>7. (x1 * k2 - k1 * x2) * (c2 * x2) = (c1 * x2 + x1 * c2) * (x2 * k2)
  BY <1>2, <1>5, <1>6
<1> QED
  BY <1>1, <1>7 DEF Same, Minus, Plus

LEMMA TimesMinus ==
  ASSUME NEW q \in Int, NEW n \in Int, NEW m, m = q * n, NEW x \in Worths
  PROVE  Times(q, Minus(Fraction(n), x)) = Minus(Fraction(m), Times(q, x))
<1>1. PICK x1, x2 : x1 = x[1] /\ x2 = x[2]
  OBVIOUS
<1>2. x1 \in Int /\ x2 \in Int
  BY <1>1, Parts
<1>3. q * (n * x2 - x1 * 1) = m * x2 - (q * x1) * 1
  BY <1>2
<1> QED
  BY <1>1, <1>3 DEF Times, Minus, Fraction

\* The profit of a long position that was only bought into is its value and the cash of its
\* ledger.
LEMMA OpenProfit ==
  ASSUME ReportsInv, NEW p \in Portfolios, NEW a \in Valued(p),
         Position(p, a).position_type = "LONG", \A t \in LedgerOf(p, a) : t.trade_type = "BUY"
  PROVE  /\ UnrealizedPnl(p, a) \in Worths /\ PositionValue(p, a) \in Worths
         /\ CashOf(LedgerOf(p, a)) \in Worths
         /\ Same(UnrealizedPnl(p, a), Plus(CashOf(LedgerOf(p, a)), PositionValue(p, a)))
<1>1. PICK L, w, book : L = LedgerOf(p, a) /\ w = Walk(L) /\ book = Replay(L)
  OBVIOUS
<1>2. a \in Assets /\ IsOpen(p, a) /\ PricesOf(a) # {} /\ Accepted(L) /\ book = Position(p, a)
  BY <1>1 DEF Valued, Position, ReportsInv
<1>3. InLine(book, w) /\ IsPosition(book)
  BY <1>1, <1>2, PositionIs DEF IsOpen
<1>4. PICK q, n, x, c, k : /\ q = book.quantity /\ n = LatestPrice(a) /\ x = book.average_price
                           /\ c = CashOf(L) /\ k = w.cost
  OBVIOUS
<1>5. n \in Nat
  <2>1. AreQuotes(PricesOf(a)) /\ PricesOf(a) # {}
    BY <1>2, PricesAre
  <2>2. \E y \in PricesOf(a) : \A z \in PricesOf(a) :
          z.stamp < y.stamp \/ (z.stamp = y.stamp /\ z.order <= y.order)
    <3>1. PICK last : IsLast(last, PricesOf(a))
      BY <2>1, LastQuote
    <3>2. PICK K : K = {z \in PricesOf(a) : z.stamp = last.stamp}
      OBVIOUS
    <3>3. IsFiniteSet(K) /\ K # {} /\ K \subseteq PricesOf(a)
      BY <2>1, <3>1, <3>2, FS_Subset DEF AreQuotes, IsLast
    <3>4. PICK m : m = [z \in K |-> z.order]
      OBVIOUS
    <3>5. \A z \in K : m[z] = z.order /\ m[z] \in Int
      BY <2>1, <3>3, <3>4 DEF AreQuotes, IsQuote
    <3>6. PICK y \in K : \A z \in K : m[z] <= m[y]
      BY <3>3, <3>5, LastExists
    <3>7. ASSUME NEW z \in PricesOf(a)
          PROVE  z.stamp < y.stamp \/ (z.stamp = y.stamp /\ z.order <= y.order)
      <4>1. z.stamp \in Nat /\ y.stamp = last.stamp /\ last.stamp \in Nat /\ z.stamp <= last.stamp
        BY <2>1, <3>1, <3>2, <3>6, <3>7 DEF AreQuotes, IsQuote, IsLast
      <4>2. z.stamp = last.stamp => z \in K
        BY <3>2, <3>7
      <4> QED
        BY <3>5, <3>6, <4>1, <4>2
    <3> QED
      BY <3>3, <3>6, <3>7
  <2>3. PICK y \in PricesOf(a) : LatestPrice(a) = y.price
    BY <2>2 DEF LatestPrice
  <2> QED
    BY <1>4, <2>1, <2>3 DEF AreQuotes, IsQuote
<1>6. /\ q \in Nat /\ x \in Worths /\ k \in Worths /\ w.average \in Worths
      /\ Same(x, w.average) /\ Same(k, Times(q, w.average))
  BY <1>3, <1>4 DEF InLine, Walked
<1>7. c \in Worths /\ ComesOut(book, w, c)
  BY <1>1, <1>2, <1>4, LedgerCash
<1>8. Same(Fraction(0), Plus(c, k))
  <2>1. w.outcomes = <<>>
    <3>1. AreTrades(L) /\ \A t \in L : Enters(t)
      BY <1>1, <1>2 DEF Accepted, Enters
    <3> QED
      BY <1>1, <3>1, NoExits
  <2>2. Sum(<<>>) = Fraction(0)
    BY <1>7, <2>1, SumIsAmount DEF ComesOut
  <2>3. Sign(book) = 1
    BY <1>2 DEF Sign
  <2>4. Times(1, k) = k
    <3>1. k = <<k[1], k[2]>> /\ k[1] \in Int
      BY <1>6, Parts
    <3> QED
      BY <3>1 DEF Times
  <2> QED
    BY <1>4, <1>7, <2>1, <2>2, <2>3, <2>4 DEF ComesOut
<1>9. PICK m : m = q * n
  OBVIOUS
<1>10. m \in Int /\ Fraction(m) \in Worths
  <2>1. m \in Int
    BY <1>5, <1>6, <1>9
  <2> QED
    BY <2>1 DEF Fraction, Worths
<1>11. UnrealizedPnl(p, a) = Minus(Fraction(m), Times(q, x))
  <2>1. UnrealizedPnl(p, a) = Times(q, Minus(Fraction(n), x))
    BY <1>2, <1>4 DEF UnrealizedPnl
  <2>2. q \in Int /\ n \in Int
    BY <1>5, <1>6
  <2> QED
    BY <1>6, <1>9, <2>1, <2>2, TimesMinus
<1>12. PositionValue(p, a) = Fraction(m)
  BY <1>2, <1>4, <1>9 DEF PositionValue
<1>13. /\ Times(q, x) \in Worths /\ Times(q, w.average) \in Worths
       /\ Same(Times(q, x), Times(q, w.average))
  BY <1>6, WorthsOf, SameTimes
<1>14. Same(Times(q, x), k)
  <2>1. Same(Times(q, w.average), k)
    BY <1>6, <1>13, SameIs
  <2> QED
    BY <1>6, <1>13, <2>1, SameIs
<1>15. Same(Minus(Fraction(m), Times(q, x)), Minus(Fraction(m), k))
  <2>1. Same(Fraction(m), Fraction(m))
    BY DEF Same
  <2> QED
    BY <1>6, <1>10, <1>13, <1>14, <2>1, SameSums
<1>16. Same(Minus(Fraction(m), k), Plus(c, Fraction(m)))
  BY <1>6, <1>7, <1>8, <1>10, WithoutCost
<1>17. /\ Minus(Fraction(m), Times(q, x)) \in Worths /\ Minus(Fraction(m), k) \in Worths
       /\ Plus(c, Fraction(m)) \in Worths
  BY <1>6, <1>7, <1>10, <1>13, WorthsOf
<1>18. Same(Minus(Fraction(m), Times(q, x)), Plus(c, Fraction(m)))
  BY <1>15, <1>16, <1>17, SameIs
<1> QED
  BY <1>1, <1>4, <1>7, <1>10, <1>11, <1>12, <1>17, <1>18

AllRealized(p) == Total(LAMBDA a : RealizedPnl(p, a), Closed(p))

AllUnrealized(p) == Total(LAMBDA a : UnrealizedPnl(p, a), Valued(p))

LEMMA TotalPnlIs ==
  ASSUME NEW p
  PROVE  TotalPnl(p) = Plus(AllRealized(p), AllUnrealized(p))
  BY DEF TotalPnl, AllRealized, AllUnrealized, Total, FoldSet, MapThenFoldSet

LEMMA AllRealizedIs ==
  ASSUME NEW p, NEW f, f = [a \in Closed(p) |-> RealizedPnl(p, a)], AreAmounts(f, Closed(p))
  PROVE  AllRealized(p) = SumOf(f, Closed(p))
<1>1. PICK S : S = Closed(p)
  OBVIOUS
<1> DEFINE Eq(it) == it = [s \in SUBSET S |->
             IF s = {} THEN Fraction(0) ELSE Plus(RealizedPnl(p, OneOf(s)), it[s \ {OneOf(s)}])]
<1>2. AllRealized(p) = (CHOOSE it : Eq(it))[S]
  BY <1>1 DEF AllRealized, Total, FoldSet, MapThenFoldSet, OneOf
<1>3. \A s \in SUBSET S : s # {} => f[OneOf(s)] = RealizedPnl(p, OneOf(s))
  BY <1>1 DEF OneOf
<1>4. \A it : Eq(it) <=> Adds(f, S, it)
  BY <1>3 DEF Adds
<1>5. PICK it : Eq(it) /\ AllRealized(p) = it[S]
  <2>1. \E it : Adds(f, S, it)
    BY <1>1, AddsSome
  <2> HIDE DEF Eq
  <2> QED
    BY <1>2, <1>4, <2>1
<1>6. Adds(f, S, it) /\ AreAmounts(f, S)
  BY <1>1, <1>4, <1>5
<1> HIDE DEF Eq
<1>7. it[S] = SumOf(f, S)
  BY <1>6, SumIs
<1> QED
  BY <1>1, <1>5, <1>7

LEMMA AllUnrealizedIs ==
  ASSUME NEW p, NEW f, f = [a \in Valued(p) |-> UnrealizedPnl(p, a)], AreAmounts(f, Valued(p))
  PROVE  AllUnrealized(p) = SumOf(f, Valued(p))
<1>1. PICK S : S = Valued(p)
  OBVIOUS
<1> DEFINE Eq(it) == it = [s \in SUBSET S |->
             IF s = {} THEN Fraction(0) ELSE Plus(UnrealizedPnl(p, OneOf(s)), it[s \ {OneOf(s)}])]
<1>2. AllUnrealized(p) = (CHOOSE it : Eq(it))[S]
  BY <1>1 DEF AllUnrealized, Total, FoldSet, MapThenFoldSet, OneOf
<1>3. \A s \in SUBSET S : s # {} => f[OneOf(s)] = UnrealizedPnl(p, OneOf(s))
  BY <1>1 DEF OneOf
<1>4. \A it : Eq(it) <=> Adds(f, S, it)
  BY <1>3 DEF Adds
<1>5. PICK it : Eq(it) /\ AllUnrealized(p) = it[S]
  <2>1. \E it : Adds(f, S, it)
    BY <1>1, AddsSome
  <2> HIDE DEF Eq
  <2> QED
    BY <1>2, <1>4, <2>1
<1>6. Adds(f, S, it) /\ AreAmounts(f, S)
  BY <1>1, <1>4, <1>5
<1> HIDE DEF Eq
<1>7. it[S] = SumOf(f, S)
  BY <1>6, SumIs
<1> QED
  BY <1>1, <1>5, <1>7

TradesOf(p) == {t \in trades : t.portfolio = p}

LEMMA CashIs ==
  ASSUME ReportsInv, NEW p
  PROVE  Cash(p) = CashOf(TradesOf(p)) /\ AreTrades(TradesOf(p))
<1>1. PICK S, f : S = TradesOf(p) /\ f = [t \in S |-> FlowOf(t)]
  OBVIOUS
<1> DEFINE Eq(it) == it = [s \in SUBSET S |->
             IF s = {} THEN Fraction(0) ELSE Plus(FlowOf(OneOf(s)), it[s \ {OneOf(s)}])]
<1>2. Cash(p) = (CHOOSE it : Eq(it))[S]
  BY <1>1 DEF Cash, TradesOf, FlowOf, Total, FoldSet, MapThenFoldSet, OneOf
<1>3. \A s \in SUBSET S : s # {} => f[OneOf(s)] = FlowOf(OneOf(s))
  BY <1>1 DEF OneOf
<1>4. \A it : Eq(it) <=> Adds(f, S, it)
  BY <1>3 DEF Adds
<1> HIDE DEF Eq
<1>5. AreTrades(S)
  <2>1. S \subseteq trades
    BY <1>1 DEF TradesOf
  <2> QED
    BY <2>1, SomeTrades DEF ReportsInv
<1>6. AreAmounts(f, S)
  BY <1>1, <1>5, FlowsAre
<1>7. PICK it : Eq(it) /\ Cash(p) = it[S]
  <2>1. \E it : Adds(f, S, it)
    BY <1>6, AddsSome
  <2> QED
    BY <1>2, <1>4, <2>1
<1>8. it[S] = SumOf(f, S)
  BY <1>4, <1>6, <1>7, SumIs
<1> QED
  BY <1>1, <1>5, <1>7, <1>8 DEF CashOf

\* The cash of a portfolio is the cash of its ledgers.
LEMMA CashByAsset ==
  ASSUME ReportsInv, NEW p \in Portfolios,
         NEW c, c = [a \in Traded(p) |-> CashOf(LedgerOf(p, a))]
  PROVE  /\ AreWorths(c, Traded(p)) /\ AreAmounts(c, Traded(p))
         /\ Cash(p) = SumOf(c, Traded(p))
<1>1. PICK f : f = [t \in trades |-> FlowOf(t)]
  OBVIOUS
<1>2. PICK T : T = Traded(p)
  OBVIOUS
<1>3. IsFiniteSet(T) /\ AreTrades(trades)
  BY <1>2, TradedFinite DEF ReportsInv
<1>4. \A M \in SUBSET trades : /\ AreAmounts(f, M) /\ SumOf(f, M) = CashOf(M)
                               /\ CashOf(M) \in Worths
  <2> SUFFICES ASSUME NEW M \in SUBSET trades
               PROVE  AreAmounts(f, M) /\ SumOf(f, M) = CashOf(M) /\ CashOf(M) \in Worths
    OBVIOUS
  <2>1. \A t \in M : f[t] = FlowOf(t)
    BY <1>1
  <2> QED
    BY <1>3, <2>1, FlowsAre
<1>5. AreWorths(c, T) /\ AreAmounts(c, T)
  <2>1. \A a : LedgerOf(p, a) \in SUBSET trades
    BY DEF LedgerOf
  <2>2. \A a \in T : c[a] \in Worths
    BY <1>2, <1>4, <2>1
  <2> QED
    BY <1>3, <2>2, Parts DEF AreWorths, AreAmounts
<1> DEFINE Of(s) == {t \in trades : t.portfolio = p /\ t.asset \in s}
           Bad(s) == SumOf(f, Of(s)) # SumOf(c, s)
           bad == {s \in SUBSET T : Bad(s)}
<1>6. bad = {}
  <2> SUFFICES ASSUME bad # {} PROVE FALSE
    OBVIOUS
  <2>1. PICK s \in bad : \A r \in bad : r \subseteq s => r = s
    <3>1. bad \subseteq SUBSET T
      OBVIOUS
    <3> HIDE DEF bad
    <3> QED
      BY <1>3, <3>1, LeastSubset
  <2>2. s \in SUBSET T /\ Bad(s)
    OBVIOUS
  <2>3. s # {}
    <3> SUFFICES ASSUME s = {} PROVE FALSE
      OBVIOUS
    <3>1. Of(s) = {}
      OBVIOUS
    <3>2. SumOf(f, {}) = Fraction(0) /\ SumOf(c, {}) = Fraction(0)
      BY <1>4, <1>5, SumFirst
    <3> QED
      BY <2>2, <3>1, <3>2
  <2>4. PICK y \in s : TRUE
    BY <2>3
  <2>5. ~ Bad(s \ {y})
    BY <2>1, <2>2, <2>4
  <2>6. /\ LedgerOf(p, y) \in SUBSET trades /\ LedgerOf(p, y) \subseteq Of(s)
        /\ Of(s) \ LedgerOf(p, y) = Of(s \ {y}) /\ Of(s) \in SUBSET trades
    BY <2>4 DEF LedgerOf
  <2>7. c[y] = SumOf(f, LedgerOf(p, y))
    BY <1>2, <1>4, <2>2, <2>4, <2>6
  <2>8. SumOf(c, s) = Plus(c[y], SumOf(c, s \ {y}))
    <3>1. AreAmounts(c, s)
      BY <1>5, <2>2, Summands
    <3> QED
      BY <2>4, <3>1, SumUnfolds
  <2>9. PICK M, L : M = Of(s) /\ L = LedgerOf(p, y)
    OBVIOUS
  <2>10. SumOf(f, M) = Plus(SumOf(f, L), SumOf(f, M \ L))
    <3>1. AreAmounts(f, M) /\ L \subseteq M
      BY <1>4, <2>6, <2>9
    <3> QED
      BY <3>1, SumOfParts
  <2> QED
    BY <2>2, <2>5, <2>6, <2>7, <2>8, <2>9, <2>10
<1>7. SumOf(f, Of(T)) = SumOf(c, T)
  BY <1>6
<1>8. Of(T) = TradesOf(p)
  <2>1. \A t \in trades : t.portfolio = p => t.asset \in T
    BY <1>2 DEF Traded, LedgerOf, ReportsInv
  <2> QED
    BY <2>1 DEF TradesOf
<1>9. TradesOf(p) \in SUBSET trades
  BY DEF TradesOf
<1> QED
  BY <1>2, <1>4, <1>5, <1>7, <1>8, <1>9, CashIs

\* A portfolio's total profit is its cash and its value, as long as no open position is
\* short, has been sold from, or has no price (analytics_service.py:370): the realised
\* profits, walked through ledger by ledger, and the unrealised ones, from the positions,
\* together leave out no payment and count none twice.
THEOREM TotalIsAlwaysCashAndValue == Spec => []TotalIsCashAndValue
<1>1. ASSUME ReportsInv PROVE TotalIsCashAndValue
  <2> SUFFICES ASSUME NEW p \in Portfolios,
                      \A a \in Assets : IsOpen(p, a) =>
                        /\ a \in Valued(p) /\ Position(p, a).position_type = "LONG"
                        /\ \A t \in LedgerOf(p, a) : t.trade_type = "BUY"
               PROVE  Same(TotalPnl(p), Plus(Cash(p), PortfolioValue(p)))
    BY DEF TotalIsCashAndValue
  <2>1. PICK C, V, T : C = Closed(p) /\ V = Valued(p) /\ T = Traded(p)
    OBVIOUS
  <2>2. IsFiniteSet(T) /\ C \subseteq T /\ V \subseteq T /\ T \ C = V
    <3>1. IsFiniteSet(T)
      BY <1>1, <2>1, TradedFinite
    <3>2. \A a \in Assets : a \in T <=> IsPosition(Position(p, a))
      BY <1>1, <2>1, PositionIs
    <3>3. \A a \in Assets : a \in V <=> IsOpen(p, a)
      BY <2>1 DEF Valued
    <3>4. C \subseteq Assets /\ V \subseteq Assets /\ T \subseteq Assets
      BY <2>1 DEF Closed, Valued, Traded
    <3> QED
      BY <2>1, <3>1, <3>2, <3>3, <3>4 DEF Closed, IsOpen
  <2>3. IsFiniteSet(C) /\ IsFiniteSet(V)
    BY <2>2, FS_Subset
  <2>4. PICK r, u : r = [a \in C |-> RealizedPnl(p, a)] /\ u = [a \in V |-> UnrealizedPnl(p, a)]
    OBVIOUS
  <2>5. PICK v, c : v = [a \in V |-> PositionValue(p, a)]
                    /\ c = [a \in T |-> CashOf(LedgerOf(p, a))]
    OBVIOUS
  <2>6. AreWorths(c, T) /\ AreAmounts(c, T) /\ Cash(p) = SumOf(c, T)
    BY <1>1, <2>1, <2>5, CashByAsset
  <2>7. AreWorths(c, C) /\ AreAmounts(c, C) /\ AreWorths(c, V) /\ AreAmounts(c, V)
    BY <2>2, <2>3, <2>6 DEF AreWorths, AreAmounts
  <2>8. SumOf(c, T) = Plus(SumOf(c, C), SumOf(c, V))
    BY <2>2, <2>6, SumOfParts
  <2>9. ASSUME NEW a \in C PROVE r[a] \in Worths /\ Same(r[a], c[a])
    <3>1. /\ RealizedPnl(p, a) \in Worths
          /\ Same(RealizedPnl(p, a), CashOf(LedgerOf(p, a)))
      BY <1>1, <2>1, ClosedProfit
    <3> QED
      BY <2>2, <2>4, <2>5, <3>1
  <2>10. ASSUME NEW a \in V
         PROVE  u[a] \in Worths /\ v[a] \in Worths /\ Same(u[a], Plus(c[a], v[a]))
    <3>1. /\ UnrealizedPnl(p, a) \in Worths /\ PositionValue(p, a) \in Worths
          /\ Same(UnrealizedPnl(p, a), Plus(CashOf(LedgerOf(p, a)), PositionValue(p, a)))
      <4>1. a \in Assets /\ IsOpen(p, a)
        BY <2>1 DEF Valued
      <4> QED
        BY <1>1, <2>1, <4>1, OpenProfit
    <3> QED
      BY <2>2, <2>4, <2>5, <3>1
  <2>11. AreWorths(r, C) /\ AreWorths(u, V) /\ AreWorths(v, V)
    BY <2>3, <2>9, <2>10 DEF AreWorths
  <2>12. /\ AreAmounts(r, C) /\ SumOf(r, C) \in Worths /\ SumOf(c, C) \in Worths
         /\ Same(SumOf(r, C), SumOf(c, C))
    BY <2>7, <2>9, <2>11, SumsSame
  <2>13. PICK h : h = [a \in V |-> Plus(c[a], v[a])]
    OBVIOUS
  <2>14. AreAmounts(v, V)
    BY <2>11, Parts DEF AreWorths, AreAmounts
  <2>15. SumOf(h, V) = Plus(SumOf(c, V), SumOf(v, V))
    <3>1. \A a \in V : h[a] = Plus(c[a], v[a])
      BY <2>13
    <3> QED
      BY <2>7, <2>14, <3>1, SumOfSums
  <2>16. AreWorths(h, V)
    <3>1. \A x, y \in Worths : Plus(x, y) \in Worths
      BY WorthsOf
    <3> QED
      BY <2>7, <2>11, <2>13, <3>1 DEF AreWorths
  <2>17. /\ AreAmounts(u, V) /\ SumOf(u, V) \in Worths /\ SumOf(h, V) \in Worths
         /\ Same(SumOf(u, V), SumOf(h, V))
    <3>1. \A a \in V : Same(u[a], h[a])
      BY <2>10, <2>13
    <3> QED
      BY <2>11, <2>16, <3>1, SumsSame
  <2>18. Same(Plus(SumOf(r, C), SumOf(u, V)), Plus(SumOf(c, C), SumOf(h, V)))
    BY <2>12, <2>17, SameSums
  <2>19. Plus(SumOf(c, C), SumOf(h, V)) = Plus(SumOf(c, T), SumOf(v, V))
    <3>1. SumOf(c, C) \in Amounts /\ SumOf(c, V) \in Amounts /\ SumOf(v, V) \in Amounts
      BY <2>7, <2>14, SumFirst
    <3> QED
      BY <2>8, <2>15, <3>1, PlusTwice
  <2>20. TotalPnl(p) = Plus(SumOf(r, C), SumOf(u, V))
    <3>1. AllRealized(p) = SumOf(r, C)
      BY <2>1, <2>4, <2>12, AllRealizedIs
    <3>2. AllUnrealized(p) = SumOf(u, V)
      BY <2>1, <2>4, <2>17, AllUnrealizedIs
    <3> QED
      BY <3>1, <3>2, TotalPnlIs
  <2>21. PortfolioValue(p) = SumOf(v, V)
    BY <2>1, <2>5, <2>14, PortfolioValueIs
  <2> QED
    BY <2>6, <2>18, <2>19, <2>20, <2>21
<1> QED
  BY <1>1, ReportsAlways, PTL

-----------------------------------------------------------------------------
(***************************************************************************)
(* The exits of a portfolio, and what they brought.                        *)
(***************************************************************************)
\* The outcomes of one ledger, in order or as a set.
LEMMA ExitsAdd ==
  ASSUME NEW o \in Seq(Worths), NEW a, NEW f, \A k \in DOMAIN o : f[<<a, k>>] = o[k]
  PROVE  /\ AreWorths(f, {a} \X DOMAIN o) /\ AreAmounts(f, {a} \X DOMAIN o)
         /\ SumOf(f, {a} \X DOMAIN o) = Sum(o)
<1>1. PICK n : n = Len(o)
  OBVIOUS
<1>2. /\ n \in Nat /\ DOMAIN o = 1 .. n
      /\ \A k \in 1 .. n : o[k] \in Worths /\ o[k] \in Amounts /\ f[<<a, k>>] = o[k]
  BY <1>1, Parts
<1>3. o \in Seq(Amounts)
  <2>1. Worths \subseteq Amounts
    BY Parts
  <2> QED
    BY <2>1
<1>4. PICK E : E = {a} \X (1 .. n)
  OBVIOUS
<1>5. IsFiniteSet(E)
  <2>1. PICK g : g = [k \in 1 .. n |-> <<a, k>>]
    OBVIOUS
  <2>2. g \in Surjection(1 .. n, E)
    BY <1>4, <2>1 DEF Surjection
  <2>3. IsFiniteSet(1 .. n)
    BY <1>2, FS_Interval
  <2> QED
    BY <2>2, <2>3, FS_Surjection
<1>6. \A x \in E : f[x] \in Worths /\ f[x] \in Amounts
  BY <1>2, <1>4
<1>7. AreWorths(f, E) /\ AreAmounts(f, E)
  BY <1>5, <1>6 DEF AreWorths, AreAmounts
<1>8. PICK sums : Totals(o, n, sums) /\ Sum(o) = sums[n]
  BY <1>1, <1>3, SumRuns
<1>9. PICK good : good = {k \in 0 .. n : SumOf(f, {a} \X (1 .. k)) = sums[k]}
  OBVIOUS
<1>10. 0 \in good
  <2>1. {a} \X (1 .. 0) = {}
    OBVIOUS
  <2>2. SumOf(f, {}) = Fraction(0)
    BY <1>7, SumFirst
  <2>3. sums[0] = Fraction(0) /\ 0 \in 0 .. n
    BY <1>2, <1>8 DEF Totals
  <2> QED
    BY <1>9, <2>1, <2>2, <2>3
<1>11. ASSUME NEW k \in 1 .. n, k - 1 \in good PROVE k \in good
  <2>1. PICK S, R, x : /\ S = {a} \X (1 .. k) /\ R = {a} \X (1 .. k - 1) /\ x = <<a, k>>
    OBVIOUS
  <2>2. S \subseteq E /\ R = S \ {x} /\ x \in S
    BY <1>2, <1>4, <2>1
  <2>3. AreAmounts(f, S) /\ AreAmounts(f, R)
    BY <1>7, <2>2, Summands
  <2>4. SumOf(f, S) = Plus(f[x], SumOf(f, R))
    BY <2>2, <2>3, SumUnfolds
  <2>5. SumOf(f, R) = sums[k - 1] /\ SumOf(f, R) \in Amounts
    BY <1>9, <1>11, <2>1, <2>3, SumFirst
  <2>6. f[x] = o[k] /\ o[k] \in Amounts
    BY <1>2, <2>1
  <2>7. sums[k] = Plus(sums[k - 1], o[k])
    BY <1>8 DEF Totals
  <2>8. Plus(o[k], sums[k - 1]) = Plus(sums[k - 1], o[k])
    BY <2>5, <2>6, PlusIs
  <2>9. SumOf(f, S) = sums[k] /\ k \in 0 .. n
    BY <2>4, <2>5, <2>6, <2>7, <2>8
  <2> QED
    BY <1>9, <2>1, <2>9
<1>12. n \in good
  BY <1>2, <1>10, <1>11, UpTo
<1> QED
  BY <1>2, <1>4, <1>7, <1>8, <1>9, <1>12

ExitsOf(p, a) == {a} \X DOMAIN Walk(LedgerOf(p, a)).outcomes

\* What all exits brought is what the exits of the ledgers brought.
LEMMA ExitsByAsset ==
  ASSUME ReportsInv, NEW p \in Portfolios,
         NEW f, f = [x \in Exits(p) |-> Outcome(p, x)],
         NEW r, r = [a \in Traded(p) |-> RealizedPnl(p, a)]
  PROVE  /\ AreWorths(f, Exits(p)) /\ AreAmounts(f, Exits(p)) /\ AreAmounts(r, Traded(p))
         /\ SumOf(f, Exits(p)) = SumOf(r, Traded(p))
<1>1. PICK T, X : T = Traded(p) /\ X = Exits(p)
  OBVIOUS
<1>2. IsFiniteSet(T) /\ T \subseteq Assets
  BY <1>1, TradedFinite
<1> DEFINE Of(s) == {x \in X : x[1] \in s}
<1>3. X = UNION {ExitsOf(p, a) : a \in T}
  BY <1>1 DEF Exits, ExitsOf
<1>4. ASSUME NEW a \in T
      PROVE  /\ ExitsOf(p, a) = Of({a})
             /\ AreWorths(f, ExitsOf(p, a)) /\ AreAmounts(f, ExitsOf(p, a))
             /\ r[a] = SumOf(f, ExitsOf(p, a))
  <2>1. PICK L, o : L = LedgerOf(p, a) /\ o = Walk(L).outcomes
    OBVIOUS
  <2>2. Accepted(L)
    BY <1>2, <2>1 DEF ReportsInv
  <2>3. o \in Seq(Worths)
    BY <2>1, <2>2, LedgerCash DEF ComesOut
  <2>4. ExitsOf(p, a) = {a} \X DOMAIN o
    BY <2>1 DEF ExitsOf
  <2>5. ExitsOf(p, a) \subseteq X
    BY <1>3
  <2>6. \A k \in DOMAIN o : f[<<a, k>>] = o[k]
    <3> SUFFICES ASSUME NEW k \in DOMAIN o PROVE f[<<a, k>>] = o[k]
      OBVIOUS
    <3>1. <<a, k>> \in X
      BY <2>4, <2>5
    <3> QED
      BY <1>1, <2>1, <3>1 DEF Outcome
  <2>7. /\ AreWorths(f, {a} \X DOMAIN o) /\ AreAmounts(f, {a} \X DOMAIN o)
        /\ SumOf(f, {a} \X DOMAIN o) = Sum(o)
    BY <2>3, <2>6, ExitsAdd
  <2>8. r[a] = Sum(o)
    BY <1>1, <2>1 DEF RealizedPnl
  <2>9. ExitsOf(p, a) = Of({a})
    <3>1. \A b \in T : \A x \in ExitsOf(p, b) : x[1] = b
      BY DEF ExitsOf
    <3> QED
      BY <1>3, <2>5, <3>1
  <2> QED
    BY <2>4, <2>7, <2>8, <2>9
<1>5. ASSUME NEW s \in SUBSET T, NEW y \in s
      PROVE  Of(s \ {y}) = Of(s) \ ExitsOf(p, y) /\ ExitsOf(p, y) \subseteq Of(s)
  BY <1>4
<1> DEFINE Good(s) == /\ AreWorths(f, Of(s)) /\ AreAmounts(f, Of(s)) /\ AreAmounts(r, s)
                      /\ SumOf(f, Of(s)) = SumOf(r, s)
           bad == {s \in SUBSET T : ~ Good(s)}
<1>6. bad = {}
  <2> SUFFICES ASSUME bad # {} PROVE FALSE
    OBVIOUS
  <2>1. PICK s \in bad : \A z \in bad : z \subseteq s => z = s
    <3>1. bad \subseteq SUBSET T
      OBVIOUS
    <3> HIDE DEF bad
    <3> QED
      BY <1>2, <3>1, LeastSubset
  <2>2. s \in SUBSET T /\ ~ Good(s)
    OBVIOUS
  <2>3. s # {}
    <3> SUFFICES ASSUME s = {} PROVE FALSE
      OBVIOUS
    <3>1. Of(s) = {}
      OBVIOUS
    <3>2. AreWorths(f, {}) /\ AreAmounts(f, {}) /\ AreAmounts(r, {})
      BY FS_EmptySet DEF AreWorths, AreAmounts
    <3>3. SumOf(f, {}) = Fraction(0) /\ SumOf(r, {}) = Fraction(0)
      BY <3>2, SumFirst
    <3> QED
      BY <2>2, <3>1, <3>2, <3>3
  <2>4. PICK y \in s : TRUE
    BY <2>3
  <2>5. Good(s \ {y})
    <3>1. s \ {y} \in SUBSET T /\ s \ {y} # s
      BY <2>2, <2>4
    <3>2. s \ {y} \notin bad
      <4> HIDE DEF bad
      <4> QED
        BY <2>1, <3>1
    <3> HIDE DEF Good
    <3> QED
      BY <3>1, <3>2
  <2>6. PICK M, E, R : M = Of(s) /\ E = ExitsOf(p, y) /\ R = Of(s \ {y})
    OBVIOUS
  <2>7. R = M \ E /\ E \subseteq M
    BY <1>5, <2>2, <2>4, <2>6
  <2>8. AreWorths(f, E) /\ AreAmounts(f, E) /\ r[y] = SumOf(f, E)
    BY <1>4, <2>2, <2>4, <2>6
  <2>9. AreWorths(f, R) /\ SumOf(f, R) = SumOf(r, s \ {y}) /\ AreAmounts(r, s \ {y})
    BY <2>5, <2>6
  <2>10. AreWorths(f, M) /\ AreAmounts(f, M)
    <3>1. M = E \cup R
      BY <2>7
    <3>2. IsFiniteSet(M)
      BY <2>8, <2>9, <3>1, FS_Union DEF AreWorths
    <3>3. \A x \in M : f[x] \in Worths
      BY <2>8, <2>9, <3>1 DEF AreWorths
    <3> QED
      BY <3>2, <3>3, Parts DEF AreWorths, AreAmounts
  <2>11. AreAmounts(r, s)
    <3>1. SumOf(f, E) \in Amounts /\ r[y] = SumOf(f, E)
      BY <2>8, SumFirst
    <3>2. IsFiniteSet(s)
      BY <1>2, <2>2, FS_Subset
    <3>3. \A z \in s : z # y => r[z] \in Amounts
      BY <2>9 DEF AreAmounts
    <3> QED
      BY <3>1, <3>2, <3>3 DEF AreAmounts
  <2>12. SumOf(f, M) = Plus(SumOf(f, E), SumOf(f, M \ E))
    BY <2>7, <2>10, SumOfParts
  <2>13. SumOf(r, s) = Plus(r[y], SumOf(r, s \ {y}))
    BY <2>4, <2>11, SumUnfolds
  <2>14. SumOf(f, M) = SumOf(r, s)
    BY <2>7, <2>8, <2>9, <2>12, <2>13
  <2> QED
    BY <2>2, <2>6, <2>10, <2>11, <2>14
<1>7. Good(T)
  BY <1>6
<1>8. Of(T) = X
  <2>1. \A b \in T : \A x \in ExitsOf(p, b) : x[1] = b
    BY DEF ExitsOf
  <2> QED
    BY <1>3, <2>1
<1> QED
  BY <1>1, <1>7, <1>8

\* What is held of an asset at its cost: no loss when LONG and no gain when SHORT.
HeldCost(p, a) ==
  IF Position(p, a).position_type = "LONG"
  THEN Position(p, a).total_cost ELSE Times(-1, Position(p, a).total_cost)

OpenIn(p) == {a \in Assets : IsOpen(p, a)}

AllHeld(p) == Total(LAMBDA a : HeldCost(p, a), OpenIn(p))

LEMMA ProfitTakenIs ==
  ASSUME NEW p
  PROVE  ProfitTaken(p) = Plus(Cash(p), AllHeld(p))
  BY DEF ProfitTaken, AllHeld, HeldCost, OpenIn, Total, FoldSet, MapThenFoldSet

LEMMA AllHeldIs ==
  ASSUME NEW p, NEW f, f = [a \in OpenIn(p) |-> HeldCost(p, a)], AreAmounts(f, OpenIn(p))
  PROVE  AllHeld(p) = SumOf(f, OpenIn(p))
<1>1. PICK S : S = OpenIn(p)
  OBVIOUS
<1> DEFINE Eq(it) == it = [s \in SUBSET S |->
             IF s = {} THEN Fraction(0) ELSE Plus(HeldCost(p, OneOf(s)), it[s \ {OneOf(s)}])]
<1>2. AllHeld(p) = (CHOOSE it : Eq(it))[S]
  BY <1>1 DEF AllHeld, Total, FoldSet, MapThenFoldSet, OneOf
<1>3. \A s \in SUBSET S : s # {} => f[OneOf(s)] = HeldCost(p, OneOf(s))
  BY <1>1 DEF OneOf
<1>4. \A it : Eq(it) <=> Adds(f, S, it)
  BY <1>3 DEF Adds
<1>5. PICK it : Eq(it) /\ AllHeld(p) = it[S]
  <2>1. \E it : Adds(f, S, it)
    BY <1>1, AddsSome
  <2> HIDE DEF Eq
  <2> QED
    BY <1>2, <1>4, <2>1
<1>6. Adds(f, S, it) /\ AreAmounts(f, S)
  BY <1>1, <1>4, <1>5
<1> HIDE DEF Eq
<1>7. it[S] = SumOf(f, S)
  BY <1>6, SumIs
<1> QED
  BY <1>1, <1>5, <1>7

Kept(p, a) == IF IsOpen(p, a) THEN HeldCost(p, a) ELSE Fraction(0)

LEMMA TimesOne ==
  ASSUME NEW x \in Worths
  PROVE  Times(1, x) = x
<1>1. x = <<x[1], x[2]>> /\ x[1] \in Int
  BY Parts
<1> QED
  BY <1>1 DEF Times

\* The exits of one ledger: its cash, and what is kept at its cost.
LEMMA LedgerExits ==
  ASSUME ReportsInv, NEW p \in Portfolios, NEW a \in Traded(p)
  PROVE  /\ RealizedPnl(p, a) \in Worths /\ Kept(p, a) \in Worths
         /\ CashOf(LedgerOf(p, a)) \in Worths
         /\ Same(RealizedPnl(p, a), Plus(CashOf(LedgerOf(p, a)), Kept(p, a)))
<1>1. PICK L, w, book : L = LedgerOf(p, a) /\ w = Walk(L) /\ book = Position(p, a)
  OBVIOUS
<1>2. a \in Assets /\ Accepted(L) /\ book = Replay(L)
  BY <1>1, TradedFinite DEF ReportsInv, Position
<1>3. InLine(book, w) /\ IsPosition(book) /\ (IsOpen(p, a) <=> w.quantity # 0)
  BY <1>1, <1>2, PositionIs
<1>4. PICK c : c = CashOf(L)
  OBVIOUS
<1>5. c \in Worths /\ ComesOut(book, w, c)
  BY <1>1, <1>2, <1>4, LedgerCash
<1>6. PICK s, k, m : s = Sign(book) /\ k = w.cost /\ m = book.total_cost
  OBVIOUS
<1>7. /\ s \in Int /\ k \in Worths /\ m \in Worths /\ Same(m, k)
      /\ s = IF book.position_type = "LONG" THEN 1 ELSE -1
  BY <1>3, <1>6 DEF InLine, Walked, Sign, PositionTypes
<1>8. RealizedPnl(p, a) \in Worths /\ Same(RealizedPnl(p, a), Plus(c, Times(s, k)))
  BY <1>1, <1>5, <1>6 DEF ComesOut, RealizedPnl
<1>9. Times(s, k) \in Worths /\ Times(s, m) \in Worths
  BY <1>7, WorthsOf
<1>10. Kept(p, a) \in Worths /\ Same(Times(s, k), Kept(p, a))
  <2>1. CASE IsOpen(p, a)
    <3>1. Kept(p, a) = Times(s, m)
      BY <1>1, <1>6, <1>7, <2>1, TimesOne DEF Kept, HeldCost
    <3>2. Same(k, m)
      BY <1>7, SameIs
    <3> QED
      BY <1>7, <1>9, <3>1, <3>2, SameTimes
  <2>2. CASE ~ IsOpen(p, a)
    <3>1. k = Fraction(0)
      BY <1>3, <1>6, <2>2 DEF InLine, Walked
    <3>2. Times(1, Fraction(0)) = Fraction(0) /\ Times(-1, Fraction(0)) = Fraction(0)
      BY DEF Times, Fraction
    <3>3. Kept(p, a) = Fraction(0) /\ Times(s, k) = Fraction(0)
      BY <1>7, <2>2, <3>1, <3>2 DEF Kept
    <3> QED
      BY <3>3, ZeroIs DEF Same
  <2> QED
    BY <2>1, <2>2
<1>11. Same(Plus(c, Times(s, k)), Plus(c, Kept(p, a)))
  <2>1. Same(c, c)
    BY DEF Same
  <2> QED
    BY <1>5, <1>9, <1>10, <2>1, SameSums
<1>12. Plus(c, Times(s, k)) \in Worths /\ Plus(c, Kept(p, a)) \in Worths
  <2>1. \A x, y \in Worths : Plus(x, y) \in Worths
    BY WorthsOf
  <2> QED
    BY <1>5, <1>9, <1>10, <2>1
<1> QED
  BY <1>1, <1>4, <1>5, <1>8, <1>10, <1>11, <1>12, SameIs

\* What all exits brought is the profit taken, told by the cash.
LEMMA ExitsTakeProfit ==
  ASSUME ReportsInv, NEW p \in Portfolios, NEW f, f = [x \in Exits(p) |-> Outcome(p, x)]
  PROVE  /\ AreWorths(f, Exits(p)) /\ AreAmounts(f, Exits(p))
         /\ SumOf(f, Exits(p)) \in Worths /\ ProfitTaken(p) \in Worths
         /\ Same(SumOf(f, Exits(p)), ProfitTaken(p))
<1>1. PICK T, O : T = Traded(p) /\ O = OpenIn(p)
  OBVIOUS
<1>2. PICK r, c, k, h : /\ r = [a \in T |-> RealizedPnl(p, a)]
                        /\ c = [a \in T |-> CashOf(LedgerOf(p, a))]
                        /\ k = [a \in T |-> Kept(p, a)]
                        /\ h = [a \in O |-> HeldCost(p, a)]
  OBVIOUS
<1>3. IsFiniteSet(T) /\ T \subseteq Assets /\ O \subseteq T /\ IsFiniteSet(O)
  <2>1. IsFiniteSet(T) /\ T \subseteq Assets
    BY <1>1, TradedFinite
  <2>2. O \subseteq T
    BY <1>1, PositionIs DEF OpenIn
  <2> QED
    BY <2>1, <2>2, FS_Subset
<1>4. /\ AreWorths(f, Exits(p)) /\ AreAmounts(f, Exits(p)) /\ SumOf(f, Exits(p)) = SumOf(r, T)
  BY <1>1, <1>2, ExitsByAsset
<1>5. ASSUME NEW a \in T
      PROVE  /\ r[a] \in Worths /\ k[a] \in Worths /\ c[a] \in Worths
             /\ Same(r[a], Plus(c[a], k[a]))
  BY <1>1, <1>2, LedgerExits
<1>6. AreWorths(r, T) /\ AreWorths(c, T) /\ AreWorths(k, T) /\ AreAmounts(c, T) /\ AreAmounts(k, T)
  BY <1>3, <1>5, Parts DEF AreWorths, AreAmounts
<1>7. PICK g : g = [a \in T |-> Plus(c[a], k[a])]
  OBVIOUS
<1>8. AreWorths(g, T)
  <2>1. \A x, y \in Worths : Plus(x, y) \in Worths
    BY WorthsOf
  <2> QED
    BY <1>3, <1>5, <1>7, <2>1 DEF AreWorths
<1>9. SumOf(r, T) \in Worths /\ SumOf(g, T) \in Worths /\ Same(SumOf(r, T), SumOf(g, T))
  <2>1. \A a \in T : Same(r[a], g[a])
    BY <1>5, <1>7
  <2> QED
    BY <1>6, <1>8, <2>1, SumsSame
<1>10. SumOf(g, T) = Plus(SumOf(c, T), SumOf(k, T))
  <2>1. \A a \in T : g[a] = Plus(c[a], k[a])
    BY <1>7
  <2> QED
    BY <1>6, <2>1, SumOfSums
<1>11. \A a \in T : k[a] = IF a \in O THEN h[a] ELSE Fraction(0)
  <2>1. \A a \in T : a \in O <=> IsOpen(p, a)
    BY <1>1, <1>3 DEF OpenIn
  <2> QED
    BY <1>2, <2>1 DEF Kept
<1>12. AreAmounts(h, O)
  BY <1>3, <1>6, <1>11 DEF AreAmounts
<1>13. SumOf(k, T) = SumOf(h, O)
  <2>1. (\A a \in O : k[a] = h[a]) /\ \A a \in T \ O : k[a] = Fraction(0)
    BY <1>3, <1>11
  <2> QED
    BY <1>3, <1>6, <1>12, <2>1, SumsAgree
<1>14. Cash(p) = SumOf(c, T)
  BY <1>1, <1>2, CashByAsset
<1>15. ProfitTaken(p) = Plus(SumOf(c, T), SumOf(k, T))
  <2>1. AllHeld(p) = SumOf(h, O)
    BY <1>1, <1>2, <1>12, AllHeldIs
  <2> QED
    BY <1>13, <1>14, <2>1, ProfitTakenIs
<1> QED
  BY <1>4, <1>9, <1>10, <1>15

-----------------------------------------------------------------------------
(***************************************************************************)
(* The stake.                                                              *)
(***************************************************************************)
\* Amounts of one sign add up to that sign.
LEMMA SumHasSign ==
  ASSUME NEW f, NEW S, AreWorths(f, S), S # {}, NEW k \in {1, -1},
         \A x \in S : k * f[x][1] > 0
  PROVE  SumOf(f, S) \in Worths /\ k * SumOf(f, S)[1] > 0
<1>1. IsFiniteSet(S) /\ AreAmounts(f, S)
  BY Parts DEF AreWorths, AreAmounts
<1> DEFINE Good(s) == SumOf(f, s) \in Worths /\ k * SumOf(f, s)[1] > 0
           bad == {s \in SUBSET S : s # {} /\ ~ Good(s)}
<1>2. bad = {}
  <2> SUFFICES ASSUME bad # {} PROVE FALSE
    OBVIOUS
  <2>1. PICK s \in bad : \A z \in bad : z \subseteq s => z = s
    <3>1. bad \subseteq SUBSET S
      OBVIOUS
    <3> HIDE DEF bad
    <3> QED
      BY <1>1, <3>1, LeastSubset
  <2>2. s \in SUBSET S /\ s # {} /\ ~ Good(s)
    OBVIOUS
  <2>3. PICK y \in s : TRUE
    BY <2>2
  <2>4. PICK r : r = s \ {y}
    OBVIOUS
  <2>5. r \in SUBSET S /\ r # s /\ r \subseteq s
    BY <2>2, <2>3, <2>4
  <2>6. r # {} => Good(r)
    <3>1. r \notin bad
      <4> HIDE DEF bad
      <4> QED
        BY <2>1, <2>5
    <3> HIDE DEF Good
    <3> QED
      BY <2>5, <3>1
  <2>7. AreAmounts(f, s) /\ AreAmounts(f, r)
    BY <1>1, <2>2, <2>5, Summands
  <2>8. SumOf(f, s) = Plus(f[y], SumOf(f, r))
    BY <2>3, <2>4, <2>7, SumUnfolds
  <2>9. f[y] \in Worths /\ k * f[y][1] > 0
    BY <2>2, <2>3 DEF AreWorths
  <2>10. CASE r = {}
    <3>1. SumOf(f, r) = Fraction(0)
      BY <2>7, <2>10, SumFirst
    <3>2. SumOf(f, s) = f[y]
      BY <2>8, <2>9, <3>1, PlusNothing
    <3> QED
      BY <2>2, <2>9, <3>2
  <2>11. CASE r # {}
    <3>1. PICK v : v = SumOf(f, r)
      OBVIOUS
    <3>2. v \in Worths /\ k * v[1] > 0
      BY <2>6, <2>11, <3>1
    <3>3. Plus(f[y], v) \in Worths
      <4>1. \A x, z \in Worths : Plus(x, z) \in Worths
        BY WorthsOf
      <4> QED
        BY <2>9, <3>2, <4>1
    <3>4. PICK a, b, c, d : a = f[y][1] /\ b = f[y][2] /\ c = v[1] /\ d = v[2]
      OBVIOUS
    <3>5. a \in Int /\ b \in Nat \ {0} /\ c \in Int /\ d \in Nat \ {0} /\ k * a > 0 /\ k * c > 0
      BY <2>9, <3>2, <3>4, Parts
    <3>6. k * (a * d + c * b) > 0
      <4>1. PICK i, j : i = k * a /\ j = k * c
        OBVIOUS
      <4>2. i \in Int /\ j \in Int /\ i > 0 /\ j > 0
        BY <3>5, <4>1
      <4>3. i * d > 0 /\ j * b > 0
        BY <3>5, <4>2
      <4>4. k * (a * d + c * b) = i * d + j * b
        BY <3>5, <4>1
      <4>5. i * d \in Int /\ j * b \in Int
        BY <3>5, <4>2
      <4> QED
        BY <4>3, <4>4, <4>5
    <3> QED
      BY <2>2, <2>8, <3>1, <3>3, <3>4, <3>6 DEF Plus
  <2> QED
    BY <2>10, <2>11
<1>3. Good(S)
  BY <1>2
<1> QED
  BY <1>3

\* What brought nothing adds nothing.
LEMMA SumOfEven ==
  ASSUME NEW f, NEW S, AreWorths(f, S), \A x \in S : f[x][1] = 0
  PROVE  SumOf(f, S) \in Worths /\ Same(SumOf(f, S), Fraction(0))
<1>1. PICK z : z = [x \in S |-> Fraction(0)]
  OBVIOUS
<1>2. AreWorths(z, S) /\ AreAmounts(z, S) /\ \A x \in S : Same(f[x], z[x])
  <2>1. \A x \in S : Same(f[x], Fraction(0))
    BY Parts DEF AreWorths, Same, Fraction
  <2> QED
    BY <1>1, <2>1, ZeroIs DEF AreWorths, AreAmounts
<1>3. SumOf(f, S) \in Worths /\ Same(SumOf(f, S), SumOf(z, S))
  BY <1>2, SumsSame
<1>4. SumOf(z, S) = SumOf(z, {})
  <2>1. AreAmounts(z, {})
    BY FS_EmptySet DEF AreAmounts
  <2>2. \A x \in S \ {} : z[x] = Fraction(0)
    BY <1>1
  <2> QED
    BY <1>2, <2>1, <2>2, SumsAgree
<1>5. SumOf(z, {}) = Fraction(0)
  BY <1>2, SumFirst
<1> QED
  BY <1>3, <1>4, <1>5

\* The wins and the losses bring what all exits bring.
LEMMA WinsAndLosses ==
  ASSUME ReportsInv, NEW p \in Portfolios, NEW f, f = [x \in Exits(p) |-> Outcome(p, x)],
         NEW W, W = Wins(p), NEW L, L = Losses(p), NEW X, X = Exits(p), W # {}, L # {}
  PROVE  /\ AreWorths(f, X) /\ AreWorths(f, W) /\ AreWorths(f, L)
         /\ SumOf(f, W) \in Worths /\ SumOf(f, W)[1] > 0
         /\ SumOf(f, L) \in Worths /\ SumOf(f, L)[1] < 0
         /\ Same(ProfitTaken(p), Plus(SumOf(f, W), SumOf(f, L))) /\ ProfitTaken(p) \in Worths
<1>1. /\ AreWorths(f, X) /\ AreAmounts(f, X) /\ SumOf(f, X) \in Worths
      /\ ProfitTaken(p) \in Worths /\ Same(SumOf(f, X), ProfitTaken(p))
  BY ExitsTakeProfit
<1>2. /\ W \subseteq X /\ \A x \in W : f[x][1] > 0
      /\ L \subseteq X /\ \A x \in L : f[x][1] < 0
      /\ \A x \in X : x \notin W /\ x \notin L => ~ (f[x][1] > 0) /\ ~ (f[x][1] < 0)
  BY DEF Wins, Losses
<1>3. PICK R, E : R = X \ W /\ E = R \ L
  OBVIOUS
<1>4. L \subseteq R /\ E \subseteq X /\ R \subseteq X
  <2>1. \A x \in X : f[x][1] \in Int
    BY <1>1, Parts DEF AreWorths
  <2>2. \A x \in L : x \notin W
    BY <1>2, <2>1
  <2> QED
    BY <1>2, <1>3, <2>2
<1>5. AreWorths(f, W) /\ AreWorths(f, L) /\ AreWorths(f, E) /\ AreAmounts(f, R)
  BY <1>1, <1>2, <1>4, FS_Subset DEF AreWorths, AreAmounts
<1>6. SumOf(f, W) \in Worths /\ SumOf(f, W)[1] > 0
  <2>1. \A x \in W : 1 * f[x][1] > 0
    BY <1>2, <1>5, Parts DEF AreWorths
  <2>2. SumOf(f, W) \in Worths /\ 1 * SumOf(f, W)[1] > 0
    BY <1>5, <2>1, SumHasSign
  <2> QED
    BY <2>2, Parts
<1>7. SumOf(f, L) \in Worths /\ SumOf(f, L)[1] < 0
  <2>1. \A x \in L : (-1) * f[x][1] > 0
    BY <1>2, <1>5, Parts DEF AreWorths
  <2>2. SumOf(f, L) \in Worths /\ (-1) * SumOf(f, L)[1] > 0
    BY <1>5, <2>1, SumHasSign
  <2> QED
    BY <2>2, Parts
<1>8. SumOf(f, E) \in Worths /\ Same(SumOf(f, E), Fraction(0))
  <2>1. \A x \in E : f[x][1] = 0
    <3> SUFFICES ASSUME NEW x \in E PROVE f[x][1] = 0
      OBVIOUS
    <3>1. f[x][1] \in Int /\ ~ (f[x][1] > 0) /\ ~ (f[x][1] < 0)
      BY <1>2, <1>3, <1>4, <1>5, Parts DEF AreWorths
    <3> QED
      BY <3>1
  <2> QED
    BY <1>5, <2>1, SumOfEven
<1>9. PICK u, v, e : u = SumOf(f, W) /\ v = SumOf(f, L) /\ e = SumOf(f, E)
  OBVIOUS
<1>10. SumOf(f, X) = Plus(u, Plus(v, e))
  <2>1. SumOf(f, X) = Plus(SumOf(f, W), SumOf(f, R))
    BY <1>1, <1>2, <1>3, SumOfParts
  <2>2. SumOf(f, R) = Plus(SumOf(f, L), SumOf(f, E))
    BY <1>3, <1>4, <1>5, SumOfParts
  <2> QED
    BY <1>9, <2>1, <2>2
<1>11. Same(Plus(u, Plus(v, e)), Plus(u, v))
  <2>1. Same(u, u) /\ Same(v, v)
    BY DEF Same
  <2>2. Same(Plus(v, e), Plus(v, Fraction(0)))
    BY <1>7, <1>8, <1>9, <2>1, ZeroIs, SameSums
  <2>3. Plus(v, Fraction(0)) = v
    BY <1>7, <1>9, PlusNothing
  <2>4. Plus(v, e) \in Worths
    <3>1. \A x, y \in Worths : Plus(x, y) \in Worths
      BY WorthsOf
    <3> QED
      BY <1>7, <1>8, <1>9, <3>1
  <2> QED
    BY <1>6, <1>7, <1>9, <2>1, <2>2, <2>3, <2>4, SameSums
<1>12. Plus(u, v) \in Worths
  <2>1. \A x, y \in Worths : Plus(x, y) \in Worths
    BY WorthsOf
  <2> QED
    BY <1>6, <1>7, <1>9, <2>1
<1>13. Same(ProfitTaken(p), Plus(u, v))
  <2>1. Same(ProfitTaken(p), SumOf(f, X))
    BY <1>1, SameIs
  <2> QED
    BY <1>1, <1>10, <1>11, <1>12, <2>1, SameIs
<1> QED
  BY <1>1, <1>5, <1>6, <1>7, <1>9, <1>13

LEMMA MeanIs ==
  ASSUME NEW p, NEW S, NEW f, AreAmounts(f, S), \A x \in S : f[x] = Outcome(p, x)
  PROVE  Mean(p, S) = <<SumOf(f, S)[1] * 1, SumOf(f, S)[2] * Cardinality(S)>>
<1> DEFINE Eq(it) == it = [s \in SUBSET S |->
             IF s = {} THEN Fraction(0) ELSE Plus(Outcome(p, OneOf(s)), it[s \ {OneOf(s)}])]
<1>1. PICK sum : sum = (CHOOSE it : Eq(it))[S]
  OBVIOUS
<1>2. Mean(p, S) = <<sum[1] * 1, sum[2] * Cardinality(S)>>
  <2>1. Mean(p, S) = Over(sum, Fraction(Cardinality(S)))
    BY <1>1 DEF Mean, Total, FoldSet, MapThenFoldSet, OneOf
  <2> HIDE DEF Eq
  <2>2. Over(sum, Fraction(Cardinality(S))) = <<sum[1] * 1, sum[2] * Cardinality(S)>>
    BY DEF Over, Fraction
  <2> QED
    BY <2>1, <2>2
<1>3. \A s \in SUBSET S : s # {} => f[OneOf(s)] = Outcome(p, OneOf(s))
  BY DEF OneOf
<1>4. \A it : Eq(it) <=> Adds(f, S, it)
  BY <1>3 DEF Adds
<1> HIDE DEF Eq
<1>5. PICK it : Eq(it) /\ sum = it[S]
  <2>1. \E it : Adds(f, S, it)
    BY AddsSome
  <2> QED
    BY <1>1, <1>4, <2>1
<1>6. it[S] = SumOf(f, S)
  BY <1>4, <1>5, SumIs
<1> QED
  BY <1>2, <1>5, <1>6

\* The arithmetic of the stake.  Of n exits w won a / b in all and l lost c / d in all.
LEMMA StakeSign ==
  ASSUME NEW w \in Nat \ {0}, NEW l \in Nat \ {0}, NEW e \in Nat, e >= l,
         NEW a \in Nat \ {0}, NEW b \in Nat \ {0}, NEW c \in Nat \ {0}, NEW d \in Nat \ {0}
  PROVE  /\ w * (a * (d * l)) > e * ((b * w) * c) => a * d > c * b
         /\ e = l /\ a * d > c * b => w * (a * (d * l)) > e * ((b * w) * c)
<1>1. PICK x, y : x = a * d /\ y = c * b
  OBVIOUS
<1>2. x \in Int /\ y \in Int /\ y > 0
  BY <1>1
<1>3. w * (a * (d * l)) = w * (l * x) /\ e * ((b * w) * c) = w * (e * y)
  BY <1>1
<1>4. l * x \in Int /\ e * y \in Int /\ l * y \in Int
  BY <1>2
<1>5. w * (e * y) < w * (l * x) <=> e * y < l * x
  BY <1>4, Cancel
<1>6. l * y <= e * y
  <2>1. PICK i \in Nat : e = l + i
    <3>1. e - l \in Nat /\ e = l + (e - l)
      OBVIOUS
    <3> QED
      BY <3>1
  <2>2. e * y = l * y + i * y /\ i * y >= 0
    BY <1>2, <2>1
  <2>3. i * y \in Int
    BY <1>2
  <2> QED
    BY <1>4, <2>2, <2>3
<1>7. l * y < l * x <=> y < x
  BY <1>2, Cancel
<1>8. e * y < l * x => y < x
  BY <1>4, <1>6, <1>7
<1>9. e = l /\ y < x => e * y < l * x
  BY <1>7
<1> QED
  BY <1>1, <1>2, <1>3, <1>4, <1>5, <1>8, <1>9

LEMMA StakeIs ==
  ASSUME NEW inputs, NEW w \in Nat \ {0}, NEW n \in Nat \ {0}, NEW e \in Nat, e = n - w,
         NEW a \in Nat \ {0}, NEW b \in Nat \ {0}, NEW c \in Nat \ {0}, NEW d \in Nat \ {0},
         inputs.rate = <<w, n>>, inputs.win = <<a, b>>, inputs.loss = <<c, d>>
  PROVE  /\ KellyFraction(inputs)[1] > 0 <=> w * (a * d) > e * (b * c)
         /\ AtMost(KellyFraction(inputs), Fraction(1))
<1>1. PICK x, y : x = a * d /\ y = b * c
  OBVIOUS
<1>2. x \in Nat \ {0} /\ y \in Nat \ {0}
  BY <1>1
<1>3. PICK m, k : m = (w * x) * (1 * n) - (1 * n - w * 1) * (n * y) /\ k = (n * y) * (1 * n)
  OBVIOUS
<1>4. KellyFraction(inputs) = <<m * y, x * k>>
  BY <1>1, <1>3 DEF KellyFraction, Over, Product, Minus, Fraction
<1>5. PICK g : g = w * x - e * y
  OBVIOUS
<1>6. g \in Int /\ m \in Int /\ k \in Int
  BY <1>2, <1>3, <1>5
<1>7. m = n * g
  BY <1>2, <1>3, <1>5
<1>8. m * y > 0 <=> g > 0
  <2>1. PICK z : z = n * y
    OBVIOUS
  <2>2. z \in Nat \ {0} /\ m * y = z * g
    BY <1>2, <1>6, <1>7, <2>1
  <2>3. z * 0 < z * g <=> 0 < g
    BY <1>6, <2>2, Cancel
  <2>4. z * 0 = 0 /\ z * g \in Int
    BY <1>6, <2>2
  <2> QED
    BY <1>6, <2>2, <2>3, <2>4
<1>9. m * y <= x * k
  <2>1. PICK z : z = n * y
    OBVIOUS
  <2>2. z \in Nat \ {0} /\ m * y = z * g /\ x * k = z * (n * x)
    BY <1>2, <1>3, <1>6, <1>7, <2>1
  <2>3. g <= n * x
    <3>1. e * y >= 0 /\ e * x >= 0 /\ n * x = w * x + e * x
      BY <1>2
    <3>2. e * y \in Int /\ e * x \in Int /\ w * x \in Int /\ n * x \in Int
      BY <1>2
    <3> QED
      BY <1>5, <3>1, <3>2
  <2>4. z * g <= z * (n * x)
    <3>1. n * x \in Int
      BY <1>2
    <3> QED
      BY <1>6, <2>2, <2>3, <3>1, Cancel
  <2> QED
    BY <2>2, <2>4
<1>10. m * y \in Int /\ x * k \in Int /\ w * x \in Int /\ e * y \in Int
  BY <1>2, <1>6
<1>11. AtMost(KellyFraction(inputs), Fraction(1))
  BY <1>4, <1>9, <1>10 DEF AtMost, Fraction
<1>12. g > 0 <=> w * x > e * y
  BY <1>5, <1>10
<1> QED
  BY <1>1, <1>4, <1>8, <1>11, <1>12

\* The stake follows Kelly: it is at most everything, there is one only for a portfolio whose
\* exits made a profit, and there is one for every such portfolio that both won and lost,
\* unless some exit broke even, which counts as a loss (position_sizing.py:38).
THEOREM KellyAlwaysFollowsProfit == Spec => []KellyFollowsProfit
<1>1. ASSUME ReportsInv PROVE KellyFollowsProfit
  <2> SUFFICES ASSUME NEW p \in Portfolios, KellyInputs(p).known
               PROVE  /\ AtMost(KellyFraction(KellyInputs(p)), Fraction(1))
                      /\ KellyFraction(KellyInputs(p))[1] > 0 => ProfitTaken(p)[1] > 0
                      /\ ProfitTaken(p)[1] > 0 =>
                           \/ KellyFraction(KellyInputs(p))[1] > 0
                           \/ \E x \in Exits(p) : Outcome(p, x)[1] = 0
    BY DEF KellyFollowsProfit
  <2>1. PICK W, L, X : W = Wins(p) /\ L = Losses(p) /\ X = Exits(p)
    OBVIOUS
  <2>2. PICK w, l, n : w = Cardinality(W) /\ l = Cardinality(L) /\ n = Cardinality(X)
    OBVIOUS
  <2>3. PICK inputs : inputs = KellyInputs(p)
    OBVIOUS
  <2>4. /\ W # {} /\ L # {}
        /\ inputs.rate = <<w, n>> /\ inputs.win = Mean(p, W)
        /\ inputs.loss = Times(-1, Mean(p, L))
    BY <2>1, <2>2, <2>3 DEF KellyInputs, NoKelly
  <2>5. PICK f : f = [x \in Exits(p) |-> Outcome(p, x)]
    OBVIOUS
  <2>6. /\ AreWorths(f, X) /\ AreWorths(f, W) /\ AreWorths(f, L)
        /\ SumOf(f, W) \in Worths /\ SumOf(f, W)[1] > 0
        /\ SumOf(f, L) \in Worths /\ SumOf(f, L)[1] < 0
        /\ Same(ProfitTaken(p), Plus(SumOf(f, W), SumOf(f, L))) /\ ProfitTaken(p) \in Worths
    BY <1>1, <2>1, <2>4, <2>5, WinsAndLosses
  <2>7. /\ W \subseteq X /\ L \subseteq X \ W
        /\ \A x \in X : x \notin W /\ x \notin L => Outcome(p, x)[1] = 0
    <3>1. \A x \in X : f[x] = Outcome(p, x) /\ f[x][1] \in Int
      BY <2>1, <2>5, <2>6, Parts DEF AreWorths
    <3> QED
      BY <2>1, <3>1 DEF Wins, Losses
  <2>8. PICK a, b, c, d : /\ a = SumOf(f, W)[1] /\ b = SumOf(f, W)[2]
                          /\ c = - SumOf(f, L)[1] /\ d = SumOf(f, L)[2]
    OBVIOUS
  <2>9. a \in Nat \ {0} /\ b \in Nat \ {0} /\ c \in Nat \ {0} /\ d \in Nat \ {0}
    BY <2>6, <2>8, Parts
  <2>10. PICK e : e = n - w
    OBVIOUS
  <2>11. /\ w \in Nat \ {0} /\ l \in Nat \ {0} /\ n \in Nat \ {0} /\ e \in Nat /\ e >= l
         /\ (X \ W = L) => e = l
    <3>1. IsFiniteSet(X) /\ IsFiniteSet(W) /\ IsFiniteSet(L) /\ IsFiniteSet(X \ W)
      BY <2>6, FS_Subset DEF AreWorths
    <3>2. w \in Nat \ {0} /\ l \in Nat \ {0} /\ n \in Nat
      BY <2>2, <2>4, <3>1, FS_CardinalityType, FS_EmptySet
    <3>3. Cardinality(X \ W) = e
      <4>1. Cardinality(X \ W) = Cardinality(X) - Cardinality(X \cap W)
        BY <3>1, FS_Difference
      <4>2. X \cap W = W
        BY <2>7
      <4> QED
        BY <2>2, <2>10, <4>1, <4>2
    <3>4. l <= e /\ e \in Nat
      <4>1. Cardinality(L) <= Cardinality(X \ W) /\ Cardinality(X \ W) \in Nat
        BY <2>7, <3>1, FS_Subset, FS_CardinalityType
      <4> QED
        BY <2>2, <3>3, <4>1
    <3>5. n = w + e
      BY <2>10, <3>2
    <3> QED
      BY <2>2, <3>2, <3>3, <3>4, <3>5
  <2>12. inputs.win = <<a, b * w>> /\ inputs.loss = <<c, d * l>>
    <3>1. \A x \in X : f[x] = Outcome(p, x)
      BY <2>1, <2>5
    <3>2. AreAmounts(f, W) /\ AreAmounts(f, L)
      BY <2>6, Parts DEF AreWorths, AreAmounts
    <3>3. Mean(p, W) = <<SumOf(f, W)[1] * 1, SumOf(f, W)[2] * w>>
      BY <2>2, <2>7, <3>1, <3>2, MeanIs
    <3>4. Mean(p, L) = <<SumOf(f, L)[1] * 1, SumOf(f, L)[2] * l>>
      BY <2>2, <2>7, <3>1, <3>2, MeanIs
    <3>5. PICK i : i = SumOf(f, L)[1]
      OBVIOUS
    <3>6. i \in Int /\ a * 1 = a /\ -1 * (i * 1) = c
      BY <2>6, <2>8, <2>9, <3>5, Parts
    <3> QED
      BY <2>4, <2>8, <3>3, <3>4, <3>5, <3>6 DEF Times
  <2>13. PICK bw, dl : bw = b * w /\ dl = d * l
    OBVIOUS
  <2>14. bw \in Nat \ {0} /\ dl \in Nat \ {0}
    BY <2>9, <2>11, <2>13
  <2>15. /\ KellyFraction(inputs)[1] > 0 <=> w * (a * dl) > e * (bw * c)
         /\ AtMost(KellyFraction(inputs), Fraction(1))
    <3>1. inputs.rate = <<w, n>> /\ inputs.win = <<a, bw>> /\ inputs.loss = <<c, dl>>
      BY <2>4, <2>12, <2>13
    <3>2. /\ w \in Nat \ {0} /\ n \in Nat \ {0} /\ e \in Nat /\ e = n - w
          /\ a \in Nat \ {0} /\ bw \in Nat \ {0} /\ c \in Nat \ {0} /\ dl \in Nat \ {0}
      BY <2>9, <2>10, <2>11, <2>14
    <3> QED
      BY ONLY <3>1, <3>2, StakeIs
  <2>16. /\ w * (a * dl) > e * (bw * c) => a * d > c * b
         /\ e = l /\ a * d > c * b => w * (a * dl) > e * (bw * c)
    BY <2>9, <2>11, <2>13, StakeSign
  <2>17. ProfitTaken(p)[1] > 0 <=> a * d > c * b
    <3>1. PICK i, j : i = ProfitTaken(p)[1] /\ j = ProfitTaken(p)[2]
      OBVIOUS
    <3>2. i \in Int /\ j \in Nat \ {0}
      BY <2>6, <3>1, Parts
    <3>3. Plus(SumOf(f, W), SumOf(f, L)) = <<a * d - c * b, b * d>>
      <4>1. PICK g : g = SumOf(f, L)[1]
        OBVIOUS
      <4>2. g \in Int /\ c = - g
        BY <2>6, <2>8, <4>1, Parts
      <4>3. a * d + g * b = a * d - c * b
        BY <2>9, <4>2
      <4> QED
        BY <2>8, <4>1, <4>3 DEF Plus
    <3>4. PICK u, v : u = a * d - c * b /\ v = b * d
      OBVIOUS
    <3>5. u \in Int /\ v \in Nat \ {0}
      BY <2>9, <3>4
    <3>6. v * i = j * u
      BY <2>6, <3>1, <3>2, <3>3, <3>4, <3>5 DEF Same
    <3>7. v * 0 < v * i <=> 0 < i
      BY <3>2, <3>5, Cancel
    <3>8. j * 0 < j * u <=> 0 < u
      BY <3>2, <3>5, Cancel
    <3>9. v * 0 = 0 /\ j * 0 = 0
      BY <3>2, <3>5
    <3>10. u > 0 <=> a * d > c * b
      BY <2>9, <3>4
    <3> QED
      BY <3>1, <3>2, <3>5, <3>6, <3>7, <3>8, <3>9, <3>10
  <2>18. e = l \/ \E x \in X : Outcome(p, x)[1] = 0
    BY <2>7, <2>11
  <2> QED
    BY <2>1, <2>3, <2>15, <2>16, <2>17, <2>18
<1> QED
  BY <1>1, ReportsAlways, PTL
=============================================================================
