--------------------------- MODULE MarketAlertProofs --------------------------
(***************************************************************************)
(* What the market tells and who is told.  The two feeds, for every set of *)
(* assets, sessions, times and stories of the providers: what the cache of *)
(* prices can answer, and what the table of news can hold.  And what the   *)
(* promise of the alert engine, which watches the prices, implies.         *)
(***************************************************************************)
EXTENDS PriceFeed, NewsFeed, AlertLog, TLAPS

-----------------------------------------------------------------------------
(***************************************************************************)
(* Prices: the inductive invariant.                                        *)
(***************************************************************************)
\* Where a session can be.  A row on its way to the cache is committed, wherever it
\* comes from; one on its way to the commit is numbered.
States ==
  {PriceIdle}
    \cup [pc : {"next-price"}, todo : SUBSET Assets]
    \cup [pc : {"ask"}, asset : Assets, todo : SUBSET Assets]
    \cup [pc : {"insert-price"}, asset : Assets, stamp : Stamps, todo : SUBSET Assets]
    \cup [pc : {"commit-price"}, row : Entries, todo : SUBSET Assets]
    \cup [pc : {"cache-saved"}, row : prices, todo : SUBSET Assets]
    \cup [pc : {"read-latest"}, asset : Assets]
    \cup [pc : {"cache-read"}, row : prices]

\* A latest row exists, so that a look-up finds one: tables grow a row at a time.
HasLatest(a) ==
  PricesOf(a) # {} => \E row \in PricesOf(a) : \A other \in PricesOf(a) : Later(row, other)

PriceInv ==
  /\ PriceTypeOK
  /\ CachedIsCommitted
  /\ psession \in [PriceSessions -> States]
  /\ \A a \in Assets : HasLatest(a)

\* What a session holds.
LEMMA Holding ==
  ASSUME PriceInv, NEW s \in PriceSessions
  PROVE  /\ PriceAt(s, "next-price") => psession[s].todo \in SUBSET Assets
         /\ PriceAt(s, "ask") => psession[s].asset \in Assets /\ psession[s].todo \in SUBSET Assets
         /\ PriceAt(s, "insert-price") =>
              /\ psession[s].asset \in Assets /\ psession[s].stamp \in Stamps
              /\ psession[s].todo \in SUBSET Assets
         /\ PriceAt(s, "commit-price") =>
              psession[s].row \in Entries /\ psession[s].todo \in SUBSET Assets
         /\ PriceAt(s, "cache-saved") =>
              psession[s].row \in prices /\ psession[s].todo \in SUBSET Assets
         /\ PriceAt(s, "read-latest") => psession[s].asset \in Assets
         /\ PriceAt(s, "cache-read") => psession[s].row \in prices
  <1> DEFINE here == psession[s]
  <1>1. here \in States
    BY DEF PriceInv
  <1> HIDE DEF here
  <1>2. here = PriceIdle => here.pc = "idle"
    BY DEF PriceIdle
  <1>3. here \in [pc : {"next-price"}, todo : SUBSET Assets] =>
          here.pc = "next-price" /\ here.todo \in SUBSET Assets
    OBVIOUS
  <1>4. here \in [pc : {"ask"}, asset : Assets, todo : SUBSET Assets] =>
          here.pc = "ask" /\ here.asset \in Assets /\ here.todo \in SUBSET Assets
    OBVIOUS
  <1>5. here \in [pc : {"insert-price"}, asset : Assets, stamp : Stamps, todo : SUBSET Assets] =>
          /\ here.pc = "insert-price" /\ here.asset \in Assets /\ here.stamp \in Stamps
          /\ here.todo \in SUBSET Assets
    OBVIOUS
  <1>6. here \in [pc : {"commit-price"}, row : Entries, todo : SUBSET Assets] =>
          here.pc = "commit-price" /\ here.row \in Entries /\ here.todo \in SUBSET Assets
    OBVIOUS
  <1>7. here \in [pc : {"cache-saved"}, row : prices, todo : SUBSET Assets] =>
          here.pc = "cache-saved" /\ here.row \in prices /\ here.todo \in SUBSET Assets
    OBVIOUS
  <1>8. here \in [pc : {"read-latest"}, asset : Assets] =>
          here.pc = "read-latest" /\ here.asset \in Assets
    OBVIOUS
  <1>9. here \in [pc : {"cache-read"}, row : prices] => here.pc = "cache-read" /\ here.row \in prices
    OBVIOUS
  <1>10. \/ here = PriceIdle
         \/ here \in [pc : {"next-price"}, todo : SUBSET Assets]
         \/ here \in [pc : {"ask"}, asset : Assets, todo : SUBSET Assets]
         \/ here \in [pc : {"insert-price"}, asset : Assets, stamp : Stamps, todo : SUBSET Assets]
         \/ here \in [pc : {"commit-price"}, row : Entries, todo : SUBSET Assets]
         \/ here \in [pc : {"cache-saved"}, row : prices, todo : SUBSET Assets]
         \/ here \in [pc : {"read-latest"}, asset : Assets]
         \/ here \in [pc : {"cache-read"}, row : prices]
    BY <1>1, Zenon DEF States
  <1>11. /\ here.pc = "next-price" => here.todo \in SUBSET Assets
         /\ here.pc = "ask" => here.asset \in Assets /\ here.todo \in SUBSET Assets
         /\ here.pc = "insert-price" =>
              here.asset \in Assets /\ here.stamp \in Stamps /\ here.todo \in SUBSET Assets
         /\ here.pc = "commit-price" => here.row \in Entries /\ here.todo \in SUBSET Assets
         /\ here.pc = "cache-saved" => here.row \in prices /\ here.todo \in SUBSET Assets
         /\ here.pc = "read-latest" => here.asset \in Assets
         /\ here.pc = "cache-read" => here.row \in prices
    BY <1>2, <1>3, <1>4, <1>5, <1>6, <1>7, <1>8, <1>9, <1>10
  <1> QED
    BY <1>11 DEF here, PriceAt

\* A session moves to a state that is one already.
LEMMA Moves ==
  ASSUME PriceInv, NEW s \in PriceSessions, NEW state \in States, PriceGoto(s, state)
  PROVE  psession' \in [PriceSessions -> States]
  BY DEF PriceInv, PriceGoto

\* After one asset a session goes on with the others, or is done.
LEMMA GoesOn ==
  ASSUME PriceInv, NEW s \in PriceSessions, psession[s].todo \in SUBSET Assets, Done(s)
  PROVE  psession' \in [PriceSessions -> States]
  <1> DEFINE state == IF psession[s].todo = {} THEN PriceIdle
                      ELSE [pc |-> "next-price", todo |-> psession[s].todo]
  <1>1. state \in States
    BY DEF States
  <1>2. PriceGoto(s, state)
    BY DEF Done
  <1> QED
    BY <1>1, <1>2, Moves

\* Nothing else changes when a session moves.
LEMMA OnlyMoves ==
  ASSUME PriceInv, UNCHANGED <<prices, lastId, cache>>,
         active' \subseteq Assets, fetches' \in 0 .. MaxFetches,
         psession' \in [PriceSessions -> States]
  PROVE  PriceInv'
  <1>1. PriceTypeOK'
    BY DEF PriceInv, PriceTypeOK, Entries
  <1>2. CachedIsCommitted'
    BY DEF PriceInv, CachedIsCommitted, PricesOf
  <1>3. States' = States
    BY DEF States, Entries
  <1>4. \A a \in Assets : HasLatest(a)'
    BY DEF PriceInv, HasLatest, PricesOf
  <1> QED
    BY <1>1, <1>2, <1>3, <1>4 DEF PriceInv

\* A committed row is written to the cache, or Redis fails.
LEMMA StoringSound ==
  ASSUME PriceInv, UNCHANGED <<active, prices, lastId, fetches>>,
         NEW row \in prices, Stores(row.asset, row),
         psession' \in [PriceSessions -> States]
  PROVE  PriceInv'
  <1>1. row \in Entries /\ row.asset \in Assets
    BY DEF PriceInv, PriceTypeOK, Entries
  <1>2. PriceTypeOK'
    <2>1. cache' \in [Assets -> {NotCached} \cup [row : Entries, ttl : BOOLEAN]]
      <3>1. [row |-> row, ttl |-> TRUE] \in [row : Entries, ttl : BOOLEAN]
        BY <1>1
      <3> QED
        BY <1>1, <3>1 DEF PriceInv, PriceTypeOK, Stores
    <2> QED
      BY <2>1 DEF PriceInv, PriceTypeOK, Entries
  <1>3. CachedIsCommitted'
    <2> SUFFICES ASSUME NEW a \in Assets, cache'[a] # NotCached
                 PROVE  cache'[a].row \in PricesOf(a)'
      BY DEF CachedIsCommitted
    <2>1. CASE cache'[a] = cache[a]
      BY <2>1 DEF PriceInv, CachedIsCommitted, PricesOf
    <2>2. CASE cache'[a] # cache[a]
      <3>1. a = row.asset /\ cache'[a] = [row |-> row, ttl |-> TRUE]
        BY <2>2, <1>1 DEF PriceInv, PriceTypeOK, Stores
      <3> QED
        BY <3>1 DEF PricesOf
    <2> QED
      BY <2>1, <2>2
  <1>4. States' = States
    BY DEF States, Entries
  <1>5. \A a \in Assets : HasLatest(a)'
    BY DEF PriceInv, HasLatest, PricesOf
  <1> QED
    BY <1>2, <1>3, <1>4, <1>5 DEF PriceInv

\* Of two rows one is later than the other.
LEMMA LaterOrders ==
  ASSUME NEW row \in Entries, NEW other \in Entries, lastId \in Nat
  PROVE  /\ Later(row, row)
         /\ Later(row, other) \/ Later(other, row)
         /\ \A third \in Entries :
              Later(row, other) /\ Later(other, third) => Later(row, third)
  <1>1. \A entry \in Entries : entry.stamp \in Nat /\ entry.id \in Nat
    <2>1. \A entry \in Entries : entry.stamp \in Stamps /\ entry.id \in 1 .. lastId
      BY DEF Entries
    <2>2. \A i \in 1 .. lastId : i \in Nat
      OBVIOUS
    <2> QED
      BY <2>1, <2>2, PriceAssumption
  <1>2. \A third \in Entries :
          Later(row, other) /\ Later(other, third) => Later(row, third)
    BY <1>1 DEF Later
  <1> QED
    BY <1>1, <1>2 DEF Later

\* A row more leaves every asset with a latest row.
LEMMA LatestStays ==
  ASSUME PriceInv, NEW row \in Entries, prices' = prices \cup {row}, NEW a \in Assets
  PROVE  HasLatest(a)'
  <1>1. prices \subseteq Entries /\ lastId \in Nat
    BY DEF PriceInv, PriceTypeOK
  <1>2. CASE row.asset # a
    <2>1. PricesOf(a)' = PricesOf(a)
      BY <1>2 DEF PricesOf
    <2>2. HasLatest(a)
      BY DEF PriceInv
    <2> QED
      BY <2>1, <2>2 DEF HasLatest, Later
  <1>3. CASE row.asset = a /\ PricesOf(a) = {}
    <2>1. PricesOf(a)' = {row}
      BY <1>3 DEF PricesOf
    <2>2. Later(row, row)
      BY <1>1, LaterOrders
    <2> QED
      BY <2>1, <2>2 DEF HasLatest, Later
  <1>4. CASE row.asset = a /\ PricesOf(a) # {}
    <2>1. PricesOf(a)' = PricesOf(a) \cup {row} /\ PricesOf(a) \subseteq Entries
      BY <1>1, <1>4 DEF PricesOf
    <2>2. PICK top \in PricesOf(a) : \A other \in PricesOf(a) : Later(top, other)
      BY <1>4 DEF PriceInv, HasLatest
    <2>3. CASE Later(top, row)
      <3>1. \A other \in PricesOf(a) \cup {row} : Later(top, other)
        BY <2>2, <2>3
      <3> QED
        BY <3>1, <2>1 DEF HasLatest, Later
    <2>4. CASE ~ Later(top, row)
      <3>1. Later(row, row) /\ Later(row, top)
        BY <2>4, <2>1, <1>1, LaterOrders
      <3>2. \A other \in PricesOf(a) : Later(row, other)
        BY <3>1, <2>1, <2>2, <1>1, LaterOrders
      <3> QED
        BY <3>1, <3>2, <2>1 DEF HasLatest, Later
    <2> QED
      BY <2>3, <2>4
  <1> QED
    BY <1>2, <1>3, <1>4

LEMMA PriceInitSound == AssetsInit /\ PriceInit => PriceInv
  <1> SUFFICES ASSUME AssetsInit, PriceInit PROVE PriceInv
    OBVIOUS
  <1>1. PriceTypeOK
    BY PriceAssumption DEF AssetsInit, PriceInit, PriceTypeOK, NotCached
  <1>2. CachedIsCommitted
    BY DEF PriceInit, CachedIsCommitted, NotCached
  <1>3. psession \in [PriceSessions -> States]
    BY DEF PriceInit, States
  <1>4. \A a \in Assets : HasLatest(a)
    BY DEF PriceInit, HasLatest, PricesOf
  <1> QED
    BY <1>1, <1>2, <1>3, <1>4 DEF PriceInv

\* The steps that ask for prices and look for work touch no row and no entry.
LEMMA AskingSound ==
  ASSUME PriceInv, NEW s \in PriceSessions,
         BeginFetch(s) \/ BeginUpdate(s) \/ NextPrice(s) \/ AskProviders(s)
  PROVE  PriceInv'
  <1>0. active \subseteq Assets /\ fetches \in 0 .. MaxFetches
    BY DEF PriceInv, PriceTypeOK
  <1>1. CASE BeginFetch(s)
    <2>1. PICK a \in Assets : BeginFetch(s)!(a)
      BY <1>1 DEF BeginFetch
    <2>2. [pc |-> "ask", asset |-> a, todo |-> {}] \in States
      BY DEF States
    <2>3. psession' \in [PriceSessions -> States]
      BY <2>1, <2>2, Moves DEF PriceInv
    <2>4. fetches' \in 0 .. MaxFetches
      BY <2>1, <1>0, PriceAssumption
    <2> QED
      BY <2>1, <2>3, <2>4, <1>0, OnlyMoves
  <1>2. CASE BeginUpdate(s)
    <2>1. PICK a \in active : BeginUpdate(s)!(a)
      BY <1>2 DEF BeginUpdate
    <2>2. [pc |-> "ask", asset |-> a, todo |-> active \ {a}] \in States
      BY <1>0 DEF States
    <2>3. psession' \in [PriceSessions -> States]
      BY <2>1, <2>2, Moves
    <2>4. fetches' \in 0 .. MaxFetches
      BY <2>1, <1>0, PriceAssumption
    <2> QED
      BY <2>1, <2>3, <2>4, <1>0, OnlyMoves
  <1>3. CASE NextPrice(s)
    <2>1. psession[s].todo \in SUBSET Assets
      BY <1>3, Holding DEF NextPrice
    <2>2. PICK state \in States : PriceGoto(s, state)
      <3>1. PICK a \in psession[s].todo :
              PriceGoto(s, CASE a \in active -> [pc |-> "ask", asset |-> a,
                                                 todo |-> psession[s].todo \ {a}]
                             [] psession[s].todo \ {a} = {} -> PriceIdle
                             [] OTHER -> [pc |-> "next-price", todo |-> psession[s].todo \ {a}])
        BY <1>3 DEF NextPrice
      <3>2. a \in Assets /\ psession[s].todo \ {a} \in SUBSET Assets
        BY <2>1
      <3>3. /\ [pc |-> "ask", asset |-> a, todo |-> psession[s].todo \ {a}] \in States
            /\ PriceIdle \in States
            /\ [pc |-> "next-price", todo |-> psession[s].todo \ {a}] \in States
        BY <3>2 DEF States
      <3> QED
        BY <3>1, <3>3
    <2>3. psession' \in [PriceSessions -> States]
      BY <2>2, Moves
    <2> QED
      BY <1>3, <2>3, <1>0, OnlyMoves DEF NextPrice
  <1>4. CASE AskProviders(s)
    <2>1. psession[s].asset \in Assets /\ psession[s].todo \in SUBSET Assets
      BY <1>4, Holding DEF AskProviders
    <2>2. psession' \in [PriceSessions -> States]
      <3>1. CASE Done(s)
        BY <3>1, <2>1, GoesOn
      <3>2. CASE ~ Done(s)
        <4>1. PICK stamp \in Stamps :
                PriceGoto(s, [pc |-> "insert-price", asset |-> psession[s].asset,
                              stamp |-> stamp, todo |-> psession[s].todo])
          BY <1>4, <3>2 DEF AskProviders
        <4>2. [pc |-> "insert-price", asset |-> psession[s].asset,
               stamp |-> stamp, todo |-> psession[s].todo] \in States
          BY <2>1 DEF States
        <4> QED
          BY <4>1, <4>2, Moves
      <3> QED
        BY <3>1, <3>2
    <2> QED
      BY <1>4, <2>2, <1>0, OnlyMoves DEF AskProviders
  <1> QED
    BY <1>1, <1>2, <1>3, <1>4

\* An INSERT takes a number of the sequence.
LEMMA InsertSound ==
  ASSUME PriceInv, NEW s \in PriceSessions, InsertPrice(s)
  PROVE  PriceInv'
  <1>1. /\ lastId \in Nat /\ lastId' = lastId + 1
        /\ UNCHANGED <<active, prices, cache, fetches>>
    BY DEF PriceInv, PriceTypeOK, InsertPrice
  <1>2. Entries \subseteq Entries' /\ NewRow(s) \in Entries'
    <2>1. 1 .. lastId \subseteq 1 .. lastId + 1 /\ lastId + 1 \in 1 .. lastId + 1
      BY <1>1
    <2>2. psession[s].asset \in Assets /\ psession[s].stamp \in Stamps
      BY Holding DEF InsertPrice
    <2> QED
      BY <1>1, <2>1, <2>2 DEF Entries, NewRow
  <1>3. States \subseteq States'
    BY <1>1, <1>2 DEF States
  <1>4. psession' \in [PriceSessions -> States']
    <2>1. psession[s].todo \in SUBSET Assets
      BY Holding DEF InsertPrice
    <2>2. PICK state \in States' : PriceGoto(s, state)
      <3>1. PriceIdle \in States'
        BY DEF States
      <3>2. [pc |-> "commit-price", row |-> NewRow(s), todo |-> psession[s].todo] \in States'
        BY <1>2, <2>1 DEF States
      <3> QED
        BY <3>1, <3>2 DEF InsertPrice
    <2> QED
      BY <2>2, <1>3 DEF PriceInv, PriceGoto
  <1>5. PriceTypeOK'
    <2>1. prices' \subseteq Entries' /\ lastId' \in Nat
      BY <1>1, <1>2 DEF PriceInv, PriceTypeOK
    <2>2. cache' \in [Assets -> {NotCached} \cup [row : Entries', ttl : BOOLEAN]]
      <3>1. [row : Entries, ttl : BOOLEAN] \subseteq [row : Entries', ttl : BOOLEAN]
        BY <1>2
      <3> QED
        BY <1>1, <3>1 DEF PriceInv, PriceTypeOK
    <2> QED
      BY <1>1, <2>1, <2>2 DEF PriceInv, PriceTypeOK
  <1>6. CachedIsCommitted'
    BY <1>1 DEF PriceInv, CachedIsCommitted, PricesOf
  <1>7. \A a \in Assets : HasLatest(a)'
    BY <1>1 DEF PriceInv, HasLatest, PricesOf
  <1> QED
    BY <1>4, <1>5, <1>6, <1>7 DEF PriceInv

\* The commit adds the row that is then carried to the cache.
LEMMA CommitSound ==
  ASSUME PriceInv, NEW s \in PriceSessions, CommitPrice(s)
  PROVE  PriceInv'
  <1> DEFINE row == psession[s].row
  <1>1. row \in Entries /\ psession[s].todo \in SUBSET Assets
    BY Holding DEF CommitPrice
  <1>2. prices' = prices \cup {row} /\ UNCHANGED <<active, lastId, cache, fetches>>
    BY DEF CommitPrice
  <1>3. States \subseteq States'
    BY <1>2 DEF States, Entries
  <1>4. psession' \in [PriceSessions -> States']
    <2>1. [pc |-> "cache-saved", row |-> row, todo |-> psession[s].todo] \in States'
      BY <1>1, <1>2 DEF States
    <2> QED
      BY <2>1, <1>3 DEF PriceInv, CommitPrice, PriceGoto
  <1>5. PriceTypeOK'
    BY <1>1, <1>2 DEF PriceInv, PriceTypeOK, Entries
  <1>6. CachedIsCommitted'
    BY <1>2 DEF PriceInv, CachedIsCommitted, PricesOf
  <1>7. \A a \in Assets : HasLatest(a)'
    BY <1>1, <1>2, LatestStays
  <1> QED
    BY <1>4, <1>5, <1>6, <1>7 DEF PriceInv

\* The two writers of the cache, and the readers.
LEMMA CachingSound ==
  ASSUME PriceInv, NEW s \in PriceSessions,
         CacheSaved(s) \/ BeginRead(s) \/ ReadLatest(s) \/ CacheRead(s)
  PROVE  PriceInv'
  <1>0. active \subseteq Assets /\ fetches \in 0 .. MaxFetches /\ PriceIdle \in States
    BY DEF PriceInv, PriceTypeOK, States
  <1>1. CASE CacheSaved(s)
    <2>1. psession[s].row \in prices /\ psession[s].todo \in SUBSET Assets
      BY <1>1, Holding DEF CacheSaved
    <2>2. psession' \in [PriceSessions -> States]
      BY <1>1, <2>1, GoesOn DEF CacheSaved
    <2> QED
      BY <1>1, <2>1, <2>2, StoringSound DEF CacheSaved
  <1>2. CASE BeginRead(s)
    <2>1. PICK a \in Assets : PriceGoto(s, [pc |-> "read-latest", asset |-> a])
      BY <1>2 DEF BeginRead
    <2>2. [pc |-> "read-latest", asset |-> a] \in States
      BY DEF States
    <2>3. psession' \in [PriceSessions -> States]
      BY <2>1, <2>2, Moves
    <2> QED
      BY <1>2, <2>3, <1>0, OnlyMoves DEF BeginRead
  <1>3. CASE ReadLatest(s)
    <2> DEFINE a == psession[s].asset
    <2>1. a \in Assets
      BY <1>3, Holding DEF ReadLatest
    <2>2. CASE PricesOf(a) = {}
      <3>1. PriceGoto(s, PriceIdle)
        BY <1>3, <2>2 DEF ReadLatest
      <3>2. psession' \in [PriceSessions -> States]
        BY <3>1, <1>0, Moves
      <3> QED
        BY <1>3, <3>2, <1>0, OnlyMoves DEF ReadLatest
    <2>3. CASE PricesOf(a) # {}
      <3>1. HasLatest(a)
        BY <2>1 DEF PriceInv
      <3>2. Latest(PricesOf(a)) \in PricesOf(a)
        BY <3>1, <2>3 DEF HasLatest, Latest
      <3>3. [pc |-> "cache-read", row |-> Latest(PricesOf(a))] \in States
        BY <3>2 DEF States, PricesOf
      <3>4. PriceGoto(s, [pc |-> "cache-read", row |-> Latest(PricesOf(a))])
        BY <1>3, <2>3 DEF ReadLatest
      <3>5. psession' \in [PriceSessions -> States]
        BY <3>3, <3>4, Moves
      <3> QED
        BY <1>3, <3>5, <1>0, OnlyMoves DEF ReadLatest
    <2> QED
      BY <2>2, <2>3
  <1>4. CASE CacheRead(s)
    <2>1. psession[s].row \in prices
      BY <1>4, Holding DEF CacheRead
    <2>2. psession' \in [PriceSessions -> States]
      BY <1>4, <1>0, Moves DEF CacheRead
    <2> QED
      BY <1>4, <2>1, <2>2, StoringSound DEF CacheRead
  <1> QED
    BY <1>1, <1>2, <1>3, <1>4

\* An entry that expires, a process that dies, an asset that is switched.
LEMMA AroundSound ==
  ASSUME PriceInv,
         \/ \E a \in Assets : ExpirePrice(a)
         \/ \E s \in PriceSessions : PriceSessionDies(s)
         \/ UpdateAsset /\ UNCHANGED priceVars
  PROVE  PriceInv'
  <1>0. active \subseteq Assets /\ fetches \in 0 .. MaxFetches /\ PriceIdle \in States
        /\ psession \in [PriceSessions -> States]
    BY DEF PriceInv, PriceTypeOK, States
  <1>1. ASSUME NEW a \in Assets, ExpirePrice(a) PROVE PriceInv'
    <2>1. cache' = [cache EXCEPT ![a] = NotCached]
          /\ UNCHANGED <<active, prices, lastId, psession, fetches>>
      BY <1>1 DEF ExpirePrice
    <2>2. PriceTypeOK'
      BY <2>1 DEF PriceInv, PriceTypeOK, Entries
    <2>3. CachedIsCommitted'
      BY <2>1 DEF PriceInv, PriceTypeOK, CachedIsCommitted, PricesOf
    <2>4. States' = States
      BY <2>1 DEF States, Entries
    <2>5. \A b \in Assets : HasLatest(b)'
      BY <2>1 DEF PriceInv, HasLatest, PricesOf
    <2> QED
      BY <2>1, <2>2, <2>3, <2>4, <2>5 DEF PriceInv
  <1>2. ASSUME NEW s \in PriceSessions, PriceSessionDies(s) PROVE PriceInv'
    <2>1. psession' \in [PriceSessions -> States]
      BY <1>2, <1>0, Moves DEF PriceSessionDies
    <2> QED
      BY <1>2, <2>1, <1>0, OnlyMoves DEF PriceSessionDies
  <1>3. CASE UpdateAsset /\ UNCHANGED priceVars
    <2>1. active' \subseteq Assets
      BY <1>3, <1>0 DEF UpdateAsset, SwitchOn, SwitchOff
    <2> QED
      BY <1>3, <2>1, <1>0, OnlyMoves DEF priceVars
  <1> QED
    BY <1>1, <1>2, <1>3

LEMMA StutterSound == PriceInv /\ UNCHANGED <<active, priceVars>> => PriceInv'
  <1> SUFFICES ASSUME PriceInv, UNCHANGED <<active, priceVars>> PROVE PriceInv'
    OBVIOUS
  <1>1. active \subseteq Assets /\ fetches \in 0 .. MaxFetches
        /\ psession \in [PriceSessions -> States]
    BY DEF PriceInv, PriceTypeOK
  <1> QED
    BY <1>1, OnlyMoves DEF priceVars

LEMMA PriceStepSound ==
  PriceInv /\ (PriceNext \/ (UpdateAsset /\ UNCHANGED priceVars)) => PriceInv'
  BY AskingSound, InsertSound, CommitSound, CachingSound, AroundSound DEF PriceNext, PriceStep

LEMMA AlwaysPriceInv == PriceSpec => []PriceInv
  <1>1. PriceInv /\ [PriceNext \/ (UpdateAsset /\ UNCHANGED priceVars)]_<<active, priceVars>>
          => PriceInv'
    BY PriceStepSound, StutterSound
  <1> QED
    BY <1>1, PriceInitSound, PTL DEF PriceSpec

\* The rows of the table are numbered by the sequence, and an entry of the cache is a row
\* of that shape, whatever fails or dies (market_price_repository.py:13).
THEOREM AlwaysTyped == PriceSpec => []PriceTypeOK
  <1>1. PriceInv => PriceTypeOK
    BY DEF PriceInv
  <1> QED
    BY <1>1, AlwaysPriceInv, PTL

\* What the cache answers is a committed row of the asset that was asked for, whatever
\* dies between a commit and its cache write, and however many sessions write
\* (market_service.py:45, 60).
THEOREM AlwaysCommitted == PriceSpec => []CachedIsCommitted
  <1>1. PriceInv => CachedIsCommitted
    BY DEF PriceInv
  <1> QED
    BY <1>1, AlwaysPriceInv, PTL

-----------------------------------------------------------------------------
(***************************************************************************)
(* News: the inductive invariant.                                          *)
(***************************************************************************)
NewsRows == {Row(a, story) : a \in Assets, story \in Stories}

Fetches ==
  [pc : {"ask", "next-story", "insert-story", "next-asset"}, update : BOOLEAN, asset : Assets,
   todo : SUBSET Assets, queue : Seq(Stories), mine : SUBSET NewsRows, since : Nat,
   overlaps : BOOLEAN]

Deletes ==
  [pc : {"commit-delete"}, cutoff : Int, mine : {{}}, since : Nat, overlaps : BOOLEAN,
   doomed : SUBSET NewsRows]

\* A request that has seen at most one midnight.
InTime(w) == w.since <= day /\ day <= w.since + 1

\* The stories a session has been answered, and has inserted, were recent when it began; a
\* story that was looked up is new as long as nobody else has been at work.
FetchSound(w) ==
  /\ w \in Fetches
  /\ InTime(w)
  /\ \A i \in DOMAIN w.queue : w.queue[i].day >= w.since - ProviderDays
  /\ \A row \in w.mine : row.day >= w.since - ProviderDays
  /\ w.pc = "insert-story" => w.queue # <<>>
  /\ w.pc = "insert-story" /\ ~ w.overlaps => Head(w.queue).url \notin Addresses(news \cup w.mine)

\* What the DELETE did not find is younger than its cutoff.
DeleteSound(w) ==
  /\ w \in Deletes
  /\ InTime(w)
  /\ w.cutoff <= day - ExpirationDays
  /\ \A row \in w.doomed : row.day < w.cutoff
  /\ KeepsLonger => \A row \in news \ w.doomed : row.day >= w.cutoff

\* The unique address: what a session has inserted nobody else has.
MineAlone ==
  /\ \A s \in Working : Addresses(nsession[s].mine) \cap Addresses(news) = {}
  /\ \A s, r \in Working :
       s # r => Addresses(nsession[s].mine) \cap Addresses(nsession[r].mine) = {}

\* A session that overlaps no other is the only one.
LonelyIsAlone == \A s \in Working : ~ nsession[s].overlaps => Working = {s}

NewsInv ==
  /\ active \subseteq Assets
  /\ day \in Nat
  /\ news \subseteq NewsRows
  /\ DOMAIN nsession = NewsSessions
  /\ \A s \in NewsSessions :
       nsession[s] = NewsIdle \/ FetchSound(nsession[s]) \/ DeleteSound(nsession[s])
  /\ MineAlone
  /\ LonelyIsAlone
  /\ swept \in Int /\ (swept <= 0 \/ swept <= day - ExpirationDays)
  /\ SweptStaysClean
  /\ OnlyOverlapCutsShort

\* A provider that dates an address once.
AddressesKeepTheirDay ==
  \A story, other \in Stories : story.url = other.url => story.day = other.day

\* What was stored and is gone had expired.
GoneHasExpired ==
  \A url \in stored :
    url \in Addresses(news) \/
    \A story \in Stories : story.url = url => story.day < day - ExpirationDays

StoredInv == NewsInv /\ GoneHasExpired /\ again = {}

StoredIfKept == NewsInv /\ (KeepsLonger => StoredInv)

LEMMA StoryTyped ==
  \A story \in Stories : story.day \in Nat /\ story.fits \in BOOLEAN
BY NewsAssumption

LEMMA RowTyped ==
  ASSUME NEW a \in Assets, NEW story \in Stories
  PROVE  /\ Row(a, story) \in NewsRows
         /\ Row(a, story).day = story.day /\ Row(a, story).url = story.url
BY DEF NewsRows, Row

LEMMA RowsOfStories ==
  \A row \in NewsRows :
    row.day \in Nat /\ \E story \in Stories : row.day = story.day /\ row.url = story.url
BY StoryTyped DEF NewsRows, Row

\* What the fields of a session in progress are.
LEMMA FetchTyped ==
  ASSUME NEW w \in Fetches
  PROVE  /\ w # NewsIdle /\ w \notin Deletes
         /\ w.pc \in {"ask", "next-story", "insert-story", "next-asset"}
         /\ w.update \in BOOLEAN /\ w.asset \in Assets /\ w.todo \in SUBSET Assets
         /\ w.queue \in Seq(Stories) /\ w.mine \in SUBSET NewsRows
         /\ w.since \in Nat /\ w.overlaps \in BOOLEAN
<1>1. w.pc # "idle" /\ NewsIdle.pc = "idle"
  BY DEF Fetches, NewsIdle
<1>2. w.pc # "commit-delete" /\ \A d \in Deletes : d.pc = "commit-delete"
  BY DEF Fetches, Deletes
<1> QED
  BY <1>1, <1>2 DEF Fetches

LEMMA DeleteTyped ==
  ASSUME NEW w \in Deletes
  PROVE  /\ w # NewsIdle
         /\ w.pc = "commit-delete" /\ w.cutoff \in Int /\ w.mine = {}
         /\ w.since \in Nat /\ w.overlaps \in BOOLEAN /\ w.doomed \in SUBSET NewsRows
<1>1. w.pc # "idle" /\ NewsIdle.pc = "idle"
  BY DEF Deletes, NewsIdle
<1> QED
  BY <1>1 DEF Deletes

LEMMA IdleTyped == NewsIdle.pc = "idle" /\ NewsIdle \notin Fetches /\ NewsIdle \notin Deletes
BY FetchTyped, DeleteTyped DEF NewsIdle

\* Where a session is tells what it is.
LEMMA AtFetch ==
  ASSUME NewsInv, NEW s \in NewsSessions,
         nsession[s].pc \in {"ask", "next-story", "insert-story", "next-asset"}
  PROVE  FetchSound(nsession[s]) /\ s \in Working
BY IdleTyped, DeleteTyped, FetchTyped DEF NewsInv, DeleteSound, Working, FetchSound

LEMMA AtDelete ==
  ASSUME NewsInv, NEW s \in NewsSessions, nsession[s].pc = "commit-delete"
  PROVE  DeleteSound(nsession[s]) /\ s \in Working
BY IdleTyped, FetchTyped, DeleteTyped DEF NewsInv, FetchSound, Working, DeleteSound

LEMMA AtIdle ==
  ASSUME NewsInv, NEW s \in NewsSessions, nsession[s].pc = "idle"
  PROVE  nsession[s] = NewsIdle /\ s \notin Working
<1>1. nsession[s] \notin Fetches /\ nsession[s] \notin Deletes
  BY FetchTyped, DeleteTyped
<1> QED
  BY <1>1 DEF NewsInv, FetchSound, DeleteSound, Working

LEMMA AddressesOfBoth ==
  \A rows, others : Addresses(rows \cup others) = Addresses(rows) \cup Addresses(others)
BY DEF Addresses

LEMMA AddressesOfNone == Addresses({}) = {}
BY DEF Addresses

-----------------------------------------------------------------------------
\* A step of one session that leaves the table alone.
LEMMA NewsMove ==
  ASSUME NewsInv, NEW s \in Working, NEW w,
         nsession' = [nsession EXCEPT ![s] = w],
         UNCHANGED <<active, day, news, swept, cut>>,
         w = NewsIdle \/ ((FetchSound(w) \/ DeleteSound(w)) /\ w.overlaps = nsession[s].overlaps),
         w # NewsIdle => /\ Addresses(w.mine) \cap Addresses(news) = {}
                         /\ \A r \in Working : r # s =>
                              Addresses(w.mine) \cap Addresses(nsession[r].mine) = {}
  PROVE  NewsInv'
<1>1. /\ s \in NewsSessions /\ DOMAIN nsession' = NewsSessions
      /\ \A r \in NewsSessions : nsession'[r] = IF r = s THEN w ELSE nsession[r]
  BY DEF NewsInv, Working
<1>2. Working' = IF w = NewsIdle THEN Working \ {s} ELSE Working
  BY <1>1 DEF Working
<1>3. ASSUME NEW r \in NewsSessions
      PROVE  (nsession[r] = NewsIdle \/ FetchSound(nsession[r]) \/ DeleteSound(nsession[r]))'
  <2>1. nsession'[r] = NewsIdle \/ FetchSound(nsession'[r]) \/ DeleteSound(nsession'[r])
    BY <1>1 DEF NewsInv
  <2> QED
    BY <2>1 DEF FetchSound, DeleteSound, InTime
<1>4. MineAlone'
  <2>1. MineAlone
    BY DEF NewsInv
  <2>2. ASSUME NEW r \in Working' PROVE Addresses(nsession'[r].mine) \cap Addresses(news') = {}
    BY <1>1, <1>2, <2>1 DEF MineAlone, Working
  <2>3. ASSUME NEW r \in Working', NEW t \in Working', r # t
        PROVE  Addresses(nsession'[r].mine) \cap Addresses(nsession'[t].mine) = {}
    <3>1. r \in Working /\ t \in Working /\ r \in NewsSessions /\ t \in NewsSessions
      BY <1>2 DEF Working
    <3>2. CASE r = s
      BY <1>1, <1>2, <2>3, <3>1, <3>2
    <3>3. CASE t = s
      BY <1>1, <1>2, <2>3, <3>1, <3>3
    <3>4. CASE r # s /\ t # s
      BY <1>1, <2>1, <2>3, <3>1, <3>4 DEF MineAlone
    <3> QED
      BY <3>2, <3>3, <3>4
  <2> QED
    BY <2>2, <2>3 DEF MineAlone, Addresses, Working
<1>5. LonelyIsAlone'
  <2>1. SUFFICES ASSUME NEW r \in Working', ~ nsession'[r].overlaps PROVE Working' = {r}
    BY DEF LonelyIsAlone
  <2>2. r \in Working /\ ~ nsession[r].overlaps
    BY <1>1, <1>2, <2>1 DEF Working
  <2>3. Working = {r}
    BY <2>2 DEF NewsInv, LonelyIsAlone
  <2> QED
    BY <1>2, <2>1, <2>3
<1>6. SweptStaysClean' /\ OnlyOverlapCutsShort'
  BY DEF NewsInv, SweptStaysClean, KeepsLonger, OnlyOverlapCutsShort
<1> QED
  BY <1>1, <1>3, <1>4, <1>5, <1>6 DEF NewsInv

LEMMA NewsEnds ==
  ASSUME NewsInv, NEW s \in Working, NewsEnd(s), UNCHANGED <<active, day, news, swept, cut>>
  PROVE  NewsInv'
BY NewsMove DEF NewsEnd

\* A session of an update that fails is noted with whether it overlapped another.
LEMMA FailureSound ==
  ASSUME NewsInv, NEW s \in Working, NEW misfit, NewsFails(s, misfit),
         nsession[s].overlaps \/ misfit
  PROVE  NewsInv'
<1> DEFINE Without == [nsession EXCEPT ![s] = NewsIdle]
<1>1. /\ nsession' = Without /\ UNCHANGED <<active, day, news, swept>>
      /\ OnlyOverlapCutsShort'
  BY DEF NewsFails, NewsEnd, NewsInv, OnlyOverlapCutsShort
<1>2. /\ s \in NewsSessions /\ DOMAIN nsession' = NewsSessions
      /\ \A r \in NewsSessions : nsession'[r] = IF r = s THEN NewsIdle ELSE nsession[r]
  BY <1>1 DEF NewsInv, Working
<1>3. Working' = Working \ {s}
  BY <1>2 DEF Working
<1>4. \A r \in NewsSessions :
        (nsession[r] = NewsIdle \/ FetchSound(nsession[r]) \/ DeleteSound(nsession[r]))'
  <2>1. \A r \in NewsSessions :
          nsession'[r] = NewsIdle \/ FetchSound(nsession'[r]) \/ DeleteSound(nsession'[r])
    BY <1>2 DEF NewsInv
  <2> QED
    BY <1>1, <2>1 DEF FetchSound, DeleteSound, InTime
<1>5. MineAlone'
  BY <1>1, <1>2, <1>3 DEF NewsInv, MineAlone, Working
<1>6. LonelyIsAlone'
  BY <1>2, <1>3 DEF NewsInv, LonelyIsAlone, Working
<1>7. SweptStaysClean'
  BY <1>1 DEF NewsInv, SweptStaysClean, KeepsLonger
<1> QED
  BY <1>1, <1>2, <1>4, <1>5, <1>6, <1>7 DEF NewsInv

\* A request begins, and every other in progress learns that it overlaps.
LEMMA BeginSound ==
  ASSUME NewsInv, NEW s \in NewsSessions, NewsAt(s, "idle"), NEW w, NewsBegin(s, w),
         UNCHANGED <<active, day, news, swept, cut>>,
         FetchSound(w), w.mine = {}, w.overlaps = (Working # {})
  PROVE  NewsInv'
<1>1. /\ nsession[s] = NewsIdle /\ s \notin Working
      /\ w # NewsIdle
  BY AtIdle, FetchTyped DEF NewsAt, FetchSound
<1>2. /\ DOMAIN nsession' = NewsSessions
      /\ nsession'[s] = w
      /\ \A r \in NewsSessions \ {s} :
           IF r \in Working THEN nsession'[r] = [nsession[r] EXCEPT !.overlaps = TRUE]
           ELSE nsession'[r] = NewsIdle
  BY DEF NewsBegin
<1>3. ASSUME NEW r \in Working
      PROVE  LET v == nsession'[r] IN
             /\ v.mine = nsession[r].mine /\ v.overlaps = TRUE /\ v # NewsIdle
             /\ FetchSound(v) \/ DeleteSound(v)
  <2> DEFINE u == nsession[r]
             v == nsession'[r]
  <2>1. r \in NewsSessions /\ r # s /\ v = [u EXCEPT !.overlaps = TRUE]
        /\ (FetchSound(u) \/ DeleteSound(u))
    BY <1>1, <1>2 DEF Working, NewsInv
  <2>2. CASE FetchSound(u)
    <3>1. u \in Fetches
      BY <2>2 DEF FetchSound
    <3>2. /\ v \in Fetches /\ v.overlaps = TRUE
          /\ v.pc = u.pc /\ v.queue = u.queue /\ v.mine = u.mine /\ v.since = u.since
      BY <2>1, <3>1 DEF Fetches
    <3> HIDE DEF u, v
    <3> QED
      BY <2>2, <3>2, FetchTyped DEF FetchSound, InTime, u, v
  <2>3. CASE DeleteSound(u)
    <3>1. u \in Deletes
      BY <2>3 DEF DeleteSound
    <3>2. /\ v \in Deletes /\ v.overlaps = TRUE
          /\ v.cutoff = u.cutoff /\ v.doomed = u.doomed /\ v.mine = u.mine /\ v.since = u.since
      BY <2>1, <3>1 DEF Deletes
    <3> HIDE DEF u, v
    <3> QED
      BY <2>3, <3>2, DeleteTyped DEF DeleteSound, InTime, u, v
  <2> QED
    BY <2>1, <2>2, <2>3
<1>4. Working' = Working \cup {s}
  BY <1>1, <1>2, <1>3 DEF Working
<1>5. ASSUME NEW r \in NewsSessions
      PROVE  (nsession[r] = NewsIdle \/ FetchSound(nsession[r]) \/ DeleteSound(nsession[r]))'
  <2>1. nsession'[r] = NewsIdle \/ FetchSound(nsession'[r]) \/ DeleteSound(nsession'[r])
    BY <1>2, <1>3
  <2> QED
    BY <2>1 DEF FetchSound, DeleteSound, InTime
<1>6. MineAlone'
  <2>1. MineAlone
    BY DEF NewsInv
  <2>2. nsession'[s].mine = {} /\ \A r \in Working : nsession'[r].mine = nsession[r].mine
    BY <1>2, <1>3
  <2> QED
    BY <1>4, <2>1, <2>2, AddressesOfNone DEF MineAlone, Addresses
<1>7. LonelyIsAlone'
  BY <1>2, <1>3, <1>4 DEF LonelyIsAlone
<1>8. SweptStaysClean' /\ OnlyOverlapCutsShort'
  BY DEF NewsInv, SweptStaysClean, KeepsLonger, OnlyOverlapCutsShort
<1> QED
  BY <1>2, <1>5, <1>6, <1>7, <1>8 DEF NewsInv

LEMMA BeginsSound ==
  ASSUME NewsInv, NEW s \in NewsSessions, BeginFetchNews(s) \/ BeginUpdateNews(s)
  PROVE  NewsInv'
<1>1. /\ NewsAt(s, "idle") /\ UNCHANGED <<active, day, news, swept, cut>>
      /\ active \subseteq Assets /\ day \in Nat
  BY DEF BeginFetchNews, BeginUpdateNews, MayAsk, newsHistories, NewsInv
<1>2. ASSUME NEW a \in Assets, NEW update \in BOOLEAN, NEW todo \in SUBSET Assets,
             NewsBegin(s, Fetch(a, update, todo, day, Working # {}))
      PROVE  NewsInv'
  <2> DEFINE w == Fetch(a, update, todo, day, Working # {})
  <2>1. /\ w.pc = "ask" /\ w.queue = <<>> /\ w.mine = {} /\ w.since = day
        /\ w.overlaps = (Working # {})
    BY DEF Fetch
  <2>2. w \in Fetches
    BY <1>1 DEF Fetch, Fetches
  <2> HIDE DEF w
  <2>3. FetchSound(w)
    BY <1>1, <2>1, <2>2 DEF FetchSound, InTime
  <2> QED
    BY <1>1, <1>2, <2>1, <2>3, BeginSound DEF w
<1>3. CASE BeginFetchNews(s)
  <2>1. PICK a \in Assets : IF a \in active
                            THEN NewsBegin(s, Fetch(a, FALSE, {}, day, Working # {}))
                            ELSE UNCHANGED nsession
    BY <1>3 DEF BeginFetchNews
  <2>2. CASE UNCHANGED nsession
    BY <1>1, <2>2 DEF NewsInv, FetchSound, DeleteSound, InTime, MineAlone, LonelyIsAlone, Working,
       SweptStaysClean, KeepsLonger, OnlyOverlapCutsShort
  <2> QED
    BY <1>2, <2>1, <2>2
<1>4. CASE BeginUpdateNews(s) /\ active # {}
  <2>1. PICK a \in active : NewsBegin(s, Fetch(a, TRUE, active \ {a}, day, Working # {}))
    BY <1>4 DEF BeginUpdateNews
  <2> QED
    BY <1>1, <1>2, <2>1
<1>5. CASE BeginUpdateNews(s) /\ active = {}
  <2>1. PICK any \in Assets :
          NewsBegin(s, [Fetch(any, TRUE, {}, day, Working # {}) EXCEPT !.pc = "next-asset"])
    BY <1>5 DEF BeginUpdateNews
  <2> DEFINE w == [Fetch(any, TRUE, {}, day, Working # {}) EXCEPT !.pc = "next-asset"]
  <2>2. /\ w.pc = "next-asset" /\ w.queue = <<>> /\ w.mine = {} /\ w.since = day
        /\ w.overlaps = (Working # {})
    BY DEF Fetch
  <2>3. w \in Fetches
    <3> DEFINE f == Fetch(any, TRUE, {}, day, Working # {})
    <3>1. f \in Fetches
      BY <1>1 DEF Fetch, Fetches
    <3>2. w = [f EXCEPT !.pc = "next-asset"]
      OBVIOUS
    <3> HIDE DEF f, w
    <3> QED
      BY <3>1, <3>2 DEF Fetches
  <2>4. NewsBegin(s, w)
    BY <2>1
  <2> HIDE DEF w
  <2>5. FetchSound(w)
    BY <1>1, <2>2, <2>3 DEF FetchSound, InTime
  <2> QED
    BY <1>1, <2>2, <2>4, <2>5, BeginSound
<1> QED
  BY <1>3, <1>4, <1>5

\* What the session has inserted stays as it is, and so does its place among the others.
LEMMA SameMine ==
  ASSUME NewsInv, NEW s \in Working, NEW w, w.mine = nsession[s].mine
  PROVE  /\ Addresses(w.mine) \cap Addresses(news) = {}
         /\ \A r \in Working : r # s => Addresses(w.mine) \cap Addresses(nsession[r].mine) = {}
BY DEF NewsInv, MineAlone

LEMMA NextAssetSound ==
  ASSUME NewsInv, NEW s \in NewsSessions, NextAsset(s)
  PROVE  NewsInv'
<1> DEFINE old == nsession[s]
<1>1. old.pc = "next-asset" /\ UNCHANGED <<active, day, news, swept, cut>>
  BY DEF NextAsset, NewsAt, newsHistories
<1>2. FetchSound(old) /\ s \in Working /\ old \in Fetches
  BY <1>1, AtFetch DEF FetchSound
<1>3. PICK a \in old.todo :
        nsession' = [nsession EXCEPT ![s].pc = IF a \in active THEN "ask" ELSE "next-asset",
                                     ![s].asset = a, ![s].todo = @ \ {a}]
  BY DEF NextAsset
<1> DEFINE pc == IF a \in active THEN "ask" ELSE "next-asset"
           w == [old EXCEPT !.pc = pc, !.asset = a, !.todo = @ \ {a}]
<1>4. nsession' = [nsession EXCEPT ![s] = w]
  BY <1>3
<1>5. /\ w \in Fetches /\ w.pc \in {"ask", "next-asset"} /\ w.queue = old.queue
      /\ w.mine = old.mine /\ w.since = old.since /\ w.overlaps = old.overlaps
  BY <1>2 DEF Fetches
<1> HIDE DEF w, old
<1>6. FetchSound(w)
  BY <1>2, <1>5 DEF FetchSound, InTime
<1> QED
  BY <1>1, <1>2, <1>4, <1>5, <1>6, SameMine, NewsMove DEF old

LEMMA AskNewsSound ==
  ASSUME NewsInv, NEW s \in NewsSessions, AskNews(s)
  PROVE  NewsInv'
<1> DEFINE old == nsession[s]
           recent == {story \in Lists[old.asset] : story.day \in day - ProviderDays .. day}
<1>1. old.pc = "ask" /\ UNCHANGED <<active, day, news, swept, cut>>
  BY DEF AskNews, NewsAt, newsHistories
<1>2. FetchSound(old) /\ s \in Working /\ old \in Fetches /\ day \in Nat
  BY <1>1, AtFetch DEF FetchSound, NewsInv
<1>3. PICK answer \in SeqOf(recent, MaxAnswer) :
        nsession' = [nsession EXCEPT ![s].pc = "next-story", ![s].queue = answer]
  BY DEF AskNews
<1>4. recent \subseteq Stories
  BY <1>2, NewsAssumption, FetchTyped
<1>5. answer \in Seq(recent) /\ answer \in Seq(Stories)
  <2>1. PICK n \in 0 .. MaxAnswer : answer \in [1 .. n -> recent]
    BY <1>3 DEF SeqOf
  <2>2. n \in Nat
    BY <2>1, NewsAssumption
  <2> HIDE DEF recent
  <2> QED
    BY <1>4, <2>1, <2>2
<1> DEFINE w == [old EXCEPT !.pc = "next-story", !.queue = answer]
<1>6. nsession' = [nsession EXCEPT ![s] = w]
  BY <1>3
<1>7. /\ w \in Fetches /\ w.pc = "next-story" /\ w.queue = answer
      /\ w.mine = old.mine /\ w.since = old.since /\ w.overlaps = old.overlaps
  BY <1>2, <1>5 DEF Fetches
<1>8. \A i \in DOMAIN answer : answer[i].day >= old.since - ProviderDays
  <2>1. \A i \in DOMAIN answer : answer[i] \in recent
    BY <1>5
  <2>2. old.since <= day /\ old.since \in Nat /\ ProviderDays \in Nat
    BY <1>2, NewsAssumption, FetchTyped DEF FetchSound, InTime
  <2>3. \A story \in recent : story.day >= old.since - ProviderDays
    <3>1. \A story \in recent : story.day \in Int /\ story.day >= day - ProviderDays
      BY <1>2, <1>4, StoryTyped, NewsAssumption
    <3> HIDE DEF recent, old
    <3> QED
      BY <1>2, <2>2, <3>1
  <2> QED
    BY <2>1, <2>3
<1> HIDE DEF w, old, recent
<1>9. FetchSound(w)
  BY <1>2, <1>7, <1>8 DEF FetchSound, InTime
<1> QED
  BY <1>1, <1>2, <1>6, <1>7, <1>9, SameMine, NewsMove DEF old

LEMMA HeadOf ==
  ASSUME NEW w, FetchSound(w), w.queue # <<>>
  PROVE  /\ Head(w.queue) \in Stories
         /\ Head(w.queue).day >= w.since - ProviderDays
         /\ Tail(w.queue) \in Seq(Stories)
         /\ \A i \in DOMAIN Tail(w.queue) : Tail(w.queue)[i].day >= w.since - ProviderDays
<1> DEFINE q == w.queue
<1>1. q \in Seq(Stories) /\ q # <<>>
  BY FetchTyped DEF FetchSound
<1>2. \A i \in DOMAIN q : q[i].day >= w.since - ProviderDays
  BY DEF FetchSound
<1> HIDE DEF q
<1>3. /\ Head(q) = q[1] /\ 1 \in DOMAIN q /\ Head(q) \in Stories /\ Tail(q) \in Seq(Stories)
      /\ \A i \in DOMAIN Tail(q) : i + 1 \in DOMAIN q /\ Tail(q)[i] = q[i + 1]
  BY <1>1
<1> QED
  BY <1>2, <1>3 DEF q

LEMMA CheckStorySound ==
  ASSUME NewsInv, NEW s \in NewsSessions, CheckStory(s)
  PROVE  NewsInv'
<1> DEFINE old == nsession[s]
           head == Head(old.queue)
<1>1. /\ old.pc = "next-story" /\ old.queue # <<>>
      /\ UNCHANGED <<active, day, news, swept, cut>>
  BY DEF CheckStory, NewsAt, newsHistories
<1>2. FetchSound(old) /\ s \in Working /\ old \in Fetches
  BY <1>1, AtFetch DEF FetchSound
<1>3. CASE nsession' = [nsession EXCEPT ![s].queue = Tail(@)]
  <2> DEFINE w == [old EXCEPT !.queue = Tail(old.queue)]
  <2>1. nsession' = [nsession EXCEPT ![s] = w]
    BY <1>3
  <2>2. /\ w \in Fetches /\ w.pc = "next-story" /\ w.queue = Tail(old.queue)
        /\ w.mine = old.mine /\ w.since = old.since /\ w.overlaps = old.overlaps
    BY <1>1, <1>2, HeadOf DEF Fetches
  <2> HIDE DEF w, old
  <2>3. FetchSound(w)
    BY <1>1, <1>2, <2>2, HeadOf DEF FetchSound, InTime
  <2> QED
    BY <1>1, <1>2, <2>1, <2>2, <2>3, SameMine, NewsMove DEF old
<1>4. CASE /\ ~ \E row \in news \cup old.mine : SameStory(row, Row(old.asset, head))
           /\ nsession' = [nsession EXCEPT ![s].pc = "insert-story"]
  <2> DEFINE w == [old EXCEPT !.pc = "insert-story"]
  <2>1. nsession' = [nsession EXCEPT ![s] = w]
    BY <1>4
  <2>2. /\ w \in Fetches /\ w.pc = "insert-story" /\ w.queue = old.queue
        /\ w.mine = old.mine /\ w.since = old.since /\ w.overlaps = old.overlaps
    BY <1>1, <1>2 DEF Fetches
  <2>3. head.url \notin Addresses(news \cup old.mine)
    BY <1>4 DEF SameStory, Addresses, Row
  <2> HIDE DEF w
  <2>4. FetchSound(w)
    BY <1>1, <1>2, <2>2, <2>3 DEF FetchSound, InTime
  <2> HIDE DEF old
  <2> QED
    BY <1>1, <1>2, <2>1, <2>2, <2>4, SameMine, NewsMove DEF old
<1> QED
  BY <1>3, <1>4 DEF CheckStory

\* Whoever waits for another overlaps it.
LEMMA WaitersOverlap ==
  ASSUME NewsInv, NEW s \in NewsSessions, NEW r \in NewsSessions, WaitsFor(s, r)
  PROVE  s \in Working /\ nsession[s].overlaps
<1>1. s \in Working /\ r \in Working /\ s # r
  BY AtFetch DEF WaitsFor, NewsAt
<1>2. LonelyIsAlone
  BY DEF NewsInv
<1>3. nsession[s].overlaps
  BY <1>1, <1>2 DEF LonelyIsAlone
<1> QED
  BY <1>1, <1>3

LEMMA InsertStorySound ==
  ASSUME NewsInv, NEW s \in NewsSessions, InsertStory(s)
  PROVE  NewsInv'
<1> DEFINE old == nsession[s]
           story == Head(old.queue)
           row == Row(old.asset, story)
<1>1. /\ old.pc = "insert-story"
      /\ \A r \in NewsSessions : ~ WaitsFor(s, r)
  BY DEF InsertStory, NewsAt
<1>2. FetchSound(old) /\ s \in Working /\ old \in Fetches /\ old.queue # <<>>
  BY <1>1, AtFetch DEF FetchSound
<1>3. /\ story \in Stories /\ old.asset \in Assets /\ old.mine \in SUBSET NewsRows
      /\ row \in NewsRows /\ row.url = story.url /\ row.day = story.day
      /\ story.day >= old.since - ProviderDays
  BY <1>2, HeadOf, FetchTyped, RowTyped
<1>4. CASE /\ story.fits /\ story.url \notin Addresses(news \cup old.mine)
           /\ nsession' = [nsession EXCEPT ![s].pc = "next-story", ![s].queue = Tail(@),
                                           ![s].mine = @ \cup {row}]
           /\ UNCHANGED <<active, day, news, asked, newsHistories>>
  <2> DEFINE w == [old EXCEPT !.pc = "next-story", !.queue = Tail(old.queue),
                              !.mine = old.mine \cup {row}]
  <2>1. nsession' = [nsession EXCEPT ![s] = w]
    BY <1>4
  <2>2. Tail(old.queue) \in Seq(Stories) /\ old.mine \cup {row} \in SUBSET NewsRows
    BY <1>2, <1>3, HeadOf
  <2>3. /\ w \in Fetches /\ w.pc = "next-story" /\ w.queue = Tail(old.queue)
        /\ w.mine = old.mine \cup {row} /\ w.since = old.since /\ w.overlaps = old.overlaps
    BY <1>2, <2>2 DEF Fetches
  <2>4. Addresses(w.mine) = Addresses(old.mine) \cup {story.url}
    BY <1>3, <2>3 DEF Addresses
  <2>5. Addresses(w.mine) \cap Addresses(news) = {}
    BY <1>2, <1>4, <2>4 DEF NewsInv, MineAlone, Addresses
  <2>6. ASSUME NEW r \in Working, r # s
        PROVE  Addresses(w.mine) \cap Addresses(nsession[r].mine) = {}
    <3>1. story.url \notin Addresses(nsession[r].mine)
      BY <1>1, <2>6 DEF WaitsFor, NewsAt, Working
    <3>2. Addresses(old.mine) \cap Addresses(nsession[r].mine) = {}
      BY <1>2, <2>6 DEF NewsInv, MineAlone
    <3> QED
      BY <2>4, <3>1, <3>2
  <2> HIDE DEF w, row, story, old
  <2>7. FetchSound(w)
    BY <1>2, <1>3, <2>3, HeadOf DEF FetchSound, InTime
  <2>8. UNCHANGED <<active, day, news, swept, cut>>
    BY <1>4 DEF newsHistories
  <2> QED
    BY <1>2, <2>1, <2>3, <2>5, <2>6, <2>7, <2>8, NewsMove DEF old
<1>5. CASE /\ ~ (story.fits /\ story.url \notin Addresses(news \cup old.mine))
           /\ NewsFails(s, ~ story.fits)
  <2>1. old.overlaps \/ ~ story.fits
    BY <1>1, <1>2, <1>5, FetchTyped DEF FetchSound
  <2> QED
    BY <1>2, <1>5, <2>1, FailureSound
<1> QED
  BY <1>4, <1>5 DEF InsertStory

LEMMA BreakDeadlockSound ==
  ASSUME NewsInv, NEW s \in NewsSessions, BreakDeadlock(s)
  PROVE  NewsInv'
<1>1. PICK waiting \in SUBSET NewsSessions :
        s \in waiting /\ \A r \in waiting : \E q \in waiting : WaitsFor(r, q)
  BY DEF BreakDeadlock
<1>2. PICK q \in NewsSessions : WaitsFor(s, q)
  BY <1>1
<1>3. s \in Working /\ nsession[s].overlaps
  BY <1>2, WaitersOverlap
<1> QED
  BY <1>3, FailureSound DEF BreakDeadlock

LEMMA DeleteExpiredSound ==
  ASSUME NewsInv, NEW s \in NewsSessions, DeleteExpired(s)
  PROVE  NewsInv'
<1> DEFINE old == nsession[s]
           w == [pc |-> "commit-delete", cutoff |-> Cutoff, mine |-> {}, since |-> old.since,
                 overlaps |-> old.overlaps, doomed |-> {row \in news : row.day < Cutoff}]
<1>1. /\ old.pc = "next-asset" /\ UNCHANGED <<active, day, news, swept, cut>>
      /\ nsession' = [nsession EXCEPT ![s] = w]
  BY DEF DeleteExpired, NewsAt, newsHistories
<1>2. FetchSound(old) /\ s \in Working /\ old \in Fetches
  BY <1>1, AtFetch DEF FetchSound
<1>3. day \in Nat /\ news \subseteq NewsRows /\ Cutoff = day - ExpirationDays /\ Cutoff \in Int
  BY NewsAssumption DEF NewsInv, Cutoff
<1>4. /\ w \in Deletes /\ w.cutoff = Cutoff /\ w.mine = {} /\ w.since = old.since
      /\ w.overlaps = old.overlaps /\ w.doomed = {row \in news : row.day < Cutoff}
  BY <1>2, <1>3, FetchTyped DEF Deletes
<1> HIDE DEF w, old
<1>5. DeleteSound(w)
  <2>1. \A row \in news : row.day \in Int
    BY <1>3, RowsOfStories
  <2> QED
    BY <1>2, <1>3, <1>4, <2>1 DEF DeleteSound, FetchSound, InTime
<1> QED
  BY <1>1, <1>2, <1>4, <1>5, AddressesOfNone, NewsMove DEF old

LEMMA DiesSound ==
  ASSUME NewsInv, NEW s \in NewsSessions, NewsSessionDies(s)
  PROVE  NewsInv'
BY NewsEnds DEF NewsSessionDies, newsHistories

\* What a session commits is younger than anything an update may delete.
LEMMA CommitsAreYoung ==
  ASSUME NewsInv, KeepsLonger, NEW w, FetchSound(w), NEW row \in w.mine
  PROVE  row.day \in Nat /\ row.day >= day - ExpirationDays
<1>1. /\ row \in NewsRows /\ w.since \in Nat /\ row.day >= w.since - ProviderDays
      /\ day <= w.since + 1 /\ day \in Nat
  BY FetchTyped DEF FetchSound, InTime, NewsInv
<1>2. row.day \in Nat /\ ProviderDays \in Nat /\ ExpirationDays \in Nat
      /\ ProviderDays < ExpirationDays
  BY <1>1, RowsOfStories, NewsAssumption DEF KeepsLonger
<1>3. day - ExpirationDays <= w.since - ProviderDays
  BY <1>1, <1>2
<1> QED
  BY <1>1, <1>2, <1>3

LEMMA CommitNewsSound ==
  ASSUME NewsInv, NEW s \in NewsSessions, CommitNews(s)
  PROVE  NewsInv'
<1> DEFINE old == nsession[s]
<1>1. /\ old.pc = "next-story" /\ news' = news \cup old.mine
      /\ UNCHANGED <<active, day, swept, cut>>
  BY DEF CommitNews, NewsAt
<1>2. FetchSound(old) /\ s \in Working /\ old \in Fetches
  BY <1>1, AtFetch DEF FetchSound
<1>3. PICK w : /\ nsession' = [nsession EXCEPT ![s] = w]
               /\ w = NewsIdle \/ (/\ w \in Fetches /\ w.pc = "next-asset" /\ w.mine = {}
                                   /\ w.queue = old.queue /\ w.since = old.since
                                   /\ w.overlaps = old.overlaps)
  <2>1. CASE old.update
    <3> DEFINE v == [old EXCEPT !.pc = "next-asset", !.mine = {}]
    <3>1. nsession' = [nsession EXCEPT ![s] = v]
      BY <2>1 DEF CommitNews
    <3>2. /\ v \in Fetches /\ v.pc = "next-asset" /\ v.mine = {}
          /\ v.queue = old.queue /\ v.since = old.since /\ v.overlaps = old.overlaps
      BY <1>2 DEF Fetches
    <3> HIDE DEF v
    <3> QED
      BY <3>1, <3>2
  <2>2. CASE ~ old.update
    BY <2>2 DEF CommitNews, NewsEnd
  <2> QED
    BY <2>1, <2>2
<1>4. /\ DOMAIN nsession' = NewsSessions /\ s \in NewsSessions
      /\ \A r \in NewsSessions : nsession'[r] = IF r = s THEN w ELSE nsession[r]
  BY <1>3 DEF NewsInv
<1>5. Working' \subseteq Working /\ \A r \in Working : r # s => r \in Working'
  BY <1>2, <1>4 DEF Working
<1>6. KeepsLonger => \A row \in old.mine : row.day \in Nat /\ row.day >= day - ExpirationDays
  BY <1>2, CommitsAreYoung
<1>7. Addresses(news') = Addresses(news) \cup Addresses(old.mine)
  BY <1>1, AddressesOfBoth
<1> HIDE DEF old
<1>8. ASSUME NEW r \in NewsSessions
      PROVE  (nsession[r] = NewsIdle \/ FetchSound(nsession[r]) \/ DeleteSound(nsession[r]))'
  <2>1. CASE r = s
    <3>1. CASE w = NewsIdle
      BY <1>4, <2>1, <3>1
    <3>2. CASE w # NewsIdle
      <4>1. /\ w \in Fetches /\ w.pc = "next-asset" /\ w.mine = {} /\ w.queue = old.queue
            /\ w.since = old.since
        BY <1>3, <3>2
      <4>2. FetchSound(nsession[r])'
        BY <1>1, <1>2, <1>4, <2>1, <4>1 DEF FetchSound, InTime
      <4> QED
        BY <4>2
    <3> QED
      BY <3>1, <3>2
  <2>2. CASE r # s /\ FetchSound(nsession[r])
    <3>1. r \in Working /\ nsession[r].overlaps
      <4>1. r \in Working
        BY <2>2, FetchTyped DEF Working, FetchSound
      <4> QED
        BY <1>2, <2>2, <4>1 DEF NewsInv, LonelyIsAlone
    <3>2. FetchSound(nsession[r])'
      BY <1>1, <1>4, <2>2, <3>1 DEF FetchSound, InTime
    <3> QED
      BY <3>2
  <2>3. CASE r # s /\ DeleteSound(nsession[r])
    <3>1. nsession[r].cutoff \in Int /\ nsession[r].cutoff <= day - ExpirationDays
      BY <2>3, DeleteTyped DEF DeleteSound
    <3>2. KeepsLonger => \A row \in old.mine : row.day >= nsession[r].cutoff
      BY <1>6, <3>1, NewsAssumption DEF NewsInv
    <3>3. DeleteSound(nsession[r])'
      BY <1>1, <1>4, <2>3, <3>2 DEF DeleteSound, InTime, old
    <3> QED
      BY <3>3
  <2>4. nsession[r] = NewsIdle \/ FetchSound(nsession[r]) \/ DeleteSound(nsession[r])
    BY DEF NewsInv
  <2> QED
    BY <1>4, <2>1, <2>2, <2>3, <2>4
<1>9. MineAlone'
  <2>1. MineAlone
    BY DEF NewsInv
  <2>2. Addresses({}) = {} /\ (s \in Working' => w.mine = {})
    BY <1>3, <1>4, AddressesOfNone DEF Working
  <2>3. ASSUME NEW r \in Working' PROVE Addresses(nsession'[r].mine) \cap Addresses(news') = {}
    <3>1. CASE r = s
      BY <1>4, <2>2, <2>3, <3>1
    <3>2. CASE r # s
      <4>1. r \in Working /\ nsession'[r] = nsession[r]
        BY <1>4, <1>5, <2>3, <3>2 DEF Working
      <4>2. /\ Addresses(nsession[r].mine) \cap Addresses(news) = {}
            /\ Addresses(nsession[r].mine) \cap Addresses(old.mine) = {}
        BY <1>2, <2>1, <3>2, <4>1 DEF MineAlone, old
      <4> QED
        BY <1>7, <4>1, <4>2
    <3> QED
      BY <3>1, <3>2
  <2>4. ASSUME NEW r \in Working', NEW t \in Working', r # t
        PROVE  Addresses(nsession'[r].mine) \cap Addresses(nsession'[t].mine) = {}
    <3>1. r \in Working /\ t \in Working /\ r \in NewsSessions /\ t \in NewsSessions
      BY <1>5 DEF Working
    <3>2. CASE r = s \/ t = s
      BY <1>4, <2>2, <2>4, <3>1, <3>2
    <3>3. CASE r # s /\ t # s
      BY <1>4, <2>1, <2>4, <3>1, <3>3 DEF MineAlone
    <3> QED
      BY <3>2, <3>3
  <2> QED
    BY <2>3, <2>4 DEF MineAlone, Addresses, Working
<1>10. LonelyIsAlone'
  <2>1. SUFFICES ASSUME NEW r \in Working', ~ nsession'[r].overlaps PROVE Working' = {r}
    BY DEF LonelyIsAlone
  <2>2. r \in Working /\ r \in NewsSessions /\ ~ nsession[r].overlaps
    BY <1>3, <1>4, <1>5, <2>1 DEF Working, old
  <2>3. Working = {r}
    BY <2>2 DEF NewsInv, LonelyIsAlone
  <2> QED
    BY <1>5, <2>1, <2>3
<1>11. SweptStaysClean'
  <2>1. /\ SweptStaysClean /\ swept \in Int /\ (swept <= 0 \/ swept <= day - ExpirationDays)
        /\ day \in Nat
    BY DEF NewsInv
  <2>2. KeepsLonger => \A row \in old.mine : row.day >= swept
    BY <1>6, <2>1, NewsAssumption
  <2> QED
    BY <1>1, <2>1, <2>2 DEF SweptStaysClean, KeepsLonger, old
<1>12. news' \subseteq NewsRows
  BY <1>1, <1>2, FetchTyped DEF NewsInv, old
<1>13. OnlyOverlapCutsShort'
  BY <1>1 DEF NewsInv, OnlyOverlapCutsShort
<1> QED
  BY <1>1, <1>4, <1>8, <1>9, <1>10, <1>11, <1>12, <1>13 DEF NewsInv

LEMMA CommitDeleteSound ==
  ASSUME NewsInv, NEW s \in NewsSessions, CommitDelete(s)
  PROVE  NewsInv'
<1> DEFINE old == nsession[s]
<1>1. /\ old.pc = "commit-delete" /\ news' = news \ old.doomed /\ NewsEnd(s)
      /\ UNCHANGED <<active, day, cut>>
      /\ swept' = IF old.cutoff > swept THEN old.cutoff ELSE swept
  BY DEF CommitDelete, NewsAt
<1>2. DeleteSound(old) /\ s \in Working /\ old \in Deletes
  BY <1>1, AtDelete DEF DeleteSound
<1>3. /\ DOMAIN nsession' = NewsSessions
      /\ \A r \in NewsSessions : nsession'[r] = IF r = s THEN NewsIdle ELSE nsession[r]
  BY <1>1 DEF NewsInv, NewsEnd
<1>4. Working' = Working \ {s}
  BY <1>3 DEF Working
<1>5. Addresses(news') \subseteq Addresses(news)
      /\ \A rows : Addresses(news' \cup rows) \subseteq Addresses(news \cup rows)
  BY <1>1 DEF Addresses
<1>6. ASSUME NEW r \in NewsSessions
      PROVE  (nsession[r] = NewsIdle \/ FetchSound(nsession[r]) \/ DeleteSound(nsession[r]))'
  <2>1. CASE r = s
    BY <1>3, <2>1
  <2>2. CASE r # s /\ FetchSound(nsession[r])
    <3>1. FetchSound(nsession[r])'
      BY <1>1, <1>3, <1>5, <2>2 DEF FetchSound, InTime
    <3> QED
      BY <3>1
  <2>3. CASE r # s /\ DeleteSound(nsession[r])
    <3>1. DeleteSound(nsession[r])'
      BY <1>1, <1>3, <2>3 DEF DeleteSound, InTime
    <3> QED
      BY <3>1
  <2>4. nsession[r] = NewsIdle \/ FetchSound(nsession[r]) \/ DeleteSound(nsession[r])
    BY DEF NewsInv
  <2> QED
    BY <1>3, <2>1, <2>2, <2>3, <2>4
<1>7. MineAlone'
  <2>1. MineAlone /\ Working' \subseteq Working
    BY <1>4 DEF NewsInv
  <2>2. \A r \in Working' : nsession'[r] = nsession[r]
    BY <1>3, <1>4 DEF Working
  <2> QED
    BY <1>5, <2>1, <2>2 DEF MineAlone, Addresses
<1>8. LonelyIsAlone'
  BY <1>3, <1>4 DEF NewsInv, LonelyIsAlone, Working
<1>9. /\ swept \in Int /\ (swept <= 0 \/ swept <= day - ExpirationDays) /\ SweptStaysClean
      /\ old.cutoff \in Int /\ old.cutoff <= day - ExpirationDays
      /\ KeepsLonger => \A row \in news' : row.day >= old.cutoff
  BY <1>1, <1>2, DeleteTyped DEF NewsInv, DeleteSound
<1>10. /\ SweptStaysClean'
       /\ (swept \in Int /\ (swept <= 0 \/ swept <= day - ExpirationDays))'
  BY <1>1, <1>9 DEF SweptStaysClean, KeepsLonger
<1>11. OnlyOverlapCutsShort'
  BY <1>1 DEF NewsInv, OnlyOverlapCutsShort
<1> QED
  BY <1>1, <1>3, <1>6, <1>7, <1>8, <1>10, <1>11 DEF NewsInv

LEMMA NextDaySound ==
  ASSUME NewsInv, NextDay
  PROVE  NewsInv'
<1>1. /\ day \in Nat /\ day' = day + 1 /\ \A s \in Working : nsession[s].since = day
      /\ UNCHANGED <<active, news, nsession, swept, cut>>
  BY DEF NextDay, newsHistories, NewsInv
<1>2. ASSUME NEW r \in NewsSessions
      PROVE  (nsession[r] = NewsIdle \/ FetchSound(nsession[r]) \/ DeleteSound(nsession[r]))'
  <2>1. CASE FetchSound(nsession[r])
    <3>1. r \in Working
      BY <2>1, FetchTyped DEF Working, FetchSound
    <3>2. InTime(nsession[r])'
      BY <1>1, <3>1 DEF InTime
    <3>3. FetchSound(nsession[r])'
      BY <1>1, <2>1, <3>2 DEF FetchSound
    <3> QED
      BY <3>3
  <2>2. CASE DeleteSound(nsession[r])
    <3>1. r \in Working /\ nsession[r].cutoff \in Int
      BY <2>2, DeleteTyped DEF Working, DeleteSound
    <3>2. InTime(nsession[r])'
      BY <1>1, <3>1 DEF InTime
    <3>3. nsession[r].cutoff <= day' - ExpirationDays
      BY <1>1, <2>2, <3>1, NewsAssumption DEF DeleteSound
    <3>4. DeleteSound(nsession[r])'
      BY <1>1, <2>2, <3>2, <3>3 DEF DeleteSound
    <3> QED
      BY <3>4
  <2> QED
    BY <1>1, <2>1, <2>2 DEF NewsInv
<1>3. (swept \in Int /\ (swept <= 0 \/ swept <= day - ExpirationDays))'
  BY <1>1, NewsAssumption DEF NewsInv
<1>4. MineAlone' /\ LonelyIsAlone' /\ SweptStaysClean' /\ OnlyOverlapCutsShort'
  BY <1>1 DEF NewsInv, MineAlone, LonelyIsAlone, SweptStaysClean, KeepsLonger, OnlyOverlapCutsShort, Addresses,
     Working
<1> QED
  BY <1>1, <1>2, <1>3, <1>4 DEF NewsInv

LEMMA NewsStands ==
  ASSUME NewsInv, active' \subseteq Assets, UNCHANGED <<day, news, nsession, swept, cut>>
  PROVE  NewsInv'
BY DEF NewsInv, FetchSound, DeleteSound, InTime, MineAlone, LonelyIsAlone, Working, Addresses,
   SweptStaysClean, KeepsLonger, OnlyOverlapCutsShort

LEMMA NewsInitSound == AssetsInit /\ NewsInit => NewsInv
<1> SUFFICES ASSUME AssetsInit, NewsInit PROVE NewsInv
  OBVIOUS
<1>1. /\ Working = {} /\ DOMAIN nsession = NewsSessions
      /\ \A s \in NewsSessions : nsession[s] = NewsIdle
  BY DEF NewsInit, Working
<1> QED
  BY <1>1 DEF AssetsInit, NewsInit, NewsInv, MineAlone, LonelyIsAlone, SweptStaysClean, KeepsLonger,
     OnlyOverlapCutsShort

NewsStep == NewsNext \/ (UpdateAsset /\ UNCHANGED newsVars)

LEMMA NewsStepSound == NewsInv /\ [NewsStep]_<<active, newsVars>> => NewsInv'
<1> SUFFICES ASSUME NewsInv, [NewsStep]_<<active, newsVars>> PROVE NewsInv'
  OBVIOUS
<1>1. CASE NewsNext
  BY <1>1, BeginsSound, NextAssetSound, AskNewsSound, CheckStorySound, InsertStorySound,
     BreakDeadlockSound, CommitNewsSound, DeleteExpiredSound, CommitDeleteSound, DiesSound,
     NextDaySound DEF NewsNext
<1>2. CASE UpdateAsset /\ UNCHANGED newsVars
  <2>1. active' \subseteq Assets
    BY <1>2 DEF UpdateAsset, SwitchOn, SwitchOff, NewsInv
  <2> QED
    BY <1>2, <2>1, NewsStands DEF newsVars
<1>3. CASE UNCHANGED <<active, newsVars>>
  BY <1>3, NewsStands DEF newsVars, NewsInv
<1> QED
  BY <1>1, <1>2, <1>3 DEF NewsStep

LEMMA AlwaysNewsInv == NewsSpec => []NewsInv
BY NewsInitSound, NewsStepSound, PTL DEF NewsSpec, NewsStep

-----------------------------------------------------------------------------
\* What is stored again must be recent, and what was stored and is gone is not.
LEMMA StoredStepSound ==
  ASSUME KeepsLonger, AddressesKeepTheirDay, StoredInv, [NewsStep]_<<active, newsVars>>
  PROVE  StoredInv'
<1>1. NewsInv' /\ NewsInv
  BY NewsStepSound DEF StoredInv
<1>2. GoneHasExpired /\ again = {}
  BY DEF StoredInv
<1>3. CASE UNCHANGED <<day, news, stored, again>>
  BY <1>1, <1>2, <1>3 DEF StoredInv, GoneHasExpired, Addresses
<1>4. ASSUME NEW s \in NewsSessions, CommitNews(s) PROVE StoredInv'
  <2> DEFINE old == nsession[s]
  <2>1. /\ news' = news \cup old.mine /\ stored' = stored \cup Addresses(old.mine)
        /\ again' = again \cup (Addresses(old.mine) \cap stored)
        /\ UNCHANGED day
    BY <1>4 DEF CommitNews
  <2>2. FetchSound(old) /\ s \in Working
    BY <1>1, <1>4, AtFetch DEF CommitNews, NewsAt
  <2>3. ASSUME NEW url \in Addresses(old.mine), url \in stored PROVE FALSE
    <3>1. PICK row \in old.mine : row.url = url
      BY DEF Addresses
    <3>2. row \in NewsRows /\ row.day >= day - ExpirationDays
      BY <1>1, <2>2, <3>1, CommitsAreYoung, FetchTyped DEF FetchSound
    <3>3. PICK story \in Stories : row.day = story.day /\ row.url = story.url
      BY <3>2, RowsOfStories
    <3>4. url \notin Addresses(news)
      BY <1>1, <2>2 DEF NewsInv, MineAlone
    <3>5. story.day < day - ExpirationDays
      BY <1>2, <2>3, <3>1, <3>3, <3>4 DEF GoneHasExpired
    <3>6. story.day \in Nat /\ day - ExpirationDays \in Int
      BY <1>1, StoryTyped, NewsAssumption DEF NewsInv
    <3> QED
      BY <3>2, <3>3, <3>5, <3>6
  <2>4. (again = {})'
    BY <1>2, <2>1, <2>3 
  <2>5. GoneHasExpired'
    BY <1>2, <2>1, AddressesOfBoth DEF GoneHasExpired
  <2> QED
    BY <1>1, <2>4, <2>5 DEF StoredInv
<1>5. ASSUME NEW s \in NewsSessions, CommitDelete(s) PROVE StoredInv'
  <2> DEFINE old == nsession[s]
  <2>1. news' = news \ old.doomed /\ UNCHANGED <<day, stored, again>>
    BY <1>5 DEF CommitDelete
  <2>2. DeleteSound(old)
    BY <1>1, <1>5, AtDelete DEF CommitDelete, NewsAt
  <2>3. ASSUME NEW url \in stored, url \notin Addresses(news'),
               NEW story \in Stories, story.url = url
        PROVE  story.day < day - ExpirationDays
    <3>1. CASE url \in Addresses(news)
      <4>1. PICK row \in news : row.url = url
        BY <3>1 DEF Addresses
      <4>2. row \in old.doomed
        BY <2>1, <2>3, <4>1 DEF Addresses
      <4>3. row.day < old.cutoff /\ old.cutoff <= day - ExpirationDays /\ old.cutoff \in Int
        BY <2>2, <4>2, DeleteTyped DEF DeleteSound
      <4>4. PICK other \in Stories : row.day = other.day /\ row.url = other.url
        BY <1>1, <4>1, RowsOfStories DEF NewsInv
      <4>5. story.day = row.day
        BY <2>3, <4>1, <4>4 DEF AddressesKeepTheirDay
      <4>6. story.day \in Nat /\ day \in Nat /\ ExpirationDays \in Nat
        BY <1>1, StoryTyped, NewsAssumption DEF NewsInv
      <4> QED
        BY <4>3, <4>5, <4>6
    <3>2. CASE url \notin Addresses(news)
      BY <1>2, <2>3, <3>2 DEF GoneHasExpired
    <3> QED
      BY <3>1, <3>2
  <2>4. GoneHasExpired'
    BY <2>1, <2>3 DEF GoneHasExpired
  <2> QED
    BY <1>1, <1>2, <2>1, <2>4 DEF StoredInv
<1>6. CASE NextDay
  <2>1. day \in Nat /\ day' = day + 1 /\ UNCHANGED <<news, stored, again>>
    BY <1>1, <1>6 DEF NextDay, newsHistories, NewsInv
  <2>2. \A story \in Stories : story.day < day - ExpirationDays => story.day < day' - ExpirationDays
    BY <2>1, StoryTyped, NewsAssumption
  <2>3. GoneHasExpired'
    BY <1>2, <2>1, <2>2 DEF GoneHasExpired, Addresses
  <2> QED
    BY <1>1, <1>2, <2>1, <2>3 DEF StoredInv
<1>7. CASE \E s \in NewsSessions :
             \/ BeginFetchNews(s) \/ BeginUpdateNews(s) \/ NextAsset(s) \/ AskNews(s)
             \/ CheckStory(s) \/ InsertStory(s) \/ BreakDeadlock(s) \/ DeleteExpired(s)
             \/ NewsSessionDies(s)
  <2>1. UNCHANGED <<day, news, stored, again>>
    BY <1>7 DEF BeginFetchNews, BeginUpdateNews, NextAsset, AskNews, CheckStory, InsertStory,
       BreakDeadlock, NewsFails, DeleteExpired, NewsSessionDies, newsHistories
  <2> QED
    BY <1>3, <2>1
<1>8. CASE UNCHANGED newsVars
  BY <1>3, <1>8 DEF newsVars
<1> QED
  BY <1>4, <1>5, <1>6, <1>7, <1>8 DEF NewsStep, NewsNext

\* Once an update has returned nothing older than its cutoff comes back, however many
\* fetches and updates overlap it and however midnight falls (market_service.py:142).
THEOREM SweptAlwaysStaysClean == NewsSpec => []SweptStaysClean
<1>1. NewsInv => SweptStaysClean
  BY DEF NewsInv
<1> QED
  BY <1>1, AlwaysNewsInv, PTL

\* An update that is served alone is cut short by nothing but a story that does not fit,
\* whatever the provider lists, twice or under two assets (market_service.py:87).
THEOREM OnlyOverlapEverCutsShort == NewsSpec => []OnlyOverlapCutsShort
<1>1. NewsInv => OnlyOverlapCutsShort
  BY DEF NewsInv
<1> QED
  BY <1>1, AlwaysNewsInv, PTL

\* No address is stored a second time, not even after it was deleted as expired, as long
\* as the provider does not date it anew: the table keeps news longer than the provider is
\* asked for (finnhub/client.py:60).
THEOREM StoriesAreAlwaysStoredOnce ==
  ASSUME AddressesKeepTheirDay
  PROVE  NewsSpec => []StoriesAreStoredOnce
<1>1. AssetsInit /\ NewsInit => StoredIfKept
  BY NewsInitSound DEF StoredIfKept, StoredInv, NewsInit, GoneHasExpired
<1>2. StoredIfKept /\ [NewsStep]_<<active, newsVars>> => StoredIfKept'
  <2>1. CASE KeepsLonger
    BY <2>1, StoredStepSound DEF StoredIfKept, StoredInv
  <2>2. CASE ~ KeepsLonger
    BY <2>2, NewsStepSound DEF StoredIfKept, KeepsLonger
  <2> QED
    BY <2>1, <2>2
<1>3. StoredIfKept => StoriesAreStoredOnce
  BY DEF StoredIfKept, StoredInv, StoriesAreStoredOnce
<1> QED
  BY <1>1, <1>2, <1>3, PTL DEF NewsSpec, NewsStep

-----------------------------------------------------------------------------
(***************************************************************************)
(* Alerts: what the promise of the engine implies, for every cooldown,     *)
(* clock and set of alerts.  The cooldown looks at one time only, the      *)
(* last; that all triggers are apart follows because the last is the       *)
(* newest.                                                                 *)
(***************************************************************************)
\* An id that has no row has no history, so a new row starts with none.
HistoriesHaveRows == \A a \in Ids \ DOMAIN alerts : events[a] = <<>>

IInv == TypeOK /\ HistoriesHaveRows /\ LastIsNewest /\ TriggersAreSpaced

\* A new row has the fields asked for and a legal last_triggered_at.
LEMMA RowOfTyped ==
  ASSUME NEW fields \in Fields \cup Rows, NEW last \in Times \cup {Never}
  PROVE  RowOf(fields, last) \in Rows /\ RowOf(fields, last).last_triggered_at = last
  BY DEF Fields, Rows, RowOf

\* Appending a time that is a cooldown after the last keeps all of them apart.
LEMMA AppendSpaced ==
  ASSUME NEW h \in Seq(Times), NEW now \in Times,
         \A i, j \in DOMAIN h : i < j => h[j] - h[i] >= Cooldown,
         h = <<>> \/ now - h[Len(h)] >= Cooldown
  PROVE  /\ Append(h, now) \in Seq(Times)
         /\ Append(h, now) # <<>>
         /\ Append(h, now)[Len(Append(h, now))] = now
         /\ \A i, j \in DOMAIN Append(h, now) :
              i < j => Append(h, now)[j] - Append(h, now)[i] >= Cooldown
  <1> DEFINE g == Append(h, now)
  <1>1. /\ g \in Seq(Times) /\ Len(g) = Len(h) + 1 /\ g[Len(g)] = now
        /\ \A i \in 1 .. Len(h) : g[i] = h[i] /\ h[i] \in Times
        /\ DOMAIN h = 1 .. Len(h) /\ DOMAIN g = 1 .. Len(h) + 1
        /\ Len(h) \in Nat
    OBVIOUS
  <1>2. g # <<>>
    BY <1>1
  <1>3. ASSUME NEW i \in DOMAIN g, NEW j \in DOMAIN g, i < j
        PROVE  g[j] - g[i] >= Cooldown
    <2>1. CASE j \in 1 .. Len(h)
      BY <1>1, <1>3, <2>1
    <2>2. CASE j = Len(h) + 1 /\ i = Len(h)
      BY <1>1, <1>3, <2>2
    <2>3. CASE j = Len(h) + 1 /\ i < Len(h)
      <3>1. i \in 1 .. Len(h) /\ Len(h) \in 1 .. Len(h) /\ h # <<>>
        BY <1>1, <1>3, <2>3
      <3>2. h[Len(h)] - h[i] >= Cooldown /\ now - h[Len(h)] >= Cooldown
        BY <1>1, <2>3, <3>1
      <3>3. h[i] \in Int /\ h[Len(h)] \in Int /\ now \in Int /\ Cooldown \in Nat
        BY <1>1, <3>1, AlertAssumption DEF Times
      <3>4. QED
        BY <1>1, <2>3, <3>1, <3>2, <3>3
    <2>4. QED
      BY <1>1, <1>3, <2>1, <2>2, <2>3
  <1>4. QED
    BY <1>1, <1>2, <1>3

LEMMA InitSound == Init => IInv
  <1> SUFFICES ASSUME Init PROVE IInv
    OBVIOUS
  <1>1. \A a \in DOMAIN alerts :
          alerts[a] \in Rows /\ alerts[a].last_triggered_at = Never
    BY RowOfTyped DEF Init
  <1>2. TypeOK
    BY <1>1, AlertAssumption DEF Init, TypeOK, Times
  <1>3. LastIsNewest /\ HistoriesHaveRows /\ TriggersAreSpaced
    BY <1>1 DEF Init, LastIsNewest, HistoriesHaveRows, TriggersAreSpaced
  <1>4. QED
    BY <1>2, <1>3 DEF IInv

LEMMA CreateAlertSound == IInv /\ CreateAlert => IInv'
  <1> SUFFICES ASSUME IInv, CreateAlert PROVE IInv'
    OBVIOUS
  <1>1. PICK a \in Ids, fields \in Fields :
          /\ a \notin given
          /\ given' = given \cup {a}
          /\ alerts' = [b \in DOMAIN alerts \cup {a} |->
                          IF b = a THEN RowOf(fields, Never) ELSE alerts[b]]
          /\ UNCHANGED <<events, clock>>
    BY DEF CreateAlert, NewId
  <1>2. a \notin DOMAIN alerts /\ events[a] = <<>>
    BY <1>1 DEF IInv, TypeOK, HistoriesHaveRows
  <1>3. RowOf(fields, Never) \in Rows /\ RowOf(fields, Never).last_triggered_at = Never
    BY RowOfTyped
  <1>4. TypeOK'
    BY <1>1, <1>2, <1>3 DEF IInv, TypeOK
  <1>5. HistoriesHaveRows'
    BY <1>1 DEF IInv, HistoriesHaveRows
  <1>6. LastIsNewest'
    BY <1>1, <1>2, <1>3 DEF IInv, LastIsNewest
  <1>7. TriggersAreSpaced'
    BY <1>1 DEF IInv, TriggersAreSpaced
  <1>8. QED
    BY <1>4, <1>5, <1>6, <1>7 DEF IInv

LEMMA UpdateAlertSound == IInv /\ UpdateAlert => IInv'
  <1> SUFFICES ASSUME IInv, UpdateAlert PROVE IInv'
    OBVIOUS
  <1>1. PICK a \in DOMAIN alerts, fields \in Fields :
          /\ alerts' = [alerts EXCEPT ![a] = RowOf(fields, @.last_triggered_at)]
          /\ UNCHANGED <<events, clock, given>>
    BY DEF UpdateAlert
  <1>2. alerts[a].last_triggered_at \in Times \cup {Never}
    BY DEF IInv, TypeOK, Rows
  <1>3. /\ alerts'[a] \in Rows
        /\ alerts'[a].last_triggered_at = alerts[a].last_triggered_at
    BY <1>1, <1>2, RowOfTyped
  <1>4. TypeOK'
    BY <1>1, <1>3 DEF IInv, TypeOK
  <1>5. LastIsNewest'
    BY <1>1, <1>3 DEF IInv, LastIsNewest
  <1>6. HistoriesHaveRows' /\ TriggersAreSpaced'
    BY <1>1 DEF IInv, HistoriesHaveRows, TriggersAreSpaced
  <1>7. QED
    BY <1>4, <1>5, <1>6 DEF IInv

LEMMA DeleteAlertSound == IInv /\ DeleteAlert => IInv'
  <1> SUFFICES ASSUME IInv, DeleteAlert PROVE IInv'
    OBVIOUS
  <1>1. PICK a \in DOMAIN alerts :
          /\ alerts' = [b \in DOMAIN alerts \ {a} |-> alerts[b]]
          /\ events' = [events EXCEPT ![a] = <<>>]
          /\ UNCHANGED <<clock, given>>
    BY DEF DeleteAlert
  <1>2. events \in [Ids -> Seq(Times)] /\ DOMAIN alerts' = DOMAIN alerts \ {a}
    BY <1>1 DEF IInv, TypeOK
  <1>3. TypeOK'
    BY <1>1, <1>2 DEF IInv, TypeOK
  <1>4. LastIsNewest'
    BY <1>1, <1>2 DEF IInv, LastIsNewest, TypeOK
  <1>5. HistoriesHaveRows'
    BY <1>1, <1>2 DEF IInv, HistoriesHaveRows
  <1>6. TriggersAreSpaced'
    BY <1>1, <1>2 DEF IInv, TriggersAreSpaced
  <1>7. QED
    BY <1>3, <1>4, <1>5, <1>6 DEF IInv

LEMMA TriggerSound == IInv /\ Trigger => IInv'
  <1> SUFFICES ASSUME IInv, Trigger PROVE IInv'
    OBVIOUS
  <1>1. PICK a \in DOMAIN alerts, now \in 0 .. clock :
          /\ ~ WithinCooldown(alerts[a], now)
          /\ alerts' = [alerts EXCEPT ![a].last_triggered_at = now]
          /\ events' = [events EXCEPT ![a] = Append(@, now)]
          /\ UNCHANGED <<clock, given>>
    BY DEF Trigger
  <1> DEFINE h == events[a]
  <1>2. /\ a \in Ids /\ now \in Times /\ h \in Seq(Times) /\ alerts[a] \in Rows
        /\ events \in [Ids -> Seq(Times)]
    BY <1>1, AlertAssumption DEF IInv, TypeOK, Times
  <1>3. h = <<>> \/ now - h[Len(h)] >= Cooldown
    <2>1. CASE h # <<>>
      <3>1. h[Len(h)] \in Times /\ alerts[a].last_triggered_at = h[Len(h)]
        BY <1>2, <2>1 DEF IInv, LastIsNewest
      <3>2. QED
        BY <1>1, <1>2, <3>1, AlertAssumption DEF WithinCooldown, Times, Never
    <2>2. QED
      BY <2>1
  <1>4. \A i, j \in DOMAIN h : i < j => h[j] - h[i] >= Cooldown
    BY <1>2 DEF IInv, TriggersAreSpaced
  <1>5. /\ Append(h, now) \in Seq(Times)
        /\ Append(h, now) # <<>>
        /\ Append(h, now)[Len(Append(h, now))] = now
        /\ \A i, j \in DOMAIN Append(h, now) :
             i < j => Append(h, now)[j] - Append(h, now)[i] >= Cooldown
    BY <1>2, <1>3, <1>4, AppendSpaced
  <1>6. events'[a] = Append(h, now) /\ \A b \in Ids \ {a} : events'[b] = events[b]
    BY <1>1, <1>2
  <1>7. /\ DOMAIN alerts' = DOMAIN alerts
        /\ alerts'[a] \in Rows /\ alerts'[a].last_triggered_at = now
        /\ \A b \in DOMAIN alerts \ {a} : alerts'[b] = alerts[b]
    BY <1>1, <1>2 DEF Rows
  <1>8. TypeOK'
    BY <1>1, <1>2, <1>5, <1>7 DEF IInv, TypeOK
  <1>9. LastIsNewest'
    BY <1>5, <1>6, <1>7 DEF IInv, LastIsNewest, TypeOK
  <1>10. HistoriesHaveRows'
    BY <1>1, <1>6, <1>7 DEF IInv, HistoriesHaveRows
  <1>11. TriggersAreSpaced'
    BY <1>5, <1>6 DEF IInv, TriggersAreSpaced
  <1>12. QED
    BY <1>8, <1>9, <1>10, <1>11 DEF IInv

LEMMA Inductive == Spec => []IInv
  <1>1. IInv /\ [Next]_vars => IInv'
    <2> SUFFICES ASSUME IInv, [Next]_vars PROVE IInv'
      OBVIOUS
    <2>1. CASE UNCHANGED vars
      BY <2>1 DEF vars, IInv, TypeOK, HistoriesHaveRows, LastIsNewest, TriggersAreSpaced
    <2>2. CASE Tick
      BY <2>2, AlertAssumption
         DEF Tick, IInv, TypeOK, HistoriesHaveRows, LastIsNewest, TriggersAreSpaced, Times
    <2>3. QED
      BY <2>1, <2>2, CreateAlertSound, UpdateAlertSound, DeleteAlertSound, TriggerSound DEF Next
  <1>2. QED
    BY <1>1, InitSound, PTL DEF Spec

\* The tables and histories keep their shape under every request, evaluation and
\* tick of the clock.
THEOREM TypeCorrect == Spec => []TypeOK
  BY Inductive, PTL DEF IInv

\* Any two triggers of an alert are a cooldown apart, not only neighbours, whatever
\* was updated in between.
THEOREM AlwaysSpaced == Spec => []TriggersAreSpaced
  BY Inductive, PTL DEF IInv

\* The row's last_triggered_at is the newest time of its history.
THEOREM AlwaysNewest == Spec => []LastIsNewest
  BY Inductive, PTL DEF IInv
=============================================================================
