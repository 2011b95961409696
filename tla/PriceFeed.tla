------------------------------ MODULE PriceFeed ------------------------------
(***************************************************************************)
(* Prices: POST /market/prices/fetch, the periodic update of all prices,   *)
(* and GET /market/prices/{id}/latest through the cache in Redis           *)
(* (modules/market, infrastructure/cache, infrastructure/tasks).           *)
(*                                                                         *)
(* A fetch asks the providers, inserts a row, commits it, and only then    *)
(* writes it to the cache.  A read that misses the cache fills it with the *)
(* row it found.  Nothing orders the writes of two threads to the cache:   *)
(* that an old price leaves it again is left to its time to live.          *)
(***************************************************************************)
EXTENDS Integers, FiniteSets, MarketAssets

CONSTANTS
  PriceSessions,   \* API threads and worker processes
  Stamps,          \* the times providers put on prices
  MaxFetches       \* bound on the fetches and updates begun

ASSUME PriceAssumption ==
  /\ Stamps \subseteq Nat
  /\ MaxFetches \in Nat

VARIABLES
  prices,     \* the committed market_prices table
  lastId,     \* the sequence behind its ids
  cache,      \* cache[a]: what Redis holds under the key of asset a
  psession,   \* psession[s]: what session s is doing
  fetches     \* fetches and updates begun

priceVars == <<prices, lastId, cache, psession, fetches>>

PriceIdle == [pc |-> "idle"]

NotCached == [row |-> "none"]

PriceInit ==
  /\ prices = {}
  /\ lastId = 0
  /\ cache = [a \in Assets |-> NotCached]
  /\ psession = [s \in PriceSessions |-> PriceIdle]
  /\ fetches = 0

-----------------------------------------------------------------------------
PriceAt(s, pc) == psession[s].pc = pc

PriceGoto(s, state) == psession' = [psession EXCEPT ![s] = state]

PricesOf(a) == {row \in prices : row.asset = a}

\* The latest of a non-empty set of rows: by the provider's time, then by id.
Later(row, other) ==
  \/ row.stamp > other.stamp
  \/ row.stamp = other.stamp /\ row.id >= other.id

Latest(rows) == CHOOSE row \in rows : \A other \in rows : Later(row, other)

\* A slip: the entry is written without a time to live.
StoresForever(a, row) == cache' = [cache EXCEPT ![a] = [row |-> row, ttl |-> FALSE]]

\* setex; an error of Redis is logged and forgotten.
Stores(a, row) ==
  \/ cache' = [cache EXCEPT ![a] = [row |-> row, ttl |-> TRUE]]
  \/ UNCHANGED cache

\* An asset is done with: one fetch ends, an update goes on with those in todo.
Done(s) ==
  PriceGoto(s, IF psession[s].todo = {} THEN PriceIdle
               ELSE [pc |-> "next-price", todo |-> psession[s].todo])

-----------------------------------------------------------------------------
(***************************************************************************)
(* Fetching one price, and all of them                                     *)
(***************************************************************************)
\* The asset is read, and must be active.
BeginFetch(s) ==
  \E a \in Assets :
    /\ PriceAt(s, "idle")
    /\ fetches < MaxFetches
    /\ fetches' = fetches + 1
    /\ IF a \in active
       THEN PriceGoto(s, [pc |-> "ask", asset |-> a, todo |-> {}])
       ELSE UNCHANGED psession
    /\ UNCHANGED <<active, prices, lastId, cache>>

\* update_market_prices lists the active assets, and finds the first still loaded.
BeginUpdate(s) ==
  \E a \in active :
    /\ PriceAt(s, "idle")
    /\ fetches < MaxFetches
    /\ fetches' = fetches + 1
    /\ PriceGoto(s, [pc |-> "ask", asset |-> a, todo |-> active \ {a}])
    /\ UNCHANGED <<active, prices, lastId, cache>>

\* A commit or rollback has expired the others: each is read again in its turn.
NextPrice(s) ==
  /\ PriceAt(s, "next-price")
  /\ \E a \in psession[s].todo :
       LET rest == psession[s].todo \ {a} IN
       PriceGoto(s, CASE a \in active -> [pc |-> "ask", asset |-> a, todo |-> rest]
                      [] rest = {} -> PriceIdle
                      [] OTHER -> [pc |-> "next-price", todo |-> rest])
  /\ UNCHANGED <<active, prices, lastId, cache, fetches>>

\* The providers of the asset's type are tried in turn, each three times; none may
\* have a price, and the fallback's may be older than the one before.
AskProviders(s) ==
  /\ PriceAt(s, "ask")
  /\ \/ Done(s)
     \/ \E stamp \in Stamps :
          PriceGoto(s, [pc |-> "insert-price", asset |-> psession[s].asset,
                        stamp |-> stamp, todo |-> psession[s].todo])
  /\ UNCHANGED <<active, prices, lastId, cache, fetches>>

NewRow(s) == [asset |-> psession[s].asset, id |-> lastId + 1, stamp |-> psession[s].stamp]

\* A slip: the cache is written as the row is, before the commit.
InsertPriceCached(s) ==
  /\ PriceAt(s, "insert-price")
  /\ lastId' = lastId + 1
  /\ PriceGoto(s, [pc |-> "commit-price", row |-> NewRow(s), todo |-> psession[s].todo])
  /\ Stores(psession[s].asset, NewRow(s))
  /\ UNCHANGED <<active, prices, fetches>>

\* A price that does not fit its column is refused, which ends an update as well:
\* to log the symbol of the asset, the handler reads it before it rolls back.
InsertPrice(s) ==
  /\ PriceAt(s, "insert-price")
  /\ lastId' = lastId + 1
  /\ \/ PriceGoto(s, PriceIdle)
     \/ PriceGoto(s, [pc |-> "commit-price", row |-> NewRow(s), todo |-> psession[s].todo])
  /\ UNCHANGED <<active, prices, cache, fetches>>

CommitPrice(s) ==
  LET row == psession[s].row IN
  /\ PriceAt(s, "commit-price")
  /\ prices' = prices \cup {row}
  /\ PriceGoto(s, [pc |-> "cache-saved", row |-> row, todo |-> psession[s].todo])
  /\ UNCHANGED <<active, lastId, cache, fetches>>

CacheSaved(s) ==
  /\ PriceAt(s, "cache-saved")
  /\ Stores(psession[s].row.asset, psession[s].row)
  /\ Done(s)
  /\ UNCHANGED <<active, prices, lastId, fetches>>

-----------------------------------------------------------------------------
(***************************************************************************)
(* Reading the latest price                                                *)
(***************************************************************************)
\* A hit is answered as it is, and leaves its time to live alone.  A miss, or a Redis
\* that fails, sends the request to the table: without a row, 404.
BeginRead(s) ==
  \E a \in Assets :
    /\ PriceAt(s, "idle")
    /\ PriceGoto(s, [pc |-> "read-latest", asset |-> a])
    /\ UNCHANGED <<active, prices, lastId, cache, fetches>>

ReadLatest(s) ==
  LET rows == PricesOf(psession[s].asset) IN
  /\ PriceAt(s, "read-latest")
  /\ PriceGoto(s, IF rows = {} THEN PriceIdle
                  ELSE [pc |-> "cache-read", row |-> Latest(rows)])
  /\ UNCHANGED <<active, prices, lastId, cache, fetches>>

CacheRead(s) ==
  /\ PriceAt(s, "cache-read")
  /\ Stores(psession[s].row.asset, psession[s].row)
  /\ PriceGoto(s, PriceIdle)
  /\ UNCHANGED <<active, prices, lastId, fetches>>

-----------------------------------------------------------------------------
\* The time to live of an entry runs out.
ExpirePrice(a) ==
  /\ cache[a] # NotCached
  /\ cache[a].ttl
  /\ cache' = [cache EXCEPT ![a] = NotCached]
  /\ UNCHANGED <<active, prices, lastId, psession, fetches>>

\* The process of a session dies; what it had not committed is gone.
PriceSessionDies(s) ==
  /\ psession[s] # PriceIdle
  /\ PriceGoto(s, PriceIdle)
  /\ UNCHANGED <<active, prices, lastId, cache, fetches>>

PriceStep(s) ==
  \/ NextPrice(s) \/ AskProviders(s) \/ InsertPrice(s) \/ CommitPrice(s) \/ CacheSaved(s)
  \/ ReadLatest(s) \/ CacheRead(s)

PriceNext ==
  \/ \E s \in PriceSessions :
       BeginFetch(s) \/ BeginUpdate(s) \/ BeginRead(s) \/ PriceStep(s) \/ PriceSessionDies(s)
  \/ \E a \in Assets : ExpirePrice(a)

PriceSpec ==
  /\ AssetsInit /\ PriceInit
  /\ [][PriceNext \/ (UpdateAsset /\ UNCHANGED priceVars)]_<<active, priceVars>>

\* Requests run to their end: providers are asked with timeouts.  Time passes.
PriceFairness ==
  /\ \A s \in PriceSessions : WF_<<active, priceVars>>(PriceStep(s))
  /\ \A a \in Assets : WF_<<active, priceVars>>(ExpirePrice(a))

-----------------------------------------------------------------------------
Entries == [asset : Assets, id : 1 .. lastId, stamp : Stamps]

\* Rows are numbered by the sequence, entries of the cache are rows of their asset.
PriceTypeOK ==
  /\ active \subseteq Assets
  /\ lastId \in Nat /\ fetches \in 0 .. MaxFetches
  /\ prices \subseteq Entries
  /\ cache \in [Assets -> {NotCached} \cup [row : Entries, ttl : BOOLEAN]]

\* What the cache answers is a committed row of its asset: a fetch writes it after the
\* commit (market_service.py:45), so that no crash in between leaves a price in the
\* cache that the table never gets.
CachedIsCommitted ==
  \A a \in Assets : cache[a] # NotCached => cache[a].row \in PricesOf(a)

\* Once fetching stops, the cache settles on the latest price: a fetch may write a
\* price older than the table's, and a slow reader an overtaken one
\* (market_service.py:47, 60), and only the time to live removes them.
CacheSettles ==
  \A a \in Assets :
    <>[](cache[a] = NotCached \/ cache[a].row = Latest(PricesOf(a)))
=============================================================================
