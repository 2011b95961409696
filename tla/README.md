# FinTrader Hub, specified

FinTrader Hub (`src/FinTrader-Hub_API`) is the backend of a trading journal: a FastAPI process, a Celery
worker and beat, PostgreSQL and Redis. A user keeps portfolios, registers the trades made in them, and gets
positions, profit, risk figures, prices, news and alerts. These modules specify what it does, TLC checks them
on small instances, and TLAPS proves the theorems about them for every value of their constants. Paths below
are relative to `src/FinTrader-Hub_API`.

## 1. Inventory

| Part | State | Operations | Talks to |
|---|---|---|---|
| Position engine, `modules/trade/services/position_engine.py` | none: a loop over sorted trades | `replay_trades` | called by the trade and position services |
| Trades and positions, `modules/trade` | `trades`, `positions` | register, update, delete a trade, recalculate a position | engine; rows link trades to positions |
| Portfolio analytics, `modules/portfolio/services/analytics_service.py` | none | value, profit, allocation, performance | reads positions, trades, latest prices |
| Portfolio risk, `modules/risk` | none | value series, drawdown, ratios, correlation, Kelly | reads trades and daily prices |
| Prices, `modules/market` | `market_prices`; a Redis entry per asset, 60 s | fetch one, update all (every 5 min), read the latest | providers, Redis |
| News, `modules/market` | `news`, unique address | fetch, update all (every 30 min), delete expired | provider |
| Alerts, `modules/alerts` | `alerts`, `alert_events`, `notifications` | create, update, delete, evaluate, evaluate all (every 5 min) | analytics, prices, the mail service |
| Authentication, `modules/auth` | `users`, `refresh_tokens`, `roles` | register, login, refresh, logout | rate limiter, bcrypt, JWT |
| Rate limiter, `core/middleware/setup.py` | a deque per client and path, in the process | admit or answer 429 | in front of login and register |
| Assets, `modules/asset` | `assets` | create, update, switch on and off | prices, news |
| Portfolios, `modules/portfolio/services/portfolio_service.py` | `portfolios` | create, update, delete | everything that has a `portfolio_id` |
| Settings, `modules/settings` | `user_settings`, `api_keys` (encrypted) | read (creates defaults), update; keys | |
| Dashboard, `modules/dashboard` | none | summary, snapshot, daily performance, movers | reads all of the above |
| Start-up, `app/factory.py`, `app/routers/health.py`, `infrastructure/database`, `docker-compose.prod.yml` | the schema and its revision; containers | validate settings, wait for the database, migrate, serve, health; restart, start of the Celery containers | PostgreSQL, Redis, Docker, an operator's alembic |

**Interaction.** A request runs in a thread of one uvicorn process (`docker/Dockerfile:46`), a task in a process
of the worker; each opens one database session (`infrastructure/database/session.py`: no autocommit, no
autoflush, objects expire on commit) and so one READ COMMITTED transaction at a time. No code locks a row
before it reads it. All coordination is what PostgreSQL does by itself: locks of rows written, unique indexes,
foreign keys, and the detection of deadlocks. The cache and the mail service are outside the transaction.

**What is hard.** Reading, deciding and writing in separate statements (trades, alerts, registrations, news);
ORM sessions that write only the columns that differ from what they loaded; objects that expire at a commit
and are read again in an exception handler; side effects before (mail) and after (cache) a commit; a process
that dies in between; two orders over one set of trades; rounding of columns; ties of timestamps; the limits
of time windows; migrations that meet a schema other than the one they were written for, and containers that
wait for each other. The hazards in `PROJECT.json` name the lines.

**What makes each part correct.** Engine: the state is the one the signed sum and the average cost define, and
exactly the senseless ledgers are refused. Trades: every ledger replays, every position row is its replay,
every link points to the position of its pair. Reports: what positions, ledger, latest and daily prices say
agrees. Prices: the cache answers committed rows and becomes current. News: a story is stored once, expired
ones go. Alerts: triggers keep apart, mails are on record, one alert does not stop the others.
Authentication: calls stay under the limit, names and tokens belong to one account. User records: only requests
that overlap break one another, and an update changes what it was asked to. Start-up: the schema is always one
whole revision, nothing runs on an older one, and the stack comes up.

## 2. Modules

| Module | What it is | Code |
|---|---|---|
| `PositionEngine` | the replay as a fold over the order of a ledger | `position_engine.py` |
| `ReplayLoop` | the same loop with its variables as state, one trade a step | `position_engine.py:21` |
| `TradeTables` | rows, columns, validation and ledgers that both trade modules use | `trade_service.py`, models |
| `TradeJournal` | *abstract*: requests on trades, one at a time, whole | `trade_service.py`, `position_service.py`, repositories |
| `TradeSessions` | the same requests as statements of concurrent transactions | the same, and `session.py` |
| `AlertRules` | what an alert is, when it is acceptable, when it can fire | schemas, `alert_evaluator.py`, `alert_service.py:245` |
| `AlertLog` | *abstract*: alerts and their triggers, one at a time | `alert_service.py` |
| `AlertSessions` | requests and the task as statements, with mails and crashes | `alert_service.py`, `alert_tasks.py` |
| `RateLimiter` | the sliding window | `core/middleware/setup.py` |
| `AuthSessions` | the four endpoints as statements, behind `RateLimiter` | `modules/auth` |
| `MarketAssets` | the assets that are switched on | `asset_service.py` |
| `PriceFeed`, `NewsFeed` | the feeds as statements, over `MarketAssets` | `market_service.py`, `price_cache.py`, repositories |
| `PortfolioReports` | what is reported of positions, trades and prices, with `PositionEngine` for the positions | `analytics_service.py`, `risk_service.py`, `drawdown.py` |
| `PositionSizing` | the Kelly stake from the outcomes of the exits of `PortfolioReports` | `risk_service.py:360`, `position_sizing.py` |
| `Dashboard` | the value of all portfolios at the start of the day, over `PortfolioReports` | `dashboard_service.py` |
| `UserRecords` | settings, API keys, portfolios and assets as statements of concurrent requests | `modules/settings`, `modules/portfolio`, `modules/asset` |
| `SchemaHistory` | the nine revisions as lists of statements, and what PostgreSQL demands of each | `migrations/versions` |
| `StartUp` | the API, its migrations and `/health`, the Celery containers, an operator, outages and kills, over `SchemaHistory` | `factory.py`, `migrations_runner.py`, `schema_health.py`, `health.py`, `docker-compose.prod.yml` |
| `ReplayProofs` (lemmas about the replay), `TradeProofs` (of `ReplayLoop` and `TradeJournal`), `TradeSessionProofs`, `AlertSessionProofs`, `AuthProofs` (with `RateLimiter`), `MarketAlertProofs` (of the feeds and of `AlertLog`), `ReportProofs` (of `PortfolioReports`, `PositionSizing` and `Dashboard`), `StackProofs` (of `StartUp` and `UserRecords`) | theorems | |
| `MC...` | instances for TLC; `MCTradeJournal`, `MCMarketFeeds` and `MCStack` put two modules that share no state side by side, a behaviour shows one of them | |

`TradeSessions` implements `TradeJournal` when requests do not overlap, `AlertSessions` implements `AlertLog`,
`AuthSessions` implements the limiter's specification, `ReplayLoop` ends in the value of the fold, and every
path of upgrades and downgrades in `StartUp` ends in the objects that `SchemaHistory` computes from the upgrades
alone.

**State and actions.** In the session modules a variable holds the committed tables, and `session[s]` what a
thread holds: the statement it is at, the rows it loaded, those it wrote and has not committed. An action is
one statement: what it reads is the committed state overlaid with the session's own writes, its guard says
which locks it waits for. Statements between which nothing shared is read or written are one action. A row
another session has deleted is missed the way SQLAlchemy reports it (`StaleDataError`,
`ObjectDeletedError`), a constraint the way PostgreSQL does; both end the request with 500 and roll back.
A flush that writes several rows is one action per row, in the order of their ids, each with its own lock: the trades
that are linked to a new position, and those that are unlinked before one is deleted (`LinkTrade`, `UnlinkTrade`).
What a session has loaded it keeps: a list of trades read again shows the rows it holds with the values they had
(`Listed`), until they expire at the commit. `zone` and `quiet` of a session are history: the pairs its request
overlaps on with others, directly or through others, and that it has met none yet; an emptied position whose
remaining links are trades of other pairs takes their pairs in (`Join`). `dirty` collects the pairs last written by
requests that overlapped.
In `StartUp` an action is one statement of a migration, one attempt to connect or one look of `/health`; a
command of alembic is one transaction, as `env.py:46` opens it, and two of them never write at once, since each
statement takes a lock that the next one needs.
Decimals are fractions `<<numerator, denominator>>`, compared by cross multiplication; columns round with
`Scale` where rounding decides something. Time is a counter, of seconds for tokens and windows, of hours or
days for cooldowns and news: only its order and differences matter. Names, addresses and titles are model
values or members of small sets; passwords, payloads, mail texts and logs are left out.

## 3. Runs

| Run | Question | Bounds, and why they are enough |
|---|---|---|
| `journal` | Does every request leave ledger, position row and links in agreement? Does the replay loop hold the net sum at average cost, refuse exactly the ledgers that cross zero, and equal the fold? | loop: ledgers of up to 4 trades, quantities 0 to 2, two prices, two times: opening, adding, partial and full exit, reopening, ties and zero rows; requests: 3 trades, 2 positions, two users and assets and one unlisted, a quantity that rounds to zero: moves between pairs, refusals, last trade of a pair |
| `sessions_serial` | Are the statements of one request at a time the journal's request? | 4 requests with crashes at any statement |
| `sessions_race` | What can go wrong when two requests overlap, and only then? | two sessions, 3 requests on one pair, crashes |
| `sessions_end` | Does every request end? | two sessions, moves between two pairs in both directions, which deadlock |
| `sessions_oversold` (violation) | Is a ledger always one the engine accepts? | as `sessions_race` |
| `alerts_serial` | Is one request or task at a time the log's step? Can what is stored fire? | 4 requests with good, bad and null fields, metrics that raise, crashes |
| `alerts_race` | What holds of triggers, mails, batches and deletions that overlap? | two alerts, two sessions, a clock as long as a cooldown |
| `alerts_cooldown` (violation) | Are triggers a cooldown apart? | one alert, two sessions |
| `auth` | Do limits, names and tokens stay right when requests overlap and the process restarts? | two clients, capital and small spellings, windows of 2 with 2 calls, 3 requests |
| `market` | Does the cache stay truthful and settle; are stories stored once and swept? | two assets, both on or both off at first (an update of news that finds none goes straight to the deletion), an API thread and a worker, two fetches, reads without bound, three days |
| `reports` | Do value, profit, series, drawdown, stake and start of day agree? | two portfolios and assets, all ledgers and price histories of up to 4 rows over three days of two instants (trades on the first three of the six, which may be registered before their time, so also for a later day), late and stale prices and prices of one time included |
| `stack` | Does the stack come up, on a whole schema, with workers that find the head? What breaks a request on settings, keys, portfolios or assets? | start: databases that are empty, half way (6), one behind (8) and at the head (9), every combination of settings, two attempts to connect, two failing probes to a verdict, two troubles (outage, kill, operator's upgrade, downgrade or second `docker compose up`): enough for a race, a kill within it and a restart, a start that is given up and one that is taken up again; records: two users, two sessions, 3 requests, 2 rows, values that are fit and unfit, one new encryption key |

A session module needs two sessions for every hazard listed: each is a step of one between two of the other,
or two waiting for each other. Bounds on requests are in guards (`MaxRequests`, `MaxFetches`, `MaxAsked`,
`MaxEdits`), as are those on rows, ids and clocks (`MaxTrades`, `MaxPositions`, `MaxRows`, `MaxTime`,
`MaxDay`, `LoopLength`), on what befalls the stack (`MaxTroubles`, `MaxRotations`) and the attempts to connect
(`MaxAttempts`, 30 in the code; the last one is what matters) and the failing probes that make a verdict
(`Retries`, 5 in the file: one that fails and is followed by a success, and one that decides, are what matters); a
probe in the start period may fail without being counted, however often; a system at its bounds stops, hence `CHECK_DEADLOCK FALSE`. That requests themselves do not get stuck is `EveryRequestEnds`. Symmetry is used over sessions only, and in no run with a temporal property that
is liveness.

**Fairness.** Weak fairness of each session's steps: a thread that can run does run, a statement that is not
blocked returns, providers and the mail service are called with timeouts. PostgreSQL's deadlock detector runs,
entries in Redis expire. Nothing is assumed of new requests, crashes, the clock's tick or the users. In `StartUp`:
weak fairness of the API's own steps and of each alembic command (processes run), of the restart
(`restart: unless-stopped`, `docker-compose.prod.yml:21`; `EndsUpHealthy` assumes the policy is there), of the
looks of `/health` (`interval: 30s`), of the start of the Celery containers while `docker compose up` still waits
to start them (`workers = "awaited"`), and of the end of an outage. Of an operator, outages and kills nothing is
assumed but that they are finitely many (`MaxTroubles`). `docker compose up` waits once: it gives up for good when
the API is declared unhealthy, which takes `retries` failures in a row outside the start period
(`docker-compose.prod.yml:22-27`), when a service it also waits for is down, or when the API has exited and no policy
restarts it; the workers are then abandoned until an operator runs it again. `EndsUpHealthy` says what is left to
promise: the API ends up healthy, and nothing is still waited for.

### What the properties say

- `journal`: of the loop `HoldsNet` (what is held is the signed sum of the trades), `AverageWithinEntries` (the
  average lies between the prices of the entries since the last opening), `RaisesExactly`, `FoldIsTheLoop`; of
  the requests `PositionsFollowLedger`, `LinksFollowPositions`, and of the validation `NoOpEditRefusedOnlyOnTies`.
- `sessions_*`: `ImplementsJournal` (refinement), `OnlyOverlapDamages` (a pair is out of step only after requests
  that overlapped on it), `OnlyMovesOrDamageDeadlock` (a request is in a circle of waiting ones only where one on
  its pair moves a trade, or where overlapping requests have left a pair it has to do with out of step),
  `EveryRequestEnds`; violated: `LedgersReplay`.
- `alerts_*`: `ImplementsAlertLog` (refinement), `StoredAlertsCanFire`, `LastIsCommittedLast`,
  `OnlyStaleRowsBreakTheCooldown`, `MailsAreRecorded`, `OnlyDeletionStopsABatch`,
  `EveryRequestEnds`; violated: `TriggersAreSpaced`.
- `auth`: `LimitPerWindow`, `RefusedOnlyWhenFull`, `TokensAreHandedOutOnce`, `DeadTokensAreRefused`,
  `WelcomedOwnTheirAccount`, `TakenNamesAreSaidTaken`.
- `market`: `CachedIsCommitted`, `CacheSettles`, `StoriesAreStoredOnce`, `SweptStaysClean`, `OnlyOverlapCutsShort`.
- `reports`: `TotalIsCashAndValue`, `SeriesEndsWithValue`, `DrawdownIsDeepestFall`, `KellyFollowsProfit` (there is a
  stake only for a portfolio whose exits made a profit), `DayStartsWhereYesterdayEnded` (the dashboard's start of
  day is the risk service's end of yesterday).
- `stack`: `SchemaIsItsRevisions` (at every moment the committed schema is exactly what its revision's upgrades
  make), `OnlyRacesRefuseStatements` (no statement of a migration is refused unless another command overtook it),
  `WorkersFindTheHead` (`README.md:241` and the gate on `/health`), `EndsUpHealthy`
  (liveness), `OnlyOverlapBreaksARequest`, `UpdatesStickUnlessStale`.

Each is explained where it is defined, with the lines it is about; `PROJECT.json` names for each the slip in the
code (a definition marked *a slip* or *a variant* in the modules) that breaks it.

### What the checks found

- **Two SELLs oversell** (`sessions_oversold`). `trade_service.py:140` validates a ledger it read without a
  lock. Two exits that overlap are both accepted, and from then on every recalculation of that pair fails.
- **The cooldown is not kept** (`alerts_cooldown`). `alert_service.py:150` checks a loaded row: an evaluation by
  request and one by the task that overlap both trigger and both mail.

They are recorded as findings. The following are also in the models, as the code has them; nothing in the
repository says otherwise, or only loosely, so they are described here and in the properties' wording:

- A quantity under half a unit of its column is validated as given and stored as zero; the row stays in the
  ledger, and one that would open a position divides zero by zero.
- Two recalculations of a pair that overlap mix their columns in one row, since only changed columns are
  written; the next request that has the pair to itself repairs it (`OnlyOverlapDamages`).
- The edit of a trade is validated behind every other trade of the same time, so an edit that changes nothing
  can be refused (`NoOpEditRefusedOnlyOnTies`).
- A batch of alerts ends early when an alert it has loaded is deleted: the handler reads the expired object.
  An update of news or prices ends early when an INSERT fails: `market_service.py:136` reads the asset's symbol
  before the rollback. The assets after it wait for the next round.
- A story listed for two assets is stored for one, because addresses are unique over all assets.
- Tokens are dated to the second: a second login of an account within one second is answered 500. Names are
  looked up as typed and stored in lower case: a taken name in capitals is answered 500 instead of 409.
- `README.md:60` speaks of rotation; a refresh returns a new access token and the refresh token stays the same.
  `README.md:105` places rate limiting in Redis; it is in the memory of the process and forgotten by a restart.
- A SHORT is valued as if it were long, and of an open position the realized profit is left out;
  `TotalIsCashAndValue` holds where neither happens.
- Deleting a portfolio that trades, positions or alerts refer to is answered 500: no code looks, the foreign key
  does (`portfolio_service.py:60`). A timezone of null passes the schema of the settings' update and not the
  column (`settings_service.py:57`), a currency that grows when it is capitalized does not fit its column: 500.
- An update of an API key after the encryption key has changed is committed and answered 422, because the answer
  shows the old value masked; one such key makes the list of all keys unreadable (`settings_service.py:74, 113`).
- Settings are made by the first read: two at once make one of them fail at the unique user.
- A column set to the value its request has read is not written, so what another request has stored meanwhile
  stays, although the later request asked for something else (`UpdatesStickUnlessStale`).
- alembic takes no lock. Of two commands at once one may find the schema changed under it; it fails whole and, if
  it was the API's, the container starts again. Without a restart policy (`docker-compose.yml`) it stays down.
- A trade may be dated in the future: `executed_at` has no upper bound (`modules/trade/schemas/trade.py:15`,
  `trade_service.py:33`), and the tests register some a few minutes ahead (`test_analytics_flow.py:132`). It is in
  the position and the latest value at once, but in the value series only from its day on (`risk_service.py:437`);
  `SeriesEndsWithValue` and `DayStartsWhereYesterdayEnded` are stated for portfolios without a trade of a later day.
- `docker compose up` waits for the first verdict on the API only. One that is late, or a service that is down just
  then, leaves a stack that becomes healthy without its Celery containers until compose is run again.
- `NEWS_EXPIRATION_DAYS` is any integer (`core/config/settings.py:51`). With 7 or less, what is deleted is still
  listed by the provider (`finnhub/client.py:60`) and stored again by the next update; `StoriesAreStoredOnce` and
  `SweptStaysClean` are stated for a table that keeps news longer (`KeepsLonger`; 30 days are shipped).
- A recalculation reads its position again after it has committed (`position_service.py:85`), a trade's request its
  trade: either may be gone by then, and the answer is 500 to what was done.
- Exits that break even count as losses of a Kelly stake (`position_sizing.py:38`).
- Two prices of one asset may carry the same provider time. The latest price takes the one stored last
  (`market_price_repository.py:23`), the daily series whichever the database returns last (line 42);
  `SeriesEndsWithValue` holds where the last prices do not tie.

## 4. Proofs

All theorems are checked by TLAPS from the named assumptions about the constants: their types (sets, naturals,
owners are users), that `Window`, `Limit`, `Retries` and the like are positive, that lower case of lower case is
itself, that initial rows are ones the code would have stored, that the bounds on rows leave room for the requests,
and that the hours the dashboard looks at lie in each other and in what the risk service loads, as they do in the
code (`DashboardAssumption`). TLC evaluates the same assumptions.
Where a theorem has a hypothesis of its own, it is named below.

**`TradeProofs`, the loop**: `LoopTyped`, `AlwaysHoldsNet`, `AlwaysRaisesExactly`, `StatusAlwaysAgrees`. The
invariant (`LoopInv`) adds to the type that a position was opened no later than the last trade (else a close
could precede its opening, and the order of the ledger is what excludes it), and that status and signed sum
decide what is held. `AverageAlwaysWithinEntries` rests on `FairInv`: the signed sums along the ledger are a
function that exists and is the only one (which `Opening` takes for granted), the position was opened after the
last of them that is zero, and its cost is its quantity at its average, which lies within the entries since.

**`TradeProofs`, the fold**: `FoldAlwaysIsTheLoop`. `Replay` recurs over the subsets of a ledger, and the library's
induction cannot be instantiated; but among the subsets of a finite ledger that break a claim one has no smaller
one that does (`LeastSubset`). From this come, in `ReplayProofs` and in turn: a latest trade exists and is the only one (`LatestIs`), the
function that `Replay` recurs through exists and is the only one, and `ReplayUnfolds`: a ledger replays to its
latest trade applied to the replay of the others. The loop appends the latest trade, so it is the fold.

**`TradeProofs`, the journal**: `JournalTyped`, `PositionsAlwaysFollowLedger`, `LinksAlwaysFollowPositions`,
`PositionIdsAlwaysStable` (a position keeps its id until its pair has no trades). A request writes a trade and
then recalculates one or two pairs; in between, the invariant holds of all pairs but those, so it is stated of
any database a request works on (`Typed`, `Tidy`) and of each pair (`Settled`), and the lemmas follow the
statements of a request. Nothing is used of `Replay` but that it is a function of the ledger, and that nothing
replays to no position. `NoOpEditsAreRefusedOnlyOnTies` does need it: by `ReplayUnfolds`, a trade that shares its
time with no other can take any new id without changing what its ledger replays to (`RenamedReplaysAlike`).

**`TradeSessionProofs`**, for any number of sessions, pairs and requests: `OnlyOverlapEverDamages` and
`OnlyMovesOrDamageEverDeadlock`. That a pair is
in step unless requests overlapped on it is not inductive: one has to know what each request, half way through, is
about to leave behind. The invariant (`SessionsInv`) first fixes which pair each position id was handed out for, then
says of every live request (`Task`):

- how far it is, and what it has written, still has to do and has read by then (`Shape`);
- that all it has written lies in its zone, the pairs its recalculations are about, but for the trades of other
  pairs that it unlinked from a position of its zone (`Holding`, `Loading`);
- and, when it is quiet, so alone in its zone, that what it has read is what is committed until it ends: the trades
  it listed, the position it found, the book it made of them, and that the pairs it is done with or never had to
  touch are settled (`Fresh`).

Any two requests have disjoint zones, or neither is quiet; they have written different rows, and neither has heard
of the position ids the other was handed out (`Apart`). The proof takes each statement twice: what it makes of what
its own session holds (`...Sound`), then that all others keep what they hold (`...Keeps`). Only a commit reaches
other sessions, and outside its zone it changes nothing but links that pointed at its own positions (`CommitBeyond`,
`OthersCommit`).

`OnlyMovesOrDamageEverDeadlock` needs more of every live request (`Orderly`, the last part of the invariant), since
zones grow with every overlap and a request that is not quiet may have read what others have since changed. Of a
pair that is not damaged:

- trades stay in it as the request has read them, and the request works on such a pair only when it was asked for it
  (`InPlace`, `Placed`); a row it has written refers to the position of its own pair, or to the one it referred to
  before (`Refers`);
- a request asked for this pair alone, in a zone without damage, holds of it what a quiet one would hold, however
  many others it overlaps with elsewhere or on the pair itself (`Lone`: `Task` of the same request with the pair as its
  zone); it finds no trades to unlink, and until it links trades it has written its own at most. Another request on the pair is not quiet, so its commit damages the
  pair, and nothing is claimed of it any more (`OthersOrderly`).

From this, on a pair that is in no move and, with all that the requests on it have to do with, not damaged
(`Undisturbed`): who has written the position waits for nobody
(`HoldersPass`), because all it has left to write are links of trades it holds already (`LinksItsOwn`); so who waits
for the position, or to link, waits for nobody who waits (`BlockersPass`); and who deletes the position waits for requests that refer to it and have at most one more to wait for (`ReferrersPass`). Whoever is in
a circle is in every set of requests that contains those it waits for and with each those this one waits for; for
each statement one of these facts gives a set without the request (`NoCircle`).

**`MarketAlertProofs`**, the promise of the alerts: `TypeCorrect`, `AlwaysSpaced`, `AlwaysNewest`. The code compares with the last time only;
that all times are a cooldown apart needs that the last one is the newest, and that a new alert has no history.

**`AlertSessionProofs`**, for any number of sessions: `HistoriesGoWithTheirAlerts`, `LastIsAlwaysCommittedLast`,
`OnlyStaleRowsEverBreakTheCooldown`, `MailsAreAlwaysRecorded`, `OnlyDeletionsStopBatches`. The invariant
(`AlertInv`) says of every row a session has loaded that it is the row its alert had when the alert had as many
events as the row's basis says, that whoever inserts an event holds off the alert's deletion, and counts the
mails of an alert: those on record, those of a session that has mailed and not yet committed, those lost in a
crash. `StoredAlertsCanAlwaysFire` needs that every threshold can be passed (`EveryThresholdCanBePassed`: the
values a metric takes go beyond the thresholds one may store), or nothing could fire. For one session
(`Alone`), `AloneInv` adds that its rows are never stale, and with it `AloneTheCooldownHolds` and
`SessionsAloneImplementAlertLog`: every statement is a step of `AlertLog` or invisible to it.

**`AuthProofs`**, the limiter: `AtMostLimitPerWindow`, `NeverRefusedEarly`, `LimiterTyped`. The deque is the end
of the history of admitted calls, and all that was dropped is older than a window; with the order of the
history, the calls of any window are among the last `Limit`. Every step of the endpoints is a step of the
limiter or leaves it alone (`AuthUsesTheLimiter`), so both hold of them (`AuthIsLimited`,
`AuthIsNotRefusedEarly`). The endpoints: `TokensHaveAccounts`, `NoTokenTwice`, `NoDeadTokenServes`,
`WelcomeLasts`, `ConflictIsSaid`. The invariant ties what a session has inserted and not committed to the
unique indexes: no two rows that are committed or waiting have one name or one token.

**`MarketAlertProofs`**, prices: `AlwaysCommitted`, `AlwaysTyped`. A session carries to the cache only rows that
are committed, and the table keeps a latest row for each asset that has any, which the look-up finds. News:
`SweptAlwaysStaysClean`, `OnlyOverlapEverCutsShort`, `StoriesAreAlwaysStoredOnce`. The invariant (`NewsInv`):
sessions that have inserted addresses hold different ones, a request sees at most one midnight, and a session
that has been the only one since it began reads what is committed. `SweptAlwaysStaysClean` and `StoriesAreAlwaysStoredOnce` are about a table that keeps news
longer than the provider is asked for (`KeepsLonger`, part of the properties). `StoriesAreAlwaysStoredOnce` assumes
besides that a provider dates an address once (`AddressesKeepTheirDay`), which the code takes on trust: it never
compares the date of a story it knows.

**`StackProofs`**, the start: `WorkersAlwaysFindTheHead`, `CommandsStayOnTheirWay`. As long as nobody has
downgraded, each of three things implies that the schema is at its head: what `/health` has seen when it is at
its last look, what Docker has been told, and that the Celery containers run. Only the end of a command changes
the committed schema, and one that leaves the head downwards is remembered as a downgrade; a command stays
between the revision it started from and its goal. The proof uses of a statement only that it leaves the version
row alone. The migrations: `SchemaIsAlwaysItsRevisions`, `OnlyRacesEverRefuseStatements`. Every name of the
schema has a revision, a place in the two scripts of that revision, and needs that are older than itself
(`Of`); a database between two statements holds the names made so far, and that is what the next statement
asks for (`UpStatementFits`, `DownStatementFits`). The invariant (`Whole`): a command whose start revision is
still committed works on such a database; of one that was overtaken nothing is known but that its first UPDATE
of the version row is still ahead, which then finds another revision and fails; and at most one command writes.

**`StackProofs`**, the records: `UpdatesAlwaysStick`, `OnlyOverlapEverBreaksARequest`, `RowsAreNeverRivals`. The
invariant (`RecordsInv`): no two rows, committed or written by requests that wait, share a unique value; what a
request has written is the row as it is committed with the columns it asked for; and until another commits
(`overtaken`) what it has read is what is there.

**`ReportProofs`**: `TotalIsAlwaysCashAndValue`, `SeriesAlwaysEndsWithValue`, `DrawdownIsAlwaysDeepest`,
`DayAlwaysStartsWhereYesterdayEnded`, `KellyAlwaysFollowsProfit`. The reports compute what the engine and each
other compute, in loops of their own. Of the state hardly anything is needed (`ReportsInv`: tables are finite,
every ledger is one the engine accepts, no price is dated after now; trades may be); the work is in the recursions:

- Sums of fractions over sets: `Plus` multiplies denominators and cancels nothing, so it is exact and the order
  does not matter (`SumUnfolds`); sums of parts, of sums and of equal fractions follow (`SumOfParts`, `SumOfSums`,
  `SumsSame`). `Total` and the folds of the community modules are shown to be such sums.
- The loop of `calculate_realized_pnl`, and of the two functions that repeat it, stays in line with the engine's
  over every accepted ledger (`WalkInLine`), although it takes the average anew after each exit: quantity is the
  same number, average and cost are equal fractions. With that, what exits brought is the cash of the ledger and
  the cost of what is held (`LedgerCash`), and summed over the assets the total profit is cash and value.
- A price that is the last of a day is the last of a set of prices (`LastQuote`, `OneLast`); where the last is alone at
  its time, the latest price, the daily series and the dashboard's search all find it.
- `ValueSeries` is the one ordering of finitely many dated points (`OrderedIs`), so its last is today's. Along it
  the loop of `calculate_drawdown` has at each value the deepest fall so far and the fall from the peak
  (`Fallen`): from the highest value a fall is deepest, which is why one peak is enough (`DeeperFrom`).
- The stake is positive when the mean win exceeds what losses, and exits that broke even, take from it
  (`StakeIs`, `StakeSign`); without the latter that is the sign of what all exits brought (`WinsAndLosses`),
  which is the profit taken (`ExitsTakeProfit`).

**Only model-checked.** Liveness (`EveryRequestEnds`, `CacheSettles`, `EndsUpHealthy`): the prover has no ENABLED.
Of `TradeSessions`, the refinement `ImplementsJournal`: an atomic request of `TradeJournal` is a whole run of
statements, so its proof would have to carry, at each statement, what the rest of the request is going to compute.

**What proving found.** `TradeSessions` used to claim that only moves of trades deadlock. It does not follow: two
requests that overlap can leave the links of a pair out of step, and two later recalculations then update the
trades of one pair in opposite orders; TLC finds it with four requests on one pair, more than the run had. The
claim is now `OnlyMovesOrDamageDeadlock`, and it names the pairs: since a request that deletes the position of such
a pair unlinks, one row at a time, whatever trades refer to it, damage anywhere in its zone may matter. It also said that whoever waits behind a circle
is in it; `InDeadlock` is now the circle itself, as PostgreSQL sees it.

## 5. Plan

Done: engine, trades, alerts, limiter and authentication, feeds, reports, user records, start-up, in this order:
the ledger is what everything else is computed from, alerts act on their own, the rest is less entangled.

To prove more: the refinement of `TradeJournal` by `TradeSessions` when one request is served at a time.

To model more: what the dashboard's summary adds up when one portfolio's figures raise and the others' do not;
the exposure and allocation shares.

## 6. Not modelled

Ratios, correlation, exposure and allocation, and the fixed-risk position size: formulas over floats, without
state. The dashboard's lists of movers and alerts: sorted copies of what the analytics and the alerts say. The
selection of a provider, its three attempts and the parsing of payloads: the feeds take every outcome they can
have. HTTP, hashing, signing and encryption, configuration, logging: no state of their own. The broker's
redelivery: tasks are acknowledged before they run and never retried, so that a task may start at any time,
beside any other, is all there is. Columns and indexes in the migrations: each belongs to one table and comes
and goes with it. The tests are read as documentation.

No property speaks of these, although the models have the steps: a trade that was committed and is answered 500
because another request deletes it before it is read again (`trade_service.py:48`; the same step of other rows is
in `OnlyOverlapBreaksARequest`); a mail that fails and starts the cooldown all the same (`alert_service.py:235`;
nothing promises a retry); the limiter's windows, which a restart forgets (`middleware/setup.py:39`; the limit is
one of a life of the process).
