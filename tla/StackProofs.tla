----------------------------- MODULE StackProofs -----------------------------
(***************************************************************************)
(* Theorems of StartUp, for every number of attempts and troubles and      *)
(* every revision that an earlier release may have left, and of            *)
(* UserRecords, for every set of users, sessions and values.               *)
(***************************************************************************)
EXTENDS StartUp, UserRecords, TLAPS

-----------------------------------------------------------------------------
(***************************************************************************)
(* The start.                                                              *)
(***************************************************************************)
Revisions == 0..Latest

\* A database, of which only the revision matters here.
IsDatabase(d) ==
  /\ d = [revision |-> d.revision, objects |-> d.objects, held |-> d.held, roles |-> d.roles]
  /\ d.revision \in Revisions

\* A command is between the revision it starts from and its goal, and what it
\* has written is a database.
IsJob(j) ==
  /\ j = [phase |-> j.phase, goal |-> j.goal, from |-> j.from, at |-> j.at,
          pos |-> j.pos, work |-> j.work]
  /\ j.phase \in {"idle", "ready", "writing"}
  /\ {j.goal, j.from, j.at} \subseteq Revisions
  /\ j.goal > j.from => j.at <= j.goal
  /\ j.goal <= j.from => j.at >= j.goal
  /\ j.phase = "writing" => IsDatabase(j.work)

Typed ==
  /\ IsDatabase(schema)
  /\ DOMAIN job = Migrators
  /\ \A m \in Migrators : IsJob(job[m])

AtHead == schema.revision = Latest

\* What /health has seen, what Docker has been told and what runs on it.
Known ==
  ~downgraded =>
    /\ probe.at = "schema" /\ probe.ok => AtHead
    /\ health.status = "healthy" => AtHead
    /\ workers = "running" => AtHead

IInv == Typed /\ Known

-----------------------------------------------------------------------------
\* The literal is the last revision of the history.
LEMMA HeadIsLatest == Latest = 9 /\ HeadRevision = Latest
  BY DEF Latest, History, HeadRevision

\* A statement leaves the version row alone.
LEMMA ExecutedKeepsRevision ==
  ASSUME NEW d, NEW s, IsDatabase(d)
  PROVE  IsDatabase(Executed(d, s)) /\ Executed(d, s).revision = d.revision
<1>1. ASSUME NEW name
      PROVE  IsDatabase(Without(d, name)) /\ Without(d, name).revision = d.revision
  BY DEF IsDatabase, Without
<1>2. CASE s.kind = "make"
  BY <1>2 DEF Executed, Adding, IsDatabase
<1>3. CASE s.kind = "ensure" /\ ~Exists(d, s.name)
  BY <1>3 DEF Executed, Adding, IsDatabase
<1>4. CASE s.kind \in {"drop", "discard"} /\ Exists(d, s.name)
  BY <1>1, <1>4 DEF Executed
<1>5. CASE s.kind = "insert"
  BY <1>5 DEF Executed, IsDatabase
<1>6. CASE s.kind = "purge"
  BY <1>6 DEF Executed, IsDatabase
<1>7. CASE s.kind = "restore"
  BY <1>7 DEF Executed, IsDatabase
<1> QED
  BY <1>2, <1>3, <1>4, <1>5, <1>6, <1>7 DEF Executed

\* What a command meets is a database.
LEMMA MetIsDatabase ==
  ASSUME Typed, NEW m \in Migrators, job[m].phase \in {"ready", "writing"}
  PROVE  IsDatabase(Met(m))
  BY DEF Typed, IsJob, Met

LEMMA IdleIsAJob == IsJob(NoJob)
  BY HeadIsLatest DEF IsJob, NoJob, Revisions

\* Nothing is learnt or forgotten while the schema stays as it is.
LEMMA KnownStays ==
  ASSUME Known, UNCHANGED <<schema, downgraded>>,
         probe'.at = "schema" => probe' = probe,
         health'.status = "healthy" => health.status = "healthy",
         workers' = "running" => workers = "running"
  PROVE  Known'
  BY DEF Known, AtHead

\* A step of one command.
LEMMA OneJobMoves ==
  ASSUME Typed, NEW m \in Migrators, schema' = schema, DOMAIN job' = DOMAIN job, IsJob(job'[m]),
         \A n \in Migrators \ {m} : job'[n] = job[n]
  PROVE  Typed'
<1>1. IsDatabase(schema)'
  BY DEF Typed, IsDatabase
<1>2. \A n \in Migrators : IsJob(job'[n])
  BY DEF Typed
<1> QED
  BY <1>1, <1>2 DEF Typed, IsJob, IsDatabase

-----------------------------------------------------------------------------
\* Steps that leave database, commands and health alone, or end a process.
LEMMA ProcessSteps ==
  ASSUME IInv, Boot \/ AwaitDatabase \/ Restart \/ Kill \/ Outage \/ Recover \/ GiveUp \/ ComposeAgain
  PROVE  IInv'
<1>1. Typed'
  BY IdleIsAJob DEF IInv, Typed, Boot, AwaitDatabase, Restart, Kill, Outage, Recover, Gone, GiveUp,
                    ComposeAgain
<1>2. Known'
  BY KnownStays DEF IInv, Boot, AwaitDatabase, Restart, Kill, Outage, Recover, Gone, NoProbe, Unknown,
                    GiveUp, ComposeAgain
<1> QED
  BY <1>1, <1>2 DEF IInv

LEMMA BeginsAJob ==
  ASSUME Typed, NEW m \in Migrators, NEW goal \in Revisions, Begin(m, goal), schema' = schema
  PROVE  Typed'
<1>1. IsJob(job'[m])
  BY HeadIsLatest DEF Typed, Begin, IsJob, IsDatabase, Revisions
<1>2. ASSUME NEW n \in Migrators \ {m}
      PROVE  job'[n] = job[n]
  BY DEF Typed, Begin
<1> QED
  BY <1>1, <1>2, OneJobMoves DEF Begin

LEMMA BeginSteps ==
  ASSUME IInv, Migrate \/ OperatorCommand
  PROVE  IInv'
<1>1. Latest \in Revisions /\ (schema.revision > 0 => schema.revision - 1 \in Revisions)
  BY HeadIsLatest DEF IInv, Typed, IsDatabase, Revisions
<1>2. Typed'
  BY <1>1, BeginsAJob DEF IInv, Typed, Migrate, OperatorCommand, Migrators
<1>3. Known'
  BY KnownStays DEF IInv, Migrate, OperatorCommand
<1> QED
  BY <1>2, <1>3 DEF IInv

LEMMA StatementStep ==
  ASSUME IInv, NEW m \in Migrators, Statement(m)
  PROVE  IInv'
<1>1. IsDatabase(Met(m))
  BY MetIsDatabase DEF IInv, Statement, AtStatement, Runs
<1>2. IsJob(job'[m])
  <2> DEFINE done == Executed(Met(m), Script(m)[job[m].pos])
  <2>1. IsDatabase(done)
    BY <1>1, ExecutedKeepsRevision
  <2>2. job'[m] = InTransaction(m, job[m].at, job[m].pos + 1, done)
    BY DEF Statement, IInv, Typed
  <2> HIDE DEF done
  <2> QED
    BY <2>1, <2>2 DEF IInv, Typed, IsJob, InTransaction
<1>3. ASSUME NEW n \in Migrators \ {m}
      PROVE  job'[n] = job[n]
  BY DEF Statement, IInv, Typed
<1>4. Typed'
  BY <1>2, <1>3, OneJobMoves DEF Statement, IInv
<1>5. Known'
  BY KnownStays DEF IInv, Statement
<1> QED
  BY <1>4, <1>5 DEF IInv

LEMMA StampStep ==
  ASSUME IInv, NEW m \in Migrators, Stamp(m)
  PROVE  IInv'
<1> DEFINE next == IF Ascends(m) THEN job[m].at + 1 ELSE job[m].at - 1
           done == [Met(m) EXCEPT !.revision = next]
<1>1. /\ next \in Revisions
      /\ job[m].goal > job[m].from => next <= job[m].goal
      /\ job[m].goal <= job[m].from => next >= job[m].goal
  BY HeadIsLatest DEF IInv, Typed, IsJob, Stamp, AtStamp, Runs, Ascends, Revisions
<1>2. IsDatabase(done)
  <2>1. IsDatabase(Met(m))
    BY MetIsDatabase DEF IInv, Stamp, AtStamp, Runs
  <2> QED
    BY <1>1, <2>1 DEF IsDatabase
<1>3. IsJob(job'[m])
  <2>1. job'[m] = InTransaction(m, next, 1, done)
    BY DEF Stamp, IInv, Typed
  <2> HIDE DEF next, done
  <2> QED
    BY <1>1, <1>2, <2>1 DEF IInv, Typed, IsJob, InTransaction
<1>4. ASSUME NEW n \in Migrators \ {m}
      PROVE  job'[n] = job[n]
  BY DEF Stamp, IInv, Typed
<1>5. Typed'
  BY <1>3, <1>4, OneJobMoves DEF Stamp, IInv
<1>6. Known'
  BY KnownStays DEF IInv, Stamp
<1> QED
  BY <1>5, <1>6 DEF IInv

\* The one step that changes the committed schema: it leaves the head only
\* downwards, and that is remembered.
LEMMA FinishStep ==
  ASSUME IInv, NEW m \in Migrators, Finish(m)
  PROVE  IInv'
<1>1. IsDatabase(Met(m))
  BY MetIsDatabase DEF IInv, Finish
<1>2. Typed'
  BY <1>1, IdleIsAJob DEF IInv, Typed, Finish, IsJob, IsDatabase
<1>3. ASSUME ~downgraded', AtHead
      PROVE  AtHead'
  <2>1. ~(Met(m).revision < schema.revision)
    BY <1>3, Zenon DEF Finish
  <2>2. Met(m).revision \in Revisions
    BY <1>1 DEF IsDatabase
  <2>3. Met(m).revision = Latest
    BY <1>3, <2>1, <2>2, HeadIsLatest DEF AtHead, Revisions
  <2> QED
    BY <2>3 DEF Finish, AtHead
<1>4. Known'
  BY <1>3 DEF Finish, IInv, Known
<1> QED
  BY <1>2, <1>4 DEF IInv

LEMMA FailStep ==
  ASSUME IInv, NEW m \in Migrators, Fail(m)
  PROVE  IInv'
<1>1. Typed'
  BY IdleIsAJob DEF IInv, Typed, Fail
<1>2. Known'
  BY KnownStays DEF IInv, Fail
<1> QED
  BY <1>1, <1>2 DEF IInv

\* A verdict starts no container, and tells of health only after a probe that went well.
LEMMA VerdictIs ==
  ASSUME NEW well \in BOOLEAN, Verdict(well)
  PROVE  /\ workers' = "running" => workers = "running"
         /\ health'.status = "healthy" => health.status = "healthy" \/ well
<1>1. CASE health' = Probed(well)
  <2>1. Verdict(well) => (workers' = "running" => workers = "running")
    BY DEF Verdict
  <2>2. Probed(well).status = "healthy" => health.status = "healthy" \/ well
    BY DEF Probed
  <2> QED
    BY <1>1, <2>1, <2>2
<1>2. CASE UNCHANGED <<health, workers>>
  BY <1>2
<1> QED
  BY <1>1, <1>2 DEF Verdict

\* /health answers 200 only if it has seen the head at its look at the version
\* row, and what it saw lasts.
LEMMA HealthSteps ==
  ASSUME IInv, Probes \/ StartWorkers
  PROVE  IInv'
<1> USE DEF Probes
<1>0. UNCHANGED <<schema, job>>
  BY DEF ProbeDatabase, ProbeRedis, ProbeMigrations, ProbeSchema, ProbeRefused, StartWorkers, Looks
<1>1. Typed'
  BY <1>0 DEF IInv, Typed, IsJob, IsDatabase
<1>2. MigrationsStatus = "applied" => AtHead
  BY HeadIsLatest DEF MigrationsStatus, AtHead
<1>3. AtHead' = AtHead /\ downgraded' = downgraded
  BY DEF AtHead, ProbeDatabase, ProbeRedis, ProbeMigrations, ProbeSchema, ProbeRefused,
         StartWorkers, Looks
<1>4. CASE ProbeSchema
  <2>1. PICK well \in BOOLEAN : /\ Verdict(well)
                                /\ well => probe.at = "schema" /\ probe.ok
    BY <1>4 DEF ProbeSchema
  <2>2. /\ workers' = "running" => workers = "running"
        /\ health'.status = "healthy" => health.status = "healthy" \/ well
    BY <2>1, VerdictIs
  <2>3. probe'.at # "schema"
    BY <1>4 DEF ProbeSchema, NoProbe
  <2>4. Known'
    BY <1>3, <2>1, <2>2, <2>3 DEF IInv, Known
  <2> QED
    BY <1>1, <2>4 DEF IInv
<1>5. CASE ProbeRefused
  <2>1. Verdict(FALSE) /\ UNCHANGED <<schema, downgraded, probe>>
    BY <1>5 DEF ProbeRefused
  <2>2. /\ workers' = "running" => workers = "running"
        /\ health'.status = "healthy" => health.status = "healthy"
    BY <2>1, VerdictIs
  <2>3. Known'
    BY <2>1, <2>2, KnownStays DEF IInv
  <2> QED
    BY <1>1, <2>3 DEF IInv
<1>6. CASE ProbeDatabase \/ ProbeRedis \/ ProbeMigrations \/ StartWorkers
  <2>1. ~downgraded' /\ workers' = "running" => AtHead'
    BY <1>3, <1>6 DEF IInv, Known, ProbeDatabase, ProbeRedis, ProbeMigrations, StartWorkers, Looks
  <2>2. ~downgraded' /\ health'.status = "healthy" => AtHead'
    BY <1>3, <1>6 DEF IInv, Known, ProbeDatabase, ProbeRedis, ProbeMigrations, StartWorkers, Looks
  <2>3. ~downgraded' /\ probe'.at = "schema" /\ probe'.ok => AtHead'
    <3>1. CASE ProbeMigrations
      BY <1>2, <1>3, <3>1 DEF ProbeMigrations, Looks
    <3>2. CASE ProbeDatabase \/ ProbeRedis
      BY <3>2 DEF ProbeDatabase, ProbeRedis, Looks
    <3>3. CASE StartWorkers
      BY <1>3, <3>3 DEF StartWorkers, IInv, Known
    <3> QED
      BY <1>6, <3>1, <3>2, <3>3
  <2>4. Known'
    BY <2>1, <2>2, <2>3 DEF Known
  <2> QED
    BY <1>1, <2>4 DEF IInv
<1> QED
  BY <1>4, <1>5, <1>6

-----------------------------------------------------------------------------
LEMMA InitHolds == StartInit => IInv
<1> SUFFICES ASSUME StartInit PROVE IInv
  OBVIOUS
<1>1. IsDatabase(schema)
  BY StartUpAssumption, HeadIsLatest DEF StartInit, Database, IsDatabase, Revisions
<1>2. Typed
  BY <1>1, IdleIsAJob DEF StartInit, Typed
<1>3. Known
  BY DEF StartInit, Known, NoProbe, Unknown
<1> QED
  BY <1>2, <1>3 DEF IInv

LEMMA NextKeeps == IInv /\ [StartNext]_startVars => IInv'
<1> SUFFICES ASSUME IInv, [StartNext]_startVars PROVE IInv'
  OBVIOUS
<1>1. CASE UNCHANGED startVars
  BY <1>1 DEF startVars, IInv, Typed, IsJob, IsDatabase, Known, AtHead
<1>2. CASE StartNext
  BY <1>2, ProcessSteps, BeginSteps, StatementStep, StampStep, FinishStep, FailStep, HealthSteps
     DEF StartNext, Probes
<1> QED
  BY <1>1, <1>2

\* Every behaviour of the start keeps to the invariant.
LEMMA IInvHolds == StartSpec => []IInv
  BY InitHolds, NextKeeps, PTL DEF StartSpec

\* Whatever is killed, lost, retried or run beside it, the Celery containers are
\* started on a schema at its head, which it leaves only by a downgrade
\* (docker-compose.prod.yml:71, health.py:36).
THEOREM WorkersAlwaysFindTheHead == StartSpec => []WorkersFindTheHead
<1>1. IInv => WorkersFindTheHead
  BY DEF IInv, Known, AtHead, WorkersFindTheHead
<1> QED
  BY <1>1, IInvHolds, PTL

\* The committed version row is always one of the history's, and a command never
\* leaves the way from where it started to its goal.
THEOREM CommandsStayOnTheirWay == StartSpec => []Typed
<1>1. IInv => Typed
  BY DEF IInv
<1> QED
  BY <1>1, IInvHolds, PTL

-----------------------------------------------------------------------------
(***************************************************************************)
(* The migrations.  Each name has its revision and its places in the two   *)
(* scripts of it; a database between two statements holds the names up to  *)
(* there, and that is what the next statement asks for.                    *)
(***************************************************************************)
\* A name, the revision that makes it, the places of the statements that make and
\* drop it in the scripts of that revision, and what it needs.
Thing(revision, made, dropped, needs) ==
  [revision |-> revision, made |-> made, dropped |-> dropped, needs |-> needs]

Names ==
  {"roles", "users", "refresh_tokens", "portfolios", "asset_type", "market_type", "assets",
   "trade_type", "position_type", "position_status", "positions", "trades", "market_prices",
   "news", "alert_type", "alert_condition", "alerts", "alert_events", "notification_channel",
   "notification_status", "notifications", "user_settings", "api_key_provider", "api_keys"}

Of(n) ==
  CASE n = "roles"                -> Thing(2, 1, 3, {})
    [] n = "users"                -> Thing(2, 2, 2, {"roles"})
    [] n = "refresh_tokens"       -> Thing(2, 3, 1, {"users"})
    [] n = "portfolios"           -> Thing(3, 1, 1, {"users"})
    [] n = "asset_type"           -> Thing(4, 1, 3, {})
    [] n = "market_type"          -> Thing(4, 2, 2, {})
    [] n = "assets"               -> Thing(4, 3, 1, {"asset_type", "market_type"})
    [] n = "trade_type"           -> Thing(5, 1, 5, {})
    [] n = "position_type"        -> Thing(5, 2, 4, {})
    [] n = "position_status"      -> Thing(5, 3, 3, {})
    [] n = "positions"            -> Thing(5, 4, 2, {"assets", "portfolios", "position_type", "position_status"})
    [] n = "trades"               -> Thing(5, 5, 1, {"assets", "portfolios", "positions", "trade_type"})
    [] n = "market_prices"        -> Thing(6, 1, 2, {"assets"})
    [] n = "news"                 -> Thing(6, 2, 1, {"assets"})
    [] n = "alert_type"           -> Thing(7, 1, 7, {})
    [] n = "alert_condition"      -> Thing(7, 2, 6, {})
    [] n = "alerts"               -> Thing(7, 3, 3, {"users", "assets", "portfolios", "alert_type", "alert_condition"})
    [] n = "alert_events"         -> Thing(7, 4, 2, {"alerts"})
    [] n = "notification_channel" -> Thing(7, 5, 5, {})
    [] n = "notification_status"  -> Thing(7, 6, 4, {})
    [] n = "notifications"        -> Thing(7, 7, 1, {"alert_events", "notification_channel", "notification_status"})
    [] n = "user_settings"        -> Thing(8, 1, 2, {"users"})
    [] n = "api_key_provider"     -> Thing(8, 2, 3, {})
    [] n = "api_keys"             -> Thing(8, 3, 1, {"users", "api_key_provider"})

\* What something needs is made before it and dropped after it.
LEMMA NeedsAreOlder ==
  ASSUME NEW n \in Names, NEW k \in Of(n).needs
  PROVE  /\ k \in Names
         /\ \/ Of(k).revision < Of(n).revision
            \/ /\ Of(k).revision = Of(n).revision
               /\ Of(k).made < Of(n).made
               /\ Of(k).dropped > Of(n).dropped
  BY DEF Names, Of, Thing

LEMMA EachIsMadeOnce ==
  ASSUME NEW n \in Names, NEW k \in Names, Of(n).revision = Of(k).revision
  PROVE  /\ Of(n).made = Of(k).made => n = k
         /\ Of(n).dropped = Of(k).dropped => n = k
  BY DEF Names, Of, Thing

LEMMA Lengths ==
  /\ Len(History[1].up) = 0 /\ Len(History[1].down) = 0
  /\ Len(History[2].up) = 4 /\ Len(History[2].down) = 3
  /\ Len(History[3].up) = 1 /\ Len(History[3].down) = 1
  /\ Len(History[4].up) = 3 /\ Len(History[4].down) = 3
  /\ Len(History[5].up) = 5 /\ Len(History[5].down) = 5
  /\ Len(History[6].up) = 2 /\ Len(History[6].down) = 2
  /\ Len(History[7].up) = 7 /\ Len(History[7].down) = 7
  /\ Len(History[8].up) = 3 /\ Len(History[8].down) = 3
  /\ Len(History[9].up) = 1 /\ Len(History[9].down) = 1
  BY DEF History, Foundation, AuthModule, PortfolioModule, AssetModule, TradeModule, MarketModule,
         AlertsModule, SettingsModule, RemoveAdminRole

\* No place of a name is beyond the statements of its revision, and none is the
\* place of the row of roles.
LEMMA Places ==
  ASSUME NEW n \in Names
  PROVE  /\ Of(n).revision \in 2..8 /\ Of(n).made \in 1..7 /\ Of(n).dropped \in 1..7
         /\ Of(n).made <= Len(History[Of(n).revision].up)
         /\ Of(n).dropped <= Len(History[Of(n).revision].down)
         /\ Of(n).revision = 2 => Of(n).made # 4
<1>1. CASE n \in {"roles", "users", "refresh_tokens"}
  <2>1. Of(n).revision = 2 /\ Of(n).made \in {1, 2, 3} /\ Of(n).dropped \in {1, 2, 3}
    BY <1>1 DEF Of, Thing
  <2> QED
    BY <2>1, Lengths
<1>2. CASE n \in {"portfolios"}
  <2>1. Of(n).revision = 3 /\ Of(n).made \in {1} /\ Of(n).dropped \in {1}
    BY <1>2 DEF Of, Thing
  <2> QED
    BY <2>1, Lengths
<1>3. CASE n \in {"asset_type", "market_type", "assets"}
  <2>1. Of(n).revision = 4 /\ Of(n).made \in {1, 2, 3} /\ Of(n).dropped \in {1, 2, 3}
    BY <1>3 DEF Of, Thing
  <2> QED
    BY <2>1, Lengths
<1>4. CASE n \in {"trade_type", "position_type", "position_status", "positions", "trades"}
  <2>1. Of(n).revision = 5 /\ Of(n).made \in {1, 2, 3, 4, 5} /\ Of(n).dropped \in {1, 2, 3, 4, 5}
    BY <1>4 DEF Of, Thing
  <2> QED
    BY <2>1, Lengths
<1>5. CASE n \in {"market_prices", "news"}
  <2>1. Of(n).revision = 6 /\ Of(n).made \in {1, 2} /\ Of(n).dropped \in {1, 2}
    BY <1>5 DEF Of, Thing
  <2> QED
    BY <2>1, Lengths
<1>6. CASE n \in {"alert_type", "alert_condition", "alerts", "alert_events", "notification_channel", "notification_status", "notifications"}
  <2>1. Of(n).revision = 7 /\ Of(n).made \in {1, 2, 3, 4, 5, 6, 7} /\ Of(n).dropped \in {1, 2, 3, 4, 5, 6, 7}
    BY <1>6 DEF Of, Thing
  <2> QED
    BY <2>1, Lengths
<1>7. CASE n \in {"user_settings", "api_key_provider", "api_keys"}
  <2>1. Of(n).revision = 8 /\ Of(n).made \in {1, 2, 3} /\ Of(n).dropped \in {1, 2, 3}
    BY <1>7 DEF Of, Thing
  <2> QED
    BY <2>1, Lengths
<1> QED
  BY <1>1, <1>2, <1>3, <1>4, <1>5, <1>6, <1>7 DEF Names

LEMMA PlacesAreNumbers ==
  \A n \in Names : Of(n).revision \in Nat /\ Of(n).made \in Nat /\ Of(n).dropped \in Nat
<1> TAKE n \in Names
<1>1. Of(n).revision \in 2..8 /\ Of(n).made \in 1..7 /\ Of(n).dropped \in 1..7
  BY Places
<1> QED
  BY <1>1

LEMMA Revisions9 ==
  /\ Len(History) = 9
  /\ History[1] = Foundation
  /\ History[2] = AuthModule
  /\ History[3] = PortfolioModule
  /\ History[4] = AssetModule
  /\ History[5] = TradeModule
  /\ History[6] = MarketModule
  /\ History[7] = AlertsModule
  /\ History[8] = SettingsModule
  /\ History[9] = RemoveAdminRole
  BY DEF History

\* A statement of an upgrade.
Raises(s, r, pos) ==
  \/ /\ s.kind \in {"make", "ensure"}
     /\ s.name \in Names
     /\ Of(s.name).revision = r
     /\ Of(s.name).made = pos
     /\ s.needs = Of(s.name).needs
     /\ s.kind = "ensure" => s.needs = {}
  \/ s.kind = "insert" /\ r = 2 /\ pos = 4
  \/ s.kind = "purge" /\ r = 9 /\ pos = 1

\* A statement of a downgrade.
Lowers(s, r, pos) ==
  \/ /\ s.kind \in {"drop", "discard"}
     /\ s.name \in Names
     /\ Of(s.name).revision = r
     /\ Of(s.name).dropped = pos
  \/ s.kind = "restore" /\ r = 9 /\ pos = 1

LEMMA UpScripts ==
  ASSUME NEW r \in 1..9, NEW pos \in 1..Len(History[r].up)
  PROVE  Raises(History[r].up[pos], r, pos)
<1>1. CASE r = 1
  BY <1>1, Revisions9 DEF Foundation
<1>2. CASE r = 2
  <2>1. History[r].up =
          <<Make("roles", {}),
            Make("users", {"roles"}),
            Make("refresh_tokens", {"users"}),
            OnRoles("insert")>>
    BY <1>2, Revisions9 DEF AuthModule
  <2>2. Raises(Make("roles", {}), 2, 1)
    BY DEF Raises, Names, Of, Thing, Make, Ensure, OnRoles, MakeType, MakePositions, MakeTrades
  <2>3. Raises(Make("users", {"roles"}), 2, 2)
    BY DEF Raises, Names, Of, Thing, Make, Ensure, OnRoles, MakeType, MakePositions, MakeTrades
  <2>4. Raises(Make("refresh_tokens", {"users"}), 2, 3)
    BY DEF Raises, Names, Of, Thing, Make, Ensure, OnRoles, MakeType, MakePositions, MakeTrades
  <2>5. Raises(OnRoles("insert"), 2, 4)
    BY DEF Raises, Names, Of, Thing, Make, Ensure, OnRoles, MakeType, MakePositions, MakeTrades
  <2> QED
    BY <1>2, <2>1, <2>2, <2>3, <2>4, <2>5
<1>3. CASE r = 3
  <2>1. History[r].up =
          <<Make("portfolios", {"users"})>>
    BY <1>3, Revisions9 DEF PortfolioModule
  <2>2. Raises(Make("portfolios", {"users"}), 3, 1)
    BY DEF Raises, Names, Of, Thing, Make, Ensure, OnRoles, MakeType, MakePositions, MakeTrades
  <2> QED
    BY <1>3, <2>1, <2>2
<1>4. CASE r = 4
  <2>1. History[r].up =
          <<Ensure("asset_type"),
            Ensure("market_type"),
            Make("assets", {"asset_type", "market_type"})>>
    BY <1>4, Revisions9 DEF AssetModule
  <2>2. Raises(Ensure("asset_type"), 4, 1)
    BY DEF Raises, Names, Of, Thing, Make, Ensure, OnRoles, MakeType, MakePositions, MakeTrades
  <2>3. Raises(Ensure("market_type"), 4, 2)
    BY DEF Raises, Names, Of, Thing, Make, Ensure, OnRoles, MakeType, MakePositions, MakeTrades
  <2>4. Raises(Make("assets", {"asset_type", "market_type"}), 4, 3)
    BY DEF Raises, Names, Of, Thing, Make, Ensure, OnRoles, MakeType, MakePositions, MakeTrades
  <2> QED
    BY <1>4, <2>1, <2>2, <2>3, <2>4
<1>5. CASE r = 5
  <2>1. History[r].up =
          <<Ensure("trade_type"),
            Ensure("position_type"),
            Ensure("position_status"),
            MakePositions,
            MakeTrades>>
    BY <1>5, Revisions9 DEF TradeModule
  <2>2. Raises(Ensure("trade_type"), 5, 1)
    BY DEF Raises, Names, Of, Thing, Make, Ensure, OnRoles, MakeType, MakePositions, MakeTrades
  <2>3. Raises(Ensure("position_type"), 5, 2)
    BY DEF Raises, Names, Of, Thing, Make, Ensure, OnRoles, MakeType, MakePositions, MakeTrades
  <2>4. Raises(Ensure("position_status"), 5, 3)
    BY DEF Raises, Names, Of, Thing, Make, Ensure, OnRoles, MakeType, MakePositions, MakeTrades
  <2>5. Raises(MakePositions, 5, 4)
    BY DEF Raises, Names, Of, Thing, Make, Ensure, OnRoles, MakeType, MakePositions, MakeTrades
  <2>6. Raises(MakeTrades, 5, 5)
    BY DEF Raises, Names, Of, Thing, Make, Ensure, OnRoles, MakeType, MakePositions, MakeTrades
  <2> QED
    BY <1>5, <2>1, <2>2, <2>3, <2>4, <2>5, <2>6
<1>6. CASE r = 6
  <2>1. History[r].up =
          <<Make("market_prices", {"assets"}),
            Make("news", {"assets"})>>
    BY <1>6, Revisions9 DEF MarketModule
  <2>2. Raises(Make("market_prices", {"assets"}), 6, 1)
    BY DEF Raises, Names, Of, Thing, Make, Ensure, OnRoles, MakeType, MakePositions, MakeTrades
  <2>3. Raises(Make("news", {"assets"}), 6, 2)
    BY DEF Raises, Names, Of, Thing, Make, Ensure, OnRoles, MakeType, MakePositions, MakeTrades
  <2> QED
    BY <1>6, <2>1, <2>2, <2>3
<1>7. CASE r = 7
  <2>1. History[r].up =
          <<MakeType("alert_type"),
            MakeType("alert_condition"),
            Make("alerts", {"users", "assets", "portfolios", "alert_type", "alert_condition"}),
            Make("alert_events", {"alerts"}),
            MakeType("notification_channel"),
            MakeType("notification_status"),
            Make("notifications", {"alert_events", "notification_channel", "notification_status"})>>
    BY <1>7, Revisions9 DEF AlertsModule
  <2>2. Raises(MakeType("alert_type"), 7, 1)
    BY DEF Raises, Names, Of, Thing, Make, Ensure, OnRoles, MakeType, MakePositions, MakeTrades
  <2>3. Raises(MakeType("alert_condition"), 7, 2)
    BY DEF Raises, Names, Of, Thing, Make, Ensure, OnRoles, MakeType, MakePositions, MakeTrades
  <2>4. Raises(Make("alerts", {"users", "assets", "portfolios", "alert_type", "alert_condition"}), 7, 3)
    BY DEF Raises, Names, Of, Thing, Make, Ensure, OnRoles, MakeType, MakePositions, MakeTrades
  <2>5. Raises(Make("alert_events", {"alerts"}), 7, 4)
    BY DEF Raises, Names, Of, Thing, Make, Ensure, OnRoles, MakeType, MakePositions, MakeTrades
  <2>6. Raises(MakeType("notification_channel"), 7, 5)
    BY DEF Raises, Names, Of, Thing, Make, Ensure, OnRoles, MakeType, MakePositions, MakeTrades
  <2>7. Raises(MakeType("notification_status"), 7, 6)
    BY DEF Raises, Names, Of, Thing, Make, Ensure, OnRoles, MakeType, MakePositions, MakeTrades
  <2>8. Raises(Make("notifications", {"alert_events", "notification_channel", "notification_status"}), 7, 7)
    BY DEF Raises, Names, Of, Thing, Make, Ensure, OnRoles, MakeType, MakePositions, MakeTrades
  <2> QED
    BY <1>7, <2>1, <2>2, <2>3, <2>4, <2>5, <2>6, <2>7, <2>8
<1>8. CASE r = 8
  <2>1. History[r].up =
          <<Make("user_settings", {"users"}),
            MakeType("api_key_provider"),
            Make("api_keys", {"users", "api_key_provider"})>>
    BY <1>8, Revisions9 DEF SettingsModule
  <2>2. Raises(Make("user_settings", {"users"}), 8, 1)
    BY DEF Raises, Names, Of, Thing, Make, Ensure, OnRoles, MakeType, MakePositions, MakeTrades
  <2>3. Raises(MakeType("api_key_provider"), 8, 2)
    BY DEF Raises, Names, Of, Thing, Make, Ensure, OnRoles, MakeType, MakePositions, MakeTrades
  <2>4. Raises(Make("api_keys", {"users", "api_key_provider"}), 8, 3)
    BY DEF Raises, Names, Of, Thing, Make, Ensure, OnRoles, MakeType, MakePositions, MakeTrades
  <2> QED
    BY <1>8, <2>1, <2>2, <2>3, <2>4
<1>9. CASE r = 9
  <2>1. History[r].up =
          <<OnRoles("purge")>>
    BY <1>9, Revisions9 DEF RemoveAdminRole
  <2>2. Raises(OnRoles("purge"), 9, 1)
    BY DEF Raises, Names, Of, Thing, Make, Ensure, OnRoles, MakeType, MakePositions, MakeTrades
  <2> QED
    BY <1>9, <2>1, <2>2
<1> QED
  BY <1>1, <1>2, <1>3, <1>4, <1>5, <1>6, <1>7, <1>8, <1>9

LEMMA DownScripts ==
  ASSUME NEW r \in 1..9, NEW pos \in 1..Len(History[r].down)
  PROVE  Lowers(History[r].down[pos], r, pos)
<1>1. CASE r = 1
  BY <1>1, Revisions9 DEF Foundation
<1>2. CASE r = 2
  <2>1. History[r].down =
          <<Drop("refresh_tokens"),
            Drop("users"),
            Drop("roles")>>
    BY <1>2, Revisions9 DEF AuthModule
  <2>2. Lowers(Drop("refresh_tokens"), 2, 1)
    BY DEF Lowers, Names, Of, Thing, Drop, Discard, OnRoles
  <2>3. Lowers(Drop("users"), 2, 2)
    BY DEF Lowers, Names, Of, Thing, Drop, Discard, OnRoles
  <2>4. Lowers(Drop("roles"), 2, 3)
    BY DEF Lowers, Names, Of, Thing, Drop, Discard, OnRoles
  <2> QED
    BY <1>2, <2>1, <2>2, <2>3, <2>4
<1>3. CASE r = 3
  <2>1. History[r].down =
          <<Drop("portfolios")>>
    BY <1>3, Revisions9 DEF PortfolioModule
  <2>2. Lowers(Drop("portfolios"), 3, 1)
    BY DEF Lowers, Names, Of, Thing, Drop, Discard, OnRoles
  <2> QED
    BY <1>3, <2>1, <2>2
<1>4. CASE r = 4
  <2>1. History[r].down =
          <<Drop("assets"),
            Discard("market_type"),
            Discard("asset_type")>>
    BY <1>4, Revisions9 DEF AssetModule
  <2>2. Lowers(Drop("assets"), 4, 1)
    BY DEF Lowers, Names, Of, Thing, Drop, Discard, OnRoles
  <2>3. Lowers(Discard("market_type"), 4, 2)
    BY DEF Lowers, Names, Of, Thing, Drop, Discard, OnRoles
  <2>4. Lowers(Discard("asset_type"), 4, 3)
    BY DEF Lowers, Names, Of, Thing, Drop, Discard, OnRoles
  <2> QED
    BY <1>4, <2>1, <2>2, <2>3, <2>4
<1>5. CASE r = 5
  <2>1. History[r].down =
          <<Drop("trades"),
            Drop("positions"),
            Discard("position_status"),
            Discard("position_type"),
            Discard("trade_type")>>
    BY <1>5, Revisions9 DEF TradeModule
  <2>2. Lowers(Drop("trades"), 5, 1)
    BY DEF Lowers, Names, Of, Thing, Drop, Discard, OnRoles
  <2>3. Lowers(Drop("positions"), 5, 2)
    BY DEF Lowers, Names, Of, Thing, Drop, Discard, OnRoles
  <2>4. Lowers(Discard("position_status"), 5, 3)
    BY DEF Lowers, Names, Of, Thing, Drop, Discard, OnRoles
  <2>5. Lowers(Discard("position_type"), 5, 4)
    BY DEF Lowers, Names, Of, Thing, Drop, Discard, OnRoles
  <2>6. Lowers(Discard("trade_type"), 5, 5)
    BY DEF Lowers, Names, Of, Thing, Drop, Discard, OnRoles
  <2> QED
    BY <1>5, <2>1, <2>2, <2>3, <2>4, <2>5, <2>6
<1>6. CASE r = 6
  <2>1. History[r].down =
          <<Drop("news"),
            Drop("market_prices")>>
    BY <1>6, Revisions9 DEF MarketModule
  <2>2. Lowers(Drop("news"), 6, 1)
    BY DEF Lowers, Names, Of, Thing, Drop, Discard, OnRoles
  <2>3. Lowers(Drop("market_prices"), 6, 2)
    BY DEF Lowers, Names, Of, Thing, Drop, Discard, OnRoles
  <2> QED
    BY <1>6, <2>1, <2>2, <2>3
<1>7. CASE r = 7
  <2>1. History[r].down =
          <<Drop("notifications"),
            Drop("alert_events"),
            Drop("alerts"),
            Discard("notification_status"),
            Discard("notification_channel"),
            Discard("alert_condition"),
            Discard("alert_type")>>
    BY <1>7, Revisions9 DEF AlertsModule
  <2>2. Lowers(Drop("notifications"), 7, 1)
    BY DEF Lowers, Names, Of, Thing, Drop, Discard, OnRoles
  <2>3. Lowers(Drop("alert_events"), 7, 2)
    BY DEF Lowers, Names, Of, Thing, Drop, Discard, OnRoles
  <2>4. Lowers(Drop("alerts"), 7, 3)
    BY DEF Lowers, Names, Of, Thing, Drop, Discard, OnRoles
  <2>5. Lowers(Discard("notification_status"), 7, 4)
    BY DEF Lowers, Names, Of, Thing, Drop, Discard, OnRoles
  <2>6. Lowers(Discard("notification_channel"), 7, 5)
    BY DEF Lowers, Names, Of, Thing, Drop, Discard, OnRoles
  <2>7. Lowers(Discard("alert_condition"), 7, 6)
    BY DEF Lowers, Names, Of, Thing, Drop, Discard, OnRoles
  <2>8. Lowers(Discard("alert_type"), 7, 7)
    BY DEF Lowers, Names, Of, Thing, Drop, Discard, OnRoles
  <2> QED
    BY <1>7, <2>1, <2>2, <2>3, <2>4, <2>5, <2>6, <2>7, <2>8
<1>8. CASE r = 8
  <2>1. History[r].down =
          <<Drop("api_keys"),
            Drop("user_settings"),
            Discard("api_key_provider")>>
    BY <1>8, Revisions9 DEF SettingsModule
  <2>2. Lowers(Drop("api_keys"), 8, 1)
    BY DEF Lowers, Names, Of, Thing, Drop, Discard, OnRoles
  <2>3. Lowers(Drop("user_settings"), 8, 2)
    BY DEF Lowers, Names, Of, Thing, Drop, Discard, OnRoles
  <2>4. Lowers(Discard("api_key_provider"), 8, 3)
    BY DEF Lowers, Names, Of, Thing, Drop, Discard, OnRoles
  <2> QED
    BY <1>8, <2>1, <2>2, <2>3, <2>4
<1>9. CASE r = 9
  <2>1. History[r].down =
          <<OnRoles("restore")>>
    BY <1>9, Revisions9 DEF RemoveAdminRole
  <2>2. Lowers(OnRoles("restore"), 9, 1)
    BY DEF Lowers, Names, Of, Thing, Drop, Discard, OnRoles
  <2> QED
    BY <1>9, <2>1, <2>2
<1> QED
  BY <1>1, <1>2, <1>3, <1>4, <1>5, <1>6, <1>7, <1>8, <1>9

LEMMA Domains ==
  ASSUME NEW r \in 1..9
  PROVE  /\ Len(History[r].up) \in Nat /\ DOMAIN History[r].up = 1..Len(History[r].up)
         /\ Len(History[r].down) \in Nat /\ DOMAIN History[r].down = 1..Len(History[r].down)
<1>1. CASE r = 1
  BY <1>1, Revisions9, Lengths DEF Foundation
<1>2. CASE r = 2
  BY <1>2, Revisions9, Lengths DEF AuthModule
<1>3. CASE r = 3
  BY <1>3, Revisions9, Lengths DEF PortfolioModule
<1>4. CASE r = 4
  BY <1>4, Revisions9, Lengths DEF AssetModule
<1>5. CASE r = 5
  BY <1>5, Revisions9, Lengths DEF TradeModule
<1>6. CASE r = 6
  BY <1>6, Revisions9, Lengths DEF MarketModule
<1>7. CASE r = 7
  BY <1>7, Revisions9, Lengths DEF AlertsModule
<1>8. CASE r = 8
  BY <1>8, Revisions9, Lengths DEF SettingsModule
<1>9. CASE r = 9
  BY <1>9, Revisions9, Lengths DEF RemoveAdminRole
<1> QED
  BY <1>1, <1>2, <1>3, <1>4, <1>5, <1>6, <1>7, <1>8, <1>9

\* The names before statement pos of the upgrade to r, or of the downgrade from r.
UpTo(r, pos) ==
  {n \in Names : Of(n).revision < r \/ (Of(n).revision = r /\ Of(n).made < pos)}

DownTo(r, pos) ==
  {n \in Names : Of(n).revision < r \/ (Of(n).revision = r /\ Of(n).dropped >= pos)}

LEMMA MadeThere ==
  ASSUME NEW r \in 1..9, NEW s \in Makes(r)
  PROVE  s.name \in Names /\ Of(s.name).revision = r /\ s.needs = Of(s.name).needs
<1>1. PICK i \in DOMAIN History[r].up : s = History[r].up[i]
  BY DEF Makes
<1>2. i \in 1..Len(History[r].up)
  BY Domains
<1>3. Raises(s, r, i)
  BY <1>1, <1>2, UpScripts
<1>4. s.kind \in {"make", "ensure"}
  BY DEF Makes
<1> QED
  BY <1>3, <1>4 DEF Raises

LEMMA EachIsThere ==
  ASSUME NEW n \in Names
  PROVE  \E s \in Makes(Of(n).revision) : s.name = n
<1>1. PICK r, p : r = Of(n).revision /\ p = Of(n).made
  OBVIOUS
<1>2. r \in 1..9 /\ p \in Nat /\ 1 <= p /\ p <= Len(History[r].up) /\ r # 9 /\ (r = 2 => p # 4)
  BY <1>1, Places
<1>3. p \in 1..Len(History[r].up)
  BY <1>2, Domains
<1>4. PICK s : s = History[r].up[p]
  OBVIOUS
<1>5. Raises(s, r, p)
  BY <1>2, <1>3, <1>4, UpScripts
<1>6. s.kind \in {"make", "ensure"} /\ s.name \in Names /\ Of(s.name).revision = r /\ Of(s.name).made = p
  BY <1>2, <1>5 DEF Raises
<1>7. s.name = n
  BY <1>1, <1>6, EachIsMadeOnce
<1>8. s \in Makes(r)
  BY <1>2, <1>3, <1>4, <1>6, Domains DEF Makes
<1> QED
  BY <1>1, <1>7, <1>8

LEMMA ObjectsOfRevision ==
  ASSUME NEW r \in 0..9
  PROVE  ObjectsAt[r] = [n \in DownTo(r, 1) |-> Of(n).needs]
<1> DEFINE made == UNION {Makes(q) : q \in 1..r}
<1>1. ObjectsAt[r] = [o \in {s.name : s \in made} |-> (CHOOSE s \in made : s.name = o).needs]
  BY Revisions9 DEF ObjectsAt
<1>2. ASSUME NEW s \in made
      PROVE  s.name \in DownTo(r, 1) /\ s.needs = Of(s.name).needs
  <2>1. PICK q \in 1..r : s \in Makes(q)
    OBVIOUS
  <2>2. q \in 1..9 /\ q \in Nat
    OBVIOUS
  <2>3. s.name \in Names /\ Of(s.name).revision = q /\ s.needs = Of(s.name).needs
    BY <2>1, <2>2, MadeThere
  <2>4. q < r \/ q = r
    BY <2>2
  <2>5. Of(s.name).dropped >= 1
    BY <2>3, Places
  <2> QED
    BY <2>3, <2>4, <2>5 DEF DownTo
<1>3. ASSUME NEW n \in DownTo(r, 1)
      PROVE  \E s \in made : s.name = n
  <2>1. n \in Names /\ Of(n).revision \in 1..r
    BY Places DEF DownTo
  <2> QED
    BY <2>1, EachIsThere
<1> HIDE DEF made
<1>4. {s.name : s \in made} = DownTo(r, 1)
  BY <1>2, <1>3
<1>5. ASSUME NEW n \in DownTo(r, 1)
      PROVE  (CHOOSE s \in made : s.name = n).needs = Of(n).needs
  BY <1>2, <1>3
<1> QED
  BY <1>1, <1>4, <1>5
-----------------------------------------------------------------------------
Rows(r, pos, ascends) == IF ascends THEN UpTo(r + 1, pos) ELSE DownTo(r, pos)

\* A database whose objects are these names.
Holds(d, S) ==
  /\ d = [revision |-> d.revision, objects |-> d.objects, held |-> d.held, roles |-> d.roles]
  /\ d.objects = [n \in S |-> Of(n).needs]
  /\ d.held \subseteq d.roles
  /\ "roles" \notin S => d.roles = {}
  /\ "users" \notin S => d.held = {}

\* A database on its way from revision r, before statement pos.
OnItsWay(d, r, pos, ascends) ==
  /\ d.revision = r
  /\ Holds(d, Rows(r, pos, ascends))
  /\ "roles" \in Rows(r, pos, ascends) =>
       IF ascends /\ r = 1 /\ pos <= 4 THEN d.roles = {} ELSE "user" \in d.roles

ScriptOf(r, ascends) == IF ascends THEN History[r + 1].up ELSE History[r].down

LEMMA UpOneByOne ==
  ASSUME NEW r \in 0..9, NEW pos \in Nat, NEW n \in Names, Of(n).revision = r + 1, Of(n).made = pos
  PROVE  /\ UpTo(r + 1, pos + 1) = UpTo(r + 1, pos) \cup {n}
         /\ n \notin UpTo(r + 1, pos)
         /\ Of(n).needs \subseteq UpTo(r + 1, pos)
<1>1. \A k \in Names : Of(k).revision \in Nat /\ Of(k).made \in Nat /\ Of(k).dropped \in Nat
  BY PlacesAreNumbers
<1>2. /\ UpTo(r + 1, pos + 1) = UpTo(r + 1, pos) \cup {n}
      /\ n \notin UpTo(r + 1, pos)
  <2>1. ASSUME NEW k \in Names
        PROVE  k \in UpTo(r + 1, pos + 1) <=> k \in UpTo(r + 1, pos) \/ k = n
    <3>1. Of(k).revision = r + 1 /\ Of(k).made = pos => k = n
      BY EachIsMadeOnce
    <3> QED
      BY <1>1, <3>1 DEF UpTo
  <2>2. n \notin UpTo(r + 1, pos)
    BY <1>1 DEF UpTo
  <2>3. UpTo(r + 1, pos) \subseteq Names /\ UpTo(r + 1, pos + 1) \subseteq Names
    BY DEF UpTo
  <2> QED
    BY <2>1, <2>2, <2>3
<1>3. ASSUME NEW k \in Of(n).needs
      PROVE  k \in UpTo(r + 1, pos)
  <2>1. k \in Names /\ (\/ Of(k).revision < Of(n).revision
                        \/ Of(k).revision = Of(n).revision /\ Of(k).made < Of(n).made)
    BY NeedsAreOlder
  <2> QED
    BY <1>1, <2>1 DEF UpTo
<1> QED
  BY <1>2, <1>3

LEMMA DownOneByOne ==
  ASSUME NEW r \in 0..9, NEW pos \in Nat, NEW n \in Names, Of(n).revision = r, Of(n).dropped = pos
  PROVE  /\ DownTo(r, pos + 1) = DownTo(r, pos) \ {n}
         /\ n \in DownTo(r, pos)
         /\ \A k \in DownTo(r, pos) : n \notin Of(k).needs
<1>1. \A k \in Names : Of(k).revision \in Nat /\ Of(k).made \in Nat /\ Of(k).dropped \in Nat
  BY PlacesAreNumbers
<1>2. /\ DownTo(r, pos + 1) = DownTo(r, pos) \ {n}
      /\ n \in DownTo(r, pos)
  <2>1. ASSUME NEW k \in Names
        PROVE  k \in DownTo(r, pos + 1) <=> k \in DownTo(r, pos) /\ k # n
    <3>1. Of(k).revision = r /\ Of(k).dropped = pos => k = n
      BY EachIsMadeOnce
    <3> QED
      BY <1>1, <3>1 DEF DownTo
  <2>2. n \in DownTo(r, pos)
    BY <1>1 DEF DownTo
  <2>3. DownTo(r, pos) \subseteq Names /\ DownTo(r, pos + 1) \subseteq Names
    BY DEF DownTo
  <2> QED
    BY <2>1, <2>2, <2>3
<1>3. ASSUME NEW k \in DownTo(r, pos)
      PROVE  n \notin Of(k).needs
  <2> SUFFICES ASSUME n \in Of(k).needs PROVE FALSE
    OBVIOUS
  <2>1. k \in Names /\ (Of(k).revision < r \/ (Of(k).revision = r /\ Of(k).dropped >= pos))
    BY DEF DownTo
  <2>2. \/ Of(n).revision < Of(k).revision
        \/ Of(n).revision = Of(k).revision /\ Of(n).dropped > Of(k).dropped
    BY <2>1, NeedsAreOlder
  <2> QED
    BY <1>1, <2>1, <2>2
<1> QED
  BY <1>2, <1>3

\* A statement of the upgrade to q fits the database it meets and takes it one further.
LEMMA UpStatementFits ==
  ASSUME NEW r \in 0..8, NEW q, q = r + 1, NEW pos \in 1..Len(History[q].up), NEW d,
         OnItsWay(d, r, pos, TRUE), NEW s, s = History[q].up[pos]
  PROVE  Accepts(d, s) /\ OnItsWay(Executed(d, s), r, pos + 1, TRUE)
<1> DEFINE S == UpTo(q, pos)
           T == UpTo(q, pos + 1)
           e == Executed(d, s)
<1>1. q \in 1..9 /\ r \in 0..9
  OBVIOUS
<1>0. pos \in Nat
  BY <1>1, Domains
<1>2. Raises(s, q, pos)
  BY <1>1, UpScripts
<1>3. /\ d.revision = r /\ Holds(d, S)
      /\ "roles" \in S => IF r = 1 /\ pos <= 4 THEN d.roles = {} ELSE "user" \in d.roles
  BY DEF OnItsWay, Rows
<1>4. DOMAIN d.objects = S /\ \A k \in S : d.objects[k] = Of(k).needs
  BY <1>3 DEF Holds
<1>5. SUFFICES /\ Accepts(d, s) /\ e.revision = r /\ Holds(e, T)
               /\ "roles" \in T => IF r = 1 /\ pos + 1 <= 4 THEN e.roles = {} ELSE "user" \in e.roles
  BY DEF OnItsWay, Rows
<1> HIDE DEF S, T, e
<1>6. CASE s.kind \in {"make", "ensure"} /\ s.name \in Names /\ Of(s.name).revision = q
           /\ Of(s.name).made = pos /\ s.needs = Of(s.name).needs
           /\ (s.kind = "ensure" => s.needs = {})
  <2>1. T = S \cup {s.name} /\ s.name \notin S /\ s.needs \subseteq S
    BY <1>0, <1>1, <1>6, UpOneByOne DEF S, T
  <2>2. ~Exists(d, s.name) /\ Accepts(d, s)
    BY <1>4, <1>6, <2>1 DEF Accepts, Exists
  <2>3. s.kind = "ensure" => s.needs = {}
    BY <1>6
  <2>4. e = Adding(d, s.name, s.needs)
    BY <1>6, <2>2, <2>3 DEF e, Executed
  <2>5. /\ e = [revision |-> e.revision, objects |-> e.objects, held |-> e.held, roles |-> e.roles]
        /\ e.revision = d.revision /\ e.held = d.held /\ e.roles = d.roles
        /\ e.objects = [o \in S \cup {s.name} |-> IF o = s.name THEN s.needs ELSE d.objects[o]]
    <3>1. DOMAIN d = {"revision", "objects", "held", "roles"}
      BY <1>3 DEF Holds
    <3>2. e = [d EXCEPT !.objects = [o \in S \cup {s.name} |-> IF o = s.name THEN s.needs ELSE d.objects[o]]]
      BY <1>4, <2>4 DEF Adding
    <3> QED
      BY <3>1, <3>2
  <2>6. e.objects = [n \in T |-> Of(n).needs]
    <3>1. e.objects = [o \in T |-> IF o = s.name THEN s.needs ELSE d.objects[o]]
      BY <2>1, <2>5
    <3>2. \A o \in T : (IF o = s.name THEN s.needs ELSE d.objects[o]) = Of(o).needs
      BY <1>4, <1>6, <2>1
    <3> QED
      BY <3>1, <3>2
  <2>7. "roles" \in T => IF r = 1 /\ pos + 1 <= 4 THEN e.roles = {} ELSE "user" \in e.roles
    <3>1. CASE "roles" \in S
      <4>1. ASSUME r = 1 PROVE pos <= 3
        <5>0. q = 2
          BY <4>1
        <5>1. Of(s.name).revision = 2 /\ pos \in 1..4
          BY <1>6, <5>0, Lengths
        <5> QED
          BY <1>6, <5>1, Places
      <4> QED
        BY <1>0, <1>3, <2>5, <3>1, <4>1
    <3>2. CASE "roles" \notin S
      <4>1. d.roles = {}
        BY <1>3, <3>2 DEF Holds
      <4>2. "roles" \in T => q = 2 /\ pos = 1
        BY <1>6, <2>1, <3>2 DEF Of, Thing
      <4> QED
        BY <2>5, <4>1, <4>2
    <3> QED
      BY <3>1, <3>2
  <2> QED
    BY <1>3, <2>1, <2>2, <2>5, <2>6, <2>7 DEF Holds
<1>7. CASE s.kind = "insert" /\ q = 2 /\ pos = 4
  <2>1. S = T /\ "roles" \in S
    <3>1. \A n \in Names : Of(n).revision \in Nat /\ Of(n).made \in Nat /\ (Of(n).revision = 2 => Of(n).made # 4)
      BY Places
    <3>2. S = T
      BY <1>7, <3>1 DEF S, T, UpTo
    <3>3. "roles" \in S
      BY <1>7 DEF S, UpTo, Names, Of, Thing
    <3> QED
      BY <3>2, <3>3
  <2>2. d.roles = {}
    BY <1>3, <1>7, <2>1
  <2>3. Accepts(d, s)
    BY <1>4, <1>7, <2>1, <2>2 DEF Accepts, Exists
  <2>4. e = [d EXCEPT !.roles = {"admin", "user"}]
    BY <1>7 DEF e, Executed
  <2>5. /\ e = [revision |-> e.revision, objects |-> e.objects, held |-> e.held, roles |-> e.roles]
        /\ e.revision = d.revision /\ e.held = d.held /\ e.objects = d.objects
        /\ e.roles = {"admin", "user"}
    BY <1>3, <2>4 DEF Holds
  <2>6. Holds(e, T)
    BY <1>3, <2>1, <2>2, <2>5 DEF Holds
  <2> QED
    BY <1>3, <1>7, <2>3, <2>5, <2>6
<1>8. CASE s.kind = "purge" /\ q = 9 /\ pos = 1
  <2>1. S = T /\ "roles" \in S
    <3>1. \A n \in Names : Of(n).revision \in 2..8
      BY Places
    <3>2. S = T
      BY <1>8, <3>1 DEF S, T, UpTo
    <3>3. "roles" \in S
      BY <1>8 DEF S, UpTo, Names, Of, Thing
    <3> QED
      BY <3>2, <3>3
  <2>2. "user" \in d.roles
    BY <1>3, <1>8, <2>1
  <2>3. Accepts(d, s)
    BY <1>4, <1>8, <2>1 DEF Accepts, Exists
  <2>4. e = [d EXCEPT !.roles = @ \ ({"admin"} \ d.held)]
    BY <1>8 DEF e, Executed
  <2>5. /\ e = [revision |-> e.revision, objects |-> e.objects, held |-> e.held, roles |-> e.roles]
        /\ e.revision = d.revision /\ e.held = d.held /\ e.objects = d.objects
        /\ e.roles = d.roles \ ({"admin"} \ d.held)
    BY <1>3, <2>4 DEF Holds
  <2>6. Holds(e, T)
    BY <1>3, <2>1, <2>5 DEF Holds
  <2> QED
    BY <1>3, <1>8, <2>2, <2>3, <2>5, <2>6
<1> QED
  BY <1>2, <1>6, <1>7, <1>8 DEF Raises

\* So does one of the downgrade from r.
LEMMA DownStatementFits ==
  ASSUME NEW r \in 1..9, NEW pos \in 1..Len(History[r].down), NEW d,
         OnItsWay(d, r, pos, FALSE), NEW s, s = History[r].down[pos]
  PROVE  Accepts(d, s) /\ OnItsWay(Executed(d, s), r, pos + 1, FALSE)
<1> DEFINE S == DownTo(r, pos)
           T == DownTo(r, pos + 1)
           e == Executed(d, s)
<1>1. pos \in Nat /\ r \in 0..9
  BY Domains
<1>2. Lowers(s, r, pos)
  BY DownScripts
<1>3. d.revision = r /\ Holds(d, S) /\ ("roles" \in S => "user" \in d.roles)
  BY DEF OnItsWay, Rows
<1>4. DOMAIN d.objects = S /\ \A k \in S : d.objects[k] = Of(k).needs
  BY <1>3 DEF Holds
<1>5. SUFFICES Accepts(d, s) /\ e.revision = r /\ Holds(e, T) /\ ("roles" \in T => "user" \in e.roles)
  BY DEF OnItsWay, Rows
<1> HIDE DEF S, T, e
<1>6. CASE s.kind \in {"drop", "discard"} /\ s.name \in Names /\ Of(s.name).revision = r
           /\ Of(s.name).dropped = pos
  <2>1. T = S \ {s.name} /\ s.name \in S /\ \A k \in S : s.name \notin Of(k).needs
    <3>1. PICK n \in Names : n = s.name /\ Of(n).revision = r /\ Of(n).dropped = pos
      BY <1>6
    <3>0. pos \in Nat /\ r \in 0..9 /\ n \in Names /\ Of(n).revision = r /\ Of(n).dropped = pos
      BY <1>1, <3>1
    <3>2. DownTo(r, pos + 1) = DownTo(r, pos) \ {n}
      BY <3>0, DownOneByOne
    <3>3. n \in DownTo(r, pos)
      BY <3>0, DownOneByOne
    <3>4. \A k \in DownTo(r, pos) : n \notin Of(k).needs
      BY <3>0, DownOneByOne
    <3> QED
      BY <3>1, <3>2, <3>3, <3>4 DEF S, T
  <2>2. Exists(d, s.name) /\ ~IsNeeded(d, s.name)
    BY <1>4, <2>1 DEF Exists, IsNeeded
  <2>3. Accepts(d, s)
    BY <1>6, <2>2 DEF Accepts
  <2>4. e = Without(d, s.name)
    BY <1>6, <2>2 DEF e, Executed
  <2>5. /\ e = [revision |-> e.revision, objects |-> e.objects, held |-> e.held, roles |-> e.roles]
        /\ e.revision = d.revision
        /\ e.held = (IF s.name = "users" THEN {} ELSE d.held)
        /\ e.roles = (IF s.name = "roles" THEN {} ELSE d.roles)
        /\ e.objects = [o \in S \ {s.name} |-> d.objects[o]]
    BY <1>4, <2>4 DEF Without
  <2>6. e.objects = [n \in T |-> Of(n).needs]
    BY <1>4, <2>1, <2>5
  <2>7. s.name = "roles" => "users" \notin S
    BY <2>1 DEF Of, Thing
  <2>8. Holds(e, T)
    BY <1>3, <2>1, <2>5, <2>6, <2>7 DEF Holds
  <2> QED
    BY <1>3, <2>1, <2>3, <2>5, <2>8
<1>7. CASE s.kind = "restore" /\ r = 9 /\ pos = 1
  <2>1. S = T /\ "roles" \in S
    <3>1. \A n \in Names : Of(n).revision \in 2..8
      BY Places
    <3>2. S = T
      BY <1>7, <3>1 DEF S, T, DownTo
    <3>3. "roles" \in S
      BY <1>7 DEF S, DownTo, Names, Of, Thing
    <3> QED
      BY <3>2, <3>3
  <2>2. Accepts(d, s)
    BY <1>4, <1>7, <2>1 DEF Accepts, Exists
  <2>3. e = [d EXCEPT !.roles = @ \cup {"admin"}]
    BY <1>7 DEF e, Executed
  <2>4. /\ e = [revision |-> e.revision, objects |-> e.objects, held |-> e.held, roles |-> e.roles]
        /\ e.revision = d.revision /\ e.held = d.held /\ e.objects = d.objects
        /\ e.roles = d.roles \cup {"admin"}
    BY <1>3, <2>3 DEF Holds
  <2>5. Holds(e, T)
    BY <1>3, <2>1, <2>4 DEF Holds
  <2> QED
    BY <1>3, <2>1, <2>2, <2>4, <2>5
<1> QED
  BY <1>2, <1>6, <1>7 DEF Lowers

\* The end of a script is the start of the next one, up or down.
LEMMA EndOfScript ==
  ASSUME NEW r \in 0..9, NEW d
  PROVE  /\ r < 9 /\ OnItsWay(d, r, Len(History[r + 1].up) + 1, TRUE)
              => OnItsWay([d EXCEPT !.revision = r + 1], r + 1, 1, FALSE)
         /\ r > 0 /\ OnItsWay(d, r, Len(History[r].down) + 1, FALSE)
              => OnItsWay([d EXCEPT !.revision = r - 1], r - 1, 1, FALSE)
         /\ OnItsWay(d, r, 1, TRUE) <=> OnItsWay(d, r, 1, FALSE)
<1>1. \A n \in Names : /\ Of(n).revision \in Nat /\ Of(n).made \in Nat /\ Of(n).dropped \in Nat
                       /\ Of(n).revision >= 2 /\ Of(n).made >= 1 /\ Of(n).dropped >= 1
                       /\ Of(n).made <= Len(History[Of(n).revision].up)
                       /\ Of(n).dropped <= Len(History[Of(n).revision].down)
  BY Places
<1>2. UpTo(r + 1, 1) = DownTo(r, 1)
  BY <1>1 DEF UpTo, DownTo
<1>3. ("roles" \in DownTo(r, 1)) = (r >= 2)
  BY DEF DownTo, Names, Of, Thing
<1>4. OnItsWay(d, r, 1, TRUE) <=> OnItsWay(d, r, 1, FALSE)
  BY <1>2, <1>3 DEF OnItsWay, Rows
<1>5. ASSUME r < 9, OnItsWay(d, r, Len(History[r + 1].up) + 1, TRUE)
      PROVE  OnItsWay([d EXCEPT !.revision = r + 1], r + 1, 1, FALSE)
  <2> DEFINE e == [d EXCEPT !.revision = r + 1]
             S == DownTo(r + 1, 1)
  <2>1. UpTo(r + 1, Len(History[r + 1].up) + 1) = S
    <3>1. PICK q : q = r + 1
      OBVIOUS
    <3>2. q \in 1..9
      BY <1>5, <3>1
    <3>3. Len(History[q].up) \in Nat
      BY <3>2, Domains
    <3> QED
      BY <1>1, <3>1, <3>2, <3>3 DEF UpTo, DownTo
  <2> HIDE DEF S
  <2>2. /\ Holds(d, S)
        /\ "roles" \in S => IF r = 1 /\ Len(History[2].up) + 1 <= 4 THEN d.roles = {} ELSE "user" \in d.roles
    BY <1>5, <2>1 DEF OnItsWay, Rows
  <2>3. "roles" \in S => "user" \in d.roles
    BY <2>2, Lengths
  <2>4. /\ e = [revision |-> e.revision, objects |-> e.objects, held |-> e.held, roles |-> e.roles]
        /\ e.revision = r + 1 /\ e.held = d.held /\ e.objects = d.objects /\ e.roles = d.roles
    BY <2>2 DEF Holds
  <2> HIDE DEF e
  <2>5. Holds(e, S)
    BY <2>2, <2>4 DEF Holds
  <2> QED
    BY <2>3, <2>4, <2>5 DEF OnItsWay, Rows, S, e
<1>6. ASSUME r > 0, OnItsWay(d, r, Len(History[r].down) + 1, FALSE)
      PROVE  OnItsWay([d EXCEPT !.revision = r - 1], r - 1, 1, FALSE)
  <2> DEFINE e == [d EXCEPT !.revision = r - 1]
             S == DownTo(r - 1, 1)
  <2>1. DownTo(r, Len(History[r].down) + 1) = S
    <3>1. r \in 1..9
      BY <1>6
    <3>2. Len(History[r].down) \in Nat
      BY <3>1, Domains
    <3> QED
      BY <1>1, <3>1, <3>2 DEF DownTo
  <2> HIDE DEF S
  <2>2. Holds(d, S) /\ ("roles" \in S => "user" \in d.roles)
    BY <1>6, <2>1 DEF OnItsWay, Rows
  <2>3. /\ e = [revision |-> e.revision, objects |-> e.objects, held |-> e.held, roles |-> e.roles]
        /\ e.revision = r - 1 /\ e.held = d.held /\ e.objects = d.objects /\ e.roles = d.roles
    BY <2>2 DEF Holds
  <2> HIDE DEF e
  <2>4. Holds(e, S)
    BY <2>2, <2>3 DEF Holds
  <2> QED
    BY <2>2, <2>3, <2>4 DEF OnItsWay, Rows, S, e
<1> QED
  BY <1>4, <1>5, <1>6

-----------------------------------------------------------------------------
\* A command that writes works on a database on its way from the revision it
\* is at, or another one has committed since it looked: then it has still to
\* find that the version row is not the one expected.
IsOnItsWay(j, current) ==
  /\ j.phase = "ready" => j.at = j.from /\ j.pos = 1
  /\ j.phase = "writing" =>
       /\ j.goal # j.from
       /\ j.pos \in Nat
       /\ IF current = j.from
          THEN /\ OnItsWay(j.work, j.at, j.pos, j.goal > j.from)
               /\ IF j.at = j.goal THEN j.pos = 1
                  ELSE j.pos \in 1..(Len(ScriptOf(j.at, j.goal > j.from)) + 1)
          ELSE j.at = j.from /\ j.work.revision = current

Whole ==
  /\ OnItsWay(schema, schema.revision, 1, FALSE)
  /\ \A m \in Migrators : IsOnItsWay(job[m], schema.revision)
  /\ \A m, n \in Migrators : job[m].phase = "writing" /\ job[n].phase = "writing" => m = n

LEMMA ScriptHasLength ==
  ASSUME Typed, NEW m \in Migrators, Runs(m)
  PROVE  /\ Len(Script(m)) \in Nat
         /\ IF Ascends(m) THEN job[m].at \in 0..8 ELSE job[m].at \in 1..9
<1> DEFINE j == job[m]
<1>1. IsJob(j) /\ j.phase \in {"ready", "writing"} /\ j.at # j.goal
  BY DEF Typed, Runs
<1>2. IF Ascends(m) THEN j.at \in 0..8 ELSE j.at \in 1..9
  BY <1>1, HeadIsLatest DEF IsJob, Revisions, Ascends
<1>3. Len(Script(m)) \in Nat
  <2>1. CASE Ascends(m)
    <3>1. PICK q : q = j.at + 1
      OBVIOUS
    <3>2. q \in 1..9 /\ Script(m) = History[q].up
      BY <1>2, <2>1, <3>1 DEF Script
    <3> QED
      BY <3>2, Domains
  <2>2. CASE ~Ascends(m)
    <3>1. j.at \in 1..9 /\ Script(m) = History[j.at].down
      BY <1>2, <2>2 DEF Script
    <3> QED
      BY <3>1, Domains
  <2> QED
    BY <2>1, <2>2
<1> QED
  BY <1>2, <1>3

\* What a command meets is on its way if nobody has overtaken it.
LEMMA MetIsOnItsWay ==
  ASSUME Typed, Whole, NEW m \in Migrators, Runs(m), schema.revision = job[m].from
  PROVE  /\ OnItsWay(Met(m), job[m].at, job[m].pos, Ascends(m))
         /\ Len(Script(m)) \in Nat /\ job[m].pos \in 1..(Len(Script(m)) + 1)
         /\ IF Ascends(m) THEN job[m].at \in 0..8 ELSE job[m].at \in 1..9
<1> DEFINE j == job[m]
<1>1. IsJob(j) /\ IsOnItsWay(j, schema.revision) /\ j.phase \in {"ready", "writing"} /\ j.at # j.goal
  BY DEF Typed, Whole, Runs
<1>2. Len(Script(m)) \in Nat /\ IF Ascends(m) THEN j.at \in 0..8 ELSE j.at \in 1..9
  BY ScriptHasLength
<1>3. CASE j.phase = "writing"
  BY <1>1, <1>2, <1>3 DEF IsOnItsWay, Met, Ascends, Script, ScriptOf
<1>4. CASE j.phase = "ready"
  <2>1. Met(m) = schema /\ j.at = schema.revision /\ j.pos = 1
    BY <1>1, <1>4 DEF IsOnItsWay, Met
  <2>2. OnItsWay(schema, j.at, 1, FALSE) /\ j.at \in 0..9
    BY <1>1, <2>1, HeadIsLatest DEF Whole, IsJob, Revisions
  <2>3. OnItsWay(schema, j.at, 1, TRUE)
    BY <2>2, EndOfScript
  <2>5. OnItsWay(schema, j.at, 1, Ascends(m))
    <3>1. CASE Ascends(m)
      BY <2>3, <3>1 DEF Ascends
    <3>2. CASE ~Ascends(m)
      <4>1. Ascends(m) = FALSE
        BY <3>2 DEF Ascends
      <4> QED
        BY <2>2, <4>1
    <3> QED
      BY <3>1, <3>2
  <2> QED
    BY <1>2, <2>1, <2>5
<1> QED
  BY <1>1, <1>3, <1>4

\* Its next statement, or its UPDATE of the version row, fits.
LEMMA NextStepFits ==
  ASSUME Typed, Whole, NEW m \in Migrators, Runs(m), schema.revision = job[m].from
  PROVE  Fits(m)
<1> DEFINE j == job[m]
<1>1. /\ OnItsWay(Met(m), j.at, j.pos, Ascends(m)) /\ Len(Script(m)) \in Nat /\ j.pos \in 1..(Len(Script(m)) + 1)
      /\ IF Ascends(m) THEN j.at \in 0..8 ELSE j.at \in 1..9
  BY MetIsOnItsWay
<1>2. CASE j.pos > Len(Script(m))
  BY <1>1, <1>2 DEF Fits, OnItsWay
<1>3. CASE j.pos <= Len(Script(m)) /\ Ascends(m)
  <2>1. PICK q : q = j.at + 1
    OBVIOUS
  <2>2. Script(m) = History[q].up /\ j.pos \in 1..Len(History[q].up)
    BY <1>1, <1>3, <2>1 DEF Script
  <2>3. Accepts(Met(m), Script(m)[j.pos])
    BY <1>1, <1>3, <2>1, <2>2, UpStatementFits
  <2> QED
    BY <1>3, <2>3 DEF Fits
<1>4. CASE j.pos <= Len(Script(m)) /\ ~Ascends(m)
  <2>1. Script(m) = History[j.at].down /\ j.pos \in 1..Len(History[j.at].down)
    BY <1>1, <1>4 DEF Script
  <2>2. j.at \in 1..9 /\ OnItsWay(Met(m), j.at, j.pos, FALSE)
    <3>1. Ascends(m) = FALSE
      BY <1>4 DEF Ascends
    <3> QED
      BY <1>1, <3>1
  <2>3. Accepts(Met(m), Script(m)[j.pos])
    BY <2>1, <2>2, DownStatementFits
  <2> QED
    BY <1>4, <2>3 DEF Fits
<1> QED
  BY <1>1, <1>2, <1>3, <1>4

\* A step of a command that neither begins to write beside another nor changes
\* the committed schema.
LEMMA WholeStays ==
  ASSUME Whole, schema' = schema, NEW m \in Migrators,
         \A n \in Migrators \ {m} : job'[n] = job[n],
         IsOnItsWay(job'[m], schema.revision),
         job'[m].phase = "writing" => Alone(m)
  PROVE  Whole'
<1>1. \A n \in Migrators : IsOnItsWay(job'[n], schema'.revision)
  BY DEF Whole
<1>2. OnItsWay(schema', schema'.revision, 1, FALSE)
  BY DEF Whole
<1>3. \A n, o \in Migrators : job'[n].phase = "writing" /\ job'[o].phase = "writing" => n = o
  BY DEF Whole, Alone
<1> QED
  BY <1>1, <1>2, <1>3 DEF Whole

LEMMA WholeStatement ==
  ASSUME IInv, Whole, NEW m \in Migrators, Statement(m)
  PROVE  Whole'
<1> DEFINE done == Executed(Met(m), Script(m)[job[m].pos])
<1>1. /\ job'[m] = InTransaction(m, job[m].at, job[m].pos + 1, done)
      /\ \A n \in Migrators \ {m} : job'[n] = job[n]
      /\ schema' = schema
  BY DEF Statement, IInv, Typed
<1>2. Runs(m) /\ job[m].pos <= Len(Script(m)) /\ Alone(m)
  BY DEF Statement, AtStatement, Runs
<1> HIDE DEF done
<1>3. IsJob(job[m]) /\ IsOnItsWay(job[m], schema.revision) /\ job[m].phase \in {"ready", "writing"}
      /\ IsDatabase(Met(m)) /\ job[m].at # job[m].goal
  BY <1>2, MetIsDatabase DEF IInv, Typed, Whole, Runs
<1>4. done.revision = Met(m).revision
  BY <1>3, ExecutedKeepsRevision DEF done
<1>5. job[m].goal # job[m].from
  BY <1>3 DEF IsOnItsWay, IsJob, Revisions
<1>6. ASSUME schema.revision = job[m].from
      PROVE  IsOnItsWay(job'[m], schema.revision)
  <2>1. /\ OnItsWay(Met(m), job[m].at, job[m].pos, Ascends(m))
        /\ Len(Script(m)) \in Nat /\ job[m].pos \in 1..(Len(Script(m)) + 1)
        /\ IF Ascends(m) THEN job[m].at \in 0..8 ELSE job[m].at \in 1..9
    BY <1>2, <1>6, MetIsOnItsWay DEF IInv
  <2>2. OnItsWay(done, job[m].at, job[m].pos + 1, Ascends(m))
    <3>1. CASE Ascends(m)
      <4>1. Ascends(m) = TRUE /\ job[m].at \in 0..8 /\ Script(m) = History[job[m].at + 1].up
        BY <2>1, <3>1 DEF Ascends, Script
      <4>2. PICK q : q = job[m].at + 1
        OBVIOUS
      <4>3. job[m].pos \in 1..Len(History[q].up) /\ Script(m) = History[q].up
        BY <1>2, <2>1, <4>1, <4>2
      <4> QED
        BY <2>1, <4>1, <4>2, <4>3, UpStatementFits DEF done
    <3>2. CASE ~Ascends(m)
      <4>1. Ascends(m) = FALSE /\ job[m].at \in 1..9 /\ Script(m) = History[job[m].at].down
        BY <2>1, <3>2 DEF Ascends, Script
      <4>2. job[m].pos \in 1..Len(History[job[m].at].down)
        BY <1>2, <2>1, <4>1
      <4> QED
        BY <2>1, <4>1, <4>2, DownStatementFits DEF done
    <3> QED
      BY <3>1, <3>2
  <2>3. /\ job'[m].phase = "writing" /\ job'[m].goal = job[m].goal /\ job'[m].from = job[m].from
        /\ job'[m].at = job[m].at /\ job'[m].pos = job[m].pos + 1 /\ job'[m].work = done
    BY <1>1 DEF InTransaction
  <2>4. Script(m) = ScriptOf(job[m].at, job[m].goal > job[m].from)
    BY DEF Script, ScriptOf, Ascends
  <2> QED
    BY <1>2, <1>3, <1>5, <1>6, <2>1, <2>2, <2>3, <2>4 DEF IsOnItsWay, Ascends
<1>7. ASSUME schema.revision # job[m].from
      PROVE  IsOnItsWay(job'[m], schema.revision)
  <2>1. Met(m).revision = schema.revision /\ job[m].at = job[m].from /\ job[m].pos \in Nat
    BY <1>3, <1>7 DEF Met, IsOnItsWay
  <2> QED
    BY <1>1, <1>3, <1>4, <1>5, <1>7, <2>1 DEF IsOnItsWay, InTransaction
<1> QED
  BY <1>1, <1>2, <1>6, <1>7, WholeStays

LEMMA WholeStamp ==
  ASSUME IInv, Whole, NEW m \in Migrators, Stamp(m)
  PROVE  Whole'
<1> DEFINE next == IF Ascends(m) THEN job[m].at + 1 ELSE job[m].at - 1
           done == [Met(m) EXCEPT !.revision = next]
<1>1. /\ job'[m] = InTransaction(m, next, 1, done)
      /\ \A n \in Migrators \ {m} : job'[n] = job[n]
      /\ schema' = schema
  BY DEF Stamp, IInv, Typed
<1>2. Runs(m) /\ job[m].pos > Len(Script(m)) /\ Alone(m) /\ Fits(m)
  BY DEF Stamp, AtStamp, Runs
<1>3. IsJob(job[m]) /\ IsOnItsWay(job[m], schema.revision) /\ job[m].phase \in {"ready", "writing"}
      /\ job[m].at # job[m].goal
  BY <1>2 DEF IInv, Typed, Whole, Runs
<1>4. schema.revision = job[m].from
  <2> SUFFICES ASSUME schema.revision # job[m].from PROVE FALSE
    OBVIOUS
  <2>1. Met(m).revision = schema.revision /\ job[m].at = job[m].from
    BY <1>3 DEF Met, IsOnItsWay
  <2>2. Len(Script(m)) \in Nat /\ job[m].pos \in Nat
    BY <1>2, <1>3, ScriptHasLength DEF IInv, IsOnItsWay
  <2>3. Met(m).revision = job[m].at
    BY <1>2, <2>2 DEF Fits
  <2> QED
    BY <2>1, <2>3
<1>5. /\ OnItsWay(Met(m), job[m].at, job[m].pos, Ascends(m))
      /\ Len(Script(m)) \in Nat /\ job[m].pos \in 1..(Len(Script(m)) + 1)
      /\ IF Ascends(m) THEN job[m].at \in 0..8 ELSE job[m].at \in 1..9
  BY <1>2, <1>4, MetIsOnItsWay DEF IInv
<1>6. job[m].pos = Len(Script(m)) + 1
  BY <1>2, <1>5
<1>7. next \in 0..9 /\ OnItsWay(done, next, 1, FALSE)
  <2>1. CASE Ascends(m)
    <3>1. Ascends(m) = TRUE /\ job[m].at \in 0..8 /\ Script(m) = History[job[m].at + 1].up
      BY <1>5, <2>1 DEF Ascends, Script
    <3>2. OnItsWay(Met(m), job[m].at, Len(History[job[m].at + 1].up) + 1, TRUE)
      BY <1>5, <1>6, <3>1
    <3>3. job[m].at \in 0..9 /\ job[m].at < 9 /\ next = job[m].at + 1
          /\ done = [Met(m) EXCEPT !.revision = job[m].at + 1]
      BY <3>1
    <3>4. OnItsWay([Met(m) EXCEPT !.revision = job[m].at + 1], job[m].at + 1, 1, FALSE)
      BY <3>2, <3>3, EndOfScript
    <3>5. next \in 0..9
      BY <3>3
    <3> HIDE DEF next, done
    <3>6. PICK w : w = [Met(m) EXCEPT !.revision = job[m].at + 1]
      OBVIOUS
    <3>7. OnItsWay(w, next, 1, FALSE)
      BY <3>3, <3>4, <3>6
    <3> QED
      BY <3>3, <3>5, <3>6, <3>7
  <2>2. CASE ~Ascends(m)
    <3>1. Ascends(m) = FALSE /\ job[m].at \in 1..9 /\ Script(m) = History[job[m].at].down
      BY <1>5, <2>2 DEF Ascends, Script
    <3>2. OnItsWay(Met(m), job[m].at, Len(History[job[m].at].down) + 1, FALSE)
      BY <1>5, <1>6, <3>1
    <3>3. job[m].at \in 0..9 /\ job[m].at > 0 /\ next = job[m].at - 1
          /\ done = [Met(m) EXCEPT !.revision = job[m].at - 1]
      BY <3>1
    <3>4. OnItsWay([Met(m) EXCEPT !.revision = job[m].at - 1], job[m].at - 1, 1, FALSE)
      BY <3>2, <3>3, EndOfScript
    <3>5. next \in 0..9
      BY <3>3
    <3> HIDE DEF next, done
    <3>6. PICK w : w = [Met(m) EXCEPT !.revision = job[m].at - 1]
      OBVIOUS
    <3>7. OnItsWay(w, next, 1, FALSE)
      BY <3>3, <3>4, <3>6
    <3> QED
      BY <3>3, <3>5, <3>6, <3>7
  <2> QED
    BY <2>1, <2>2
<1>8. next # job[m].goal => /\ Len(ScriptOf(next, job[m].goal > job[m].from)) \in Nat
  <2> SUFFICES ASSUME next # job[m].goal PROVE Len(ScriptOf(next, job[m].goal > job[m].from)) \in Nat
    OBVIOUS
  <2>1. CASE Ascends(m)
    <3>1. PICK q : q = next + 1
      OBVIOUS
    <3>2. q \in 1..9 /\ ScriptOf(next, job[m].goal > job[m].from) = History[q].up
      BY <1>3, <1>5, <2>1, <3>1, HeadIsLatest DEF IsJob, Revisions, ScriptOf, Ascends
    <3> QED
      BY <3>2, Domains
  <2>2. CASE ~Ascends(m)
    <3>1. next \in 1..9 /\ ScriptOf(next, job[m].goal > job[m].from) = History[next].down
      BY <1>3, <1>5, <2>2, HeadIsLatest DEF IsJob, Revisions, ScriptOf, Ascends
    <3> QED
      BY <3>1, Domains
  <2> QED
    BY <2>1, <2>2
<1> HIDE DEF next, done
<1>9. OnItsWay(done, next, 1, Ascends(m))
  <2>1. CASE Ascends(m)
    <3>1. Ascends(m) = TRUE
      BY <2>1 DEF Ascends
    <3> QED
      BY <1>7, <3>1, EndOfScript
  <2>2. CASE ~Ascends(m)
    <3>1. Ascends(m) = FALSE
      BY <2>2 DEF Ascends
    <3> QED
      BY <1>7, <3>1
  <2> QED
    BY <2>1, <2>2
<1>10. job[m].goal # job[m].from
  BY <1>3 DEF IsOnItsWay, IsJob, Revisions
<1>11. IsOnItsWay(job'[m], schema.revision)
  <2>1. /\ job'[m].phase = "writing" /\ job'[m].goal = job[m].goal /\ job'[m].from = job[m].from
        /\ job'[m].at = next /\ job'[m].pos = 1 /\ job'[m].work = done
    BY <1>1 DEF InTransaction
  <2> QED
    BY <1>4, <1>8, <1>9, <1>10, <2>1 DEF IsOnItsWay, Ascends
<1> QED
  BY <1>1, <1>2, <1>11, WholeStays

LEMMA WholeFinish ==
  ASSUME IInv, Whole, NEW m \in Migrators, Finish(m)
  PROVE  Whole'
<1>1. /\ job[m].phase \in {"ready", "writing"} /\ job[m].at = job[m].goal
      /\ schema' = Met(m) /\ job'[m] = NoJob
      /\ \A n \in Migrators \ {m} : job'[n] = job[n]
  BY DEF Finish, IInv, Typed
<1>2. \A d : IsOnItsWay(NoJob, d)
  BY DEF IsOnItsWay, NoJob
<1>3. CASE job[m].phase = "ready"
  <2>1. schema' = schema
    BY <1>1, <1>3 DEF Met
  <2> QED
    BY <1>1, <1>2, <2>1, WholeStays DEF NoJob
<1>4. CASE job[m].phase = "writing"
  <2>1. IsJob(job[m]) /\ IsOnItsWay(job[m], schema.revision) /\ schema' = job[m].work
    BY <1>1, <1>4 DEF IInv, Typed, Whole, Met
  <2>2. OnItsWay(job[m].work, job[m].at, 1, job[m].goal > job[m].from)
    BY <1>1, <1>4, <2>1 DEF IsOnItsWay
  <2>3. job[m].at \in 0..9
    BY <2>1, HeadIsLatest DEF IsJob, Revisions
  <2>4. OnItsWay(job[m].work, job[m].at, 1, FALSE)
    <3>1. CASE job[m].goal > job[m].from
      <4>1. (job[m].goal > job[m].from) = TRUE
        BY <3>1
      <4> QED
        BY <2>2, <2>3, <4>1, EndOfScript
    <3>2. CASE ~(job[m].goal > job[m].from)
      <4>1. (job[m].goal > job[m].from) = FALSE
        BY <3>2
      <4> QED
        BY <2>2, <4>1
    <3> QED
      BY <3>1, <3>2
  <2>5. OnItsWay(schema', schema'.revision, 1, FALSE)
    BY <2>1, <2>4 DEF OnItsWay
  <2>6. \A n \in Migrators \ {m} : job[n].phase # "writing" /\ IsOnItsWay(job[n], schema'.revision)
    BY <1>4 DEF Whole, IsOnItsWay
  <2> QED
    BY <1>1, <1>2, <2>5, <2>6 DEF Whole, NoJob
<1> QED
  BY <1>1, <1>3, <1>4

\* The other steps begin a command, which has read the version row, or end one.
Ends(j, k) ==
  \/ k = j
  \/ k = NoJob
  \/ k.phase = "ready" /\ k.at = k.from /\ k.pos = 1

LEMMA WholeElse ==
  ASSUME Whole, schema' = schema, \A n \in Migrators : Ends(job[n], job'[n])
  PROVE  Whole'
<1>1. \A n \in Migrators : IsOnItsWay(job'[n], schema.revision)
  BY DEF Whole, IsOnItsWay, Ends, NoJob
<1>2. \A n, o \in Migrators : job'[n].phase = "writing" /\ job'[o].phase = "writing" => n = o
  BY DEF Whole, Ends, NoJob
<1>3. OnItsWay(schema', schema'.revision, 1, FALSE)
  BY DEF Whole
<1> QED
  BY <1>1, <1>2, <1>3 DEF Whole

LEMMA WholeInit == StartInit => Whole
<1> SUFFICES ASSUME StartInit PROVE Whole
  OBVIOUS
<1>1. PICK r \in 0..9, held \in SUBSET {"admin", "user"} : schema = Database(r, held)
  BY StartUpAssumption, HeadIsLatest DEF StartInit
<1>2. schema.revision = r /\ schema.objects = [n \in DownTo(r, 1) |-> Of(n).needs]
  BY <1>1, ObjectsOfRevision DEF Database
<1>3. schema.held \subseteq schema.roles
  BY <1>1 DEF Database
<1>4. /\ ("roles" \in DownTo(r, 1)) = (r >= 2)
      /\ ("users" \in DownTo(r, 1)) = (r >= 2)
  BY DEF DownTo, Names, Of, Thing
<1>5. Holds(schema, DownTo(r, 1))
  BY <1>1, <1>2, <1>3, <1>4 DEF Holds, Database
<1>6. OnItsWay(schema, r, 1, FALSE)
  BY <1>1, <1>2, <1>4, <1>5 DEF OnItsWay, Rows, Database
<1> QED
  BY <1>2, <1>6 DEF StartInit, Whole, IsOnItsWay, NoJob

LEMMA WholeKept == IInv /\ Whole /\ [StartNext]_startVars => Whole'
<1> SUFFICES ASSUME IInv, Whole, [StartNext]_startVars PROVE Whole'
  OBVIOUS
<1>1. CASE \E m \in Migrators : Statement(m) \/ Stamp(m) \/ Finish(m)
  BY <1>1, WholeStatement, WholeStamp, WholeFinish
<1>2. CASE UNCHANGED <<schema, job>>
  BY <1>2, WholeElse DEF Ends
<1>3. CASE Kill \/ Outage \/ \E m \in Migrators : Fail(m)
  <2>1. schema' = schema /\ \A n \in Migrators : Ends(job[n], job'[n])
    BY <1>3 DEF Kill, Outage, Fail, IInv, Typed, Ends
  <2> QED
    BY <2>1, WholeElse
<1>4. CASE Migrate \/ OperatorCommand
  <2>1. schema' = schema
    BY <1>4 DEF Migrate, OperatorCommand
  <2>2. ASSUME NEW m \in Migrators, NEW goal, Begin(m, goal)
        PROVE  \A n \in Migrators : Ends(job[n], job'[n])
    BY <2>2 DEF Begin, Ends, IInv, Typed
  <2>3. ASSUME UNCHANGED job
        PROVE  \A n \in Migrators : Ends(job[n], job'[n])
    BY <2>3 DEF Ends
  <2>4. \A n \in Migrators : Ends(job[n], job'[n])
    BY <1>4, <2>2, <2>3 DEF Migrate, OperatorCommand, Migrators
  <2> QED
    BY <2>1, <2>4, WholeElse
<1> QED
  BY <1>1, <1>2, <1>3, <1>4 DEF StartNext, startVars, Boot, AwaitDatabase, Restart, ProbeDatabase,
     ProbeRedis, ProbeMigrations, ProbeSchema, ProbeRefused, Looks, StartWorkers, GiveUp, ComposeAgain,
     Recover

LEMMA WholeHolds == StartSpec => [](IInv /\ Whole)
  BY InitHolds, NextKeeps, WholeInit, WholeKept, PTL DEF StartSpec

\* At every moment the committed schema is exactly what the upgrades up to its
\* revision make from nothing, whatever was killed, lost its connection, raced or was
\* taken down and up again (env.py:46; versions/).
THEOREM SchemaIsAlwaysItsRevisions == StartSpec => []SchemaIsItsRevisions
<1>1. IInv /\ Whole => SchemaIsItsRevisions
  <2> SUFFICES ASSUME IInv, Whole PROVE SchemaIsItsRevisions
    OBVIOUS
  <2>1. PICK r \in 0..9 : r = schema.revision
    BY HeadIsLatest DEF IInv, Typed, IsDatabase, Revisions
  <2>2. Holds(schema, DownTo(r, 1)) /\ ("roles" \in DownTo(r, 1) => "user" \in schema.roles)
    BY <2>1 DEF Whole, OnItsWay, Rows
  <2>3. r >= 2 => "roles" \in DownTo(r, 1)
    BY DEF DownTo, Names, Of, Thing
  <2>4. schema.objects = ObjectsAt[r]
    BY <2>2, ObjectsOfRevision DEF Holds
  <2> QED
    BY <2>1, <2>2, <2>3, <2>4 DEF Holds, SchemaIsItsRevisions
<1> QED
  BY <1>1, WholeHolds, PTL

\* No statement of a migration is refused, and no version row found changed, unless
\* another command has committed since this one read it (migrations_runner.py:58).
THEOREM OnlyRacesEverRefuseStatements == StartSpec => []OnlyRacesRefuseStatements
<1>1. IInv /\ Whole => OnlyRacesRefuseStatements
  BY NextStepFits DEF IInv, OnlyRacesRefuseStatements
<1> QED
  BY <1>1, WholeHolds, PTL

-----------------------------------------------------------------------------
(***************************************************************************)
(* The rows users keep.  The invariant is stated of a table R and the      *)
(* encryption key k so that a step is one instance of it to the next.      *)
(***************************************************************************)

\* A row as the tables hold it: all its columns, its secret under a key once in use.
IsRow(r, k) ==
  /\ r = [kind |-> r.kind, owner |-> r.owner, col |-> r.col, used |-> r.used]
  /\ r.kind \in DOMAIN Columns
  /\ DOMAIN r.col = Columns[r.kind]
  /\ r.kind = "key" => r.col["secret"] \in 0..k

IsTable(R, last, k) ==
  /\ R = [i \in DOMAIN R |-> R[i]]
  /\ DOMAIN R \subseteq 1..last
  /\ \A i \in DOMAIN R : IsRow(R[i], k)

IsRequest(q, last, k) ==
  /\ DOMAIN q = {"phase", "op", "id", "seen", "ask", "work", "answer", "overtaken"}
  /\ q.phase \in {"idle", "read", "written", "committed"}
  /\ q.phase # "idle" => q.op \in {"insert", "insert-for-nothing", "update", "delete"}
  /\ q.id \in 0..last
  /\ "secret" \in DOMAIN q.ask => q.ask["secret"] \in 0..k

\* Taken, of any table.
TakenIn(R, row, id) == \E i \in DOMAIN R \ {id} : Rivals(R[i], row)

\* The foreign keys' flag aside.
SameButUsed(r1, r2) == r1.kind = r2.kind /\ r1.owner = r2.owner /\ r1.col = r2.col

\* What the request asks for are columns of the row it has.
Fitting(q, k) == IsRow(q.seen, k) /\ DOMAIN q.ask \subseteq DOMAIN q.seen.col

\* What a session has looked up is so until another commits.
ReadsToInsert(q, R, k) ==
  q.phase = "read" /\ q.op \in {"insert", "insert-for-nothing"} =>
    /\ Fitting(q, k)
    /\ q.overtaken \/ ~TakenIn(R, Over(q.seen, q.ask, DOMAIN q.ask), 0)

ReadsToUpdate(q, R, k) ==
  q.phase = "read" /\ q.op = "update" =>
    /\ Fitting(q, k)
    /\ q.id # 0
    /\ \/ q.overtaken
       \/ /\ q.id \in DOMAIN R
          /\ SameButUsed(R[q.id], q.seen)
          /\ ~TakenIn(R, Over(q.seen, q.ask, DOMAIN q.ask), q.id)

ReadsToDelete(q) == q.phase = "read" /\ q.op = "delete" => q.id # 0

\* What it has written is free of rivals, and an UPDATE is of the row as it is.
HasWritten(q, R, k) ==
  q.phase = "written" =>
    /\ q.op # "insert-for-nothing"
    /\ q.id # 0
    /\ q.op = "delete" => q.work = NoRow
    /\ q.op # "delete" => IsRow(q.work, k) /\ ~TakenIn(R, q.work, q.id)
    /\ q.op = "update" => /\ q.id \in DOMAIN R
                          /\ q.work = Over(R[q.id], q.ask, Changed(q))

HasCommitted(q, R) ==
  q.phase = "committed" =>
    /\ q.op # "insert-for-nothing"
    /\ q.overtaken \/ q.op = "delete" \/ q.id \in DOMAIN R

Serves(q, R, k) ==
  /\ ReadsToInsert(q, R, k) /\ ReadsToUpdate(q, R, k) /\ ReadsToDelete(q)
  /\ HasWritten(q, R, k) /\ HasCommitted(q, R)

\* Two that have written wait for each other's row and unique values no more.
Apart(q1, q2) ==
  q1.phase = "written" /\ q2.phase = "written" => q1.id # q2.id /\ ~Rivals(q1.work, q2.work)

RecordsTyped ==
  /\ lastId \in Nat /\ key \in Nat
  /\ IsTable(rows, lastId, key)
  /\ request = [s \in RecordSessions |-> request[s]]
  /\ \A s \in RecordSessions : IsRequest(request[s], lastId, key)

NoRivals == \A i, j \in DOMAIN rows : i # j => ~Rivals(rows[i], rows[j])

RecordsInv ==
  /\ RecordsTyped
  /\ NoRivals
  /\ \A s \in RecordSessions : Serves(request[s], rows, key)
  /\ \A s, t \in RecordSessions : s # t => Apart(request[s], request[t])

-----------------------------------------------------------------------------
LEMMA TakenIsIn == \A row, id : Taken(row, id) <=> TakenIn(rows, row, id)
  BY DEF Taken, TakenIn

\* Over keeps all of a row but the columns.
LEMMA OverKeeps ==
  ASSUME NEW r, NEW k, IsRow(r, k), NEW ask, NEW columns
  PROVE  /\ Over(r, ask, columns).kind = r.kind
         /\ Over(r, ask, columns).owner = r.owner
         /\ Over(r, ask, columns).used = r.used
         /\ Over(r, ask, columns).col =
              [c \in DOMAIN r.col |-> IF c \in columns THEN ask[c] ELSE r.col[c]]
  BY DEF IsRow, Over

LEMMA OverKeepsOwner ==
  ASSUME NEW r, NEW k, IsRow(r, k), NEW ask, NEW columns
  PROVE  Over(r, ask, columns).kind = r.kind /\ Over(r, ask, columns).owner = r.owner
  BY DEF IsRow, Over

LEMMA OverIsRecord ==
  ASSUME NEW r, NEW k, IsRow(r, k), NEW ask, NEW columns, NEW o, o = Over(r, ask, columns)
  PROVE  o = [kind |-> o.kind, owner |-> o.owner, col |-> o.col, used |-> o.used]
  BY DEF IsRow, Over

LEMMA OverIsRow ==
  ASSUME NEW r, NEW k, IsRow(r, k), NEW ask, NEW columns,
         "secret" \in columns => ask["secret"] \in 0..k
  PROVE  IsRow(Over(r, ask, columns), k)
<1> DEFINE o == Over(r, ask, columns)
<1>1. /\ o.kind = r.kind
      /\ o.col = [c \in DOMAIN r.col |-> IF c \in columns THEN ask[c] ELSE r.col[c]]
  BY OverKeeps
<1>4. o = [kind |-> o.kind, owner |-> o.owner, col |-> o.col, used |-> o.used]
  BY OverIsRecord
<1> HIDE DEF o
<1>2. o.kind = "key" => o.col["secret"] \in 0..k
  BY <1>1 DEF IsRow, Columns
<1>3. IsRow(o, k)
  BY <1>1, <1>2, <1>4 DEF IsRow
<1> QED
  BY <1>3 DEF o

LEMMA RowIsNotNone ==
  ASSUME NEW r, NEW k, IsRow(r, k)
  PROVE  r # NoRow
  BY DEF IsRow, NoRow, Columns

\* Rows have the same rivals that differ in the flag only.
LEMMA SameRivals ==
  ASSUME NEW r1, NEW r2, SameButUsed(r1, r2), NEW r
  PROVE  (Rivals(r1, r) <=> Rivals(r2, r)) /\ (Rivals(r, r1) <=> Rivals(r, r2))
  BY DEF SameButUsed, Rivals

LEMMA RivalsBothWays == \A r1, r2 : Rivals(r1, r2) <=> Rivals(r2, r1)
  BY DEF Rivals

LEMMA NoRowHasNoRival == \A r : ~Rivals(r, NoRow) /\ ~Rivals(NoRow, r)
  BY DEF Rivals, NoRow

\* A request that has ended, or none, asks nothing of the table.
LEMMA EndedServes ==
  ASSUME NEW code, NEW R, NEW k, NEW last \in Nat
  PROVE  Serves(Answered(code), R, k) /\ IsRequest(Answered(code), last, k)
         /\ Answered(code).phase = "idle"
<1>1. /\ DOMAIN Answered(code) = {"phase", "op", "id", "seen", "ask", "work", "answer", "overtaken"}
      /\ Answered(code).phase = "idle" /\ Answered(code).id = 0 /\ DOMAIN Answered(code).ask = {}
  BY DEF Answered, NoRequest
<1> HIDE DEF Answered
<1> QED
  BY <1>1 DEF Serves, ReadsToInsert, ReadsToUpdate, ReadsToDelete, HasWritten, HasCommitted,
                    IsRequest

LEMMA NoRequestServes ==
  ASSUME NEW R, NEW k, NEW last \in Nat
  PROVE  Serves(NoRequest, R, k) /\ IsRequest(NoRequest, last, k) /\ NoRequest.phase = "idle"
<1>1. /\ DOMAIN NoRequest = {"phase", "op", "id", "seen", "ask", "work", "answer", "overtaken"}
      /\ NoRequest.phase = "idle" /\ NoRequest.id = 0 /\ DOMAIN NoRequest.ask = {}
  BY DEF NoRequest
<1> QED
  BY <1>1 DEF Serves, ReadsToInsert, ReadsToUpdate, ReadsToDelete, HasWritten, HasCommitted,
              IsRequest

\* A table whose rows only change their flag serves as well.
LEMMA ServesStill ==
  ASSUME NEW q, NEW R, NEW R2, NEW k, Serves(q, R, k),
         DOMAIN R2 = DOMAIN R,
         \A i \in DOMAIN R : SameButUsed(R2[i], R[i]),
         q.phase = "written" /\ q.id \in DOMAIN R => R2[q.id] = R[q.id]
  PROVE  Serves(q, R2, k)
<1>1. ASSUME NEW row, NEW id
      PROVE  TakenIn(R2, row, id) <=> TakenIn(R, row, id)
  BY SameRivals DEF TakenIn
<1>2. ReadsToInsert(q, R2, k)
  BY <1>1 DEF Serves, ReadsToInsert
<1>3. ReadsToUpdate(q, R2, k)
  <2>1. q.id \in DOMAIN R /\ SameButUsed(R[q.id], q.seen) => SameButUsed(R2[q.id], q.seen)
    BY DEF SameButUsed
  <2> QED
    BY <1>1, <2>1 DEF Serves, ReadsToUpdate
<1>4. HasWritten(q, R2, k)
  BY <1>1 DEF Serves, HasWritten
<1>5. HasCommitted(q, R2)
  BY DEF Serves, HasCommitted
<1> QED
  BY <1>2, <1>3, <1>4, <1>5 DEF Serves

\* Another commits row id.
SameBut(R, R2, id) ==
  /\ \A i : i # id => (i \in DOMAIN R2 <=> i \in DOMAIN R)
  /\ \A i \in DOMAIN R2 : i # id => R2[i] = R[i]

LEMMA ServesOvertaken ==
  ASSUME NEW q, NEW R, NEW R2, NEW k, NEW last, NEW id, Serves(q, R, k), IsRequest(q, last, k),
         SameBut(R, R2, id),
         q.phase = "written" => q.id # id,
         q.phase = "written" /\ id \in DOMAIN R2 => ~Rivals(R2[id], q.work),
         NEW p, p = [q EXCEPT !.overtaken = TRUE]
  PROVE  Serves(p, R2, k) /\ IsRequest(p, last, k)
<1>1. /\ DOMAIN p = DOMAIN q
      /\ p.phase = q.phase /\ p.op = q.op /\ p.id = q.id /\ p.seen = q.seen /\ p.ask = q.ask
      /\ p.work = q.work /\ p.overtaken
  BY DEF IsRequest
<1>2. q.phase = "written" /\ ~TakenIn(R, q.work, q.id) => ~TakenIn(R2, q.work, q.id)
  BY DEF TakenIn, SameBut
<1>3. HasWritten(p, R2, k)
  <2>1. Changed(p) = Changed(q)
    BY <1>1 DEF Changed
  <2>2. q.phase = "written" /\ q.id \in DOMAIN R => q.id \in DOMAIN R2 /\ R2[q.id] = R[q.id]
    BY DEF SameBut
  <2> QED
    BY <1>1, <1>2, <2>1, <2>2 DEF Serves, HasWritten
<1>4. Fitting(p, k) <=> Fitting(q, k)
  BY <1>1 DEF Fitting
<1>5. ReadsToInsert(p, R2, k) /\ ReadsToUpdate(p, R2, k) /\ ReadsToDelete(p)
  BY <1>1, <1>4 DEF Serves, ReadsToInsert, ReadsToUpdate, ReadsToDelete
<1>6. HasCommitted(p, R2)
  BY <1>1 DEF Serves, HasCommitted
<1> QED
  BY <1>1, <1>3, <1>5, <1>6 DEF Serves, IsRequest

\* Ids and keys that come later take nothing away.
LEMMA TypesGrow ==
  ASSUME NEW k \in Nat, NEW k2 \in Nat, k <= k2, NEW last \in Nat, NEW last2 \in Nat, last <= last2
  PROVE  /\ \A R : IsTable(R, last, k) => IsTable(R, last2, k2)
         /\ \A q : IsRequest(q, last, k) => IsRequest(q, last2, k2)
<1>1. 0..k \subseteq 0..k2 /\ 0..last \subseteq 0..last2 /\ 1..last \subseteq 1..last2
  OBVIOUS
<1> QED
  BY <1>1 DEF IsTable, IsRow, IsRequest

-----------------------------------------------------------------------------
(***************************************************************************)
(* The ways a request moves.                                               *)
(***************************************************************************)
LEMMA ReceivesKeeps ==
  ASSUME RecordsInv, NEW s \in RecordSessions, NEW q, Receives(s, q),
         q.phase \in {"idle", "read"}, IsRequest(q, lastId, key), Serves(q, rows, key)
  PROVE  RecordsInv'
<1>1. ASSUME NEW t \in RecordSessions
      PROVE  request'[t] = IF t = s THEN q
                           ELSE IF request[t].phase = "idle" THEN NoRequest ELSE request[t]
  BY DEF Receives
<1>2. ASSUME NEW t \in RecordSessions
      PROVE  /\ IsRequest(request'[t], lastId, key)
             /\ Serves(request'[t], rows, key)
             /\ request'[t].phase = "written" => t # s /\ request'[t] = request[t]
  BY <1>1, NoRequestServes DEF RecordsInv, RecordsTyped
<1>3. RecordsTyped'
  BY <1>2 DEF RecordsInv, RecordsTyped, Receives
<1>4. NoRivals'
  BY DEF RecordsInv, NoRivals, Receives
<1>5. \A t, u \in RecordSessions : t # u => Apart(request'[t], request'[u])
  BY <1>2 DEF RecordsInv, Apart
<1> QED
  BY <1>2, <1>3, <1>4, <1>5 DEF RecordsInv, Receives

\* Session s goes on to q, or leaves it.
LEMMA MovesKeeps ==
  ASSUME RecordsInv, NEW s \in RecordSessions, NEW q, request' = [request EXCEPT ![s] = q],
         UNCHANGED <<rows, key>>, lastId' \in Nat, lastId' >= lastId,
         IsRequest(q, lastId', key), Serves(q, rows, key),
         \A t \in RecordSessions \ {s} : Apart(request[t], q)
  PROVE  RecordsInv'
<1>1. ASSUME NEW t \in RecordSessions
      PROVE  request'[t] = IF t = s THEN q ELSE request[t]
  BY DEF RecordsInv, RecordsTyped
<1>2. RecordsTyped'
  <2>1. \A t \in RecordSessions : IsRequest(request'[t], lastId', key)
    BY <1>1, TypesGrow DEF RecordsInv, RecordsTyped
  <2>2. IsTable(rows, lastId', key)
    BY TypesGrow DEF RecordsInv, RecordsTyped
  <2> QED
    BY <2>1, <2>2 DEF RecordsInv, RecordsTyped
<1>3. NoRivals'
  BY DEF RecordsInv, NoRivals
<1>4. \A t \in RecordSessions : Serves(request'[t], rows, key)
  BY <1>1 DEF RecordsInv
<1>5. \A t, u \in RecordSessions : t # u => Apart(request'[t], request'[u])
  <2>1. \A t \in RecordSessions \ {s} : Apart(q, request[t])
    BY RivalsBothWays DEF Apart
  <2> QED
    BY <1>1, <2>1 DEF RecordsInv
<1> QED
  BY <1>2, <1>3, <1>4, <1>5 DEF RecordsInv

LEMMA FailsKeeps ==
  ASSUME RecordsInv, NEW s \in RecordSessions, NEW code, Fails(s, code),
         lastId' \in Nat, lastId' >= lastId
  PROVE  RecordsInv'
<1>1. \A t \in RecordSessions \ {s} : Apart(request[t], Answered(code))
  BY EndedServes DEF Apart
<1>2. IsRequest(Answered(code), lastId', key) /\ Serves(Answered(code), rows, key)
  BY EndedServes
<1> QED
  BY <1>1, <1>2, MovesKeeps DEF Fails

LEMMA WroteKeeps ==
  ASSUME RecordsInv, NEW s \in RecordSessions, NEW id, NEW work, Wrote(s, id, work),
         lastId' \in Nat, lastId' >= lastId, id \in 1..lastId',
         request[s].op \in {"insert", "update", "delete"},
         IF request[s].op = "delete" THEN work = NoRow
         ELSE IsRow(work, key) /\ ~TakenIn(rows, work, id),
         request[s].op = "update" => /\ id \in DOMAIN rows
                                     /\ work = Over(rows[id], request[s].ask, Changed(request[s])),
         \A t \in RecordSessions \ {s} :
           request[t].phase = "written" => request[t].id # id /\ ~Rivals(request[t].work, work)
  PROVE  RecordsInv'
<1> DEFINE r == request[s]
           q1 == [r EXCEPT !.phase = "written"]
           q2 == [q1 EXCEPT !.id = id]
           q == [q2 EXCEPT !.work = work]
<1>1. IsRequest(r, lastId, key)
  BY DEF RecordsInv, RecordsTyped
<1>2. request' = [request EXCEPT ![s] = q]
  BY DEF RecordsInv, RecordsTyped, Wrote
<1>3. /\ q.phase = "written" /\ q.op = r.op /\ q.id = id /\ q.seen = r.seen /\ q.ask = r.ask
      /\ q.work = work
      /\ DOMAIN q = DOMAIN r
  <2>1. /\ DOMAIN q1 = DOMAIN r /\ q1.phase = "written"
        /\ q1.op = r.op /\ q1.seen = r.seen /\ q1.ask = r.ask
    BY <1>1 DEF IsRequest
  <2> HIDE DEF q1
  <2>2. /\ DOMAIN q2 = DOMAIN r /\ q2.phase = "written" /\ q2.id = id
        /\ q2.op = r.op /\ q2.seen = r.seen /\ q2.ask = r.ask
    BY <1>1, <2>1 DEF IsRequest
  <2> HIDE DEF q2
  <2> QED
    BY <1>1, <2>2 DEF IsRequest
<1>4. Changed(q) = Changed(r)
  BY DEF Changed
<1> HIDE DEF q, q1, q2
<1>5. IsRequest(q, lastId', key)
  BY <1>1, <1>3 DEF IsRequest, RecordsInv, RecordsTyped
<1>6. Serves(q, rows, key)
  BY <1>3, <1>4 DEF Serves, ReadsToInsert, ReadsToUpdate, ReadsToDelete, HasWritten, HasCommitted
<1>7. \A t \in RecordSessions \ {s} : Apart(request[t], q)
  BY <1>3 DEF Apart
<1> QED
  BY <1>2, <1>5, <1>6, <1>7, MovesKeeps DEF Wrote

-----------------------------------------------------------------------------
(***************************************************************************)
(* A request arrives: what it reads holds of what is committed.            *)
(***************************************************************************)
LEMMA ReadIs ==
  ASSUME NEW op, NEW id, NEW seen, NEW ask
  PROVE  /\ DOMAIN Read(op, id, seen, ask) =
              {"phase", "op", "id", "seen", "ask", "work", "answer", "overtaken"}
         /\ Read(op, id, seen, ask).phase = "read" /\ Read(op, id, seen, ask).op = op
         /\ Read(op, id, seen, ask).id = id /\ Read(op, id, seen, ask).seen = seen
         /\ Read(op, id, seen, ask).ask = ask
  BY DEF Read

LEMMA ReadsInsert ==
  ASSUME RecordsInv, NEW s \in RecordSessions, NEW op \in {"insert", "insert-for-nothing"},
         NEW seen, NEW ask, IsRow(seen, key), DOMAIN ask \subseteq DOMAIN seen.col,
         "secret" \in DOMAIN ask => ask["secret"] \in 0..key,
         ~TakenIn(rows, Over(seen, ask, DOMAIN ask), 0),
         Receives(s, Read(op, 0, seen, ask))
  PROVE  RecordsInv'
<1> DEFINE q == Read(op, 0, seen, ask)
<1>1. /\ DOMAIN q = {"phase", "op", "id", "seen", "ask", "work", "answer", "overtaken"}
      /\ q.phase = "read" /\ q.op = op /\ q.id = 0 /\ q.seen = seen /\ q.ask = ask
  BY ReadIs
<1>2. Receives(s, q)
  OBVIOUS
<1> HIDE DEF q
<1>3. IsRequest(q, lastId, key)
  BY <1>1 DEF IsRequest, RecordsInv, RecordsTyped
<1>4. Serves(q, rows, key)
  BY <1>1 DEF Serves, ReadsToInsert, ReadsToUpdate, ReadsToDelete, HasWritten, HasCommitted,
              Fitting
<1> QED
  BY <1>1, <1>2, <1>3, <1>4, ReceivesKeeps

LEMMA ReadsUpdate ==
  ASSUME RecordsInv, NEW s \in RecordSessions, NEW id \in DOMAIN rows, NEW ask,
         DOMAIN ask \subseteq DOMAIN rows[id].col,
         "secret" \in DOMAIN ask => ask["secret"] \in 0..key,
         ~TakenIn(rows, Over(rows[id], ask, DOMAIN ask), id),
         Receives(s, Read("update", id, rows[id], ask))
  PROVE  RecordsInv'
<1> PICK row : row = rows[id]
  OBVIOUS
<1> DEFINE q == Read("update", id, row, ask)
<1>1. /\ DOMAIN q = {"phase", "op", "id", "seen", "ask", "work", "answer", "overtaken"}
      /\ q.phase = "read" /\ q.op = "update" /\ q.id = id /\ q.seen = row /\ q.ask = ask
  BY ReadIs
<1>2. Receives(s, q)
  OBVIOUS
<1> HIDE DEF q
<1>3. id \in 1..lastId /\ IsRow(row, key) /\ lastId \in Nat
  BY DEF RecordsInv, RecordsTyped, IsTable
<1>4. IsRequest(q, lastId, key)
  BY <1>1, <1>3 DEF IsRequest
<1>5. Serves(q, rows, key)
  BY <1>1, <1>3 DEF Serves, ReadsToInsert, ReadsToUpdate, ReadsToDelete, HasWritten, HasCommitted,
                    Fitting, SameButUsed
<1> QED
  BY <1>1, <1>2, <1>4, <1>5, ReceivesKeeps

LEMMA AnsweredAtOnce ==
  ASSUME RecordsInv, NEW s \in RecordSessions, NEW code, Receives(s, Answered(code))
  PROVE  RecordsInv'
<1>1. /\ Serves(Answered(code), rows, key) /\ IsRequest(Answered(code), lastId, key)
      /\ Answered(code).phase = "idle"
  BY EndedServes DEF RecordsInv, RecordsTyped
<1> QED
  BY <1>1, ReceivesKeeps

LEMMA AskedIs ==
  ASSUME NEW kind, NEW columns, NEW v, key \in Nat
  PROVE  /\ DOMAIN Asked(kind, columns, v) = columns
         /\ "secret" \in columns => Asked(kind, columns, v)["secret"] \in 0..key
  BY DEF Asked

\* The defaults are a row, and no rival of any while its user has none.
LEMMA DefaultsFit ==
  ASSUME NEW u, SettingsOf(u) = {}, RecordsInv, NEW ask,
         "secret" \notin DOMAIN ask
  PROVE  /\ IsRow(DefaultSettings(u), key)
         /\ DOMAIN DefaultSettings(u).col = Columns["setting"]
         /\ ~TakenIn(rows, Over(DefaultSettings(u), ask, DOMAIN ask), 0)
<1> DEFINE d == DefaultSettings(u)
<1>1. IsRow(d, key) /\ d.kind = "setting" /\ d.owner = u /\ DOMAIN d.col = Columns["setting"]
  BY DEF DefaultSettings, IsRow, Columns
<1> HIDE DEF d
<1>2. Over(d, ask, DOMAIN ask).kind = "setting" /\ Over(d, ask, DOMAIN ask).owner = u
  BY <1>1, OverKeepsOwner
<1>3. ~TakenIn(rows, Over(d, ask, DOMAIN ask), 0)
  BY <1>2 DEF TakenIn, Rivals, SettingsOf
<1> QED
  BY <1>1, <1>3 DEF d

LEMMA GetSettingsStep ==
  ASSUME RecordsInv, NEW s \in RecordSessions, ReceiveGetSettings(s)
  PROVE  RecordsInv'
<1> PICK u \in Users :
      Receives(s, IF SettingsOf(u) = {} THEN Read("insert", 0, DefaultSettings(u), <<>>)
                  ELSE Answered(200))
  BY DEF ReceiveGetSettings
<1>1. CASE SettingsOf(u) = {}
  <2>1. DOMAIN <<>> = {}
    OBVIOUS
  <2>2. PICK none : none = <<>>
    OBVIOUS
  <2>3. DOMAIN none = {} /\ Receives(s, Read("insert", 0, DefaultSettings(u), none))
    BY <1>1, <2>1, <2>2
  <2>4. /\ IsRow(DefaultSettings(u), key)
        /\ ~TakenIn(rows, Over(DefaultSettings(u), none, DOMAIN none), 0)
    BY <1>1, <2>3, DefaultsFit
  <2> QED
    BY <2>3, <2>4, ReadsInsert
<1>2. CASE SettingsOf(u) # {}
  BY <1>2, AnsweredAtOnce
<1> QED
  BY <1>1, <1>2

LEMMA UpdateSettingsStep ==
  ASSUME RecordsInv, NEW s \in RecordSessions, ReceiveUpdateSettings(s)
  PROVE  RecordsInv'
<1> PICK u \in Users, columns \in SUBSET Columns["setting"], v \in Values :
      Receives(s,
         IF SettingsOf(u) = {}
         THEN Read(IF columns = {} THEN "insert-for-nothing" ELSE "insert", 0, DefaultSettings(u),
                   Asked("setting", columns, v))
         ELSE IF columns = {} THEN Answered(422)
         ELSE Read("update", CHOOSE i \in SettingsOf(u) : TRUE,
                   rows[CHOOSE i \in SettingsOf(u) : TRUE], Asked("setting", columns, v)))
  BY DEF ReceiveUpdateSettings
<1> PICK ask : ask = Asked("setting", columns, v)
  OBVIOUS
<1>1. DOMAIN ask = columns /\ "secret" \notin DOMAIN ask
  BY AskedIs DEF Columns, RecordsInv, RecordsTyped
<1>2. CASE SettingsOf(u) = {}
  <2>1. PICK op \in {"insert", "insert-for-nothing"} :
          Receives(s, Read(op, 0, DefaultSettings(u), ask))
    BY <1>2
  <2>2. /\ IsRow(DefaultSettings(u), key)
        /\ DOMAIN ask \subseteq DOMAIN DefaultSettings(u).col
        /\ ~TakenIn(rows, Over(DefaultSettings(u), ask, DOMAIN ask), 0)
    BY <1>1, <1>2, DefaultsFit
  <2> QED
    BY <1>1, <2>1, <2>2, ReadsInsert
<1>3. CASE SettingsOf(u) # {} /\ columns = {}
  BY <1>3, AnsweredAtOnce
<1>4. CASE SettingsOf(u) # {} /\ columns # {}
  <2> PICK id : id = CHOOSE i \in SettingsOf(u) : TRUE
    OBVIOUS
  <2>1. id \in SettingsOf(u)
    BY <1>4
  <2>2. id \in DOMAIN rows /\ rows[id].kind = "setting"
    BY <2>1 DEF SettingsOf
  <2>3. IsRow(rows[id], key)
    BY <2>2 DEF RecordsInv, RecordsTyped, IsTable
  <2>4. DOMAIN ask \subseteq DOMAIN rows[id].col
    BY <1>1, <2>2, <2>3 DEF IsRow
  <2>5. ~TakenIn(rows, Over(rows[id], ask, DOMAIN ask), id)
    <3> PICK o : o = Over(rows[id], ask, DOMAIN ask)
      OBVIOUS
    <3>1. o.kind = rows[id].kind /\ o.owner = rows[id].owner
      BY <2>3, OverKeepsOwner
    <3> QED
      BY <2>2, <3>1 DEF TakenIn, RecordsInv, NoRivals, Rivals
  <2>6. Receives(s, Read("update", id, rows[id], ask))
    BY <1>4
  <2> QED
    BY <1>1, <2>2, <2>4, <2>5, <2>6, ReadsUpdate
<1> QED
  BY <1>2, <1>3, <1>4

LEMMA CreateStep ==
  ASSUME RecordsInv, NEW s \in RecordSessions, ReceiveCreate(s)
  PROVE  RecordsInv'
<1> PICK u \in Users, kind \in {"key", "portfolio", "asset"}, v \in Values :
      LET ask == Asked(kind, Columns[kind], v)
          row == [kind |-> kind, owner |-> u, used |-> FALSE, col |-> ask]
      IN Receives(s, IF kind = "asset" /\ Taken(row, 0) THEN Answered(409)
                     ELSE Read("insert", 0, row, ask))
  BY DEF ReceiveCreate
<1> PICK ask : ask = Asked(kind, Columns[kind], v)
  OBVIOUS
<1> DEFINE row == [kind |-> kind, owner |-> u, used |-> FALSE, col |-> ask]
<1>1. /\ DOMAIN ask = Columns[kind]
      /\ "secret" \in DOMAIN ask => ask["secret"] \in 0..key
      /\ ask = [c \in DOMAIN ask |-> ask[c]]
  BY AskedIs DEF RecordsInv, RecordsTyped, Asked
<1>2. IsRow(row, key) /\ row.kind = kind /\ row.owner = u /\ row.col = ask
  BY <1>1 DEF IsRow, Columns
<1>3. Receives(s, IF kind = "asset" /\ Taken(row, 0) THEN Answered(409)
                  ELSE Read("insert", 0, row, ask))
  OBVIOUS
<1> HIDE DEF row
<1>4. CASE kind = "asset" /\ Taken(row, 0)
  BY <1>3, <1>4, AnsweredAtOnce
<1>5. CASE ~(kind = "asset" /\ Taken(row, 0))
  <2> PICK o : o = Over(row, ask, DOMAIN ask)
    OBVIOUS
  <2>1. o.kind = kind /\ o.owner = u /\ o.col = [c \in DOMAIN ask |-> ask[c]]
    <3>1. o.kind = row.kind /\ o.owner = row.owner
          /\ o.col = [c \in DOMAIN row.col |-> IF c \in DOMAIN ask THEN ask[c] ELSE row.col[c]]
      BY <1>2, OverKeeps
    <3> QED
      BY <1>2, <3>1
  <2>2. SameButUsed(row, o)
    BY <1>1, <1>2, <2>1 DEF SameButUsed
  <2>3. ~TakenIn(rows, row, 0)
    BY <1>2, <1>5, TakenIsIn DEF TakenIn, Rivals
  <2>4. ~TakenIn(rows, o, 0)
    BY <2>2, <2>3, SameRivals DEF TakenIn
  <2>5. Receives(s, Read("insert", 0, row, ask))
    BY <1>3, <1>5
  <2> QED
    BY <1>1, <1>2, <2>4, <2>5, ReadsInsert
<1> QED
  BY <1>4, <1>5

LEMMA ListKeysStep ==
  ASSUME RecordsInv, NEW s \in RecordSessions, ReceiveListKeys(s)
  PROVE  RecordsInv'
<1> PICK code : Receives(s, Answered(code))
  BY ZenonT(40) DEF ReceiveListKeys
<1> QED
  BY AnsweredAtOnce

LEMMA UpdateRequestStep ==
  ASSUME RecordsInv, NEW s \in RecordSessions, ReceiveUpdate(s)
  PROVE  RecordsInv'
<1> PICK u \in Users, id \in 1..lastId, v \in Values :
      IF ~Sees(u, id) THEN Receives(s, Answered(404))
      ELSE \E columns \in SUBSET Columns[rows[id].kind] :
             LET row == rows[id]
                 ask == Asked(row.kind, columns, v)
             IN Receives(s,
                  IF columns = {} THEN Answered(422)
                  ELSE IF "symbol" \in columns /\ Taken(Over(row, ask, columns), id)
                       THEN Answered(409)
                  ELSE Read("update", id, row, ask))
  BY DEF ReceiveUpdate
<1>1. CASE ~Sees(u, id)
  BY <1>1, AnsweredAtOnce
<1>2. CASE Sees(u, id)
  <2> PICK columns \in SUBSET Columns[rows[id].kind] :
        Receives(s,
          IF columns = {} THEN Answered(422)
          ELSE IF "symbol" \in columns
                  /\ Taken(Over(rows[id], Asked(rows[id].kind, columns, v), columns), id)
               THEN Answered(409)
          ELSE Read("update", id, rows[id], Asked(rows[id].kind, columns, v)))
    BY <1>2
  <2>1. id \in DOMAIN rows /\ rows[id].kind # "setting"
    BY <1>2 DEF Sees
  <2>2. IsRow(rows[id], key)
    BY <2>1 DEF RecordsInv, RecordsTyped, IsTable
  <2> PICK ask : ask = Asked(rows[id].kind, columns, v)
    OBVIOUS
  <2>3. DOMAIN ask = columns /\ ("secret" \in DOMAIN ask => ask["secret"] \in 0..key)
    BY AskedIs DEF RecordsInv, RecordsTyped
  <2> PICK o : o = Over(rows[id], ask, columns)
    OBVIOUS
  <2>4. CASE columns = {} \/ ("symbol" \in columns /\ Taken(o, id))
    <3> PICK code : Receives(s, Answered(code))
      BY <2>4
    <3> QED
      BY AnsweredAtOnce
  <2>5. CASE columns # {} /\ ~("symbol" \in columns /\ Taken(o, id))
    <3>1. Receives(s, Read("update", id, rows[id], ask))
      BY <2>5
    <3>2. DOMAIN ask \subseteq DOMAIN rows[id].col
      BY <2>2, <2>3 DEF IsRow
    <3>3. /\ o.kind = rows[id].kind
          /\ o.col = [c \in DOMAIN rows[id].col |-> IF c \in columns THEN ask[c] ELSE rows[id].col[c]]
      BY <2>2, OverKeeps
    <3>4. ~TakenIn(rows, o, id)
      <4>1. CASE "symbol" \in columns
        BY <2>5, <4>1, TakenIsIn
      <4>2. CASE "symbol" \notin columns /\ rows[id].kind = "asset"
        <5>1. "symbol" \in DOMAIN rows[id].col
          BY <2>2, <4>2 DEF IsRow, Columns
        <5>2. o.col["symbol"] = rows[id].col["symbol"]
          BY <3>3, <4>2, <5>1
        <5> QED
          BY <2>1, <3>3, <4>2, <5>2 DEF TakenIn, RecordsInv, NoRivals, Rivals
      <4>3. CASE rows[id].kind # "asset"
        BY <2>1, <3>3, <4>3 DEF TakenIn, Rivals
      <4> QED
        BY <4>1, <4>2, <4>3
    <3> QED
      BY <2>1, <2>3, <3>1, <3>2, <3>4, ReadsUpdate
  <2> QED
    BY <2>4, <2>5
<1> QED
  BY <1>1, <1>2

LEMMA DeleteRequestStep ==
  ASSUME RecordsInv, NEW s \in RecordSessions, ReceiveDelete(s)
  PROVE  RecordsInv'
<1> PICK u \in Users, id \in 1..lastId :
      IF ~Sees(u, id) THEN Receives(s, Answered(404))
      ELSE /\ rows[id].kind # "asset"
           /\ Receives(s, Read("delete", id, rows[id], <<>>))
  BY DEF ReceiveDelete
<1>1. CASE ~Sees(u, id)
  BY <1>1, AnsweredAtOnce
<1>2. CASE Sees(u, id)
  <2> DEFINE q == Read("delete", id, rows[id], <<>>)
  <2>1. /\ DOMAIN q = {"phase", "op", "id", "seen", "ask", "work", "answer", "overtaken"}
        /\ q.phase = "read" /\ q.op = "delete" /\ q.id = id /\ DOMAIN q.ask = {}
    BY DEF Read
  <2>2. PICK p : p = q
    OBVIOUS
  <2>3. Receives(s, p)
    BY <1>2, <2>2
  <2> HIDE DEF q
  <2>4. IsRequest(p, lastId, key)
    BY <2>1, <2>2 DEF IsRequest, RecordsInv, RecordsTyped
  <2>5. Serves(p, rows, key)
    BY <2>1, <2>2 DEF Serves, ReadsToInsert, ReadsToUpdate, ReadsToDelete, HasWritten, HasCommitted,
                      RecordsInv, RecordsTyped
  <2> QED
    BY <2>1, <2>2, <2>3, <2>4, <2>5, ReceivesKeeps
<1> QED
  BY <1>1, <1>2

-----------------------------------------------------------------------------
(***************************************************************************)
(* It writes, commits and answers.                                         *)
(***************************************************************************)
LEMMA InsertStep ==
  ASSUME RecordsInv, NEW s \in RecordSessions, Insert(s)
  PROVE  RecordsInv'
<1> PICK q : q = request[s]
  OBVIOUS
<1> PICK row : row = Over(q.seen, q.ask, DOMAIN q.ask)
  OBVIOUS
<1>1. /\ q.phase = "read" /\ q.op \in {"insert", "insert-for-nothing"}
      /\ ~Waits(s, row) /\ lastId' = lastId + 1
      /\ IF AsksUnfit(q) \/ Taken(row, 0) THEN Fails(s, 500)
         ELSE IF q.op = "insert" THEN Wrote(s, lastId + 1, row)
         ELSE Fails(s, 422)
  BY DEF Insert
<1>2. lastId \in Nat /\ lastId' \in Nat /\ lastId' >= lastId /\ lastId + 1 \in 1..lastId'
  BY <1>1 DEF RecordsInv, RecordsTyped
<1>3. CASE Fails(s, 500) \/ Fails(s, 422)
  BY <1>2, <1>3, FailsKeeps
<1>4. CASE ~(AsksUnfit(q) \/ Taken(row, 0)) /\ q.op = "insert"
  <2>1. Wrote(s, lastId + 1, row)
    BY <1>1, <1>4
  <2>2. IsRow(row, key)
    BY <1>1, OverIsRow DEF RecordsInv, RecordsTyped, Serves, ReadsToInsert, Fitting, IsRequest
  <2>3. ~TakenIn(rows, row, lastId + 1)
    BY <1>4, TakenIsIn, <1>2 DEF TakenIn, RecordsInv, RecordsTyped, IsTable
  <2>4. ASSUME NEW t \in RecordSessions \ {s}, request[t].phase = "written"
        PROVE  request[t].id # lastId + 1 /\ ~Rivals(request[t].work, row)
    BY <1>1, <1>2, <2>4 DEF Waits, Writing, RecordsInv, RecordsTyped, IsRequest
  <2> QED
    BY <1>2, <1>4, <2>1, <2>2, <2>3, <2>4, WroteKeeps
<1> QED
  BY <1>1, <1>3, <1>4

LEMMA UpdateStep ==
  ASSUME RecordsInv, NEW s \in RecordSessions, Update(s)
  PROVE  RecordsInv'
<1> PICK q : q = request[s]
  OBVIOUS
<1> PICK row : row = Over(Committed(q.id), q.ask, Changed(q))
  OBVIOUS
<1>1. /\ q.phase = "read" /\ q.op = "update" /\ lastId' = lastId
      /\ IF Committed(q.id) = NoRow THEN ~Waits(s, NoRow) /\ Fails(s, 500)
         ELSE \/ /\ Changed(q) = {}
                 /\ request' = [request EXCEPT ![s].phase = "committed"]
                 /\ UNCHANGED <<rows, key, requests>>
              \/ /\ Changed(q) # {}
                 /\ ~Waits(s, row)
                 /\ IF AsksUnfit(q) \/ Taken(row, q.id) THEN Fails(s, 500)
                    ELSE Wrote(s, q.id, row)
  BY DEF Update
<1>2. /\ lastId \in Nat /\ lastId' \in Nat /\ lastId' >= lastId
      /\ IsRequest(q, lastId, key) /\ Serves(q, rows, key)
  BY <1>1 DEF RecordsInv, RecordsTyped
<1>3. CASE Fails(s, 500)
  BY <1>2, <1>3, FailsKeeps
<1>4. ASSUME Committed(q.id) # NoRow
      PROVE  q.id \in DOMAIN rows /\ Committed(q.id) = rows[q.id]
  BY <1>4 DEF Committed
<1>5. CASE /\ Committed(q.id) # NoRow
           /\ request' = [request EXCEPT ![s].phase = "committed"]
           /\ UNCHANGED <<rows, key, requests>>
  <2> DEFINE p == [q EXCEPT !.phase = "committed"]
  <2>1. /\ DOMAIN p = DOMAIN q /\ p.phase = "committed" /\ p.op = q.op /\ p.id = q.id
        /\ p.ask = q.ask
    BY <1>2 DEF IsRequest
  <2>2. request' = [request EXCEPT ![s] = p]
    BY <1>5
  <2> HIDE DEF p
  <2>3. IsRequest(p, lastId, key)
    BY <1>1, <1>2, <2>1 DEF IsRequest
  <2>4. Serves(p, rows, key)
    BY <1>1, <1>4, <1>5, <2>1
       DEF Serves, ReadsToInsert, ReadsToUpdate, ReadsToDelete, HasWritten, HasCommitted
  <2>5. \A t \in RecordSessions \ {s} : Apart(request[t], p)
    BY <2>1 DEF Apart
  <2>6. PICK p1 : p1 = p
    OBVIOUS
  <2> QED
    BY <1>1, <1>2, <1>5, <2>2, <2>3, <2>4, <2>5, <2>6, MovesKeeps
<1>6. CASE /\ Committed(q.id) # NoRow /\ ~Waits(s, row) /\ ~Taken(row, q.id)
           /\ Wrote(s, q.id, row)
  <2>1. q.id \in 1..lastId' /\ IsRow(rows[q.id], key)
    BY <1>1, <1>2, <1>4, <1>6 DEF RecordsInv, RecordsTyped, IsTable
  <2>2. IsRow(row, key)
    BY <1>2, <1>4, <1>6, <2>1, OverIsRow DEF IsRequest, Changed
  <2>3. ~TakenIn(rows, row, q.id)
    BY <1>6, TakenIsIn
  <2>4. ASSUME NEW t \in RecordSessions \ {s}, request[t].phase = "written"
        PROVE  request[t].id # q.id /\ ~Rivals(request[t].work, row)
    BY <1>6, <2>4 DEF Waits, Writing
  <2> QED
    BY <1>1, <1>2, <1>4, <1>6, <2>1, <2>2, <2>3, <2>4, WroteKeeps
<1> QED
  BY <1>1, <1>3, <1>5, <1>6

LEMMA DeleteStep ==
  ASSUME RecordsInv, NEW s \in RecordSessions, Delete(s)
  PROVE  RecordsInv'
<1> PICK q : q = request[s]
  OBVIOUS
<1>1. /\ q.phase = "read" /\ q.op = "delete" /\ ~Waits(s, NoRow) /\ lastId' = lastId
      /\ IF Committed(q.id).used THEN Fails(s, 500) ELSE Wrote(s, q.id, NoRow)
  BY DEF Delete
<1>2. /\ lastId \in Nat /\ lastId' \in Nat /\ lastId' >= lastId
      /\ q.id \in 1..lastId'
  BY <1>1 DEF RecordsInv, RecordsTyped, Serves, ReadsToDelete, IsRequest
<1>3. CASE Fails(s, 500)
  BY <1>2, <1>3, FailsKeeps
<1>4. CASE Wrote(s, q.id, NoRow)
  <2>1. ASSUME NEW t \in RecordSessions \ {s}, request[t].phase = "written"
        PROVE  request[t].id # q.id /\ ~Rivals(request[t].work, NoRow)
    BY <1>1, <2>1, NoRowHasNoRival DEF Waits, Writing
  <2> QED
    BY <1>1, <1>2, <1>4, <2>1, WroteKeeps
<1> QED
  BY <1>1, <1>3, <1>4

\* What s commits is what it has written, and what others have read is of the past.
LEMMA CommitStep ==
  ASSUME RecordsInv, NEW s \in RecordSessions, Commit(s)
  PROVE  RecordsInv'
<1> PICK q : q = request[s]
  OBVIOUS
<1> PICK R : R = With(q.id, q.work)
  OBVIOUS
<1>1. q.phase = "written" /\ rows' = R /\ Committing(s) /\ lastId' = lastId /\ key' = key
  BY DEF Commit
<1>2. IsRequest(q, lastId, key) /\ Serves(q, rows, key) /\ lastId \in Nat /\ key \in Nat
  BY DEF RecordsInv, RecordsTyped
<1>3. /\ R = [i \in DOMAIN R |-> R[i]]
      /\ DOMAIN R = IF q.work = NoRow THEN DOMAIN rows \ {q.id} ELSE DOMAIN rows \cup {q.id}
      /\ q.work # NoRow => R[q.id] = q.work
      /\ \A i \in DOMAIN R \ {q.id} : R[i] = rows[i]
  BY DEF With
<1>4. q.work # NoRow => q.op # "delete" /\ IsRow(q.work, key) /\ ~TakenIn(rows, q.work, q.id)
  BY <1>1, <1>2 DEF Serves, HasWritten
<1>5. q.id \in 1..lastId
  BY <1>1, <1>2 DEF Serves, HasWritten, IsRequest
<1>6. IsTable(R, lastId, key)
  <2>1. DOMAIN R \subseteq 1..lastId
    BY <1>3, <1>5 DEF RecordsInv, RecordsTyped, IsTable
  <2>2. ASSUME NEW i \in DOMAIN R
        PROVE  IsRow(R[i], key)
    <3>1. CASE i = q.id
      BY <1>3, <1>4, <3>1
    <3>2. CASE i # q.id
      BY <1>3, <3>2 DEF RecordsInv, RecordsTyped, IsTable
    <3> QED
      BY <3>1, <3>2
  <2> QED
    BY <1>3, <2>1, <2>2 DEF IsTable
<1>7. ASSUME NEW i \in DOMAIN R, NEW j \in DOMAIN R, i # j
      PROVE  ~Rivals(R[i], R[j])
  <2>1. CASE i = q.id
    BY <1>3, <1>4, <1>7, <2>1, RivalsBothWays DEF TakenIn
  <2>2. CASE j = q.id
    BY <1>3, <1>4, <1>7, <2>2 DEF TakenIn
  <2>3. CASE i # q.id /\ j # q.id
    BY <1>3, <1>7, <2>3 DEF RecordsInv, NoRivals
  <2> QED
    BY <2>1, <2>2, <2>3
<1> DEFINE p == [q EXCEPT !.phase = "committed"]
<1>8. /\ DOMAIN p = DOMAIN q /\ p.phase = "committed" /\ p.op = q.op /\ p.id = q.id
      /\ p.ask = q.ask
  BY <1>2 DEF IsRequest
<1>9. ASSUME NEW t \in RecordSessions
      PROVE  request'[t] = IF t = s THEN p
                           ELSE IF request[t].phase = "idle" THEN NoRequest
                           ELSE [request[t] EXCEPT !.overtaken = TRUE]
  BY <1>1 DEF Committing
<1>10. request' = [t \in RecordSessions |-> request'[t]]
  BY <1>1 DEF Committing
<1> HIDE DEF p
<1>11. IsRequest(p, lastId, key) /\ Serves(p, R, key)
  <2>1. IsRequest(p, lastId, key)
    BY <1>2, <1>8, <1>1 DEF IsRequest
  <2>2. q.op # "delete" => q.work # NoRow
    BY <1>1, <1>2, RowIsNotNone DEF Serves, HasWritten
  <2>3. q.op # "insert-for-nothing" /\ (q.op # "delete" => q.id \in DOMAIN R)
    BY <1>1, <1>2, <1>3, <2>2 DEF Serves, HasWritten
  <2>4. Serves(p, R, key)
    BY <1>8, <2>3 DEF Serves, ReadsToInsert, ReadsToUpdate, ReadsToDelete, HasWritten, HasCommitted
  <2> QED
    BY <2>1, <2>4
<1>12. ASSUME NEW t \in RecordSessions \ {s}, request[t].phase # "idle"
       PROVE  IsRequest(request'[t], lastId, key) /\ Serves(request'[t], R, key)
  <2> PICK o, T, last : o = request[t] /\ T = rows /\ last = lastId
    OBVIOUS
  <2>1. IsRequest(o, last, key) /\ Serves(o, T, key) /\ Apart(o, q)
    BY DEF RecordsInv, RecordsTyped
  <2>2. o.phase = "written" => o.id # q.id
    BY <1>1, <2>1 DEF Apart
  <2>3. o.phase = "written" /\ q.id \in DOMAIN R => ~Rivals(R[q.id], o.work)
    BY <1>1, <1>3, <2>1, RivalsBothWays DEF Apart
  <2>4. SameBut(T, R, q.id)
    BY <1>3, <2>1 DEF SameBut
  <2>5. PICK late : late = [o EXCEPT !.overtaken = TRUE]
    OBVIOUS
  <2>6. Serves(late, R, key) /\ IsRequest(late, last, key)
    BY <2>1, <2>2, <2>3, <2>4, <2>5, ServesOvertaken
  <2> QED
    BY <1>9, <1>12, <2>1, <2>5, <2>6
<1>13. ASSUME NEW t \in RecordSessions \ {s}, request[t].phase = "idle"
       PROVE  IsRequest(request'[t], lastId, key) /\ Serves(request'[t], R, key)
  <2>1. request'[t] = NoRequest
    BY <1>9, <1>13, <1>1, <1>8
  <2> QED
    BY <1>2, <2>1, NoRequestServes
<1>14. \A t \in RecordSessions : IsRequest(request'[t], lastId, key) /\ Serves(request'[t], R, key)
  BY <1>9, <1>11, <1>12, <1>13
<1>15. ASSUME NEW t \in RecordSessions, NEW u \in RecordSessions, t # u
       PROVE  Apart(request'[t], request'[u])
  <2>1. ASSUME NEW v \in RecordSessions, request'[v].phase = "written"
        PROVE  /\ v # s /\ request[v].phase = "written" /\ request'[v].id = request[v].id
               /\ request'[v].work = request[v].work
    <3>1. v # s
      BY <1>8, <1>9, <2>1
    <3>2. request[v].phase # "idle"
      BY <1>2, <1>9, <2>1, <3>1, NoRequestServes
    <3>3. request'[v] = [request[v] EXCEPT !.overtaken = TRUE]
      BY <1>9, <3>1, <3>2
    <3>4. IsRequest(request[v], lastId, key)
      BY DEF RecordsInv, RecordsTyped
    <3> QED
      BY <2>1, <3>1, <3>3, <3>4 DEF IsRequest
  <2> QED
    BY <1>15, <2>1 DEF RecordsInv, Apart
<1>16. RecordsTyped'
  BY <1>1, <1>2, <1>6, <1>10, <1>14 DEF RecordsTyped
<1>17. NoRivals'
  BY <1>1, <1>7 DEF NoRivals
<1> QED
  BY <1>1, <1>14, <1>15, <1>16, <1>17 DEF RecordsInv

LEMMA AnswerStep ==
  ASSUME RecordsInv, NEW s \in RecordSessions, Answer(s)
  PROVE  RecordsInv'
<1>1. PICK code : Fails(s, code)
  BY ZenonT(40) DEF Answer
<1>2. lastId' \in Nat /\ lastId' >= lastId
  BY DEF Answer, RecordsInv, RecordsTyped
<1> QED
  BY <1>1, <1>2, FailsKeeps

\* A row whose flag changes stays a row, and what is written over it changes alike.
LEMMA FlipKeeps ==
  ASSUME NEW r, NEW k, IsRow(r, k), NEW o, o = [r EXCEPT !.used = ~@]
  PROVE  SameButUsed(o, r) /\ IsRow(o, k)
<1>1. /\ o.kind = r.kind /\ o.owner = r.owner /\ o.col = r.col
      /\ o = [kind |-> o.kind, owner |-> o.owner, col |-> o.col, used |-> o.used]
  BY DEF IsRow
<1> QED
  BY <1>1 DEF IsRow, SameButUsed

LEMMA OverFlips ==
  ASSUME NEW r, NEW k, IsRow(r, k), NEW ask, NEW columns, NEW o, o = [r EXCEPT !.used = ~@],
         NEW w, w = Over(r, ask, columns)
  PROVE  Over(o, ask, columns) = [w EXCEPT !.used = ~@]
<1>1. IsRow(o, k) /\ o.kind = r.kind /\ o.owner = r.owner /\ o.col = r.col /\ o.used = ~r.used
  <2>1. IsRow(o, k) /\ SameButUsed(o, r)
    BY FlipKeeps
  <2> QED
    BY <2>1 DEF IsRow, SameButUsed
<1> PICK x : x = Over(o, ask, columns)
  OBVIOUS
<1>2. /\ x.kind = o.kind /\ x.owner = o.owner /\ x.used = o.used
      /\ x.col = [c \in DOMAIN o.col |-> IF c \in columns THEN ask[c] ELSE o.col[c]]
  <2>1. /\ Over(o, ask, columns).kind = o.kind
        /\ Over(o, ask, columns).owner = o.owner
        /\ Over(o, ask, columns).used = o.used
        /\ Over(o, ask, columns).col =
             [c \in DOMAIN o.col |-> IF c \in columns THEN ask[c] ELSE o.col[c]]
    <3>1. IsRow(o, k)
      BY <1>1
    <3> QED
      BY ONLY <3>1, OverKeeps
  <2> QED
    BY <2>1
<1>3. /\ w.kind = r.kind /\ w.owner = r.owner /\ w.used = r.used
      /\ w.col = [c \in DOMAIN r.col |-> IF c \in columns THEN ask[c] ELSE r.col[c]]
  BY OverKeeps
<1>4. x = [kind |-> x.kind, owner |-> x.owner, col |-> x.col, used |-> x.used]
  BY <1>1, OverIsRecord
<1>5. w = [kind |-> w.kind, owner |-> w.owner, col |-> w.col, used |-> w.used]
  BY OverIsRecord
<1>6. x.kind = w.kind /\ x.owner = w.owner /\ x.col = w.col /\ x.used = ~w.used
  BY <1>1, <1>2, <1>3
<1>7. [w EXCEPT !.used = ~@] = [kind |-> w.kind, owner |-> w.owner, col |-> w.col, used |-> ~w.used]
  BY <1>5
<1> QED
  BY <1>4, <1>6, <1>7

\* The request to which the new flag is shown that will write the row.
LEMMA ShownKeeps ==
  ASSUME NEW q, NEW R, NEW R2, NEW k, NEW last, IsTable(R, last, k), IsRequest(q, last, k),
         Serves(q, R, k),
         DOMAIN R2 = DOMAIN R, \A i \in DOMAIN R : SameButUsed(R2[i], R[i]),
         q.phase = "written", q.work # NoRow, q.id \in DOMAIN R,
         R2[q.id] = [R[q.id] EXCEPT !.used = ~@],
         NEW p, p = [q EXCEPT !.work.used = ~@]
  PROVE  /\ IsRequest(p, last, k) /\ Serves(p, R2, k)
         /\ p.phase = q.phase /\ p.id = q.id /\ SameButUsed(p.work, q.work)
<1> PICK w : w = [q.work EXCEPT !.used = ~@]
  OBVIOUS
<1>1. /\ DOMAIN p = DOMAIN q
      /\ p.phase = q.phase /\ p.op = q.op /\ p.id = q.id /\ p.seen = q.seen /\ p.ask = q.ask
      /\ p.work = w
  BY DEF IsRequest
<1>2. /\ q.op # "insert-for-nothing" /\ q.op # "delete" /\ q.id # 0
      /\ IsRow(q.work, k) /\ ~TakenIn(R, q.work, q.id)
      /\ q.op = "update" => q.work = Over(R[q.id], q.ask, Changed(q))
  BY DEF Serves, HasWritten
<1>3. SameButUsed(w, q.work) /\ IsRow(w, k)
  BY <1>2, FlipKeeps
<1>4. ~TakenIn(R2, w, q.id)
  <2>1. ASSUME NEW i \in DOMAIN R
        PROVE  Rivals(R2[i], w) <=> Rivals(R[i], q.work)
    BY <1>3, SameRivals
  <2> QED
    BY <1>2, <2>1 DEF TakenIn
<1>5. q.op = "update" => w = Over(R2[q.id], q.ask, Changed(q))
  <2>1. IsRow(R[q.id], k)
    BY DEF IsTable
  <2> QED
    BY <1>2, <2>1, OverFlips
<1>6. Changed(p) = Changed(q)
  BY <1>1 DEF Changed
<1>7. HasWritten(p, R2, k)
  BY <1>1, <1>2, <1>3, <1>4, <1>5, <1>6 DEF HasWritten
<1>8. Serves(p, R2, k)
  BY <1>1, <1>7 DEF Serves, ReadsToInsert, ReadsToUpdate, ReadsToDelete, HasCommitted
<1>9. IsRequest(p, last, k)
  BY <1>1 DEF IsRequest
<1> QED
  BY <1>1, <1>3, <1>8, <1>9

\* The flag of a portfolio tells no two rows apart, and a writer of its row learns of it.
LEMMA ReferStep ==
  ASSUME RecordsInv, NEW id \in DOMAIN rows, Refer(id)
  PROVE  RecordsInv'
<1> DEFINE updating == {t \in RecordSessions : Writing(t) /\ request[t].id = id}
<1>1. /\ rows' = [rows EXCEPT ![id].used = ~@]
      /\ \A t \in updating : request[t].work # NoRow
      /\ UNCHANGED <<lastId, key>>
      /\ request' = [t \in RecordSessions |->
           IF t \in updating THEN [request[t] EXCEPT !.work.used = ~@] ELSE request[t]]
  BY DEF Refer
<1> PICK R : R = rows'
  OBVIOUS
<1>2. /\ R = [i \in DOMAIN R |-> R[i]] /\ DOMAIN R = DOMAIN rows
      /\ \A i \in DOMAIN rows \ {id} : R[i] = rows[i]
      /\ R[id] = [rows[id] EXCEPT !.used = ~@]
  BY <1>1
<1>3. IsRow(rows[id], key) /\ IsTable(rows, lastId, key)
  BY DEF RecordsInv, RecordsTyped, IsTable
<1>4. SameButUsed(R[id], rows[id]) /\ IsRow(R[id], key)
  BY <1>2, <1>3, FlipKeeps
<1>5. \A i \in DOMAIN rows : SameButUsed(R[i], rows[i])
  BY <1>2, <1>4 DEF SameButUsed
<1>6. IsTable(R, lastId, key)
  BY <1>2, <1>4 DEF RecordsInv, RecordsTyped, IsTable
<1>7. \A i, j \in DOMAIN R : i # j => ~Rivals(R[i], R[j])
  BY <1>2, <1>5, SameRivals DEF RecordsInv, NoRivals
<1>8. ASSUME NEW t \in RecordSessions
      PROVE  /\ IsRequest(request'[t], lastId, key) /\ Serves(request'[t], R, key)
             /\ request'[t].phase = request[t].phase /\ request'[t].id = request[t].id
             /\ SameButUsed(request'[t].work, request[t].work)
  <2> PICK q, T : q = request[t] /\ T = rows
    OBVIOUS
  <2>1. IsRequest(q, lastId, key) /\ Serves(q, T, key)
    BY DEF RecordsInv, RecordsTyped
  <2>2. CASE t \in updating
    <3>1. q.phase = "written" /\ q.id = id /\ q.work # NoRow
      BY <1>1, <2>2 DEF Writing
    <3>2. PICK p : p = [q EXCEPT !.work.used = ~@]
      OBVIOUS
    <3>3. request'[t] = p
      BY <1>1, <2>2, <3>2
    <3>4. /\ IsRequest(p, lastId, key) /\ Serves(p, R, key)
          /\ p.phase = q.phase /\ p.id = q.id /\ SameButUsed(p.work, q.work)
      <4>1. R[q.id] = [T[q.id] EXCEPT !.used = ~@]
        BY <1>2, <3>1
      <4>2. /\ DOMAIN R = DOMAIN T /\ q.id \in DOMAIN T
            /\ \A i \in DOMAIN T : SameButUsed(R[i], T[i])
        BY <1>2, <1>5, <3>1
      <4>3. IsTable(T, lastId, key)
        BY <1>3
      <4>4. PICK last, k : last = lastId /\ k = key
        OBVIOUS
      <4>5. IsTable(T, last, k) /\ IsRequest(q, last, k) /\ Serves(q, T, k)
        BY <2>1, <4>3, <4>4
      <4>6. IsRequest(p, last, k) /\ Serves(p, R, k)
        BY <3>1, <3>2, <4>1, <4>2, <4>5, ShownKeeps
      <4>7. p.phase = q.phase /\ p.id = q.id /\ p.work = [q.work EXCEPT !.used = ~@]
        BY <3>2, <4>5 DEF IsRequest
      <4>8. IsRow(q.work, k)
        BY <3>1, <4>5 DEF Serves, HasWritten
      <4>9. SameButUsed(p.work, q.work)
        BY <4>7, <4>8, FlipKeeps
      <4> QED
        BY <4>4, <4>6, <4>7, <4>9
    <3> QED
      BY <3>3, <3>4
  <2>3. CASE t \notin updating
    <3>1. request'[t] = q
      BY <1>1, <2>3
    <3>2. q.phase = "written" /\ q.id \in DOMAIN T => R[q.id] = T[q.id]
      BY <1>2, <2>3 DEF Writing
    <3>3. Serves(q, R, key)
      BY <1>2, <1>5, <2>1, <3>2, ServesStill
    <3> QED
      BY <2>1, <3>1, <3>3 DEF SameButUsed
  <2> QED
    BY <2>2, <2>3
<1>9. request' = [t \in RecordSessions |-> request'[t]]
  BY <1>1
<1>10. RecordsTyped'
  BY <1>1, <1>6, <1>8, <1>9 DEF RecordsInv, RecordsTyped
<1>11. NoRivals'
  BY <1>7 DEF NoRivals
<1>12. ASSUME NEW t \in RecordSessions, NEW u \in RecordSessions, t # u
       PROVE  Apart(request'[t], request'[u])
  <2>1. Rivals(request'[t].work, request'[u].work) <=> Rivals(request[t].work, request[u].work)
    BY <1>8, SameRivals
  <2> QED
    BY <1>8, <1>12, <2>1 DEF RecordsInv, Apart
<1> QED
  BY <1>1, <1>8, <1>10, <1>11, <1>12 DEF RecordsInv

LEMMA RotateKeyStep ==
  ASSUME RecordsInv, RotateKey
  PROVE  RecordsInv'
<1>1. key' = key + 1 /\ request' = [s \in RecordSessions |-> NoRequest]
      /\ UNCHANGED <<rows, lastId>>
  BY DEF RotateKey
<1>2. \A s \in RecordSessions : /\ IsRequest(request'[s], lastId, key')
                                /\ Serves(request'[s], rows, key')
                                /\ request'[s].phase = "idle"
  BY <1>1, NoRequestServes DEF RecordsInv, RecordsTyped
<1>3. IsTable(rows, lastId, key')
  <2>1. /\ key \in Nat /\ key' \in Nat /\ key <= key' /\ lastId \in Nat /\ lastId <= lastId
        /\ IsTable(rows, lastId, key)
    BY <1>1 DEF RecordsInv, RecordsTyped
  <2> QED
    BY <2>1, TypesGrow
<1>4. RecordsTyped'
  BY <1>1, <1>2, <1>3 DEF RecordsInv, RecordsTyped
<1> QED
  BY <1>1, <1>2, <1>4 DEF RecordsInv, NoRivals, Apart

LEMMA RecordsBegin == RecordsInit => RecordsInv
<1> SUFFICES ASSUME RecordsInit PROVE RecordsInv
  OBVIOUS
<1>1. DOMAIN rows = {}
  BY DEF RecordsInit
<1>2. \A s \in RecordSessions : /\ IsRequest(request[s], lastId, key)
                                /\ Serves(request[s], rows, key)
                                /\ request[s].phase = "idle"
  BY NoRequestServes DEF RecordsInit
<1>3. rows = [i \in DOMAIN rows |-> rows[i]]
  BY DEF RecordsInit
<1> QED
  BY <1>1, <1>2, <1>3 DEF RecordsInit, RecordsInv, RecordsTyped, IsTable, NoRivals, Apart

LEMMA RecordsStep == RecordsInv /\ [RecordsNext]_recordVars => RecordsInv'
<1> SUFFICES ASSUME RecordsInv, [RecordsNext]_recordVars PROVE RecordsInv'
  OBVIOUS
<1>1. CASE UNCHANGED recordVars
  BY <1>1 DEF recordVars, RecordsInv, RecordsTyped, NoRivals
<1>2. CASE RecordsNext
  BY <1>2, GetSettingsStep, UpdateSettingsStep, CreateStep, ListKeysStep, UpdateRequestStep,
     DeleteRequestStep, InsertStep, UpdateStep, DeleteStep, CommitStep, AnswerStep, ReferStep,
     RotateKeyStep DEF RecordsNext
<1> QED
  BY <1>1, <1>2

LEMMA RecordsInvHolds == RecordsSpec => []RecordsInv
  BY RecordsBegin, RecordsStep, PTL DEF RecordsSpec

-----------------------------------------------------------------------------
\* A request under way is moved by its own session, by a restart, is overtaken, or is shown
\* that its portfolio is referred to.
LEMMA WhoMoves ==
  ASSUME RecordsInv, RecordsNext, NEW s \in RecordSessions, request[s].phase # "idle"
  PROVE  \/ Insert(s) \/ Update(s) \/ Delete(s) \/ Commit(s) \/ Answer(s)
         \/ request'[s] = request[s]
         \/ request'[s] = [request[s] EXCEPT !.overtaken = TRUE]
         \/ request'[s] = [request[s] EXCEPT !.work.used = ~@]
         \/ request'[s] = NoRequest
<1>1. ASSUME NEW t \in RecordSessions, NEW q, Receives(t, q)
      PROVE  request'[s] = request[s]
  BY <1>1 DEF Receives
<1>2. ASSUME NEW t \in RecordSessions, NEW q, request' = [request EXCEPT ![t] = q], t # s
      PROVE  request'[s] = request[s]
  BY <1>2 DEF RecordsInv, RecordsTyped
<1>3. ASSUME NEW t \in RecordSessions,
             \/ ReceiveGetSettings(t) \/ ReceiveUpdateSettings(t) \/ ReceiveCreate(t)
             \/ ReceiveListKeys(t) \/ ReceiveUpdate(t) \/ ReceiveDelete(t)
      PROVE  request'[s] = request[s]
  <2>1. \E q : Receives(t, q)
    <3>1. CASE ReceiveGetSettings(t) \/ ReceiveListKeys(t)
      BY <3>1, ZenonT(30) DEF ReceiveGetSettings, ReceiveListKeys
    <3>2. CASE ReceiveUpdateSettings(t)
      BY <3>2, ZenonT(30) DEF ReceiveUpdateSettings
    <3>3. CASE ReceiveCreate(t)
      BY <3>3, ZenonT(30) DEF ReceiveCreate
    <3>4. CASE ReceiveUpdate(t)
      BY <3>4, ZenonT(30) DEF ReceiveUpdate
    <3>5. CASE ReceiveDelete(t)
      BY <3>5, ZenonT(30) DEF ReceiveDelete
    <3> QED
      BY <1>3, <3>1, <3>2, <3>3, <3>4, <3>5
  <2> QED
    BY <1>1, <2>1
<1>4. ASSUME NEW t \in RecordSessions, t # s, Insert(t) \/ Update(t) \/ Delete(t) \/ Answer(t)
      PROVE  request'[s] = request[s]
  BY <1>4 DEF Insert, Update, Delete, Answer, Fails, Wrote, RecordsInv, RecordsTyped
<1>5. ASSUME NEW t \in RecordSessions, t # s, Commit(t)
      PROVE  request'[s] = [request[s] EXCEPT !.overtaken = TRUE]
  BY <1>5 DEF Commit, Committing
<1>6. CASE \E id \in DOMAIN rows : Refer(id)
  BY <1>6 DEF Refer
<1>7. CASE RotateKey
  BY <1>7 DEF RotateKey
<1> QED
  BY <1>3, <1>4, <1>5, <1>6, <1>7 DEF RecordsNext

\* The row s has written is the one it commits.
LEMMA CommitWrites ==
  ASSUME RecordsInv, RecordsNext, NEW s \in RecordSessions,
         request[s].phase = "written", request'[s].phase = "committed"
  PROVE  Commit(s)
<1>1. IsRequest(request[s], lastId, key)
  BY DEF RecordsInv, RecordsTyped
<1>2. /\ [request[s] EXCEPT !.overtaken = TRUE].phase = "written"
      /\ [request[s] EXCEPT !.work.used = ~@].phase = "written"
  BY <1>1 DEF IsRequest
<1>3. NoRequest.phase = "idle"
  BY DEF NoRequest
<1>4. ~(Insert(s) \/ Update(s) \/ Delete(s) \/ Answer(s))
  BY DEF Insert, Update, Delete, Answer
<1> QED
  BY <1>2, <1>3, <1>4, WhoMoves

LEMMA UpdateSticks ==
  ASSUME RecordsInv, RecordsNext, NEW s \in RecordSessions,
         request[s].phase = "written", request'[s].phase = "committed", request[s].op = "update"
  PROVE  LET q == request[s]
             before == Committed(q.id)
         IN /\ DOMAIN rows' = DOMAIN rows
            /\ before # NoRow
            /\ \A c \in DOMAIN before.col :
                 rows'[q.id].col[c] =
                   IF c \in DOMAIN q.ask /\ (c = "secret" \/ q.ask[c] # q.seen.col[c])
                   THEN q.ask[c] ELSE before.col[c]
<1> PICK q : q = request[s]
  OBVIOUS
<1>1. Commit(s)
  BY CommitWrites
<1>2. IsRequest(q, lastId, key) /\ Serves(q, rows, key)
  BY DEF RecordsInv, RecordsTyped
<1>3. /\ q.id \in DOMAIN rows /\ IsRow(q.work, key)
      /\ q.work = Over(rows[q.id], q.ask, Changed(q))
  BY <1>2 DEF Serves, HasWritten
<1>4. IsRow(rows[q.id], key)
  BY <1>3 DEF RecordsInv, RecordsTyped, IsTable
<1>5. q.work # NoRow /\ rows[q.id] # NoRow
  BY <1>3, <1>4, RowIsNotNone
<1>6. DOMAIN rows' = DOMAIN rows /\ rows'[q.id] = q.work
  BY <1>1, <1>3, <1>5 DEF Commit, With
<1>7. Committed(q.id) = rows[q.id]
  BY <1>3 DEF Committed
<1>8. q.work.col = [c \in DOMAIN rows[q.id].col |->
                      IF c \in Changed(q) THEN q.ask[c] ELSE rows[q.id].col[c]]
  BY <1>3, <1>4, OverKeeps
<1>9. \A c \in DOMAIN rows[q.id].col :
        rows'[q.id].col[c] = IF c \in Changed(q) THEN q.ask[c] ELSE rows[q.id].col[c]
  BY <1>6, <1>8
<1>10. \A c : c \in Changed(q) <=>
                 c \in DOMAIN q.ask /\ (c = "secret" \/ q.ask[c] # q.seen.col[c])
  BY DEF Changed
<1> QED
  BY <1>5, <1>6, <1>7, <1>9, <1>10

\* An answer is given by the session itself.
LEMMA WhoAnswers ==
  ASSUME RecordsInv, RecordsNext, NEW s \in RecordSessions, Answers(s)
  PROVE  Insert(s) \/ Update(s) \/ Delete(s) \/ Answer(s)
<1>1. IsRequest(request[s], lastId, key)
  BY DEF RecordsInv, RecordsTyped
<1>2. /\ [request[s] EXCEPT !.overtaken = TRUE].phase = request[s].phase
      /\ [request[s] EXCEPT !.work.used = ~@].phase = request[s].phase
      /\ [request[s] EXCEPT !.phase = "committed"].phase = "committed"
  BY <1>1 DEF IsRequest
<1>3. NoRequest.answer = 0
  BY DEF NoRequest
<1>4. ~Commit(s)
  BY <1>2 DEF Answers, Commit, Committing
<1> QED
  BY <1>2, <1>3, <1>4, WhoMoves DEF Answers

\* What a failing session answers.
LEMMA FailsAnswers ==
  ASSUME RecordsInv, NEW s \in RecordSessions, NEW code, Fails(s, code)
  PROVE  request'[s].answer = code
<1>1. Answered(code).answer = code
  BY DEF Answered, NoRequest
<1> QED
  BY <1>1 DEF Fails, RecordsInv, RecordsTyped

LEMMA WroteDoesNotAnswer ==
  ASSUME RecordsInv, NEW s \in RecordSessions, NEW id, NEW work, Wrote(s, id, work)
  PROVE  ~Answers(s)
<1>1. IsRequest(request[s], lastId, key)
  BY DEF RecordsInv, RecordsTyped
<1>2. request'[s].phase = "written"
  BY <1>1 DEF Wrote, IsRequest, RecordsInv, RecordsTyped
<1> QED
  BY <1>2 DEF Answers

LEMMA AnswersWell ==
  ASSUME RecordsInv, RecordsNext, NEW s \in RecordSessions, Answers(s), ~request[s].overtaken
  PROVE  LET q    == request[s]
             code == request'[s].answer
             row  == Committed(q.id)
         IN /\ code = 500 => (q.op = "delete" /\ row.used) \/ AsksUnfit(q)
            /\ q.phase = "committed" /\ code # 200 => row.kind = "key" /\ row.col["secret"] < key
<1> PICK q : q = request[s]
  OBVIOUS
<1> PICK row : row = Committed(q.id)
  OBVIOUS
<1>1. IsRequest(q, lastId, key) /\ Serves(q, rows, key) /\ ~q.overtaken
  BY DEF RecordsInv, RecordsTyped
<1>2. CASE Insert(s)
  <2> PICK o : o = Over(q.seen, q.ask, DOMAIN q.ask)
    OBVIOUS
  <2>1. /\ q.phase = "read" /\ q.op \in {"insert", "insert-for-nothing"}
        /\ IF AsksUnfit(q) \/ Taken(o, 0) THEN Fails(s, 500)
           ELSE IF q.op = "insert" THEN Wrote(s, lastId + 1, o)
           ELSE Fails(s, 422)
    BY <1>2 DEF Insert
  <2>2. ~Taken(o, 0)
    BY <1>1, <2>1, TakenIsIn DEF Serves, ReadsToInsert
  <2>3. AsksUnfit(q) \/ request'[s].answer = 422
    BY <2>1, <2>2, WroteDoesNotAnswer, FailsAnswers
  <2> QED
    BY <2>1, <2>3
<1>3. CASE Update(s)
  <2> PICK o : o = Over(row, q.ask, Changed(q))
    OBVIOUS
  <2>1. /\ q.phase = "read" /\ q.op = "update"
        /\ row # NoRow => \/ request' = [request EXCEPT ![s].phase = "committed"]
                          \/ IF AsksUnfit(q) \/ Taken(o, q.id) THEN Fails(s, 500)
                             ELSE Wrote(s, q.id, o)
    BY <1>3 DEF Update
  <2>2. /\ q.id \in DOMAIN rows /\ SameButUsed(rows[q.id], q.seen) /\ Fitting(q, key)
        /\ ~TakenIn(rows, Over(q.seen, q.ask, DOMAIN q.ask), q.id)
    BY <1>1, <2>1 DEF Serves, ReadsToUpdate
  <2>3. IsRow(rows[q.id], key) /\ row = rows[q.id]
    BY <2>2 DEF RecordsInv, RecordsTyped, IsTable, Committed
  <2>4. SameButUsed(o, Over(q.seen, q.ask, DOMAIN q.ask))
    <3> PICK n : n = Over(q.seen, q.ask, DOMAIN q.ask)
      OBVIOUS
    <3>1. /\ n.kind = q.seen.kind /\ n.owner = q.seen.owner
          /\ n.col = [c \in DOMAIN q.seen.col |->
                        IF c \in DOMAIN q.ask THEN q.ask[c] ELSE q.seen.col[c]]
      BY <2>2, OverKeeps DEF Fitting
    <3>2. /\ o.kind = row.kind /\ o.owner = row.owner
          /\ o.col = [c \in DOMAIN row.col |->
                        IF c \in Changed(q) THEN q.ask[c] ELSE row.col[c]]
      BY <2>3, OverKeeps
    <3>3. row.kind = q.seen.kind /\ row.owner = q.seen.owner /\ row.col = q.seen.col
      BY <2>2, <2>3 DEF SameButUsed
    <3>4. \A c \in DOMAIN row.col :
            (IF c \in Changed(q) THEN q.ask[c] ELSE row.col[c])
              = (IF c \in DOMAIN q.ask THEN q.ask[c] ELSE q.seen.col[c])
      BY <3>3 DEF Changed
    <3>5. o.col = n.col
      <4>1. PICK D : D = DOMAIN row.col
        OBVIOUS
      <4>2. n.col = [c \in D |-> IF c \in DOMAIN q.ask THEN q.ask[c] ELSE q.seen.col[c]]
        BY <3>1, <3>3, <4>1
      <4>3. o.col = [c \in D |-> IF c \in Changed(q) THEN q.ask[c] ELSE row.col[c]]
        BY <3>2, <4>1
      <4> QED
        BY <3>4, <4>1, <4>2, <4>3
    <3> QED
      BY <3>1, <3>2, <3>3, <3>5 DEF SameButUsed
  <2>5. ~Taken(o, q.id)
    BY <2>2, <2>4, SameRivals, TakenIsIn DEF TakenIn
  <2>6. row # NoRow
    BY <2>3, RowIsNotNone
  <2>7. AsksUnfit(q)
    <3>1. ASSUME request' = [request EXCEPT ![s].phase = "committed"]
          PROVE  FALSE
      <4>1. request'[s].phase = "committed"
        BY <1>1, <3>1 DEF IsRequest, RecordsInv, RecordsTyped
      <4> QED
        BY <4>1 DEF Answers
    <3> QED
      BY <2>1, <2>5, <2>6, <3>1, WroteDoesNotAnswer
  <2> QED
    BY <2>1, <2>7
<1>4. CASE Delete(s)
  <2>1. /\ q.phase = "read" /\ q.op = "delete"
        /\ IF row.used THEN Fails(s, 500) ELSE Wrote(s, q.id, NoRow)
    BY <1>4 DEF Delete
  <2> QED
    BY <2>1, WroteDoesNotAnswer
<1>5. CASE Answer(s)
  <2>1. /\ q.phase = "committed"
        /\ Fails(s, IF q.op = "delete" THEN 200
                    ELSE IF row = NoRow THEN 500
                    ELSE IF row.kind = "key" /\ "secret" \notin DOMAIN q.ask
                            /\ row.col["secret"] # key
                         THEN 422 ELSE 200)
    BY <1>5 DEF Answer
  <2>2. q.op # "delete" => q.id \in DOMAIN rows
    BY <1>1, <2>1 DEF Serves, HasCommitted
  <2>3. q.op # "delete" => row # NoRow /\ IsRow(row, key)
    BY <2>2, RowIsNotNone DEF RecordsInv, RecordsTyped, IsTable, Committed
  <2>4. \/ request'[s].answer = 200
        \/ /\ request'[s].answer = 422 /\ q.op # "delete"
           /\ row.kind = "key" /\ row.col["secret"] # key
    BY <2>1, <2>3, FailsAnswers
  <2>5. key \in Nat
    BY DEF RecordsInv, RecordsTyped
  <2>6. request'[s].answer # 200 => row.kind = "key" /\ row.col["secret"] < key
    BY <2>3, <2>4, <2>5 DEF IsRow
  <2> QED
    BY <2>4, <2>6
<1> QED
  BY <1>2, <1>3, <1>4, <1>5, WhoAnswers

\* A commit changes what its request asked for and nothing else, whatever other requests
\* commit between its read and its write, but for a column it asked to be as it had read it
\* (settings_service.py:53, asset_service.py:40, portfolio_service.py:30).
THEOREM UpdatesAlwaysStick == RecordsSpec => UpdatesStickUnlessStale
<1>1. RecordsInv /\ [RecordsNext]_recordVars
        => [\A s \in RecordSessions :
              LET q == request[s]
                  before == Committed(q.id)
              IN (q.phase = "written" /\ request'[s].phase = "committed" /\ q.op = "update")
                   => /\ DOMAIN rows' = DOMAIN rows
                      /\ before # NoRow
                      /\ \A c \in DOMAIN before.col :
                           rows'[q.id].col[c] =
                             IF c \in DOMAIN q.ask /\ (c = "secret" \/ q.ask[c] # q.seen.col[c])
                             THEN q.ask[c] ELSE before.col[c]]_recordVars
  BY UpdateSticks
<1> QED
  BY <1>1, RecordsInvHolds, PTL DEF RecordsSpec, UpdatesStickUnlessStale

\* A request that none overtakes is answered 500 only for a portfolio in use and a value no
\* column takes, and after its commit not 200 only for a key that another encryption key has
\* encrypted (portfolio_service.py:60, settings_service.py:57, settings_service.py:113).
THEOREM OnlyOverlapEverBreaksARequest == RecordsSpec => OnlyOverlapBreaksARequest
<1>1. RecordsInv /\ [RecordsNext]_recordVars
        => [\A s \in RecordSessions :
              LET q    == request[s]
                  code == request'[s].answer
                  row  == Committed(q.id)
              IN (Answers(s) /\ ~q.overtaken) =>
                   /\ code = 500 => (q.op = "delete" /\ row.used) \/ AsksUnfit(q)
                   /\ q.phase = "committed" /\ code # 200
                        => row.kind = "key" /\ row.col["secret"] < key]_recordVars
  BY AnswersWell
<1> QED
  BY <1>1, RecordsInvHolds, PTL DEF RecordsSpec, OnlyOverlapBreaksARequest

\* No two committed rows share a unique value and every row has the columns of its table,
\* whatever is inserted and renamed at once (models/asset.py, models/user_setting.py).
THEOREM RowsAreNeverRivals == RecordsSpec => [](NoRivals /\ RecordsTyped)
<1>1. RecordsInv => NoRivals /\ RecordsTyped
  BY DEF RecordsInv
<1> QED
  BY <1>1, RecordsInvHolds, PTL
=============================================================================
