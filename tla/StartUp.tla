------------------------------- MODULE StartUp -------------------------------
(***************************************************************************)
(* How the stack comes up: the API process validates its settings, waits   *)
(* for PostgreSQL, upgrades the schema and serves (app/factory.py,         *)
(* migrations_runner.py); Docker probes /health, and docker compose, which *)
(* waits for the API to be healthy, then starts the Celery containers, or  *)
(* gives up when it is declared unhealthy first (docker-compose.prod.yml). *)
(* An operator may run alembic, or docker compose again.  Services go down *)
(* and come back and the API may be killed at any step.                    *)
(*                                                                         *)
(* All the revisions one command applies are one transaction (env.py), and *)
(* two such transactions never write at once: the first statement of one,  *)
(* or its UPDATE of the version row, waits for the end of the other.  Of   *)
(* two that would deadlock PostgreSQL ends one, the one that here comes    *)
(* second and finds the schema changed.                                    *)
(***************************************************************************)
EXTENDS SchemaHistory, FiniteSets

CONSTANTS
  MaxAttempts,      \* attempts of wait_for_database (30 in the code)
  Retries,          \* probes that fail in a row and make the API unhealthy (5 in the file)
  StartRevisions,   \* revisions that an earlier release may have left
  MaxTroubles       \* bound on outages, kills and the operator's commands together

Services == {"postgres", "redis"}
Migrators == {"api", "operator"}
Latest == Len(History)

\* Tables of which the health check asks (schema_health.py).
EssentialTables ==
  {"users", "roles", "portfolios", "assets", "trades", "positions",
   "market_prices", "alerts", "user_settings"}

ASSUME StartUpAssumption ==
  /\ MaxAttempts \in Nat \ {0}
  /\ Retries \in Nat \ {0}
  /\ StartRevisions \subseteq 0..Latest
  /\ MaxTroubles \in Nat

VARIABLES
  schema,     \* the committed database: revision, objects, roles, held
  config,     \* what .env and the compose file say; read when a container is made
  up,         \* the services that answer
  api,        \* the API process: its phase and the attempt it is at
  job,        \* job[m]: the alembic command m runs
  probe,      \* /health under way: what it looks at next, and if all was well so far
  health,     \* what Docker knows of the API, and how many probes have failed in a row
  workers,    \* the Celery worker and beat: awaited, running, or abandoned by compose
  downgraded, \* the operator has committed a downgrade
  troubles    \* outages, kills and commands so far

startVars == <<schema, config, up, api, job, probe, health, workers, downgraded, troubles>>

NoJob == [phase |-> "idle", goal |-> 0, from |-> 0, at |-> 0, pos |-> 0, work |-> <<>>]
NoProbe == [at |-> "none", ok |-> TRUE]
Unknown == [status |-> "starting", failures |-> 0]

Database(r, held) ==
  [revision |-> r, objects |-> ObjectsAt[r], held |-> IF r < 2 THEN {} ELSE held,
   roles |-> IF r < 2 THEN {} ELSE IF r < 9 THEN {"admin", "user"} ELSE {"user"} \cup held]

StartInit ==
  /\ \E r \in StartRevisions, held \in SUBSET {"admin", "user"} : schema = Database(r, held)
  /\ config \in [valid : BOOLEAN, skip : BOOLEAN, restarts : BOOLEAN]
  /\ up \in SUBSET Services
  /\ api = [phase |-> "created", attempt |-> 0]
  /\ job = [m \in Migrators |-> NoJob]
  /\ probe = NoProbe
  /\ health = Unknown
  /\ workers = "awaited"
  /\ downgraded = FALSE
  /\ troubles = 0

Trouble == troubles < MaxTroubles /\ troubles' = troubles + 1

------------------------------------------------------------------------------
(***************************************************************************)
(* The API process.                                                        *)
(***************************************************************************)
\* create_app: settings that do not pass raise SystemExit; SKIP_AUTO_MIGRATIONS
\* serves whatever the schema is.
Boot ==
  /\ api.phase = "created"
  /\ api' = [phase |-> IF ~config.valid THEN "exited"
                       ELSE IF config.skip THEN "serving" ELSE "waiting",
             attempt |-> 1]
  /\ UNCHANGED <<schema, config, up, job, probe, health, workers, downgraded, troubles>>

\* wait_for_database: one attempt.
AwaitDatabase ==
  /\ api.phase = "waiting"
  /\ \/ /\ "postgres" \in up
        /\ api' = [api EXCEPT !.phase = "migrating"]
     \/ /\ "postgres" \notin up
        /\ api' = IF api.attempt < MaxAttempts THEN [api EXCEPT !.attempt = @ + 1]
                  ELSE [api EXCEPT !.phase = "exited"]
  /\ UNCHANGED <<schema, config, up, job, probe, health, workers, downgraded, troubles>>

\* The container's process is gone: what it had open is rolled back.
Gone(phase) ==
  /\ api' = [api EXCEPT !.phase = phase]
  /\ probe' = NoProbe
  /\ health' = Unknown

\* restart: unless-stopped of the production file; the other one has no policy.
Restart ==
  /\ api.phase = "exited"
  /\ config.restarts
  /\ Gone("created")
  /\ UNCHANGED <<schema, config, up, job, workers, downgraded, troubles>>

Kill ==
  /\ Trouble
  /\ api.phase \notin {"created", "exited"}
  /\ Gone("exited")
  /\ job' = [m \in Migrators |-> NoJob]     \* the operator's exec dies with it
  /\ UNCHANGED <<schema, config, up, workers, downgraded>>

------------------------------------------------------------------------------
(***************************************************************************)
(* One alembic command: command.upgrade(head) of the API and the           *)
(* operator's, or the operator's downgrade by one revision.                *)
(***************************************************************************)
\* The command reads the revision it starts from.
Begin(m, goal) ==
  /\ job[m].phase = "idle"
  /\ "postgres" \in up
  /\ job' = [job EXCEPT ![m] =
       [phase |-> "ready", goal |-> goal, from |-> schema.revision,
        at |-> schema.revision, pos |-> 1, work |-> <<>>]]

Migrate ==
  /\ api.phase = "migrating"
  /\ \/ Begin("api", Latest) /\ UNCHANGED api
     \/ "postgres" \notin up /\ api' = [api EXCEPT !.phase = "exited"] /\ UNCHANGED job
  /\ UNCHANGED <<schema, config, up, probe, health, workers, downgraded, troubles>>

OperatorCommand ==
  /\ Trouble
  /\ api.phase \notin {"created", "exited"}
  /\ \/ Begin("operator", Latest)
     \/ schema.revision > 0 /\ Begin("operator", schema.revision - 1)
  /\ UNCHANGED <<schema, config, up, api, probe, health, workers, downgraded>>

Ascends(m) == job[m].goal > job[m].from

\* What is left of the revision the command is at.
Script(m) ==
  IF Ascends(m) THEN History[job[m].at + 1].up ELSE History[job[m].at].down

\* The database the next statement of m meets: its own transaction's, once it writes.
Met(m) == IF job[m].phase = "writing" THEN job[m].work ELSE schema

Alone(m) == \A n \in Migrators \ {m} : job[n].phase # "writing"

Runs(m) ==
  /\ job[m].phase \in {"ready", "writing"}
  /\ job[m].at # job[m].goal
  /\ Alone(m)

AtStatement(m) == Runs(m) /\ job[m].pos <= Len(Script(m))
AtStamp(m)     == Runs(m) /\ job[m].pos > Len(Script(m))

\* The statement is accepted, or the version row is the one expected.
Fits(m) ==
  IF job[m].pos <= Len(Script(m)) THEN Accepts(Met(m), Script(m)[job[m].pos])
  ELSE Met(m).revision = job[m].at

\* The command is at a revision and a place in its script, with work not committed.
InTransaction(m, at, pos, work) ==
  [phase |-> "writing", goal |-> job[m].goal, from |-> job[m].from,
   at |-> at, pos |-> pos, work |-> work]

Statement(m) ==
  /\ AtStatement(m)
  /\ Fits(m)
  /\ job' = [job EXCEPT ![m] = InTransaction(m, @.at, @.pos + 1, Executed(Met(m), Script(m)[@.pos]))]
  /\ UNCHANGED <<schema, config, up, api, probe, health, workers, downgraded, troubles>>

\* UPDATE alembic_version, expected to find the row of the revision left.
Stamp(m) ==
  /\ AtStamp(m)
  /\ Fits(m)
  /\ LET next == IF Ascends(m) THEN job[m].at + 1 ELSE job[m].at - 1
     IN job' = [job EXCEPT ![m] = InTransaction(m, next, 1, [Met(m) EXCEPT !.revision = next])]
  /\ UNCHANGED <<schema, config, up, api, probe, health, workers, downgraded, troubles>>

\* The API serves when its own command has ended.
Served(m) == api' = IF m = "api" THEN [api EXCEPT !.phase = "serving"] ELSE api

\* A slip: each revision is a transaction of its own, committed half way.
FinishEachStatement(m) ==
  /\ job[m].phase = "writing"
  /\ schema' = job[m].work
  /\ downgraded' = (downgraded \/ job[m].work.revision < schema.revision)
  /\ job' = [job EXCEPT ![m] = IF @.at = @.goal THEN NoJob ELSE [@ EXCEPT !.phase = "ready"]]
  /\ IF job[m].at = job[m].goal THEN Served(m) ELSE UNCHANGED api
  /\ UNCHANGED <<config, up, probe, health, workers, troubles>>

\* The end of the transaction: nothing is committed when there was nothing to do.
Finish(m) ==
  /\ job[m].phase \in {"ready", "writing"}
  /\ job[m].at = job[m].goal
  /\ schema' = Met(m)
  /\ downgraded' = (downgraded \/ Met(m).revision < schema.revision)
  /\ job' = [job EXCEPT ![m] = NoJob]
  /\ Served(m)
  /\ UNCHANGED <<config, up, probe, health, workers, troubles>>

\* A statement is refused: all is rolled back.  The API's process exits, and
\* its container with whatever the operator runs in it.
Fail(m) ==
  /\ Runs(m)
  /\ ~Fits(m)
  /\ IF m = "api" THEN job' = [n \in Migrators |-> NoJob] /\ api' = [api EXCEPT !.phase = "exited"]
     ELSE job' = [job EXCEPT ![m] = NoJob] /\ UNCHANGED api
  /\ UNCHANGED <<schema, config, up, probe, health, workers, downgraded, troubles>>

------------------------------------------------------------------------------
(***************************************************************************)
(* GET /health, one look after the other, and what hangs on its answer.    *)
(***************************************************************************)
\* A database without a version table, which the code answers "unknown" (schema_health.py:27),
\* is one at revision 0 here: either way the answer is 503.
MigrationsStatus ==
  IF schema.revision = 0 THEN "pending"
  ELSE IF schema.revision # HeadRevision THEN "outdated" ELSE "applied"

SchemaStatus ==
  IF \A t \in EssentialTables : Exists(schema, t) THEN "ready" ELSE "incomplete"

Looks(at, next, well) ==
  /\ api.phase = "serving"
  /\ probe.at = at
  /\ probe' = [at |-> next, ok |-> probe.ok /\ "postgres" \in up /\ well]
  /\ UNCHANGED <<schema, config, up, api, job, health, workers, downgraded, troubles>>

ProbeDatabase == Looks("none", "redis", TRUE)

ProbeRedis ==
  /\ api.phase = "serving"
  /\ probe.at = "redis"
  /\ probe' = [at |-> "migrations", ok |-> probe.ok /\ "redis" \in up]
  /\ UNCHANGED <<schema, config, up, api, job, health, workers, downgraded, troubles>>

\* A slip: an outdated schema counts as applied.
ProbeMigrationsLax == Looks("migrations", "schema", MigrationsStatus # "pending")

ProbeMigrations == Looks("migrations", "schema", MigrationsStatus = "applied")

\* What Docker knows after a probe: failures count until one succeeds, and enough of them in
\* a row make the API unhealthy.
Probed(well) ==
  LET failures == IF well THEN 0 ELSE health.failures + 1
  IN  IF well THEN [status |-> "healthy", failures |-> 0]
      ELSE IF failures < Retries THEN [health EXCEPT !.failures = failures]
      ELSE [status |-> "unhealthy", failures |-> health.failures]

\* docker compose looks twice a second, so that it sees every verdict.
Verdict(well) ==
  \/ /\ health' = Probed(well)
     /\ workers' = IF workers = "awaited" /\ Probed(well).status = "unhealthy"
                   THEN "abandoned" ELSE workers
  \/ ~well /\ health = Unknown /\ UNCHANGED <<health, workers>>    \* in the start period

ProbeSchema ==
  /\ api.phase = "serving"
  /\ probe.at = "schema"
  /\ probe' = NoProbe
  /\ Verdict(probe.ok /\ "postgres" \in up /\ SchemaStatus = "ready")
  /\ UNCHANGED <<schema, config, up, api, job, downgraded, troubles>>

\* Nobody listens yet.
ProbeRefused ==
  /\ api.phase \in {"waiting", "migrating"}
  /\ Verdict(FALSE)
  /\ UNCHANGED <<schema, config, up, api, job, probe, downgraded, troubles>>

\* depends_on: condition: service_healthy.  Once made, the two containers
\* start again whatever the API is doing.
StartWorkers ==
  /\ health.status = "healthy"
  /\ workers = "awaited"
  /\ workers' = "running"
  /\ UNCHANGED <<schema, config, up, api, job, probe, health, downgraded, troubles>>

\* docker compose ends with an error when a container it waits for is declared unhealthy or
\* exits for good: PostgreSQL or Redis, which it waits for too, or the API.
GiveUp ==
  /\ workers = "awaited"
  /\ up # Services \/ (api.phase = "exited" /\ ~config.restarts)
  /\ workers' = "abandoned"
  /\ UNCHANGED <<schema, config, up, api, job, probe, health, downgraded, troubles>>

\* The operator runs docker compose again, which gives up at once on an unhealthy API.
ComposeAgain ==
  /\ Trouble
  /\ workers = "abandoned"
  /\ health.status # "unhealthy"
  /\ workers' = "awaited"
  /\ IF api.phase = "exited" THEN Gone("created") ELSE UNCHANGED <<api, probe, health>>
  /\ UNCHANGED <<schema, config, up, job, downgraded>>

------------------------------------------------------------------------------
\* Without PostgreSQL every command under way fails and is rolled back.
Outage ==
  /\ Trouble
  /\ \E s \in up :
       /\ up' = up \ {s}
       /\ IF s = "redis" THEN UNCHANGED <<api, job>>
          ELSE /\ job' = [m \in Migrators |-> NoJob]
               /\ api' = IF job["api"] = NoJob THEN api ELSE [api EXCEPT !.phase = "exited"]
  /\ UNCHANGED <<schema, config, probe, health, workers, downgraded>>

Recover ==
  /\ up # Services
  /\ \E s \in Services \ up : up' = up \cup {s}
  /\ UNCHANGED <<schema, config, api, job, probe, health, workers, downgraded, troubles>>

Works(m) == Statement(m) \/ Stamp(m) \/ Finish(m) \/ Fail(m)

Probes == ProbeDatabase \/ ProbeRedis \/ ProbeMigrations \/ ProbeSchema \/ ProbeRefused

StartNext ==
  \/ Boot \/ AwaitDatabase \/ Restart \/ Kill
  \/ Migrate \/ OperatorCommand
  \/ \E m \in Migrators : Statement(m) \/ Stamp(m) \/ Finish(m) \/ Fail(m)
  \/ ProbeDatabase \/ ProbeRedis \/ ProbeMigrations \/ ProbeSchema \/ ProbeRefused
  \/ StartWorkers \/ GiveUp \/ ComposeAgain
  \/ Outage \/ Recover

\* Processes run, Docker restarts and probes, docker compose starts what it still waits to
\* start, and services that fail come back.
StartFairness ==
  /\ WF_startVars(Boot) /\ WF_startVars(AwaitDatabase) /\ WF_startVars(Restart)
  /\ WF_startVars(Migrate) /\ \A m \in Migrators : WF_startVars(Works(m))
  /\ WF_startVars(Probes) /\ WF_startVars(StartWorkers) /\ WF_startVars(Recover)

StartSpec == StartInit /\ [][StartNext]_startVars /\ StartFairness

------------------------------------------------------------------------------
(***************************************************************************)
(* Properties.                                                             *)
(***************************************************************************)
\* The committed schema is whole at every moment: whatever was killed, lost
\* its connection, lost a race or was downgraded and upgraded again, it is
\* exactly what its revision's upgrades make, and every user has a role row.
SchemaIsItsRevisions ==
  /\ schema.objects = ObjectsAt[schema.revision]
  /\ schema.held \subseteq schema.roles
  /\ schema.revision >= 2 => "user" \in schema.roles

\* A statement of a migration meets a database it fits: references resolve,
\* names are free and what is dropped is not needed, unless another command
\* has committed since this one read its revision (env.py takes no lock).
OnlyRacesRefuseStatements ==
  \A m \in Migrators : Runs(m) => Fits(m) \/ schema.revision # job[m].from

\* "so workers never run against an unmigrated database" (README.md:241): once the Celery
\* containers run the schema is at its head, for as long as nobody downgrades.
WorkersFindTheHead == workers = "running" /\ ~downgraded => schema.revision = Latest

\* A stack whose settings pass and that migrates and restarts by itself ends up healthy and
\* stays so, unless somebody downgrades; and with its workers, unless docker compose has given
\* up before: it waits for the first verdict only (docker-compose.prod.yml:71), so that an API
\* that is late, or a service that is down, leaves a healthy stack without them.
EndsUpHealthy ==
  (config.valid /\ ~config.skip /\ config.restarts)
    => <>[]((health.status = "healthy" /\ workers # "awaited") \/ downgraded)
=============================================================================
