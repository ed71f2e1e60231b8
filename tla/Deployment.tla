------------------------------ MODULE Deployment ------------------------------
(***************************************************************************)
(* What runs around the service and shares only its database: invocations  *)
(* of the migration runner (apply_migrations), and API processes that      *)
(* start, serve and stop (lifespan).  The database can go away and come    *)
(* back, and any process can be killed.                                    *)
(*                                                                         *)
(* A migration file is its version, its statements and the row that        *)
(* records it one transaction.  The checkpointer's tables, created by      *)
(* AsyncPostgresSaver.setup(), are external: one boolean, and a process    *)
(* that creates them while another does may find them there and raise.     *)
(***************************************************************************)
EXTENDS Naturals

CONSTANTS
  Processes,   \* API processes on the database
  Migrators,   \* invocations of the migration runner
  LastVersion, \* migration files have the versions 1 .. LastVersion
  MaxOutages,  \* bound on outages of the database
  MaxKills     \* bound on processes killed

ASSUME DeploymentAssumption ==
  LastVersion \in Nat /\ MaxOutages \in Nat /\ MaxKills \in Nat

VARIABLES
  up,          \* whether the database accepts connections
  outages,     \* outages so far
  kills,       \* processes and migrators killed so far
  hasTable,    \* table schema_migrations exists
  applied,     \* its versions
  commits,     \* history: how often a version's statements were committed
  mpc,         \* mpc[m]: where migrator m is
  already,     \* already[m]: versions m has read or applied
  hasCheckpoints, \* the checkpointer's tables exist
  ppc,         \* ppc[p]: where process p is in its lifespan
  engine, pool, runner  \* whether p has an engine, an open pool, a HitlRunner

migration == <<hasTable, applied, commits, mpc, already>>
service == <<hasCheckpoints, ppc, engine, pool, runner>>
faults == <<up, outages, kills>>
vars == <<faults, migration, service>>

Versions == 1 .. LastVersion

MigratorSteps == {"new", "ensure", "create", "read", "next", "commit", "done", "failed"}
ProcessSteps == {"stopped", "connect", "open_pool", "setup", "create",
                 "serving", "stop_hitl", "close_pool", "disconnect"}

Init ==
  /\ up = TRUE /\ outages = 0 /\ kills = 0
  /\ hasTable = FALSE /\ applied = {} /\ commits = [v \in Versions |-> 0]
  /\ mpc = [m \in Migrators |-> "new"]
  /\ already = [m \in Migrators |-> {}]
  /\ hasCheckpoints = FALSE
  /\ ppc = [p \in Processes |-> "stopped"]
  /\ engine = [p \in Processes |-> FALSE]
  /\ pool = [p \in Processes |-> FALSE]
  /\ runner = [p \in Processes |-> FALSE]

-----------------------------------------------------------------------------
\* apply_migrations

MigratorTo(m, step) == mpc' = [mpc EXCEPT ![m] = step]

StartMigrator(m) ==
  /\ mpc[m] = "new"
  /\ MigratorTo(m, "ensure")
  /\ UNCHANGED <<faults, service, hasTable, applied, commits, already>>

\* The exception ends the invocation; its transaction is rolled back.
Fails(m) ==
  /\ MigratorTo(m, "failed")
  /\ UNCHANGED <<hasTable, applied, commits, already>>

\* CREATE TABLE IF NOT EXISTS looks for the table ...
LookForTable(m) ==
  /\ mpc[m] = "ensure" /\ up
  /\ MigratorTo(m, IF hasTable THEN "read" ELSE "create")
  /\ UNCHANGED <<faults, service, hasTable, applied, commits, already>>

\* ... and raises when another transaction has created it since.
EnsureMigrationsTable(m) ==
  /\ mpc[m] = "create" /\ up
  /\ \/ hasTable /\ Fails(m)
     \/ /\ ~hasTable
        /\ hasTable' = TRUE
        /\ MigratorTo(m, "read")
        /\ UNCHANGED <<applied, commits, already>>
  /\ UNCHANGED <<faults, service>>

\* applied_versions, read once.
AppliedVersions(m) ==
  /\ mpc[m] = "read" /\ up
  /\ already' = [already EXCEPT ![m] = applied]
  /\ MigratorTo(m, "next")
  /\ UNCHANGED <<faults, service, hasTable, applied, commits>>

\* Versions the invocation has left to apply, in the order of the files.
Pending(m) == Versions \ already[m]

NextVersion(m) == CHOOSE v \in Pending(m) : \A w \in Pending(m) : v <= w

\* engine.begin() and the statements of the next file, which nobody sees yet.
BeginMigration(m) ==
  /\ mpc[m] = "next" /\ Pending(m) # {} /\ up
  /\ MigratorTo(m, "commit")
  /\ UNCHANGED <<faults, service, hasTable, applied, commits, already>>

\* Mutant: the INSERT ignores a version that is there (ON CONFLICT DO NOTHING).
CommitAnyway(m) ==
  /\ mpc[m] = "commit" /\ up
  /\ LET v == NextVersion(m) IN
       /\ applied' = applied \cup {v}
       /\ commits' = [commits EXCEPT ![v] = @ + 1]
       /\ already' = [already EXCEPT ![m] = @ \cup {v}]
       /\ MigratorTo(m, "next")
  /\ UNCHANGED <<faults, service, hasTable>>

\* Mutant: the runner returns after the first file it has applied.
CommitAndReturn(m) ==
  /\ mpc[m] = "commit" /\ up
  /\ LET v == NextVersion(m) IN
       \/ v \in applied /\ Fails(m)
       \/ /\ v \notin applied
          /\ applied' = applied \cup {v}
          /\ commits' = [commits EXCEPT ![v] = @ + 1]
          /\ already' = [already EXCEPT ![m] = @ \cup {v}]
          /\ MigratorTo(m, "done")
          /\ UNCHANGED hasTable
  /\ UNCHANGED <<faults, service>>

\* The INSERT of the version, unique in the table, and the commit.
CommitMigration(m) ==
  /\ mpc[m] = "commit" /\ up
  /\ LET v == NextVersion(m) IN
       \/ v \in applied /\ Fails(m)
       \/ /\ v \notin applied
          /\ applied' = applied \cup {v}
          /\ commits' = [commits EXCEPT ![v] = @ + 1]
          /\ already' = [already EXCEPT ![m] = @ \cup {v}]
          /\ MigratorTo(m, "next")
          /\ UNCHANGED hasTable
  /\ UNCHANGED <<faults, service>>

FinishMigrations(m) ==
  /\ mpc[m] = "next" /\ Pending(m) = {}
  /\ MigratorTo(m, "done")
  /\ UNCHANGED <<faults, service, hasTable, applied, commits, already>>

\* A statement or a connection attempt finds no database.
MigratorFindsNoDatabase(m) ==
  /\ ~up
  /\ \/ mpc[m] \in {"ensure", "read"}
     \/ mpc[m] = "next" /\ Pending(m) # {}
  /\ Fails(m)
  /\ UNCHANGED <<faults, service>>

-----------------------------------------------------------------------------
\* lifespan

ProcessTo(p, step) == ppc' = [ppc EXCEPT ![p] = step]

\* Database.connect creates the engine before it pings.
StartProcess(p) ==
  /\ ppc[p] = "stopped"
  /\ engine' = [engine EXCEPT ![p] = TRUE]
  /\ ProcessTo(p, "connect")
  /\ UNCHANGED <<faults, migration, hasCheckpoints, pool, runner>>

\* The ping succeeds, or raises: then the process serves without a runner.
Ping(p) ==
  /\ ppc[p] = "connect"
  /\ ProcessTo(p, IF up THEN "open_pool" ELSE "serving")
  /\ UNCHANGED <<faults, migration, hasCheckpoints, engine, pool, runner>>

\* Mutant: _start_hitl attaches the runner as soon as the pool is open.
OpenPoolAndAttach(p) ==
  /\ ppc[p] = "open_pool"
  /\ pool' = [pool EXCEPT ![p] = TRUE]
  /\ runner' = [runner EXCEPT ![p] = TRUE]
  /\ ProcessTo(p, "setup")
  /\ UNCHANGED <<faults, migration, hasCheckpoints, engine>>

\* create_checkpointer_pool: open() does not wait for a connection.
OpenPool(p) ==
  /\ ppc[p] = "open_pool"
  /\ pool' = [pool EXCEPT ![p] = TRUE]
  /\ ProcessTo(p, "setup")
  /\ UNCHANGED <<faults, migration, hasCheckpoints, engine, runner>>

\* setup() is through: the runner is attached and startup is complete.
AttachRunner(p) ==
  /\ runner' = [runner EXCEPT ![p] = TRUE]
  /\ ProcessTo(p, "serving")

\* Startup goes on without a runner; nothing closes the pool.
GiveUp(p) ==
  /\ ProcessTo(p, "serving")
  /\ UNCHANGED runner

\* Mutant: setup creates the tables whether they exist or not.
SetupAgain(p) ==
  /\ ppc[p] = "setup"
  /\ IF up THEN ProcessTo(p, "create") /\ UNCHANGED runner ELSE GiveUp(p)
  /\ UNCHANGED <<faults, migration, hasCheckpoints, engine, pool>>

\* checkpointer.setup() finds the tables, goes on to create them, or gets no
\* connection from the pool.
Setup(p) ==
  /\ ppc[p] = "setup"
  /\ \/ up /\ hasCheckpoints /\ AttachRunner(p)
     \/ up /\ ~hasCheckpoints /\ ProcessTo(p, "create") /\ UNCHANGED runner
     \/ ~up /\ GiveUp(p)
  /\ UNCHANGED <<faults, migration, hasCheckpoints, engine, pool>>

\* setup() creates the tables, or raises because another process has.
CreateCheckpointTables(p) ==
  /\ ppc[p] = "create" /\ up
  /\ \/ ~hasCheckpoints /\ AttachRunner(p)
     \/ hasCheckpoints /\ GiveUp(p)
  /\ hasCheckpoints' = TRUE
  /\ UNCHANGED <<faults, migration, engine, pool>>

\* Shutdown: _stop_hitl runs only if _start_hitl came to its end.
Shutdown(p) ==
  /\ ppc[p] = "serving"
  /\ ProcessTo(p, IF runner[p] THEN "stop_hitl" ELSE "disconnect")
  /\ UNCHANGED <<faults, migration, hasCheckpoints, engine, pool, runner>>

StopHitl(p) ==
  /\ ppc[p] = "stop_hitl"
  /\ runner' = [runner EXCEPT ![p] = FALSE]
  /\ ProcessTo(p, "close_pool")
  /\ UNCHANGED <<faults, migration, hasCheckpoints, engine, pool>>

ClosePool(p) ==
  /\ ppc[p] = "close_pool"
  /\ pool' = [pool EXCEPT ![p] = FALSE]
  /\ ProcessTo(p, "disconnect")
  /\ UNCHANGED <<faults, migration, hasCheckpoints, engine, runner>>

\* The process is gone, and what it had open with it.
Gone(p) ==
  /\ ProcessTo(p, "stopped")
  /\ engine' = [engine EXCEPT ![p] = FALSE]
  /\ pool' = [pool EXCEPT ![p] = FALSE]
  /\ runner' = [runner EXCEPT ![p] = FALSE]
  /\ UNCHANGED hasCheckpoints

\* Database.disconnect, the last thing the process does.  The pool of a start
\* that failed is open until then.
Disconnect(p) ==
  /\ ppc[p] = "disconnect"
  /\ Gone(p)
  /\ UNCHANGED <<faults, migration>>

-----------------------------------------------------------------------------
\* Faults

\* The database goes away: transactions under way are lost with their
\* connections.  A connection of a pool that is idle is made again later.
DatabaseDown ==
  /\ up /\ outages < MaxOutages
  /\ up' = FALSE /\ outages' = outages + 1
  /\ mpc' = [m \in Migrators |-> IF mpc[m] \in {"create", "commit"} THEN "failed" ELSE mpc[m]]
  /\ ppc' = [p \in Processes |-> IF ppc[p] = "create" THEN "serving" ELSE ppc[p]]
  /\ UNCHANGED <<kills, hasTable, applied, commits, already,
                 hasCheckpoints, engine, pool, runner>>

DatabaseUp ==
  /\ ~up
  /\ up' = TRUE
  /\ UNCHANGED <<outages, kills, migration, service>>

Running(m) == mpc[m] \notin {"new", "done", "failed"}

KillMigrator(m) ==
  /\ kills < MaxKills /\ Running(m)
  /\ kills' = kills + 1
  /\ Fails(m)
  /\ UNCHANGED <<up, outages, service>>

KillProcess(p) ==
  /\ kills < MaxKills /\ ppc[p] # "stopped"
  /\ kills' = kills + 1
  /\ Gone(p)
  /\ UNCHANGED <<up, outages, migration>>

-----------------------------------------------------------------------------
Migrate(m) ==
  \/ LookForTable(m)
  \/ EnsureMigrationsTable(m)
  \/ AppliedVersions(m)
  \/ BeginMigration(m)
  \/ CommitMigration(m)
  \/ FinishMigrations(m)
  \/ MigratorFindsNoDatabase(m)

StartUp(p) == Ping(p) \/ OpenPool(p) \/ Setup(p) \/ CreateCheckpointTables(p)

ShutDown(p) == StopHitl(p) \/ ClosePool(p) \/ Disconnect(p)

Next ==
  \/ \E m \in Migrators : StartMigrator(m) \/ Migrate(m) \/ KillMigrator(m)
  \/ \E p \in Processes :
       StartProcess(p) \/ StartUp(p) \/ Shutdown(p) \/ ShutDown(p) \/ KillProcess(p)
  \/ DatabaseDown
  \/ DatabaseUp

\* A start-up goes on: a statement and the wait for a connection end, if only by
\* a timeout.  Nothing else has to happen for what is asked of the model.
Fairness == \A p \in Processes : WF_vars(StartUp(p))

Spec == Init /\ [][Next]_vars /\ Fairness

-----------------------------------------------------------------------------
\* Properties

TypeOK ==
  /\ up \in BOOLEAN /\ outages \in 0 .. MaxOutages /\ kills \in 0 .. MaxKills
  /\ hasTable \in BOOLEAN /\ applied \subseteq Versions
  /\ commits \in [Versions -> Nat]
  /\ mpc \in [Migrators -> MigratorSteps]
  /\ already \in [Migrators -> SUBSET Versions]
  /\ hasCheckpoints \in BOOLEAN
  /\ ppc \in [Processes -> ProcessSteps]
  /\ engine \in [Processes -> BOOLEAN]
  /\ pool \in [Processes -> BOOLEAN]
  /\ runner \in [Processes -> BOOLEAN]

\* However migrators race, are killed or lose the database, the schema is what
\* schema_migrations says: the recorded versions are the first files, and the
\* statements of each were committed once, those of the others never.
SchemaMatchesRecord ==
  /\ \E k \in 0 .. LastVersion : applied = 1 .. k
  /\ \A v \in Versions : commits[v] = (IF v \in applied THEN 1 ELSE 0)

Disturbed == outages > 0 \/ kills > 0

\* A migrator that ends well leaves nothing to apply.  A race costs every
\* migrator but one its invocation, and never the migration: unless something
\* was down or killed, when all those started have ended the schema is complete.
RaceHasAWinner ==
  /\ \A m \in Migrators : mpc[m] = "done" => applied = Versions
  /\ /\ ~Disturbed
     /\ \E m \in Migrators : mpc[m] # "new"
     /\ \A m \in Migrators : ~Running(m)
     => applied = Versions

\* A request that gets past runner_dep finds a runner with an engine, an open
\* pool and the checkpointer's tables, also in a process that starts while the
\* database comes and goes and in one that shuts down.
RunnerIsUsable ==
  \A p \in Processes : runner[p] => engine[p] /\ pool[p] /\ hasCheckpoints

\* A process that starts ends up serving; and it has a runner, unless there was
\* an outage or a kill, or it raced with another for the first set-up, which
\* one of them wins.
StartsServing ==
  /\ \A p \in Processes : ppc[p] = "connect" ~> ppc[p] \in {"serving", "stopped"}
  /\ \A p \in Processes : ppc[p] = "connect" /\ hasCheckpoints ~> runner[p] \/ Disturbed
  /\ (\E p \in Processes : ppc[p] = "connect") ~> hasCheckpoints \/ Disturbed

=============================================================================
