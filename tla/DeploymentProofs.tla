--------------------------- MODULE DeploymentProofs ---------------------------
(***************************************************************************)
(* Proofs about migrations and lifespans, for any number of migrators, of  *)
(* processes and of files, any outages and any kills.                      *)
(*                                                                         *)
(* Migrators apply the files in order, so what is recorded and what each   *)
(* has read are the first files (MigrationInv).  In a race some migrator   *)
(* is always up to date with the table, or about to read it (InTheLead):   *)
(* it is the one that cannot fail.  A runner is attached to what the       *)
(* process has opened and not closed (ServiceInv).                         *)
(***************************************************************************)
EXTENDS Deployment, TLAPS

-----------------------------------------------------------------------------
\* The invariants

FirstFiles(S) == \E k \in 0 .. LastVersion : S = 1 .. k

\* m has read or applied all that is recorded, or has not read yet.
UpToDate(m) ==
  \/ mpc[m] \in {"ensure", "read"}
  \/ mpc[m] \in {"next", "commit", "done"} /\ already[m] = applied

\* While nothing is down or killed: before the table is there everybody is
\* about to create it, and from then on somebody is up to date.
InTheLead ==
  /\ ~up => Disturbed
  /\ ~Disturbed =>
       IF hasTable THEN \E m \in Migrators : UpToDate(m)
       ELSE \A m \in Migrators : mpc[m] \in {"new", "ensure", "create"}

MigrationInv ==
  /\ SchemaMatchesRecord
  /\ \A m \in Migrators :
       /\ FirstFiles(already[m]) /\ already[m] \subseteq applied
       /\ mpc[m] = "commit" => Pending(m) # {}
       /\ mpc[m] = "done" => Pending(m) = {}
  /\ InTheLead

\* What a process has at each step of its lifespan.
ServiceInv ==
  \A p \in Processes :
    /\ ppc[p] # "stopped" => engine[p]
    /\ ppc[p] \in {"setup", "create"} => pool[p]
    /\ runner[p] => ppc[p] \in {"serving", "stop_hitl"} /\ pool[p] /\ hasCheckpoints

IInv == TypeOK /\ MigrationInv /\ ServiceInv

-----------------------------------------------------------------------------
\* The order of the files

\* The next file is the one after those that the migrator has read or applied.
LEMMA NextFile ==
  ASSUME NEW m \in Migrators, NEW k \in 0 .. LastVersion, already[m] = 1 .. k, Pending(m) # {}
  PROVE  NextVersion(m) = k + 1 /\ k + 1 \in Versions
<1>1. LastVersion \in Nat
  BY DeploymentAssumption
<1>2. Pending(m) = k + 1 .. LastVersion
  BY <1>1 DEF Pending, Versions
<1>3. k + 1 \in Pending(m) /\ \A w \in Pending(m) : k + 1 <= w
  BY <1>1, <1>2
<1>4. ASSUME NEW v \in Pending(m), \A w \in Pending(m) : v <= w
      PROVE  v = k + 1
  <2>1. v <= k + 1 /\ k + 1 <= v /\ v \in Nat /\ k \in Nat
    BY <1>2, <1>3, <1>4
  <2>. QED
    BY <2>1
<1>5. NextVersion(m) = k + 1
  BY <1>3, <1>4 DEF NextVersion
<1>. QED
  BY <1>3, <1>5 DEF Pending

\* A file that is not recorded is next only for who has read all the record.
LEMMA NextUnapplied ==
  ASSUME MigrationInv, NEW m \in Migrators, Pending(m) # {}
  PROVE  \E k \in 0 .. LastVersion :
           /\ already[m] = 1 .. k /\ NextVersion(m) = k + 1 /\ k + 1 \in Versions
           /\ k + 1 \notin applied => applied = 1 .. k
<1>1. PICK k \in 0 .. LastVersion : already[m] = 1 .. k
  BY DEF MigrationInv, FirstFiles
<1>2. PICK j \in 0 .. LastVersion : applied = 1 .. j
  BY DEF MigrationInv, SchemaMatchesRecord
<1>3. 1 .. k \subseteq 1 .. j
  BY <1>1, <1>2 DEF MigrationInv
<1>4. k + 1 \notin 1 .. j => j = k
  BY <1>3, DeploymentAssumption
<1>. QED
  BY <1>1, <1>2, <1>4, NextFile

-----------------------------------------------------------------------------
\* Steps that matter to migrations

\* A step of one migrator that is recorded nowhere: it reads, begins, ends or
\* fails.
LEMMA MigratorMoves ==
  ASSUME TypeOK, MigrationInv, NEW m \in Migrators, NEW step \in MigratorSteps,
         MigratorTo(m, step), UNCHANGED <<up, outages, applied, commits>>,
         \A q \in Migrators \ {m} : already'[q] = already[q],
         FirstFiles(already'[m]), already'[m] \subseteq applied,
         step = "commit" => Versions \ already'[m] # {},
         step = "done" => Versions \ already'[m] = {},
         InTheLead'
  PROVE  MigrationInv'
<1>1. mpc'[m] = step /\ \A q \in Migrators \ {m} : mpc'[q] = mpc[q]
  BY DEF MigratorTo, TypeOK
<1>2. SchemaMatchesRecord'
  BY DEF MigrationInv, SchemaMatchesRecord
<1>3. ASSUME NEW q \in Migrators
      PROVE  /\ FirstFiles(already'[q]) /\ already'[q] \subseteq applied'
             /\ mpc'[q] = "commit" => Pending(q)' # {}
             /\ mpc'[q] = "done" => Pending(q)' = {}
  <2>1. CASE q = m
    BY <1>1, <2>1 DEF Pending
  <2>2. CASE q # m
    BY <1>1, <2>2 DEF Pending, MigrationInv
  <2>. QED
    BY <2>1, <2>2
<1>. QED
  BY <1>2, <1>3 DEF MigrationInv, FirstFiles

\* One that fails was not in the lead, unless something was down or killed.
LEMMA FailsKeeps ==
  ASSUME TypeOK, MigrationInv, NEW m \in Migrators, Fails(m), UNCHANGED <<up, outages>>,
         Disturbed' \/ (UNCHANGED kills /\ hasTable /\ ~UpToDate(m))
  PROVE  MigrationInv'
<1>1. /\ mpc' = [mpc EXCEPT ![m] = "failed"]
      /\ UNCHANGED <<hasTable, applied, commits, already>>
  BY DEF Fails, MigratorTo
<1>2. \A q \in Migrators \ {m} : mpc'[q] = mpc[q]
  BY <1>1 DEF TypeOK
<1>3. InTheLead'
  <2>1. CASE Disturbed'
    BY <2>1 DEF InTheLead
  <2>2. CASE ~Disturbed' /\ UNCHANGED kills /\ hasTable /\ ~UpToDate(m)
    <3>1. ~Disturbed
      BY <2>2 DEF Disturbed
    <3>2. PICK q \in Migrators : UpToDate(q)
      BY <2>2, <3>1 DEF MigrationInv, InTheLead
    <3>3. UpToDate(q)'
      BY <1>1, <1>2, <2>2, <3>2 DEF UpToDate
    <3>4. up'
      BY <3>1 DEF MigrationInv, InTheLead
    <3>. QED
      BY <1>1, <2>2, <3>3, <3>4 DEF InTheLead
  <2>. QED
    BY <2>1, <2>2
<1>4. "failed" \in MigratorSteps /\ FirstFiles(already[m]) /\ already[m] \subseteq applied
  BY DEF MigratorSteps, MigrationInv
<1>. QED
  BY <1>1, <1>3, <1>4, MigratorMoves DEF MigratorTo

\* One that goes on keeps its place in the lead.
LEMMA GoesOn ==
  ASSUME TypeOK, MigrationInv, NEW m \in Migrators,
         NEW step \in {"ensure", "read", "next", "commit", "done"},
         MigratorTo(m, step), UNCHANGED <<faults, hasTable, applied, commits>>,
         \A q \in Migrators \ {m} : already'[q] = already[q],
         FirstFiles(already'[m]), already'[m] \subseteq applied,
         step = "commit" => Versions \ already'[m] # {},
         step = "done" => Versions \ already'[m] = {},
         ~hasTable => step = "ensure",
         UpToDate(m) => step \in {"ensure", "read"} \/ already'[m] = applied
  PROVE  MigrationInv'
<1>1. mpc'[m] = step /\ \A q \in Migrators \ {m} : mpc'[q] = mpc[q]
  BY DEF MigratorTo, TypeOK
<1>2. Disturbed' = Disturbed /\ up' = up
  BY DEF faults, Disturbed
<1>3. ASSUME ~Disturbed, hasTable PROVE \E q \in Migrators : UpToDate(q)'
  <2>1. PICK q \in Migrators : UpToDate(q)
    BY <1>3 DEF MigrationInv, InTheLead
  <2>2. CASE q = m
    BY <1>1, <2>1, <2>2 DEF UpToDate
  <2>3. CASE q # m
    BY <1>1, <2>1, <2>3 DEF UpToDate
  <2>. QED
    BY <2>2, <2>3
<1>4. ASSUME ~Disturbed, ~hasTable, NEW q \in Migrators
      PROVE  mpc'[q] \in {"new", "ensure", "create"}
  BY <1>1, <1>4 DEF MigrationInv, InTheLead
<1>5. InTheLead'
  BY <1>2, <1>3, <1>4 DEF MigrationInv, InTheLead
<1>6. step \in MigratorSteps /\ UNCHANGED <<up, outages, applied, commits>>
  BY DEF MigratorSteps, faults
<1>. QED
  BY <1>5, <1>6, MigratorMoves

\* Each step of a migrator keeps the invariant: it looks for the table ...
LEMMA LookForTableOK ==
  ASSUME TypeOK, MigrationInv, NEW m \in Migrators, LookForTable(m)
  PROVE  MigrationInv'
<1>1. /\ mpc[m] = "ensure" /\ MigratorTo(m, IF hasTable THEN "read" ELSE "create")
      /\ UNCHANGED <<faults, hasTable, applied, commits, already>>
  BY DEF LookForTable
<1>2. FirstFiles(already[m]) /\ already[m] \subseteq applied
  BY DEF MigrationInv
<1>3. CASE hasTable
  BY <1>1, <1>2, <1>3, GoesOn
<1>4. CASE ~hasTable
  <2>1. mpc'[m] = "create" /\ \A q \in Migrators \ {m} : mpc'[q] = mpc[q]
    BY <1>1, <1>4 DEF MigratorTo, TypeOK
  <2>2. InTheLead'
    BY <1>1, <1>4, <2>1 DEF MigrationInv, InTheLead, Disturbed, faults
  <2>. QED
    BY <1>1, <1>2, <1>4, <2>2, MigratorMoves DEF MigratorSteps, faults
<1>. QED
  BY <1>3, <1>4

\* Who creates the table is about to read it.
LEMMA EnsureMigrationsTableOK ==
  ASSUME TypeOK, MigrationInv, NEW m \in Migrators, EnsureMigrationsTable(m)
  PROVE  MigrationInv'
<1>1. mpc[m] = "create" /\ up /\ UNCHANGED faults
  BY DEF EnsureMigrationsTable
<1>2. CASE hasTable /\ Fails(m)
  BY <1>1, <1>2, FailsKeeps DEF UpToDate, Disturbed, faults
<1>3. CASE ~hasTable /\ hasTable' = TRUE /\ MigratorTo(m, "read") /\ UNCHANGED <<applied, commits, already>>
  <2>1. mpc'[m] = "read"
    BY <1>3 DEF MigratorTo, TypeOK
  <2>2. InTheLead'
    BY <1>1, <1>3, <2>1 DEF InTheLead, UpToDate, faults
  <2>. QED
    BY <1>1, <1>3, <2>2, MigratorMoves DEF MigratorSteps, MigrationInv, faults
<1>. QED
  BY <1>2, <1>3 DEF EnsureMigrationsTable

\* Who fails on the INSERT had not read all the record; who commits has.
LEMMA CommitMigrationOK ==
  ASSUME TypeOK, MigrationInv, NEW m \in Migrators, CommitMigration(m)
  PROVE  MigrationInv'
<1>. DEFINE v == NextVersion(m)
<1>1. mpc[m] = "commit" /\ up /\ UNCHANGED faults
  BY DEF CommitMigration
<1>2. PICK k \in 0 .. LastVersion :
        /\ already[m] = 1 .. k /\ v = k + 1 /\ k + 1 \in Versions
        /\ k + 1 \notin applied => applied = 1 .. k
  BY <1>1, NextUnapplied DEF MigrationInv
<1>3. CASE v \in applied /\ Fails(m)
  <2>1. already[m] # applied
    BY <1>2, <1>3
  <2>2. hasTable \/ Disturbed'
    BY <1>1 DEF MigrationInv, InTheLead, Disturbed, faults
  <2>3. ~UpToDate(m)
    BY <1>1, <2>1 DEF UpToDate
  <2>. QED
    BY <1>1, <1>3, <2>2, <2>3, FailsKeeps DEF faults
<1>4. CASE /\ v \notin applied
           /\ applied' = applied \cup {v}
           /\ commits' = [commits EXCEPT ![v] = @ + 1]
           /\ already' = [already EXCEPT ![m] = @ \cup {v}]
           /\ MigratorTo(m, "next")
           /\ UNCHANGED hasTable
  <2>1. k + 1 \in 0 .. LastVersion /\ 1 .. k + 1 = 1 .. k \cup {k + 1} /\ k \in Nat
    BY <1>2, DeploymentAssumption DEF Versions
  <2>2. applied' = 1 .. k + 1 /\ already'[m] = 1 .. k + 1
    BY <1>2, <1>4, <2>1 DEF TypeOK
  <2>3. \A q \in Migrators \ {m} : mpc'[q] = mpc[q] /\ already'[q] = already[q]
    BY <1>4 DEF MigratorTo, TypeOK
  <2>4. mpc'[m] = "next"
    BY <1>4 DEF MigratorTo, TypeOK
  <2>5. SchemaMatchesRecord'
    <3>1. commits'[v] = 1
      BY <1>2, <1>4 DEF TypeOK, MigrationInv, SchemaMatchesRecord
    <3>2. \A w \in Versions \ {v} : commits'[w] = commits[w] /\ (w \in applied' <=> w \in applied)
      BY <1>4 DEF TypeOK
    <3>3. v \in applied'
      BY <1>4
    <3>. QED
      BY <2>1, <2>2, <3>1, <3>2, <3>3 DEF MigrationInv, SchemaMatchesRecord
  <2>6. InTheLead'
    <3>1. UpToDate(m)'
      BY <2>2, <2>4 DEF UpToDate
    <3>2. hasTable' \/ Disturbed'
      BY <1>1, <1>4 DEF MigrationInv, InTheLead, faults, Disturbed
    <3>. QED
      BY <1>1, <3>1, <3>2 DEF InTheLead, faults
  <2>7. ASSUME NEW q \in Migrators
        PROVE  /\ FirstFiles(already'[q]) /\ already'[q] \subseteq applied'
               /\ mpc'[q] = "commit" => Pending(q)' # {}
               /\ mpc'[q] = "done" => Pending(q)' = {}
    <3>1. CASE q = m
      BY <2>1, <2>2, <2>4, <3>1 DEF FirstFiles
    <3>2. CASE q # m
      BY <1>4, <2>3, <3>2 DEF MigrationInv, Pending
    <3>. QED
      BY <3>1, <3>2
  <2>. QED
    BY <2>5, <2>6, <2>7 DEF MigrationInv, FirstFiles
<1>. QED
  BY <1>1, <1>3, <1>4 DEF CommitMigration

\* The steps of a migrator.
LEMMA MigrateOK ==
  ASSUME TypeOK, MigrationInv, NEW m \in Migrators, StartMigrator(m) \/ Migrate(m)
  PROVE  MigrationInv'
<1>1. /\ FirstFiles(already[m]) /\ already[m] \subseteq applied /\ FirstFiles(applied)
      /\ mpc[m] \in {"read", "next", "commit"} => hasTable \/ Disturbed
  BY DEF MigrationInv, SchemaMatchesRecord, FirstFiles, InTheLead
<1>2. CASE StartMigrator(m)
  BY <1>1, <1>2, GoesOn DEF StartMigrator, UpToDate
<1>3. CASE AppliedVersions(m)
  <2>1. already'[m] = applied /\ \A q \in Migrators \ {m} : already'[q] = already[q]
    BY <1>3 DEF AppliedVersions, TypeOK
  <2>2. CASE hasTable
    BY <1>1, <1>3, <2>1, <2>2, GoesOn DEF AppliedVersions
  <2>3. CASE Disturbed
    <3>1. InTheLead'
      BY <1>3, <2>3 DEF AppliedVersions, InTheLead, Disturbed, faults
    <3>. QED
      BY <1>1, <1>3, <2>1, <3>1, MigratorMoves DEF AppliedVersions, MigratorSteps, faults
  <2>. QED
    BY <1>1, <1>3, <2>2, <2>3 DEF AppliedVersions
<1>4. CASE BeginMigration(m) \/ FinishMigrations(m)
  <2>. DEFINE step == IF Pending(m) = {} THEN "done" ELSE "commit"
  <2>1. /\ mpc[m] = "next" /\ MigratorTo(m, step)
        /\ UNCHANGED <<faults, hasTable, applied, commits, already>>
    BY <1>4 DEF BeginMigration, FinishMigrations
  <2>2. /\ step = "commit" => Versions \ already'[m] # {}
        /\ step = "done" => Versions \ already'[m] = {}
    BY <2>1 DEF Pending
  <2>3. UpToDate(m) => already'[m] = applied
    BY <2>1 DEF UpToDate
  <2>4. step \in {"done", "commit"}
    OBVIOUS
  <2>. HIDE DEF step
  <2>5. CASE hasTable
    BY <1>1, <2>1, <2>2, <2>3, <2>4, <2>5, GoesOn
  <2>6. CASE Disturbed
    <3>1. InTheLead'
      BY <2>1, <2>6 DEF InTheLead, Disturbed, faults
    <3>. QED
      BY <1>1, <2>1, <2>2, <2>4, <3>1, MigratorMoves DEF MigratorSteps, faults
  <2>. QED
    BY <1>1, <2>1, <2>5, <2>6
<1>5. CASE MigratorFindsNoDatabase(m)
  <2>1. Disturbed' /\ Fails(m) /\ UNCHANGED faults
    BY <1>5 DEF MigratorFindsNoDatabase, MigrationInv, InTheLead, Disturbed, faults
  <2>. QED
    BY <2>1, FailsKeeps DEF faults
<1>. QED
  BY <1>2, <1>3, <1>4, <1>5, LookForTableOK, EnsureMigrationsTableOK, CommitMigrationOK DEF Migrate

\* Outages and kills: nobody has to be in the lead any more.
LEMMA FaultsOK ==
  ASSUME TypeOK, MigrationInv,
         DatabaseDown \/ DatabaseUp \/ \E m \in Migrators : KillMigrator(m)
  PROVE  MigrationInv'
<1>1. CASE DatabaseDown
  <2>1. /\ outages' = outages + 1 /\ UNCHANGED <<hasTable, applied, commits, already>>
        /\ \A m \in Migrators : mpc'[m] \in {"failed", mpc[m]}
    BY <1>1 DEF DatabaseDown
  <2>2. Disturbed'
    BY <2>1, DeploymentAssumption DEF Disturbed, TypeOK
  <2>3. SchemaMatchesRecord' /\ InTheLead'
    BY <2>1, <2>2 DEF MigrationInv, SchemaMatchesRecord, InTheLead
  <2>. QED
    BY <2>1, <2>3 DEF MigrationInv, FirstFiles, Pending
<1>2. CASE DatabaseUp
  <2>1. up' = TRUE /\ UNCHANGED <<outages, kills, migration>>
    BY <1>2 DEF DatabaseUp
  <2>2. SchemaMatchesRecord' /\ InTheLead'
    BY <2>1 DEF MigrationInv, SchemaMatchesRecord, InTheLead, Disturbed, UpToDate, migration
  <2>. QED
    BY <2>1, <2>2 DEF MigrationInv, FirstFiles, Pending, migration
<1>3. ASSUME NEW m \in Migrators, KillMigrator(m) PROVE MigrationInv'
  <2>1. Disturbed' /\ Fails(m) /\ UNCHANGED <<up, outages>>
    BY <1>3, DeploymentAssumption DEF KillMigrator, Disturbed, TypeOK
  <2>. QED
    BY <2>1, FailsKeeps
<1>. QED
  BY <1>1, <1>2, <1>3

-----------------------------------------------------------------------------
\* Steps that matter to the processes

\* A step of one process.
LEMMA ProcessMoves ==
  ASSUME TypeOK, ServiceInv, NEW p \in Processes,
         StartProcess(p) \/ StartUp(p) \/ Shutdown(p) \/ ShutDown(p) \/ KillProcess(p)
  PROVE  ServiceInv'
<1>. USE DEF ProcessTo
<1>1. ASSUME NEW q \in Processes \ {p}
      PROVE  /\ ppc'[q] = ppc[q] /\ engine'[q] = engine[q] /\ pool'[q] = pool[q] /\ runner'[q] = runner[q]
             /\ hasCheckpoints => hasCheckpoints'
  BY DEF TypeOK, StartProcess, StartUp, Shutdown, ShutDown, KillProcess, Ping, OpenPool, Setup,
         CreateCheckpointTables, StopHitl, ClosePool, Disconnect, Gone, AttachRunner, GiveUp
<1>2. /\ ppc'[p] # "stopped" => engine'[p]
      /\ ppc'[p] \in {"setup", "create"} => pool'[p]
      /\ runner'[p] => ppc'[p] \in {"serving", "stop_hitl"} /\ pool'[p] /\ hasCheckpoints'
  <2>0. /\ ppc[p] # "stopped" => engine[p]
        /\ ppc[p] \in {"setup", "create"} => pool[p]
        /\ runner[p] => ppc[p] \in {"serving", "stop_hitl"} /\ pool[p] /\ hasCheckpoints
    BY DEF ServiceInv
  <2>1. CASE StartProcess(p) \/ Ping(p) \/ OpenPool(p)
    BY <2>0, <2>1 DEF StartProcess, Ping, OpenPool, TypeOK
  <2>2. CASE Setup(p) \/ CreateCheckpointTables(p)
    BY <2>0, <2>2 DEF Setup, CreateCheckpointTables, AttachRunner, GiveUp, TypeOK
  <2>3. CASE Shutdown(p) \/ StopHitl(p) \/ ClosePool(p)
    BY <2>0, <2>3 DEF Shutdown, StopHitl, ClosePool, TypeOK
  <2>4. CASE Disconnect(p) \/ KillProcess(p)
    BY <2>4 DEF Disconnect, KillProcess, Gone, TypeOK
  <2>. QED
    BY <2>1, <2>2, <2>3, <2>4 DEF StartUp, ShutDown
<1>3. ASSUME NEW q \in Processes \ {p}
      PROVE  /\ ppc'[q] # "stopped" => engine'[q]
             /\ ppc'[q] \in {"setup", "create"} => pool'[q]
             /\ runner'[q] => ppc'[q] \in {"serving", "stop_hitl"} /\ pool'[q] /\ hasCheckpoints'
  BY <1>1 DEF ServiceInv
<1>. QED
  BY <1>2, <1>3 DEF ServiceInv

\* The database takes the set-ups under way with it, and no runner.
LEMMA DatabaseDownService ==
  ASSUME TypeOK, ServiceInv, DatabaseDown
  PROVE  ServiceInv'
<1>1. /\ UNCHANGED <<hasCheckpoints, engine, pool, runner>>
      /\ \A p \in Processes : ppc'[p] = IF ppc[p] = "create" THEN "serving" ELSE ppc[p]
  BY DEF DatabaseDown
<1>. QED
  BY <1>1 DEF ServiceInv

-----------------------------------------------------------------------------
\* Types

\* The variables keep their types: migrators move ...
LEMMA MigratorTyped ==
  ASSUME TypeOK, MigrationInv, NEW m \in Migrators, StartMigrator(m) \/ Migrate(m)
  PROVE  TypeOK'
<1>. USE DEF MigratorTo, MigratorSteps, Fails, faults, service
<1>1. CASE CommitMigration(m)
  <2>1. NextVersion(m) \in Versions
    BY <1>1, NextUnapplied DEF CommitMigration, MigrationInv
  <2>. HIDE DEF NextVersion
  <2>. QED
    BY <1>1, <2>1 DEF TypeOK, CommitMigration
<1>2. CASE StartMigrator(m) \/ LookForTable(m) \/ EnsureMigrationsTable(m)
  BY <1>2 DEF TypeOK, StartMigrator, LookForTable, EnsureMigrationsTable
<1>3. CASE AppliedVersions(m) \/ BeginMigration(m) \/ FinishMigrations(m) \/ MigratorFindsNoDatabase(m)
  BY <1>3 DEF TypeOK, AppliedVersions, BeginMigration, FinishMigrations, MigratorFindsNoDatabase
<1>. QED
  BY <1>1, <1>2, <1>3 DEF Migrate

\* ... processes start and stop ...
LEMMA ProcessTyped ==
  ASSUME TypeOK, NEW p \in Processes,
         StartProcess(p) \/ StartUp(p) \/ Shutdown(p) \/ ShutDown(p)
  PROVE  TypeOK'
<1>. USE DEF ProcessTo, ProcessSteps, faults, migration, TypeOK
<1>1. CASE StartProcess(p) \/ Ping(p) \/ OpenPool(p)
  BY <1>1 DEF StartProcess, Ping, OpenPool
<1>2. CASE Setup(p) \/ CreateCheckpointTables(p)
  BY <1>2 DEF Setup, CreateCheckpointTables, AttachRunner, GiveUp
<1>3. CASE Shutdown(p) \/ StopHitl(p) \/ ClosePool(p) \/ Disconnect(p)
  BY <1>3 DEF Shutdown, StopHitl, ClosePool, Disconnect, Gone
<1>. QED
  BY <1>1, <1>2, <1>3 DEF StartUp, ShutDown

\* ... and the database comes and goes, and kills happen.
LEMMA FaultsTyped ==
  ASSUME TypeOK,
         \/ DatabaseDown \/ DatabaseUp
         \/ \E m \in Migrators : KillMigrator(m)
         \/ \E p \in Processes : KillProcess(p)
  PROVE  TypeOK'
<1>. USE DeploymentAssumption DEF TypeOK, migration, service
<1>1. CASE DatabaseDown
  <2>1. outages' \in 0 .. MaxOutages
    BY <1>1 DEF DatabaseDown
  <2>2. mpc' \in [Migrators -> MigratorSteps] /\ ppc' \in [Processes -> ProcessSteps]
    BY <1>1 DEF DatabaseDown, MigratorSteps, ProcessSteps
  <2>. QED
    BY <1>1, <2>1, <2>2 DEF DatabaseDown
<1>2. CASE DatabaseUp
  BY <1>2 DEF DatabaseUp
<1>3. ASSUME NEW m \in Migrators, KillMigrator(m) PROVE TypeOK'
  BY <1>3 DEF KillMigrator, Fails, MigratorTo, MigratorSteps
<1>4. ASSUME NEW p \in Processes, KillProcess(p) PROVE TypeOK'
  BY <1>4 DEF KillProcess, Gone, ProcessTo, ProcessSteps
<1>. QED
  BY <1>1, <1>2, <1>3, <1>4

-----------------------------------------------------------------------------
\* The invariant

\* A step of the migrators is not about the processes, and the other way round.
LEMMA Apart ==
  /\ UNCHANGED service /\ ServiceInv => ServiceInv'
  /\ UNCHANGED <<up, outages, migration>> /\ (Disturbed => Disturbed') /\ MigrationInv => MigrationInv'
<1>1. UNCHANGED service /\ ServiceInv => ServiceInv'
  BY DEF service, ServiceInv
<1>2. ASSUME UNCHANGED <<up, outages, migration>>, Disturbed => Disturbed', MigrationInv
      PROVE  MigrationInv'
  <2>1. SchemaMatchesRecord' /\ InTheLead'
    BY <1>2 DEF MigrationInv, SchemaMatchesRecord, InTheLead, UpToDate, migration
  <2>. QED
    BY <1>2, <2>1 DEF MigrationInv, FirstFiles, Pending, migration
<1>. QED
  BY <1>1, <1>2

\* The invariant holds before anything runs.
LEMMA InitOK == Init => IInv
<1>. SUFFICES ASSUME Init PROVE IInv
  OBVIOUS
<1>1. TypeOK
  <2>1. outages \in 0 .. MaxOutages /\ kills \in 0 .. MaxKills /\ commits \in [Versions -> Nat]
    BY DeploymentAssumption DEF Init
  <2>2. mpc \in [Migrators -> MigratorSteps] /\ already \in [Migrators -> SUBSET Versions]
    BY DEF Init, MigratorSteps
  <2>3. ppc \in [Processes -> ProcessSteps]
    BY DEF Init, ProcessSteps
  <2>. QED
    BY <2>1, <2>2, <2>3 DEF Init, TypeOK
<1>2. 0 \in 0 .. LastVersion /\ 1 .. 0 = {}
  BY DeploymentAssumption
<1>3. MigrationInv
  BY <1>2 DEF Init, MigrationInv, SchemaMatchesRecord, FirstFiles, InTheLead, Disturbed
<1>4. ServiceInv
  BY DEF Init, ServiceInv
<1>. QED
  BY <1>1, <1>3, <1>4 DEF IInv

\* No step of a migrator, a process or the surroundings breaks it.
LEMMA NextOK == IInv /\ [Next]_vars => IInv'
<1>. SUFFICES ASSUME IInv, [Next]_vars PROVE IInv'
  OBVIOUS
<1>. USE DEF IInv
<1>1. ASSUME NEW m \in Migrators, StartMigrator(m) \/ Migrate(m) PROVE IInv'
  <2>1. UNCHANGED service
    BY <1>1 DEF StartMigrator, Migrate, LookForTable, EnsureMigrationsTable, AppliedVersions,
       BeginMigration, CommitMigration, FinishMigrations, MigratorFindsNoDatabase
  <2>. QED
    BY <1>1, <2>1, MigratorTyped, MigrateOK, Apart
<1>2. ASSUME NEW p \in Processes, StartProcess(p) \/ StartUp(p) \/ Shutdown(p) \/ ShutDown(p)
      PROVE  IInv'
  <2>1. UNCHANGED <<faults, migration>>
    BY <1>2 DEF StartProcess, StartUp, Shutdown, ShutDown, Ping, OpenPool, Setup,
       CreateCheckpointTables, StopHitl, ClosePool, Disconnect
  <2>. QED
    BY <1>2, <2>1, ProcessTyped, ProcessMoves, Apart DEF faults, Disturbed
<1>3. ASSUME NEW m \in Migrators, KillMigrator(m) PROVE IInv'
  BY <1>3, FaultsTyped, FaultsOK, Apart DEF KillMigrator
<1>4. ASSUME NEW p \in Processes, KillProcess(p) PROVE IInv'
  <2>1. UNCHANGED <<up, outages, migration>> /\ kills' = kills + 1
    BY <1>4 DEF KillProcess
  <2>2. Disturbed => Disturbed'
    BY <2>1, DeploymentAssumption DEF Disturbed, TypeOK
  <2>. QED
    BY <1>4, <2>1, <2>2, FaultsTyped, ProcessMoves, Apart
<1>5. CASE DatabaseDown
  BY <1>5, FaultsTyped, FaultsOK, DatabaseDownService
<1>6. CASE DatabaseUp
  BY <1>6, FaultsTyped, FaultsOK, Apart DEF DatabaseUp
<1>7. CASE UNCHANGED vars
  <2>1. TypeOK'
    BY <1>7 DEF TypeOK, vars, faults, migration, service
  <2>. QED
    BY <1>7, <2>1, Apart DEF vars, faults, Disturbed
<1>. QED
  BY <1>1, <1>2, <1>3, <1>4, <1>5, <1>6, <1>7 DEF Next

\* At rest, whoever is in the lead has finished.
LEMMA WinnerFinished == IInv => RaceHasAWinner
<1>. SUFFICES ASSUME IInv PROVE RaceHasAWinner
  OBVIOUS
<1>1. ASSUME NEW m \in Migrators, mpc[m] = "done" PROVE already[m] = Versions /\ applied = Versions
  BY <1>1 DEF IInv, TypeOK, MigrationInv, Pending
<1>2. ASSUME ~Disturbed, NEW m \in Migrators, mpc[m] # "new", \A q \in Migrators : ~Running(q)
      PROVE  applied = Versions
  <2>1. hasTable
    BY <1>2 DEF IInv, MigrationInv, InTheLead, Running
  <2>2. PICK q \in Migrators : UpToDate(q)
    BY <1>2, <2>1 DEF IInv, MigrationInv, InTheLead
  <2>3. mpc[q] = "done"
    BY <1>2, <2>2 DEF UpToDate, Running
  <2>. QED
    BY <1>1, <2>3
<1>. QED
  BY <1>1, <1>2 DEF RaceHasAWinner

-----------------------------------------------------------------------------
\* The theorems

\* The invariant holds however migrators and processes overlap.
THEOREM Invariance == Spec => []IInv
BY InitOK, NextOK, PTL DEF Spec

\* Every variable has its type.
THEOREM TypeCorrect == Spec => []TypeOK
<1>1. IInv => TypeOK
  BY DEF IInv
<1>. QED
  BY <1>1, Invariance, PTL

\* schema_migrations says what the schema is, however many invocations of
\* apply_migrations race, fail, are killed or lose the database.
THEOREM RecordIsTrue == Spec => []SchemaMatchesRecord
<1>1. IInv => SchemaMatchesRecord
  BY DEF IInv, MigrationInv
<1>. QED
  BY <1>1, Invariance, PTL

\* A race is never lost by everybody: when all invocations of apply_migrations
\* have ended, undisturbed, the schema is complete.
THEOREM SomebodyMigrates == Spec => []RaceHasAWinner
BY WinnerFinished, Invariance, PTL

\* What runner_dep lets a request reach is usable, in every process.
THEOREM RunnersUsable == Spec => []RunnerIsUsable
<1>1. IInv => RunnerIsUsable
  BY DEF IInv, ServiceInv, RunnerIsUsable
<1>. QED
  BY <1>1, Invariance, PTL

=============================================================================
