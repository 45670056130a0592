--------------------------- MODULE TenantMigrations ---------------------------
(***************************************************************************)
(* Provisioning of a tenant's database (packages/db/src/provisioning.ts),  *)
(* the migration engine it shares with the fan-out (migrations/apply.ts)   *)
(* and the fan-out over the control plane and all tenants (fanout.ts).     *)
(* Several runs of either, of different releases, may overlap; each may    *)
(* fail or die anywhere and is then started again.                         *)
(*                                                                         *)
(* A migration file is its place in filename order, its content a checksum.*)
(* A step is one statement or one transaction; that of a file holds an     *)
(* advisory lock from its first statement on.                              *)
(***************************************************************************)
EXTENDS Integers, Sequences, FiniteSets, FiniteSetsExt, TenantDirectory

CONSTANTS
    ControlPlane,   \* the control-plane database
    Provisioners,   \* runs of createTenantDatabase
    TenantOf,       \* the tenant each of them was asked to provision
    FanOuts,        \* runs of runFanout
    Releases,       \* what a checkout ships: checksums of each database's files
    Installed,      \* the release that was deployed first
    NotApplied,     \* the checksum of a file that is not recorded
    MaxFaults       \* bound: deaths and failing statements in a behaviour

ASSUME TenantOfAssumption == TenantOf \in [Provisioners -> Tenants]
ASSUME InstalledAssumption == Installed \in Releases
\* Files are shipped one after the other; none has the checksum of no file.
ASSUME ReleasesAssumption ==
    \A release \in Releases :
        \A files \in {release.controlPlane, release.tenant} :
            /\ Len(files) \in Nat /\ DOMAIN files = 1..Len(files)
            /\ \A f \in 1..Len(files) : files[f] # NotApplied
ASSUME DistinctAssumption == ControlPlane \notin Tenants /\ Provisioners \intersect FanOuts = {}

VARIABLES
    exists,         \* databases that have been created
    recorded,       \* the _jenova_migrations table of each database
    ran,            \* how often each file's SQL was committed, a history
    job,            \* the run of each provisioner and fan-out
    faults

migrationVars == <<dbName, exists, recorded, ran, job, faults>>

Databases == Tenants \union {ControlPlane}

Jobs == Provisioners \union FanOuts

Ships(release, db) == IF db = ControlPlane THEN release.controlPlane ELSE release.tenant

Files == UNION {DOMAIN Ships(release, db) : release \in Releases, db \in Databases}

None == [f \in Files |-> NotApplied]

Recorded(release, db) ==
    [f \in Files |-> IF f \in DOMAIN Ships(release, db) THEN Ships(release, db)[f] ELSE NotApplied]

NoReport == [status |-> "none", pending |-> {}]

\* The database a run begins with.
HomeOf(j) == IF j \in Provisioners THEN TenantDbName(TenantOf[j]) ELSE ControlPlane

NewJob(release, db, mode) ==
    [pc |-> "start", release |-> release, mode |-> mode, db |-> db,
     todo |-> {}, queue |-> {}, listed |-> {}, report |-> [d \in Databases |-> NoReport]]

\* The control plane of a first installation is empty, and tenants may have
\* been provisioned by the installed release.
MigrationsInit ==
    /\ dbName \in {[t \in Tenants |-> IF t \in P THEN TenantDbName(t) ELSE NoDatabase] :
                        P \in SUBSET Tenants}
    /\ exists = {ControlPlane} \union {t \in Tenants : dbName[t] # NoDatabase}
    /\ \E migrated \in {exists, exists \ {ControlPlane}} :
          /\ exists = {ControlPlane} \/ ControlPlane \in migrated
          /\ recorded = [db \in Databases |->
                            IF db \in migrated THEN Recorded(Installed, db) ELSE None]
    /\ ran = [db \in Databases |-> [f \in Files |-> IF recorded[db][f] = NotApplied THEN 0 ELSE 1]]
    /\ \E release \in [Jobs -> Releases], mode \in [FanOuts -> {"dry-run", "apply"}] :
          job = [j \in Jobs |-> NewJob(release[j], HomeOf(j), IF j \in FanOuts THEN mode[j] ELSE "apply")]
    /\ faults = 0

Goto(j, pc) == job' = [job EXCEPT ![j].pc = pc]

Mismatch(db, files) ==
    \E f \in DOMAIN files : recorded[db][f] \notin {NotApplied, files[f]}

Pending(db, files) == {f \in DOMAIN files : recorded[db][f] = NotApplied}

FilesOf(j) == Ships(job[j].release, job[j].db)
-----------------------------------------------------------------------------
(* applyMigrations                                                         *)

\* What was thrown ends provisioning; the fan-out asks what did land.
Thrown(j) == Goto(j, IF j \in Provisioners THEN "failed" ELSE "after")

ReadStatus(j) ==
    /\ job[j].pc = "status"
    /\ IF Mismatch(job[j].db, FilesOf(j))
       THEN Thrown(j)
       ELSE job' = [job EXCEPT ![j].pc = "apply", ![j].todo = Pending(job[j].db, FilesOf(j))]
    /\ UNCHANGED <<dbName, exists, recorded, ran, faults>>

NotRechecked(db, f) == TRUE                                         \* mutant

StillMissing(db, f) == recorded[db][f] = NotApplied

ApplyFile(j) ==
    LET db == job[j].db
        f == Min(job[j].todo)
    IN  /\ job[j].pc = "apply" /\ job[j].todo # {}
        /\ StillMissing(db, f)
        /\ recorded' = [recorded EXCEPT ![db][f] = FilesOf(j)[f]]
        /\ ran' = [ran EXCEPT ![db][f] = @ + 1]
        /\ job' = [job EXCEPT ![j].todo = @ \ {f}]
        /\ UNCHANGED <<dbName, exists, faults>>

\* A concurrent run was faster.
FindApplied(j) ==
    LET db == job[j].db
        f == Min(job[j].todo)
    IN  /\ job[j].pc = "apply" /\ job[j].todo # {}
        /\ ~StillMissing(db, f)
        /\ IF recorded[db][f] = FilesOf(j)[f]
           THEN job' = [job EXCEPT ![j].todo = @ \ {f}]
           ELSE Thrown(j)
        /\ UNCHANGED <<dbName, exists, recorded, ran, faults>>

\* The file's transaction rolls back.
FileFails(j) ==
    /\ job[j].pc = "apply" /\ job[j].todo # {}
    /\ faults < MaxFaults
    /\ faults' = faults + 1
    /\ Thrown(j)
    /\ UNCHANGED <<dbName, exists, recorded, ran>>
-----------------------------------------------------------------------------
(* createTenantDatabase                                                    *)

\* The tenant table comes with the control plane's first file.
TenantTable == recorded[ControlPlane][1] # NotApplied

\* A tenant that is already provisioned is refused.
LookUpTenant(j) ==
    /\ j \in Provisioners /\ job[j].pc = "start"
    /\ Goto(j, IF TenantTable /\ dbName[TenantOf[j]] = NoDatabase THEN "create" ELSE "refused")
    /\ UNCHANGED <<dbName, exists, recorded, ran, faults>>

CreateDatabaseStrictly(j) ==                                         \* mutant
    /\ job[j].pc = "create"
    /\ exists' = exists \union {job[j].db}
    /\ Goto(j, IF job[j].db \in exists THEN "failed" ELSE "status")
    /\ UNCHANGED <<dbName, recorded, ran, faults>>

\* A database that exists already is one that an earlier run, or a concurrent
\* one, created under this name.
CreateDatabase(j) ==
    /\ job[j].pc = "create"
    /\ exists' = exists \union {job[j].db}
    /\ Goto(j, "status")
    /\ UNCHANGED <<dbName, recorded, ran, faults>>

MigrationsDone(j) == job[j].pc = "apply" /\ job[j].todo = {}

RecordDbName(j) ==
    /\ j \in Provisioners /\ MigrationsDone(j)
    /\ dbName' = [dbName EXCEPT ![TenantOf[j]] = TenantDbName(TenantOf[j])]
    /\ Goto(j, "done")
    /\ UNCHANGED <<exists, recorded, ran, faults>>
-----------------------------------------------------------------------------
(* runFanout                                                               *)

\* The report on the database in hand; the next one is taken whatever it says.
Report(j, status, pending) ==
    job' = [job EXCEPT
                ![j].report[job[j].db] = [status |-> status, pending |-> pending],
                ![j].pc = IF job[j].db = ControlPlane THEN "list" ELSE "next"]

StartFanOut(j) ==
    /\ j \in FanOuts /\ job[j].pc = "start"
    /\ Goto(j, "before")
    /\ UNCHANGED <<dbName, exists, recorded, ran, faults>>

StatusBefore(j) ==
    LET db == job[j].db IN
    /\ job[j].pc = "before"
    /\ \/ Mismatch(db, FilesOf(j)) /\ Report(j, "failed", DOMAIN FilesOf(j))
       \/ /\ ~Mismatch(db, FilesOf(j)) /\ job[j].mode = "dry-run"
          /\ Report(j, "ok", Pending(db, FilesOf(j)))
       \/ ~Mismatch(db, FilesOf(j)) /\ job[j].mode = "apply" /\ Goto(j, "status")
    /\ UNCHANGED <<dbName, exists, recorded, ran, faults>>

AllApplied(j) ==
    /\ j \in FanOuts /\ job[j].pc = "apply" /\ job[j].todo = {}
    /\ Report(j, "ok", {})
    /\ UNCHANGED <<dbName, exists, recorded, ran, faults>>

ReportsOk(j) == Report(j, "ok", Pending(job[j].db, FilesOf(j)))      \* mutant

ReportFailure(j) ==
    Report(j, "failed",
           IF Mismatch(job[j].db, FilesOf(j)) THEN DOMAIN FilesOf(j)
           ELSE Pending(job[j].db, FilesOf(j)))

StatusAfter(j) ==
    /\ job[j].pc = "after"
    /\ ReportFailure(j)
    /\ UNCHANGED <<dbName, exists, recorded, ran, faults>>

\* Without a tenant table there is nothing to list, which is an error only if
\* the control plane claims to be up to date.
ListTenants(j) ==
    LET controlPlane == job[j].report[ControlPlane]
    IN  /\ job[j].pc = "list"
        /\ TenantTable \/ controlPlane.pending # {} \/ controlPlane.status = "failed"
        /\ job' = [job EXCEPT ![j].pc = "next",
                              ![j].queue = IF TenantTable THEN Tenants ELSE {},
                              ![j].listed = IF TenantTable THEN {t \in Tenants : dbName[t] # NoDatabase}
                                            ELSE {}]
        /\ UNCHANGED <<dbName, exists, recorded, ran, faults>>

\* The query fails although the table is there.
ListFails(j) ==
    LET controlPlane == job[j].report[ControlPlane] IN
    /\ job[j].pc = "list" /\ faults < MaxFaults
    /\ faults' = faults + 1
    /\ job' = [job EXCEPT ![j].pc = "next",
                  ![j].report[ControlPlane].status =
                      IF controlPlane.pending # {} THEN controlPlane.status ELSE "failed"]
    /\ UNCHANGED <<dbName, exists, recorded, ran>>

\* A tenant that had no database when it was listed is passed over.
NextTenant(j) ==
    /\ job[j].pc = "next"
    /\ \E t \in job[j].queue :
          job' = IF t \in job[j].listed
                 THEN [job EXCEPT ![j].pc = "before", ![j].db = t, ![j].queue = @ \ {t}]
                 ELSE [job EXCEPT ![j].queue = @ \ {t},
                                  ![j].report[t] = [status |-> "ok", pending |-> {}]]
    /\ UNCHANGED <<dbName, exists, recorded, ran, faults>>

EndFanOut(j) ==
    /\ job[j].pc = "next" /\ job[j].queue = {}
    /\ Goto(j, "done")
    /\ UNCHANGED <<dbName, exists, recorded, ran, faults>>
-----------------------------------------------------------------------------
(* Faults: a run dies, its open transaction with it, or a connection or a   *)
(* statement outside the files fails; an operator starts it again.          *)

Ended(j) == job[j].pc \in {"done", "refused", "failed", "dead"}

Die(j) ==
    /\ ~Ended(j) /\ job[j].pc # "start"
    /\ faults < MaxFaults
    /\ faults' = faults + 1
    /\ Goto(j, "dead")
    /\ UNCHANGED <<dbName, exists, recorded, ran>>

Rerun(j) ==
    /\ job[j].pc \in {"failed", "dead"}
    /\ job' = [job EXCEPT ![j] = NewJob(@.release, HomeOf(j), @.mode)]
    /\ UNCHANGED <<dbName, exists, recorded, ran, faults>>
-----------------------------------------------------------------------------
JobStep(j) ==
    \/ ReadStatus(j) \/ ApplyFile(j) \/ FindApplied(j)
    \/ LookUpTenant(j) \/ CreateDatabase(j) \/ RecordDbName(j)
    \/ StartFanOut(j) \/ StatusBefore(j) \/ AllApplied(j) \/ StatusAfter(j)
    \/ ListTenants(j) \/ NextTenant(j) \/ EndFanOut(j)

MigrationsNext ==
    \E j \in Jobs : JobStep(j) \/ FileFails(j) \/ ListFails(j) \/ Die(j) \/ Rerun(j)

MigrationsFairness ==
    \A j \in Jobs : WF_migrationVars(JobStep(j)) /\ WF_migrationVars(Rerun(j))
-----------------------------------------------------------------------------
MigrationsTypeOK ==
    /\ dbName \in [Tenants -> Tenants \union {NoDatabase}]
    /\ exists \subseteq Databases
    /\ DOMAIN recorded = Databases /\ ran \in [Databases -> [Files -> Nat]]
    /\ \A j \in Jobs :
          /\ job[j].todo \subseteq Files
          /\ job[j].listed \subseteq Tenants /\ job[j].queue \subseteq Tenants
    /\ faults \in 0 .. MaxFaults

\* A file's SQL is committed once in a database and never before the files in
\* front of it, and the record says exactly which were, whatever runs race, die
\* or fail (apply.ts applyMigrations: one transaction per file, under a lock,
\* re-checked inside).
EachFileOnceInOrder ==
    \A db \in Databases, f \in Files :
        /\ ran[db][f] = IF recorded[db][f] = NotApplied THEN 0 ELSE 1
        /\ recorded[db][f] # NotApplied =>
              \A g \in 1 .. f - 1 : recorded[db][g] # NotApplied

\* When a fan-out ends, each tenant it listed has been reported on, whatever
\* happened to the others, and "ok" in apply mode means that the database is up
\* to date (fanout.ts runFanout, migrateOneDatabase: failure isolation).
ReportsAreTrue ==
    \A j \in FanOuts :
        job[j].pc = "done" =>
            /\ \A t \in job[j].listed : job[j].report[t].status # "none"
            /\ job[j].mode = "apply" =>
                  \A db \in job[j].listed \union {ControlPlane} :
                      LET files == Ships(job[j].release, db) IN
                      job[j].report[db].status = "ok" => Pending(db, files) = {} /\ ~Mismatch(db, files)

\* Provisioning resumes where it stopped: started again after every death and
\* failure, it ends with the tenant's database on its row, unless a file it
\* ships was changed after it had been applied (provisioning.ts, "Resumable").
ProvisioningEnds ==
    \A j \in Provisioners :
        (job[j].pc = "create") ~>
            \/ dbName[TenantOf[j]] # NoDatabase
            \/ Mismatch(TenantOf[j], Ships(job[j].release, TenantOf[j]))
=============================================================================
