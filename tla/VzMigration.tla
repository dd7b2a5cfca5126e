----------------------------- MODULE VzMigration -------------------------------
(***************************************************************************)
(* The upgrade of MySQL from the Deployment of older releases to a cluster *)
(* of the MySQL operator, which takes the data of Keycloak along: the      *)
(* database is dumped to its own volume, the volume is handed from the old *)
(* claim to a new one, and a job loads the dump into the new database.     *)
(* Which stages are done is kept in a secret; everything else the operator *)
(* must find out again after a failed call or a restart, which start the   *)
(* pre-upgrade from its beginning.                                         *)
(*                                                                         *)
(* One action is one call that changes something, with the reads before    *)
(* it.  Jobs are read through the operator's cache.  The stage that users  *)
(* set after they have migrated by hand is left out.                       *)
(***************************************************************************)
EXTENDS Naturals

CONSTANTS MaxMigFaults,     \* failed calls and crashes of the operator
          MaxLoadFailures   \* failures of the load job without a reason

VARIABLES migStep,      \* the step of the component's upgrade
          stages,       \* the stages recorded in the secret
          persistent,   \* the old database has a claim
          deployment,   \* the old Deployment exists
          oldClaim,     \* its claim
          volume,       \* the volume with the data and the dump
          dumpClaim,    \* the new claim exists
          loadJob,      \* the job and its pod
          jobSeen,      \* the job in the cache
          database,     \* the database of Keycloak
          broken,       \* a fault struck where the code does not recover
          migFaults,
          loadFailures

migrationVars == <<migStep, stages, persistent, deployment, oldClaim, volume,
                   dumpClaim, loadJob, jobSeen, database, broken, migFaults,
                   loadFailures>>

Stages == {"found", "dumped", "deleted", "recreated"}

Jobs == {"none", "created", "pending", "running", "succeeded", "failed"}

PreSteps == {"start", "retain", "dump", "dumping", "markDumped",
             "deleteDeployment", "deleteClaim", "markDeleted", "clearRef",
             "newClaim", "markRecreated", "job", "waitPod"}

PostSteps == {"cleanJob", "cleanSecret", "resetPolicy"}

MigrationTypeOK ==
    /\ migStep \in PreSteps \cup PostSteps
                   \cup {"upgrade", "ready", "cleanUp", "done"}
    /\ stages \subseteq Stages
    /\ persistent \in BOOLEAN
    /\ deployment \in BOOLEAN
    /\ oldClaim \in {"bound", "terminating", "gone"}
    /\ volume \in [exists : BOOLEAN, policy : {"Delete", "Retain"},
                   labelled : BOOLEAN, claim : {"old", "none", "dump"},
                   dump : {"none", "partial", "full"}]
    /\ dumpClaim \in BOOLEAN
    /\ loadJob \in Jobs /\ jobSeen \in Jobs
    /\ database \in {"legacy", "new", "loaded"}
    /\ broken \in BOOLEAN

MigrationInit ==
    /\ migStep = "start"
    /\ stages = {}
    /\ persistent \in BOOLEAN
    /\ deployment = TRUE
    /\ oldClaim = IF persistent THEN "bound" ELSE "gone"
    /\ volume = [exists |-> persistent, policy |-> "Delete",
                 labelled |-> FALSE, claim |-> "old", dump |-> "none"]
    /\ dumpClaim = FALSE
    /\ loadJob = "none" /\ jobSeen = "none"
    /\ database = "legacy"
    /\ broken = FALSE
    /\ migFaults = 0 /\ loadFailures = 0

MigGoTo(from, to) == migStep = from /\ migStep' = to

Mark(from, stage, to) ==
    /\ MigGoTo(from, to)
    /\ stages' = stages \cup {stage}
    /\ UNCHANGED <<persistent, deployment, oldClaim, volume, dumpClaim,
                   loadJob, jobSeen, database, broken, migFaults,
                   loadFailures>>

Bound == \/ volume.claim = "old" /\ oldClaim # "gone"
         \/ volume.claim = "dump" /\ dumpClaim

(***************************************************************************)
(* The pre-upgrade.                                                        *)
(***************************************************************************)
(* Where handleLegacyDatabasePreUpgrade takes up the work.  Without a claim *)
(* there is nothing to migrate, or nothing any more.                        *)
FirstStep ==
    CASE "deleted" \in stages /\ "recreated" \in stages -> "job"
      [] "deleted" \in stages /\ "recreated" \notin stages -> "clearRef"
      [] "deleted" \notin stages /\ oldClaim = "gone" -> "upgrade"
      [] OTHER -> "retain"

isLegacyDatabaseUpgrade == "found" \in stages \/ deployment

StartPreUpgrade ==
    /\ MigGoTo("start",
               IF isLegacyDatabaseUpgrade THEN FirstStep ELSE "upgrade")
    /\ stages' = IF isLegacyDatabaseUpgrade THEN stages \cup {"found"}
                                            ELSE stages
    /\ UNCHANGED <<persistent, deployment, oldClaim, volume, dumpClaim,
                   loadJob, jobSeen, database, broken, migFaults,
                   loadFailures>>

(* If the first stage cannot be recorded, the upgrade is not a legacy one.  *)
FoundNotRecorded ==
    /\ "found" \notin stages /\ deployment
    /\ MigGoTo("start", "upgrade")
    /\ migFaults < MaxMigFaults
    /\ migFaults' = migFaults + 1
    /\ broken' = TRUE
    /\ UNCHANGED <<stages, persistent, deployment, oldClaim, volume,
                   dumpClaim, loadJob, jobSeen, database, loadFailures>>

RetainPersistentVolume ==
    /\ MigGoTo("retain", "dump")
    /\ volume' = [volume EXCEPT !.policy = "Retain", !.labelled = TRUE]
    /\ UNCHANGED <<stages, persistent, deployment, oldClaim, dumpClaim,
                   loadJob, jobSeen, database, broken, migFaults,
                   loadFailures>>

(* Faulty variant: the stage is not looked at.                              *)
DumpDatabase_Again ==
    /\ migStep = "dump"
    /\ migStep' = IF deployment THEN "dumping" ELSE "start"
    /\ volume' = IF deployment THEN [volume EXCEPT !.dump = "partial"]
                               ELSE volume
    /\ UNCHANGED <<stages, persistent, deployment, oldClaim, dumpClaim,
                   loadJob, jobSeen, database, broken, migFaults,
                   loadFailures>>

(* An older dump is removed before a new one is begun.  getMySQLPod panics  *)
(* if there is no pod.                                                      *)
DumpDatabase ==
    /\ migStep = "dump"
    /\ migStep' = CASE "dumped" \in stages -> "deleteDeployment"
                    [] "dumped" \notin stages /\ deployment -> "dumping"
                    [] OTHER -> "start"
    /\ volume' = IF "dumped" \notin stages /\ deployment
                 THEN [volume EXCEPT !.dump = "partial"] ELSE volume
    /\ UNCHANGED <<stages, persistent, deployment, oldClaim, dumpClaim,
                   loadJob, jobSeen, database, broken, migFaults,
                   loadFailures>>

DumpEnds ==
    /\ MigGoTo("dumping", "markDumped")
    /\ volume' = [volume EXCEPT !.dump = "full"]
    /\ UNCHANGED <<stages, persistent, deployment, oldClaim, dumpClaim,
                   loadJob, jobSeen, database, broken, migFaults,
                   loadFailures>>

DeleteDeployment ==
    /\ MigGoTo("deleteDeployment", "deleteClaim")
    /\ deployment' = FALSE
    /\ UNCHANGED <<stages, persistent, oldClaim, volume, dumpClaim, loadJob,
                   jobSeen, database, broken, migFaults, loadFailures>>

DeleteExistingVolumeClaim ==
    /\ MigGoTo("deleteClaim", "markDeleted")
    /\ oldClaim' = IF oldClaim = "bound" THEN "terminating" ELSE oldClaim
    /\ UNCHANGED <<stages, persistent, deployment, volume, dumpClaim, loadJob,
                   jobSeen, database, broken, migFaults, loadFailures>>

(* A bound volume is an error, to wait for its release.  The reference to   *)
(* the old claim is removed first, then the new claim is created; a volume  *)
(* without the reference needs nothing.                                     *)
UpdateExistingVolumeClaims ==
    /\ migStep = "clearRef"
    /\ migStep' = CASE Bound -> "start"
                    [] ~Bound /\ volume.claim = "old" -> "newClaim"
                    [] OTHER -> "markRecreated"
    /\ volume' = IF ~Bound /\ volume.claim = "old"
                 THEN [volume EXCEPT !.claim = "none"] ELSE volume
    /\ UNCHANGED <<stages, persistent, deployment, oldClaim, dumpClaim,
                   loadJob, jobSeen, database, broken, migFaults,
                   loadFailures>>

createPVCFromPV ==
    /\ MigGoTo("newClaim", "markRecreated")
    /\ dumpClaim' = TRUE
    /\ UNCHANGED <<stages, persistent, deployment, oldClaim, volume, loadJob,
                   jobSeen, database, broken, migFaults, loadFailures>>

(* A failed job is deleted, to be created by the next pass.                 *)
createLegacyUpgradeJob ==
    /\ migStep = "job"
    /\ \/ /\ jobSeen = "none" /\ loadJob = "none"
          /\ loadJob' = "created"
          /\ migStep' = "waitPod"
       \/ /\ jobSeen = "none" /\ loadJob # "none"
          /\ migStep' = "start"
          /\ UNCHANGED loadJob
       \/ /\ jobSeen = "failed"
          /\ loadJob' = "none"
          /\ migStep' = "start"
       \/ /\ jobSeen \notin {"none", "failed"}
          /\ migStep' = "waitPod"
          /\ UNCHANGED loadJob
    /\ UNCHANGED <<stages, persistent, deployment, oldClaim, volume,
                   dumpClaim, jobSeen, database, broken, migFaults,
                   loadFailures>>

(* A pod that does not run after a minute is an error.                      *)
waitForJobPodRunning ==
    /\ migStep = "waitPod"
    /\ migStep' = IF loadJob \in {"running", "succeeded"} THEN "upgrade"
                                                          ELSE "start"
    /\ UNCHANGED <<stages, persistent, deployment, oldClaim, volume,
                   dumpClaim, loadJob, jobSeen, database, broken, migFaults,
                   loadFailures>>

(***************************************************************************)
(* The upgrade and the wait for the load.                                  *)
(***************************************************************************)
(* Helm replaces the Deployment if it is still there; the overrides ask     *)
(* once more if there is one.  It takes long enough for the cache.          *)
UpgradeRelease ==
    /\ jobSeen = loadJob
    /\ MigGoTo("upgrade", "ready")
    /\ stages' = IF deployment THEN stages \cup {"found"} ELSE stages
    /\ deployment' = FALSE
    /\ database' = IF database = "legacy" THEN "new" ELSE database
    /\ UNCHANGED <<persistent, oldClaim, volume, dumpClaim, loadJob, jobSeen,
                   broken, migFaults, loadFailures>>

(* Faulty variant: any job will do.                                         *)
checkDbMigrationJobCompletion_Any ==
    /\ MigGoTo("ready", "cleanJob")
    /\ UNCHANGED <<stages, persistent, deployment, oldClaim, volume,
                   dumpClaim, loadJob, jobSeen, database, broken, migFaults,
                   loadFailures>>

(* No job is a job that is done.  A failed one is deleted and created again *)
(* at once, which fails if the cache has not seen the deletion yet.         *)
(* getDbMigrationPod panics if the job has no pod.                          *)
checkDbMigrationJobCompletion ==
    /\ migStep = "ready"
    /\ \/ /\ jobSeen = "none"
          /\ migStep' = "cleanJob"
          /\ UNCHANGED <<loadJob, jobSeen>>
       \/ /\ jobSeen = "failed" /\ loadJob = "failed"
          /\ \/ loadJob' = "none" /\ UNCHANGED jobSeen
             \/ loadJob' = "created" /\ jobSeen' = "none"
          /\ UNCHANGED migStep
       \/ /\ jobSeen \notin {"none", "failed"} /\ loadJob = "succeeded"
          /\ migStep' = "cleanJob"
          /\ UNCHANGED <<loadJob, jobSeen>>
       \/ /\ jobSeen \notin {"none", "failed"} /\ loadJob = "created"
          /\ migStep' = "start"
          /\ jobSeen' = loadJob
          /\ UNCHANGED loadJob
    /\ UNCHANGED <<stages, persistent, deployment, oldClaim, volume,
                   dumpClaim, database, broken, migFaults, loadFailures>>

(***************************************************************************)
(* The post-upgrade.                                                       *)
(***************************************************************************)
cleanupDbMigrationJob ==
    /\ MigGoTo("cleanJob", "cleanSecret")
    /\ loadJob' = IF jobSeen = "none" THEN loadJob ELSE "none"
    /\ UNCHANGED <<stages, persistent, deployment, oldClaim, volume,
                   dumpClaim, jobSeen, database, broken, migFaults,
                   loadFailures>>

deleteDbMigrationSecret ==
    /\ MigGoTo("cleanSecret", "resetPolicy")
    /\ stages' = {}
    /\ UNCHANGED <<persistent, deployment, oldClaim, volume, dumpClaim,
                   loadJob, jobSeen, database, broken, migFaults,
                   loadFailures>>

ResetVolumeReclaimPolicy ==
    /\ MigGoTo("resetPolicy", "cleanUp")
    /\ volume' = IF volume.labelled /\ Bound
                 THEN [volume EXCEPT !.policy = "Delete", !.labelled = FALSE]
                 ELSE volume
    /\ UNCHANGED <<stages, persistent, deployment, oldClaim, dumpClaim,
                   loadJob, jobSeen, database, broken, migFaults,
                   loadFailures>>

(* After all components: the claim is deleted, and with it the volume if    *)
(* that is its policy.                                                      *)
PostUpgradeCleanup ==
    /\ MigGoTo("cleanUp", "done")
    /\ dumpClaim' = FALSE
    /\ volume' = IF volume.claim = "dump" /\ dumpClaim
                    /\ volume.policy = "Delete"
                 THEN [volume EXCEPT !.exists = FALSE] ELSE volume
    /\ UNCHANGED <<stages, persistent, deployment, oldClaim, loadJob, jobSeen,
                   database, broken, migFaults, loadFailures>>

(***************************************************************************)
(* Faults.                                                                 *)
(***************************************************************************)
(* Where it matters that a step is not repeated, or repeated.  The claim is *)
(* deleted but not recorded as such: it looks as if there never was one.    *)
(* The reference is removed but there is no new claim: none is created any  *)
(* more.  The new claim has the volume but is not recorded: its volume      *)
(* looks as if it still had to be released.  The job is deleted but the     *)
(* stages are not: the dump is loaded a second time.                        *)
Unrepaired(to) ==
    \/ /\ migStep \in PreSteps /\ persistent
       /\ oldClaim # "bound" /\ "deleted" \notin stages
    \/ migStep = "newClaim"
    \/ migStep = "markRecreated" /\ dumpClaim
    \/ /\ migStep \in PostSteps /\ to = "start"
       /\ loadJob = "none" /\ "recreated" \in stages

(* A failed call repeats the part of the upgrade it belongs to, a crash of  *)
(* the operator the whole.                                                  *)
Interrupted ==
    /\ migStep # "done"
    /\ migFaults < MaxMigFaults
    /\ migFaults' = migFaults + 1
    /\ \E to \in {"start"} \cup (IF migStep \in PostSteps THEN {"cleanJob"}
                                                          ELSE {}) :
          /\ migStep' = to
          /\ broken' = (broken \/ Unrepaired(to))
    /\ jobSeen' = loadJob
    /\ UNCHANGED <<stages, persistent, deployment, oldClaim, volume,
                   dumpClaim, loadJob, database, loadFailures>>

(***************************************************************************)
(* The cluster.                                                            *)
(***************************************************************************)
(* A claim stays as long as a pod uses it.  Its volume goes with it, if     *)
(* that is the policy.                                                      *)
ClaimGone ==
    /\ oldClaim = "terminating" /\ ~deployment
    /\ oldClaim' = "gone"
    /\ volume' = IF volume.policy = "Delete"
                 THEN [volume EXCEPT !.exists = FALSE] ELSE volume
    /\ UNCHANGED <<migStep, stages, persistent, deployment, dumpClaim,
                   loadJob, jobSeen, database, broken, migFaults,
                   loadFailures>>

ClaimBound ==
    /\ dumpClaim /\ volume.claim = "none"
    /\ volume' = [volume EXCEPT !.claim = "dump"]
    /\ UNCHANGED <<migStep, stages, persistent, deployment, oldClaim,
                   dumpClaim, loadJob, jobSeen, database, broken, migFaults,
                   loadFailures>>

(* The pod starts when it gets the volume, waits for the new database and   *)
(* loads the dump, unless the data is there already.                        *)
JobProceeds ==
    /\ \/ /\ loadJob = "created" /\ loadJob' = "pending"
          /\ UNCHANGED database
       \/ /\ loadJob = "pending" /\ dumpClaim /\ volume.claim = "dump"
          /\ loadJob' = "running"
          /\ UNCHANGED database
       \/ /\ loadJob = "running" /\ database = "new"
          /\ volume.dump = "full"
          /\ loadJob' = "succeeded" /\ database' = "loaded"
    /\ UNCHANGED <<migStep, stages, persistent, deployment, oldClaim, volume,
                   dumpClaim, jobSeen, broken, migFaults, loadFailures>>

LoadFails ==
    /\ loadJob = "running" /\ database # "legacy"
    /\ \/ database = "loaded" /\ UNCHANGED loadFailures
       \/ /\ loadFailures < MaxLoadFailures
          /\ loadFailures' = loadFailures + 1
    /\ loadJob' = "failed"
    /\ UNCHANGED <<migStep, stages, persistent, deployment, oldClaim, volume,
                   dumpClaim, jobSeen, database, broken, migFaults>>

JobCached ==
    /\ jobSeen # loadJob
    /\ jobSeen' = loadJob
    /\ UNCHANGED <<migStep, stages, persistent, deployment, oldClaim, volume,
                   dumpClaim, loadJob, database, broken, migFaults,
                   loadFailures>>

MigrationStep ==
    \/ StartPreUpgrade \/ RetainPersistentVolume \/ DumpDatabase \/ DumpEnds
    \/ Mark("markDumped", "dumped", "deleteDeployment")
    \/ DeleteDeployment \/ DeleteExistingVolumeClaim
    \/ Mark("markDeleted", "deleted", "clearRef")
    \/ UpdateExistingVolumeClaims \/ createPVCFromPV
    \/ Mark("markRecreated", "recreated", "job")
    \/ createLegacyUpgradeJob \/ waitForJobPodRunning
    \/ UpgradeRelease \/ checkDbMigrationJobCompletion
    \/ cleanupDbMigrationJob \/ deleteDbMigrationSecret
    \/ ResetVolumeReclaimPolicy \/ PostUpgradeCleanup

ClusterStep == ClaimGone \/ ClaimBound \/ JobProceeds

MigrationNext ==
    \/ MigrationStep \/ ClusterStep \/ LoadFails \/ JobCached
    \/ FoundNotRecorded \/ Interrupted

(* The operator goes on, and so does the cluster.                           *)
MigrationFairness ==
    /\ WF_migrationVars(MigrationStep)
    /\ WF_migrationVars(ClusterStep)
    /\ WF_migrationVars(LoadFails)
    /\ WF_migrationVars(JobCached)

MigrationSpec ==
    MigrationInit /\ [][MigrationNext]_migrationVars /\ MigrationFairness

(***************************************************************************)
(* Properties.                                                             *)
(***************************************************************************)
(* The volume of the old database is deleted only after its data has been   *)
(* loaded into the new one (legacydb.go:567, mysql.go:569), wherever the    *)
(* upgrade was interrupted.                                                 *)
VolumeKept == persistent /\ ~volume.exists => database = "loaded"

(* The upgrade ends with the data in the new database, wherever it was      *)
(* interrupted (legacydb.go:214), except at the five places where the code  *)
(* cannot tell afterwards what was done.                                    *)
MigrationEnds ==
    <>(\/ migStep = "done" /\ (persistent => database = "loaded")
       \/ broken)
===============================================================================
