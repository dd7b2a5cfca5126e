------------------------- MODULE VzComponents_proofs --------------------------
(***************************************************************************)
(* Proofs about the work of single components: the mysql-operator is       *)
(* restarted for MySQL pods only when it is due, for any timeout; the      *)
(* migration of the database never loses the volume with its data; a realm *)
(* of Keycloak that is enabled is complete; no change of an object that a  *)
(* component watches is forgotten; and the status updater merges each      *)
(* event into the resource as it is.                                       *)
(***************************************************************************)
EXTENDS VzWatch, VzMySQLCheck, VzMigration, VzKeycloak, VzHealth, TLAPS

-------------------------------------------------------------------------------
(* The check of MySQL.                                                      *)
(* A timer that runs is never older than the run of checks that found its   *)
(* trouble: another reason's restart, a failed restart and an InnoDBCluster *)
(* that is gone only reset or keep timers.                                  *)
TimerBehind ==
    \A r \in PodReasons : timer[r] # Off /\ r \notin overtaken =>
        seen[r] # Off /\ timer[r] <= seen[r]

(* What a check has read of its timer is still so, unless it was overtaken. *)
CheckUnderWay ==
    \A r \in PodReasons : r \notin overtaken =>
        /\ at[r] = "again" => timer[r] # Off
        /\ at[r] \in {"restart", "reset"} => /\ seen[r] # Off
                                            /\ seen[r] > RepairTimeout

MySQLTypes ==
    /\ timer \in [Reasons -> Ages]
    /\ seen \in [PodReasons -> Ages]
    /\ at \in [Reasons -> {"idle", "again", "restart", "reset"}]

MySQLInv == MySQLTypes /\ TimerBehind /\ CheckUnderWay

LEMMA OffIsLarge == Off \in Nat /\ Off > RepairTimeout /\ RepairTimeout \in Nat
  BY RepairTimeoutAssumption DEF Off

(* A timer stops at its first value above the timeout, below Off.           *)
LEMMA OlderType ==
    ASSUME NEW t \in Ages
    PROVE  /\ Older(t) \in Ages
           /\ (Older(t) = Off) <=> (t = Off)
           /\ \A u \in Ages : u # Off /\ t # Off /\ t <= u => Older(t) <= Older(u)
           /\ t > RepairTimeout => Older(t) > RepairTimeout
  BY RepairTimeoutAssumption DEF Off, Ages, Older

LEMMA MySQLInvInit == MySQLInit => MySQLInv
<1> SUFFICES ASSUME MySQLInit PROVE MySQLInv
  OBVIOUS
<1>1. Off \in Ages
  BY OffIsLarge DEF Ages
<1>2. MySQLTypes
  BY <1>1 DEF MySQLInit, AllOff, MySQLTypes
<1>3. TimerBehind /\ CheckUnderWay
  BY DEF MySQLInit, AllOff, TimerBehind, CheckUnderWay, PodReasons, Reasons
<1> QED
  BY <1>2, <1>3 DEF MySQLInv

(* A step of one check leaves what the others rely on, but for a reset,     *)
(* which overtakes those that have read their timers.                       *)
LEMMA OthersKeep ==
    ASSUME MySQLInv, NEW r \in Reasons, NEW q \in PodReasons, q # r,
           \/ Found(r) \/ NotFound(r) \/ Unanswered(r) \/ FromTimer(r)
    PROVE  /\ seen'[q] = seen[q] /\ at'[q] = at[q]
           /\ \/ timer'[q] = timer[q] /\ (q \in overtaken => q \in overtaken')
              \/ /\ timer'[q] = Off
                 /\ q \in overtaken \/ at[q] = "again" => q \in overtaken'
<1> USE DEF MySQLInv, MySQLTypes, PodReasons, Reasons
<1>1. CASE Found(r)
  BY <1>1 DEF Found, StartTimer, Ends, GoesOn
<1>2. CASE NotFound(r)
  BY <1>2 DEF NotFound, Absent, Ends
<1>3. CASE Unanswered(r)
  BY <1>3 DEF Unanswered, Ends
<1>4. CASE FromTimer(r)
  BY <1>4 DEF FromTimer, ReadAgain, restartMySQLOperator, ResetTimers, AllOff,
              Ends, GoesOn
<1> QED
  BY <1>1, <1>2, <1>3, <1>4

(* A step of the check of reason r: the timer starts with the run of checks *)
(* or after it, both stop together, and a restart follows a timer that was  *)
(* read expired.                                                            *)
LEMMA CheckKeepsInv ==
    ASSUME MySQLInv, NEW r \in Reasons,
           \/ Found(r) \/ NotFound(r) \/ FromTimer(r)
           \/ r # "stuck" /\ Unanswered(r)
    PROVE  MySQLInv'
<1> USE OffIsLarge DEF MySQLInv
<1>1. 0 \in Ages /\ Off \in Ages /\ 0 # Off /\ RepairTimeout + 1 \in Ages
  BY DEF Ages, Off
<1>2. seen' \in [PodReasons -> Ages]
  BY <1>1 DEF MySQLTypes, Found, NotFound, Absent, Unanswered, FromTimer,
              ReadAgain, restartMySQLOperator, ResetTimers
<1>3. timer' \in [Reasons -> Ages]
  BY <1>1 DEF MySQLTypes, Found, StartTimer, NotFound, Unanswered, FromTimer,
              ReadAgain, restartMySQLOperator, ResetTimers, AllOff
<1>4. at' \in [Reasons -> {"idle", "again", "restart", "reset"}]
  BY DEF MySQLTypes, Found, NotFound, Absent, Unanswered, FromTimer, ReadAgain,
         restartMySQLOperator, ResetTimers, Ends, GoesOn
<1>5. ASSUME NEW q \in PodReasons, q \notin overtaken'
      PROVE  /\ timer'[q] # Off => seen'[q] # Off /\ timer'[q] <= seen'[q]
             /\ at'[q] = "again" => timer'[q] # Off
             /\ at'[q] \in {"restart", "reset"} =>
                    seen'[q] # Off /\ seen'[q] > RepairTimeout
  <2>1. /\ q \in Reasons /\ timer[q] \in Ages /\ seen[q] \in Ages
        /\ timer[q] \in Nat /\ seen[q] \in Nat
    BY DEF MySQLTypes, PodReasons, Reasons, Ages
  <2>2. CASE q # r
    BY <1>5, <2>2, OthersKeep DEF TimerBehind, CheckUnderWay
  <2>3. CASE q = r
    <3>0. DEFINE Now == /\ timer'[q] # Off => seen'[q] # Off /\ timer'[q] <= seen'[q]
                        /\ at'[q] = "again" => timer'[q] # Off
                        /\ at'[q] \in {"restart", "reset"} =>
                               seen'[q] # Off /\ seen'[q] > RepairTimeout
    <3>1. CASE Found(q)
      <4>1. CASE timer[q] = Off
        <5>1. timer'[q] = 0 /\ at'[q] = "idle"
          BY <1>5, <2>1, <3>1, <4>1 DEF Found, StartTimer, Ends, GoesOn, MySQLTypes
        <5>2. seen'[q] \in Nat /\ seen'[q] # Off
          BY <1>1, <2>1, <3>1 DEF Found, MySQLTypes, Ages
        <5> QED
          BY <5>1, <5>2
      <4>2. CASE timer[q] # Off
        <5>1. /\ timer' = timer /\ overtaken' = overtaken
              /\ at'[q] = "again"
          BY <2>1, <3>1, <4>2 DEF Found, GoesOn, MySQLTypes
        <5>2. seen[q] # Off /\ timer[q] <= seen[q]
          BY <1>5, <4>2, <5>1 DEF TimerBehind
        <5>3. seen'[q] = seen[q]
          BY <3>1, <5>2 DEF Found
        <5> QED
          BY <4>2, <5>1, <5>2, <5>3
      <4> QED
        BY <4>1, <4>2
    <3>2. CASE NotFound(q)
      BY <2>1, <3>2 DEF NotFound, Absent, Ends, MySQLTypes
    <3>3. CASE Unanswered(q)
      BY <1>5, <2>1, <3>3 DEF Unanswered, Ends, MySQLTypes, TimerBehind
    <3>4. CASE ReadAgain(q)
      <4>1. q \notin overtaken /\ timer' = timer /\ seen' = seen
        BY <1>5, <3>4 DEF ReadAgain
      <4>2. timer[q] # Off /\ seen[q] # Off /\ timer[q] <= seen[q]
        BY <3>4, <4>1 DEF ReadAgain, CheckUnderWay, TimerBehind
      <4>3. \/ at'[q] = "restart" /\ timer[q] > RepairTimeout
            \/ at'[q] = "idle"
        BY <2>1, <3>4 DEF ReadAgain, GoesOn, Ends, MySQLTypes
      <4> QED
        BY <2>1, <4>1, <4>2, <4>3
    <3>5. CASE restartMySQLOperator(q)
      <4>1. /\ q \notin overtaken /\ timer' = timer /\ seen' = seen
            /\ at[q] = "restart"
            /\ at'[q] = "reset" \/ at'[q] = "idle"
        BY <1>5, <2>1, <3>5 DEF restartMySQLOperator, GoesOn, Ends, MySQLTypes
      <4> QED
        BY <4>1 DEF CheckUnderWay, TimerBehind
    <3>6. CASE ResetTimers(q)
      BY <2>1, <3>6 DEF ResetTimers, AllOff, Ends, MySQLTypes
    <3> QED
      BY <2>3, <3>1, <3>2, <3>3, <3>4, <3>5, <3>6 DEF FromTimer
  <2> QED
    BY <2>2, <2>3
<1> QED
  BY <1>2, <1>3, <1>4, <1>5 DEF MySQLTypes, TimerBehind, CheckUnderWay

LEMMA MySQLInvStep == MySQLInv /\ [MySQLNext]_mysqlVars => MySQLInv'
<1> SUFFICES ASSUME MySQLInv, [MySQLNext]_mysqlVars
             PROVE  MySQLInv'
  OBVIOUS
<1>1. CASE TimePasses
  <2>1. /\ \A r \in Reasons : timer[r] \in Ages
        /\ \A r \in PodReasons : r \in Reasons /\ seen[r] \in Ages
    BY DEF MySQLInv, MySQLTypes, Reasons
  <2>2. MySQLTypes'
    BY <1>1, <2>1, OlderType DEF TimePasses, MySQLInv, MySQLTypes
  <2>3. \A r \in PodReasons : /\ timer'[r] = Older(timer[r])
                              /\ seen'[r] = Older(seen[r])
    BY <1>1, <2>1 DEF TimePasses
  <2>4. TimerBehind'
    BY <1>1, <2>1, <2>3, OlderType DEF TimePasses, MySQLInv, TimerBehind
  <2>5. CheckUnderWay'
    BY <1>1, <2>1, <2>3, OlderType DEF TimePasses, MySQLInv, CheckUnderWay
  <2> QED
    BY <2>2, <2>4, <2>5 DEF MySQLInv
<1>2. CASE RepairMySQLPodStuckDeleting
  BY <1>2, CheckKeepsInv DEF RepairMySQLPodStuckDeleting, Reasons, PodReasons
<1>3. CASE RepairMySQLPodsWaitingReadinessGates
  BY <1>3, CheckKeepsInv DEF RepairMySQLPodsWaitingReadinessGates, Reasons,
                             PodReasons
<1>4. CASE RepairICStuckDeleting
  BY <1>4, CheckKeepsInv DEF RepairICStuckDeleting, Reasons
<1>5. ASSUME UNCHANGED <<timer, seen, at, overtaken>>
      PROVE  MySQLInv'
  BY <1>5 DEF MySQLInv, MySQLTypes, TimerBehind, CheckUnderWay
<1>6. CASE RepairMySQLRouterPods \/ TroubleChanges \/ OperatorPodStarts
  BY <1>5, <1>6 DEF RepairMySQLRouterPods, TroubleChanges, OperatorPodStarts
<1>7. CASE UNCHANGED mysqlVars
  BY <1>5, <1>7 DEF mysqlVars
<1> QED
  BY <1>1, <1>2, <1>3, <1>4, <1>6, <1>7 DEF MySQLNext, CheckerStep

(* The operator of MySQL is restarted for stuck pods, or for pods that wait *)
(* for their gates, only if a check found them more than the timeout ago    *)
(* and none has found them gone since (mysql_workarounds.go:147), with      *)
(* restarts for other reasons, failed restarts and troubles that come and   *)
(* go at any time; but for a timer that the other goroutine resets while    *)
(* the check is between its reads of it, or writes it.                      *)
THEOREM RestartIsDueCorrect == MySQLSpec => []RestartIsDue
<1>1. MySQLInv => RestartIsDue
  BY DEF MySQLInv, RestartIsDue, CheckUnderWay
<1> QED
  BY <1>1, MySQLInvInit, MySQLInvStep, PTL DEF MySQLSpec

-------------------------------------------------------------------------------
(* The migration.  Until the data is loaded, the volume is on its own only  *)
(* under the policy to retain it; which stages are recorded tells how far   *)
(* the claim can have got; and the work after the upgrade, which resets the *)
(* policy, is not reached with a volume that was handed over: a job waits   *)
(* for the load.                                                            *)
Pending == persistent /\ database # "loaded"

Retaining == {"dump", "dumping", "markDumped", "deleteDeployment",
              "deleteClaim"}

(* The volume is where it always was, and stays there.                      *)
Untouched == volume.claim = "old" /\ oldClaim # "terminating"

VolumeInv ==
    /\ volume.exists
    /\ oldClaim # "bound" => volume.policy = "Retain"
    /\ migStep \in Retaining => volume.policy = "Retain"
    /\ volume.claim # "old" => oldClaim = "gone"

StageInv ==
    /\ migStep \in PreSteps \ {"start"} => "found" \in stages
    /\ "found" \notin stages => oldClaim # "terminating"
    /\ ~({"found", "deleted"} \subseteq stages) => volume.claim = "old"
    /\ migStep \in {"clearRef", "newClaim"} => "deleted" \in stages

JobInv ==
    /\ migStep = "upgrade" => Untouched \/ loadJob \in {"running", "succeeded"}
    /\ migStep = "ready" => Untouched \/ {loadJob, jobSeen} \subseteq
                                            {"running", "succeeded"}
    /\ migStep \in PostSteps => Untouched

MigrationInv ==
    /\ loadFailures \in Nat
    /\ persistent \in BOOLEAN
    /\ oldClaim \in {"bound", "terminating", "gone"}
    /\ loadJob = "succeeded" => database = "loaded"
    /\ Pending /\ loadFailures = 0 => VolumeInv /\ StageInv /\ JobInv

LEMMA MigrationInvInit == MigrationInit => MigrationInv
<1> SUFFICES ASSUME MigrationInit PROVE MigrationInv
  OBVIOUS
<1> USE DEF MigrationInit, MigrationInv, Pending, VolumeInv, StageInv, JobInv,
            Untouched, Retaining, PreSteps, PostSteps
<1>1. CASE persistent = TRUE
  BY <1>1
<1>2. CASE persistent = FALSE
  BY <1>2
<1> QED
  BY <1>1, <1>2

(* The steps before the upgrade.                                            *)
LEMMA PreUpgradeKeepsInv ==
    ASSUME MigrationInv,
           \/ StartPreUpgrade \/ FoundNotRecorded \/ RetainPersistentVolume
           \/ DumpDatabase \/ DumpEnds \/ DeleteDeployment
           \/ DeleteExistingVolumeClaim \/ UpdateExistingVolumeClaims
           \/ createPVCFromPV \/ createLegacyUpgradeJob \/ waitForJobPodRunning
           \/ Mark("markDumped", "dumped", "deleteDeployment")
           \/ Mark("markDeleted", "deleted", "clearRef")
           \/ Mark("markRecreated", "recreated", "job")
    PROVE  MigrationInv'
<1> USE DEF MigrationInv, Pending, VolumeInv, StageInv, JobInv, Untouched,
            Retaining, PreSteps, PostSteps, MigGoTo
<1>1. CASE StartPreUpgrade
  BY <1>1 DEF StartPreUpgrade, isLegacyDatabaseUpgrade, FirstStep
<1>2. CASE FoundNotRecorded
  BY <1>2 DEF FoundNotRecorded
<1>3. CASE RetainPersistentVolume
  BY <1>3 DEF RetainPersistentVolume
<1>4. CASE DumpDatabase
  BY <1>4 DEF DumpDatabase
<1>5. CASE DumpEnds
  BY <1>5 DEF DumpEnds
<1>6. CASE DeleteDeployment
  BY <1>6 DEF DeleteDeployment
<1>7. CASE DeleteExistingVolumeClaim
  BY <1>7 DEF DeleteExistingVolumeClaim
<1>8. CASE UpdateExistingVolumeClaims
  BY <1>8 DEF UpdateExistingVolumeClaims, Bound
<1>9. CASE createPVCFromPV
  BY <1>9 DEF createPVCFromPV
<1>10. CASE createLegacyUpgradeJob
  BY <1>10 DEF createLegacyUpgradeJob
<1>11. CASE waitForJobPodRunning
  BY <1>11 DEF waitForJobPodRunning
<1>12. CASE \/ Mark("markDumped", "dumped", "deleteDeployment")
            \/ Mark("markDeleted", "deleted", "clearRef")
            \/ Mark("markRecreated", "recreated", "job")
  BY <1>12 DEF Mark
<1> QED
  BY <1>1, <1>2, <1>3, <1>4, <1>5, <1>6, <1>7, <1>8, <1>9, <1>10, <1>11, <1>12

LEMMA MigrationInvStep ==
    ASSUME MigrationInv, [MigrationNext]_migrationVars
    PROVE  MigrationInv'
<1> USE DEF MigrationInv, Pending, VolumeInv, StageInv, JobInv, Untouched,
            Retaining, PreSteps, PostSteps, MigGoTo
<1>1. CASE UpgradeRelease
  BY <1>1 DEF UpgradeRelease
<1>2. CASE checkDbMigrationJobCompletion
  BY <1>2 DEF checkDbMigrationJobCompletion
<1>3. CASE cleanupDbMigrationJob
  BY <1>3 DEF cleanupDbMigrationJob
<1>4. CASE deleteDbMigrationSecret
  BY <1>4 DEF deleteDbMigrationSecret
<1>5. CASE ResetVolumeReclaimPolicy
  BY <1>5 DEF ResetVolumeReclaimPolicy, Bound
<1>6. CASE PostUpgradeCleanup
  BY <1>6 DEF PostUpgradeCleanup
<1>7. CASE Interrupted
  BY <1>7 DEF Interrupted
<1>8. CASE ClaimGone
  BY <1>8 DEF ClaimGone
<1>9. CASE ClaimBound
  BY <1>9 DEF ClaimBound
<1>10. CASE JobProceeds
  BY <1>10 DEF JobProceeds
<1>11. CASE LoadFails
  BY <1>11 DEF LoadFails
<1>12. CASE JobCached
  BY <1>12 DEF JobCached
<1>13. CASE UNCHANGED migrationVars
  BY <1>13 DEF migrationVars
<1> QED
  BY <1>1, <1>2, <1>3, <1>4, <1>5, <1>6, <1>7, <1>8, <1>9, <1>10, <1>11, <1>12,
     <1>13, PreUpgradeKeepsInv
     DEF MigrationNext, MigrationStep, ClusterStep

(* The volume of the old database outlives the migration of its data        *)
(* (legacydb.go:567, mysql.go:569): any number of failed calls and crashes  *)
(* at any steps, also at those the migration does not recover from, leaves  *)
(* it in place, as long as no load job has failed without a reason.         *)
THEOREM VolumeKeptCorrect == MigrationSpec => [](loadFailures = 0 => VolumeKept)
<1>1. MigrationInv => (loadFailures = 0 => VolumeKept)
  BY DEF MigrationInv, Pending, VolumeInv, VolumeKept
<1> QED
  BY <1>1, MigrationInvInit, MigrationInvStep, PTL DEF MigrationSpec

-------------------------------------------------------------------------------
(* The realm of Keycloak: where a pass is when a command of it runs.        *)

LEMMA Positions ==
  ASSUME kcStep \in 0..13
  PROVE  /\ At("login")       => kcStep = 1  /\ ~settingPw
         /\ At("realm")       => kcStep = 2  /\ ~settingPw
         /\ At("groups")      => kcStep = 3  /\ ~settingPw
         /\ At("roles")       => kcStep = 4  /\ ~settingPw
         /\ At("verrazzano")  => kcStep = 5  /\ ~settingPw
         /\ At("thanos")      => kcStep = 6  /\ ~settingPw
         /\ At("clients")     => kcStep = 7  /\ ~settingPw
         /\ At("rancher")     => kcStep = 8  /\ ~settingPw
         /\ At("authConfig")  => kcStep = 9  /\ ~settingPw
         /\ At("policies")    => kcStep = 10 /\ ~settingPw
         /\ At("enable")      => kcStep = 11 /\ ~settingPw
         /\ At("removeLogin") => kcStep = 12 /\ ~settingPw
         /\ At("clearWatch")  => kcStep = 13 /\ ~settingPw
         /\ kcStep \in {5, 6} => ConfigSteps[kcStep] \in {"verrazzano", "thanos"}
BY DEF At, ConfigSteps

(* What a pass has done so far it finds done, unless the realm is gone; and *)
(* a realm that is gone comes back at the second step only.                 *)
Progress ==
    realm.exists =>
      /\ kcStep > 3  => "groups" \in realm.made
      /\ kcStep > 4  => "roles" \in realm.made
      /\ kcStep > 5 \/ (kcStep = 5 /\ settingPw) => "verrazzano" \in realm.made
      /\ kcStep > 7  => "clients" \in realm.made
      /\ kcStep > 8  => "rancher" \in realm.made
      /\ kcStep > 9  => authConfig = clientSecret
      /\ kcStep > 10 => "policies" \in realm.made

Realms == [exists : BOOLEAN, made : SUBSET (Created \cup {"thanos", "managed"}),
           passwords : SUBSET {"verrazzano", "thanos"}, enabled : BOOLEAN]

KcInv == /\ kcStep \in 0..13 /\ realm \in Realms
         /\ settingPw => kcStep \in {5, 6}
         /\ Progress
         /\ EnabledIsComplete

LEMMA KcInvInit ==
  ASSUME KeycloakInit
  PROVE  KcInv
BY DEF KeycloakInit, KcInv, Realms, Progress, EnabledIsComplete, NoRealm

LEMMA KcInvNext ==
  ASSUME KcInv, [KeycloakNext]_keycloakVars
  PROVE  KcInv'
<1>. USE Positions DEF KcInv, Realms, Progress, EnabledIsComplete, Created
<1>1. CASE BeginConfig
  BY <1>1 DEF BeginConfig
<1>2. CASE LoginKeycloak
  BY <1>2 DEF LoginKeycloak, GiveUp
<1>3. CASE createVerrazzanoSystemRealm
  <2>1. CASE realm.exists
    BY <1>3, <2>1 DEF createVerrazzanoSystemRealm
  <2>2. CASE ~realm.exists
    <3>1. realm' = [exists |-> TRUE, made |-> {}, passwords |-> {},
                    enabled |-> FALSE]
      BY <1>3, <2>2 DEF createVerrazzanoSystemRealm, NoRealm
    <3>2. kcStep = 2 /\ kcStep' = 3 /\ settingPw' = settingPw /\ ~settingPw
      BY <1>3 DEF createVerrazzanoSystemRealm
    <3>. QED
      BY <3>1, <3>2
  <2>. QED
    BY <2>1, <2>2
<1>4. ASSUME NEW i \in {"groups", "roles", "clients", "policies"},
             CreateMissing(i)
      PROVE  KcInv'
  BY <1>4 DEF CreateMissing
<1>5. ASSUME NEW u \in {"verrazzano", "thanos"}, createUser(u)
      PROVE  KcInv'
  BY <1>5 DEF createUser
<1>6. CASE SetPassword
  BY <1>6 DEF SetPassword
<1>7. CASE CreateRancherClient
  BY <1>7 DEF CreateRancherClient
<1>8. CASE updateRancherClientSecretForKeycloakAuthConfig
  BY <1>8 DEF updateRancherClientSecretForKeycloakAuthConfig
<1>9. CASE enableVerrazzanoSystemRealm
  <2>1. /\ kcStep = 11 /\ kcStep' = 12 /\ realm.exists
        /\ settingPw' = settingPw /\ ~settingPw
        /\ authConfig' = authConfig /\ clientSecret' = clientSecret
        /\ realm' = [realm EXCEPT !.enabled = TRUE]
    BY <1>9 DEF enableVerrazzanoSystemRealm
  <2>2. Created \subseteq realm.made /\ authConfig = clientSecret
    BY <2>1
  <2>3. /\ realm'.exists = realm.exists /\ realm'.made = realm.made
        /\ realm' \in Realms
    BY <2>1
  <2>. QED
    BY <2>1, <2>2, <2>3
<1>10. CASE removeLoginConfigFile
  BY <1>10 DEF removeLoginConfigFile
<1>11. CASE EndConfig
  BY <1>11 DEF EndConfig
<1>12. CASE CommandFails
  BY <1>12 DEF CommandFails, GiveUp
<1>13. CASE VmcLogin
  BY <1>13 DEF VmcLogin
<1>14. CASE createManagedClusterKeycloakClient
  BY <1>14 DEF createManagedClusterKeycloakClient
<1>15. CASE ThanosInstalled
  BY <1>15 DEF ThanosInstalled, AddKcWatch
<1>16. CASE KcPodStarts
  BY <1>16 DEF KcPodStarts
<1>17. CASE LoseDatabase
  BY <1>17 DEF LoseDatabase, AddKcWatch, NoRealm
<1>18. CASE ConfigInterrupted
  BY <1>18 DEF ConfigInterrupted, GiveUp
<1>19. CASE KcPodStops
  BY <1>19 DEF KcPodStops
<1>20. CASE createAuthSecret
  BY <1>20 DEF createAuthSecret
<1>21. CASE UNCHANGED keycloakVars
  BY <1>21 DEF keycloakVars
<1>. QED
  BY <1>1, <1>2, <1>3, <1>4, <1>5, <1>6, <1>7, <1>8, <1>9, <1>10, <1>11, <1>12,
     <1>13, <1>14, <1>15, <1>16, <1>17, <1>18, <1>19, <1>20, <1>21
     DEF KeycloakNext, ConfigStep

(* The realm serves nobody before everything in it was created and Rancher  *)
(* knows the secret of its client (keycloak.go:1223, 1468), whatever was    *)
(* lost or interrupted between the steps, and however often.                *)
THEOREM EnabledIsCompleteCorrect == KeycloakSpec => []EnabledIsComplete
<1>1. KcInv => EnabledIsComplete
  BY DEF KcInv
<1>. QED
  BY <1>1, KcInvInit, KcInvNext, PTL DEF KeycloakSpec

-------------------------------------------------------------------------------
(* The watches of the reconciler.                                           *)

(* A component is visited because it is watched, and its watch is cleared   *)
(* only when it has seen the change, another event has yet to be delivered, *)
(* or one was delivered in between.                                         *)
VisitInv ==
    /\ pass.step \in {"reconcile", "clear"} => pass.at \in watched
    /\ pass.step = "clear" => \/ applied[pass.at] = object
                              \/ undelivered
                              \/ pass.at \in raced

(* What has not seen the last change is watched or will be: ChangeIsKept    *)
(* without the component that is being reconciled, as this one is watched.  *)
PendingInv ==
    \A c \in WatchComps :
        \/ applied[c] = object
        \/ undelivered
        \/ c \in watched \cup raced

WatchTypes ==
    /\ DOMAIN applied = WatchComps
    /\ applied = [c \in WatchComps |-> applied[c]]
    /\ watched \subseteq WatchComps
    /\ pass \in [todo : SUBSET WatchComps, at : WatchComps \cup {NoComp},
                 step : {"idle", "loop", "reconcile", "clear"}]

WatchInv == WatchTypes /\ VisitInv /\ PendingInv

LEMMA WatchInvInit == WatchInit => WatchInv
  BY DEF WatchInit, WatchInv, WatchTypes, VisitInv, PendingInv, Idle

(* The rest of the pass is another component's or nothing.                  *)
LEMMA VisitedTypes ==
  ASSUME WatchTypes, NEW c \in WatchComps, Visited(c)
  PROVE  /\ pass' \in [todo : SUBSET WatchComps,
                       at : WatchComps \cup {NoComp},
                       step : {"idle", "loop", "reconcile", "clear"}]
         /\ pass'.step \notin {"reconcile", "clear"}
  BY DEF WatchTypes, Visited, Idle

LEMMA WatchInvNext ==
  ASSUME WatchInv, [WatchNext]_watchVars
  PROVE  WatchInv'
<1>. USE DEF WatchInv, WatchTypes, VisitInv, PendingInv
<1>1. CASE ObjectChanges
  BY <1>1 DEF ObjectChanges
<1>2. CASE DeliverEvent
  <2>1. watched' = WatchComps /\ pass' = pass /\ applied' = applied
    BY <1>2 DEF DeliverEvent
  <2>2. pass.step = "clear" => pass.at \in raced'
    BY <1>2 DEF DeliverEvent
  <2>3. pass.step \in {"reconcile", "clear"} => pass.at \in WatchComps
    OBVIOUS
  <2>. QED
    BY <2>1, <2>2, <2>3
<1>3. CASE BeginPass
  BY <1>3 DEF BeginPass
<1>4. ASSUME NEW c \in WatchComps, VisitComponent(c)
      PROVE  WatchInv'
  <2>1. UNCHANGED <<object, applied, watched, undelivered, raced>>
    BY <1>4 DEF VisitComponent
  <2>2. CASE c \in watched
    <3>1. pass' = [pass EXCEPT !.at = c, !.step = "reconcile"]
      BY <1>4, <2>2 DEF VisitComponent
    <3>. QED
      BY <2>1, <2>2, <3>1
  <2>3. CASE c \notin watched
    <3>1. Visited(c)
      BY <1>4, <2>3 DEF VisitComponent
    <3>. QED
      BY <2>1, <3>1, VisitedTypes
  <2>. QED
    BY <2>2, <2>3
<1>5. CASE ReconcileFails
  BY <1>5 DEF ReconcileFails, Idle
<1>6. CASE ReconcileWatched
  <2>1. pass.step = "reconcile" /\ pass.at \in WatchComps
    BY <1>6 DEF ReconcileWatched
  <2>2. /\ applied' = [applied EXCEPT ![pass.at] = object]
        /\ raced' = raced \ {pass.at}
        /\ pass' = [pass EXCEPT !.step = "clear"]
        /\ UNCHANGED <<object, watched, undelivered>>
    BY <1>6 DEF ReconcileWatched
  <2>. QED
    BY <2>1, <2>2
<1>7. CASE ClearWatch
  <2>1. /\ pass.step = "clear" /\ pass.at \in WatchComps
        /\ watched' = watched \ {pass.at} /\ Visited(pass.at)
        /\ UNCHANGED <<object, applied, undelivered, raced>>
    BY <1>7 DEF ClearWatch
  <2>. QED
    BY <2>1, VisitedTypes
<1>8. CASE UpgradeToggles
  BY <1>8 DEF UpgradeToggles
<1>9. CASE WatchCrash
  BY <1>9 DEF WatchCrash, Idle
<1>10. CASE UNCHANGED watchVars
  BY <1>10 DEF watchVars
<1>. QED
  BY <1>1, <1>2, <1>3, <1>4, <1>5, <1>6, <1>7, <1>8, <1>9, <1>10
     DEF WatchNext, WatchPass

(* A change of a watched object is never forgotten, whatever fails, crashes *)
(* or is upgraded meanwhile: each component has seen it, will be visited    *)
(* for it, or has lost it to the event that was handled between its         *)
(* Reconcile and ClearWatch (install.go:190).                               *)
THEOREM ChangeIsKeptCorrect == WatchSpec => []ChangeIsKept
<1>1. WatchInv => ChangeIsKept
  BY DEF WatchInv, PendingInv, ChangeIsKept
<1>. QED
  BY <1>1, WatchInvInit, WatchInvNext, PTL DEF WatchSpec

-------------------------------------------------------------------------------
(* The health checker and the status updater.                               *)
Counts == {Cardinality(S) : S \in SUBSET HComps}

Statuses == [ready : [HComps -> BOOLEAN], available : [HComps -> Availability],
             count : Counts \cup {99}, rv : Nat]

Events ==
    [kind : {"availability"},
     status : [available : [HComps -> Availability], count : Counts]]
    \cup
    [kind : {"details"}, comp : HComps, ready : BOOLEAN, available : Availability]

(* A copy of the resource carries the version it was read at: it is the     *)
(* resource itself as long as no status was written since.                  *)
CopyOf(s) ==
    /\ s \in Statuses
    /\ s.rv <= health.rv
    /\ s.rv = health.rv => s = health

HealthInv ==
    /\ health \in Statuses
    /\ CopyOf(cached)
    /\ updates \in Seq(Events)
    /\ merging # NoEvent => /\ DOMAIN merging = {"event", "base"}
                            /\ merging.event \in Events
                            /\ CopyOf(merging.base)

(* The availability a tick computes is an event.                            *)
LEMMA NewStatusType ==
    ASSUME NEW s
    PROVE  [kind |-> "availability", status |-> newStatus(s)] \in Events
<1>1. \A c \in HComps : ComponentAvailability(s, c) \in Availability
  BY DEF ComponentAvailability, Availability
<1> DEFINE avail == [c \in HComps |-> ComponentAvailability(s, c)]
<1>2. avail \in [HComps -> Availability]
  BY <1>1
<1>3. Cardinality({c \in HComps : avail[c] = "Available"}) \in Counts
  BY DEF Counts
<1> HIDE DEF avail
<1>4. newStatus(s) = [available |-> avail,
                      count |-> Cardinality({c \in HComps : avail[c] = "Available"})]
  BY DEF newStatus, avail
<1>5. newStatus(s) \in [available : [HComps -> Availability], count : Counts]
  BY <1>2, <1>3, <1>4
<1> QED
  BY <1>5 DEF Events

(* A merge changes what the event is about and nothing else, and keeps the  *)
(* version.                                                                 *)
LEMMA MergeType ==
    ASSUME NEW e \in Events, NEW s \in Statuses
    PROVE  /\ mergeEvent(e, s) \in Statuses
           /\ mergeEvent(e, s).rv = s.rv
           /\ \A c \in HComps : mergeEvent(e, s).ready[c] # s.ready[c]
                                   => e.kind = "details" /\ e.comp = c
           /\ mergeEvent(e, s).count # s.count => e.kind = "availability"
<1>1. CASE e.kind = "availability"
  <2>1. /\ e.status.available \in [HComps -> Availability]
        /\ e.status.count \in Counts
    BY <1>1 DEF Events
  <2> QED
    BY <1>1, <2>1 DEF mergeEvent, Statuses
<1>2. CASE e.kind = "details"
  <2>1. e.comp \in HComps /\ e.ready \in BOOLEAN /\ e.available \in Availability
    BY <1>2 DEF Events
  <2> DEFINE r == [s.ready EXCEPT ![e.comp] = e.ready]
             a == [s.available EXCEPT ![e.comp] = e.available]
  <2>2. r \in [HComps -> BOOLEAN] /\ a \in [HComps -> Availability]
    BY <2>1 DEF Statuses
  <2>3. mergeEvent(e, s) = [s EXCEPT !.ready = r, !.available = a]
    BY <1>2 DEF mergeEvent, Statuses
  <2>4. \A c \in HComps : r[c] # s.ready[c] => c = e.comp
    BY DEF Statuses
  <2> HIDE DEF r, a
  <2> DEFINE m == [s EXCEPT !.ready = r, !.available = a]
  <2>5. /\ m.ready = r /\ m.available = a /\ m.count = s.count /\ m.rv = s.rv
        /\ m \in Statuses
    BY <2>2 DEF Statuses
  <2> QED
    BY <1>2, <2>3, <2>4, <2>5
<1> QED
  BY <1>1, <1>2 DEF Events

LEMMA HealthInvInit == HealthInit => HealthInv
<1> SUFFICES ASSUME HealthInit PROVE HealthInv
  OBVIOUS
<1>1. health \in Statuses
  BY DEF HealthInit, Statuses, Availability
<1> QED
  BY <1>1 DEF HealthInit, HealthInv, CopyOf, Statuses

(* The write is to the version that was read, so to the same status.        *)
LEMMA WriteIsMerge ==
    ASSUME HealthInv, WriteStatus, health' # health
    PROVE  /\ merging # NoEvent /\ merging' = NoEvent
           /\ merging.event \in Events
           /\ health' = [mergeEvent(merging.event, health) EXCEPT !.rv = health.rv + 1]
  BY DEF HealthInv, CopyOf, WriteStatus

LEMMA HealthInvStep == HealthInv /\ [HealthNext]_healthVars => HealthInv'
<1> SUFFICES ASSUME HealthInv, [HealthNext]_healthVars
             PROVE  HealthInv'
  OBVIOUS
<1>1. ASSUME UNCHANGED <<health, cached, merging>>, updates' \in Seq(Events)
      PROVE  HealthInv'
  BY <1>1 DEF HealthInv, CopyOf
<1>2. CASE HealthTick
  <2>1. updates' \in Seq(Events)
    BY <1>2, NewStatusType DEF HealthTick, HealthInv
  <2> QED
    BY <1>1, <1>2, <2>1 DEF HealthTick
<1>3. ASSUME NEW c \in HComps, ReconcilerUpdates(c)
      PROVE  HealthInv'
  <2>1. cached.ready \in [HComps -> BOOLEAN] /\ cached.available[c] \in Availability
    BY DEF HealthInv, CopyOf, Statuses
  <2> DEFINE e == [kind |-> "details", comp |-> c, ready |-> ~cached.ready[c],
                   available |-> cached.available[c]]
  <2>2. e \in Events
    BY <2>1 DEF Events
  <2>3. updates' = Append(updates, e)
    BY <1>3 DEF ReconcilerUpdates
  <2> HIDE DEF e
  <2>4. updates' \in Seq(Events)
    BY <2>2, <2>3 DEF HealthInv
  <2> QED
    BY <1>1, <1>3, <2>4 DEF ReconcilerUpdates
<1>4. CASE ReceiveEvent
  <2>1. Head(updates) \in Events /\ Tail(updates) \in Seq(Events)
    BY <1>4 DEF ReceiveEvent, HealthInv
  <2> QED
    BY <1>4, <2>1 DEF ReceiveEvent, HealthInv, CopyOf
<1>5. CASE WriteStatus
  <2>1. CASE health' = health /\ merging' = NoEvent
    BY <1>5, <2>1 DEF WriteStatus, HealthInv, CopyOf
  <2>2. CASE health' # health
    <3> DEFINE m == mergeEvent(merging.event, health)
    <3>1. health' = [m EXCEPT !.rv = health.rv + 1] /\ merging' = NoEvent
      BY <1>5, <2>2, WriteIsMerge
    <3>2. m \in Statuses
      BY <1>5, <2>2, WriteIsMerge, MergeType DEF HealthInv
    <3> HIDE DEF m
    <3>3. health' \in Statuses /\ health'.rv = health.rv + 1 /\ health.rv \in Nat
      <4>1. health.rv \in Nat
        BY DEF HealthInv, Statuses
      <4>2. [m EXCEPT !.rv = health.rv + 1] \in Statuses
        BY <3>2, <4>1 DEF Statuses
      <4>3. [m EXCEPT !.rv = health.rv + 1].rv = health.rv + 1
        BY <3>2 DEF Statuses
      <4> QED
        BY <3>1, <4>1, <4>2, <4>3
    <3>4. cached' = cached /\ updates' = updates
      BY <1>5 DEF WriteStatus
    <3>5. CopyOf(cached)'
      BY <3>3, <3>4 DEF HealthInv, CopyOf, Statuses
    <3> QED
      BY <3>1, <3>3, <3>4, <3>5 DEF HealthInv
  <2>3. CASE merging' = [merging EXCEPT !.base = cached] /\ UNCHANGED health
    BY <1>5, <2>3 DEF WriteStatus, HealthInv, CopyOf
  <2> QED
    BY <1>5, <2>1, <2>2, <2>3 DEF WriteStatus
<1>6. CASE UpdateFails
  BY <1>6 DEF UpdateFails, HealthInv, CopyOf
<1>7. CASE CacheCatchesUp
  BY <1>7 DEF CacheCatchesUp, HealthInv, CopyOf, Statuses
<1>8. ASSUME NEW c \in HComps, WorkloadChanges(c)
      PROVE  HealthInv'
  BY <1>1, <1>8 DEF WorkloadChanges, HealthInv
<1>9. CASE UNCHANGED healthVars
  BY <1>1, <1>9 DEF healthVars, HealthInv
<1> QED
  BY <1>2, <1>3, <1>4, <1>5, <1>6, <1>7, <1>8, <1>9 DEF HealthNext

(* Whatever the cache lags behind and however the health checker and the    *)
(* reconciler send their events, the write of one leaves alone the states   *)
(* and the count that are not its own (status_updater.go:85).               *)
THEOREM NoEventUndoneCorrect == HealthSpec => NoEventUndone
<1> DEFINE OwnOnly ==
             /\ \A c \in HComps :
                   health.ready[c] # health'.ready[c] =>
                      merging.event.kind = "details" /\ merging.event.comp = c
             /\ health'.count # health.count => merging.event.kind = "availability"
<1>1. ASSUME HealthInv, [HealthNext]_healthVars, health' # health
      PROVE  OwnOnly
  <2>1. WriteStatus
    BY <1>1 DEF HealthNext, healthVars, HealthTick, ReconcilerUpdates, ReceiveEvent,
                UpdateFails, CacheCatchesUp, WorkloadChanges
  <2> DEFINE m == mergeEvent(merging.event, health)
  <2>2. /\ health' = [m EXCEPT !.rv = health.rv + 1]
        /\ merging.event \in Events /\ health \in Statuses
    BY <1>1, <2>1, WriteIsMerge DEF HealthInv
  <2>3. /\ m \in Statuses
        /\ \A c \in HComps : m.ready[c] # health.ready[c] =>
              merging.event.kind = "details" /\ merging.event.comp = c
        /\ m.count # health.count => merging.event.kind = "availability"
    BY <2>2, MergeType
  <2> HIDE DEF m
  <2>4. health'.ready = m.ready /\ health'.count = m.count
    BY <2>2, <2>3 DEF Statuses
  <2> QED
    BY <2>3, <2>4
<1>2. HealthInv /\ [HealthNext]_healthVars => [health' # health => OwnOnly]_health
  BY <1>1
<1> QED
  BY <1>2, HealthInvInit, HealthInvStep, PTL DEF HealthSpec, NoEventUndone
===============================================================================
