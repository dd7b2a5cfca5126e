----------------------------- MODULE VzMySQLCheck -----------------------------
(***************************************************************************)
(* The MySQL checker: a ticker goroutine of the platform operator that     *)
(* restarts the mysql-operator when MySQL pods have been terminating, or   *)
(* waiting for their readiness gates, for longer than a timeout, and       *)
(* deletes router pods in CrashLoopBackOff.  The post-uninstall of MySQL,  *)
(* in a goroutine of the reconciler, does the same for an InnoDBCluster    *)
(* that is not deleted.  The timers are package variables without a lock;  *)
(* a restart of the operator resets all three.                             *)
(*                                                                         *)
(* A timer is its age, saturating just above the timeout.                  *)
(***************************************************************************)
EXTENDS Naturals

CONSTANT RepairTimeout

ASSUME RepairTimeoutAssumption == RepairTimeout \in Nat

VARIABLES timer,        \* per reason: the age of the timer, Off if not set
          trouble,      \* the reasons that a check would find
          seen,         \* per pod reason: the age of the first of the checks
                        \* that found it, none since having found it gone
          at,           \* per reason: how far its check is
          turn,         \* the check that the checker's goroutine is in
          overtaken,    \* the reasons whose timer another goroutine's reset
                        \* met halfway
          operatorPod   \* the mysql-operator pod: "running" or "gone"

mysqlVars == <<timer, trouble, seen, at, turn, overtaken, operatorPod>>

PodReasons == {"stuck", "gates"}

Reasons == PodReasons \cup {"cluster"}

Off == RepairTimeout + 2

Ages == 0..Off

MySQLTypeOK ==
    /\ timer \in [Reasons -> Ages]
    /\ trouble \subseteq Reasons
    /\ seen \in [PodReasons -> Ages]
    /\ at \in [Reasons -> {"idle", "again", "restart", "reset"}]
    /\ turn \in PodReasons \cup {"router"}
    /\ overtaken \subseteq Reasons
    /\ operatorPod \in {"running", "gone"}

AllOff == [r \in Reasons |-> Off]

MySQLInit ==
    /\ timer = AllOff
    /\ trouble = {}
    /\ seen = [r \in PodReasons |-> Off]
    /\ at = [r \in Reasons |-> "idle"]
    /\ turn = "stuck"
    /\ overtaken = {}
    /\ operatorPod = "running"

Older(t) == IF t = Off \/ t > RepairTimeout THEN t ELSE t + 1

TimePasses ==
    /\ timer' = [r \in Reasons |-> Older(timer[r])]
    /\ seen' = [r \in PodReasons |-> Older(seen[r])]
    /\ UNCHANGED <<trouble, at, turn, overtaken, operatorPod>>

(* A check that ends hands the checker's goroutine on to the next one.  The *)
(* check of the InnoDBCluster is made by the reconciler.                    *)
Ends(r) ==
    /\ at' = [at EXCEPT ![r] = "idle"]
    /\ turn' = CASE r = "stuck" -> "gates"
                 [] r = "gates" -> "router"
                 [] OTHER       -> turn

GoesOn(r, step) == at' = [at EXCEPT ![r] = step] /\ UNCHANGED turn

(* Two goroutines that write the three words of a time at once can leave a  *)
(* mixture of now and the zero time, which is long past.                    *)
StartTimer(r) ==
    \/ /\ timer' = [timer EXCEPT ![r] = 0]
       /\ overtaken' = overtaken \ {r}
    \/ /\ \E q \in Reasons \ {r} : at[q] = "reset"
       /\ timer' = [timer EXCEPT ![r] = RepairTimeout + 1]
       /\ overtaken' = overtaken \cup {r}

(* A check that finds the trouble starts the timer if it reads the zero     *)
(* time; otherwise it goes on to compare the timer with the clock.          *)
Found(r) ==
    /\ at[r] = "idle" /\ r \in trouble
    /\ seen' = [q \in PodReasons |-> IF q = r /\ seen[q] = Off THEN 0
                                     ELSE seen[q]]
    /\ \/ timer[r] = Off /\ StartTimer(r) /\ Ends(r)
       \/ timer[r] # Off /\ GoesOn(r, "again") /\ UNCHANGED <<timer, overtaken>>
    /\ UNCHANGED operatorPod

Absent(r) ==
    /\ at[r] = "idle" /\ r \notin trouble
    /\ seen' = [q \in PodReasons |-> IF q = r THEN Off ELSE seen[q]]
    /\ Ends(r)
    /\ UNCHANGED operatorPod

(* Faulty variant: a check that finds nothing leaves the timer running.     *)
NotFound_Running(r) == Absent(r) /\ UNCHANGED <<timer, overtaken>>

(* Faulty variant: a check that finds nothing clears every timer.           *)
NotFound_All(r) == Absent(r) /\ timer' = AllOff /\ overtaken' = {}

(* A check that finds no trouble clears the timer.  A list of the pods that *)
(* fails is taken for an empty one.                                         *)
NotFound(r) ==
    /\ Absent(r)
    /\ timer' = [timer EXCEPT ![r] = Off]
    /\ overtaken' = overtaken \ {r}

(* A check that returns before it has looked at the timer: a pod without    *)
(* status conditions, an InnoDBCluster that cannot be read or is gone.      *)
Unanswered(r) ==
    /\ at[r] = "idle" /\ r \notin trouble
    /\ Ends(r)
    /\ UNCHANGED <<timer, seen, overtaken, operatorPod>>

(* The second read of the timer.  A timer reset since the first read is the *)
(* zero time, long past.                                                    *)
ReadAgain(r) ==
    /\ at[r] = "again"
    /\ IF timer[r] > RepairTimeout THEN GoesOn(r, "restart") ELSE Ends(r)
    /\ UNCHANGED <<timer, seen, overtaken, operatorPod>>

(* restartMySQLOperator deletes the pod, and fails without exactly one pod  *)
(* that it can delete; only after the deletion it resets every timer.       *)
restartMySQLOperator(r) ==
    /\ at[r] = "restart"
    /\ \/ /\ operatorPod = "running"
          /\ operatorPod' = "gone"
          /\ GoesOn(r, "reset")
       \/ /\ operatorPod = "gone"
          /\ Ends(r)
          /\ UNCHANGED operatorPod
    /\ UNCHANGED <<timer, seen, overtaken>>

ResetTimers(r) ==
    /\ at[r] = "reset"
    /\ timer' = AllOff
    /\ overtaken' = (overtaken \cup {q \in Reasons : at[q] = "again"}) \ {r}
    /\ Ends(r)
    /\ UNCHANGED <<seen, operatorPod>>

FromTimer(r) == ReadAgain(r) \/ restartMySQLOperator(r) \/ ResetTimers(r)

RepairMySQLPodStuckDeleting ==
    /\ turn = "stuck"
    /\ Found("stuck") \/ NotFound("stuck") \/ FromTimer("stuck")
    /\ UNCHANGED trouble

RepairMySQLPodsWaitingReadinessGates ==
    /\ turn = "gates"
    /\ \/ Found("gates") \/ NotFound("gates") \/ Unanswered("gates")
       \/ FromTimer("gates")
    /\ UNCHANGED trouble

(* RepairMySQLRouterPodsCrashLoopBackoff deletes the router pods that       *)
(* crash, on which the rest does not depend; the next tick begins with the  *)
(* pods that terminate.                                                     *)
RepairMySQLRouterPods ==
    /\ turn = "router"
    /\ turn' = "stuck"
    /\ UNCHANGED <<timer, trouble, seen, at, overtaken, operatorPod>>

(* The goroutine of the checker: its three checks in turn, at every tick.   *)
CheckerStep ==
    \/ RepairMySQLPodStuckDeleting
    \/ RepairMySQLPodsWaitingReadinessGates
    \/ RepairMySQLRouterPods

(* RepairICStuckDeleting, called by each attempt to post-uninstall MySQL.   *)
(* It clears the timer for an InnoDBCluster that is not being deleted, but  *)
(* not for one that is gone.                                                *)
RepairICStuckDeleting ==
    /\ \/ Found("cluster") \/ NotFound("cluster") \/ Unanswered("cluster")
       \/ FromTimer("cluster")
    /\ UNCHANGED trouble

(* The cluster.                                                             *)
TroubleChanges ==
    /\ \E r \in Reasons : trouble' = (trouble \ {r}) \cup ({r} \ trouble)
    /\ UNCHANGED <<timer, seen, at, turn, overtaken, operatorPod>>

OperatorPodStarts ==
    /\ operatorPod' = "running"
    /\ UNCHANGED <<timer, trouble, seen, at, turn, overtaken>>

MySQLNext ==
    \/ TimePasses
    \/ CheckerStep
    \/ RepairICStuckDeleting
    \/ TroubleChanges \/ OperatorPodStarts

MySQLFairness ==
    /\ WF_mysqlVars(TimePasses)
    /\ WF_mysqlVars(CheckerStep)
    /\ WF_mysqlVars(RepairICStuckDeleting)
    /\ WF_mysqlVars(OperatorPodStarts)

MySQLSpec == MySQLInit /\ [][MySQLNext]_mysqlVars /\ MySQLFairness

(***************************************************************************)
(* Properties.                                                             *)
(***************************************************************************)
(* The operator was restarted, and the timers are not reset yet.            *)
Restarted == \E r \in Reasons : at[r] = "reset"

(* The operator is restarted for the pods only if a check found the trouble *)
(* more than the timeout ago and none has found it gone since               *)
(* (mysql_workarounds.go:147), whatever the other goroutine, restarts for   *)
(* other reasons and failed calls have done to the shared timers; except    *)
(* where the other goroutine resets the timer between its two reads, or     *)
(* while it is written (mysql_workarounds.go:310).                          *)
RestartIsDue ==
    \A r \in PodReasons : at[r] = "reset" =>
        (seen[r] # Off /\ seen[r] > RepairTimeout) \/ r \in overtaken

(* A trouble that every check finds is answered by restarts: no reason starves although *)
(* each restart resets the timers of all.                                   *)
TroubleIsAnswered ==
    \A r \in Reasons : <>[](r \in trouble) => []<>Restarted
===============================================================================
