------------------------------ MODULE VzWorkload ------------------------------
(***************************************************************************)
(* The restart of applications after an upgrade of the platform.  The      *)
(* platform operator stops WebLogic domains whose Envoy is too old before  *)
(* it upgrades Istio, and afterwards annotates workloads and applications  *)
(* with start actions and a restart version.  The application operator's   *)
(* controllers translate the annotations into the resource each workload   *)
(* embeds, and other operators (WebLogic, Coherence, the Deployment        *)
(* controller) bring the pods in line with that resource.                  *)
(*                                                                         *)
(* One application in a namespace with Istio injection has at most one     *)
(* workload of each kind.  A pod has the Envoy of the Istio that ran when  *)
(* it was started; Coherence pods have none.  The first container of each  *)
(* pod is the application's own, which makes every pod a match of the      *)
(* matchers WKOPodMatcher and AppPodMatcher in such a namespace.           *)
(***************************************************************************)
EXTENDS Naturals

CONSTANTS MaxAppEdits,   \* edits by the users
          MaxAppFaults   \* conflicts, API errors and crashes that end a pass

VARIABLES app,           \* the kinds of workload; if the old Envoy is too old
          appRestart,    \* the restart annotation of the application
          workload,      \* the Verrazzano workloads with their status
          embedded,      \* the resource each workload embeds, as written
          pods,          \* the pods of each workload
          work,          \* the pass of each workload's controller
          platform,      \* the upgrade: its step, the Istio and the operator
          lost,          \* a restart was asked for, and never will be done
          appEdits,
          appFaults

workloadVars == <<app, appRestart, workload, embedded, pods, work, platform,
                  lost, appEdits, appFaults>>

Kinds == {"weblogic", "coherence", "helidon"}

Restarts == {"none", "user", "upgrade"}   \* restart versions

Actions == {"none", "stop", "start"}      \* lifecycle actions

UpgradeSteps == {"pre", "istio", "operator", "start", "domains",
                 "apps", "done"}

NoResource == [exists |-> FALSE, tmpl |-> 0, fluentd |-> 0, restart |-> "none",
               stopped |-> FALSE]

NoPods == [up |-> FALSE, of |-> NoResource, envoy |-> 0]

IdlePass == [pc |-> "idle"]

WorkloadTypeOK ==
    /\ app \in [kinds : SUBSET Kinds, tooOld : BOOLEAN]
    /\ appRestart \in Restarts
    /\ workload \in [Kinds -> [gen : 1..(MaxAppEdits + 1), restart : Restarts,
                               action : Actions,
                               lastGen : 0..(MaxAppEdits + 1),
                               lastRestart : Restarts, lastAction : Actions,
                               read : BOOLEAN]]
    /\ \A k \in Kinds :
          /\ embedded[k].tmpl \in 0..(MaxAppEdits + 1)
          /\ embedded[k].fluentd \in 0..2
          /\ pods[k].envoy \in 0..2
          /\ work[k].pc \in {"idle", "write", "status"}
    /\ platform \in [step : UpgradeSteps, istio : 1..2, operator : 1..2]
    /\ lost \in BOOLEAN

WorkloadInit ==
    /\ app \in {[kinds |-> {"coherence"}, tooOld |-> FALSE],
               [kinds |-> {"weblogic"}, tooOld |-> TRUE],
               [kinds |-> {"weblogic", "helidon"}, tooOld |-> FALSE]}
    /\ appRestart = "none"
    /\ workload = [k \in Kinds |->
          [gen |-> 1, restart |-> "none", action |-> "none", lastGen |-> 0,
           lastRestart |-> "none", lastAction |-> "none", read |-> FALSE]]
    /\ embedded = [k \in Kinds |-> NoResource]
    /\ pods = [k \in Kinds |-> NoPods]
    /\ work = [k \in Kinds |-> IdlePass]
    /\ platform = [step |-> "pre", istio |-> 1, operator |-> 1]
    /\ lost = FALSE
    /\ appEdits = 0
    /\ appFaults = 0

(***************************************************************************)
(* The workload controllers.                                               *)
(***************************************************************************)
(* A write of the workload: the copy of a pass is no longer the version     *)
(* that is read.                                                            *)
Written(k, wl) ==
    [workload EXCEPT ![k] = IF wl = workload[k] THEN wl
                            ELSE [wl EXCEPT !.read = FALSE]]

(* The first pass only records the generation.                              *)
EnsureLastGeneration(k) ==
    /\ k \in app.kinds \ {"helidon"}
    /\ workload[k].lastGen = 0
    /\ workload' = [workload EXCEPT ![k].lastGen = workload[k].gen]
    /\ UNCHANGED <<app, appRestart, embedded, pods, work, platform, lost,
                   appEdits, appFaults>>

isOkToRestart(k, wl) ==
    \/ wl.restart # wl.lastRestart
    \/ k = "weblogic" /\ wl.action # wl.lastAction
    \/ wl.lastGen # wl.gen

(* A pass reads the workload; one that finds nothing to restart ends.       *)
ReadWorkload(k) ==
    /\ k \in app.kinds \ {"helidon"}
    /\ work[k] = IdlePass
    /\ workload[k].lastGen # 0
    /\ ~embedded[k].exists \/ isOkToRestart(k, workload[k])
    /\ work' = [work EXCEPT ![k] = [pc |-> "write", copy |-> workload[k]]]
    /\ workload' = [workload EXCEPT ![k].read = TRUE]
    /\ UNCHANGED <<app, appRestart, embedded, pods, platform, lost, appEdits,
                   appFaults>>

(* setDomainLifecycleFields over the specification of the template: a new   *)
(* action takes precedence over a new restart version, and a domain whose   *)
(* stop was handled before is started by whatever else changes.             *)
Domain(wl, old) ==
    LET newAction == old.exists /\ wl.action # wl.lastAction
                                /\ wl.action # "none"
    IN [exists |-> TRUE, tmpl |-> wl.gen, fluentd |-> platform.operator,
        restart |-> IF old.exists /\ ~newAction /\ wl.restart # wl.lastRestart
                    THEN wl.restart ELSE "none",
        stopped |-> newAction /\ wl.action = "stop"]

CoherenceSpec(wl) ==
    [exists |-> TRUE, tmpl |-> wl.gen, fluentd |-> platform.operator,
     restart |-> wl.restart, stopped |-> FALSE]

WriteResource(k) ==
    /\ work[k].pc = "write"
    /\ embedded' = [embedded EXCEPT ![k] =
          IF k = "weblogic" THEN Domain(work[k].copy, embedded[k])
                            ELSE CoherenceSpec(work[k].copy)]
    /\ work' = [work EXCEPT ![k].pc = "status"]
    /\ UNCHANGED <<app, appRestart, workload, pods, platform, lost,
                   appEdits, appFaults>>

(* Helidon has no gate and no such status: every pass applies the template  *)
(* and sets the restart version, if there is one.                           *)
ReconcileHelidon ==
    LET wl == workload["helidon"]
        deployment ==
            [exists |-> TRUE, tmpl |-> wl.gen, fluentd |-> 0,
             restart |-> IF wl.restart = "none" THEN embedded["helidon"].restart
                                                ELSE wl.restart,
             stopped |-> FALSE]
    IN /\ "helidon" \in app.kinds
       /\ embedded["helidon"] # deployment
       /\ embedded' = [embedded EXCEPT !["helidon"] = deployment]
       /\ UNCHANGED <<app, appRestart, workload, pods, work, platform,
                      lost, appEdits, appFaults>>

(* What updateStatusReconcileDone records: Coherence never its restart.     *)
ReconcileDone(k, wl) ==
    IF k = "weblogic"
    THEN [wl EXCEPT !.lastGen = wl.gen, !.lastRestart = wl.restart,
                    !.lastAction = wl.action]
    ELSE [wl EXCEPT !.lastGen = wl.gen]

(* ... unless the workload has changed since it was read: a conflict, after *)
(* which the pass is repeated.  But a workload that has its recorded action *)
(* and restart version back by then gives it nothing to do, although the    *)
(* resource was written with others: what is asked for is not in it.        *)
updateStatusReconcileDone(k) ==
    /\ work[k].pc = "status"
    /\ work' = [work EXCEPT ![k] = IdlePass]
    /\ workload' = IF workload[k].read
                   THEN [workload EXCEPT
                           ![k] = [ReconcileDone(k, @) EXCEPT !.read = FALSE]]
                   ELSE workload
    /\ lost' = \/ lost
               \/ ~workload[k].read /\ ~isOkToRestart(k, workload[k])
    /\ UNCHANGED <<app, appRestart, embedded, pods, platform, appEdits,
                   appFaults>>

(* An error or a crash of the application operator ends a pass that has     *)
(* written the resource; before that it changes nothing.                    *)
PassEnds(k) ==
    /\ work[k].pc = "status"
    /\ appFaults < MaxAppFaults
    /\ appFaults' = appFaults + 1
    /\ work' = [work EXCEPT ![k] = IdlePass]
    /\ UNCHANGED <<app, appRestart, workload, embedded, pods, platform,
                   lost, appEdits>>

(* The application's controller copies its restart version to a workload,   *)
(* at every pass and whatever the workload has: a restart that was asked of *)
(* the workload alone, and is not begun, is gone if the version of the      *)
(* application is the one of before.                                        *)
restartComponent(k) ==
    /\ k \in app.kinds
    /\ appRestart # "none"
    /\ workload[k].restart # appRestart
    /\ workload' = Written(k, [workload[k] EXCEPT !.restart = appRestart])
    /\ lost' = \/ lost
               \/ isOkToRestart(k, workload[k]) /\ ~isOkToRestart(k, workload'[k])
    /\ UNCHANGED <<app, appRestart, embedded, pods, work, platform, appEdits,
                   appFaults>>

(* The operators of the resources: pods stop, or are started again when     *)
(* what they were started from has changed.                                 *)
PodsFollow(k) ==
    /\ embedded[k].exists
    /\ pods' = [pods EXCEPT ![k] =
          IF embedded[k].stopped THEN NoPods
          ELSE [up |-> TRUE, of |-> embedded[k],
                envoy |-> IF k = "coherence" THEN 0 ELSE platform.istio]]
    /\ pods[k].of # pods'[k].of
    /\ UNCHANGED <<app, appRestart, workload, embedded, work, platform,
                   lost, appEdits, appFaults>>

(***************************************************************************)
(* The upgrade of the platform.                                            *)
(***************************************************************************)
Step(from, to) ==
    /\ platform.step = from
    /\ platform' = [platform EXCEPT !.step = to]

(* The pre-upgrade of Istio: it does not wait for the domain to stop.       *)
StopDomainsUsingOldEnvoy ==
    /\ Step("pre", "istio")
    /\ workload' =
          IF app.tooOld /\ pods["weblogic"].up /\ pods["weblogic"].envoy = 1
          THEN Written("weblogic",
                       [workload["weblogic"] EXCEPT !.action = "stop"])
          ELSE workload
    /\ UNCHANGED <<app, appRestart, embedded, pods, work, lost, appEdits,
                   appFaults>>

UpgradeIstio ==
    /\ platform.step = "istio"
    /\ platform' = [platform EXCEPT !.step = "operator", !.istio = 2]
    /\ UNCHANGED <<app, appRestart, workload, embedded, pods, work, lost,
                   appEdits, appFaults>>

(* The new application operator comes with a new Fluentd image.             *)
UpgradeAppOperator ==
    /\ platform.step = "operator"
    /\ platform' = [platform EXCEPT !.step = "start", !.operator = 2]
    /\ UNCHANGED <<app, appRestart, workload, embedded, pods, work, lost,
                   appEdits, appFaults>>

(* Faulty variant: only the restart version is set.                         *)
startDomainsStoppedByUpgrade_Restart ==
    /\ Step("start", "domains")
    /\ workload' =
          IF /\ "weblogic" \in app.kinds
             /\ \/ workload["weblogic"].restart # "none"
                \/ workload["weblogic"].action # "none"
          THEN Written("weblogic",
                       [workload["weblogic"] EXCEPT !.restart = "upgrade"])
          ELSE workload
    /\ UNCHANGED <<app, appRestart, embedded, pods, work, lost, appEdits,
                   appFaults>>

(* RestartApps, in three steps.  A workload that has no annotations at all  *)
(* is left alone by the first.                                              *)
startDomainsStoppedByUpgrade ==
    /\ Step("start", "domains")
    /\ workload' =
          IF /\ "weblogic" \in app.kinds
             /\ \/ workload["weblogic"].restart # "none"
                \/ workload["weblogic"].action # "none"
          THEN Written("weblogic",
                 [workload["weblogic"] EXCEPT
                    !.restart = "upgrade",
                    !.action = IF @ = "stop" THEN "start" ELSE @])
          ELSE workload
    /\ UNCHANGED <<app, appRestart, embedded, pods, work, lost, appEdits,
                   appFaults>>

RestartDomainsIfOutdatedSidecars ==
    /\ Step("domains", "apps")
    /\ workload' = IF pods["weblogic"].up
                   THEN Written("weblogic",
                          [workload["weblogic"] EXCEPT !.restart = "upgrade"])
                   ELSE workload
    /\ UNCHANGED <<app, appRestart, embedded, pods, work, lost, appEdits,
                   appFaults>>

restartAllApps ==
    /\ Step("apps", "done")
    /\ appRestart' = IF \E k \in app.kinds \ {"weblogic"} : pods[k].up
                     THEN "upgrade" ELSE appRestart
    /\ UNCHANGED <<app, workload, embedded, pods, work, lost, appEdits,
                   appFaults>>

(* An error or a crash before the end of RestartApps: all of it again.      *)
RestartAppsFails ==
    /\ platform.step \in {"domains", "apps"}
    /\ appFaults < MaxAppFaults
    /\ appFaults' = appFaults + 1
    /\ platform' = [platform EXCEPT !.step = "start"]
    /\ UNCHANGED <<app, appRestart, workload, embedded, pods, work, lost,
                   appEdits>>

(***************************************************************************)
(* The users: a new template, a lifecycle action, a restart version.       *)
(***************************************************************************)
EditApp ==
    /\ appEdits < MaxAppEdits
    /\ appEdits' = appEdits + 1
    /\ \/ /\ appRestart' = "user"
          /\ UNCHANGED workload
       \/ \E k \in app.kinds :
             /\ \/ workload' = Written(k, [workload[k] EXCEPT !.gen = @ + 1])
                \/ /\ k = "weblogic"
                   /\ \E a \in {"stop", "start"} \ {workload[k].action} :
                         workload' = Written(k, [workload[k] EXCEPT !.action = a])
             /\ UNCHANGED appRestart
    /\ UNCHANGED <<app, embedded, pods, work, platform, lost, appFaults>>

UpgradeStep ==
    \/ StopDomainsUsingOldEnvoy \/ UpgradeIstio
    \/ UpgradeAppOperator \/ startDomainsStoppedByUpgrade
    \/ RestartDomainsIfOutdatedSidecars \/ restartAllApps

ControllerStep(k) ==
    \/ EnsureLastGeneration(k) \/ ReadWorkload(k) \/ WriteResource(k)
    \/ updateStatusReconcileDone(k)
    \/ k = "helidon" /\ ReconcileHelidon

WorkloadNext ==
    \/ UpgradeStep \/ RestartAppsFails \/ EditApp
    \/ \E k \in Kinds : \/ ControllerStep(k) \/ PassEnds(k)
                        \/ restartComponent(k) \/ PodsFollow(k)

WorkloadFairness ==
    /\ WF_workloadVars(UpgradeStep)
    /\ \A k \in Kinds : /\ WF_workloadVars(ControllerStep(k))
                        /\ WF_workloadVars(restartComponent(k))
                        /\ WF_workloadVars(PodsFollow(k))

WorkloadSpec ==
    WorkloadInit /\ [][WorkloadNext]_workloadVars /\ WorkloadFairness

(***************************************************************************)
(* Properties.                                                             *)
(***************************************************************************)
Renewed(k) == pods[k].up /\ (k # "coherence" => pods[k].envoy = 2)

(* In the end every application runs with the Envoy of the new Istio,       *)
(* domains that the upgrade had to stop included, whatever is edited, fails *)
(* or crashes meanwhile (app_restart.go:26), unless the users stop a domain *)
(* or the code lost a request for it.                                       *)
AppsRenewed ==
    \A k \in Kinds :
        <>[](k \in app.kinds =>
                \/ Renewed(k)
                \/ k = "weblogic" /\ lost
                \/ k = "weblogic" /\ workload[k].action = "stop" /\ appEdits > 0)

===============================================================================
