----------------------------- MODULE VzUninstall ------------------------------
(***************************************************************************)
(* The uninstall of Verrazzano: procDelete and reconcileUninstall with     *)
(* their in-memory tracker, the uninstall of each component, the deletion  *)
(* of the multicluster resources and of the namespaces, and the Rancher    *)
(* post-uninstall that runs in a background goroutine watched by the       *)
(* monitor of VzMonitor.  The cluster operator finishes the deletion of a  *)
(* VerrazzanoManagedCluster (VMC) while it is still installed.             *)
(*                                                                         *)
(* A delete that succeeds is applied at once, except for the objects whose *)
(* end the code waits for: releases, namespaces, the VMC, the cleanup job. *)
(***************************************************************************)
EXTENDS VzMonitor

CONSTANTS MaxSpecEdits,  \* edits of the resource while it is being deleted
          MaxRestarts    \* restarts of the operator that no panic caused

VARIABLES site,          \* what kind of cluster this is; never changes
          vz,            \* the resource: finalizer, generation, conditions
          tracker,       \* the uninstall tracker of the running operator
          release,       \* the release of each component
          mcRes,         \* the multicluster resources that exist
          vmcDeleting,   \* the VMC has a deletion timestamp
          ns,            \* the namespaces of the components
          local,         \* the Rancher "local" cluster exists
          job,           \* the rancher-cleanup job
          artifacts,     \* the namespace cattle-fleet-system exists
          finalizersDeleted,  \* the package variable of rancher_uninstall.go
          restarts

uninstallVars == <<site, vz, tracker, release, mcRes, vmcDeleting, ns, local,
                   job, artifacts, finalizersDeleted, restarts>>

unVars == <<uninstallVars, monVars>>

Rancher         == "rancher"
ClusterOperator == "cluster-operator"
Components      == {Rancher, ClusterOperator}
Namespaces      == {"cattle-system", "cert-manager"}

Secrets == {"registration", "elasticsearch", "agent"}

(* Faulty variant: the agent secret goes first.                             *)
Rank_AgentFirst == [bindings |-> 1, sa |-> 2, vmc |-> 3, mcnamespace |-> 4,
                    registration |-> 6, elasticsearch |-> 7, agent |-> 5]

(* The order in which deleteMCResources deletes.                            *)
Rank == [bindings |-> 1, sa |-> 2, vmc |-> 3, mcnamespace |-> 4,
         registration |-> 5, elasticsearch |-> 6, agent |-> 7]

McResources == DOMAIN Rank

CompUninstallStates == {"Start", "PreUninstall", "Uninstall",
                        "WaitUninstalled", "Done", "End"}

TrackerStates == {"RancherLocal", "MC", "Components", "Cleanup", "End"}

NoTracker == [gen |-> 0, state |-> "End", comp |-> [c \in Components |-> "End"]]

NewTracker(g) == [gen |-> g, state |-> "RancherLocal",
                  comp |-> [c \in Components |-> "Start"]]

UnTypeOK ==
    /\ MonTypeOK
    /\ site \in [provisioned : BOOLEAN, rancherEnabled : BOOLEAN,
                 certManager : BOOLEAN, projects : BOOLEAN]
    /\ vz \in [finalizer : BOOLEAN, gen : 1..(MaxSpecEdits + 1),
               complete : BOOLEAN]
    /\ tracker \in [gen : 0..(MaxSpecEdits + 1), state : TrackerStates,
                    comp : [Components -> CompUninstallStates]]
    /\ release \in [Components -> {"installed", "leaving", "gone"}]
    /\ mcRes \subseteq McResources
    /\ vmcDeleting \in BOOLEAN
    /\ ns \in [Namespaces -> {"present", "terminating", "gone"}]
    /\ local \in BOOLEAN
    /\ job \in {None, "active", "complete"}
    /\ artifacts \in BOOLEAN
    /\ finalizersDeleted \in BOOLEAN
    /\ restarts \in 0..MaxRestarts

(* An admin cluster with a registered cluster, a managed cluster, or        *)
(* neither.  Rancher is installed where it is enabled, and by others on a   *)
(* cluster that Rancher provisioned.                                        *)
UnInit ==
    /\ MonInit
    /\ site \in {s \in [provisioned : BOOLEAN, rancherEnabled : BOOLEAN,
                        certManager : BOOLEAN, projects : BOOLEAN] :
                   s.provisioned => s.rancherEnabled}
    /\ vz = [finalizer |-> TRUE, gen |-> 1, complete |-> FALSE]
    /\ tracker = NoTracker
    /\ release = [c \in Components |-> IF c = Rancher /\ ~site.rancherEnabled
                                       THEN "gone" ELSE "installed"]
    /\ mcRes \in {{"mcnamespace", "sa", "vmc"} \cup
                     (IF site.projects THEN {"bindings"} ELSE {}),
                  {"mcnamespace"} \cup Secrets, {"mcnamespace"}}
    /\ vmcDeleting = FALSE
    /\ ns = [n \in Namespaces |-> "present"]
    /\ local = site.rancherEnabled
    /\ job = None
    /\ artifacts = site.rancherEnabled
    /\ finalizersDeleted = FALSE
    /\ restarts = 0

(***************************************************************************)
(* The Rancher post-uninstall and its background operation.                *)
(***************************************************************************)
(* postUninstall, when it returns an error: it waits, it records that the   *)
(* goroutine is done, or it forks it (again).                               *)
PostUninstallPending ==
    /\ ~mon.completed
    /\ \/ /\ mon.running
          /\ ~site.rancherEnabled
          /\ mon' = Completed(mon)
          /\ UNCHANGED bg
       \/ /\ mon.running
          /\ site.rancherEnabled
          /\ CheckResult = "ok"
          /\ mon' = Completed(mon)
          /\ bg' = Received(mon, bg)
       \/ /\ \/ ~mon.running
             \/ site.rancherEnabled /\ CheckResult = "failed"
          /\ \E g \in Goroutines :
                /\ Free(g)
                /\ mon' = Running(mon, g)
                /\ bg' = Started(Received(mon, bg), g)
    /\ UNCHANGED <<panic, job>>

(* postUninstall, when it returns nil: the remaining resources are deleted  *)
(* and the monitor is reset.  deleteCleanupJob returns no error: a job it   *)
(* fails to delete stays.                                                   *)
PostUninstallDone ==
    /\ mon.completed
    /\ CanClose
    /\ mon' = Reset(mon)
    /\ bg' = Closed(mon, bg)
    /\ \/ UNCHANGED job
       \/ site.rancherEnabled /\ job' = None
    /\ UNCHANGED panic

(* The reset of a monitor whose channel is closed already.                  *)
PostUninstallPanics == mon.completed /\ ~CanClose /\ Panic /\ UNCHANGED job

(* invokeRancherSystemToolAndCleanup in the goroutine: the finalizers once, *)
(* then the cleanup job, created if it is wanted and awaited.  With no job  *)
(* to run the goroutine itself marks the monitor as completed.              *)
OperationProceeds(g) ==
    /\ ~panic
    /\ bg[g].work = "running"
    /\ finalizersDeleted' = TRUE
    /\ LET wanted == site.rancherEnabled /\ artifacts
       IN /\ job' = IF job = None /\ wanted THEN "active" ELSE job
          /\ mon' = IF job = None /\ ~wanted THEN Completed(mon) ELSE mon
          /\ bg' = [bg EXCEPT ![g].work =
                      IF job = "active" \/ (job = None /\ wanted)
                      THEN "failed" ELSE "ok"]
    /\ UNCHANGED <<panic, site, vz, tracker, release, mcRes, vmcDeleting, ns,
                   local, artifacts, restarts>>

(* ... or it stops at an API error.                                         *)
OperationFails(g) ==
    /\ ~panic
    /\ bg[g].work = "running"
    /\ bg' = [bg EXCEPT ![g].work = "failed"]
    /\ \/ UNCHANGED finalizersDeleted
       \/ finalizersDeleted' = TRUE
    /\ UNCHANGED <<mon, panic, site, vz, tracker, release, mcRes, vmcDeleting,
                   ns, local, job, artifacts, restarts>>

OperationSends(g) == Send(g) /\ UNCHANGED uninstallVars

(***************************************************************************)
(* procDelete and reconcileUninstall.                                      *)
(***************************************************************************)
(* procDelete acts while the finalizer is there; the tracker it finds is    *)
(* the one of this generation.                                              *)
Deleting(state) ==
    /\ ~panic
    /\ vz.finalizer
    /\ tracker.gen = vz.gen
    /\ tracker.state = state

GoTo(state) == tracker' = [tracker EXCEPT !.state = state]

CompGoTo(c, state) == tracker' = [tracker EXCEPT !.comp[c] = state]

(* getUninstallTracker finds none, or one of another generation.            *)
StartUninstall ==
    /\ ~panic
    /\ vz.finalizer
    /\ tracker.gen # vz.gen
    /\ tracker' = NewTracker(vz.gen)
    /\ UNCHANGED <<monVars, site, vz, release, mcRes, vmcDeleting, ns, local,
                   job, artifacts, finalizersDeleted, restarts>>

(* The Rancher local cluster is deleted where Verrazzano installed Rancher. *)
RancherLocal ==
    /\ Deleting("RancherLocal")
    /\ local' = (local /\ (site.provisioned \/ release[Rancher] = "gone"))
    /\ GoTo("MC")
    /\ UNCHANGED <<monVars, site, vz, release, mcRes, vmcDeleting, ns, job,
                   artifacts, finalizersDeleted, restarts>>

(* What deleteMCResources sets out to delete: the service account by the    *)
(* VMC that names it, the namespace without projects, the secrets where the *)
(* agent secret tells that this is a managed cluster.                       *)
McToDelete ==
    {r \in McResources :
        /\ r \in {"sa", "vmc"} => "vmc" \in mcRes
        /\ r = "bindings" => site.projects
        /\ r = "mcnamespace" => ~site.projects
        /\ r \in Secrets => "agent" \in mcRes}

(* Faulty variant: the account has to exist although no VMC names it.       *)
McMayReach_NoVmc(n) == "sa" \notin mcRes => n < Rank["sa"]

(* The service account has to exist: its deletion does not accept NotFound. *)
McMayReach(n) == "vmc" \in mcRes /\ "sa" \notin mcRes => n < Rank["sa"]

(* deleteMCResources deletes up to rank n and goes on, or stops there at an *)
(* error and is called again.  A deleted VMC waits for its finalizer.       *)
DeleteMCResources(n) ==
    /\ Deleting("MC")
    /\ McMayReach(n)
    /\ LET deleted == {r \in McToDelete : Rank[r] <= n}
       IN /\ mcRes' = mcRes \ (deleted \ {"vmc"})
          /\ vmcDeleting' = (vmcDeleting \/ "vmc" \in deleted)
    /\ IF n = Rank["agent"] THEN GoTo("Components") ELSE UNCHANGED tracker
    /\ UNCHANGED <<monVars, site, vz, release, ns, local, job, artifacts,
                   finalizersDeleted, restarts>>

(* uninstallSingleComponent, up to the wait for the release to go.          *)
UninstallComponent(c) ==
    /\ Deleting("Components")
    /\ \/ /\ tracker.comp[c] = "Start"
          /\ CompGoTo(c, IF \/ c = Rancher /\ site.provisioned
                            \/ release[c] = "gone"
                         THEN "End" ELSE "PreUninstall")
          /\ UNCHANGED <<release, finalizersDeleted>>
       \/ /\ tracker.comp[c] = "PreUninstall"
          /\ CompGoTo(c, "Uninstall")
          /\ finalizersDeleted' = (finalizersDeleted /\ c # Rancher)
          /\ UNCHANGED release
       \/ /\ tracker.comp[c] = "Uninstall"
          /\ CompGoTo(c, "WaitUninstalled")
          /\ release' = [release EXCEPT ![c] = IF @ = "gone" THEN @
                                               ELSE "leaving"]
          /\ UNCHANGED finalizersDeleted
       \/ /\ tracker.comp[c] = "WaitUninstalled"
          /\ release[c] = "gone"
          /\ c # Rancher
          /\ CompGoTo(c, "Done")
          /\ UNCHANGED <<release, finalizersDeleted>>
       \/ /\ tracker.comp[c] = "Done"
          /\ CompGoTo(c, "End")
          /\ UNCHANGED <<release, finalizersDeleted>>
    /\ UNCHANGED <<monVars, site, vz, mcRes, vmcDeleting, ns, local, job,
                   artifacts, restarts>>

(* The post-uninstall of the Rancher component, once its release is gone.   *)
RancherPostUninstall ==
    /\ Deleting("Components")
    /\ tracker.comp[Rancher] = "WaitUninstalled"
    /\ release[Rancher] = "gone"
    /\ \/ (PostUninstallPending \/ PostUninstallPanics) /\ UNCHANGED tracker
       \/ PostUninstallDone /\ CompGoTo(Rancher, "Done")
    /\ UNCHANGED <<site, vz, release, mcRes, vmcDeleting, ns, local, artifacts,
                   finalizersDeleted, restarts>>

ComponentsUninstalled ==
    /\ Deleting("Components")
    /\ \A c \in Components : tracker.comp[c] = "End"
    /\ GoTo("Cleanup")
    /\ UNCHANGED <<monVars, site, vz, release, mcRes, vmcDeleting, ns, local,
                   job, artifacts, finalizersDeleted, restarts>>

(* Faulty variant: the namespace of Rancher is deleted on every cluster.    *)
NsToDelete_Rancher ==
    {n \in Namespaces : n = "cert-manager" => site.certManager}

(* The namespaces deleteNamespaces deletes.                                 *)
NsToDelete ==
    {n \in Namespaces : /\ n = "cattle-system" => ~site.provisioned
                        /\ n = "cert-manager" => site.certManager}

(* Faulty variant: a terminating namespace is not waited for.               *)
NamespacesTerminated_Deleted == \A n \in NsToDelete : ns[n] # "present"

NamespacesTerminated == \A n \in NsToDelete : ns[n] = "gone"

(* uninstallCleanup runs the Rancher post-uninstall whether or not Rancher  *)
(* was installed, then deletes the namespaces and waits for all of them.    *)
UninstallCleanup ==
    /\ Deleting("Cleanup")
    /\ \/ /\ ~site.provisioned
          /\ PostUninstallPending \/ PostUninstallPanics
          /\ UNCHANGED <<tracker, ns>>
       \/ /\ IF site.provisioned THEN UNCHANGED <<monVars, job>>
                                 ELSE PostUninstallDone
          /\ ns' = [n \in Namespaces |->
                      IF n \in NsToDelete /\ ns[n] = "present"
                      THEN "terminating" ELSE ns[n]]
          /\ IF NamespacesTerminated THEN GoTo("End")
             ELSE UNCHANGED tracker
    /\ UNCHANGED <<site, vz, release, mcRes, vmcDeleting, local, artifacts,
                   finalizersDeleted, restarts>>

(* procDelete ends: the condition, the finalizer and the tracker.           *)
RemoveFinalizer ==
    /\ Deleting("End")
    /\ vz' = [vz EXCEPT !.finalizer = FALSE, !.complete = TRUE]
    /\ tracker' = NoTracker
    /\ UNCHANGED <<monVars, site, release, mcRes, vmcDeleting, ns, local, job,
                   artifacts, finalizersDeleted, restarts>>

(***************************************************************************)
(* The cluster around the operator.                                        *)
(***************************************************************************)
(* The VMC controller of the cluster operator keeps the service account of  *)
(* a VMC and removes the finalizer of a deleted one.                        *)
VmcReconciled ==
    /\ release[ClusterOperator] # "gone"
    /\ "vmc" \in mcRes
    /\ mcRes' = IF vmcDeleting THEN mcRes \ {"vmc"} ELSE mcRes \cup {"sa"}
    /\ UNCHANGED <<monVars, site, vz, tracker, release, vmcDeleting, ns, local,
                   job, artifacts, finalizersDeleted, restarts>>

ReleaseGone(c) ==
    /\ release[c] = "leaving"
    /\ release' = [release EXCEPT ![c] = "gone"]
    /\ UNCHANGED <<monVars, site, vz, tracker, mcRes, vmcDeleting, ns, local,
                   job, artifacts, finalizersDeleted, restarts>>

NamespaceGone(n) ==
    /\ ns[n] = "terminating"
    /\ ns' = [ns EXCEPT ![n] = "gone"]
    /\ UNCHANGED <<monVars, site, vz, tracker, release, mcRes, vmcDeleting,
                   local, job, artifacts, finalizersDeleted, restarts>>

(* The cleanup job deletes what is left of Rancher.                         *)
JobCompletes ==
    /\ job = "active"
    /\ job' = "complete"
    /\ artifacts' = FALSE
    /\ UNCHANGED <<monVars, site, vz, tracker, release, mcRes, vmcDeleting, ns,
                   local, finalizersDeleted, restarts>>

(* An edit of the spec while the resource is being deleted.                 *)
EditSpec ==
    /\ vz.finalizer
    /\ vz.gen <= MaxSpecEdits
    /\ vz' = [vz EXCEPT !.gen = @ + 1]
    /\ UNCHANGED <<monVars, site, tracker, release, mcRes, vmcDeleting, ns,
                   local, job, artifacts, finalizersDeleted, restarts>>

Restart ==
    /\ vz.finalizer
    /\ panic \/ restarts < MaxRestarts
    /\ restarts' = IF panic THEN restarts ELSE restarts + 1
    /\ Restarted
    /\ tracker' = NoTracker
    /\ finalizersDeleted' = FALSE
    /\ UNCHANGED <<site, vz, release, mcRes, vmcDeleting, ns, local, job,
                   artifacts>>

ReconcileUninstall ==
    \/ StartUninstall
    \/ RancherLocal
    \/ RancherPostUninstall
    \/ ComponentsUninstalled
    \/ UninstallCleanup
    \/ RemoveFinalizer

UninstallNext ==
    \/ ReconcileUninstall
    \/ \E n \in 0..Rank["agent"] : DeleteMCResources(n)
    \/ \E c \in Components : UninstallComponent(c) \/ ReleaseGone(c)
    \/ \E g \in Goroutines :
          OperationProceeds(g) \/ OperationFails(g) \/ OperationSends(g)
    \/ \E n \in Namespaces : NamespaceGone(n)
    \/ VmcReconciled \/ JobCompletes \/ EditSpec \/ Restart

(* The controller requeues an unfinished uninstall, API errors end, the     *)
(* goroutines are scheduled and the cluster finishes what it has begun.     *)
UninstallFairness ==
    /\ WF_unVars(ReconcileUninstall)
    /\ SF_unVars(DeleteMCResources(Rank["agent"]))
    /\ \A c \in Components : /\ WF_unVars(UninstallComponent(c))
                             /\ WF_unVars(ReleaseGone(c))
    /\ \A g \in Goroutines : /\ WF_unVars(OperationSends(g))
                             /\ SF_unVars(OperationProceeds(g))
    /\ \A n \in Namespaces : WF_unVars(NamespaceGone(n))
    /\ WF_unVars(VmcReconciled)
    /\ WF_unVars(JobCompletes)
    /\ WF_unVars(panic /\ Restart)

UninstallSpec == UnInit /\ [][UninstallNext]_unVars /\ UninstallFairness

(***************************************************************************)
(* Properties.                                                             *)
(***************************************************************************)
(* The removal is ordered so that an interrupted one can be resumed: the    *)
(* agent secret, which tells a managed cluster, outlives the other secrets  *)
(* (uninstall.go:248), and the account of a VMC the bindings made for it    *)
(* (uninstall.go:226).                                                      *)
McOrderKept ==
    /\ "agent" \notin mcRes => mcRes \cap Secrets = {}
    /\ vmcDeleting => "bindings" \notin mcRes

(* A Rancher that provisioned the cluster survives the uninstall, with its  *)
(* local cluster and namespace: five places of the code each have to spare  *)
(* it (uninstall.go:105, "will cause cluster corruption").                  *)
RancherKept ==
    site.provisioned => /\ release[Rancher] = "installed"
                        /\ ns["cattle-system"] = "present"
                        /\ local
                        /\ job = None

(* When the finalizer goes, whatever edits, errors, panics and restarts     *)
(* came before, nothing the code waits for is left (controller.go:785):     *)
(* Rancher's clean-up has come to its end too.  Its job may be left: the    *)
(* code does not insist on its deletion (rancher_uninstall.go:301).         *)
NothingLeft ==
    ~vz.finalizer =>
        /\ \A c \in Components :
              release[c] = "gone" \/ (c = Rancher /\ site.provisioned)
        /\ \A n \in NsToDelete : ns[n] = "gone"
        /\ mcRes \cap Secrets = {}
        /\ "vmc" \in mcRes => vmcDeleting
        /\ job # "active"
        /\ site.rancherEnabled /\ ~site.provisioned => ~artifacts

(* A deleted VMC is not waited for: once the cluster operator is gone it    *)
(* keeps its finalizer, and a tracker that starts again stops at its        *)
(* service account, which does not exist any more (uninstall.go:235).       *)
VmcStuck == /\ "vmc" \in mcRes
            /\ "sa" \notin mcRes
            /\ release[ClusterOperator] = "gone"

(* The uninstall ends, unless panics go on forever or a VMC is stuck.       *)
UninstallEnds == <>[](~panic) => <>(~vz.finalizer \/ VmcStuck)
===============================================================================
