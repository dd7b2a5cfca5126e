------------------------- MODULE VzUninstall_proofs ---------------------------
(***************************************************************************)
(* Proofs about VzUninstall: what the uninstall removes, in which order,   *)
(* and what it spares, for any number of goroutines, edits and restarts;   *)
(* and about VzMonitor, whose goroutines the uninstall runs on, when it is *)
(* used the way the Istio component does.                                  *)
(***************************************************************************)
EXTENDS MCPlatform, TLAPS

-------------------------------------------------------------------------------
(* Types.                                                                   *)

Sites == [provisioned : BOOLEAN, rancherEnabled : BOOLEAN,
          certManager : BOOLEAN, projects : BOOLEAN]

UnType ==
    /\ MonTypeOK
    /\ site \in Sites
    /\ vz \in [finalizer : BOOLEAN, gen : Nat \ {0}, complete : BOOLEAN]
    /\ tracker \in [gen : Nat, state : TrackerStates,
                    comp : [Components -> CompUninstallStates]]
    /\ release \in [Components -> {"installed", "leaving", "gone"}]
    /\ mcRes \subseteq McResources
    /\ ns \in [Namespaces -> {"present", "terminating", "gone"}]
    /\ job \in {None, "active", "complete"}
    /\ artifacts \in BOOLEAN

LEMMA Ranks ==
  /\ McResources = {"bindings", "sa", "vmc", "mcnamespace", "registration",
                    "elasticsearch", "agent"}
  /\ Rank["bindings"] = 1 /\ Rank["sa"] = 2 /\ Rank["vmc"] = 3
  /\ Rank["mcnamespace"] = 4 /\ Rank["registration"] = 5
  /\ Rank["elasticsearch"] = 6 /\ Rank["agent"] = 7
BY DEF McResources, Rank

LEMMA UnTypeInit ==
  ASSUME UnInit
  PROVE  UnType
<1>1. MonTypeOK
  BY DEF UnInit, MonInit, MonTypeOK, FreshMonitor, FreshGoroutine, Outcomes, None
<1>2. tracker \in [gen : Nat, state : TrackerStates,
                   comp : [Components -> CompUninstallStates]]
  BY DEF UnInit, NoTracker, TrackerStates, CompUninstallStates
<1>3. mcRes \subseteq McResources
  BY Ranks DEF UnInit, Secrets
<1>. QED
  BY <1>1, <1>2, <1>3 DEF UnInit, UnType, Sites

(* What the methods of the monitor make of it.                              *)
LEMMA MonitorTypes ==
  ASSUME MonTypeOK
  PROVE  /\ Completed(mon) \in [running : BOOLEAN, completed : BOOLEAN,
                                ch : Goroutines \cup {None}]
         /\ Reset(mon) \in [running : BOOLEAN, completed : BOOLEAN,
                            ch : Goroutines \cup {None}]
         /\ \A g \in Goroutines :
              Running(mon, g) \in [running : BOOLEAN, completed : BOOLEAN,
                                   ch : Goroutines \cup {None}]
BY DEF MonTypeOK, Completed, Reset, Running

Workers == [Goroutines -> [open   : BOOLEAN, result : Outcomes,
                           work   : Outcomes \cup {"running"}]]

LEMMA WorkerTypes ==
  ASSUME MonTypeOK
  PROVE  /\ Received(mon, bg) \in Workers
         /\ Closed(mon, bg) \in Workers
         /\ \A b \in Workers, g \in Goroutines : Started(b, g) \in Workers
BY DEF MonTypeOK, Workers, Received, Closed, Started, Outcomes

LEMMA MonTypeStep ==
  ASSUME MonTypeOK
  PROVE  /\ PostUninstallPending => MonTypeOK'
         /\ PostUninstallDone => MonTypeOK'
         /\ PostUninstallPanics => MonTypeOK'
         /\ \A g \in Goroutines : Send(g) => MonTypeOK'
         /\ Restarted => MonTypeOK'
<1>1. ASSUME PostUninstallPending PROVE MonTypeOK'
  <2>1. bg' \in Workers
    BY <1>1, WorkerTypes DEF PostUninstallPending, MonTypeOK, Workers
  <2>. QED
    BY <1>1, <2>1, MonitorTypes DEF PostUninstallPending, MonTypeOK, Workers
<1>2. ASSUME PostUninstallDone PROVE MonTypeOK'
  BY <1>2, MonitorTypes, WorkerTypes DEF PostUninstallDone, MonTypeOK, Workers
<1>3. ASSUME PostUninstallPanics PROVE MonTypeOK'
  BY <1>3 DEF PostUninstallPanics, Panic, MonTypeOK
<1>4. ASSUME NEW g \in Goroutines, Send(g) PROVE MonTypeOK'
  <2>1. CASE bg[g].open
    <3>1. /\ bg' = [bg EXCEPT ![g].result = bg[g].work, ![g].work = None]
          /\ mon' = mon /\ panic' = panic
          /\ bg[g].work \in Outcomes
      BY <1>4, <2>1 DEF Send, Outcomes
    <3>2. bg' \in Workers
      BY <3>1 DEF MonTypeOK, Workers, Outcomes
    <3>. QED
      BY <3>1, <3>2 DEF MonTypeOK, Workers
  <2>2. CASE ~bg[g].open
    BY <1>4, <2>2 DEF Send, Panic, MonTypeOK
  <2>. QED
    BY <2>1, <2>2
<1>5. ASSUME Restarted PROVE MonTypeOK'
  BY <1>5 DEF Restarted, MonTypeOK, FreshMonitor, FreshGoroutine, Outcomes, None
<1>. QED
  BY <1>1, <1>2, <1>3, <1>4, <1>5

LEMMA UnTypeNext ==
  ASSUME UnType, [UninstallNext]_unVars
  PROVE  UnType'
<1>. USE DEF UnType, monVars, Deleting
<1>1. CASE StartUninstall
  BY <1>1 DEF StartUninstall, NewTracker, MonTypeOK, TrackerStates,
              CompUninstallStates
<1>2. CASE RancherLocal
  BY <1>2 DEF RancherLocal, GoTo, MonTypeOK, TrackerStates
<1>3. CASE RancherPostUninstall
  <2>1. MonTypeOK'
    BY <1>3, MonTypeStep DEF RancherPostUninstall
  <2>2. job' \in {None, "active", "complete"}
    BY <1>3 DEF RancherPostUninstall, PostUninstallPending, PostUninstallDone,
                PostUninstallPanics
  <2>3. tracker' \in [gen : Nat, state : TrackerStates,
                      comp : [Components -> CompUninstallStates]]
    BY <1>3 DEF RancherPostUninstall, CompGoTo, CompUninstallStates, Components
  <2>. QED
    BY <1>3, <2>1, <2>2, <2>3 DEF RancherPostUninstall
<1>4. CASE ComponentsUninstalled
  BY <1>4 DEF ComponentsUninstalled, GoTo, MonTypeOK, TrackerStates
<1>5. CASE UninstallCleanup
  <2>1. MonTypeOK'
    BY <1>5, MonTypeStep DEF UninstallCleanup, MonTypeOK
  <2>2. job' \in {None, "active", "complete"}
    BY <1>5 DEF UninstallCleanup, PostUninstallPending, PostUninstallDone,
                PostUninstallPanics
  <2>3. tracker' \in [gen : Nat, state : TrackerStates,
                      comp : [Components -> CompUninstallStates]]
    BY <1>5 DEF UninstallCleanup, GoTo, TrackerStates
  <2>4. ns' \in [Namespaces -> {"present", "terminating", "gone"}]
    BY <1>5 DEF UninstallCleanup
  <2>. QED
    BY <1>5, <2>1, <2>2, <2>3, <2>4 DEF UninstallCleanup
<1>6. CASE RemoveFinalizer
  BY <1>6 DEF RemoveFinalizer, NoTracker, MonTypeOK, TrackerStates,
              CompUninstallStates
<1>7. ASSUME NEW n \in 0..Rank["agent"], DeleteMCResources(n)
      PROVE  UnType'
  <2>1. tracker' \in [gen : Nat, state : TrackerStates,
                      comp : [Components -> CompUninstallStates]]
    BY <1>7 DEF DeleteMCResources, GoTo, TrackerStates
  <2>. QED
    BY <1>7, <2>1 DEF DeleteMCResources, MonTypeOK
<1>8. ASSUME NEW c \in Components, UninstallComponent(c)
      PROVE  UnType'
  <2>1. tracker' \in [gen : Nat, state : TrackerStates,
                      comp : [Components -> CompUninstallStates]]
    BY <1>8 DEF UninstallComponent, CompGoTo, CompUninstallStates
  <2>2. release' \in [Components -> {"installed", "leaving", "gone"}]
    BY <1>8 DEF UninstallComponent
  <2>. QED
    BY <1>8, <2>1, <2>2 DEF UninstallComponent, MonTypeOK
<1>9. ASSUME NEW c \in Components, ReleaseGone(c)
      PROVE  UnType'
  BY <1>9 DEF ReleaseGone, MonTypeOK
<1>10. ASSUME NEW g \in Goroutines, OperationProceeds(g)
       PROVE  UnType'
  <2>1. MonTypeOK'
    BY <1>10, MonitorTypes DEF OperationProceeds, MonTypeOK, Outcomes
  <2>. QED
    BY <1>10, <2>1 DEF OperationProceeds
<1>11. ASSUME NEW g \in Goroutines, OperationFails(g)
       PROVE  UnType'
  BY <1>11 DEF OperationFails, MonTypeOK, Outcomes
<1>12. ASSUME NEW g \in Goroutines, OperationSends(g)
       PROVE  UnType'
  BY <1>12, MonTypeStep DEF OperationSends, uninstallVars
<1>13. ASSUME NEW n \in Namespaces, NamespaceGone(n)
       PROVE  UnType'
  BY <1>13 DEF NamespaceGone, MonTypeOK
<1>14. CASE VmcReconciled
  BY <1>14, Ranks DEF VmcReconciled, MonTypeOK
<1>15. CASE JobCompletes
  BY <1>15 DEF JobCompletes, MonTypeOK
<1>16. CASE EditSpec
  BY <1>16 DEF EditSpec, MonTypeOK
<1>17. CASE Restart
  <2>1. tracker' \in [gen : Nat, state : TrackerStates,
                      comp : [Components -> CompUninstallStates]]
    BY <1>17 DEF Restart, NoTracker, TrackerStates, CompUninstallStates
  <2>. QED
    BY <1>17, <2>1, MonTypeStep DEF Restart
<1>18. CASE UNCHANGED unVars
  BY <1>18 DEF unVars, uninstallVars, MonTypeOK
<1>. QED
  BY <1>1, <1>2, <1>3, <1>4, <1>5, <1>6, <1>7, <1>8, <1>9, <1>10, <1>11, <1>12,
     <1>13, <1>14, <1>15, <1>16, <1>17, <1>18
     DEF UninstallNext, ReconcileUninstall

-------------------------------------------------------------------------------
(* The order of the multicluster resources.  The bindings exist only where  *)
(* there are projects, so a pass that reaches the VMC has deleted them.     *)

McInv == McOrderKept /\ ("bindings" \in mcRes => site.projects)

LEMMA McInvInit ==
  ASSUME UnInit
  PROVE  McInv
BY DEF UnInit, McInv, McOrderKept, Secrets

LEMMA McInvNext ==
  ASSUME UnType, McInv, [UninstallNext]_unVars
  PROVE  McInv'
<1>. USE DEF McInv, McOrderKept
<1>1. ASSUME NEW n \in 0..Rank["agent"], DeleteMCResources(n)
      PROVE  McInv'
  <2>. DEFINE deleted == {r \in McToDelete : Rank[r] <= n}
  <2>1. /\ mcRes' = mcRes \ (deleted \ {"vmc"})
        /\ vmcDeleting' = (vmcDeleting \/ "vmc" \in deleted)
        /\ site' = site
    BY <1>1 DEF DeleteMCResources
  <2>2. "agent" \in deleted => Secrets \cap mcRes \subseteq deleted
    BY <1>1, Ranks DEF McToDelete, Secrets
  <2>3. "vmc" \in deleted /\ "bindings" \in mcRes => "bindings" \in deleted
    BY <1>1, Ranks DEF McToDelete
  <2>. QED
    BY <2>1, <2>2, <2>3 DEF Secrets
<1>2. CASE VmcReconciled
  BY <1>2 DEF VmcReconciled, Secrets
<1>3. ASSUME ~VmcReconciled, \A n \in 0..Rank["agent"] : ~DeleteMCResources(n)
      PROVE  UNCHANGED <<site, mcRes, vmcDeleting>>
  BY <1>3 DEF UninstallNext, ReconcileUninstall, StartUninstall, RancherLocal,
     RancherPostUninstall, ComponentsUninstalled, UninstallCleanup,
     RemoveFinalizer, UninstallComponent, ReleaseGone, OperationProceeds,
     OperationFails, OperationSends, NamespaceGone, JobCompletes, EditSpec,
     Restart, unVars, uninstallVars
<1>. QED
  BY <1>1, <1>2, <1>3

-------------------------------------------------------------------------------
(* A Rancher that provisioned the cluster.  It is spared because its        *)
(* component goes from the start of the uninstall to the end, and because   *)
(* no goroutine that would clean up after it is ever started.               *)

Spared == /\ RancherKept
          /\ tracker.comp[Rancher] \in {"Start", "End"}
          /\ \A g \in Goroutines : bg[g].work # "running"

SparedInv == site.provisioned => Spared

LEMMA SparedInit ==
  ASSUME UnInit
  PROVE  SparedInv
BY DEF UnInit, MonInit, FreshGoroutine, SparedInv, Spared, RancherKept,
       NoTracker, Components, Namespaces, Rancher, ClusterOperator, None

LEMMA SparedNext ==
  ASSUME UnType, SparedInv, [UninstallNext]_unVars
  PROVE  SparedInv'
<1>. SUFFICES ASSUME site.provisioned, Spared, site' = site
              PROVE  Spared'
  <2>1. site' = site
    BY DEF UninstallNext, ReconcileUninstall, StartUninstall, RancherLocal,
     RancherPostUninstall, ComponentsUninstalled, UninstallCleanup,
     RemoveFinalizer, DeleteMCResources, UninstallComponent, ReleaseGone,
     OperationProceeds, OperationFails, OperationSends, NamespaceGone,
     VmcReconciled, JobCompletes, EditSpec, Restart, unVars, uninstallVars
  <2>. QED
    BY <2>1 DEF SparedInv
<1>. USE DEF Spared, RancherKept, Rancher, ClusterOperator, Components,
         Namespaces, UnType, MonTypeOK, monVars, Deleting
<1>1. CASE StartUninstall
  BY <1>1 DEF StartUninstall, NewTracker
<1>2. CASE RancherLocal
  BY <1>2 DEF RancherLocal, GoTo
<1>3. CASE RancherPostUninstall
  BY <1>3 DEF RancherPostUninstall
<1>4. CASE ComponentsUninstalled
  BY <1>4 DEF ComponentsUninstalled, GoTo
<1>5. CASE UninstallCleanup
  <2>1. UNCHANGED <<monVars, job, release, local>>
    BY <1>5 DEF UninstallCleanup
  <2>2. ns'["cattle-system"] = "present"
    BY <1>5 DEF UninstallCleanup, NsToDelete
  <2>3. tracker'.comp = tracker.comp
    BY <1>5 DEF UninstallCleanup, GoTo
  <2>. QED
    BY <2>1, <2>2, <2>3
<1>6. CASE RemoveFinalizer
  BY <1>6 DEF RemoveFinalizer, NoTracker
<1>7. ASSUME NEW n \in 0..Rank["agent"], DeleteMCResources(n)
      PROVE  Spared'
  BY <1>7 DEF DeleteMCResources, GoTo
<1>8. ASSUME NEW c \in Components, UninstallComponent(c)
      PROVE  Spared'
  <2>1. tracker'.comp[Rancher] \in {"Start", "End"}
    BY <1>8 DEF UninstallComponent, CompGoTo
  <2>2. release'[Rancher] = "installed"
    BY <1>8 DEF UninstallComponent
  <2>. QED
    BY <1>8, <2>1, <2>2 DEF UninstallComponent
<1>9. ASSUME NEW c \in Components, ReleaseGone(c)
      PROVE  Spared'
  BY <1>9 DEF ReleaseGone
<1>10. ASSUME NEW g \in Goroutines, OperationProceeds(g) \/ OperationFails(g)
       PROVE  Spared'
  BY <1>10 DEF OperationProceeds, OperationFails
<1>11. ASSUME NEW g \in Goroutines, OperationSends(g)
       PROVE  Spared'
  BY <1>11 DEF OperationSends, Send, Panic, uninstallVars, None
<1>12. ASSUME NEW n \in Namespaces, NamespaceGone(n)
       PROVE  Spared'
  BY <1>12 DEF NamespaceGone
<1>13. CASE VmcReconciled
  BY <1>13 DEF VmcReconciled
<1>14. CASE JobCompletes
  BY <1>14 DEF JobCompletes, None
<1>15. CASE EditSpec
  BY <1>15 DEF EditSpec
<1>16. CASE Restart
  BY <1>16 DEF Restart, Restarted, NoTracker, FreshGoroutine, None
<1>17. CASE UNCHANGED unVars
  BY <1>17 DEF unVars, uninstallVars
<1>. QED
  BY <1>1, <1>2, <1>3, <1>4, <1>5, <1>6, <1>7, <1>8, <1>9, <1>10, <1>11, <1>12,
     <1>13, <1>14, <1>15, <1>16, <1>17
     DEF UninstallNext, ReconcileUninstall

-------------------------------------------------------------------------------
(* Nothing is left.  The job of Rancher's clean-up comes back, and is at    *)
(* work, only as long as there is something to clean up, and the goroutine  *)
(* reports success, and the monitor completion, only when there is nothing  *)
(* any more.                                                                *)

CleanupInv ==
    /\ ~site.rancherEnabled => job = None
    /\ job = "active" => artifacts
    /\ site.rancherEnabled /\ artifacts =>
          /\ ~mon.completed /\ job # "complete"
          /\ \A g \in Goroutines : bg[g].work # "ok" /\ bg[g].result # "ok"

LEMMA CleanupInit ==
  ASSUME UnInit
  PROVE  CleanupInv
BY DEF UnInit, MonInit, FreshMonitor, FreshGoroutine, CleanupInv, None

LEMMA CleanupNext ==
  ASSUME UnType, CleanupInv, [UninstallNext]_unVars
  PROVE  CleanupInv'
<1>. USE DEF CleanupInv, UnType, MonTypeOK, monVars, None
<1>1. ASSUME PostUninstallPending, UNCHANGED <<site, artifacts>>
      PROVE  CleanupInv'
  <2>. SUFFICES ASSUME site.rancherEnabled, artifacts
                PROVE  /\ ~mon'.completed
                       /\ \A g \in Goroutines : /\ bg'[g].work # "ok"
                                                /\ bg'[g].result # "ok"
    BY <1>1 DEF PostUninstallPending
  <2>1. CheckResult # "ok"
    BY DEF CheckResult
  <2>2. PICK g \in Goroutines : /\ mon' = Running(mon, g)
                                /\ bg' = Started(Received(mon, bg), g)
    BY <1>1, <2>1 DEF PostUninstallPending
  <2>3. ~mon'.completed
    BY <2>2 DEF Running
  <2>4. \A h \in Goroutines : /\ Received(mon, bg)[h].work # "ok"
                             /\ Received(mon, bg)[h].result # "ok"
    BY DEF Received
  <2>5. \A h \in Goroutines : bg'[h].work # "ok" /\ bg'[h].result # "ok"
    BY <2>2, <2>4, WorkerTypes DEF Started, Workers
  <2>. QED
    BY <2>3, <2>5
<1>2. ASSUME PostUninstallDone, UNCHANGED <<site, artifacts>>
      PROVE  CleanupInv'
  BY <1>2 DEF PostUninstallDone
<1>3. ASSUME PostUninstallPanics, UNCHANGED <<site, artifacts>>
      PROVE  CleanupInv'
  BY <1>3 DEF PostUninstallPanics, Panic
<1>4. CASE RancherPostUninstall
  BY <1>1, <1>2, <1>3, <1>4 DEF RancherPostUninstall
<1>5. CASE UninstallCleanup
  BY <1>1, <1>2, <1>3, <1>5 DEF UninstallCleanup
<1>6. ASSUME NEW g \in Goroutines, OperationProceeds(g)
      PROVE  CleanupInv'
  BY <1>6 DEF OperationProceeds, Completed
<1>7. ASSUME NEW g \in Goroutines, OperationFails(g)
      PROVE  CleanupInv'
  BY <1>7 DEF OperationFails
<1>8. ASSUME NEW g \in Goroutines, OperationSends(g)
      PROVE  CleanupInv'
  BY <1>8 DEF OperationSends, Send, Panic, uninstallVars
<1>9. CASE JobCompletes
  BY <1>9 DEF JobCompletes
<1>10. CASE Restart
  BY <1>10 DEF Restart, Restarted, FreshMonitor, FreshGoroutine
<1>11. ASSUME UNCHANGED <<site, mon, bg, job, artifacts>>
       PROVE  CleanupInv'
  BY <1>11
<1>. QED
  BY <1>4, <1>5, <1>6, <1>7, <1>8, <1>9, <1>10, <1>11 DEF UninstallNext,
     ReconcileUninstall, StartUninstall, RancherLocal, ComponentsUninstalled,
     RemoveFinalizer, DeleteMCResources, UninstallComponent, ReleaseGone,
     NamespaceGone, VmcReconciled, EditSpec, unVars, uninstallVars

(* What a tracker has behind it is gone and stays so.  The tracker of no    *)
(* uninstall, of generation 0, has nothing behind it.                       *)

ReleaseLeft(c) == release[c] # "gone" /\ ~(c = Rancher /\ site.provisioned)

McGone == mcRes \cap Secrets = {} /\ ("vmc" \in mcRes => vmcDeleting)

NamespacesGone == \A n \in NsToDelete : ns[n] = "gone"

RancherCleaned ==
    /\ job # "active"
    /\ site.provisioned => job = None
    /\ site.provisioned \/ ~site.rancherEnabled \/ ~artifacts

TrackerInv ==
    tracker.gen # 0 =>
      /\ tracker.state \in {"Components", "Cleanup", "End"} => McGone
      /\ \A c \in Components :
            tracker.comp[c] \in {"Done", "End"} => ~ReleaseLeft(c)
      /\ tracker.state \in {"Cleanup", "End"} =>
            \A c \in Components : tracker.comp[c] = "End"
      /\ tracker.state = "End" => NamespacesGone /\ RancherCleaned

AllGone == /\ McGone /\ NamespacesGone /\ RancherCleaned
           /\ \A c \in Components : ~ReleaseLeft(c)

EndInv == ~vz.finalizer => AllGone

(* No step brings back what is gone.                                        *)
LEMMA GoneStays ==
  ASSUME UnType, McInv, SparedInv, CleanupInv, [UninstallNext]_unVars
  PROVE  /\ McGone => McGone'
         /\ NamespacesGone => NamespacesGone'
         /\ RancherCleaned => RancherCleaned'
         /\ \A c \in Components : ~ReleaseLeft(c) => ~ReleaseLeft(c)'
<1>. USE DEF UnType, monVars, Deleting
<1>1. site' = site
  BY DEF UninstallNext, ReconcileUninstall, StartUninstall, RancherLocal,
     RancherPostUninstall, ComponentsUninstalled, UninstallCleanup,
     RemoveFinalizer, DeleteMCResources, UninstallComponent, ReleaseGone,
     OperationProceeds, OperationFails, OperationSends, NamespaceGone,
     VmcReconciled, JobCompletes, EditSpec, Restart, unVars, uninstallVars
<1>2. McGone => McGone'
  <2>1. \/ UNCHANGED <<mcRes, vmcDeleting>>
        \/ \E n \in 0..Rank["agent"] : DeleteMCResources(n)
        \/ VmcReconciled
    BY DEF UninstallNext, ReconcileUninstall, StartUninstall, RancherLocal,
     RancherPostUninstall, ComponentsUninstalled, UninstallCleanup,
     RemoveFinalizer, UninstallComponent, ReleaseGone,
     OperationProceeds, OperationFails, OperationSends, NamespaceGone,
     JobCompletes, EditSpec, Restart, unVars, uninstallVars
  <2>. QED
    BY <2>1 DEF McGone, DeleteMCResources, VmcReconciled, Secrets
<1>3. NamespacesGone => NamespacesGone'
  <2>1. \A n \in Namespaces : ns[n] = "gone" => ns'[n] = "gone"
    <3>1. UNCHANGED ns \/ UninstallCleanup
          \/ \E n \in Namespaces : NamespaceGone(n)
      BY DEF UninstallNext, ReconcileUninstall, StartUninstall, RancherLocal,
       RancherPostUninstall, ComponentsUninstalled, DeleteMCResources,
       RemoveFinalizer, UninstallComponent, ReleaseGone,
       OperationProceeds, OperationFails, OperationSends, VmcReconciled,
       JobCompletes, EditSpec, Restart, unVars, uninstallVars
    <3>. QED
      BY <3>1 DEF UninstallCleanup, NamespaceGone
  <2>. QED
    BY <1>1, <2>1 DEF NamespacesGone, NsToDelete
<1>4. RancherCleaned => RancherCleaned'
  <2>1. ASSUME RancherCleaned, NEW g \in Goroutines, OperationProceeds(g)
        PROVE  RancherCleaned'
    BY <2>1, <1>1 DEF RancherCleaned, OperationProceeds, SparedInv, Spared
  <2>2. ASSUME RancherCleaned, RancherPostUninstall \/ UninstallCleanup
        PROVE  RancherCleaned'
    BY <2>2, <1>1 DEF RancherCleaned, RancherPostUninstall, UninstallCleanup,
       PostUninstallPending, PostUninstallDone, PostUninstallPanics, None
  <2>3. ASSUME RancherCleaned, JobCompletes
        PROVE  RancherCleaned'
    BY <2>3 DEF RancherCleaned, JobCompletes, None
  <2>4. ASSUME RancherCleaned, UNCHANGED <<job, artifacts>>
        PROVE  RancherCleaned'
    BY <2>4, <1>1 DEF RancherCleaned
  <2>. QED
    BY <2>1, <2>2, <2>3, <2>4 DEF UninstallNext, ReconcileUninstall,
     StartUninstall, RancherLocal, ComponentsUninstalled, DeleteMCResources,
     RemoveFinalizer, UninstallComponent, ReleaseGone, OperationFails,
     OperationSends, NamespaceGone, VmcReconciled, EditSpec, Restart, unVars,
     uninstallVars
<1>5. ASSUME NEW c \in Components, ~ReleaseLeft(c)
      PROVE  ~ReleaseLeft(c)'
  <2>1. \/ UNCHANGED release
        \/ \E d \in Components : UninstallComponent(d) \/ ReleaseGone(d)
    BY DEF UninstallNext, ReconcileUninstall, StartUninstall, RancherLocal,
     RancherPostUninstall, ComponentsUninstalled, DeleteMCResources,
     UninstallCleanup, RemoveFinalizer,
     OperationProceeds, OperationFails, OperationSends, NamespaceGone,
     VmcReconciled, JobCompletes, EditSpec, Restart, unVars, uninstallVars
  <2>2. release[c] = "gone" => release'[c] = "gone"
    BY <2>1 DEF UninstallComponent, ReleaseGone
  <2>. QED
    BY <1>1, <1>5, <2>2 DEF ReleaseLeft
<1>. QED
  BY <1>2, <1>3, <1>4, <1>5

LEMMA TrackerInit ==
  ASSUME UnInit
  PROVE  TrackerInv /\ EndInv
BY DEF UnInit, TrackerInv, EndInv, NoTracker

LEMMA TrackerNext ==
  ASSUME UnType, McInv, SparedInv, CleanupInv, TrackerInv,
         [UninstallNext]_unVars
  PROVE  TrackerInv'
<1>. USE GoneStays DEF UnType, TrackerInv, Deleting
<1>1. CASE UNCHANGED tracker
  BY <1>1
<1>2. CASE StartUninstall
  BY <1>2 DEF StartUninstall, NewTracker
<1>3. CASE RancherLocal
  BY <1>3 DEF RancherLocal, GoTo
<1>4. ASSUME NEW n \in 0..Rank["agent"], DeleteMCResources(n)
      PROVE  TrackerInv'
  <2>1. CASE n = Rank["agent"]
    <3>1. McGone'
      <4>. DEFINE deleted == {r \in McToDelete : Rank[r] <= n}
      <4>1. /\ mcRes' = mcRes \ (deleted \ {"vmc"})
            /\ vmcDeleting' = (vmcDeleting \/ "vmc" \in deleted)
        BY <1>4 DEF DeleteMCResources
      <4>2. McToDelete \subseteq deleted
        BY <2>1, Ranks DEF McToDelete
      <4>3. mcRes \cap Secrets \subseteq deleted
        BY <4>2, Ranks DEF McToDelete, McInv, McOrderKept, Secrets
      <4>4. "vmc" \in mcRes => "vmc" \in deleted
        BY <4>2, Ranks DEF McToDelete, Secrets
      <4>. QED
        BY <4>1, <4>3, <4>4 DEF McGone, Secrets
    <3>. QED
      BY <1>4, <2>1, <3>1 DEF DeleteMCResources, GoTo
  <2>2. CASE n # Rank["agent"]
    BY <1>1, <1>4, <2>2 DEF DeleteMCResources
  <2>. QED
    BY <2>1, <2>2
<1>5. ASSUME NEW c \in Components, UninstallComponent(c)
      PROVE  TrackerInv'
  <2>1. /\ tracker.state = "Components" /\ tracker'.state = "Components"
        /\ tracker'.gen = tracker.gen /\ tracker.gen # 0
        /\ \A d \in Components \ {c} : tracker'.comp[d] = tracker.comp[d]
    BY <1>5 DEF UninstallComponent, CompGoTo
  <2>2. tracker'.comp[c] \in {"Done", "End"} => ~ReleaseLeft(c)
    BY <1>5 DEF UninstallComponent, CompGoTo, ReleaseLeft
  <2>. QED
    BY <2>1, <2>2
<1>6. CASE RancherPostUninstall
  <2>1. /\ tracker.state = "Components" /\ tracker'.state = "Components"
        /\ tracker'.gen = tracker.gen /\ tracker.gen # 0
        /\ \A d \in Components \ {Rancher} : tracker'.comp[d] = tracker.comp[d]
    BY <1>6 DEF RancherPostUninstall, CompGoTo
  <2>2. ~ReleaseLeft(Rancher)
    BY <1>6 DEF RancherPostUninstall, ReleaseLeft
  <2>. QED
    BY <2>1, <2>2 DEF Components
<1>7. CASE ComponentsUninstalled
  BY <1>7 DEF ComponentsUninstalled, GoTo
<1>8. CASE UninstallCleanup
  <2>1. CASE tracker' = tracker
    BY <1>1, <2>1
  <2>2. CASE tracker' # tracker
    <3>1. /\ tracker' = [tracker EXCEPT !.state = "End"]
          /\ tracker.state = "Cleanup" /\ tracker.gen # 0
          /\ NamespacesTerminated
      BY <1>8, <2>2 DEF UninstallCleanup, GoTo
    <3>2. NamespacesGone
      BY <3>1 DEF NamespacesGone, NamespacesTerminated
    <3>3. RancherCleaned'
      <4>1. CASE site.provisioned
        BY <1>8, <4>1 DEF UninstallCleanup, RancherCleaned, SparedInv, Spared,
           RancherKept, None
      <4>2. CASE ~site.provisioned
        BY <1>8, <2>2, <4>2 DEF UninstallCleanup, PostUninstallDone,
           RancherCleaned, CleanupInv, None
      <4>. QED
        BY <4>1, <4>2
    <3>. QED
      BY <3>1, <3>2, <3>3
  <2>. QED
    BY <2>1, <2>2
<1>9. CASE RemoveFinalizer
  BY <1>9 DEF RemoveFinalizer, NoTracker
<1>10. CASE Restart
  BY <1>10 DEF Restart, NoTracker
<1>. QED
  BY <1>1, <1>2, <1>3, <1>4, <1>5, <1>6, <1>7, <1>8, <1>9, <1>10
     DEF UninstallNext, ReconcileUninstall, ReleaseGone, OperationProceeds,
     OperationFails, OperationSends, NamespaceGone, VmcReconciled, JobCompletes,
     EditSpec, unVars, uninstallVars

LEMMA EndNext ==
  ASSUME UnType, McInv, SparedInv, CleanupInv, TrackerInv, EndInv,
         [UninstallNext]_unVars
  PROVE  EndInv'
<1>1. CASE ~vz.finalizer
  BY <1>1, GoneStays DEF EndInv, AllGone
<1>2. CASE RemoveFinalizer
  <2>1. AllGone
    BY <1>2 DEF RemoveFinalizer, Deleting, UnType, TrackerInv, AllGone
  <2>. QED
    BY <2>1, GoneStays DEF EndInv, AllGone
<1>3. CASE vz.finalizer /\ ~RemoveFinalizer
  <2>1. vz'.finalizer
    BY <1>3 DEF UninstallNext, ReconcileUninstall, StartUninstall,
     RancherLocal, RancherPostUninstall, ComponentsUninstalled,
     UninstallCleanup, DeleteMCResources, UninstallComponent, ReleaseGone,
     OperationProceeds, OperationFails, OperationSends, NamespaceGone,
     VmcReconciled, JobCompletes, EditSpec, Restart, unVars, uninstallVars,
     UnType
  <2>. QED
    BY <2>1 DEF EndInv
<1>. QED
  BY <1>1, <1>2, <1>3 DEF UnType

-------------------------------------------------------------------------------
UnInv == UnType /\ McInv /\ SparedInv /\ CleanupInv /\ TrackerInv /\ EndInv

LEMMA UnInvInvariant == UninstallSpec => []UnInv
<1>1. UnInit => UnInv
  BY UnTypeInit, McInvInit, SparedInit, CleanupInit, TrackerInit DEF UnInv
<1>2. UnInv /\ [UninstallNext]_unVars => UnInv'
  BY UnTypeNext, McInvNext, SparedNext, CleanupNext, TrackerNext, EndNext
     DEF UnInv
<1>. QED
  BY <1>1, <1>2, PTL DEF UninstallSpec

(* An interrupted removal can be resumed: the agent secret, which tells a   *)
(* managed cluster, outlives the other secrets (uninstall.go:248), and the  *)
(* account of a VMC the bindings made for it (uninstall.go:226).            *)
THEOREM McOrderKeptCorrect == UninstallSpec => []McOrderKept
<1>1. UnInv => McOrderKept
  BY DEF UnInv, McInv
<1>. QED
  BY <1>1, UnInvInvariant, PTL

(* The uninstall never touches a Rancher that provisioned the cluster       *)
(* (uninstall.go:105).                                                      *)
THEOREM RancherKeptCorrect == UninstallSpec => []RancherKept
<1>1. UnInv => RancherKept
  BY DEF UnInv, SparedInv, Spared, RancherKept
<1>. QED
  BY <1>1, UnInvInvariant, PTL

(* When the finalizer goes, nothing the code waits for is left              *)
(* (controller.go:785), whatever edits, errors, panics and restarts came    *)
(* before and however many goroutines are still on their way.               *)
THEOREM NothingLeftCorrect == UninstallSpec => []NothingLeft
<1>1. UnInv => NothingLeft
  BY DEF UnInv, EndInv, AllGone, McGone, NamespacesGone, RancherCleaned,
         ReleaseLeft, NothingLeft
<1>. QED
  BY <1>1, UnInvInvariant, PTL

-------------------------------------------------------------------------------
(* The monitor of the Istio component.  A goroutine works only between Run  *)
(* and the receipt of its result, and there is a result to receive only     *)
(* once it has ended, so the channel that is closed has no sender left.     *)
MonitorInv ==
    /\ MonTypeOK
    /\ OneOperation
    /\ mon.running => mon.ch \in Goroutines /\ bg[mon.ch].open
    /\ \A g \in Goroutines : bg[g].work # None => bg[g].result = None

LEMMA MonitorInvInit ==
  ASSUME MonInit
  PROVE  MonitorInv
BY DEF MonInit, MonitorInv, MonTypeOK, OneOperation, FreshMonitor,
       FreshGoroutine, Outcomes, None

(* What a free goroutine is started on: nothing else works any more.        *)
LEMMA StartedKeeps ==
  ASSUME NEW m, NEW b \in Workers, NEW g \in Goroutines,
         m \in [running : BOOLEAN, completed : BOOLEAN,
                ch : Goroutines \cup {None}],
         \A h \in Goroutines : b[h].work = None,
         mon' = Running(m, g), bg' = Started(b, g),
         panic' \in BOOLEAN, ~panic'
  PROVE  MonitorInv'
<1>1. bg' \in Workers
  BY DEF Started, Workers, Outcomes
<1>2. /\ mon' \in [running : BOOLEAN, completed : BOOLEAN,
                    ch : Goroutines \cup {None}]
      /\ mon'.running /\ mon'.ch = g
  BY DEF Running
<1>3. /\ bg'[g].open /\ bg'[g].result = None
      /\ \A h \in Goroutines \ {g} : bg'[h].work = None
  BY DEF Started, Workers
<1>. QED
  BY <1>1, <1>2, <1>3 DEF MonitorInv, MonTypeOK, OneOperation, Workers

LEMMA MonitorInvNext ==
  ASSUME MonitorInv, [MonitorNext]_monVars
  PROVE  MonitorInv'
<1>. USE DEF MonitorInv
<1>1. CASE ForkInstall
  <2>1. \A g \in Goroutines : bg[g].work = None
    BY <1>1 DEF ForkInstall, OneOperation
  <2>. QED
    BY <1>1, <2>1, StartedKeeps
       DEF ForkInstall, OneOperation, MonTypeOK, Workers
<1>2. CASE InstallReceives
  <2>1. /\ mon.running /\ mon.ch \in Goroutines /\ bg[mon.ch].open
        /\ mon.ch # None
        /\ bg[mon.ch].result # None
        /\ CanClose /\ ~panic'
    BY <1>2 DEF InstallReceives, CheckResult, CanClose, Panic, OneOperation
  <2>. DEFINE m == Reset(mon)
              b == Closed(mon, Received(mon, bg))
  <2>2. m \in [running : BOOLEAN, completed : BOOLEAN,
               ch : Goroutines \cup {None}]
    BY MonitorTypes
  <2>3. Received(mon, bg) \in Workers
    BY WorkerTypes
  <2>4. b \in Workers
    BY <2>1, <2>3 DEF Closed, Workers
  <2>5. \A g \in Goroutines : bg[g].work = None
    BY <2>1 DEF OneOperation
  <2>6. \A g \in Goroutines : Received(mon, bg)[g].work = None
    BY <2>1, <2>5 DEF Received, MonTypeOK
  <2>7. \A g \in Goroutines : b[g].work = None
    BY <2>1, <2>3, <2>6 DEF Closed, Workers
  <2>8. CASE mon' = m /\ bg' = b
    <3>1. ~mon'.running
      BY <2>8 DEF Reset, MonTypeOK
    <3>2. mon' \in [running : BOOLEAN, completed : BOOLEAN,
                    ch : Goroutines \cup {None}]
      BY <2>2, <2>8
    <3>3. bg' \in Workers /\ \A g \in Goroutines : bg'[g].work = None
      BY <2>4, <2>7, <2>8
    <3>. HIDE DEF m, b
    <3>. QED
      BY <1>2, <2>1, <3>1, <3>2, <3>3
         DEF InstallReceives, Panic, OneOperation, MonTypeOK, Workers
  <2>9. ASSUME NEW g \in Goroutines, mon' = Running(m, g), bg' = Started(b, g)
        PROVE  MonitorInv'
    <3>. HIDE DEF m, b
    <3>. QED
      BY <1>2, <2>1, <2>2, <2>4, <2>7, <2>9, StartedKeeps
         DEF InstallReceives, Panic, MonTypeOK
  <2>. QED
    BY <1>2, <2>1, <2>8, <2>9 DEF InstallReceives, Panic
<1>3. ASSUME NEW g \in Goroutines, IstioctlEnds(g)
      PROVE  MonitorInv'
  BY <1>3 DEF IstioctlEnds, MonTypeOK, OneOperation, Outcomes, None
<1>4. ASSUME NEW g \in Goroutines, Send(g)
      PROVE  MonitorInv'
  <2>1. bg[g].open
    BY <1>4 DEF Send, OneOperation, None
  <2>2. /\ bg' = [bg EXCEPT ![g].result = bg[g].work, ![g].work = None]
        /\ mon' = mon /\ panic' = panic
    BY <1>4, <2>1 DEF Send
  <2>3. MonTypeOK'
    BY <1>4, MonTypeStep
  <2>. QED
    BY <2>2, <2>3 DEF MonTypeOK, OneOperation
<1>5. CASE Restarted
  BY <1>5 DEF Restarted, MonTypeOK, OneOperation, FreshMonitor,
              FreshGoroutine, Outcomes, None
<1>6. CASE UNCHANGED monVars
  BY <1>6 DEF monVars, MonTypeOK, OneOperation
<1>. QED
  BY <1>1, <1>2, <1>3, <1>4, <1>5, <1>6 DEF MonitorNext

(* A component that polls the monitor before it runs another operation      *)
(* never loses a result and never brings the operator down: no send and no  *)
(* close meets a closed channel (monitor.go:54, monitor.go:81), however     *)
(* often istioctl fails or the operator is restarted.                       *)
THEOREM OneOperationCorrect == MonitorSpec => []OneOperation
<1>1. MonInit => MonitorInv
  BY MonitorInvInit
<1>2. MonitorInv /\ [MonitorNext]_monVars => MonitorInv'
  BY MonitorInvNext
<1>3. MonitorInv => OneOperation
  BY DEF MonitorInv
<1>. QED
  BY <1>1, <1>2, <1>3, PTL DEF MonitorSpec

(* The same of the instance with the other parts of the platform operator,  *)
(* whose steps leave the monitor of the Istio component alone.              *)
THEOREM MonitorKeptCorrect == PlatformSpec => []MonitorKept
<1>. DEFINE Inv == subject = "monitor" => MonitorInv
<1>1. PlatformInit => Inv
  BY MonitorInvInit DEF PlatformInit, UnInit
<1>2. Inv /\ [PlatformNext]_platformVars => Inv'
  BY MonitorInvNext
     DEF PlatformNext, platformVars, unVars, NotMonitor, NotUninstall, NotApps,
         monVars
<1>3. Inv => MonitorKept
  BY DEF MonitorInv, MonitorKept
<1>. QED
  BY <1>1, <1>2, <1>3, PTL DEF PlatformSpec
===============================================================================
