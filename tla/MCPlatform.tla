----------------------------- MODULE MCPlatform --------------------------------
(***************************************************************************)
(* One instance for TLC of parts of the platform operator that share no    *)
(* state: the background monitor used as it is meant to be, the uninstall  *)
(* with Rancher's use of the monitor, and the restarts of applications for *)
(* a new Istio.  Each behaviour is one of its subject; the other parts     *)
(* keep one of their initial states.                                       *)
(***************************************************************************)
EXTENDS VzUninstall, VzWorkload

CONSTANTS g1, g2   \* the values of Goroutines

VARIABLE subject

platformVars == <<subject, unVars, workloadVars>>

NotMonitor   == <<subject, uninstallVars, workloadVars>>
NotUninstall == <<subject, workloadVars>>
NotApps      == <<subject, unVars>>

PlatformInit ==
    /\ subject \in {"monitor", "uninstall", "apps"}
    /\ UnInit /\ WorkloadInit
    /\ subject # "apps" => app.kinds = {"coherence"}
    /\ subject # "uninstall" =>
          /\ site = [provisioned |-> FALSE, rancherEnabled |-> FALSE,
                     certManager |-> FALSE, projects |-> FALSE]
          /\ mcRes = {"mcnamespace"}

PlatformNext ==
    \/ subject = "monitor"   /\ MonitorNext   /\ UNCHANGED NotMonitor
    \/ subject = "uninstall" /\ UninstallNext /\ UNCHANGED NotUninstall
    \/ subject = "apps"      /\ WorkloadNext  /\ UNCHANGED NotApps

InUninstall(A) == subject = "uninstall" /\ A /\ UNCHANGED NotUninstall
InApps(A)      == subject = "apps"      /\ A /\ UNCHANGED NotApps

(* The fairness of the parts.  As the subject never changes, one condition  *)
(* about an action of each of two parts is the condition of both.           *)
PlatformFairness ==
    /\ SF_platformVars(InUninstall(DeleteMCResources(Rank["agent"])))
    /\ SF_platformVars(InUninstall(OperationProceeds(g1)))
    /\ SF_platformVars(InUninstall(OperationProceeds(g2)))
    /\ WF_platformVars(\/ InUninstall(ReconcileUninstall)
                       \/ InApps(UpgradeStep))
    /\ WF_platformVars(\/ InUninstall(UninstallComponent(Rancher))
                       \/ InApps(ControllerStep("weblogic")))
    /\ WF_platformVars(\/ InUninstall(UninstallComponent(ClusterOperator))
                       \/ InApps(ControllerStep("coherence")))
    /\ WF_platformVars(\/ InUninstall(ReleaseGone(Rancher))
                       \/ InApps(ControllerStep("helidon")))
    /\ WF_platformVars(\/ InUninstall(ReleaseGone(ClusterOperator))
                       \/ InApps(PodsFollow("weblogic")))
    /\ WF_platformVars(\/ InUninstall(OperationSends(g1))
                       \/ InApps(PodsFollow("coherence")))
    /\ WF_platformVars(\/ InUninstall(OperationSends(g2))
                       \/ InApps(PodsFollow("helidon")))
    /\ WF_platformVars(\/ InUninstall(VmcReconciled)
                       \/ InApps(restartComponent("weblogic")))
    /\ WF_platformVars(\/ InUninstall(JobCompletes)
                       \/ InApps(restartComponent("coherence")))
    /\ WF_platformVars(\/ InUninstall(panic /\ Restart)
                       \/ InApps(restartComponent("helidon")))
    /\ \A n \in Namespaces : WF_platformVars(InUninstall(NamespaceGone(n)))

PlatformSpec ==
    PlatformInit /\ [][PlatformNext]_platformVars /\ PlatformFairness

PlatformTypeOK == UnTypeOK /\ WorkloadTypeOK

(* The monitor, used as it is meant to be, keeps its promise: one operation *)
(* at a time, whose result is not lost (monitor.go:81).                     *)
MonitorKept == subject = "monitor" => OneOperation

(* The uninstall ends (uninstall.go:92).                                    *)
DeletionEnds == subject = "uninstall" => UninstallEnds

(* All applications are restarted for the new Istio (app_restart.go:26).    *)
AppsUpgraded == subject = "apps" => AppsRenewed
===============================================================================
