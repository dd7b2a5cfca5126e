-------------------------------- MODULE VzFleet --------------------------------
(***************************************************************************)
(* The registration of a managed cluster: the VerrazzanoManagedCluster     *)
(* (VMC) controller and the Rancher cluster controller of the cluster      *)
(* operator, which keep a VMC and a Rancher cluster of the same name in    *)
(* step from either side, and the deregistration by the cluster agent.     *)
(*                                                                         *)
(* There is one cluster name.  A Rancher cluster has an id of its own each *)
(* time it is imported; a VMC has a service account, whose token the agent *)
(* secret carries, each time it is created.                                *)
(***************************************************************************)
EXTENDS Naturals

CONSTANTS MaxIds,         \* imports into Rancher
          MaxVmcs,        \* creations of the VMC
          MaxFleetEdits,  \* edits by users
          MaxFleetFaults  \* errors of the APIs, crashes

VARIABLES clusterSync,    \* cluster sync is enabled; never changes
          vmc,            \* the VMC
          rcluster,       \* the Rancher cluster
          lastId,         \* the last id given out by Rancher
          vmcPass,        \* the VMC controller and the VMC it read
          rcPass,         \* the Rancher cluster controller
          config,         \* what refers to the VMC elsewhere: a scrape job, a
                          \* Thanos endpoint, an Argo CD secret, a CA
          managed,        \* the VMC whose secrets the managed cluster holds
          agentPass,      \* the agent and the secret it read
          thanos,         \* Thanos is enabled on the admin and the managed side
          apart,          \* "unset": a VMC was made for a cluster, but its id
                          \* not set; "unseen": a cluster was deleted before it
                          \* had the finalizer; "late": an id was recorded when
                          \* the cluster was being deleted or gone
          fleetEdits,
          fleetFaults

fleetVars == <<clusterSync, vmc, rcluster, lastId, vmcPass, rcPass, config,
               managed, agentPass, thanos, apart, fleetEdits, fleetFaults>>

NoId == 0

Configs == {"scrape", "argocd", "thanos", "ca"}

NoVmc(inc) == [phase |-> "none", inc |-> inc, byVz |-> FALSE,
               finalizer |-> FALSE, id |-> NoId, metrics |-> FALSE]

NewVmc(inc, byVz) == [NoVmc(inc) EXCEPT !.phase = "live", !.byVz = byVz]

NoCluster == [state |-> "none", id |-> NoId, finalizer |-> FALSE,
              recorded |-> FALSE]

FleetIdle == [pc |-> "idle"]

FleetTypeOK ==
    /\ clusterSync \in BOOLEAN
    /\ vmc \in [phase : {"none", "live", "deleting"}, inc : 0..MaxVmcs,
                byVz : BOOLEAN, finalizer : BOOLEAN, id : 0..MaxIds,
                metrics : BOOLEAN]
    /\ rcluster \in [state : {"none", "pending", "active", "deleting"},
                     id : 0..MaxIds, finalizer : BOOLEAN, recorded : BOOLEAN]
    /\ lastId \in 0..MaxIds
    /\ vmcPass.pc \in {"idle", "import", "record", "push", "metrics",
                       "cleanup", "unimport", "finalize"}
    /\ rcPass.pc \in {"idle", "ensure", "readback", "delete", "finalize"}
    /\ config \subseteq Configs
    /\ managed \in [agent : 0..MaxVmcs, registration : 0..MaxVmcs]
    /\ agentPass.pc \in {"idle", "check", "agent", "registration"}
    /\ thanos \in [admin : BOOLEAN, managed : BOOLEAN]
    /\ apart \subseteq {"unset", "unseen", "late"}
    /\ fleetEdits \in 0..MaxFleetEdits
    /\ fleetFaults \in 0..MaxFleetFaults

FleetInit ==
    /\ clusterSync \in BOOLEAN
    /\ vmc = NoVmc(0)
    /\ rcluster = NoCluster
    /\ lastId = NoId
    /\ vmcPass = FleetIdle
    /\ rcPass = FleetIdle
    /\ config = {}
    /\ managed = [agent |-> 0, registration |-> 0]
    /\ agentPass = FleetIdle
    /\ thanos \in [admin : {FALSE}, managed : BOOLEAN]
    /\ apart = {}
    /\ fleetEdits = 0
    /\ fleetFaults = 0

FleetFault == fleetFaults < MaxFleetFaults /\ fleetFaults' = fleetFaults + 1

NoFleetFault == UNCHANGED fleetFaults

(***************************************************************************)
(* The VMC controller.                                                     *)
(***************************************************************************)
Copy(step) == [pc |-> step, id |-> vmc.id, inc |-> vmc.inc,
               metrics |-> vmc.metrics]

(* A pass reads the VMC; that of a live one adds the finalizer.             *)
BeginVmcPass ==
    /\ vmcPass = FleetIdle
    /\ vmc.phase # "none"
    /\ IF vmc.phase = "deleting"
       THEN /\ vmcPass' = Copy("cleanup")
            /\ UNCHANGED vmc
       ELSE /\ vmcPass' = Copy("import")
            /\ vmc' = [vmc EXCEPT !.finalizer = TRUE]
    /\ UNCHANGED <<clusterSync, rcluster, lastId, rcPass, config, managed,
                   agentPass, thanos, apart, fleetEdits, fleetFaults>>

(* registerManagedClusterWithRancher: a VMC without an id is imported, which*)
(* finds the cluster that has its name; one made for a Rancher cluster      *)
(* waits for its id.  A failure leaves the manifest without Rancher's part. *)
ImportCluster ==
    /\ vmcPass.pc = "import"
    /\ \/ /\ vmc.byVz
          /\ vmcPass.id = NoId
          /\ vmcPass' = FleetIdle
          /\ UNCHANGED <<rcluster, lastId>>
          /\ NoFleetFault
       \/ /\ vmcPass.id # NoId
          /\ vmcPass' = [vmcPass EXCEPT !.pc = "record"]
          /\ UNCHANGED <<rcluster, lastId>>
          /\ NoFleetFault
       \/ /\ ~vmc.byVz
          /\ vmcPass.id = NoId
          /\ \/ /\ rcluster.state = "none"
                /\ lastId < MaxIds
                /\ lastId' = lastId + 1
                /\ rcluster' = [NoCluster EXCEPT !.state = "pending",
                                                 !.id = lastId']
                /\ vmcPass' = [vmcPass EXCEPT !.pc = "record", !.id = lastId']
                /\ NoFleetFault
             \/ /\ rcluster.state # "none"
                /\ vmcPass' = [vmcPass EXCEPT !.pc = "record",
                                              !.id = rcluster.id]
                /\ UNCHANGED <<rcluster, lastId>>
                /\ NoFleetFault
             \/ /\ vmcPass' = [vmcPass EXCEPT !.pc = "record"]
                /\ UNCHANGED <<rcluster, lastId>>
                /\ FleetFault
    /\ UNCHANGED <<clusterSync, vmc, rcPass, config, managed, agentPass, thanos,
                   apart, fleetEdits>>

(* Faulty variant: an id the pass did not learn is written as well.         *)
RecordCluster_Wipe ==
    /\ vmcPass.pc = "record"
    /\ vmc' = IF vmc.phase = "none" THEN vmc
              ELSE [vmc EXCEPT !.id = vmcPass.id]
    /\ vmcPass' = IF vmc.phase = "live" /\ vmcPass.id = vmc.id
                  THEN Copy("push") ELSE FleetIdle
    /\ UNCHANGED <<clusterSync, rcluster, lastId, rcPass, config, managed,
                   agentPass, thanos, apart, fleetEdits, fleetFaults>>

(* updateRancherStatus and the update of the VMC.  A status that is written *)
(* makes the update of the older copy fail; an error of the status is only  *)
(* logged, and the update then brings the stored id back into the copy.     *)
RecordCluster ==
    /\ vmcPass.pc = "record"
    /\ LET learned == vmcPass.id # NoId /\ vmcPass.id # vmc.id
       IN \/ /\ learned
             /\ vmc.phase # "none"
             /\ vmc' = [vmc EXCEPT !.id = vmcPass.id]
             /\ vmcPass' = FleetIdle
             /\ rcluster' = IF rcluster.id = vmcPass.id
                            THEN [rcluster EXCEPT !.recorded = TRUE]
                            ELSE rcluster
             /\ apart' = apart \cup (IF rcluster.id = vmcPass.id /\
                                        rcluster.state # "deleting"
                                     THEN {} ELSE {"late"})
             /\ NoFleetFault
          \/ /\ ~learned \/ vmc.phase = "none"
             /\ vmcPass' = IF vmc.phase = "live"
                           THEN Copy("push")
                           ELSE FleetIdle
             /\ UNCHANGED <<vmc, rcluster, apart>>
             /\ NoFleetFault
          \/ /\ learned
             /\ vmc.phase = "live"
             /\ vmcPass' = Copy("push")
             /\ UNCHANGED <<vmc, rcluster, apart>>
             /\ FleetFault
    /\ UNCHANGED <<clusterSync, lastId, rcPass, config, managed, agentPass, thanos,
                   fleetEdits>>

ActiveInRancher(id) == rcluster.state = "active" /\ rcluster.id = id

(* A cluster that Rancher does not know is an error of its state query.     *)
UnknownToRancher(id) == id # NoId /\ rcluster.id # id

(* syncCACertSecret, pushManifestObjects and the Argo CD registration, all  *)
(* for a cluster that is active in Rancher.                                 *)
PushToCluster ==
    /\ vmcPass.pc = "push"
    /\ \/ /\ UnknownToRancher(vmcPass.id)
          /\ vmcPass' = FleetIdle
          /\ UNCHANGED <<managed, config>>
          /\ NoFleetFault
       \/ /\ ~UnknownToRancher(vmcPass.id)
          /\ IF ActiveInRancher(vmcPass.id)
             THEN /\ managed' = [agent |-> vmcPass.inc,
                                 registration |-> vmcPass.inc]
                  /\ config' = config \cup {"argocd"}
             ELSE UNCHANGED <<managed, config>>
          /\ vmcPass' = [vmcPass EXCEPT !.pc = "metrics"]
          /\ NoFleetFault
       \/ /\ ActiveInRancher(vmcPass.id)
          /\ managed' \in {managed, [managed EXCEPT !.agent = vmcPass.inc]}
          /\ vmcPass' = FleetIdle
          /\ UNCHANGED config
          /\ FleetFault
    /\ UNCHANGED <<clusterSync, vmc, rcluster, lastId, rcPass, agentPass,
                   thanos, apart, fleetEdits>>

BothThanos == thanos.admin /\ thanos.managed

(* syncManagedMetrics: the CA comes first.  Thanos takes precedence over    *)
(* the scrape job; while the agent has not reported any host the CA is      *)
(* removed again.                                                           *)
MetricsConfig(c, reported) ==
    IF ~reported THEN c \ {"thanos", "ca"}
    ELSE IF BothThanos THEN (c \ {"scrape"}) \cup {"thanos"}
    ELSE (c \ {"thanos"}) \cup {"scrape"}

(* An error of the CA is passed over; one of what follows ends the pass     *)
(* before or after the part about Thanos.                                   *)
SyncManagedMetrics ==
    /\ vmcPass.pc = "metrics"
    /\ vmcPass' = FleetIdle
    /\ \/ /\ config' = MetricsConfig(config \cup {"ca"}, vmcPass.metrics)
          /\ NoFleetFault
       \/ /\ \E c \in {config, config \cup {"ca"}} :
                LET new == MetricsConfig(c, vmcPass.metrics)
                IN config' \in {new, c, (c \ {"thanos"}) \cup
                                          (new \cap {"thanos"})}
          /\ FleetFault
    /\ UNCHANGED <<clusterSync, vmc, rcluster, lastId, rcPass, managed,
                   agentPass, thanos, apart, fleetEdits>>

(* Faulty variant: the Argo CD secret of a cluster that is deleted stays.   *)
CleanUpVmc_ArgoCD ==
    /\ vmcPass.pc = "cleanup"
    /\ config' = config \cap {"argocd"}
    /\ vmcPass' = [vmcPass EXCEPT !.pc = "unimport"]
    /\ UNCHANGED <<clusterSync, vmc, rcluster, lastId, rcPass, managed,
                   agentPass, thanos, apart, fleetEdits, fleetFaults>>

(* reconcileManagedClusterDelete: the scrape job, Argo CD, Thanos, the CA.  *)
CleanUpVmc ==
    /\ vmcPass.pc = "cleanup"
    /\ \/ /\ config' = {}
          /\ vmcPass' = [vmcPass EXCEPT !.pc = "unimport"]
          /\ NoFleetFault
       \/ /\ config' \in {config, config \ {"scrape"},
                          config \ {"scrape", "argocd"}, config \cap {"ca"}}
          /\ vmcPass' = FleetIdle
          /\ FleetFault
    /\ UNCHANGED <<clusterSync, vmc, rcluster, lastId, rcPass, managed,
                   agentPass, thanos, apart, fleetEdits>>

(* A deleted cluster of Rancher waits for its finalizer.                    *)
Deleted(c) == IF c.finalizer THEN [c EXCEPT !.state = "deleting"] ELSE NoCluster

(* deleteClusterFromRancher, skipped for a VMC without an id.               *)
DeleteFromRancher ==
    /\ vmcPass.pc = "unimport"
    /\ \/ /\ rcluster' = IF vmcPass.id # NoId /\ rcluster.id = vmcPass.id
                         THEN Deleted(rcluster) ELSE rcluster
          /\ vmcPass' = [vmcPass EXCEPT !.pc = "finalize"]
          /\ NoFleetFault
       \/ /\ vmcPass.id # NoId
          /\ vmcPass' = FleetIdle
          /\ UNCHANGED rcluster
          /\ FleetFault
    /\ UNCHANGED <<clusterSync, vmc, lastId, rcPass, config, managed, agentPass,
                   thanos, apart, fleetEdits>>

(* The finalizer is removed from a VMC that has not changed since it was    *)
(* read; a conflict is ignored, another event follows.                      *)
RemoveVmcFinalizer ==
    /\ vmcPass.pc = "finalize"
    /\ vmcPass' = FleetIdle
    /\ \/ /\ vmc' = IF vmc.id = vmcPass.id /\ vmc.metrics = vmcPass.metrics
                    THEN NoVmc(vmc.inc) ELSE vmc
          /\ NoFleetFault
       \/ /\ UNCHANGED vmc
          /\ FleetFault
    /\ UNCHANGED <<clusterSync, rcluster, lastId, rcPass, config, managed,
                   agentPass, thanos, apart, fleetEdits>>

(***************************************************************************)
(* The Rancher cluster controller.                                         *)
(***************************************************************************)
BeginClusterPass ==
    /\ rcPass = FleetIdle
    /\ rcluster.state # "none"
    /\ IF rcluster.state = "deleting"
       THEN /\ rcPass' = [pc |-> "delete"]
            /\ UNCHANGED rcluster
       ELSE /\ rcluster' = [rcluster EXCEPT !.finalizer = TRUE]
            /\ rcPass' = IF clusterSync THEN [pc |-> "ensure", id |-> rcluster.id]
                         ELSE FleetIdle
    /\ UNCHANGED <<clusterSync, vmc, lastId, vmcPass, config, managed,
                   agentPass, thanos, apart, fleetEdits, fleetFaults>>

(* ensureVMC creates the VMC, unless there is one ...                       *)
EnsureVmc ==
    /\ rcPass.pc = "ensure"
    /\ IF vmc.phase = "none"
       THEN vmc.inc < MaxVmcs /\ vmc' = NewVmc(vmc.inc + 1, TRUE)
       ELSE UNCHANGED vmc
    /\ rcPass' = [rcPass EXCEPT !.pc = "readback"]
    /\ UNCHANGED <<clusterSync, rcluster, lastId, vmcPass, config, managed,
                   agentPass, thanos, apart, fleetEdits, fleetFaults>>

(* ... reads it back and sets the id if there is none, or fails.            *)
SetClusterId ==
    /\ rcPass.pc = "readback"
    /\ rcPass' = FleetIdle
    /\ \/ /\ vmc' = IF vmc.phase # "none" /\ vmc.id = NoId
                    THEN [vmc EXCEPT !.id = rcPass.id] ELSE vmc
          /\ UNCHANGED apart
          /\ NoFleetFault
       \/ /\ apart' = apart \cup {"unset"}
          /\ UNCHANGED vmc
          /\ FleetFault
    /\ UNCHANGED <<clusterSync, rcluster, lastId, vmcPass, config, managed,
                   agentPass, thanos, fleetEdits>>

DeletedVmc == IF vmc.finalizer THEN [vmc EXCEPT !.phase = "deleting"]
              ELSE NoVmc(vmc.inc)

(* deleteVMC spares a VMC that has no cluster id.                           *)
DeleteVmc ==
    /\ rcPass.pc = "delete"
    /\ \/ /\ vmc' = IF vmc.phase # "none" /\ vmc.id # NoId THEN DeletedVmc
                    ELSE vmc
          /\ rcPass' = [pc |-> "finalize"]
          /\ NoFleetFault
       \/ /\ rcPass' = FleetIdle
          /\ UNCHANGED vmc
          /\ FleetFault
    /\ UNCHANGED <<clusterSync, rcluster, lastId, vmcPass, config, managed,
                   agentPass, thanos, apart, fleetEdits>>

RemoveClusterFinalizer ==
    /\ rcPass.pc = "finalize"
    /\ rcPass' = FleetIdle
    /\ \/ rcluster' = NoCluster /\ NoFleetFault
       \/ UNCHANGED rcluster /\ FleetFault
    /\ UNCHANGED <<clusterSync, vmc, lastId, vmcPass, config, managed,
                   agentPass, thanos, apart, fleetEdits>>

(***************************************************************************)
(* The agent on the managed cluster.                                       *)
(***************************************************************************)
BeginAgentPass ==
    /\ agentPass = FleetIdle
    /\ managed.agent # 0
    /\ agentPass' = [pc |-> "check", inc |-> managed.agent]
    /\ UNCHANGED <<clusterSync, vmc, rcluster, lastId, vmcPass, rcPass, config,
                   managed, thanos, apart, fleetEdits, fleetFaults>>

(* The token of the secret is that of its own VMC only.                     *)
Authorized == vmc.phase # "none" /\ vmc.inc = agentPass.inc

(* Faulty variant: only a VMC that is being deleted makes it deregister.    *)
AgentConnects_Deleting ==
    /\ agentPass.pc = "check"
    /\ vmc' = IF Authorized THEN [vmc EXCEPT !.metrics = TRUE] ELSE vmc
    /\ agentPass' = IF Authorized /\ vmc.phase = "deleting"
                    THEN [agentPass EXCEPT !.pc = "agent"] ELSE FleetIdle
    /\ UNCHANGED <<clusterSync, rcluster, lastId, vmcPass, rcPass, config,
                   managed, thanos, apart, fleetEdits, fleetFaults>>

(* updateVMCStatus and verifyDeregister.                                    *)
AgentConnects ==
    /\ agentPass.pc = "check"
    /\ vmc' = IF Authorized THEN [vmc EXCEPT !.metrics = TRUE] ELSE vmc
    /\ agentPass' = IF Authorized /\ vmc.phase = "live" THEN FleetIdle
                    ELSE [agentPass EXCEPT !.pc = "agent"]
    /\ UNCHANGED <<clusterSync, rcluster, lastId, vmcPass, rcPass, config,
                   managed, thanos, apart, fleetEdits, fleetFaults>>

(* syncDeregistration deletes the secrets by name, the agent's first; then  *)
(* there is none that would make the agent try again.                       *)
DeleteAgentSecret ==
    /\ agentPass.pc = "agent"
    /\ \/ /\ managed' = [managed EXCEPT !.agent = 0]
          /\ agentPass' = [agentPass EXCEPT !.pc = "registration"]
          /\ NoFleetFault
       \/ /\ agentPass' = FleetIdle
          /\ UNCHANGED managed
          /\ FleetFault
    /\ UNCHANGED <<clusterSync, vmc, rcluster, lastId, vmcPass, rcPass, config,
                   thanos, apart, fleetEdits>>

DeleteRegistrationSecret ==
    /\ agentPass.pc = "registration"
    /\ agentPass' = FleetIdle
    /\ \/ managed' = [managed EXCEPT !.registration = 0] /\ NoFleetFault
       \/ UNCHANGED managed /\ FleetFault
    /\ UNCHANGED <<clusterSync, vmc, rcluster, lastId, vmcPass, rcPass, config,
                   thanos, apart, fleetEdits>>

(***************************************************************************)
(* Crashes, and the users.                                                 *)
(***************************************************************************)
ClusterOperatorCrash ==
    /\ FleetFault
    /\ vmcPass' = FleetIdle
    /\ rcPass' = FleetIdle
    /\ apart' = apart \cup (IF rcPass.pc = "readback" THEN {"unset"} ELSE {})
    /\ UNCHANGED <<clusterSync, vmc, rcluster, lastId, config, managed,
                   agentPass, thanos, fleetEdits>>

AgentRestart ==
    /\ FleetFault
    /\ agentPass' = FleetIdle
    /\ UNCHANGED <<clusterSync, vmc, rcluster, lastId, vmcPass, rcPass, config,
                   managed, thanos, apart, fleetEdits>>

FleetEdit == fleetEdits < MaxFleetEdits /\ fleetEdits' = fleetEdits + 1

CreateVmc ==
    /\ FleetEdit
    /\ vmc.phase = "none"
    /\ vmc.inc < MaxVmcs
    /\ vmc' = NewVmc(vmc.inc + 1, FALSE)
    /\ UNCHANGED <<clusterSync, rcluster, lastId, vmcPass, rcPass, config,
                   managed, agentPass, thanos, apart, fleetFaults>>

UserDeletesVmc ==
    /\ FleetEdit
    /\ vmc.phase = "live"
    /\ vmc' = DeletedVmc
    /\ UNCHANGED <<clusterSync, rcluster, lastId, vmcPass, rcPass, config,
                   managed, agentPass, thanos, apart, fleetFaults>>

(* In Rancher a cluster is imported, becomes active or is deleted.          *)
UserInRancher ==
    /\ FleetEdit
    /\ \/ /\ rcluster.state = "none"
          /\ lastId < MaxIds
          /\ lastId' = lastId + 1
          /\ rcluster' = [NoCluster EXCEPT !.state = "pending", !.id = lastId']
          /\ UNCHANGED apart
       \/ /\ rcluster.state = "pending"
          /\ rcluster' = [rcluster EXCEPT !.state = "active"]
          /\ UNCHANGED <<lastId, apart>>
       \/ /\ rcluster.state \in {"pending", "active"}
          /\ rcluster' = Deleted(rcluster)
          /\ apart' = apart \cup (IF rcluster.finalizer THEN {} ELSE {"unseen"})
          /\ UNCHANGED lastId
    /\ UNCHANGED <<clusterSync, vmc, vmcPass, rcPass, config, managed,
                   agentPass, thanos, fleetFaults>>

(* The manifest is applied by hand on a cluster.                            *)
ApplyManifest ==
    /\ FleetEdit
    /\ vmc.phase = "live"
    /\ managed' = [agent |-> vmc.inc, registration |-> vmc.inc]
    /\ rcluster' = IF vmc.id = rcluster.id /\ rcluster.state = "pending"
                   THEN [rcluster EXCEPT !.state = "active"] ELSE rcluster
    /\ UNCHANGED <<clusterSync, vmc, lastId, vmcPass, rcPass, config,
                   agentPass, thanos, apart, fleetFaults>>

(* Thanos is enabled or disabled, which takes its endpoints with it.        *)
ToggleThanos ==
    /\ FleetEdit
    /\ thanos' = [thanos EXCEPT !.admin = ~@]
    /\ config' = config \ {"thanos"}
    /\ UNCHANGED <<clusterSync, vmc, rcluster, lastId, vmcPass, rcPass, managed,
                   agentPass, apart, fleetFaults>>

VmcController ==
    \/ BeginVmcPass \/ ImportCluster \/ RecordCluster \/ PushToCluster
    \/ SyncManagedMetrics \/ CleanUpVmc \/ DeleteFromRancher
    \/ RemoveVmcFinalizer

ClusterController ==
    \/ BeginClusterPass \/ EnsureVmc \/ SetClusterId \/ DeleteVmc
    \/ RemoveClusterFinalizer

AgentRegistration ==
    \/ BeginAgentPass \/ AgentConnects \/ DeleteAgentSecret
    \/ DeleteRegistrationSecret

FleetNext ==
    \/ VmcController \/ ClusterController \/ AgentRegistration
    \/ ClusterOperatorCrash \/ AgentRestart
    \/ CreateVmc \/ UserDeletesVmc \/ UserInRancher \/ ApplyManifest
    \/ ToggleThanos

(* Each controller is requeued again and again.                             *)
FleetFairness == /\ WF_fleetVars(VmcController)
                 /\ WF_fleetVars(ClusterController)
                 /\ WF_fleetVars(AgentRegistration)

FleetSpec == FleetInit /\ [][FleetNext]_fleetVars /\ FleetFairness

(***************************************************************************)
(* Properties.                                                             *)
(***************************************************************************)
(* What refers to a VMC in the monitoring and delivery tools of the admin   *)
(* cluster goes before the VMC does, whatever fails or is edited meanwhile  *)
(* (vmc_controller.go:512).                                                 *)
ConfigHasVmc == config # {} => vmc.phase # "none"

Agree ==
    \/ vmc.phase = "none" /\ rcluster.state = "none"
    \/ /\ vmc.phase = "live"
       /\ rcluster.state \in {"pending", "active"}
       /\ vmc.id = rcluster.id

(* Where the two sides are left apart: without cluster sync a cluster that  *)
(* no VMC has recorded stays in Rancher; a VMC stays whose cluster went     *)
(* before the VMC had its id, or before the cluster had the finalizer.      *)
OnlyInRancher == vmc.phase = "none" /\ ~clusterSync /\ ~rcluster.recorded

Abandoned ==
    /\ vmc.phase = "live"
    /\ \/ "unset" \in apart /\ vmc.byVz /\ vmc.id = NoId
       \/ apart \cap {"unseen", "late"} # {} /\ vmc.id # rcluster.id

(* The VMC and the Rancher cluster, created and deleted on either side and  *)
(* by either controller, end up both there, with the same id, or both gone. *)
RegistrationsAgree ==
    <>[](Agree \/ OnlyInRancher \/ Abandoned \/ lastId = MaxIds
                \/ vmc.inc = MaxVmcs)

(* A managed cluster ends up with the secrets of the VMC as it is, where    *)
(* Rancher can push them, and with no agent secret of one that is gone,     *)
(* although the agent deletes whatever secret it finds by name.             *)
SecretsFollow ==
    <>[](/\ vmc.phase = "live" /\ ActiveInRancher(vmc.id) =>
               managed = [agent |-> vmc.inc, registration |-> vmc.inc]
         /\ vmc.phase = "none" => managed.agent = 0)

===============================================================================
