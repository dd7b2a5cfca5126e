----------------------------- MODULE VzController -----------------------------
(***************************************************************************)
(* The reconcile loop of the Verrazzano resource: Reconcile picks up the   *)
(* resource from the cache and dispatches on its state; the Proc*State     *)
(* handlers call reconcileComponents and reconcileUpgrade and move the     *)
(* resource between its states.  One worker runs one pass at a time.       *)
(***************************************************************************)
EXTENDS VzUpgrade

(* Reconcile and doReconcile up to the dispatch on the state.               *)
StartPass ==
  /\ pc = "idle" /\ dirty
  /\ NoDelayedRead => chan = <<>> /\ cache = vz
  /\ dirty' = FALSE
  /\ loc' = cache /\ pc' = cache.state
  /\ UNCHANGED <<crVars, busVars, processVars, chartVars, ret, cur, again,
                 trackerVars>>

(* A resource that was never processed.                                     *)
ProcNew ==
  /\ pc = ""
  /\ EndSending(StateEvent("Ready"), TRUE)
  /\ UNCHANGED <<crVars, processVars, chartVars, trackerVars>>

-------------------------------------------------------------------------------
(* ProcReadyState.                                                          *)

Missing == {c \in Known : loc.comps[c] = NoDetails}

NewDetails(c) ==
  IF loc.comps[c] = NoDetails THEN initialDetails(c)
  ELSE [loc.comps[c] EXCEPT !.lrg = loc.gen]

(* initializeComponentStatus: the components without a status entry get     *)
(* one; entries that were never reconciled count as reconciled now.  In the *)
(* faulty variant, all of them do.                                          *)
Initialized_All == [c \in Comp |-> IF c \in Known THEN NewDetails(c) ELSE NoDetails]

Initialized ==
  [c \in Comp |-> IF c \in Known /\ loc.comps[c].lrg = 0 THEN NewDetails(c)
                  ELSE NoDetails]

InitializeComponentStatus ==
  /\ pc = "Ready" /\ Missing # {}
  /\ EndSending([NoEvent EXCEPT !.comps = Initialized], TRUE)
  /\ UNCHANGED <<crVars, processVars, chartVars, trackerVars>>

(* A component could not be asked whether it is installed.                  *)
InitializationFails ==
  /\ pc = "Ready" /\ Missing # {}
  /\ EndQuietly(TRUE)
  /\ UNCHANGED <<crVars, processVars, chartVars, trackerVars>>

ProcReady == pc = "Ready" /\ Missing = {}

UpgradeNeeded == loc.spec # 0 /\ loc.spec # loc.version

(* The empty version of the status does not parse: the pass ends in an error. *)
VersionUnparsable ==
  /\ ProcReady /\ isInstalled(loc) /\ UpgradeNeeded /\ loc.version = 0
  /\ EndQuietly(TRUE)
  /\ UNCHANGED <<crVars, processVars, chartVars, trackerVars>>

StartUpgrade ==
  /\ ProcReady /\ isInstalled(loc) /\ UpgradeNeeded /\ loc.version # 0
  /\ EndSending(StateEvent("Upgrading"), TRUE)
  /\ UNCHANGED <<crVars, processVars, chartVars, trackerVars>>

ReconcileReady ==
  /\ ProcReady /\ isInstalled(loc) /\ ~UpgradeNeeded
  /\ EnterComponents([loc EXCEPT !.comps = Overwrite(@, Initialized)], "Ready")
  /\ UNCHANGED <<crVars, busVars, processVars, dirty, chartVars, ut>>

(* A secret or namespace the installation needs could not be handled.       *)
InstallPrerequisiteFails ==
  /\ ProcReady /\ ~isInstalled(loc)
  /\ EndQuietly(TRUE)
  /\ UNCHANGED <<crVars, processVars, chartVars, trackerVars>>

(* Every enabled component of this operator's registry reports Ready.       *)
checkComponentReadyState ==
  \A c \in Known \cap loc.enabled : loc.comps[c].state = "Ready"

InstallCompleteEvent == ConditionEvent(loc, "InstallComplete", 0)

AlreadyInstalled ==
  /\ ProcReady /\ ~isInstalled(loc) /\ checkComponentReadyState
  /\ EndSending(InstallCompleteEvent, FALSE)
  /\ UNCHANGED <<crVars, processVars, chartVars, trackerVars>>

StartInstall ==
  /\ ProcReady /\ ~isInstalled(loc) /\ ~checkComponentReadyState
  /\ EndSending(setInstallingState(loc), TRUE)
  /\ UNCHANGED <<crVars, processVars, chartVars, trackerVars>>

-------------------------------------------------------------------------------
(* ProcReconcilingState, ProcUpgradingState and ProcPausedUpgradeState.     *)

ProcReconciling ==
  /\ pc = "Reconciling"
  /\ EnterComponents(loc, "Reconciling")
  /\ UNCHANGED <<crVars, busVars, processVars, dirty, chartVars, ut>>

isOperatorNewerVersionThanCR(version) == version # 0 /\ bom > version

(* The operator was replaced by a newer one during the upgrade.             *)
PauseUpgrade ==
  /\ pc = "Upgrading" /\ isOperatorNewerVersionThanCR(loc.spec)
  /\ EndSending(ConditionEvent(loc, "UpgradePaused", 0), TRUE)
  /\ UNCHANGED <<crVars, processVars, chartVars, trackerVars>>

(* Faulty variant: the version of the operator is not looked at.            *)
ProcUpgrading_AnyOperator ==
  /\ pc = "Upgrading"
  /\ EnterComponents(loc, "PreUpgrade")
  /\ UNCHANGED <<crVars, busVars, processVars, dirty, chartVars, ut>>

ProcUpgrading ==
  /\ pc = "Upgrading" /\ ~isOperatorNewerVersionThanCR(loc.spec)
  /\ EnterComponents(loc, "PreUpgrade")
  /\ UNCHANGED <<crVars, busVars, processVars, dirty, chartVars, ut>>

(* Faulty variant: the upgrade resumes without another look from Ready.     *)
ResumeUpgrade_Directly ==
  /\ pc = "Paused" /\ loc.spec = bom
  /\ EndSending(StateEvent("Upgrading"), TRUE)
  /\ UNCHANGED <<crVars, processVars, chartVars, trackerVars>>

ResumeUpgrade ==
  /\ pc = "Paused" /\ loc.spec = bom
  /\ EndSending(StateEvent("Ready"), TRUE)
  /\ UNCHANGED <<crVars, processVars, chartVars, trackerVars>>

StayPaused ==
  /\ pc = "Paused" /\ loc.spec # bom
  /\ EndQuietly(TRUE)
  /\ UNCHANGED <<crVars, processVars, chartVars, trackerVars>>

-------------------------------------------------------------------------------
(* What the callers of reconcileComponents do when it has finished.         *)

Finished(caller) ==
  /\ InTracker("End") /\ ret = caller
  /\ it' = NoInstallTracker

(* cleanupMysqlBackupJob may fail.                                          *)
FinishReady ==
  /\ Finished("Ready")
  /\ \E failed \in BOOLEAN : EndQuietly(failed)
  /\ UNCHANGED <<crVars, processVars, chartVars, ut>>

(* checkInstallComplete.                                                    *)
FinishInstall ==
  /\ Finished("Reconciling")
  /\ IF checkComponentReadyState THEN EndSending(InstallCompleteEvent, FALSE)
                        ELSE EndQuietly(TRUE)
  /\ UNCHANGED <<crVars, processVars, chartVars, ut>>

FinishPreUpgrade ==
  /\ Finished("PreUpgrade") /\ UpgradeNeeded
  /\ EnterUpgrade
  /\ UNCHANGED <<crVars, busVars, processVars, dirty, chartVars, loc, ret, again>>

(* The version was upgraded already: on to the components installed after.  *)
SkipUpgrade ==
  /\ InTracker("End") /\ ret = "PreUpgrade" /\ ~UpgradeNeeded
  /\ it' = newInstallTracker(loc.gen)
  /\ ret' = "PostUpgrade" /\ cur' = 1 /\ again' = FALSE
  /\ UNCHANGED <<crVars, busVars, processVars, dirty, chartVars, pc, loc, ut>>

(* checkUpgradeComplete.                                                    *)
FinishUpgrade ==
  /\ Finished("PostUpgrade")
  /\ IF checkComponentReadyState
     THEN EndSending(ConditionEvent(loc, "UpgradeComplete", 0), FALSE)
     ELSE EndQuietly(TRUE)
  /\ UNCHANGED <<crVars, processVars, chartVars, ut>>

Reconcile ==
  \/ StartPass \/ ProcNew
  \/ InitializeComponentStatus \/ InitializationFails
  \/ VersionUnparsable \/ StartUpgrade \/ ReconcileReady
  \/ InstallPrerequisiteFails \/ AlreadyInstalled \/ StartInstall
  \/ ProcReconciling \/ PauseUpgrade \/ ProcUpgrading \/ ResumeUpgrade
  \/ StayPaused
  \/ FinishReady \/ FinishInstall \/ FinishPreUpgrade \/ SkipUpgrade
  \/ FinishUpgrade

Next == Environment \/ InstallStep \/ UpgradeStep \/ Reconcile

Spec == Init /\ [][Next]_vars

-------------------------------------------------------------------------------
(* Fairness.  The work queue and its worker never stop, nor do the status   *)
(* updater and the informer, and a chart that is left alone becomes ready.  *)
(* A call that can fail is repeated by every later pass, and succeeds in    *)
(* the end if it is made over and over.                                     *)

Worker == InstallStep \/ UpgradeStep \/ Reconcile

FallibleCall ==
  \/ ComponentPreInstall \/ ComponentInstall \/ ComponentPostInstall
  \/ UninstallStart \/ UninstallPreUninstall \/ UninstallUninstall
  \/ UninstallWaitUninstalled
  \/ InitializeComponentStatus \/ AlreadyInstalled \/ StartInstall
  \/ UpgradeInit \/ UpgradeNotInstalled \/ UpgradePreUpgrade
  \/ UpgradeUpgrade \/ UpgradePostUpgrade
  \/ VzPostUpgrade \/ WaitPostUpgradeDone \/ RestartApps

FairSpec ==
  /\ Spec
  /\ WF_vars(Worker) /\ WF_vars(ApplyEvent) /\ WF_vars(SyncCache)
  /\ \A c \in Comp : WF_vars(BecomeReady(c)) /\ WF_vars(ReconcileOverride(c))
  /\ SF_vars(FallibleCall) /\ SF_vars(ReconcileWatched)
  /\ SF_vars(PostInstall /\ ~preUpgrade) /\ SF_vars(FinishReady /\ ~dirty')

-------------------------------------------------------------------------------
(* Safety.                                                                  *)

(* Once nothing is queued or running any more, the installation or upgrade  *)
(* has run its course: the resource is Ready and InstallComplete, whatever  *)
(* old copies the passes read and wherever the operator crashed.            *)
(* checkInstallComplete ends without a requeue, so nothing would repair a   *)
(* resource left behind here.  A lost event does leave one behind.          *)
SettledIsInstalled ==
  Settled /\ drops = 0 => vz.state = "Ready" /\ isInstalled(vz)

(* The charts of the enabled components then have the values of the last    *)
(* edit, however it raced with the trackers, the restarts from              *)
(* compStateInstallEnd and the passes under way (checkConfigUpdated).       *)
SettledIsCurrent ==
  Settled => \A c \in Known \cap vz.enabled : release[c].gen = vz.gen

(* ... and status.version is the version every chart was installed from     *)
(* (setInstallingState, vzStateUpgradeDone).                                *)
SettledVersion ==
  Settled => \A c \in Known : installed(c) => release[c].ver = vz.version

(* The last reconciled generation of an installed component that reports    *)
(* Ready is never ahead of the generation its chart was installed with,     *)
(* whatever copy a pass read and whatever was lost; otherwise               *)
(* checkConfigUpdated would hide an edit that never reached the chart.      *)
(* initComponentStatus claims the present generation for a chart it finds.  *)
LastReconciledIsTrue ==
  \A c \in Comp \ Preinstalled :
    vz.comps[c].state = "Ready" /\ installed(c)
      => release[c].gen >= vz.comps[c].lrg

(* No component is installed before the dependencies it declares, if they   *)
(* are enabled (ComponentDependenciesMet), whatever was uninstalled,        *)
(* restarted or edited since they were checked.                             *)
DependenciesInstalled ==
  At("Install") => \A d \in Deps[comp] \cap loc.enabled : installed(d)

(* reconcileUpgrade installs whatever is in the operator's bill of          *)
(* materials and then reports spec.version as the installed version: it     *)
(* must only ever run in an operator of that version, even when operators   *)
(* are replaced in the middle of upgrades (ProcUpgradingState pauses).      *)
UpgradesToRequest == pc = "upgrade" => loc.spec = bom

-------------------------------------------------------------------------------
(* What a step may never do.                                                *)

(* The InstallComplete condition, on which ProcReadyState decides between   *)
(* install and update, is never lost again, although every event replaces   *)
(* the whole condition list by one computed from a copy (updateStatus).     *)
(* Does not hold for a restored resource, nor for one that may enable no    *)
(* component at all, if passes read old copies.                             *)
InstallCompleteIsSticky == [][isInstalled(vz) => isInstalled(vz)']_vars

(* status.version never goes back to an older version (ValidateNewVersion:  *)
(* rollback is not supported).                                              *)
VersionNeverDecreases == [][vz'.version >= vz.version]_vars

(* status.version moves to a newer version only when every installed chart  *)
(* was upgraded to it (vzStateUpgradeDone).                                 *)
VersionFollowsUpgrade ==
  [][vz'.version # vz.version /\ vz.version # 0
     => \A c \in Known : installed(c) => release[c].ver = vz'.version]_vars

(* Components are upgraded in the order of the registry: a chart only when  *)
(* the installed ones before it come from the requested version and their   *)
(* workloads are ready, whatever failed, was edited or was installed by the *)
(* passes since they were upgraded (upgradeComponents).                     *)
UpgradeInOrder ==
  [][UpgradeUpgrade =>
       \A i \in 1..(cur - 1) : installed(registry[i])
          => release[registry[i]].ver = loc.spec /\ ready[registry[i]]]_vars

(* A component that is disabled in the resource the pass works on is not    *)
(* installed (skipComponentFromDetermineComponentState).                    *)
DisabledNotInstalled == [][ComponentInstall => enabled(comp)]_vars

(* The resource goes through the life cycle of VzLifecycle.                 *)
Lifecycle == INSTANCE VzLifecycle
  WITH state <- vz.state, complete <- isInstalled(vz),
       version <- vz.version, operator <- bom

FollowsLifecycle == Lifecycle!Spec

-------------------------------------------------------------------------------
(* Liveness.                                                                *)

(* Every edit takes effect: the enabled components become Ready with the    *)
(* values of this generation, at the requested version, unless the user     *)
(* edits the spec again.                                                    *)
Effective ==
  /\ vz.state = "Ready" /\ isInstalled(vz)
  /\ vz.spec \in {0, vz.version}
  /\ \A c \in Known \cap vz.enabled :
       vz.comps[c].state = "Ready" /\ release[c].gen = vz.gen /\ ready[c]

EditTakesEffect ==
  \A g \in 1..MaxGen : vz.gen = g ~> (vz.gen > g \/ Effective)

(* An override that changes while the operator rests reaches the chart, if  *)
(* the spec was edited before: the event claims generation 1 for the        *)
(* component (UpdateVerrazzanoForInstallOverrides), which must differ from  *)
(* the current one.                                                         *)
OverrideTakesEffect ==
  \A c \in Overridden :
    (/\ c \in overrideq /\ IdlePass /\ chan = <<>> /\ cache = vz
     /\ vz.state = "Ready" /\ isInstalled(vz) /\ vz.gen > 1)
      ~> release[c].current

(* The operator comes to rest although each of its status updates queues    *)
(* another pass over the resource.                                          *)
ComesToRest == <>[]Settled
===============================================================================
