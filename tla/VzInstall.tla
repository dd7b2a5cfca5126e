------------------------------ MODULE VzInstall -------------------------------
(***************************************************************************)
(* reconcileComponents and installSingleComponent: the install tracker of  *)
(* a generation and the state machine it keeps for each component.  A step *)
(* is one case of one of the two switch statements.  The trackers survive  *)
(* the reconcile pass; the component loop starts over in each pass.        *)
(***************************************************************************)
EXTENDS VzCluster

(* The generation the tracker belongs to decides whether it is used again.  *)
getInstallTracker(cr) ==
  IF it.gen = cr.gen THEN it ELSE newInstallTracker(cr.gen)

(* Call reconcileComponents(preUpgrade) with the resource cr.               *)
EnterComponents(cr, caller) ==
  /\ pc' = "components" /\ ret' = caller
  /\ loc' = cr
  /\ it' = getInstallTracker(cr)
  /\ cur' = 1 /\ again' = FALSE

preUpgrade == ret = "PreUpgrade"

InTracker(s) == pc = "components" /\ it.state = s

SetTracker(s) == it' = [it EXCEPT !.state = s]

-------------------------------------------------------------------------------
(* reconcileComponents.                                                     *)

enabled(c) == c \in loc.enabled

checkGenerationUpdated ==
  \E c \in Known \cap loc.enabled :
     loc.comps[c] = NoDetails \/ checkConfigUpdated(loc, loc.comps[c])

(* The watched components are reconciled first, except during an upgrade;   *)
(* any failure ends the pass.                                               *)
ReconcileWatched ==
  /\ InTracker("ReconcileWatched")
  /\ SetTracker("DecideUpdate")
  /\ UNCHANGED <<crVars, busVars, processVars, dirty, chartVars, passVars, ut>>

ReconcileWatchedFails ==
  /\ InTracker("ReconcileWatched") /\ loc.state # "Upgrading"
  /\ EndQuietly(TRUE)
  /\ UNCHANGED <<crVars, processVars, chartVars, trackerVars>>

DecideUpdate ==
  /\ InTracker("DecideUpdate")
  /\ SetTracker(IF loc.state # "Ready" THEN "InstallComponents"
                ELSE IF checkGenerationUpdated THEN "SetGlobalInstallStatus"
                ELSE "End")
  /\ UNCHANGED <<crVars, busVars, processVars, dirty, chartVars, passVars, ut>>

(* setInstallingState also writes the operator's version to the status.     *)
setInstallingState(cr) == ConditionEvent(cr, "InstallStarted", bom)

SetGlobalInstallStatus ==
  /\ InTracker("SetGlobalInstallStatus")
  /\ EndSending(setInstallingState(loc), TRUE)
  /\ SetTracker("InstallComponents")
  /\ UNCHANGED <<crVars, processVars, chartVars, ut>>

-------------------------------------------------------------------------------
(* installComponents: the loop over the registry.                           *)

InLoop == InTracker("InstallComponents") /\ cur <= Len(registry)

comp == registry[cur]

details == loc.comps[comp]

At(s) == InLoop /\ it.comp[comp] = s

GoTo(s) == it' = [it EXCEPT !.comp[comp] = s]

OnlyDetails(d) == [NoComps EXCEPT ![comp] = d]

(* A step of the component that only moves its machine.                     *)
Quiet == UNCHANGED <<crVars, busVars, processVars, dirty, chartVars, passVars, ut>>

(* A step that also writes the details d of the component.                  *)
WriteDetails(d) ==
  /\ SendDetails(OnlyDetails(d))
  /\ UNCHANGED <<crVars, processVars, dirty, chartVars, pc, ret, cur, again, ut>>

(* installSingleComponent returns; the loop goes on with the next component. *)
NextComponent(requeue) ==
  /\ cur' = cur + 1
  /\ again' = (again \/ requeue)
  /\ UNCHANGED <<crVars, processVars, dirty, chartVars, pc, ret, ut>>

skipComponentFromDetermineComponentState ==
  \/ ~enabled(comp) /\ ~installed(comp)
  \/ enabled(comp) /\ preUpgrade /\ comp \notin BeforeUpgrade

skipComponentFromReadyState ==
  ~isInstalled(loc) \/ ~checkConfigUpdated(loc, details)

(* initComponentStatus.                                                     *)
initialDetails(c) ==
  [state |-> IF installed(c) THEN "Ready" ELSE "Disabled", rg |-> 0,
   lrg   |-> IF installed(c) THEN loc.gen ELSE 0]

(* The entry is queued, but the local copy still has none.                  *)
SendInitialDetails ==
  /\ HasRoom
  /\ chan' = Append(chan, CompEvent(comp, initialDetails(comp)))
  /\ drops' = drops

StatusMissing == (At("Init") \/ At("End")) /\ details = NoDetails

(* Without an entry, the machine ends without a look at it only when the    *)
(* component is skipped in the upgrade flow ...                             *)
SkippedUnseen ==
  /\ loc.state = "Upgrading"
  /\ At("Init") => skipComponentFromDetermineComponentState

ComponentSkippedUnseen ==
  /\ StatusMissing /\ SkippedUnseen
  /\ SendInitialDetails
  /\ GoTo("End")
  /\ NextComponent(FALSE)
  /\ loc' = loc

(* ... anywhere else it is a nil dereference.                               *)
ComponentStatusMissing ==
  /\ StatusMissing /\ ~SkippedUnseen
  /\ SendInitialDetails
  /\ pc' = "panic"
  /\ UNCHANGED <<crVars, processVars, dirty, chartVars, loc, ret, cur, again,
                 trackerVars>>

(* The component could not be asked whether it is installed.                *)
ComponentStatusUnknown ==
  /\ StatusMissing
  /\ it' = it
  /\ NextComponent(TRUE)
  /\ UNCHANGED <<busVars, loc>>

ComponentInit ==
  /\ At("Init") /\ details # NoDetails
  /\ GoTo(IF skipComponentFromDetermineComponentState THEN "End"
          ELSE CASE details.state = "Disabled" -> "Disabled"
                 [] details.state \in {"PreInstalling", "Installing"}
                      -> "WriteInstallStarted"
                 [] OTHER -> "Ready")
  /\ Quiet

(* IsInstalled fails for a disabled component: it counts as not installed.  *)
InstalledCheckFails ==
  /\ At("Init") \/ (At("Ready") /\ ~skipComponentFromReadyState)
  /\ details # NoDetails /\ ~enabled(comp) /\ installed(comp)
  /\ GoTo("End")
  /\ Quiet

isVersionOk == loc.version = 0 \/ loc.version >= MinVersion[comp]

ComponentDisabled ==
  /\ At("Disabled")
  /\ GoTo(IF preUpgrade \/ isVersionOk THEN "WriteInstallStarted" ELSE "End")
  /\ Quiet

ComponentReady ==
  /\ At("Ready")
  /\ GoTo(IF skipComponentFromReadyState THEN "End"
          ELSE IF enabled(comp) THEN "WriteInstallStarted"
          ELSE IF installed(comp) THEN "Uninstall" ELSE "End")
  /\ Quiet

ComponentWriteInstallStarted ==
  /\ At("WriteInstallStarted")
  /\ WriteDetails(updateComponentStatus([details EXCEPT !.rg = 0],
                                        "InstallStarted", loc.gen))
  /\ GoTo("PreInstall")

(* isDependencyReady: disabled, reported Ready, or ready in the cluster.    *)
(* The faulty variant is content with any status.                           *)
isDependencyReady_Known(d) == ~enabled(d) \/ loc.comps[d] # NoDetails

isDependencyReady(d) ==
  ~enabled(d) \/ loc.comps[d].state = "Ready" \/ (installed(d) /\ ready[d])

ComponentDependenciesMet == \A d \in Deps[comp] : isDependencyReady(d)

ComponentPreInstall ==
  /\ At("PreInstall") /\ ComponentDependenciesMet
  /\ GoTo("Install")
  /\ Quiet

(* Helm installs the component from the bill of materials of this operator  *)
(* with values computed from the local copy and the overrides of now.       *)
HelmInstall ==
  /\ release' = [release EXCEPT ![comp] = [ver |-> bom, gen |-> loc.gen,
                                           current |-> TRUE]]
  /\ ready' = [ready EXCEPT ![comp] = FALSE]

ComponentInstall ==
  /\ At("Install")
  /\ HelmInstall
  /\ GoTo("WaitReady")
  /\ UNCHANGED <<crVars, busVars, processVars, dirty, overrideq, passVars, ut>>

ComponentWaitReady ==
  /\ At("WaitReady") /\ ready[comp]
  /\ GoTo("PostInstall")
  /\ Quiet

ComponentPostInstall ==
  /\ At("PostInstall")
  /\ GoTo("Complete")
  /\ Quiet

ComponentComplete ==
  /\ At("Complete")
  /\ WriteDetails(updateComponentStatus(details, "InstallComplete", loc.gen))
  /\ GoTo("End")

(* A failing call, a dependency or a workload that is not ready: the        *)
(* component keeps its place and the pass will be repeated.                 *)
ComponentBlocked ==
  /\ At("PreInstall") \/ At("Install") \/ At("WaitReady") \/ At("PostInstall")
  /\ At("WaitReady") => ~ready[comp]
  /\ it' = it
  /\ NextComponent(TRUE)
  /\ UNCHANGED <<busVars, loc>>

(* Faulty variant: the generation is not compared.                          *)
restartComponent_Always == loc.state \notin {"Upgrading", "Paused"} /\ enabled(comp)

restartComponentInstallFromEndState ==
  /\ loc.state \notin {"Upgrading", "Paused"}
  /\ enabled(comp) /\ checkConfigUpdated(loc, details)

ComponentEnd ==
  /\ At("End") /\ details # NoDetails /\ ~restartComponentInstallFromEndState
  /\ it' = it
  /\ NextComponent(FALSE)
  /\ UNCHANGED <<busVars, loc>>

(* The resource changed while the component was being installed.            *)
ComponentRestart ==
  /\ At("End") /\ details # NoDetails /\ restartComponentInstallFromEndState
  /\ SendDetails(OnlyDetails(updateComponentStatus(details, "PreInstall", loc.gen)))
  /\ GoTo("Init")
  /\ NextComponent(TRUE)

-------------------------------------------------------------------------------
(* uninstallSingleComponent, called for a component that was disabled.      *)

AtUninstall(s) == At("Uninstall") /\ it.un[comp] = s

GoToUninstall(s) == it' = [it EXCEPT !.un[comp] = s]

UninstallStart ==
  /\ AtUninstall("Start") /\ installed(comp)
  /\ WriteDetails(updateComponentStatus(details, "UninstallStarted", loc.gen))
  /\ GoToUninstall("PreUninstall")

UninstallPreUninstall ==
  /\ AtUninstall("PreUninstall")
  /\ GoToUninstall("Uninstall")
  /\ Quiet

UninstallUninstall ==
  /\ AtUninstall("Uninstall")
  /\ release' = [release EXCEPT ![comp] = NoRelease]
  /\ ready' = [ready EXCEPT ![comp] = FALSE]
  /\ GoToUninstall("WaitUninstalled")
  /\ UNCHANGED <<crVars, busVars, processVars, dirty, overrideq, passVars, ut>>

UninstallWaitUninstalled ==
  /\ AtUninstall("WaitUninstalled") /\ ~installed(comp)
  /\ GoToUninstall("Done")
  /\ Quiet

UninstallDone ==
  /\ AtUninstall("Done")
  /\ WriteDetails(updateComponentStatus(details, "UninstallComplete", loc.gen))
  /\ GoToUninstall("End")

UninstallEnd ==
  /\ AtUninstall("End")
  /\ GoTo("End")
  /\ Quiet

UninstallBlocked ==
  /\ \E s \in {"Start", "PreUninstall", "Uninstall", "WaitUninstalled"} : AtUninstall(s)
  /\ it' = it
  /\ NextComponent(TRUE)
  /\ UNCHANGED <<busVars, loc>>

-------------------------------------------------------------------------------
(* The end of the loop.                                                     *)

LoopDone == InTracker("InstallComponents") /\ cur > Len(registry)

(* Faulty variant: no requeue.                                              *)
ComponentsWaiting_Forgotten ==
  /\ LoopDone /\ again
  /\ EndQuietly(FALSE)
  /\ UNCHANGED <<crVars, processVars, chartVars, trackerVars>>

ComponentsWaiting ==
  /\ LoopDone /\ again
  /\ EndQuietly(TRUE)
  /\ UNCHANGED <<crVars, processVars, chartVars, trackerVars>>

ComponentsInstalled ==
  /\ LoopDone /\ ~again
  /\ SetTracker("PostInstall")
  /\ Quiet

(* ConfigureAuthProviders and ConfigureKeycloakOIDC, not before an upgrade.  *)
PostInstall ==
  /\ InTracker("PostInstall")
  /\ SetTracker("End")
  /\ Quiet

PostInstallFails ==
  /\ InTracker("PostInstall") /\ ~preUpgrade
  /\ EndQuietly(TRUE)
  /\ UNCHANGED <<crVars, processVars, chartVars, trackerVars>>

InstallStep ==
  \/ ReconcileWatched \/ ReconcileWatchedFails
  \/ DecideUpdate \/ SetGlobalInstallStatus
  \/ ComponentSkippedUnseen \/ ComponentStatusMissing \/ ComponentStatusUnknown
  \/ ComponentInit \/ ComponentDisabled \/ ComponentReady \/ InstalledCheckFails
  \/ ComponentWriteInstallStarted \/ ComponentPreInstall \/ ComponentInstall
  \/ ComponentWaitReady \/ ComponentPostInstall \/ ComponentComplete
  \/ ComponentBlocked \/ ComponentEnd \/ ComponentRestart
  \/ UninstallStart \/ UninstallPreUninstall \/ UninstallUninstall
  \/ UninstallWaitUninstalled \/ UninstallDone \/ UninstallEnd \/ UninstallBlocked
  \/ ComponentsWaiting \/ ComponentsInstalled \/ PostInstall \/ PostInstallFails
===============================================================================
