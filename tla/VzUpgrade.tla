------------------------------ MODULE VzUpgrade -------------------------------
(***************************************************************************)
(* reconcileUpgrade and upgradeSingleComponent: the upgrade tracker and    *)
(* its machine for each component.  Components are upgraded one at a time, *)
(* in registry order; whatever makes one wait ends the pass.               *)
(***************************************************************************)
EXTENDS VzInstall

getUpgradeTracker(cr) ==
  IF ut.gen = cr.gen THEN ut ELSE newUpgradeTracker(cr.gen)

(* Call reconcileUpgrade with the local copy.                               *)
EnterUpgrade ==
  /\ pc' = "upgrade" /\ cur' = 1
  /\ ut' = getUpgradeTracker(loc)

InUpgrade(s) == pc = "upgrade" /\ ut.state = s

SetUpgrade(s) == ut' = [ut EXCEPT !.state = s]

QuietUpgrade ==
  UNCHANGED <<crVars, busVars, processVars, dirty, chartVars, passVars, it>>

-------------------------------------------------------------------------------
(* reconcileUpgrade.                                                        *)

(* The condition is written unless it is the last one already.  The faulty  *)
(* variant announces the new version with it.                               *)
WriteUpgradeStarted_Version ==
  /\ InUpgrade("Start") /\ ~isLastCondition(loc, "UpgradeStarted")
  /\ EndSending(ConditionEvent(loc, "UpgradeStarted", loc.spec), TRUE)
  /\ UNCHANGED <<crVars, processVars, chartVars, trackerVars>>

WriteUpgradeStarted ==
  /\ InUpgrade("Start") /\ ~isLastCondition(loc, "UpgradeStarted")
  /\ EndSending(ConditionEvent(loc, "UpgradeStarted", 0), TRUE)
  /\ UNCHANGED <<crVars, processVars, chartVars, trackerVars>>

UpgradeStarted ==
  /\ InUpgrade("Start") /\ isLastCondition(loc, "UpgradeStarted")
  /\ SetUpgrade("UpgradeComponents")
  /\ QuietUpgrade

ComponentsUpgraded ==
  /\ InUpgrade("UpgradeComponents") /\ cur > Len(registry)
  /\ SetUpgrade("PostUpgrade")
  /\ QuietUpgrade

VzPostUpgrade ==
  /\ InUpgrade("PostUpgrade")
  /\ SetUpgrade("WaitPostUpgradeDone")
  /\ QuietUpgrade

InstalledReady == \A c \in Known : installed(c) => ready[c]

WaitPostUpgradeDone ==
  /\ InUpgrade("WaitPostUpgradeDone") /\ InstalledReady
  /\ SetUpgrade("RestartApps")
  /\ QuietUpgrade

RestartApps ==
  /\ InUpgrade("RestartApps")
  /\ SetUpgrade("UpgradeDone")
  /\ QuietUpgrade

(* An error, or a component that is not ready after post-upgrade.           *)
UpgradeWaits ==
  /\ \E s \in {"PostUpgrade", "WaitPostUpgradeDone", "RestartApps"} : InUpgrade(s)
  /\ EndQuietly(TRUE)
  /\ UNCHANGED <<crVars, processVars, chartVars, trackerVars>>

(* One event with the new version and, for every enabled component, the     *)
(* current generation as the last one reconciled.                           *)
UpgradeDone ==
  /\ InUpgrade("UpgradeDone")
  /\ HasRoom
  /\ LET ds == [c \in Comp |->
                  IF c \in Known \cap loc.enabled /\ loc.comps[c] # NoDetails
                  THEN [loc.comps[c] EXCEPT !.lrg = loc.gen] ELSE NoDetails]
     IN  chan' = Append([i \in DOMAIN chan |-> [Aliased(ds)[i] EXCEPT !.own = FALSE]],
                        [NoEvent EXCEPT !.comps = ds, !.version = loc.spec])
  /\ EndPass(TRUE)
  /\ SetUpgrade("End")
  /\ UNCHANGED <<crVars, drops, processVars, chartVars, it>>

(* vzStateEnd: the tracker is deleted and ProcUpgradingState goes on with   *)
(* the components to install after the upgrade.                             *)
UpgradeEnd ==
  /\ InUpgrade("End")
  /\ ut' = NoUpgradeTracker
  /\ EnterComponents(loc, "PostUpgrade")
  /\ UNCHANGED <<crVars, busVars, processVars, dirty, chartVars>>

-------------------------------------------------------------------------------
(* upgradeSingleComponent.                                                  *)

UpgradeAt(s) ==
  InUpgrade("UpgradeComponents") /\ cur <= Len(registry) /\ ut.comp[comp] = s

GoToUpgrade(s) == ut' = [ut EXCEPT !.comp[comp] = s]

WriteUpgradeDetails(d) ==
  /\ SendDetails(OnlyDetails(d))
  /\ UNCHANGED <<crVars, processVars, dirty, chartVars, pc, ret, cur, again, it>>

UpgradeInit ==
  /\ UpgradeAt("Init") /\ installed(comp)
  /\ WriteUpgradeDetails(updateComponentStatus(details, "UpgradeStarted", loc.gen))
  /\ GoToUpgrade("PreUpgrade")

(* Faulty variant: disabled components are skipped as well.                 *)
UpgradeNotInstalled_Disabled ==
  /\ UpgradeAt("Init") /\ ~(installed(comp) /\ enabled(comp))
  /\ GoToUpgrade("End")
  /\ QuietUpgrade

UpgradeNotInstalled ==
  /\ UpgradeAt("Init") /\ ~installed(comp)
  /\ GoToUpgrade("End")
  /\ QuietUpgrade

UpgradePreUpgrade ==
  /\ UpgradeAt("PreUpgrade")
  /\ GoToUpgrade("Upgrade")
  /\ QuietUpgrade

UpgradeUpgrade ==
  /\ UpgradeAt("Upgrade")
  /\ HelmInstall
  /\ GoToUpgrade("WaitReady")
  /\ UNCHANGED <<crVars, busVars, processVars, dirty, overrideq, passVars, it>>

UpgradeWaitReady ==
  /\ UpgradeAt("WaitReady") /\ ready[comp]
  /\ GoToUpgrade("PostUpgrade")
  /\ QuietUpgrade

UpgradePostUpgrade ==
  /\ UpgradeAt("PostUpgrade")
  /\ GoToUpgrade("Done")
  /\ QuietUpgrade

UpgradeComplete ==
  /\ UpgradeAt("Done")
  /\ WriteUpgradeDetails(updateComponentStatus(details, "UpgradeComplete", loc.gen))
  /\ GoToUpgrade("End")

UpgradeNext ==
  /\ UpgradeAt("End")
  /\ cur' = cur + 1
  /\ UNCHANGED <<crVars, busVars, processVars, dirty, chartVars, pc, loc, ret,
                 again, trackerVars>>

(* A failing call or a workload that is not ready ends the pass.  In the    *)
(* faulty variant the loop goes on, as that of installComponents does.      *)
UpgradeBlocked_GoesOn ==
  /\ \E s \in {"Init", "PreUpgrade", "Upgrade", "WaitReady", "PostUpgrade"} : UpgradeAt(s)
  /\ UpgradeAt("WaitReady") => ~ready[comp]
  /\ cur' = cur + 1
  /\ UNCHANGED <<crVars, busVars, processVars, dirty, chartVars, pc, loc, ret,
                 again, trackerVars>>

UpgradeBlocked ==
  /\ \E s \in {"Init", "PreUpgrade", "Upgrade", "WaitReady", "PostUpgrade"} : UpgradeAt(s)
  /\ UpgradeAt("WaitReady") => ~ready[comp]
  /\ EndQuietly(TRUE)
  /\ UNCHANGED <<crVars, processVars, chartVars, trackerVars>>

UpgradeStep ==
  \/ WriteUpgradeStarted \/ UpgradeStarted \/ ComponentsUpgraded
  \/ VzPostUpgrade \/ WaitPostUpgradeDone \/ RestartApps \/ UpgradeWaits
  \/ UpgradeDone \/ UpgradeEnd
  \/ UpgradeInit \/ UpgradeNotInstalled \/ UpgradePreUpgrade \/ UpgradeUpgrade
  \/ UpgradeWaitReady \/ UpgradePostUpgrade \/ UpgradeComplete \/ UpgradeNext
  \/ UpgradeBlocked
===============================================================================
