--------------------------- MODULE VzUpgrade_proofs ----------------------------
(***************************************************************************)
(* Proofs about upgrades: components are upgraded in the order of the      *)
(* registry, each only when those before it are up to date and ready, for  *)
(* any registry, with delayed reads, lost events, crashes and replacements *)
(* of the operator by newer ones at any time.                              *)
(***************************************************************************)
EXTENDS VzController_proofs

-------------------------------------------------------------------------------
(* The inductive invariant.                                                 *)

(* The generation the present pass, or else the next one, works on.         *)
PassGen == IF pc = "idle" THEN cache.gen ELSE loc.gen

(* Generations only grow, and a tracker in use is that of the pass.         *)
GenInv ==
  /\ cache.gen <= vz.gen
  /\ loc.gen <= cache.gen
  /\ ut.gen <= PassGen
  /\ pc = "components" => it.gen = loc.gen
  /\ pc = "upgrade" => ut.gen = loc.gen /\ it = NoInstallTracker

(* The loops over the registry leave finished components behind, unless     *)
(* they will start over.                                                    *)
LoopInv ==
  /\ pc = "components" /\ ~again =>
       \A i \in DOMAIN registry : i < cur => it.comp[registry[i]] = "End"
  /\ pc = "upgrade" =>
       \A i \in DOMAIN registry : i < cur => ut.comp[registry[i]] = "End"

(* An install tracker is finished with untouched machines or with none that *)
(* still waits.                                                             *)
MachineInv ==
  /\ it.state \in {"ReconcileWatched", "DecideUpdate", "SetGlobalInstallStatus"}
       => \A c \in Comp : it.comp[c] = "Init"
  /\ it.state \in {"PostInstall", "End"}
       => \A c \in Known : it.comp[c] # "WaitReady"

(* What has been upgraded is installed from this operator, and was ready:   *)
(* if it has been installed again since, its machine still waits for it, or *)
(* the resource has changed and the upgrade starts over.                    *)
UpgradedInv ==
  /\ \A c \in Comp :
       ut.comp[c] \in {"WaitReady", "PostUpgrade", "Done", "End"} /\ installed(c)
         => release[c].ver = bom
  /\ \A c \in Known :
       ut.comp[c] \in {"PostUpgrade", "Done", "End"} /\ installed(c)
         => \/ ready[c]
            \/ it.gen = ut.gen /\ it.comp[c] = "WaitReady"
            \/ ut.gen < PassGen

OrderInv == GenInv /\ LoopInv /\ MachineInv /\ UpgradedInv

-------------------------------------------------------------------------------
(* What the proofs need of the types.                                       *)
LEMMA OrderTypes ==
  ASSUME TypeInv
  PROVE  /\ vz.gen \in Nat /\ cache.gen \in Nat /\ loc.gen \in Nat
         /\ it.gen \in Nat /\ ut.gen \in Nat /\ PassGen \in Nat
         /\ it \in InstallTracker /\ ut \in UpgradeTracker
         /\ bom \in Nat \ {0}
         /\ DOMAIN registry = 1..Len(registry) /\ Len(registry) \in Nat
         /\ cur \in Nat \ {0} \/ pc \notin {"components", "upgrade"}
         /\ Known \subseteq Comp
         /\ \A i \in DOMAIN registry : registry[i] \in Known
         /\ release \in [Comp -> Release] /\ ready \in [Comp -> BOOLEAN]
<1>1. registry \in Seq(Comp)
  BY ComponentAssumption DEF registry, TypeInv, TypeOK, ProcessType
<1>2. DOMAIN registry = 1..Len(registry) /\ Len(registry) \in Nat
  BY <1>1
<1>3. Known \subseteq Comp
  BY <1>1, <1>2 DEF Known
<1>4. bom \in Nat \ {0}
  BY BoundAssumption DEF TypeInv, TypeOK, ProcessType
<1>5. \A i \in DOMAIN registry : registry[i] \in Known
  BY DEF Known
<1>6. cur \in Nat \ {0} \/ pc \notin {"components", "upgrade"}
  BY DEF TypeInv, TypeOK, PassType, LoopStarted
<1>. QED
  BY <1>2, <1>3, <1>4, <1>5, <1>6
     DEF TypeInv, TypeOK, CrType, PassType, TrackerType, Resource,
         InstallTracker, UpgradeTracker, ChartType, PassGen

LEMMA NothingReconciled == NoResource.gen = 0
BY Zenon DEF NoResource, NewResource

LEMMA FreshTrackers ==
  /\ NoInstallTracker.gen = 0 /\ NoUpgradeTracker.gen = 0
  /\ \A gen \in Nat :
       /\ newInstallTracker(gen).gen = gen
       /\ newInstallTracker(gen).state = "ReconcileWatched"
       /\ \A c \in Comp : newInstallTracker(gen).comp[c] = "Init"
       /\ newUpgradeTracker(gen).gen = gen
       /\ \A c \in Comp : newUpgradeTracker(gen).comp[c] = "Init"
  /\ NoInstallTracker.state = "ReconcileWatched"
  /\ \A c \in Comp : /\ NoInstallTracker.comp[c] = "Init"
                     /\ NoUpgradeTracker.comp[c] = "Init"
BY DEF NoInstallTracker, NoUpgradeTracker, newInstallTracker, newUpgradeTracker

-------------------------------------------------------------------------------
(* The ways a step keeps the invariant.                                     *)

(* Nothing it is about changes, or for the better.                          *)
LEMMA KeepsOrder ==
  ASSUME TypeInv, TypeInv', OrderInv, UNCHANGED <<cache, pc, cur, bom, it, ut>>,
         vz'.gen >= vz.gen, loc'.gen = loc.gen, again => again',
         \A c \in Comp : /\ release'[c].ver = release[c].ver
                         /\ ready[c] => ready'[c]
  PROVE  OrderInv'
<1>. USE OrderTypes DEF OrderInv
<1>1. registry' = registry /\ Known' = Known
  BY DEF registry, Known
<1>2. PassGen' = PassGen
  BY DEF PassGen
<1>3. GenInv'
  <2>1. vz'.gen \in Nat
    BY DEF TypeInv, TypeOK, CrType, Resource
  <2>. QED
    BY <1>2, <2>1 DEF GenInv
<1>4. LoopInv'
  BY <1>1 DEF LoopInv
<1>5. MachineInv'
  BY <1>1 DEF MachineInv
<1>6. UpgradedInv'
  BY <1>1, <1>2 DEF UpgradedInv, installed
<1>. QED
  BY <1>3, <1>4, <1>5, <1>6

(* The end of a pass, possibly with the last step of a tracker.             *)
LEMMA EndPassOrder ==
  ASSUME TypeInv, TypeInv', OrderInv, NEW r, EndPass(r),
         UNCHANGED <<crVars, bom, release, ready>>,
         ut'.gen = ut.gen, ut'.comp = ut.comp,
         \/ it' = it
         \/ it'.gen = it.gen /\ it'.comp = it.comp /\ it'.state = "InstallComponents"
         \/ it' = NoInstallTracker /\ it.state = "End"
  PROVE  OrderInv'
<1>. USE OrderTypes DEF OrderInv
<1>1. registry' = registry /\ Known' = Known /\ vz' = vz /\ cache' = cache
  BY DEF registry, Known, crVars
<1>2. pc' = "idle" /\ loc'.gen = 0
  BY NothingReconciled DEF EndPass
<1>3. PassGen' = cache.gen /\ PassGen <= cache.gen
  BY <1>1, <1>2 DEF PassGen, GenInv
<1>4. GenInv'
  BY <1>1, <1>2, <1>3 DEF GenInv
<1>5. LoopInv'
  BY <1>2 DEF LoopInv
<1>6. MachineInv'
  BY <1>1, FreshTrackers DEF MachineInv
<1>7. UpgradedInv'
  <2>1. ASSUME NEW c \in Known, it.gen = ut.gen, it.comp[c] = "WaitReady"
        PROVE  it'.gen = ut.gen /\ it'.comp[c] = "WaitReady"
    BY <2>1 DEF MachineInv
  <2>. QED
    BY <1>1, <1>3, <2>1 DEF UpgradedInv, installed, GenInv
<1>. QED
  BY <1>4, <1>5, <1>6, <1>7

(* A call of reconcileComponents.                                           *)
LEMMA EnterOrder ==
  ASSUME TypeInv, TypeInv', OrderInv, NEW cr, NEW caller,
         EnterComponents(cr, caller), cr.gen = loc.gen, pc # "idle",
         UNCHANGED <<crVars, bom, release, ready>>,
         ut' = ut \/ ut' = NoUpgradeTracker
  PROVE  OrderInv'
<1>. USE OrderTypes DEF OrderInv
<1>1. registry' = registry /\ Known' = Known /\ vz' = vz /\ cache' = cache
  BY DEF registry, Known, crVars
<1>2. pc' = "components" /\ loc' = cr /\ cur' = 1
  BY DEF EnterComponents
<1>3. PassGen' = loc.gen /\ PassGen = loc.gen
  BY <1>2 DEF PassGen
<1>4. \/ it' = it /\ it.gen = loc.gen
      \/ it' = newInstallTracker(loc.gen) /\ it.gen # loc.gen
  BY DEF EnterComponents, getInstallTracker
<1>5. GenInv'
  BY <1>1, <1>2, <1>3, <1>4, FreshTrackers DEF GenInv
<1>6. LoopInv'
  BY <1>1, <1>2 DEF LoopInv
<1>7. MachineInv'
  BY <1>1, <1>4, FreshTrackers DEF MachineInv
<1>8. UpgradedInv'
  <2>1. CASE ut' = NoUpgradeTracker
    BY <1>1, <2>1, FreshTrackers DEF UpgradedInv
  <2>2. CASE ut' = ut
    BY <1>1, <1>3, <1>4, <2>2 DEF UpgradedInv, GenInv, installed
  <2>. QED
    BY <2>1, <2>2
<1>. QED
  BY <1>5, <1>6, <1>7, <1>8

(* A step of the machine of a component that does not touch the charts.     *)
LEMMA MachineOrder ==
  ASSUME TypeInv, TypeInv', OrderInv, InLoop,
         UNCHANGED <<crVars, bom, release, ready, pc, ut>>, loc'.gen = loc.gen,
         it'.gen = it.gen, it'.state = it.state,
         \A c \in Comp \ {comp} : it'.comp[c] = it.comp[c],
         it.comp[comp] = "WaitReady" => it'.comp[comp] = "WaitReady" \/ ready[comp],
         it.comp[comp] = "End" /\ ~again' => it'.comp[comp] = "End",
         again => again',
         cur' = cur \/ (cur' = cur + 1 /\ (again' \/ it'.comp[comp] = "End"))
  PROVE  OrderInv'
<1>. USE OrderTypes DEF OrderInv
<1>1. registry' = registry /\ Known' = Known /\ vz' = vz /\ cache' = cache
  BY DEF registry, Known, crVars
<1>2. PassGen' = PassGen
  BY <1>1 DEF PassGen
<1>3. pc = "components" /\ it.state = "InstallComponents" /\ comp \in Known
  BY DEF InLoop, InTracker, comp, Known
<1>4. GenInv'
  BY <1>1, <1>2, <1>3 DEF GenInv
<1>5. LoopInv'
  <2>. SUFFICES ASSUME ~again', NEW i \in DOMAIN registry, i < cur'
                PROVE  it'.comp[registry[i]] = "End"
    BY <1>1, <1>3 DEF LoopInv
  <2>1. CASE i < cur
    <3>1. it.comp[registry[i]] = "End"
      BY <1>3, <2>1 DEF LoopInv
    <3>. QED
      BY <3>1
  <2>2. CASE ~(i < cur)
    BY <1>3, <2>2 DEF comp
  <2>. QED
    BY <2>1, <2>2
<1>6. MachineInv'
  BY <1>3 DEF MachineInv
<1>7. UpgradedInv'
  BY <1>1, <1>2 DEF UpgradedInv, installed
<1>. QED
  BY <1>4, <1>5, <1>6, <1>7

-------------------------------------------------------------------------------
(* The parts of Next.                                                       *)

LEMMA EnvironmentOrder ==
  ASSUME TypeInv, TypeInv', OrderInv, Environment
  PROVE  OrderInv'
<1>. USE OrderTypes
<1>1. vz \in Resource /\ release \in [Comp -> Release]
  BY DEF TypeInv, TypeOK, CrType
<1>2. CASE ApplyEvent
  <2>1. vz'.gen = vz.gen
    BY <1>1, <1>2 DEF ApplyEvent, merge, Resource
  <2>. QED
    BY <1>2, <2>1, KeepsOrder
       DEF ApplyEvent, processVars, chartVars, passVars, trackerVars
<1>3. CASE DropEvent
  BY <1>3, KeepsOrder
     DEF DropEvent, crVars, processVars, chartVars, passVars, trackerVars
<1>4. CASE SyncCache
  <2>. USE <1>4 DEF SyncCache, processVars, chartVars, passVars, trackerVars
  <2>1. registry' = registry /\ Known' = Known
    BY DEF registry, Known
  <2>2. PassGen <= PassGen' /\ PassGen' \in Nat
    BY DEF PassGen, OrderInv, GenInv
  <2>3. GenInv'
    BY <2>2 DEF OrderInv, GenInv
  <2>4. LoopInv' /\ MachineInv'
    BY <2>1 DEF OrderInv, LoopInv, MachineInv
  <2>5. UpgradedInv'
    BY <2>1, <2>2 DEF OrderInv, UpgradedInv, installed
  <2>. QED
    BY <2>3, <2>4, <2>5 DEF OrderInv
<1>5. CASE WatchedEvent
  BY <1>5, KeepsOrder
     DEF WatchedEvent, crVars, processVars, chartVars, passVars, trackerVars
<1>6. ASSUME NEW version, NEW enab, EditSpec(version, enab)
      PROVE  OrderInv'
  <2>1. vz'.gen = vz.gen + 1
    BY <1>1, <1>6 DEF EditSpec, Resource
  <2>. QED
    BY <1>6, <2>1, KeepsOrder
       DEF EditSpec, processVars, chartVars, passVars, trackerVars
<1>7. ASSUME NEW c \in Comp, EditOverride(c)
      PROVE  OrderInv'
  <2>1. \A d \in Comp : release'[d].ver = release[d].ver
    BY <1>1, <1>7 DEF EditOverride, Release
  <2>. QED
    BY <1>7, <2>1, KeepsOrder
       DEF EditOverride, crVars, processVars, passVars, trackerVars
<1>8. ASSUME NEW c \in Comp, ReconcileOverride(c)
      PROVE  OrderInv'
  BY <1>8, KeepsOrder
     DEF ReconcileOverride, crVars, processVars, passVars, trackerVars
<1>9. ASSUME NEW c \in Comp, BecomeReady(c)
      PROVE  OrderInv'
  <2>1. \A d \in Comp : ready[d] => ready'[d]
    BY <1>9 DEF BecomeReady
  <2>. QED
    BY <1>9, <2>1, KeepsOrder
       DEF BecomeReady, crVars, processVars, passVars, trackerVars
<1>10. ASSUME StartProcess
       PROVE  OrderInv'
  <2>. USE <1>10 DEF StartProcess
  <2>1. pc' = "idle" /\ loc'.gen = 0 /\ ut'.gen = 0
    BY FreshTrackers, NothingReconciled
  <2>2. GenInv'
    BY <2>1 DEF GenInv, PassGen
  <2>3. LoopInv'
    BY <2>1 DEF LoopInv
  <2>4. MachineInv' /\ UpgradedInv'
    <3>1. Known' \subseteq Comp
      <4>1. registry' \in Seq(Comp)
        BY ComponentAssumption DEF registry, TypeInv, TypeOK, ProcessType
      <4>. QED
        BY <4>1 DEF Known
    <3>. QED
      BY <3>1, FreshTrackers DEF MachineInv, UpgradedInv
  <2>. QED
    BY <2>2, <2>3, <2>4 DEF OrderInv
<1>. QED
  BY <1>2, <1>3, <1>4, <1>5, <1>6, <1>7, <1>8, <1>9, <1>10
     DEF Environment, Restart, ReplaceOperator

LEMMA InstallStepOrder ==
  ASSUME TypeInv, TypeInv', OrderInv, InstallStep
  PROVE  OrderInv'
<1>. USE OrderTypes DEF crVars, processVars, passVars, chartVars, trackerVars
<1>1. loc \in Resource
  BY DEF TypeInv, TypeOK, PassType
<1>2. InLoop => comp \in Known
  <2>. SUFFICES ASSUME InLoop PROVE comp \in Known
    OBVIOUS
  <2>1. pc = "components" /\ cur <= Len(registry)
    BY DEF InLoop, InTracker
  <2>2. cur \in DOMAIN registry
    BY <2>1
  <2>. QED
    BY <2>2 DEF comp
<1>3. CASE ReconcileWatched \/ DecideUpdate
  <2>1. /\ it'.state \in {"DecideUpdate", "InstallComponents",
                          "SetGlobalInstallStatus", "End"}
        /\ it'.comp = it.comp /\ it'.gen = it.gen
        /\ it.state \in {"ReconcileWatched", "DecideUpdate"}
        /\ UNCHANGED <<crVars, bom, release, ready, passVars, ut>>
    BY <1>3 DEF ReconcileWatched, DecideUpdate, InTracker, SetTracker,
                InstallTracker
  <2>2. pc = "components"
    BY <1>3 DEF ReconcileWatched, DecideUpdate, InTracker
  <2>. QED
    BY <2>1, <2>2 DEF OrderInv, GenInv, LoopInv, MachineInv, UpgradedInv, PassGen,
                      registry, Known, installed
<1>4. CASE ReconcileWatchedFails \/ ComponentsWaiting \/ PostInstallFails
  BY <1>4, EndPassOrder
     DEF ReconcileWatchedFails, ComponentsWaiting, PostInstallFails, EndQuietly
<1>5. CASE SetGlobalInstallStatus
  <2>1. /\ it'.gen = it.gen /\ it'.comp = it.comp
        /\ it'.state = "InstallComponents"
    BY <1>5 DEF SetGlobalInstallStatus, SetTracker, InstallTracker
  <2>. QED
    BY <1>5, <2>1, EndPassOrder DEF SetGlobalInstallStatus, EndSending
<1>6. CASE ComponentsInstalled \/ PostInstall
  <2>1. /\ it'.state \in {"PostInstall", "End"}
        /\ it'.comp = it.comp /\ it'.gen = it.gen
        /\ pc = "components"
        /\ UNCHANGED <<crVars, bom, release, ready, passVars, ut>>
    BY <1>6 DEF ComponentsInstalled, PostInstall, LoopDone, InTracker, SetTracker,
                InstallTracker, Quiet
  <2>2. \A c \in Known : it.comp[c] # "WaitReady"
    <3>1. CASE ComponentsInstalled
      BY <3>1 DEF ComponentsInstalled, LoopDone, OrderInv, LoopInv, Known, InTracker
    <3>2. CASE PostInstall
      BY <3>2 DEF PostInstall, InTracker, OrderInv, MachineInv
    <3>. QED
      BY <1>6, <3>1, <3>2
  <2>. QED
    BY <2>1, <2>2 DEF OrderInv, GenInv, LoopInv, MachineInv, UpgradedInv, PassGen,
                      registry, Known, installed
<1>7. CASE ComponentStatusMissing
  <2>1. pc = "components"
    BY <1>7 DEF ComponentStatusMissing, StatusMissing, At, InLoop, InTracker
  <2>. QED
    BY <1>7, <2>1
       DEF ComponentStatusMissing, OrderInv, GenInv, LoopInv, MachineInv,
           UpgradedInv, PassGen, registry, Known, installed
<1>8. ASSUME NEW s, GoTo(s), InLoop
      PROVE  /\ it'.gen = it.gen /\ it'.state = it.state /\ it'.comp[comp] = s
             /\ \A c \in Comp \ {comp} : it'.comp[c] = it.comp[c]
  BY <1>2, <1>8 DEF GoTo, InstallTracker
<1>9. CASE \/ ComponentInit \/ ComponentDisabled \/ ComponentReady
           \/ InstalledCheckFails \/ ComponentPreInstall \/ ComponentWaitReady
           \/ ComponentPostInstall
  <2>1. PICK s \in InstallStates : GoTo(s)
    BY <1>9 DEF ComponentInit, ComponentDisabled, ComponentReady,
                InstalledCheckFails, ComponentPreInstall, ComponentWaitReady,
                ComponentPostInstall, InstallStates
  <2>2. /\ InLoop /\ it.comp[comp] # "End"
        /\ it.comp[comp] = "WaitReady" => ready[comp]
        /\ Quiet
    BY <1>9 DEF ComponentInit, ComponentDisabled, ComponentReady,
                InstalledCheckFails, ComponentPreInstall, ComponentWaitReady,
                ComponentPostInstall, At
  <2>. QED
    BY <1>8, <2>1, <2>2, MachineOrder DEF Quiet
<1>10. ASSUME NEW d, WriteDetails(d), InLoop
       PROVE  /\ UNCHANGED <<crVars, bom, release, ready, pc, ut, cur, again>>
              /\ loc'.gen = loc.gen
  BY <1>1, <1>10 DEF WriteDetails, SendDetails, Resource
<1>11. CASE ComponentWriteInstallStarted \/ ComponentComplete
  <2>1. /\ InLoop /\ it.comp[comp] \notin {"WaitReady", "End"}
        /\ \E d : WriteDetails(d)
        /\ \E s : GoTo(s)
    BY <1>11 DEF ComponentWriteInstallStarted, ComponentComplete, At
  <2>. QED
    BY <1>8, <1>10, <2>1, MachineOrder
<1>12. CASE ComponentInstall
  <2>1. /\ InLoop /\ pc = "components" /\ it.state = "InstallComponents"
        /\ it.comp[comp] = "Install" /\ HelmInstall
        /\ GoTo("WaitReady")
        /\ UNCHANGED <<crVars, bom, passVars, ut>>
    BY <1>12 DEF ComponentInstall, At, InLoop, InTracker
  <2>2. registry' = registry /\ Known' = Known /\ PassGen' = PassGen
    BY <2>1 DEF registry, Known, PassGen
  <2>3. /\ it'.gen = it.gen /\ it'.state = it.state /\ it'.comp[comp] = "WaitReady"
        /\ \A c \in Comp \ {comp} : it'.comp[c] = it.comp[c]
    BY <1>8, <2>1
  <2>4. /\ release'[comp].ver = bom
        /\ \A c \in Comp \ {comp} : release'[c] = release[c] /\ ready'[c] = ready[c]
    BY <1>2, <2>1 DEF HelmInstall
  <2>5. GenInv'
    BY <2>1, <2>2, <2>3 DEF OrderInv, GenInv
  <2>6. LoopInv'
    BY <1>2, <2>1, <2>2, <2>3 DEF OrderInv, LoopInv
  <2>7. MachineInv'
    BY <2>1, <2>3 DEF MachineInv
  <2>8. UpgradedInv'
    <3>1. ut.gen = it.gen \/ ut.gen < PassGen
      BY <2>1 DEF OrderInv, GenInv, PassGen
    <3>. QED
      BY <1>2, <2>1, <2>2, <2>3, <2>4, <3>1 DEF OrderInv, UpgradedInv, installed
  <2>. QED
    BY <2>5, <2>6, <2>7, <2>8 DEF OrderInv
<1>13. CASE ComponentStatusUnknown \/ ComponentBlocked \/ UninstallBlocked
  <2>1. /\ InLoop /\ it' = it /\ loc' = loc /\ NextComponent(TRUE)
    BY <1>13 DEF ComponentStatusUnknown, StatusMissing, ComponentBlocked,
                 UninstallBlocked, AtUninstall, At
  <2>. QED
    BY <2>1, MachineOrder DEF NextComponent
<1>14. CASE ComponentEnd
  <2>1. /\ InLoop /\ it' = it /\ loc' = loc /\ NextComponent(FALSE)
        /\ it.comp[comp] = "End"
    BY <1>14 DEF ComponentEnd, At
  <2>. QED
    BY <2>1, MachineOrder DEF NextComponent
<1>15. CASE ComponentSkippedUnseen
  <2>1. /\ InLoop /\ GoTo("End") /\ loc' = loc /\ NextComponent(FALSE)
        /\ it.comp[comp] # "WaitReady"
    BY <1>15 DEF ComponentSkippedUnseen, StatusMissing, At
  <2>. QED
    BY <1>8, <2>1, MachineOrder DEF NextComponent
<1>16. CASE ComponentRestart
  <2>1. /\ InLoop /\ GoTo("Init") /\ NextComponent(TRUE)
        /\ it.comp[comp] = "End" /\ loc'.gen = loc.gen
    BY <1>1, <1>16 DEF ComponentRestart, At, SendDetails, Resource
  <2>. QED
    BY <1>8, <2>1, MachineOrder DEF NextComponent
<1>17. ASSUME NEW s, GoToUninstall(s), InLoop
       PROVE  /\ it'.gen = it.gen /\ it'.state = it.state /\ it'.comp = it.comp
  BY <1>2, <1>17 DEF GoToUninstall, InstallTracker
<1>18. CASE UninstallStart \/ UninstallDone
  <2>1. /\ InLoop /\ it.comp[comp] \notin {"WaitReady", "End"}
        /\ \E d : WriteDetails(d)
        /\ \E s : GoToUninstall(s)
    BY <1>18 DEF UninstallStart, UninstallDone, AtUninstall, At
  <2>. QED
    BY <1>10, <1>17, <2>1, MachineOrder
<1>19. CASE UninstallPreUninstall \/ UninstallWaitUninstalled
  <2>1. /\ InLoop /\ it.comp[comp] \notin {"WaitReady", "End"} /\ Quiet
        /\ \E s : GoToUninstall(s)
    BY <1>19 DEF UninstallPreUninstall, UninstallWaitUninstalled, AtUninstall, At
  <2>. QED
    BY <1>17, <2>1, MachineOrder DEF Quiet
<1>20. CASE UninstallEnd
  <2>1. /\ InLoop /\ it.comp[comp] \notin {"WaitReady", "End"} /\ Quiet
        /\ GoTo("End")
    BY <1>20 DEF UninstallEnd, AtUninstall, At
  <2>. QED
    BY <1>8, <2>1, MachineOrder DEF Quiet
<1>21. CASE UninstallUninstall
  <2>1. /\ InLoop /\ pc = "components" /\ it.state = "InstallComponents"
        /\ GoToUninstall("WaitUninstalled")
        /\ UNCHANGED <<crVars, bom, passVars, ut>>
    BY <1>21 DEF UninstallUninstall, AtUninstall, At, InLoop, InTracker
  <2>2. registry' = registry /\ Known' = Known /\ PassGen' = PassGen
    BY <2>1 DEF registry, Known, PassGen
  <2>3. it'.gen = it.gen /\ it'.state = it.state /\ it'.comp = it.comp
    BY <1>17, <2>1
  <2>4. /\ release'[comp].ver = 0
        /\ \A c \in Comp \ {comp} : release'[c] = release[c] /\ ready'[c] = ready[c]
    BY <1>2, <1>21, <2>1 DEF UninstallUninstall, NoRelease
  <2>5. GenInv' /\ LoopInv' /\ MachineInv'
    BY <2>1, <2>2, <2>3 DEF OrderInv, GenInv, LoopInv, MachineInv
  <2>6. UpgradedInv'
    BY <1>2, <2>1, <2>2, <2>3, <2>4 DEF OrderInv, UpgradedInv, installed
  <2>. QED
    BY <2>5, <2>6 DEF OrderInv
<1>. QED
  BY <1>3, <1>4, <1>5, <1>6, <1>7, <1>9, <1>11, <1>12, <1>13, <1>14, <1>15, <1>16,
     <1>18, <1>19, <1>20, <1>21 DEF InstallStep

LEMMA UpgradeStepOrder ==
  ASSUME TypeInv, TypeInv', OrderInv, UpgradeStep
  PROVE  OrderInv'
<1>. USE OrderTypes DEF crVars, processVars, passVars, chartVars, trackerVars
<1>1. loc \in Resource
  BY DEF TypeInv, TypeOK, PassType
<1>2. \A s : InUpgrade(s) => pc = "upgrade" /\ ut.state = s
  BY DEF InUpgrade
<1>3. \A s : UpgradeAt(s) => comp \in Known /\ pc = "upgrade" /\ ut.comp[comp] = s
  BY DEF UpgradeAt, InUpgrade, comp
(* A step of the machine of a component that does not touch the charts.     *)
<1>4. ASSUME pc = "upgrade", UNCHANGED <<crVars, bom, release, ready, pc, cur, it>>,
             loc'.gen = loc.gen, ut'.gen = ut.gen,
             \/ ut'.comp = ut.comp
             \/ /\ comp \in Known /\ ut.comp[comp] # "End"
                /\ \A c \in Comp \ {comp} : ut'.comp[c] = ut.comp[c]
                /\ ut'.comp[comp] \in {"PostUpgrade", "Done", "End"} /\ installed(comp) =>
                      \/ ut.comp[comp] \in {"PostUpgrade", "Done"}
                      \/ ut.comp[comp] = "WaitReady" /\ ready[comp]
                /\ ut'.comp[comp] # "WaitReady"
      PROVE  OrderInv'
  <2>. USE <1>4
  <2>1. registry' = registry /\ Known' = Known /\ PassGen' = PassGen
    BY DEF registry, Known, PassGen
  <2>2. GenInv' /\ MachineInv'
    BY <2>1 DEF OrderInv, GenInv, MachineInv
  <2>3. LoopInv'
    BY <2>1 DEF OrderInv, LoopInv
  <2>4. UpgradedInv'
    BY <2>1 DEF OrderInv, UpgradedInv, installed
  <2>. QED
    BY <2>2, <2>3, <2>4 DEF OrderInv
<1>5. ASSUME NEW s, SetUpgrade(s)
      PROVE  ut'.gen = ut.gen /\ ut'.comp = ut.comp
  BY <1>5 DEF SetUpgrade, UpgradeTracker
<1>6. CASE \/ UpgradeStarted \/ ComponentsUpgraded \/ VzPostUpgrade
           \/ WaitPostUpgradeDone \/ RestartApps
  <2>1. pc = "upgrade" /\ QuietUpgrade /\ \E s : SetUpgrade(s)
    BY <1>6 DEF UpgradeStarted, ComponentsUpgraded, VzPostUpgrade,
                WaitPostUpgradeDone, RestartApps, InUpgrade
  <2>. QED
    BY <1>4, <1>5, <2>1 DEF QuietUpgrade
<1>7. CASE WriteUpgradeStarted \/ UpgradeWaits \/ UpgradeBlocked
  BY <1>7, EndPassOrder
     DEF WriteUpgradeStarted, UpgradeWaits, UpgradeBlocked, EndQuietly, EndSending
<1>8. CASE UpgradeDone
  BY <1>5, <1>8, EndPassOrder DEF UpgradeDone
<1>9. CASE UpgradeEnd
  BY <1>2, <1>9, EnterOrder DEF UpgradeEnd
<1>10. ASSUME NEW s, GoToUpgrade(s), comp \in Known
       PROVE  /\ ut'.gen = ut.gen /\ ut'.state = ut.state /\ ut'.comp[comp] = s
              /\ \A c \in Comp \ {comp} : ut'.comp[c] = ut.comp[c]
  BY <1>10 DEF GoToUpgrade, UpgradeTracker
<1>11. CASE \/ UpgradeNotInstalled \/ UpgradePreUpgrade \/ UpgradeWaitReady
            \/ UpgradePostUpgrade
  BY <1>3, <1>4, <1>10, <1>11
     DEF UpgradeNotInstalled, UpgradePreUpgrade, UpgradeWaitReady,
         UpgradePostUpgrade, QuietUpgrade
<1>12. ASSUME NEW d, WriteUpgradeDetails(d)
       PROVE  /\ UNCHANGED <<crVars, bom, release, ready, pc, cur, it>>
              /\ loc'.gen = loc.gen
  BY <1>1, <1>12 DEF WriteUpgradeDetails, SendDetails, Resource
<1>13. CASE UpgradeInit
  BY <1>3, <1>4, <1>10, <1>12, <1>13 DEF UpgradeInit
<1>14. CASE UpgradeComplete
  BY <1>3, <1>4, <1>10, <1>12, <1>14 DEF UpgradeComplete
<1>15. CASE UpgradeUpgrade
  <2>1. /\ comp \in Known /\ pc = "upgrade" /\ ut.comp[comp] = "Upgrade"
        /\ HelmInstall /\ GoToUpgrade("WaitReady")
        /\ UNCHANGED <<crVars, bom, passVars, it>>
    BY <1>3, <1>15 DEF UpgradeUpgrade
  <2>2. registry' = registry /\ Known' = Known /\ PassGen' = PassGen
    BY <2>1 DEF registry, Known, PassGen
  <2>3. /\ ut'.gen = ut.gen /\ ut'.comp[comp] = "WaitReady"
        /\ \A c \in Comp \ {comp} : ut'.comp[c] = ut.comp[c]
    BY <1>10, <2>1
  <2>4. /\ release'[comp].ver = bom
        /\ \A c \in Comp \ {comp} : release'[c] = release[c] /\ ready'[c] = ready[c]
    BY <2>1 DEF HelmInstall
  <2>5. GenInv' /\ MachineInv'
    BY <2>1, <2>2, <2>3 DEF OrderInv, GenInv, MachineInv
  <2>6. LoopInv'
    BY <2>1, <2>2, <2>3 DEF OrderInv, LoopInv
  <2>7. UpgradedInv'
    BY <2>1, <2>2, <2>3, <2>4 DEF OrderInv, UpgradedInv, installed
  <2>. QED
    BY <2>5, <2>6, <2>7 DEF OrderInv
<1>16. CASE UpgradeNext
  <2>1. /\ pc = "upgrade" /\ ut.comp[comp] = "End" /\ cur' = cur + 1
        /\ UNCHANGED <<crVars, bom, release, ready, pc, loc, again, it, ut>>
    BY <1>3, <1>16 DEF UpgradeNext
  <2>2. registry' = registry /\ Known' = Known /\ PassGen' = PassGen
    BY <2>1 DEF registry, Known, PassGen
  <2>3. LoopInv'
    BY <2>1, <2>2 DEF OrderInv, LoopInv, comp
  <2>. QED
    BY <2>1, <2>2, <2>3 DEF OrderInv, GenInv, MachineInv, UpgradedInv, installed
<1>. QED
  BY <1>6, <1>7, <1>8, <1>9, <1>11, <1>13, <1>14, <1>15, <1>16 DEF UpgradeStep

LEMMA ReconcileOrder ==
  ASSUME TypeInv, TypeInv', OrderInv, Reconcile
  PROVE  OrderInv'
<1>1. loc \in Resource /\ cache \in Resource
  BY DEF TypeInv, TypeOK, PassType, CrType
<1>8. cache.state \notin {"idle", "components", "upgrade"}
  <2>1. cache.state \in VzStates
    BY <1>1 DEF Resource
  <2>. QED
    BY <2>1, Zenon DEF VzStates
<1>9. ProcNew => UNCHANGED <<crVars, bom, release, ready, it, ut>> /\ EndPass(TRUE)
  BY Zenon DEF ProcNew, EndSending, crVars, processVars, chartVars, trackerVars
<1>. USE OrderTypes DEF crVars, processVars, passVars, chartVars, trackerVars
<1>2. CASE StartPass
  <2>1. /\ pc = "idle" /\ loc' = cache /\ pc' = cache.state
        /\ UNCHANGED <<crVars, bom, release, ready, it, ut>>
    BY <1>2 DEF StartPass
  <2>3. registry' = registry /\ Known' = Known
    BY <2>1 DEF registry, Known
  <2>4. PassGen' = PassGen /\ loc'.gen = cache.gen
    BY <1>8, <2>1 DEF PassGen
  <2>5. GenInv'
    BY <1>8, <2>1, <2>4 DEF OrderInv, GenInv
  <2>6. LoopInv' /\ MachineInv'
    BY <1>8, <2>1, <2>3 DEF OrderInv, LoopInv, MachineInv
  <2>7. UpgradedInv'
    BY <2>1, <2>3, <2>4 DEF OrderInv, UpgradedInv, installed
  <2>. QED
    BY <2>5, <2>6, <2>7 DEF OrderInv
<1>3. CASE \/ ProcNew \/ InitializeComponentStatus \/ InitializationFails
           \/ VersionUnparsable \/ StartUpgrade \/ InstallPrerequisiteFails
           \/ AlreadyInstalled \/ StartInstall \/ PauseUpgrade \/ ResumeUpgrade
           \/ StayPaused
  <2>. DEFINE Ends == /\ UNCHANGED <<crVars, bom, release, ready, it, ut>>
                      /\ EndPass(TRUE) \/ EndPass(FALSE)
  <2>1. ProcNew => Ends
    BY <1>9
  <2>2. InitializeComponentStatus => Ends
    BY DEF InitializeComponentStatus, EndSending
  <2>3. InitializationFails => Ends
    BY DEF InitializationFails, EndQuietly
  <2>4. VersionUnparsable => Ends
    BY DEF VersionUnparsable, EndQuietly
  <2>5. StartUpgrade => Ends
    BY DEF StartUpgrade, EndSending
  <2>6. InstallPrerequisiteFails => Ends
    BY DEF InstallPrerequisiteFails, EndQuietly
  <2>7. AlreadyInstalled => Ends
    BY DEF AlreadyInstalled, EndSending
  <2>8. StartInstall => Ends
    BY DEF StartInstall, EndSending
  <2>9. PauseUpgrade => Ends
    BY DEF PauseUpgrade, EndSending
  <2>10. ResumeUpgrade => Ends
    BY DEF ResumeUpgrade, EndSending
  <2>11. StayPaused => Ends
    BY DEF StayPaused, EndQuietly
  <2>12. Ends
    BY <1>3, <2>1, <2>2, <2>3, <2>4, <2>5, <2>6, <2>7, <2>8, <2>9, <2>10, <2>11
  <2>. HIDE DEF Ends
  <2>13. UNCHANGED <<crVars, bom, release, ready, it, ut>>
    BY <2>12 DEF Ends
  <2>14. EndPass(TRUE) \/ EndPass(FALSE)
    BY <2>12 DEF Ends
  <2>. QED
    BY <2>13, <2>14, EndPassOrder
<1>4. CASE ReconcileReady \/ ProcReconciling \/ ProcUpgrading
  <2>1. PICK cr, caller : EnterComponents(cr, caller) /\ cr.gen = loc.gen
    BY <1>1, <1>4 DEF ReconcileReady, ProcReconciling, ProcUpgrading, Resource
  <2>2. pc # "idle"
    BY <1>4 DEF ReconcileReady, ProcReady, ProcReconciling, ProcUpgrading
  <2>3. UNCHANGED <<crVars, bom, release, ready, ut>>
    BY <1>4 DEF ReconcileReady, ProcReconciling, ProcUpgrading
  <2>. QED
    BY <2>1, <2>2, <2>3, EnterOrder
<1>5. CASE FinishReady \/ FinishInstall \/ FinishUpgrade
  <2>1. /\ it.state = "End" /\ it' = NoInstallTracker
        /\ UNCHANGED <<crVars, bom, release, ready, ut>>
        /\ \E r : EndPass(r)
    BY <1>5 DEF FinishReady, FinishInstall, FinishUpgrade, Finished, InTracker,
                EndQuietly, EndSending
  <2>. QED
    BY <2>1, EndPassOrder
<1>6. CASE FinishPreUpgrade
  <2>1. /\ pc = "components" /\ it.state = "End" /\ it' = NoInstallTracker
        /\ pc' = "upgrade" /\ cur' = 1 /\ loc' = loc
        /\ UNCHANGED <<crVars, bom, release, ready>>
    BY <1>6 DEF FinishPreUpgrade, Finished, InTracker, EnterUpgrade
  <2>2. \/ ut' = ut /\ ut.gen = loc.gen
        \/ ut' = newUpgradeTracker(loc.gen)
    BY <1>6 DEF FinishPreUpgrade, EnterUpgrade, getUpgradeTracker
  <2>3. registry' = registry /\ Known' = Known /\ PassGen' = loc.gen /\ PassGen = loc.gen
    BY <2>1 DEF registry, Known, PassGen
  <2>4. GenInv' /\ LoopInv' /\ MachineInv'
    BY <2>1, <2>2, <2>3, FreshTrackers
       DEF OrderInv, GenInv, LoopInv, MachineInv
  <2>5. UpgradedInv'
    BY <2>1, <2>2, <2>3, FreshTrackers
       DEF OrderInv, MachineInv, UpgradedInv, installed
  <2>. QED
    BY <2>4, <2>5 DEF OrderInv
<1>7. CASE SkipUpgrade
  <2>1. /\ pc = "components" /\ it.state = "End"
        /\ it' = newInstallTracker(loc.gen) /\ cur' = 1
        /\ UNCHANGED <<crVars, bom, release, ready, pc, loc, ut>>
    BY <1>7 DEF SkipUpgrade, InTracker
  <2>2. registry' = registry /\ Known' = Known /\ PassGen' = PassGen
    BY <2>1 DEF registry, Known, PassGen
  <2>3. GenInv' /\ LoopInv' /\ MachineInv'
    BY <2>1, <2>2, FreshTrackers DEF OrderInv, GenInv, LoopInv, MachineInv
  <2>4. UpgradedInv'
    BY <2>1, <2>2 DEF OrderInv, MachineInv, UpgradedInv, installed
  <2>. QED
    BY <2>3, <2>4 DEF OrderInv
<1>. QED
  BY <1>2, <1>3, <1>4, <1>5, <1>6, <1>7 DEF Reconcile

LEMMA InitOrder ==
  ASSUME Init
  PROVE  OrderInv
<1>1. /\ pc = "idle" /\ cache = vz /\ loc = NoResource
      /\ it = NoInstallTracker /\ ut = NoUpgradeTracker
  BY DEF Init, IdlePass
<1>2. vz.gen = 1 /\ loc.gen = 0
  <2>1. PICK spec, enab : vz = NewResource(1, spec, enab)
    BY DEF Init
  <2>. QED
    BY <1>1, <2>1, Zenon DEF NewResource, NoResource
<1>3. TypeInv
  BY InitType
<1>. QED
  BY <1>1, <1>2, <1>3, OrderTypes, FreshTrackers
     DEF OrderInv, GenInv, LoopInv, MachineInv, UpgradedInv, PassGen

LEMMA OrderInvariant == Spec => [](TypeInv /\ OrderInv)
<1>1. Init => TypeInv /\ OrderInv
  BY InitType, InitOrder
<1>2. TypeInv /\ OrderInv /\ [Next]_vars => (TypeInv /\ OrderInv)'
  <2>. SUFFICES ASSUME TypeInv, OrderInv, [Next]_vars
                PROVE  (TypeInv /\ OrderInv)'
    OBVIOUS
  <2>1. TypeInv'
    BY NextType
  <2>2. CASE UNCHANGED vars
    BY <2>1, <2>2, KeepsOrder, OrderTypes DEF vars
  <2>. QED
    BY <2>1, <2>2, EnvironmentOrder, InstallStepOrder, UpgradeStepOrder,
       ReconcileOrder DEF Next
<1>. QED
  BY <1>1, <1>2, PTL DEF Spec

(* A component is upgraded only when the installed ones before it are from  *)
(* the requested version and their workloads are ready (upgradeComponents), *)
(* although an edit may install one of them once more between two passes of *)
(* the upgrade, and any pass may fail, see an old copy of the resource, or  *)
(* be cut short by a crash or by the next operator.                         *)
THEOREM UpgradeInOrderCorrect ==
  ASSUME Rollback = FALSE
  PROVE  Spec => UpgradeInOrder
<1>1. TypeInv /\ VersionInv /\ OrderInv /\ [Next]_vars
        => [UpgradeUpgrade =>
              \A i \in 1..(cur - 1) : installed(registry[i])
                => release[registry[i]].ver = loc.spec /\ ready[registry[i]]]_vars
  <2>. SUFFICES ASSUME TypeInv, VersionInv, OrderInv, UpgradeUpgrade,
                       NEW i \in 1..(cur - 1), installed(registry[i])
                PROVE  release[registry[i]].ver = loc.spec /\ ready[registry[i]]
    OBVIOUS
  <2>1. pc = "upgrade" /\ cur <= Len(registry)
    BY DEF UpgradeUpgrade, UpgradeAt, InUpgrade
  <2>2. i \in DOMAIN registry /\ i < cur
    BY <2>1, OrderTypes
  <2>3. ut.comp[registry[i]] = "End" /\ registry[i] \in Known
    BY <2>1, <2>2, OrderTypes DEF OrderInv, LoopInv
  <2>4. loc.spec = bom
    BY <2>1 DEF VersionInv, UpgradesToRequest
  <2>5. /\ ut.gen = PassGen /\ PassGen \in Nat
        /\ it.comp[registry[i]] # "WaitReady"
    BY <2>1, <2>3, OrderTypes, FreshTrackers DEF OrderInv, GenInv, PassGen
  <2>. QED
    BY <2>3, <2>4, <2>5, OrderTypes DEF OrderInv, UpgradedInv
<1>. QED
  BY <1>1, VersionInvariant, OrderInvariant, PTL DEF UpgradeInOrder, Spec
===============================================================================
