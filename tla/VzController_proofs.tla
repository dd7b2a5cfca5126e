------------------------ MODULE VzController_proofs ---------------------------
(***************************************************************************)
(* Proofs about VzController, for every set of components, registry,       *)
(* bound and choice of the environment's constants.                        *)
(***************************************************************************)
EXTENDS VzController, TLAPS

-------------------------------------------------------------------------------
(* The pure functions of VzStatus return well-formed values.                *)

LEMMA NoDetailsType == NoDetails \in Details /\ NoComps \in [Comp -> Details]
BY DEF NoDetails, Details, CompStates, NoComps

LEMMA UpdateType ==
  ASSUME NEW d \in Details, NEW t, NEW gen \in Nat
  PROVE  updateComponentStatus(d, t, gen) \in Details
<1>1. checkCondtitionType(t) \in CompStates
  BY DEF checkCondtitionType, CompStates
<1>. QED
  BY <1>1 DEF updateComponentStatus, Details

LEMMA NoEventType == NoEvent \in Event
BY NoDetailsType DEF NoEvent, Event, VzStates, NoConditions, Conditions

LEMMA ConditionEventType ==
  ASSUME NEW cr \in Resource, NEW t \in VzConditions, NEW v \in Nat
  PROVE  ConditionEvent(cr, t, v) \in Event
<1>1. conditionToVzState(t) \in VzStates
  BY DEF conditionToVzState, VzStates
<1>2. appendConditionIfNecessary(cr.conds, t) \in Conditions
  BY DEF appendConditionIfNecessary, Conditions, Resource
<1>. QED
  BY <1>1, <1>2, NoEventType DEF ConditionEvent, Event

LEMMA MergeType ==
  ASSUME NEW cr \in Resource, NEW e \in Event
  PROVE  merge(cr, e) \in Resource
BY DEF merge, Resource, Event

-------------------------------------------------------------------------------
(* Type correctness.  TypeOK alone is not inductive: that the component of  *)
(* the loop is one of the registry needs the loop to have started.          *)

LoopStarted == pc \in {"components", "upgrade"} => cur > 0

TypeInv == TypeOK /\ LoopStarted

LEMMA RegistryType ==
  ASSUME TypeInv
  PROVE  /\ registry \in Seq(Comp) /\ Known \subseteq Comp
         /\ InLoop => comp \in Comp /\ details \in Details
         /\ \A s : UpgradeAt(s) => comp \in Comp /\ details \in Details
<1>1. registry \in Seq(Comp)
  BY ComponentAssumption DEF TypeInv, TypeOK, ProcessType, registry
<1>2. Known \subseteq Comp
  BY <1>1 DEF Known
<1>3. ASSUME pc \in {"components", "upgrade"}, cur <= Len(registry)
      PROVE  comp \in Comp /\ details \in Details
  <2>1. comp \in Comp
    BY <1>1, <1>3 DEF comp, TypeInv, TypeOK, PassType, LoopStarted
  <2>. QED
    BY <2>1 DEF details, TypeInv, TypeOK, PassType, Resource
<1>. QED
  BY <1>1, <1>2, <1>3 DEF InLoop, InTracker, UpgradeAt, InUpgrade

LEMMA OnlyDetailsType ==
  ASSUME NEW d \in Details
  PROVE  OnlyDetails(d) \in [Comp -> Details]
BY NoDetailsType DEF OnlyDetails, NoComps

LEMMA FunctionIsSequence ==
  ASSUME NEW S, NEW n \in Nat, NEW f \in [1..n -> S]
  PROVE  f \in Seq(S) /\ Len(f) = n
<1>1. [i \in 1..n |-> f[i]] \in Seq(S) /\ Len([i \in 1..n |-> f[i]]) = n
  OBVIOUS
<1>2. f = [i \in 1..n |-> f[i]]
  OBVIOUS
<1>. QED
  BY <1>1, <1>2

(* The queued events remain events when the details they share are changed  *)
(* and when the pass that shares them ends.                                 *)
LEMMA AliasedType ==
  ASSUME TypeOK, NEW ds \in [Comp -> Details]
  PROVE  Aliased(ds) \in Seq(Event) /\ Len(Aliased(ds)) = Len(chan)
<1>1. chan \in Seq(Event) /\ DOMAIN chan = 1..Len(chan) /\ Len(chan) \in Nat
  BY DEF TypeOK, BusType
<1>2. ASSUME NEW e \in Event, NEW cs \in [Comp -> Details]
      PROVE  [e EXCEPT !.comps = cs] \in Event
  BY DEF Event
<1>3. Aliased(ds) \in [1..Len(chan) -> Event]
  <2>. SUFFICES ASSUME NEW i \in 1..Len(chan)
                PROVE  (IF chan[i].own
                        THEN [chan[i] EXCEPT !.comps =
                                [c \in Comp |-> IF @[c] = NoDetails \/ ds[c] = NoDetails
                                                THEN @[c] ELSE ds[c]]]
                        ELSE chan[i]) \in Event
    BY <1>1 DEF Aliased
  <2>1. chan[i] \in Event
    BY <1>1
  <2>2. [c \in Comp |-> IF chan[i].comps[c] = NoDetails \/ ds[c] = NoDetails
                        THEN chan[i].comps[c] ELSE ds[c]] \in [Comp -> Details]
    BY <2>1 DEF Event
  <2>. QED
    BY <1>2, <2>1, <2>2
<1>. QED
  BY <1>1, <1>3, FunctionIsSequence

LEMMA DisownedType ==
  ASSUME NEW q \in Seq(Event)
  PROVE  [i \in DOMAIN q |-> [q[i] EXCEPT !.own = FALSE]] \in Seq(Event)
<1>1. DOMAIN q = 1..Len(q) /\ Len(q) \in Nat
  OBVIOUS
<1>2. ASSUME NEW e \in Event
      PROVE  [e EXCEPT !.own = FALSE] \in Event
  BY DEF Event
<1>3. [i \in DOMAIN q |-> [q[i] EXCEPT !.own = FALSE]] \in [1..Len(q) -> Event]
  BY <1>1, <1>2
<1>. QED
  BY <1>1, <1>3, FunctionIsSequence

LEMMA OverwriteType ==
  ASSUME NEW old \in [Comp -> Details], NEW ds \in [Comp -> Details]
  PROVE  Overwrite(old, ds) \in [Comp -> Details]
BY DEF Overwrite

LEMMA SendDetailsType ==
  ASSUME TypeOK, NEW ds \in [Comp -> Details], SendDetails(ds)
  PROVE  chan' \in Seq(Event) /\ loc' \in Resource
<1>1. [NoEvent EXCEPT !.comps = ds, !.own = TRUE] \in Event
  BY NoEventType DEF Event
<1>2. chan' \in Seq(Event)
  BY <1>1, AliasedType DEF SendDetails
<1>3. loc' \in Resource
  BY OverwriteType DEF SendDetails, TypeOK, PassType, Resource
<1>. QED
  BY <1>2, <1>3

-------------------------------------------------------------------------------
(* The parts of TypeInv a step leaves alone, and those it hands on to the   *)
(* operators of VzCluster.                                                  *)

LEMMA UnchangedType ==
  ASSUME TypeInv
  PROVE  /\ UNCHANGED crVars => CrType'
         /\ UNCHANGED busVars => BusType'
         /\ UNCHANGED processVars => ProcessType'
         /\ UNCHANGED dirty => (dirty \in BOOLEAN)'
         /\ UNCHANGED chartVars => ChartType'
         /\ UNCHANGED passVars => PassType' /\ LoopStarted'
         /\ UNCHANGED trackerVars => TrackerType'
BY DEF TypeInv, TypeOK, CrType, BusType, ProcessType, ChartType, PassType,
       TrackerType, LoopStarted, crVars, busVars, processVars, chartVars,
       passVars, trackerVars

LEMMA EndPassType ==
  ASSUME TypeInv, NEW r \in BOOLEAN, EndPass(r)
  PROVE  PassType' /\ LoopStarted' /\ (dirty \in BOOLEAN)'
<1>1. NoResource \in Resource
  BY NoDetailsType
     DEF NoResource, NewResource, Resource, VzStates, NoConditions, Conditions
<1>. QED
  BY <1>1 DEF EndPass, PassType, LoopStarted, PassStates, Callers, TypeInv, TypeOK

LEMMA EndQuietlyType ==
  ASSUME TypeInv, NEW r \in BOOLEAN, EndQuietly(r)
  PROVE  BusType' /\ PassType' /\ LoopStarted' /\ (dirty \in BOOLEAN)'
BY EndPassType, DisownedType DEF EndQuietly, Disowned, BusType, TypeInv, TypeOK

LEMMA EndSendingType ==
  ASSUME TypeInv, NEW e \in Event, NEW r \in BOOLEAN, EndSending(e, r)
  PROVE  BusType' /\ PassType' /\ LoopStarted' /\ (dirty \in BOOLEAN)'
BY EndPassType, DisownedType DEF EndSending, Disowned, BusType, TypeInv, TypeOK

LEMMA TrackerTypes ==
  /\ \A gen \in Nat : newInstallTracker(gen) \in InstallTracker
  /\ \A gen \in Nat : newUpgradeTracker(gen) \in UpgradeTracker
BY DEF newInstallTracker, InstallTracker, InstallStates, UninstallStates,
       newUpgradeTracker, UpgradeTracker, UpgradeStates

LEMMA EnterComponentsType ==
  ASSUME TypeInv, NEW cr \in Resource, NEW caller \in Callers,
         EnterComponents(cr, caller)
  PROVE  PassType' /\ LoopStarted' /\ it' \in InstallTracker
<1>1. cr.gen \in Nat
  BY DEF Resource
<1>2. getInstallTracker(cr) \in InstallTracker
  BY <1>1, TrackerTypes DEF getInstallTracker, TypeInv, TypeOK, TrackerType
<1>3. loc' \in Resource /\ ret' \in Callers /\ it' \in InstallTracker
  BY <1>2 DEF EnterComponents
<1>4. pc' = "components" /\ cur' = 1 /\ again' = FALSE
  BY DEF EnterComponents
<1>5. pc' \in PassStates /\ again' \in BOOLEAN
  BY <1>4 DEF PassStates
<1>6. cur' \in Nat /\ cur' > 0
  BY <1>4
<1>. QED
  BY <1>3, <1>5, <1>6 DEF PassType, LoopStarted

-------------------------------------------------------------------------------
(* The environment.                                                         *)

LEMMA EnvironmentType ==
  ASSUME TypeInv, Environment
  PROVE  TypeInv'
<1>. USE DEF TypeInv, TypeOK
<1>1. CASE ApplyEvent
  <2>1. Head(chan) \in Event /\ Tail(chan) \in Seq(Event)
    BY <1>1 DEF ApplyEvent, BusType
  <2>2. merge(vz, Head(chan)) \in Resource
    BY <2>1, MergeType DEF CrType
  <2>. QED
    BY <1>1, <2>1, <2>2, UnchangedType DEF ApplyEvent, CrType, BusType
<1>2. CASE DropEvent
  <2>1. Tail(chan) \in Seq(Event)
    BY <1>2 DEF DropEvent, BusType
  <2>. QED
    BY <1>2, <2>1, UnchangedType DEF DropEvent, BusType
<1>3. CASE SyncCache
  BY <1>3, UnchangedType DEF SyncCache, CrType
<1>4. CASE WatchedEvent
  BY <1>4, UnchangedType DEF WatchedEvent
<1>5. ASSUME NEW version \in {0, bom}, NEW enab \in Specs, EditSpec(version, enab)
      PROVE  TypeInv'
  <2>1. version \in Nat /\ enab \in SUBSET Comp
    BY ComponentAssumption DEF ProcessType
  <2>2. [vz EXCEPT !.gen = @ + 1, !.spec = version, !.enabled = enab] \in Resource
    <3>1. vz \in Resource /\ vz.gen + 1 \in Nat
      BY DEF CrType, Resource
    <3>. QED
      BY <2>1, <3>1 DEF Resource
  <2>. QED
    BY <1>5, <2>2, UnchangedType DEF EditSpec, CrType
<1>6. ASSUME NEW c \in Comp, EditOverride(c)
      PROVE  TypeInv'
  <2>1. [release EXCEPT ![c].current = FALSE] \in [Comp -> Release]
    BY DEF ChartType, Release
  <2>. QED
    BY <1>6, <2>1, UnchangedType DEF EditOverride, ChartType, crVars
<1>7. ASSUME NEW c \in Comp, ReconcileOverride(c)
      PROVE  TypeInv'
  <2>1. [cache.comps[c] EXCEPT !.rg = 1] \in Details
    BY DEF CrType, Resource, Details
  <2>2. CompEvent(c, [cache.comps[c] EXCEPT !.rg = 1]) \in Event
    BY <2>1, NoEventType DEF CompEvent, Event
  <2>. QED
    BY <1>7, <2>2, UnchangedType DEF ReconcileOverride, BusType, ChartType
<1>8. ASSUME NEW c \in Comp, BecomeReady(c)
      PROVE  TypeInv'
  BY <1>8, UnchangedType DEF BecomeReady, ChartType
<1>9. ASSUME StartProcess, ProcessType'
      PROVE  TypeInv'
  <2>1. NoResource \in Resource
    BY NoDetailsType
       DEF NoResource, NewResource, Resource, VzStates, NoConditions, Conditions
  <2>2. PassType' /\ LoopStarted'
    BY <1>9, <2>1 DEF StartProcess, PassType, LoopStarted, PassStates, Callers
  <2>3. TrackerType'
    BY <1>9, TrackerTypes
       DEF StartProcess, TrackerType, NoInstallTracker, NoUpgradeTracker
  <2>4. Overridden \subseteq Comp
    <3>1. Registry[1] \in Seq(Comp)
      BY ComponentAssumption, BoundAssumption
    <3>. QED
      BY <3>1, ComponentAssumption
  <2>5. CrType' /\ BusType' /\ ChartType'
    BY <1>9, <2>4 DEF StartProcess, CrType, BusType, ChartType
  <2>. QED
    BY <1>9, <2>2, <2>3, <2>5 DEF StartProcess
<1>10. CASE Restart
  BY <1>9, <1>10 DEF Restart, ProcessType
<1>11. ASSUME NEW b \in 1..MaxVersion, ReplaceOperator(b)
       PROVE  TypeInv'
  BY <1>9, <1>11 DEF ReplaceOperator, ProcessType
<1>. QED
  BY <1>1, <1>2, <1>3, <1>4, <1>5, <1>6, <1>7, <1>8, <1>10, <1>11 DEF Environment

-------------------------------------------------------------------------------
(* The ways a step of the reconcile pass ends.                              *)

LEMMA QuietType ==
  ASSUME TypeInv, UNCHANGED <<crVars, busVars, processVars, dirty, chartVars, passVars>>,
         TrackerType'
  PROVE  TypeInv'
BY UnchangedType DEF TypeInv, TypeOK

LEMMA EndQuietlyStep ==
  ASSUME TypeInv, NEW r \in BOOLEAN, EndQuietly(r),
         UNCHANGED <<crVars, processVars, chartVars>>, TrackerType'
  PROVE  TypeInv'
BY UnchangedType, EndQuietlyType DEF TypeInv, TypeOK

LEMMA EndSendingStep ==
  ASSUME TypeInv, NEW e \in Event, NEW r \in BOOLEAN, EndSending(e, r),
         UNCHANGED <<crVars, processVars, chartVars>>, TrackerType'
  PROVE  TypeInv'
BY UnchangedType, EndSendingType DEF TypeInv, TypeOK

LEMMA SendDetailsStep ==
  ASSUME TypeInv, NEW d \in Details, SendDetails(OnlyDetails(d)),
         UNCHANGED <<crVars, processVars, dirty, chartVars, pc, ret>>,
         cur' \in {cur, cur + 1}, again' \in BOOLEAN, TrackerType'
  PROVE  TypeInv'
<1>1. chan' \in Seq(Event) /\ loc' \in Resource
  BY SendDetailsType, OnlyDetailsType DEF TypeInv
<1>2. BusType'
  BY <1>1 DEF SendDetails, TypeInv, TypeOK, BusType
<1>3. PassType' /\ LoopStarted'
  BY <1>1 DEF TypeInv, TypeOK, PassType, LoopStarted
<1>. QED
  BY <1>2, <1>3, UnchangedType DEF TypeInv, TypeOK

LEMMA NextComponentStep ==
  ASSUME TypeInv, NEW r \in BOOLEAN, NextComponent(r), loc' = loc, BusType',
         TrackerType'
  PROVE  TypeInv'
<1>1. PassType' /\ LoopStarted'
  BY DEF NextComponent, TypeInv, TypeOK, PassType, LoopStarted
<1>. QED
  BY <1>1, UnchangedType DEF NextComponent, TypeInv, TypeOK

(* Trackers stay trackers.                                                  *)
LEMMA InstallTrackerType ==
  ASSUME TypeInv, UNCHANGED ut
  PROVE  /\ \A s \in InstallStates : GoTo(s) => TrackerType'
         /\ \A s \in UninstallStates : GoToUninstall(s) => TrackerType'
         /\ \A s : /\ SetTracker(s)
                   /\ s \in {"DecideUpdate", "SetGlobalInstallStatus",
                             "InstallComponents", "PostInstall", "End"}
                   => TrackerType'
BY DEF TypeInv, TypeOK, TrackerType, InstallTracker, GoTo, GoToUninstall, SetTracker

LEMMA UpgradeTrackerType ==
  ASSUME TypeInv, UNCHANGED it
  PROVE  /\ \A s \in UpgradeStates : GoToUpgrade(s) => TrackerType'
         /\ \A s : /\ SetUpgrade(s)
                   /\ s \in {"UpgradeComponents", "PostUpgrade", "WaitPostUpgradeDone",
                             "RestartApps", "UpgradeDone", "End"}
                   => TrackerType'
BY DEF TypeInv, TypeOK, TrackerType, UpgradeTracker, GoToUpgrade, SetUpgrade

LEMMA HelmInstallType ==
  ASSUME TypeInv, HelmInstall, UNCHANGED overrideq
  PROVE  ChartType'
<1>1. [ver |-> bom, gen |-> loc.gen, current |-> TRUE] \in Release
  BY BoundAssumption DEF TypeInv, TypeOK, ProcessType, PassType, Resource, Release
<1>. QED
  BY <1>1 DEF HelmInstall, TypeInv, TypeOK, ChartType

LEMMA InitialDetailsType ==
  ASSUME TypeInv, NEW c
  PROVE  initialDetails(c) \in Details
BY DEF initialDetails, Details, CompStates, TypeInv, TypeOK, PassType, Resource

LEMMA SendInitialDetailsType ==
  ASSUME TypeInv, SendInitialDetails
  PROVE  BusType'
<1>1. CompEvent(comp, initialDetails(comp)) \in Event
  BY InitialDetailsType, NoEventType DEF CompEvent, Event
<1>. QED
  BY <1>1 DEF SendInitialDetails, TypeInv, TypeOK, BusType

-------------------------------------------------------------------------------
(* reconcileComponents.                                                     *)

LEMMA InstallStepType ==
  ASSUME TypeInv, InstallStep
  PROVE  TypeInv'
<1>. USE DEF Quiet
<1>1. loc \in Resource /\ loc.gen \in Nat /\ bom \in Nat
  BY BoundAssumption DEF TypeInv, TypeOK, PassType, ProcessType, Resource
<1>2. ASSUME UNCHANGED trackerVars
      PROVE  TrackerType'
  BY <1>2, UnchangedType
<1>3. ASSUME NEW d \in Details, WriteDetails(d), TrackerType'
      PROVE  TypeInv'
  BY <1>3, SendDetailsStep DEF WriteDetails, TypeInv, TypeOK, PassType
<1>4. CASE ReconcileWatched
  BY <1>4, QuietType, InstallTrackerType DEF ReconcileWatched
<1>5. CASE ReconcileWatchedFails
  BY <1>2, <1>5, EndQuietlyStep DEF ReconcileWatchedFails
<1>6. CASE DecideUpdate
  BY <1>6, QuietType, InstallTrackerType DEF DecideUpdate
<1>7. CASE SetGlobalInstallStatus
  <2>1. setInstallingState(loc) \in Event
    BY <1>1, ConditionEventType DEF setInstallingState, VzConditions
  <2>. QED
    BY <1>7, <2>1, EndSendingStep, InstallTrackerType DEF SetGlobalInstallStatus
<1>8. CASE ComponentSkippedUnseen
  BY <1>8, NextComponentStep, SendInitialDetailsType, InstallTrackerType
     DEF ComponentSkippedUnseen, NextComponent, InstallStates
<1>9. CASE ComponentStatusMissing
  <2>1. PassType' /\ LoopStarted'
    BY <1>9 DEF ComponentStatusMissing, TypeInv, TypeOK, PassType, PassStates,
                LoopStarted
  <2>. QED
    BY <1>9, <2>1, SendInitialDetailsType, UnchangedType
       DEF ComponentStatusMissing, TypeInv, TypeOK
<1>10. CASE ComponentStatusUnknown
  BY <1>2, <1>10, NextComponentStep, UnchangedType
     DEF ComponentStatusUnknown, NextComponent, trackerVars
<1>11. CASE ComponentInit
  <2>1. PICK s \in InstallStates : GoTo(s)
    BY <1>11 DEF ComponentInit, InstallStates
  <2>. QED
    BY <1>11, <2>1, QuietType, InstallTrackerType DEF ComponentInit
<1>12. CASE ComponentDisabled
  BY <1>12, QuietType, InstallTrackerType DEF ComponentDisabled, InstallStates
<1>13. CASE ComponentReady
  <2>1. PICK s \in InstallStates : GoTo(s)
    BY <1>13 DEF ComponentReady, InstallStates
  <2>. QED
    BY <1>13, <2>1, QuietType, InstallTrackerType DEF ComponentReady
<1>14. CASE InstalledCheckFails
  BY <1>14, QuietType, InstallTrackerType DEF InstalledCheckFails, InstallStates
<1>15. CASE ComponentWriteInstallStarted
  <2>1. [details EXCEPT !.rg = 0] \in Details
    BY <1>15, RegistryType DEF ComponentWriteInstallStarted, At, Details
  <2>. QED
    BY <1>1, <1>3, <1>15, <2>1, UpdateType, InstallTrackerType
       DEF ComponentWriteInstallStarted, WriteDetails, InstallStates
<1>16. CASE ComponentPreInstall
  BY <1>16, QuietType, InstallTrackerType DEF ComponentPreInstall, InstallStates
<1>17. CASE ComponentInstall
  BY <1>17, HelmInstallType, UnchangedType, InstallTrackerType
     DEF ComponentInstall, InstallStates, TypeInv, TypeOK
<1>18. CASE ComponentWaitReady
  BY <1>18, QuietType, InstallTrackerType DEF ComponentWaitReady, InstallStates
<1>19. CASE ComponentPostInstall
  BY <1>19, QuietType, InstallTrackerType DEF ComponentPostInstall, InstallStates
<1>20. CASE ComponentComplete
  <2>1. details \in Details
    BY <1>20, RegistryType DEF ComponentComplete, At
  <2>. QED
    BY <1>1, <1>3, <1>20, <2>1, UpdateType, InstallTrackerType
       DEF ComponentComplete, WriteDetails, InstallStates
<1>21. CASE ComponentBlocked
  BY <1>2, <1>21, NextComponentStep, UnchangedType
     DEF ComponentBlocked, NextComponent, trackerVars
<1>22. CASE ComponentEnd
  BY <1>2, <1>22, NextComponentStep, UnchangedType
     DEF ComponentEnd, NextComponent, trackerVars
<1>23. CASE ComponentRestart
  <2>1. details \in Details
    BY <1>23, RegistryType DEF ComponentRestart, At
  <2>2. TrackerType'
    BY <1>23, InstallTrackerType DEF ComponentRestart, NextComponent, InstallStates
  <2>3. again' \in BOOLEAN /\ cur' = cur + 1
    BY <1>23 DEF ComponentRestart, NextComponent, TypeInv, TypeOK, PassType
  <2>. QED
    BY <1>1, <1>23, <2>1, <2>2, <2>3, UpdateType, SendDetailsStep
       DEF ComponentRestart, NextComponent
<1>24. CASE UninstallStart
  <2>1. details \in Details
    BY <1>24, RegistryType DEF UninstallStart, AtUninstall, At
  <2>. QED
    BY <1>1, <1>3, <1>24, <2>1, UpdateType, InstallTrackerType
       DEF UninstallStart, WriteDetails, UninstallStates
<1>25. CASE UninstallPreUninstall
  BY <1>25, QuietType, InstallTrackerType DEF UninstallPreUninstall, UninstallStates
<1>26. CASE UninstallUninstall
  <2>1. ChartType'
    BY <1>26 DEF UninstallUninstall, NoRelease, Release, ChartType, TypeInv, TypeOK
  <2>. QED
    BY <1>26, <2>1, UnchangedType, InstallTrackerType
       DEF UninstallUninstall, UninstallStates, TypeInv, TypeOK
<1>27. CASE UninstallWaitUninstalled
  BY <1>27, QuietType, InstallTrackerType DEF UninstallWaitUninstalled, UninstallStates
<1>28. CASE UninstallDone
  <2>1. details \in Details
    BY <1>28, RegistryType DEF UninstallDone, AtUninstall, At
  <2>. QED
    BY <1>1, <1>3, <1>28, <2>1, UpdateType, InstallTrackerType
       DEF UninstallDone, WriteDetails, UninstallStates
<1>29. CASE UninstallEnd
  BY <1>29, QuietType, InstallTrackerType DEF UninstallEnd, InstallStates
<1>30. CASE UninstallBlocked
  BY <1>2, <1>30, NextComponentStep, UnchangedType
     DEF UninstallBlocked, NextComponent, trackerVars
<1>31. CASE ComponentsWaiting
  BY <1>2, <1>31, EndQuietlyStep DEF ComponentsWaiting
<1>32. CASE ComponentsInstalled
  BY <1>32, QuietType, InstallTrackerType DEF ComponentsInstalled
<1>33. CASE PostInstall
  BY <1>33, QuietType, InstallTrackerType DEF PostInstall
<1>34. CASE PostInstallFails
  BY <1>2, <1>34, EndQuietlyStep DEF PostInstallFails
<1>. QED
  BY <1>4, <1>5, <1>6, <1>7, <1>8, <1>9, <1>10, <1>11, <1>12, <1>13, <1>14, <1>15,
     <1>16, <1>17, <1>18, <1>19, <1>20, <1>21, <1>22, <1>23, <1>24, <1>25, <1>26,
     <1>27, <1>28, <1>29, <1>30, <1>31, <1>32, <1>33, <1>34
     DEF InstallStep

-------------------------------------------------------------------------------
(* reconcileUpgrade.                                                        *)

LEMMA UpgradeStepType ==
  ASSUME TypeInv, UpgradeStep
  PROVE  TypeInv'
<1>. USE DEF QuietUpgrade
<1>1. loc \in Resource /\ loc.gen \in Nat /\ loc.spec \in Nat
  BY DEF TypeInv, TypeOK, PassType, Resource
<1>2. ASSUME UNCHANGED trackerVars
      PROVE  TrackerType'
  BY <1>2, UnchangedType
<1>3. ASSUME NEW d \in Details, WriteUpgradeDetails(d), TrackerType'
      PROVE  TypeInv'
  BY <1>3, SendDetailsStep DEF WriteUpgradeDetails, TypeInv, TypeOK, PassType
<1>4. CASE WriteUpgradeStarted
  BY <1>1, <1>2, <1>4, ConditionEventType, EndSendingStep
     DEF WriteUpgradeStarted, VzConditions
<1>5. CASE UpgradeStarted
  BY <1>5, QuietType, UpgradeTrackerType DEF UpgradeStarted
<1>6. CASE ComponentsUpgraded
  BY <1>6, QuietType, UpgradeTrackerType DEF ComponentsUpgraded
<1>7. CASE VzPostUpgrade
  BY <1>7, QuietType, UpgradeTrackerType DEF VzPostUpgrade
<1>8. CASE WaitPostUpgradeDone
  BY <1>8, QuietType, UpgradeTrackerType DEF WaitPostUpgradeDone
<1>9. CASE RestartApps
  BY <1>9, QuietType, UpgradeTrackerType DEF RestartApps
<1>10. CASE UpgradeWaits
  BY <1>2, <1>10, EndQuietlyStep DEF UpgradeWaits
<1>11. CASE UpgradeDone
  <2>. DEFINE ds == [c \in Comp |->
                       IF c \in Known \cap loc.enabled /\ loc.comps[c] # NoDetails
                       THEN [loc.comps[c] EXCEPT !.lrg = loc.gen] ELSE NoDetails]
              q == Aliased(ds)
              e == [NoEvent EXCEPT !.comps = ds, !.version = loc.spec]
  <2>1. ds \in [Comp -> Details]
    <3>. SUFFICES ASSUME NEW c \in Comp
                  PROVE  [loc.comps[c] EXCEPT !.lrg = loc.gen] \in Details
      BY NoDetailsType
    <3>. QED
      BY <1>1 DEF Resource, Details
  <2>2. q \in Seq(Event) /\ Len(q) = Len(chan)
    BY <2>1, AliasedType DEF TypeInv
  <2>3. DOMAIN q = DOMAIN chan
    BY <2>2 DEF TypeInv, TypeOK, BusType
  <2>4. [i \in DOMAIN q |-> [q[i] EXCEPT !.own = FALSE]] \in Seq(Event)
    BY <2>2, DisownedType
  <2>5. e \in Event
    BY <1>1, <2>1, NoEventType DEF Event
  <2>6. chan' = Append([i \in DOMAIN q |-> [q[i] EXCEPT !.own = FALSE]], e)
    BY <1>11, <2>3 DEF UpgradeDone
  <2>7. BusType'
    <3>1. chan' \in Seq(Event)
      BY <2>4, <2>5, <2>6
    <3>2. drops' \in Nat
      BY <1>11 DEF UpgradeDone, BusType, TypeInv, TypeOK
    <3>. QED
      BY <3>1, <3>2 DEF BusType
  <2>8. PassType' /\ LoopStarted' /\ (dirty \in BOOLEAN)'
    BY <1>11, EndPassType DEF UpgradeDone
  <2>9. TrackerType'
    BY <1>11, UpgradeTrackerType DEF UpgradeDone
  <2>. QED
    BY <1>11, <2>7, <2>8, <2>9, UnchangedType DEF UpgradeDone, TypeInv, TypeOK
<1>12. CASE UpgradeEnd
  <2>1. PassType' /\ LoopStarted' /\ it' \in InstallTracker
    BY <1>1, <1>12, EnterComponentsType DEF UpgradeEnd, Callers
  <2>2. TrackerType'
    BY <1>12, <2>1, TrackerTypes DEF UpgradeEnd, NoUpgradeTracker, TrackerType
  <2>. QED
    BY <1>12, <2>1, <2>2, UnchangedType DEF UpgradeEnd, TypeInv, TypeOK
<1>13. CASE UpgradeInit
  <2>1. details \in Details
    BY <1>13, RegistryType DEF UpgradeInit
  <2>. QED
    BY <1>1, <1>3, <1>13, <2>1, UpdateType, UpgradeTrackerType
       DEF UpgradeInit, WriteUpgradeDetails, UpgradeStates
<1>14. CASE UpgradeNotInstalled
  BY <1>14, QuietType, UpgradeTrackerType DEF UpgradeNotInstalled, UpgradeStates
<1>15. CASE UpgradePreUpgrade
  BY <1>15, QuietType, UpgradeTrackerType DEF UpgradePreUpgrade, UpgradeStates
<1>16. CASE UpgradeUpgrade
  BY <1>16, HelmInstallType, UnchangedType, UpgradeTrackerType
     DEF UpgradeUpgrade, UpgradeStates, TypeInv, TypeOK
<1>17. CASE UpgradeWaitReady
  BY <1>17, QuietType, UpgradeTrackerType DEF UpgradeWaitReady, UpgradeStates
<1>18. CASE UpgradePostUpgrade
  BY <1>18, QuietType, UpgradeTrackerType DEF UpgradePostUpgrade, UpgradeStates
<1>19. CASE UpgradeComplete
  <2>1. details \in Details
    BY <1>19, RegistryType DEF UpgradeComplete
  <2>. QED
    BY <1>1, <1>3, <1>19, <2>1, UpdateType, UpgradeTrackerType
       DEF UpgradeComplete, WriteUpgradeDetails, UpgradeStates
<1>20. CASE UpgradeNext
  <2>1. PassType' /\ LoopStarted'
    BY <1>20 DEF UpgradeNext, TypeInv, TypeOK, PassType, LoopStarted
  <2>. QED
    BY <1>20, <2>1, UnchangedType DEF UpgradeNext, TypeInv, TypeOK
<1>21. CASE UpgradeBlocked
  BY <1>2, <1>21, EndQuietlyStep DEF UpgradeBlocked
<1>. QED
  BY <1>4, <1>5, <1>6, <1>7, <1>8, <1>9, <1>10, <1>11, <1>12, <1>13, <1>14, <1>15,
     <1>16, <1>17, <1>18, <1>19, <1>20, <1>21 DEF UpgradeStep

-------------------------------------------------------------------------------
(* The handlers of the states of the resource.                              *)

LEMMA InitializedType ==
  ASSUME TypeInv
  PROVE  Initialized \in [Comp -> Details]
<1>1. ASSUME NEW c \in Comp
      PROVE  NewDetails(c) \in Details
  <2>1. [loc.comps[c] EXCEPT !.lrg = loc.gen] \in Details
    BY DEF TypeInv, TypeOK, PassType, Resource, Details
  <2>. QED
    BY <2>1, InitialDetailsType DEF NewDetails
<1>. QED
  BY <1>1, NoDetailsType DEF Initialized

LEMMA ReconcileType ==
  ASSUME TypeInv, Reconcile
  PROVE  TypeInv'
<1>1. loc \in Resource /\ loc.gen \in Nat /\ bom \in Nat /\ cache \in Resource
  BY BoundAssumption DEF TypeInv, TypeOK, CrType, PassType, ProcessType, Resource
<1>2. ASSUME UNCHANGED trackerVars
      PROVE  TrackerType'
  BY <1>2, UnchangedType
<1>3. ASSUME NEW s \in VzStates
      PROVE  StateEvent(s) \in Event
  BY NoEventType DEF StateEvent, Event
<1>4. ASSUME NEW t \in VzConditions, NEW v \in Nat
      PROVE  ConditionEvent(loc, t, v) \in Event
  BY <1>1, ConditionEventType
<1>5. ASSUME NEW cr \in Resource, NEW caller \in Callers, EnterComponents(cr, caller),
             UNCHANGED <<crVars, busVars, processVars, dirty, chartVars, ut>>
      PROVE  TypeInv'
  BY <1>5, EnterComponentsType, UnchangedType DEF TypeInv, TypeOK, TrackerType
<1>6. ASSUME NEW caller, Finished(caller), UNCHANGED ut
      PROVE  TrackerType'
  BY <1>6, TrackerTypes
     DEF Finished, NoInstallTracker, TypeInv, TypeOK, TrackerType
<1>7. CASE StartPass
  <2>1. PassType' /\ LoopStarted'
    <3>1. cache.state \in VzStates
      BY <1>1 DEF Resource
    <3>2. pc' \in PassStates /\ pc' \notin {"components", "upgrade"}
      BY <1>7, <3>1 DEF StartPass, VzStates, PassStates
    <3>. QED
      BY <1>1, <1>7, <3>2 DEF StartPass, TypeInv, TypeOK, PassType, LoopStarted
  <2>. QED
    BY <1>7, <2>1, UnchangedType DEF StartPass, TypeInv, TypeOK
<1>8. CASE ProcNew
  BY <1>2, <1>3, <1>8, EndSendingStep DEF ProcNew, VzStates
<1>9. CASE InitializeComponentStatus
  <2>1. [NoEvent EXCEPT !.comps = Initialized] \in Event
    BY InitializedType, NoEventType DEF Event
  <2>. QED
    BY <1>2, <1>9, <2>1, EndSendingStep DEF InitializeComponentStatus
<1>10. CASE InitializationFails
  BY <1>2, <1>10, EndQuietlyStep DEF InitializationFails
<1>11. CASE VersionUnparsable
  BY <1>2, <1>11, EndQuietlyStep DEF VersionUnparsable
<1>12. CASE StartUpgrade
  BY <1>2, <1>3, <1>12, EndSendingStep DEF StartUpgrade, VzStates
<1>13. CASE ReconcileReady
  <2>1. [loc EXCEPT !.comps = Overwrite(@, Initialized)] \in Resource
    BY <1>1, InitializedType, OverwriteType DEF Resource
  <2>. QED
    BY <1>5, <1>13, <2>1 DEF ReconcileReady, Callers
<1>14. CASE InstallPrerequisiteFails
  BY <1>2, <1>14, EndQuietlyStep DEF InstallPrerequisiteFails
<1>15. CASE AlreadyInstalled
  BY <1>2, <1>4, <1>15, EndSendingStep
     DEF AlreadyInstalled, InstallCompleteEvent, VzConditions
<1>16. CASE StartInstall
  BY <1>1, <1>2, <1>4, <1>16, EndSendingStep
     DEF StartInstall, setInstallingState, VzConditions
<1>17. CASE ProcReconciling
  BY <1>1, <1>5, <1>17 DEF ProcReconciling, Callers
<1>18. CASE PauseUpgrade
  BY <1>2, <1>4, <1>18, EndSendingStep DEF PauseUpgrade, VzConditions
<1>19. CASE ProcUpgrading
  BY <1>1, <1>5, <1>19 DEF ProcUpgrading, Callers
<1>20. CASE ResumeUpgrade
  BY <1>2, <1>3, <1>20, EndSendingStep DEF ResumeUpgrade, VzStates
<1>21. CASE StayPaused
  BY <1>2, <1>21, EndQuietlyStep DEF StayPaused
<1>22. CASE FinishReady
  BY <1>6, <1>22, EndQuietlyStep DEF FinishReady
<1>23. CASE FinishInstall
  BY <1>4, <1>6, <1>23, EndQuietlyStep, EndSendingStep
     DEF FinishInstall, InstallCompleteEvent, VzConditions
<1>24. CASE FinishPreUpgrade
  <2>1. PassType' /\ LoopStarted'
    <3>1. pc' = "upgrade" /\ cur' = 1
      BY <1>24 DEF FinishPreUpgrade, EnterUpgrade
    <3>2. pc' \in PassStates /\ cur' \in Nat /\ cur' > 0
      BY <3>1 DEF PassStates
    <3>. QED
      BY <1>24, <3>2 DEF FinishPreUpgrade, TypeInv, TypeOK, PassType, LoopStarted
  <2>2. ut' \in UpgradeTracker
    BY <1>1, <1>24, TrackerTypes
       DEF FinishPreUpgrade, EnterUpgrade, getUpgradeTracker, TypeInv, TypeOK,
           TrackerType
  <2>3. it' \in InstallTracker
    BY <1>24, TrackerTypes DEF FinishPreUpgrade, Finished, NoInstallTracker
  <2>. QED
    BY <1>24, <2>1, <2>2, <2>3, UnchangedType
       DEF FinishPreUpgrade, TypeInv, TypeOK, TrackerType
<1>25. CASE SkipUpgrade
  <2>1. it' \in InstallTracker /\ ut' \in UpgradeTracker
    BY <1>1, <1>25, TrackerTypes DEF SkipUpgrade, TypeInv, TypeOK, TrackerType
  <2>2. ret' \in Callers /\ cur' \in Nat /\ cur' > 0
    BY <1>25 DEF SkipUpgrade, Callers
  <2>3. PassType' /\ LoopStarted'
    BY <1>25, <2>2 DEF SkipUpgrade, TypeInv, TypeOK, PassType, LoopStarted
  <2>. QED
    BY <1>25, <2>1, <2>3, UnchangedType DEF SkipUpgrade, TypeInv, TypeOK, TrackerType
<1>26. CASE FinishUpgrade
  BY <1>4, <1>6, <1>26, EndQuietlyStep, EndSendingStep DEF FinishUpgrade, VzConditions
<1>. QED
  BY <1>7, <1>8, <1>9, <1>10, <1>11, <1>12, <1>13, <1>14, <1>15, <1>16, <1>17, <1>18,
     <1>19, <1>20, <1>21, <1>22, <1>23, <1>24, <1>25, <1>26 DEF Reconcile

-------------------------------------------------------------------------------
LEMMA InitType ==
  ASSUME Init
  PROVE  TypeInv
<1>1. NewResource(0, 0, {}) \in Resource
  BY NoDetailsType
     DEF NewResource, Resource, VzStates, NoConditions, Conditions
<1>2. vz \in Resource
  <2>1. PICK spec \in {0, bom}, enab \in Specs : vz = NewResource(1, spec, enab)
    BY DEF Init
  <2>2. spec \in Nat /\ enab \in SUBSET Comp
    BY ComponentAssumption DEF Init
  <2>. QED
    BY <2>1, <2>2, NoDetailsType
       DEF NewResource, Resource, VzStates, NoConditions, Conditions
<1>3. ChartType
  <2>1. release \in [Comp -> Release] /\ ready \in [Comp -> BOOLEAN]
    BY DEF Init, FoundRelease, NoRelease, Release, installed
  <2>2. Registry[1] \in Seq(Comp)
    BY ComponentAssumption, BoundAssumption
  <2>3. overrideq \subseteq Comp
    BY <2>2, ComponentAssumption DEF Init
  <2>. QED
    BY <2>1, <2>3 DEF ChartType
<1>4. PassType /\ LoopStarted
  BY <1>1 DEF Init, IdlePass, NoResource, PassType, PassStates, Callers, LoopStarted
<1>5. TrackerType
  BY TrackerTypes DEF Init, NoInstallTracker, NoUpgradeTracker, TrackerType
<1>6. bom \in 1..MaxVersion
  BY BoundAssumption DEF Init
<1>. QED
  BY <1>2, <1>3, <1>4, <1>5, <1>6
     DEF Init, TypeInv, TypeOK, CrType, BusType, ProcessType

LEMMA NextType == TypeInv /\ [Next]_vars => TypeInv'
<1>. SUFFICES ASSUME TypeInv, [Next]_vars
              PROVE  TypeInv'
  OBVIOUS
<1>1. CASE UNCHANGED vars
  BY <1>1, UnchangedType
     DEF vars, crVars, busVars, processVars, chartVars, passVars, trackerVars,
         TypeInv, TypeOK
<1>. QED
  BY <1>1, EnvironmentType, InstallStepType, UpgradeStepType, ReconcileType DEF Next

(* TypeOK and its strengthening hold in every execution.                    *)
THEOREM TypeInvariant == Spec => []TypeInv
BY InitType, NextType, PTL DEF Spec

(* Types only: whatever the environment does, every step of the controller  *)
(* leaves well-formed resources, events, releases and trackers behind.      *)
THEOREM TypeCorrect == Spec => []TypeOK
<1>1. TypeInv => TypeOK
  BY DEF TypeInv
<1>. QED
  BY <1>1, TypeInvariant, PTL

-------------------------------------------------------------------------------
(* Versions, when no older operator replaces a newer one.  Requests are     *)
(* for the version of an operator that runs or ran, every queued event      *)
(* carries the version of this operator or none, and a pass that will       *)
(* upgrade made sure that the request is not older than the operator.       *)

QueueVersions(q) == \A i \in DOMAIN q : q[i].version \in {0, bom}

VersionInv ==
  /\ vz.spec <= bom /\ cache.spec <= bom /\ loc.spec <= bom
  /\ vz.version <= bom
  /\ QueueVersions(chan)
  /\ pc = "idle" => ret = "none"
  /\ ret = "PreUpgrade" => loc.spec \in {0, bom}
  /\ UpgradesToRequest

LEMMA AppendVersions ==
  ASSUME NEW q \in Seq(Event), NEW e \in Event,
         QueueVersions(q), e.version \in {0, bom}, bom' = bom, chan' = Append(q, e)
  PROVE  QueueVersions(chan)'
<1>1. DOMAIN chan' = 1..(Len(q) + 1) /\ DOMAIN q = 1..Len(q) /\ Len(q) \in Nat
  OBVIOUS
<1>. SUFFICES ASSUME NEW i \in 1..(Len(q) + 1)
              PROVE  chan'[i].version \in {0, bom}
  BY <1>1 DEF QueueVersions
<1>2. CASE i = Len(q) + 1
  BY <1>2
<1>3. CASE i \in 1..Len(q)
  BY <1>1, <1>3 DEF QueueVersions
<1>. QED
  BY <1>1, <1>2, <1>3

LEMMA AliasedVersions ==
  ASSUME TypeOK, QueueVersions(chan), NEW ds
  PROVE  QueueVersions(Aliased(ds))
<1>. SUFFICES ASSUME NEW i \in DOMAIN chan
              PROVE  Aliased(ds)[i].version = chan[i].version
  BY DEF QueueVersions, Aliased
<1>1. chan[i] \in Event
  BY DEF TypeOK, BusType
<1>. QED
  BY <1>1 DEF Aliased, Event

LEMMA DisownedVersions ==
  ASSUME NEW q \in Seq(Event), QueueVersions(q)
  PROVE  QueueVersions([i \in DOMAIN q |-> [q[i] EXCEPT !.own = FALSE]])
<1>. SUFFICES ASSUME NEW i \in DOMAIN q
              PROVE  [q[i] EXCEPT !.own = FALSE].version = q[i].version
  BY DEF QueueVersions
<1>1. q[i] \in Event
  OBVIOUS
<1>. QED
  BY <1>1 DEF Event

(* The ways a step ends, once more.                                         *)
LEMMA QuietVersions ==
  ASSUME TypeInv, VersionInv, UNCHANGED <<crVars, bom, chan, pc, loc, ret>>
  PROVE  VersionInv'
BY DEF VersionInv, QueueVersions, UpgradesToRequest, crVars

LEMMA IdleVersions ==
  ASSUME TypeInv, VersionInv, NEW r \in BOOLEAN, EndPass(r), QueueVersions(chan)',
         UNCHANGED <<crVars, bom>>
  PROVE  VersionInv'
<1>1. loc'.spec = 0 /\ ret' = "none" /\ pc' = "idle"
  BY DEF EndPass, NoResource, NewResource
<1>. QED
  BY <1>1, BoundAssumption
     DEF VersionInv, UpgradesToRequest, crVars, TypeInv, TypeOK, ProcessType

LEMMA EndQuietlyVersions ==
  ASSUME TypeInv, VersionInv, NEW r \in BOOLEAN, EndQuietly(r),
         UNCHANGED <<crVars, bom>>
  PROVE  VersionInv'
<1>1. QueueVersions(chan)'
  BY DisownedVersions
     DEF EndQuietly, Disowned, VersionInv, QueueVersions, TypeInv, TypeOK, BusType
<1>. QED
  BY <1>1, IdleVersions DEF EndQuietly

LEMMA EndSendingVersions ==
  ASSUME TypeInv, VersionInv, NEW e \in Event, e.version \in {0, bom},
         NEW r \in BOOLEAN, EndSending(e, r), UNCHANGED <<crVars, bom>>
  PROVE  VersionInv'
<1>1. Disowned \in Seq(Event) /\ QueueVersions(Disowned)
  BY DisownedType, DisownedVersions
     DEF Disowned, VersionInv, TypeInv, TypeOK, BusType
<1>2. QueueVersions(chan)'
  BY <1>1, AppendVersions DEF EndSending
<1>. QED
  BY <1>2, IdleVersions DEF EndSending

LEMMA SendDetailsVersions ==
  ASSUME TypeInv, VersionInv, NEW d \in Details, SendDetails(OnlyDetails(d)),
         UNCHANGED <<crVars, bom, pc, ret>>
  PROVE  VersionInv'
<1>. DEFINE ds == OnlyDetails(d)
            e  == [NoEvent EXCEPT !.comps = ds, !.own = TRUE]
<1>1. Aliased(ds) \in Seq(Event) /\ QueueVersions(Aliased(ds))
  BY OnlyDetailsType, AliasedType, AliasedVersions DEF TypeInv, VersionInv
<1>2. e \in Event /\ e.version = 0
  <2>1. ds \in [Comp -> Details]
    BY OnlyDetailsType
  <2>. QED
    BY <2>1, NoEventType DEF Event, NoEvent
<1>3. QueueVersions(chan)'
  BY <1>1, <1>2, AppendVersions DEF SendDetails
<1>4. loc'.spec = loc.spec
  BY DEF SendDetails, TypeInv, TypeOK, PassType, Resource
<1>. QED
  BY <1>3, <1>4 DEF VersionInv, UpgradesToRequest, crVars

LEMMA SendInitialVersions ==
  ASSUME TypeInv, VersionInv, SendInitialDetails
  PROVE  bom' = bom => QueueVersions(chan)'
<1>1. CompEvent(comp, initialDetails(comp)) \in Event
  BY InitialDetailsType, NoEventType DEF CompEvent, Event
<1>2. CompEvent(comp, initialDetails(comp)).version = 0
  BY DEF CompEvent, NoEvent
<1>. QED
  BY <1>1, <1>2, AppendVersions
     DEF SendInitialDetails, VersionInv, TypeInv, TypeOK, BusType

LEMMA EnvironmentVersions ==
  ASSUME TypeInv, VersionInv, Rollback = FALSE, Environment
  PROVE  VersionInv'
<1>1. bom \in Nat /\ vz \in Resource /\ chan \in Seq(Event)
  BY BoundAssumption DEF TypeInv, TypeOK, CrType, ProcessType, BusType
<1>2. CASE ApplyEvent
  <2>1. Head(chan) \in Event /\ Head(chan).version \in {0, bom}
    BY <1>1, <1>2 DEF ApplyEvent, VersionInv, QueueVersions
  <2>2. vz'.spec = vz.spec /\ vz'.version \in {vz.version, bom}
    BY <1>1, <1>2, <2>1 DEF ApplyEvent, merge, Resource
  <2>3. QueueVersions(Tail(chan))
    BY <1>1, <1>2 DEF ApplyEvent, VersionInv, QueueVersions
  <2>. QED
    BY <1>1, <1>2, <2>2, <2>3
       DEF ApplyEvent, VersionInv, QueueVersions, UpgradesToRequest, processVars,
           passVars
<1>3. CASE DropEvent
  <2>1. QueueVersions(Tail(chan))
    BY <1>1, <1>3 DEF DropEvent, VersionInv, QueueVersions
  <2>. QED
    BY <1>3, <2>1
       DEF DropEvent, VersionInv, QueueVersions, UpgradesToRequest, crVars,
           processVars, passVars
<1>4. CASE SyncCache
  BY <1>4 DEF SyncCache, VersionInv, QueueVersions, UpgradesToRequest, busVars,
              processVars, passVars
<1>5. CASE WatchedEvent
  BY <1>5, QuietVersions DEF WatchedEvent, processVars, busVars, passVars
<1>6. ASSUME NEW version \in {0, bom}, NEW enab \in Specs, EditSpec(version, enab)
      PROVE  VersionInv'
  <2>1. vz'.spec = version /\ vz'.version = vz.version
    BY <1>1, <1>6 DEF EditSpec, Resource
  <2>. QED
    BY <1>1, <1>6, <2>1
       DEF EditSpec, VersionInv, QueueVersions, UpgradesToRequest, busVars,
           processVars, passVars
<1>7. ASSUME NEW c \in Comp, EditOverride(c)
      PROVE  VersionInv'
  BY <1>7, QuietVersions DEF EditOverride, processVars, busVars, passVars
<1>8. ASSUME NEW c \in Comp, ReconcileOverride(c)
      PROVE  VersionInv'
  <2>. DEFINE e == CompEvent(c, [cache.comps[c] EXCEPT !.rg = 1])
  <2>1. [cache.comps[c] EXCEPT !.rg = 1] \in Details
    BY DEF TypeInv, TypeOK, CrType, Resource, Details
  <2>2. e \in Event /\ e.version = 0
    BY <2>1, NoEventType DEF CompEvent, Event, NoEvent
  <2>3. QueueVersions(chan)'
    BY <1>1, <1>8, <2>2, AppendVersions DEF ReconcileOverride, VersionInv, processVars
  <2>. QED
    BY <1>8, <2>3
       DEF ReconcileOverride, VersionInv, UpgradesToRequest, crVars, processVars,
           passVars
<1>9. ASSUME NEW c \in Comp, BecomeReady(c)
      PROVE  VersionInv'
  BY <1>9, QuietVersions DEF BecomeReady, processVars, busVars, passVars
<1>10. ASSUME StartProcess, bom' \in Nat, bom' >= bom
       PROVE  VersionInv'
  <2>1. loc'.spec = 0 /\ ret' = "none" /\ pc' = "idle"
    BY <1>10 DEF StartProcess, NoResource, NewResource
  <2>2. QueueVersions(chan)'
    BY <1>10 DEF StartProcess, QueueVersions
  <2>3. vz.spec \in Nat /\ vz.version \in Nat
    BY <1>1 DEF Resource
  <2>. QED
    BY <1>1, <1>10, <2>1, <2>2, <2>3 DEF StartProcess, VersionInv, UpgradesToRequest
<1>11. CASE Restart
  BY <1>1, <1>10, <1>11 DEF Restart
<1>12. ASSUME NEW b \in 1..MaxVersion, ReplaceOperator(b)
       PROVE  VersionInv'
  BY <1>1, <1>10, <1>12 DEF ReplaceOperator
<1>. QED
  BY <1>2, <1>3, <1>4, <1>5, <1>6, <1>7, <1>8, <1>9, <1>11, <1>12 DEF Environment

LEMMA InstallStepVersions ==
  ASSUME TypeInv, VersionInv, InstallStep
  PROVE  VersionInv'
<1>. USE DEF processVars, busVars, passVars
<1>1. CASE \/ ReconcileWatched \/ DecideUpdate
           \/ ComponentInit \/ ComponentDisabled \/ ComponentReady
           \/ InstalledCheckFails \/ ComponentPreInstall \/ ComponentWaitReady
           \/ ComponentPostInstall \/ UninstallPreUninstall
           \/ UninstallWaitUninstalled \/ UninstallEnd
           \/ ComponentsInstalled \/ PostInstall
  BY <1>1, QuietVersions
     DEF ReconcileWatched, DecideUpdate, ComponentInit, ComponentDisabled,
         ComponentReady, InstalledCheckFails, ComponentPreInstall,
         ComponentWaitReady, ComponentPostInstall, UninstallPreUninstall,
         UninstallWaitUninstalled, UninstallEnd, ComponentsInstalled, PostInstall,
         Quiet
<1>2. CASE ComponentInstall \/ UninstallUninstall
  BY <1>2, QuietVersions DEF ComponentInstall, UninstallUninstall
<1>3. CASE ComponentStatusUnknown \/ ComponentBlocked \/ ComponentEnd
           \/ UninstallBlocked
  BY <1>3, QuietVersions
     DEF ComponentStatusUnknown, ComponentBlocked, ComponentEnd, UninstallBlocked,
         NextComponent
<1>4. CASE ReconcileWatchedFails \/ ComponentsWaiting \/ PostInstallFails
  BY <1>4, EndQuietlyVersions
     DEF ReconcileWatchedFails, ComponentsWaiting, PostInstallFails
<1>5. CASE SetGlobalInstallStatus
  <2>1. loc \in Resource /\ bom \in Nat
    BY BoundAssumption DEF TypeInv, TypeOK, PassType, ProcessType
  <2>2. setInstallingState(loc) \in Event
    BY <2>1, ConditionEventType DEF setInstallingState, VzConditions
  <2>3. setInstallingState(loc).version = bom
    BY DEF setInstallingState, ConditionEvent, NoEvent
  <2>. QED
    BY <1>5, <2>2, <2>3, EndSendingVersions DEF SetGlobalInstallStatus
<1>6. ASSUME NEW d \in Details, WriteDetails(d)
      PROVE  VersionInv'
  BY <1>6, SendDetailsVersions DEF WriteDetails
<1>7. loc.gen \in Nat /\ (InLoop => details \in Details)
  BY RegistryType DEF TypeInv, TypeOK, PassType, Resource
<1>8. CASE ComponentWriteInstallStarted
  <2>1. [details EXCEPT !.rg = 0] \in Details
    BY <1>7, <1>8 DEF ComponentWriteInstallStarted, At, Details
  <2>. QED
    BY <1>6, <1>7, <1>8, <2>1, UpdateType DEF ComponentWriteInstallStarted
<1>9. CASE ComponentComplete \/ UninstallStart \/ UninstallDone
  BY <1>6, <1>7, <1>9, UpdateType
     DEF ComponentComplete, UninstallStart, UninstallDone, AtUninstall, At
<1>10. CASE ComponentRestart
  BY <1>7, <1>10, UpdateType, SendDetailsVersions
     DEF ComponentRestart, NextComponent, At
<1>11. CASE ComponentSkippedUnseen
  <2>1. QueueVersions(chan)'
    BY <1>11, SendInitialVersions DEF ComponentSkippedUnseen, NextComponent
  <2>. QED
    BY <1>11, <2>1
       DEF ComponentSkippedUnseen, NextComponent, VersionInv, UpgradesToRequest,
           crVars
<1>12. CASE ComponentStatusMissing
  <2>1. QueueVersions(chan)'
    BY <1>12, SendInitialVersions DEF ComponentStatusMissing
  <2>. QED
    BY <1>12, <2>1 DEF ComponentStatusMissing, VersionInv, UpgradesToRequest, crVars
<1>. QED
  BY <1>1, <1>2, <1>3, <1>4, <1>5, <1>8, <1>9, <1>10, <1>11, <1>12 DEF InstallStep

LEMMA UpgradeStepVersions ==
  ASSUME TypeInv, VersionInv, UpgradeStep
  PROVE  VersionInv'
<1>. USE DEF processVars, busVars, passVars
<1>1. CASE \/ UpgradeStarted \/ ComponentsUpgraded \/ VzPostUpgrade
           \/ WaitPostUpgradeDone \/ RestartApps
           \/ UpgradeNotInstalled \/ UpgradePreUpgrade \/ UpgradeWaitReady
           \/ UpgradePostUpgrade
  BY <1>1, QuietVersions
     DEF UpgradeStarted, ComponentsUpgraded, VzPostUpgrade, WaitPostUpgradeDone,
         RestartApps, UpgradeNotInstalled, UpgradePreUpgrade, UpgradeWaitReady,
         UpgradePostUpgrade, QuietUpgrade
<1>2. CASE UpgradeUpgrade \/ UpgradeNext
  BY <1>2, QuietVersions DEF UpgradeUpgrade, UpgradeNext
<1>3. CASE UpgradeWaits \/ UpgradeBlocked
  BY <1>3, EndQuietlyVersions DEF UpgradeWaits, UpgradeBlocked
<1>4. CASE WriteUpgradeStarted
  <2>1. ConditionEvent(loc, "UpgradeStarted", 0) \in Event
    BY ConditionEventType DEF VzConditions, TypeInv, TypeOK, PassType
  <2>2. ConditionEvent(loc, "UpgradeStarted", 0).version = 0
    BY DEF ConditionEvent, NoEvent
  <2>. QED
    BY <1>4, <2>1, <2>2, EndSendingVersions DEF WriteUpgradeStarted
<1>5. ASSUME NEW d \in Details, WriteUpgradeDetails(d)
      PROVE  VersionInv'
  BY <1>5, SendDetailsVersions DEF WriteUpgradeDetails
<1>6. CASE UpgradeInit \/ UpgradeComplete
  <2>1. loc.gen \in Nat /\ details \in Details
    BY <1>6, RegistryType
       DEF UpgradeInit, UpgradeComplete, TypeInv, TypeOK, PassType, Resource
  <2>. QED
    BY <1>5, <1>6, <2>1, UpdateType DEF UpgradeInit, UpgradeComplete
<1>7. CASE UpgradeDone
  <2>. DEFINE ds == [c \in Comp |->
                       IF c \in Known \cap loc.enabled /\ loc.comps[c] # NoDetails
                       THEN [loc.comps[c] EXCEPT !.lrg = loc.gen] ELSE NoDetails]
              q == Aliased(ds)
              e == [NoEvent EXCEPT !.comps = ds, !.version = loc.spec]
  <2>1. loc \in Resource
    BY DEF TypeInv, TypeOK, PassType
  <2>2. ds \in [Comp -> Details]
    <3>. SUFFICES ASSUME NEW c \in Comp
                  PROVE  [loc.comps[c] EXCEPT !.lrg = loc.gen] \in Details
      BY NoDetailsType
    <3>. QED
      BY <2>1 DEF Resource, Details
  <2>3. q \in Seq(Event) /\ Len(q) = Len(chan) /\ QueueVersions(q)
    BY <2>2, AliasedType, AliasedVersions DEF TypeInv, VersionInv
  <2>4. DOMAIN q = DOMAIN chan
    BY <2>3 DEF TypeInv, TypeOK, BusType
  <2>. DEFINE disowned == [i \in DOMAIN q |-> [q[i] EXCEPT !.own = FALSE]]
  <2>5. disowned \in Seq(Event) /\ QueueVersions(disowned)
    BY <2>3, DisownedType, DisownedVersions
  <2>6. loc.spec = bom
    BY <1>7 DEF UpgradeDone, InUpgrade, VersionInv, UpgradesToRequest
  <2>7. e \in Event /\ e.version \in {0, bom}
    BY <2>1, <2>2, <2>6, NoEventType DEF Event, NoEvent, Resource
  <2>8. chan' = Append(disowned, e)
    BY <1>7, <2>4 DEF UpgradeDone
  <2>9. QueueVersions(chan)'
    <3>. HIDE DEF disowned, e
    <3>. QED
      BY <1>7, <2>5, <2>7, <2>8, AppendVersions DEF UpgradeDone
  <2>. QED
    BY <1>7, <2>9, IdleVersions DEF UpgradeDone
<1>8. CASE UpgradeEnd
  BY <1>8 DEF UpgradeEnd, EnterComponents, VersionInv, QueueVersions,
              UpgradesToRequest, crVars
<1>. QED
  BY <1>1, <1>2, <1>3, <1>4, <1>6, <1>7, <1>8 DEF UpgradeStep

LEMMA ReconcileVersions ==
  ASSUME TypeInv, VersionInv, Reconcile
  PROVE  VersionInv'
<1>. USE DEF processVars, busVars
<1>1. loc \in Resource /\ cache \in Resource /\ bom \in Nat \ {0}
  BY BoundAssumption DEF TypeInv, TypeOK, CrType, PassType, ProcessType
<1>2. loc.spec \in Nat /\ loc.spec <= bom /\ cache.spec <= bom
  BY <1>1 DEF VersionInv, Resource
<1>3. ASSUME NEW t \in VzConditions, NEW v \in {0, bom}
      PROVE  /\ ConditionEvent(loc, t, v) \in Event
             /\ ConditionEvent(loc, t, v).version \in {0, bom}
  BY <1>1, <1>3, ConditionEventType DEF ConditionEvent, NoEvent
<1>4. ASSUME NEW s \in VzStates
      PROVE  StateEvent(s) \in Event /\ StateEvent(s).version = 0
  BY NoEventType DEF StateEvent, Event, NoEvent
<1>5. CASE InitializationFails \/ VersionUnparsable \/ InstallPrerequisiteFails
           \/ StayPaused \/ FinishReady
  BY <1>5, EndQuietlyVersions
     DEF InitializationFails, VersionUnparsable, InstallPrerequisiteFails,
         StayPaused, FinishReady
<1>6. CASE ProcNew \/ StartUpgrade \/ ResumeUpgrade
  BY <1>4, <1>6, EndSendingVersions
     DEF ProcNew, StartUpgrade, ResumeUpgrade, VzStates
<1>7. CASE InitializeComponentStatus
  <2>1. [NoEvent EXCEPT !.comps = Initialized] \in Event
    BY InitializedType, NoEventType DEF Event
  <2>2. [NoEvent EXCEPT !.comps = Initialized].version = 0
    BY DEF NoEvent
  <2>. QED
    BY <1>7, <2>1, <2>2, EndSendingVersions DEF InitializeComponentStatus
<1>8. CASE AlreadyInstalled \/ StartInstall \/ PauseUpgrade
  BY <1>3, <1>8, EndSendingVersions
     DEF AlreadyInstalled, StartInstall, PauseUpgrade, InstallCompleteEvent,
         setInstallingState, VzConditions
<1>9. CASE FinishInstall \/ FinishUpgrade
  BY <1>3, <1>9, EndSendingVersions, EndQuietlyVersions
     DEF FinishInstall, FinishUpgrade, InstallCompleteEvent, VzConditions
<1>10. CASE StartPass
  <2>1. pc' # "upgrade"
    BY <1>1, <1>10 DEF StartPass, Resource, VzStates
  <2>2. ret' = "none" /\ pc' # "idle"
    BY <1>1, <1>10 DEF StartPass, Resource, VzStates, VersionInv
  <2>. QED
    BY <1>2, <1>10, <2>1, <2>2
       DEF StartPass, VersionInv, QueueVersions, UpgradesToRequest, crVars
<1>11. CASE ReconcileReady \/ ProcReconciling
  <2>1. loc'.spec = loc.spec
    BY <1>1, <1>11 DEF ReconcileReady, ProcReconciling, EnterComponents, Resource
  <2>. QED
    BY <1>11, <2>1
       DEF ReconcileReady, ProcReconciling, EnterComponents, VersionInv,
           QueueVersions, UpgradesToRequest, crVars
<1>12. CASE ProcUpgrading
  <2>1. loc.spec \in {0, bom}
    BY <1>1, <1>2, <1>12 DEF ProcUpgrading, isOperatorNewerVersionThanCR
  <2>. QED
    BY <1>12, <2>1
       DEF ProcUpgrading, EnterComponents, VersionInv, QueueVersions,
           UpgradesToRequest, crVars
<1>13. CASE FinishPreUpgrade
  <2>1. loc.spec = bom
    BY <1>13 DEF FinishPreUpgrade, Finished, UpgradeNeeded, VersionInv
  <2>. QED
    BY <1>13, <2>1
       DEF FinishPreUpgrade, EnterUpgrade, VersionInv, QueueVersions,
           UpgradesToRequest, crVars
<1>14. CASE SkipUpgrade
  BY <1>14 DEF SkipUpgrade, VersionInv, QueueVersions, UpgradesToRequest, crVars
<1>. QED
  BY <1>5, <1>6, <1>7, <1>8, <1>9, <1>10, <1>11, <1>12, <1>13, <1>14 DEF Reconcile

LEMMA InitVersions ==
  ASSUME Init
  PROVE  VersionInv
<1>1. bom = 1 /\ loc.spec = 0
  BY DEF Init, IdlePass, NoResource, NewResource
<1>2. vz.spec \in {0, bom} /\ vz.version = 0 /\ cache.spec = vz.spec
  <2>1. PICK spec \in {0, bom}, enab \in Specs : vz = NewResource(1, spec, enab)
    BY DEF Init
  <2>2. cache = vz
    BY DEF Init
  <2>. QED
    BY <2>1, <2>2 DEF NewResource
<1>3. ret = "none" /\ pc = "idle" /\ chan = <<>>
  BY DEF Init, IdlePass
<1>. QED
  BY <1>1, <1>2, <1>3 DEF VersionInv, QueueVersions, UpgradesToRequest

(* With operators only ever replaced by newer ones, requests, events and    *)
(* the installed version stay within the version of the running operator.   *)
THEOREM VersionInvariant ==
  ASSUME Rollback = FALSE
  PROVE  Spec => [](TypeInv /\ VersionInv)
<1>1. Init => TypeInv /\ VersionInv
  BY InitType, InitVersions
<1>2. TypeInv /\ VersionInv /\ [Next]_vars => (TypeInv /\ VersionInv)'
  <2>. SUFFICES ASSUME TypeInv, VersionInv, [Next]_vars
                PROVE  VersionInv'
    BY NextType
  <2>1. CASE UNCHANGED vars
    BY <2>1, QuietVersions DEF vars, crVars
  <2>. QED
    BY <2>1, EnvironmentVersions, InstallStepVersions, UpgradeStepVersions,
       ReconcileVersions DEF Next
<1>. QED
  BY <1>1, <1>2, PTL DEF Spec

(* reconcileUpgrade runs only in an operator of the requested version: the  *)
(* check of ProcUpgradingState and the webhook suffice, whenever operators  *)
(* are replaced and however late the cache follows.                         *)
THEOREM UpgradesToRequestCorrect ==
  ASSUME Rollback = FALSE
  PROVE  Spec => []UpgradesToRequest
<1>1. TypeInv /\ VersionInv => UpgradesToRequest
  BY DEF VersionInv
<1>. QED
  BY <1>1, VersionInvariant, PTL

(* Only the status updater and the user change the resource.                *)
LEMMA WhoChangesResource ==
  ASSUME [Next]_vars
  PROVE  ApplyEvent \/ (\E version, enab : EditSpec(version, enab)) \/ vz' = vz
<1>. USE DEF crVars
<1>1. CASE UNCHANGED vars
  BY <1>1 DEF vars
<1>2. CASE Environment
  BY <1>2
     DEF Environment, DropEvent, SyncCache, WatchedEvent, EditOverride,
         ReconcileOverride, BecomeReady, Restart, ReplaceOperator, StartProcess
<1>3. CASE InstallStep
  <2>. USE DEF Quiet, NextComponent, WriteDetails
  <2>1. CASE \/ ReconcileWatched \/ ReconcileWatchedFails \/ DecideUpdate
             \/ SetGlobalInstallStatus \/ ComponentSkippedUnseen
             \/ ComponentStatusMissing \/ ComponentStatusUnknown
             \/ ComponentsWaiting \/ ComponentsInstalled \/ PostInstall
             \/ PostInstallFails
    BY <2>1
       DEF ReconcileWatched, ReconcileWatchedFails, DecideUpdate,
           SetGlobalInstallStatus, ComponentSkippedUnseen, ComponentStatusMissing,
           ComponentStatusUnknown, ComponentsWaiting, ComponentsInstalled,
           PostInstall, PostInstallFails
  <2>2. CASE \/ ComponentInit \/ ComponentDisabled \/ ComponentReady
             \/ InstalledCheckFails \/ ComponentWriteInstallStarted
             \/ ComponentPreInstall \/ ComponentInstall \/ ComponentWaitReady
             \/ ComponentPostInstall \/ ComponentComplete \/ ComponentBlocked
             \/ ComponentEnd \/ ComponentRestart
    BY <2>2
       DEF ComponentInit, ComponentDisabled, ComponentReady, InstalledCheckFails,
           ComponentWriteInstallStarted, ComponentPreInstall, ComponentInstall,
           ComponentWaitReady, ComponentPostInstall, ComponentComplete,
           ComponentBlocked, ComponentEnd, ComponentRestart
  <2>3. CASE \/ UninstallStart \/ UninstallPreUninstall \/ UninstallUninstall
             \/ UninstallWaitUninstalled \/ UninstallDone \/ UninstallEnd
             \/ UninstallBlocked
    BY <2>3
       DEF UninstallStart, UninstallPreUninstall, UninstallUninstall,
           UninstallWaitUninstalled, UninstallDone, UninstallEnd, UninstallBlocked
  <2>. QED
    BY <1>3, <2>1, <2>2, <2>3 DEF InstallStep
<1>4. CASE UpgradeStep
  BY <1>4
     DEF UpgradeStep, QuietUpgrade, WriteUpgradeDetails, WriteUpgradeStarted,
         UpgradeStarted, ComponentsUpgraded, VzPostUpgrade, WaitPostUpgradeDone,
         RestartApps, UpgradeWaits, UpgradeDone, UpgradeEnd, UpgradeInit,
         UpgradeNotInstalled, UpgradePreUpgrade, UpgradeUpgrade, UpgradeWaitReady,
         UpgradePostUpgrade, UpgradeComplete, UpgradeNext, UpgradeBlocked
<1>5. CASE Reconcile
  BY <1>5
     DEF Reconcile, StartPass, ProcNew, InitializeComponentStatus,
         InitializationFails, VersionUnparsable, StartUpgrade, ReconcileReady,
         InstallPrerequisiteFails, AlreadyInstalled, StartInstall, ProcReconciling,
         PauseUpgrade, ProcUpgrading, ResumeUpgrade, StayPaused, FinishReady,
         FinishInstall, FinishPreUpgrade, SkipUpgrade, FinishUpgrade
<1>. QED
  BY <1>1, <1>2, <1>3, <1>4, <1>5 DEF Next

(* status.version never moves back as long as operators are only replaced   *)
(* by newer ones, although events may be lost, the cache may lag behind and *)
(* the operator may be replaced in the middle of an installation or upgrade. *)
THEOREM VersionNeverDecreasesCorrect ==
  ASSUME Rollback = FALSE
  PROVE  Spec => VersionNeverDecreases
<1>1. TypeInv /\ VersionInv /\ [Next]_vars => [vz'.version >= vz.version]_vars
  <2>. SUFFICES ASSUME TypeInv, VersionInv, [Next]_vars
                PROVE  vz'.version >= vz.version
    OBVIOUS
  <2>1. vz \in Resource /\ vz.version \in Nat /\ bom \in Nat
    BY BoundAssumption DEF TypeInv, TypeOK, CrType, ProcessType, Resource
  <2>2. CASE vz' = vz
    BY <2>1, <2>2
  <2>3. CASE ApplyEvent
    <3>1. Head(chan).version \in {0, bom}
      BY <2>3 DEF ApplyEvent, VersionInv, QueueVersions, TypeInv, TypeOK, BusType
    <3>2. vz'.version \in {vz.version, bom}
      BY <2>1, <2>3, <3>1 DEF ApplyEvent, merge, Resource
    <3>. QED
      BY <2>1, <3>2 DEF VersionInv
  <2>4. ASSUME NEW version, NEW enab, EditSpec(version, enab)
        PROVE  vz'.version = vz.version
    BY <2>1, <2>4 DEF EditSpec, Resource
  <2>5. ApplyEvent \/ (\E version, enab : EditSpec(version, enab)) \/ vz' = vz
    BY WhoChangesResource
  <2>. QED
    BY <2>1, <2>2, <2>3, <2>4, <2>5
<1>. QED
  BY <1>1, VersionInvariant, PTL DEF VersionNeverDecreases, Spec

===============================================================================
