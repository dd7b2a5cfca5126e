------------------------------ MODULE VzCluster -------------------------------
(***************************************************************************)
(* The state the platform operator works on and everything around its      *)
(* reconcile loop: the Verrazzano resource in the API server, the informer *)
(* cache the operator reads, the channel of status events and the          *)
(* goroutine that applies them, the user who edits the spec through the    *)
(* webhook, the override ConfigMaps and their controller, the workloads of *)
(* the installed charts, and restarts of the operator.                     *)
(***************************************************************************)
EXTENDS VzStatus

CONSTANTS
  Registry,       \* the components of each operator version, in order
  Deps,           \* the declared dependencies of each component
  BeforeUpgrade,  \* the components with ShouldInstallBeforeUpgrade
  MinVersion,     \* GetMinVerrazzanoVersion of each component
  Overridden,     \* the components whose overrides name a ConfigMap
  Preinstalled,   \* the components a new resource may find installed
  Specs,          \* the sets of components a user may enable
  NoDelayedRead,  \* TRUE: a pass starts only once its cache is current
  SettledUpdate,  \* TRUE: the operator is only replaced while nothing is going on
  Rollback,       \* TRUE: an older operator may replace a newer one
  Watches,        \* TRUE: the watched pods, jobs, secrets and namespaces change
  MaxGen,         \* bound on the generation of the resource
  MaxVersion,     \* bound on the operator versions
  MaxRestarts,    \* bound on the restarts of an operator
  MaxDrops,       \* bound on the events lost to API errors
  ChannelSize     \* capacity of the status channel

ASSUME BoundAssumption ==
  /\ NoDelayedRead \in BOOLEAN
  /\ SettledUpdate \in BOOLEAN
  /\ Rollback \in BOOLEAN
  /\ Watches \in BOOLEAN
  /\ MaxGen \in Nat \ {0}
  /\ MaxVersion \in Nat \ {0}
  /\ MaxRestarts \in Nat
  /\ MaxDrops \in Nat
  /\ ChannelSize \in Nat \ {0}

ASSUME ComponentAssumption ==
  /\ Registry \in [1..MaxVersion -> Seq(Comp)]
  /\ Deps \in [Comp -> SUBSET Comp]
  /\ BeforeUpgrade \subseteq Comp
  /\ MinVersion \in [Comp -> Nat]
  /\ Overridden \subseteq {Registry[1][i] : i \in DOMAIN Registry[1]}
  /\ Preinstalled \subseteq Comp
  /\ Specs \subseteq SUBSET Comp

VARIABLES
  vz,        \* the resource in the API server
  cache,     \* the copy in the informer cache
  chan,      \* the status channel, oldest event first
  drops,     \* events lost so far
  bom,       \* version of the running operator and of its bill of materials
  restarts,  \* restarts so far
  dirty,     \* the work queue holds a request for the resource
  release,   \* the Helm release of each component
  ready,     \* are the workloads of the release ready?
  overrideq, \* requests in the work queue of the override controllers
  pc,        \* where the reconcile pass is
  loc,       \* the copy of the resource the pass works on
  ret,       \* the caller of reconcileComponents
  cur,       \* position of the component loop in the registry
  again,     \* a component of the loop asked for a requeue
  it,        \* the install tracker
  ut         \* the upgrade tracker

crVars      == <<vz, cache>>
busVars     == <<chan, drops>>
processVars == <<bom, restarts>>
chartVars   == <<release, ready, overrideq>>
passVars    == <<pc, loc, ret, cur, again>>
trackerVars == <<it, ut>>

vars == <<vz, cache, chan, drops, bom, restarts, dirty, release, ready,
          overrideq, pc, loc, ret, cur, again, it, ut>>

-------------------------------------------------------------------------------
(* Types.                                                                   *)

InstallStates == {"Init", "Disabled", "Ready", "WriteInstallStarted",
                  "PreInstall", "Install", "WaitReady", "PostInstall",
                  "Complete", "Uninstall", "End"}

UninstallStates == {"Start", "PreUninstall", "Uninstall", "WaitUninstalled",
                    "Done", "End"}

UpgradeStates == {"Init", "PreUpgrade", "Upgrade", "WaitReady", "PostUpgrade",
                  "Done", "End"}

InstallTracker ==
  [gen : Nat,
   state : {"ReconcileWatched", "DecideUpdate", "SetGlobalInstallStatus",
            "InstallComponents", "PostInstall", "End"},
   comp : [Comp -> InstallStates],
   un : [Comp -> UninstallStates]]

UpgradeTracker ==
  [gen : Nat,
   state : {"Start", "UpgradeComponents", "PostUpgrade", "WaitPostUpgradeDone",
            "RestartApps", "UpgradeDone", "End"},
   comp : [Comp -> UpgradeStates]]

(* A release: the bill of materials it was installed from, the generation   *)
(* its values were computed from, and whether they hold the overrides the   *)
(* user asked for last.  Version 0 is a component that is not installed.    *)
Release == [ver : Nat, gen : Nat, current : BOOLEAN]

NoRelease == [ver |-> 0, gen |-> 0, current |-> FALSE]

FoundRelease == [ver |-> 1, gen |-> 1, current |-> TRUE]

PassStates == {"idle", "", "Ready", "Reconciling", "Upgrading", "Paused",
               "components", "upgrade", "panic"}

Callers == {"none", "Ready", "Reconciling", "PreUpgrade", "PostUpgrade"}

CrType      == vz \in Resource /\ cache \in Resource
BusType     == chan \in Seq(Event) /\ drops \in Nat
ProcessType == bom \in 1..MaxVersion /\ restarts \in Nat
ChartType   == /\ release \in [Comp -> Release] /\ ready \in [Comp -> BOOLEAN]
               /\ overrideq \in SUBSET Comp
PassType    == /\ pc \in PassStates /\ loc \in Resource /\ ret \in Callers
               /\ cur \in Nat /\ again \in BOOLEAN
TrackerType == it \in InstallTracker /\ ut \in UpgradeTracker

TypeOK == /\ CrType /\ BusType /\ ProcessType /\ dirty \in BOOLEAN
          /\ ChartType /\ PassType /\ TrackerType

-------------------------------------------------------------------------------
(* Derived state.                                                           *)

(* The registry of the running operator, and the members of it.             *)
registry == Registry[bom]

Known == {registry[i] : i \in DOMAIN registry}

installed(c) == release[c].ver > 0

(* A fresh tracker.  Generation 0 is that of no resource, so NoTracker is   *)
(* the absence of one.                                                      *)
newInstallTracker(gen) ==
  [gen |-> gen, state |-> "ReconcileWatched",
   comp |-> [c \in Comp |-> "Init"], un |-> [c \in Comp |-> "Start"]]

newUpgradeTracker(gen) ==
  [gen |-> gen, state |-> "Start", comp |-> [c \in Comp |-> "Init"]]

NoInstallTracker == newInstallTracker(0)
NoUpgradeTracker == newUpgradeTracker(0)

NewResource(gen, spec, enabled) ==
  [gen |-> gen, spec |-> spec, enabled |-> enabled, state |-> "",
   conds |-> NoConditions, version |-> 0, comps |-> NoComps]

NoResource == NewResource(0, 0, {})

IdlePass == pc = "idle" /\ loc = NoResource /\ ret = "none" /\ cur = 0
            /\ again = FALSE

(* Nothing is queued, in flight or running: only the user, a workload, a    *)
(* ConfigMap, a watched object or a restart can change anything.            *)
Settled == /\ IdlePass /\ ~dirty /\ chan = <<>> /\ cache = vz
           /\ overrideq = {}

-------------------------------------------------------------------------------
(* The status channel.                                                      *)

HasRoom == Len(chan) < ChannelSize

(* The details of a component are one object, shared by the copy the pass   *)
(* works on and by the events the pass has queued: overwriting those of ds  *)
(* changes them all.                                                        *)
Overwrite(old, ds) == [c \in Comp |-> IF ds[c] = NoDetails THEN old[c] ELSE ds[c]]

Aliased(ds) ==
  [i \in DOMAIN chan |->
     IF chan[i].own
     THEN [chan[i] EXCEPT !.comps =
             [c \in Comp |-> IF @[c] = NoDetails \/ ds[c] = NoDetails
                             THEN @[c] ELSE ds[c]]]
     ELSE chan[i]]

Disowned == [i \in DOMAIN chan |-> [chan[i] EXCEPT !.own = FALSE]]

(* Queue new details of some components, and go on with the pass.           *)
SendDetails(ds) ==
  /\ HasRoom
  /\ chan' = Append(Aliased(ds), [NoEvent EXCEPT !.comps = ds, !.own = TRUE])
  /\ loc' = [loc EXCEPT !.comps = Overwrite(@, ds)]
  /\ drops' = drops

(* End the pass, with or without a requeue.                                 *)
EndPass(requeue) ==
  /\ pc' = "idle" /\ loc' = NoResource /\ ret' = "none" /\ cur' = 0
  /\ again' = FALSE
  /\ dirty' = (dirty \/ requeue)

EndQuietly(requeue) ==
  EndPass(requeue) /\ chan' = Disowned /\ drops' = drops

EndSending(e, requeue) ==
  /\ HasRoom
  /\ chan' = Append(Disowned, e) /\ drops' = drops
  /\ EndPass(requeue)

(* doUpdate: the goroutine merges the oldest event into the cached copy and *)
(* writes it back.  The write succeeds only if the copy is current; on a    *)
(* conflict it tries again, which changes nothing.                          *)
ApplyEvent ==
  /\ chan # <<>> /\ cache = vz
  /\ vz' = merge(vz, Head(chan))
  /\ chan' = Tail(chan)
  /\ UNCHANGED <<cache, drops, processVars, dirty, chartVars, passVars,
                 trackerVars>>

(* doUpdate: any error but a conflict loses the event.                      *)
DropEvent ==
  /\ chan # <<>> /\ drops < MaxDrops
  /\ drops' = drops + 1
  /\ chan' = Tail(chan)
  /\ UNCHANGED <<crVars, processVars, dirty, chartVars, passVars, trackerVars>>

(* The informer catches up; every change of the resource queues a request.  *)
SyncCache ==
  /\ cache # vz
  /\ cache' = vz
  /\ dirty' = TRUE
  /\ UNCHANGED <<vz, busVars, processVars, chartVars, passVars, trackerVars>>

(* A watched pod, job, secret or namespace changes.                         *)
WatchedEvent ==
  /\ Watches /\ ~dirty
  /\ dirty' = TRUE
  /\ UNCHANGED <<crVars, busVars, processVars, chartVars, passVars, trackerVars>>

-------------------------------------------------------------------------------
(* The user and the webhook.                                                *)

(* ValidateInProgress.                                                      *)
ValidateInProgress(old) == old.state \in {"", "Ready", "Paused", "Reconciling"}

(* ValidateNewVersion: the requested version is that of the operator, and   *)
(* is below neither the installed nor the previously requested one.  The    *)
(* installed version must parse, so it cannot be empty.                     *)
ValidateNewVersion(status, spec, new) ==
  new = bom /\ status # 0 /\ new >= status /\ new >= spec

(* CheckUpgradeRequired: without a version in the spec, no edit is allowed  *)
(* while the operator is newer than what is installed.                      *)
CheckUpgradeRequired(status) == status = 0 \/ bom <= status

ValidateUpgradeRequest(new, old) ==
  IF new # 0 THEN ValidateNewVersion(old.version, old.spec, new)
             ELSE CheckUpgradeRequired(old.version)

(* The user edits the spec: another version, other components, or values.   *)
EditSpec(version, enabled) ==
  /\ vz.gen < MaxGen
  /\ ValidateInProgress(vz)
  /\ ValidateUpgradeRequest(version, vz)
  /\ vz' = [vz EXCEPT !.gen = @ + 1, !.spec = version, !.enabled = enabled]
  /\ UNCHANGED <<cache, busVars, processVars, dirty, chartVars, passVars,
                 trackerVars>>

-------------------------------------------------------------------------------
(* Override ConfigMaps.                                                     *)

(* The user changes the contents of a ConfigMap the spec refers to.         *)
EditOverride(c) ==
  /\ c \in Overridden /\ release[c].current
  /\ release' = [release EXCEPT ![c].current = FALSE]
  /\ overrideq' = overrideq \cup {c}
  /\ UNCHANGED <<crVars, busVars, processVars, dirty, ready, passVars,
                 trackerVars>>

(* reconcileInstallOverrideConfigMap and UpdateVerrazzanoForInstallOverrides: *)
(* queue the cached details of the component with ReconcilingGeneration 1.  *)
(* Without any component status yet, the request is retried.  The faulty    *)
(* variant claims the current generation.                                   *)
ReconcileOverride_Current(c) ==
  /\ c \in overrideq /\ c \in Known
  /\ cache.comps[c] # NoDetails
  /\ NoDelayedRead => chan = <<>> /\ cache = vz
  /\ HasRoom
  /\ chan' = Append(chan, CompEvent(c, [cache.comps[c] EXCEPT !.rg = cache.gen]))
  /\ overrideq' = overrideq \ {c}
  /\ UNCHANGED <<crVars, drops, processVars, dirty, release, ready, passVars,
                 trackerVars>>

ReconcileOverride(c) ==
  /\ c \in overrideq /\ c \in Known
  /\ cache.comps[c] # NoDetails
  /\ NoDelayedRead => chan = <<>> /\ cache = vz
  /\ HasRoom
  /\ chan' = Append(chan, CompEvent(c, [cache.comps[c] EXCEPT !.rg = 1]))
  /\ overrideq' = overrideq \ {c}
  /\ UNCHANGED <<crVars, drops, processVars, dirty, release, ready, passVars,
                 trackerVars>>

-------------------------------------------------------------------------------
(* Workloads and the operator process.                                      *)

(* The pods of an installed chart become ready.                             *)
BecomeReady(c) ==
  /\ installed(c) /\ ~ready[c]
  /\ ready' = [ready EXCEPT ![c] = TRUE]
  /\ UNCHANGED <<crVars, busVars, processVars, dirty, release, overrideq,
                 passVars, trackerVars>>

(* A new operator process: trackers, work queues and the status channel are *)
(* gone, every watched object is listed again.                              *)
StartProcess ==
  /\ cache' = vz /\ dirty' = TRUE
  /\ chan' = <<>>
  /\ overrideq' = Overridden
  /\ pc' = "idle" /\ loc' = NoResource /\ ret' = "none" /\ cur' = 0
  /\ again' = FALSE
  /\ it' = NoInstallTracker /\ ut' = NoUpgradeTracker
  /\ UNCHANGED <<vz, drops, release, ready>>

(* The operator crashes and restarts, whatever it was doing.                *)
Restart ==
  /\ restarts < MaxRestarts \/ pc = "panic"
  /\ restarts' = IF pc = "panic" THEN restarts ELSE restarts + 1
  /\ bom' = bom
  /\ StartProcess

(* Another version of the operator replaces the running one.                *)
ReplaceOperator(b) ==
  /\ b > bom \/ (Rollback /\ b < bom)
  /\ SettledUpdate => Settled
  /\ bom' = b /\ restarts' = restarts
  /\ StartProcess

-------------------------------------------------------------------------------
(* A new resource.  One restored from a backup, status excluded, may find   *)
(* the releases it describes in the cluster.                                *)
Init ==
  /\ bom = 1 /\ restarts = 0 /\ drops = 0
  /\ \E spec \in {0, bom}, enabled \in Specs : vz = NewResource(1, spec, enabled)
  /\ cache = vz /\ dirty = TRUE
  /\ chan = <<>>
  /\ \E found \in SUBSET Preinstalled :
        release = [c \in Comp |-> IF c \in found THEN FoundRelease ELSE NoRelease]
  /\ ready = [c \in Comp |-> installed(c)]
  /\ overrideq = Overridden
  /\ IdlePass
  /\ it = NoInstallTracker /\ ut = NoUpgradeTracker

Environment ==
  \/ ApplyEvent
  \/ DropEvent
  \/ SyncCache
  \/ WatchedEvent
  \/ \E version \in {0, bom}, enabled \in Specs : EditSpec(version, enabled)
  \/ \E c \in Comp : EditOverride(c)
  \/ \E c \in Comp : ReconcileOverride(c)
  \/ \E c \in Comp : BecomeReady(c)
  \/ Restart
  \/ \E b \in 1..MaxVersion : ReplaceOperator(b)
===============================================================================
