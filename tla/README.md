# A TLA+ verification of Verrazzano

Verrazzano installs, updates, upgrades and removes a platform of some forty
Helm-based components on Kubernetes. One custom resource, the *Verrazzano
resource*, says what is wanted; the **platform operator** makes it so. The
**cluster operator** registers managed clusters, the **application operator**
turns applications into Kubernetes objects, and its **agent** connects a managed
cluster to the admin cluster. This directory models the platform operator's
reconcile loop together with everything it interleaves with, the loops and jobs
beside it, and the stateful controllers of the other operators; it checks them
with TLC on small instances and proves part of it with TLAPS for every value of
the constants.

All paths below are relative to `src/`; `R/` stands for
`platform-operator/controllers/verrazzano/reconcile/`, `C/` for
`platform-operator/controllers/verrazzano/component/`, `A/` for
`application-operator/`.

## 1. Inventory

### The platform operator

| Component | State it keeps | Operations | Correct means |
|---|---|---|---|
| Reconcile loop (`R/controller.go`) | none across passes but the trackers | `Reconcile`, `doReconcile`, `ProcReadyState`, `ProcReconcilingState`, `ProcUpgradingState`, `ProcPausedUpgradeState`, `procDelete` | every spec change takes effect and the loop comes to rest; the status tells the truth; upgrades run only in an operator of the requested version |
| Component installation (`R/install.go`, `R/install_component.go`) | `installTrackerMap`: per resource and generation, one state per component | `reconcileComponents`, `installSingleComponent` | dependencies first; a component is installed from the last spec; a disabled one is not installed |
| Upgrade (`R/upgrade.go`, `R/upgrade_component.go`) | `upgradeTrackerMap` | `reconcileUpgrade`, `upgradeSingleComponent` | registry order; the version is reported only when every chart has it |
| Uninstall (`R/uninstall.go`, `R/uninstall_component.go`) | `UninstallTrackerMap`, finalizer | `reconcileUninstall`, `uninstallSingleComponent`, Rancher's post-uninstall | nothing is left when the finalizer goes; an interrupted removal resumes; a Rancher that provisioned the cluster is spared |
| Status computation (`R/status.go`) | conditions, `status.state`, `status.version`, per-component state and generations | `updateStatus`, `updateComponentStatus`, `checkInstallComplete`, `checkUpgradeComplete` | a component is Ready only at the generation it was installed with |
| Status updater (`platform-operator/controllers/verrazzano/healthcheck/status_updater.go`) | a channel of 100 events | `Update`, `doUpdate`, `Start` | events are applied in order, none overwrites newer status |
| Webhook (`platform-operator/apis/verrazzano/v1alpha1/validate.go`, `.../validators/validate.go`) | none | `ValidateUpdate`, version and state checks | no rollback, no edit where the operator cannot take one |
| Override controllers (`platform-operator/controllers/configmaps/overrides`, `platform-operator/controllers/secrets`) | work queue | queue a status event that makes a component install again | an edited override reaches its chart |
| Watches (`R/controller.go`, `R/install.go`) | `WatchedComponents` under a mutex | `AddWatch`, `ClearWatch`, `reconcileWatchedComponents` | no watched change is forgotten |
| Health and availability (`.../healthcheck`) | ticker goroutine, last status | tick, compare, send | availability converges and undoes nobody's update |
| Background process monitor (`platform-operator/internal/monitor`) | channel, running flag, result | `Run`, `CheckResult`, `SetCompleted`, `Reset` | one process at a time, no result of an earlier run |
| MySQL check (`platform-operator/controllers/verrazzano/mysqlcheck`, `C/mysql`) | three package-level timers | four repairs at each tick | the MySQL operator is restarted only when it is due, and then in the end |
| MySQL migration (`C/mysql/legacydb.go`) | stages in a secret | dump, hand over of the volume, load, clean-up | the old volume goes only after its data was loaded |
| Keycloak realm (`C/keycloak/keycloak.go`) | the realm, one shared login in the pod | `configureKeycloakRealms`, its secrets | a realm is enabled only when it is complete, and rebuilt after a loss |
| Other component implementations (`C/`) | Helm releases | `PreInstall`, `Install`, `IsReady`, ... | each hook may fail and be repeated |

### The other operators

| Component | State it keeps | Operations | Correct means |
|---|---|---|---|
| VMC controller and Rancher cluster controller (`cluster-operator/controllers`) | the registration of a managed cluster on both sides, scrape jobs, Thanos endpoints, Argo CD secrets | import, record the id, push the secrets, clean up, create and delete the other side | both sides end up in step; the configuration goes before the VMC |
| Scrape jobs of all clusters (`.../vmc/sync_prometheus.go`) | one list in one secret | read, edit, write back | every live cluster is scraped |
| Multicluster agent (`A/mcagent`) | copies of resources, secrets and components; a status channel | poll, copy, clean up, report, deregister | a resource is where it is placed; what applications share stays with the last of them |
| Multicluster resource controllers (`A/controllers/clusters`) | wrapped resources, finalizers | create or update, finalize, report | what a controller has made it can unmake; the admin cluster learns the state |
| Restart of applications (`R/restart/app_restart.go`, `A/controllers/*workload`, `A/controllers/appconfig`) | annotations, restart versions, lifecycle actions | stop, start, restart | after an upgrade every pod has the new Envoy |
| Ingress traits (`A/controllers/ingresstrait`) | certificate, gateway shared by the application, routes, policies, status | reconcile, finalize | each trait is served; nothing of a deleted one is left |

The **vz command line tool** edits the resource and waits for conditions. PSR,
generated clients, CRDs, charts and third-party manifests hold no logic of the
product.

### How the parts interact

A pass of the reconcile loop reads the resource from the informer **cache**,
dispatches on `status.state` and runs a handler up to an early return. It never
writes the status itself: it sends an `UpdateEvent` through the **channel** to
the updater goroutine, which merges the event into *its* cached copy and writes
it back, retrying on conflicts and dropping the event on any other error. Each
such write, each watched object and each requeue start another pass. The **user**
edits the spec at any time the **webhook** allows; the **override controllers**
send events of their own into the same channel, and so does the **health
checker**. The install, upgrade and uninstall **trackers** live in memory and
survive the pass but not the process. Components hand long work to a goroutine
and poll its **monitor**.

Between clusters everything goes through an API server: the VMC controller
pushes secrets through Rancher, the agent reads resources of the admin cluster
and writes the status of its VMC there. Inside a managed cluster the copies made
by the agent are reconciled by the multicluster controllers, which send their
status to the agent over a bounded channel. Workload controllers, the appconfig
controller and the platform operator write annotations on each other's objects.

What is hard: passes work on copies while other parties change the object;
events and lists computed from such a copy are written back whole; an operator
may be restarted or replaced between any two calls; a tracker belongs to a
generation that an edit ends in the middle; caches are behind the writes of
their own process; a failed call is retried by starting over. `PROJECT.json`
lists the hazards line by line, with the properties that watch them.

## 2. Modules

### The life cycle of the resource

| Module | Models | Correspondence |
|---|---|---|
| `VzStatus` | pure functions on the status: conditions, component details, events, merge | `updateComponentStatus`, `checkConfigUpdated`, `appendConditionIfNecessary`, `UpdateEvent.merge`, ... keep their names |
| `VzCluster` | API server, cache, channel and updater, user and webhook, overrides, workloads, operator restarts and replacements; all variables, `TypeOK`, `Init` | one action each: `ApplyEvent`, `DropEvent`, `SyncCache`, `WatchedEvent`, `EditSpec`, `EditOverride`, `ReconcileOverride`, `BecomeReady`, `Restart`, `ReplaceOperator` |
| `VzInstall` | `reconcileComponents`, `installSingleComponent`, `uninstallSingleComponent` | one action per `case` of the switches, and per way a case can fail |
| `VzUpgrade` | `reconcileUpgrade`, `upgradeSingleComponent` | likewise |
| `VzController` | the dispatch and the state handlers; composes all the above; fairness; the properties | one action per early return of a handler |
| `VzLifecycle` | abstract specification: what a watcher of the resource may rely on | `state`, `complete`, `version` and `operator`, refined by `VzController` |
| `MCVzController` | two components, registries and dependencies for TLC | |

State: `vz` is the resource in the API server and `cache` the operator's copy;
`chan` and `drops` the status channel; `dirty` the (deduplicating) work queue;
`release` and `ready` the charts and their workloads; `overrideq` the override
work queue; `bom` the version of the running operator; `pc`, `loc`, `ret`, `cur`
and `again` the pass under way (`loc` is its copy of the resource); `it` and `ut` the
trackers. The whole resource of the code is a record with the generation, the
requested version, the enabled components, and the status.

A step of a pass is one `case` of a `switch` or one early return: between two
such steps the updater, the informer, the user, the cluster and a crash may
act. Sending to the channel blocks while it is full (`HasRoom`).

### The parts beside it

In all of these one action is one call that changes something, with the reads
before it; a call may fail or be made and its answer lost, and a crash may come
between any two calls.

| Module | Models | State and steps |
|---|---|---|
| `VzMonitor` | the background monitor as the Istio component uses it | `mon` and `bg`: the monitor and each goroutine with its channel; a send on a closed channel, or a close of one, is a `panic` |
| `VzUninstall` | extends it: `procDelete`, `reconcileUninstall`, each component, the multicluster resources, the namespaces, Rancher's post-uninstall | `tracker` is in memory, `release`, `mcRes`, `ns`, `job`, `local` are the cluster; `Rank` is the order of `deleteMCResources` |
| `VzWatch` | watched objects and the set of watched components | handler and pass share `watched`; `raced` remembers a watch that `ClearWatch` took with an older one |
| `VzHealth` | health checker and status updater | `cached` lags behind `health`, `updates` is the channel, `merging` the event with the copy it is merged into; a version decides whether a write succeeds |
| `VzMySQLCheck` | the repairs of MySQL and their timers | two goroutines: `turn` and `at` say how far the checks are, each of which reads its timer twice; a timer is its age; `seen` is since when the trouble was found and not found gone; `overtaken` are the timers the other goroutine reset halfway |
| `VzMigration` | the upgrade of MySQL from the legacy Deployment | `migStep` in the upgrade, `stages` in the secret, the claims, the volume, the job and its cached copy, the database |
| `VzKeycloak` | the realm, its watch, the login shared with the cluster operator, the admin's secret | `kcStep` is the position in `ConfigSteps`, the order of `configureKeycloakRealms` |
| `VzAgent` | the agent and the four multicluster resource controllers | one kind of object stands for the four; `channel` and batches of status updates |
| `VzAgentShared` | secrets and components that applications of a namespace share | labels on the copies list the applications they are for; `listed` is the list an iteration works from, `toWrite`, `unwritten` and `toClean` what of it is left, each read and write a step of its own |
| `VzFleet` | VMC controller, Rancher cluster controller and deregistration by the agent | one cluster name; ids and service accounts are numbered |
| `VzFederation` | the scrape jobs of several clusters in one secret | the list is from a first read, the version from a second one |
| `VzWorkload` | stop, upgrade of Istio, start and restart of the applications, and the three workload controllers | annotations, the embedded resource as written, the pods with their Envoy |
| `VzIngress` | the ingress traits of one application | one worker, a queue, the gateway and the policies with their caches; certificate, servers, routes, policies and status; `overlooked` are the policies the last clean-up did not list |

`MCPlatform` (monitor, uninstall, workloads), `MCChecks` (watches, health, MySQL
check, migration, Keycloak) and `MCFleet` (agent, shared items, fleet,
federation, ingress) are *sums*: instances of parts that share no state. A
constant `subject`, chosen initially, says which part a behaviour is about; the
others keep their initial state. Every part is checked with exactly its own
behaviours: a property of one part holds trivially in the behaviours of the
others, and since the subject never changes, a fairness condition on a
disjunction of actions of several parts is the condition of each of them. The
sum of the state spaces is checked, never their product. Parts that do share
state are composed by `EXTENDS`: the life cycle modules, and `VzUninstall`
with `VzMonitor`.

The proofs are in modules of their own: `VzController_proofs`,
`VzUpgrade_proofs`, `VzReports_proofs` and `VzLifecycle_proofs` (each extends the one
before) for the life cycle, `VzUninstall_proofs` (with the monitor), `VzComponents_proofs`
(watches, health checker, MySQL check, migration, Keycloak) and
`VzMulticluster_proofs` (agent, shared items, VMCs, scrape jobs, ingress traits).

### Abstractions

- A version is a number, 0 the empty string. The condition list is the set of
  its types and its last type, all the code asks of it.
- A component is a Helm release with the bill of materials (`ver`) and the
  generation of the spec (`gen`) it was installed from, and whether it has the
  latest overrides (`current`). Hooks are single steps that may succeed or fail.
  `MonitorOverrides` is true and every component supports uninstall.
- `ComponentStatusDetails` are one object shared between the pass and the
  events it has queued. `own` marks such events; `Aliased` changes them with the
  pass, `Disowned` ends the sharing with the pass.
- `resolvePendingUpgrades`, the dry run, `initForVzResource`, `InstanceInfo`,
  metrics and messages change nothing the properties see.
- The write of a conflicting event is retried by the updater: `ApplyEvent` waits
  for `cache = vz`, since a stale write changes nothing. `VzHealth` models the
  retry itself.
- An upgrade of a component without a status entry cannot arise:
  `ProcReadyState` creates the entries before `Upgrading` is entered.
- A template, a secret's content, a manifest or a host name is a small number;
  what the code computes from it is the number again. What may differ between
  two copies of it is what the properties tell apart.
- A delete that succeeds is applied at once, except for objects whose end the
  code waits for. Objects owned by another go with it.

### Constants that choose the environment

- `NoDelayedRead`: a pass starts only when the channel is empty and the cache is
  current. The code does not enforce this; the requeue delay of 2-3 seconds
  makes it the normal case, as the updater needs milliseconds. Run `stale`
  drops it, and no theorem assumes it. `install`, `upgrade`, `replace` and the
  liveness runs assume it: what they check is a promise of the loop itself, in the
  order its author had in mind, and is not claimed of passes that read old copies.
- `SettledUpdate`: operators are only replaced while nothing is going on. Run
  `replace` drops it.
- `Rollback`: an older operator may replace a newer one.
- `Watches`: watched objects change while the operator has nothing to do.
- `MaxGen`, `MaxVersion`, `MaxRestarts`, `MaxDrops` and `ChannelSize` bound edits,
  operator versions, crashes, lost events and the channel.
- `Max...Edits`, `MaxChanges`, `MaxWorldChanges`, `MaxDisturbances`,
  `MaxLosses`, `MaxVmcs` and `MaxIds` bound what users and the cluster do,
  `Max...Faults`, `MaxWatchCrashes`, `MaxLoadFailures` and `MaxUnread` what
  fails, in the other modules. Each is named in the guard it bounds.
- `Goroutines` are identities that are reused, not a bound on the runs of the
  monitor.

## 3. Runs

An edit changes the version, the components or only values (`EditSpec`): what it
changes of the values is the generation they are computed from. Two components
suffice for everything the loop does between components: `a`
is always enabled, like the first ones of the registry, and `b` depends on it
and is switched on and off. Two generations let an edit race with an
installation, three let it race with an update of an installed resource.
Channels of 3 reach the full channel: a pass sends one event per component
and one of its own. Every run lets the system stop when the bounds are used
up (`CHECK_DEADLOCK FALSE`): the operators are meant to come to rest.

| Run | Bounds | Shows |
|---|---|---|
| `install` | 2 generations, 1 crash | at rest everything enabled has the last values (`SettledIsCurrent`); dependencies first (`DependenciesInstalled`); types |
| `upgrade` | 3 generations, 2 versions | `status.version` is the version of every chart (`SettledVersion`, `VersionFollowsUpgrade`), components are upgraded in order (`UpgradeInOrder`) |
| `replace` | 3 versions, replaced at any step; `b` exists from version 3; restored resources; watch events | `UpgradesToRequest`, `VersionNeverDecreases`, and the refinement of `VzLifecycle` (`FollowsLifecycle`) |
| `stale` | one component, delayed reads, 1 lost event, 1 crash, 2 versions, channel of 2 | whatever old copies the passes read: at rest the resource is Ready and InstallComplete (`SettledIsInstalled`), generations do not run ahead of the charts (`LastReconciledIsTrue`), and in a resource that is installed from nothing the InstallComplete condition survives events built from old copies (`InstallCompleteIsSticky`); see below for restored resources |
| `overrides` | one component, 3 generations, fairness | an override changed while the operator rests is installed in the end (`OverrideTakesEffect`) |
| `live` | 2 generations, 2 versions, `b` is installed before upgrades, fairness | every edit takes effect (`EditTakesEffect`) and the loop comes to rest (`ComesToRest`) |
| `platform` | 2 goroutines, 1 edit and 1 restart during the uninstall, any kind of cluster; applications of any kinds, 1 edit and 1 fault during the upgrade | `MonitorKept`; the uninstall's order (`McOrderKept`), what it spares (`RancherKept`), that nothing is left (`NothingLeft`) and that it ends (`DeletionEnds`), panics included; every application runs with the new Envoy (`AppsUpgraded`) |
| `checks` | 2 watched components, 2 changes, 1 crash; 2 components, 2 changes, channel of 2; timeout 0; 2 faults in the migration; 1 fault and 2 losses for Keycloak | `ChangeIsApplied`; `NoEventUndone`, `HealthConverges`; `RestartIsDue`, `TroubleIsAnswered`; `VolumeKept`, `DataMigrated`; `EnabledIsComplete`, `RealmKept` |
| `fleet` | 1 object, channel and batch of 1, 2 edits, 1 fault; 2 applications, 1 item, 3 edits, 1 fault; 3 imports, 3 VMCs, 3 edits, 1 fault; 2 clusters; 2 traits, 1 rule, 1 disturbance | `CopyProtected`, `PlacementApplied`, `StatusReported`; `SharedSecretKept`, `SharedItemsFollow`; `ConfigHasVmc`, `RegistrationsAgree`, `SecretsFollow`; `LiveScraped`; `IngressServed` |

Why these bounds: a race in the parts beside the loop needs one change made
while a pass is under way and one fault, crash or restart in it; two changes
and one fault also let a change meet the recovery from the fault. One object is
enough for the agent because its objects meet only in the channel and the
batch, both of size one and so full at once; `VzAgentShared` is where
applications meet, and has two. Two traits meet in the gateway. With a timeout
of 0 a timer of the MySQL check is off, just set (not expired) or older
(expired): all that the checks tell apart.

The other three runs each show a disagreement between the code and what its
comments say:

| Run | Property | What happens |
|---|---|---|
| `disabledearly` | `DisabledNotInstalled` | a component disabled while Installing has a release, is not skipped, and by its status is sent to `WriteInstallStarted`: it is installed once more (`R/install_component.go:282`, against :321) |
| `migrationlost` | `VolumeKept` | a load job that fails once is created again under a stale cache, ends up deleted, and its absence counts as completion: the only copy of the data is deleted (`C/mysql/legacydb.go:581`, against :585) |
| `lockedout` | `AdminMayLogIn` | any error of one read of the admin's secret makes a new password, which Keycloak does not know (`C/keycloak/keycloak.go:1163`, against :1153) |

`PROJECT.json` names, for every property of a passing run, a plausible mistake
in one definition under which the property fails. The mistaken variants stand
before the definitions they replace, marked *faulty variant*.

### Fairness

`FairSpec` of `VzController` has weak fairness on the worker (the work queue
never stops and its steps never wait but for the channel), on the updater, on
the informer, on each override request and on each chart becoming ready. A call
that can fail has a failing alternative of its own (`ComponentBlocked`,
`UpgradeBlocked`, ...), after which the code requeues; strong fairness on
`FallibleCall` and the few fallible steps listed beside it says that a call
repeated for ever succeeds in the end. Calls may still fail any finite number of
times. Nothing is assumed of the user, of crashes or of replacements, and lost
events and crashes are left out of the liveness runs of this module: the code
does not claim to recover from a lost event.

The other modules bound failures and crashes instead, so that weak fairness on
each loop suffices almost everywhere: controllers are requeued after an error,
tickers and the agent's polling go on, informers deliver, and the operators of
others (Helm releases, namespaces, jobs, pods, cert-manager, Rancher) finish
what they began. Strong fairness is used where a step is enabled again and again
but not continuously: a pass of the watches (which an upgrade suspends), the
health checker's tick (the channel may be full), the step of a goroutine between
two panics, the removal of the last multicluster secret by a tracker that may
start over, and the start of a pass for each trait or cluster by a worker that
serves them in turn. `VzIngress` relies on the resync of the informers
(`SyncPeriod`, ten hours): without it the lost server described below
stays lost. Nothing is assumed of users, and a property about requests says
`unless` where the code loses one for good (`raced`, `lost`, `unreported`,
`watchLost`, `broken`, `apart`, `unguarded`, `overtaken`, `overlooked`): each of these is set by the very
step that loses it, at the source line the property's comment names.

### What else the model showed

Exploring variants of the runs showed behaviours worth knowing. Unless a comment
or a document is quoted, they contradict nothing the code says; most of them
were seen as counterexamples under other constants, with more bounds or with an
`unless` taken away, the others while translating the code.

**Life cycle of the resource**

- A resource that asks for version 1 and is first installed by an operator of
  version 2 gets `status.version` 2, then seems to need an upgrade to 1, and
  ends Paused until the user edits it.
- After `AlreadyInstalled` (a restored resource) `status.version` stays empty.
  Neither `ProcReadyState` nor the webhook can compare an empty version: the
  resource cannot be upgraded until an update has written the version.
- `UpgradeDone` requeues with its tracker in place; if the next pass finds the
  upgrade done, the tracker stays in memory until the generation changes.
- One tracker of a generation serves the components installed before the
  upgrade, those after it, and updates in Ready. Trackers of earlier
  generations are never deleted.
- Edits are admitted in state Reconciling.
- The registry is not in the order of the dependencies
  (`C/registry/registry.go:72`): the application operator comes before Istio,
  `verrazzano` before the authentication proxy, Grafana before its dashboards.
  For such a pair `DependenciesInstalled` does not hold. With the registry
  `<<b, a>>` where b needs a, three generations and a crash: a is disabled, the
  operator crashes after the release of a is gone and before its status says so,
  the third generation enables it again, and b, whose turn comes first, finds a
  still Ready by its status (`isInReadyState`, `registry.go:218`) and is installed
  without it. In the forward order the loop has looked at a before, so its
  status is that of this generation.
- In a resource that rests in Ready, a component that becomes enabled is found
  only because another one is Ready at an older generation: a component that is
  Disabled is no change to `checkConfigUpdated`
  (`R/install_component.go:243`). The network policies are always enabled, so
  there always is one; without it (`Specs` without a common component) an
  enabled component can stay Disabled at rest.
- The updater drops an event after an error that is no conflict. If that is the
  one with InstallComplete, nothing queues another pass and the resource stays
  in Reconciling (`MaxDrops = 1`).
- With delayed reads the InstallComplete condition can be lost in a restored
  resource: `AlreadyInstalled` queues the condition, an edit enables another
  component, and the next pass, which does not see the condition yet, queues
  InstallStarted with a list that lacks it. The condition comes back when the
  other component is installed. `stale` with `Preinstalled = {a}` and two components
  shows this. A spec that enables nothing does the same, as a resource without
  enabled components is installed in the very pass that finds it Ready. In a new
  resource that always enables something the condition is never lost, with
  delayed reads too (`InstallCompleteIsStickyCorrect`).
- A pass that starts from a cache older than the last status writes
  InstallComplete over a component that is being installed again
  (`R/status.go:33`): the resource is at rest and Ready while the component
  reports Installing, and an edit may not have reached its chart. So with
  `NoDelayedRead = FALSE` only `SettledIsInstalled` holds of a resource at rest;
  that its components report Ready is not a promise the code keeps.
- An override that changes after the operator was replaced makes `ProcReadyState`
  write the new version (`R/status.go:258`) though the other charts are old, and
  no upgrade is required any more (`.../validators/validate.go:314`).
- Without `spec.version`, an older operator is accepted (`.../validators/validate.go:142`,
  `:173`): `VersionNeverDecreases` fails for `Rollback = TRUE`.
- An override event at generation 1 is no change to `checkConfigUpdated`, and
  one queued in Installing is overwritten
  (`.../controllers/controller_utils.go:57`, `:59`); `OverrideTakesEffect` is about
  overrides that change while the operator rests.
- A component that a newer operator knows and the status does not sends the pass
  into the install loop "to try to fix it" (`R/install.go:172`), where the missing
  entry stays a nil pointer in that pass (`R/install_component.go:92`).
- `UpgradeDone` marks every enabled component as reconciled at the current
  generation (`R/upgrade.go:151`). With one crash and three generations in
  `upgrade`, a component is disabled, the operator crashes after its release is
  gone and before the status says so, and the third generation enables it again
  together with the upgrade: the loop before the upgrade and the upgrade itself
  skip it as not installed, and it is then reported Ready at the current
  generation and never installed. `SettledIsCurrent` fails; with one version it
  held for three generations and two restarts.
- A Ready component need not be installed. With three generations, a crash in an
  uninstall leaves it Ready with its release gone when it is enabled again. With
  four generations and two versions no crash is needed: a component that was
  being installed when it was disabled is upgraded; a failure later in the pass
  ends it, the loop before the upgrade uninstalls the component, and the
  upgrade, which remembers it as upgraded, writes it Ready. If its upgrade still
  waits for the workload at that moment, the upgrade is blocked for good. So
  `LastReconciledIsTrue` speaks of components whose release exists; for them it is
  proved with any number of edits, crashes and versions.

**Uninstall and the background monitor**

- The removal of the local VMC is not awaited (`R/uninstall.go:230`–237). Once the
  cluster operator is uninstalled nobody takes the VMC's finalizer away; a tracker
  that starts over then stops at the service account for ever. `DeletionEnds`
  excludes it (`VmcStuck`).
- `OneOperation` holds for the Istio component, not in the uninstall: Rancher's
  post-uninstall is forked again at each requeue after its clean-up job is
  complete. `SetCompleted` while the goroutine works, then `Reset`, closes the
  channel under the goroutine, whose send panics
  (`C/rancher/rancher_uninstall.go:106`–140, `:259`;
  `platform-operator/internal/monitor/monitor.go:54`, `:81`).

**Watches, health checker, MySQL check**

- A watch added between the `Reconcile` of a component and `ClearWatch` is lost
  (`R/install.go:190`–195); `ChangeIsApplied` is stated `unless raced`. The same race
  loses the request to rebuild the Keycloak realm (`watchLost`).
- `Pause` of the health checker and of the MySQL checker is read again from the
  struct by the goroutine: paused during a tick, the old goroutine goes on, and
  its channel is lost.
- `NewStatusUpdater` leaves it to a goroutine to make the channel
  (`.../healthcheck/status_updater.go:70`): an `Update` before that blocks on a nil
  channel for ever. Nothing sends so early in practice.
- The timers of the MySQL check are package variables without a lock. A check
  that finds its timer set and reads it again after the reconciler's restart of
  the operator has reset it, reads the zero time, which is long past, and
  restarts the operator a second time
  (`platform-operator/controllers/verrazzano/mysqlcheck/mysql_workarounds.go:141`, `:148`,
  `:309`), although the wait period has not been exceeded (`:147`). A timer that
  is set while it is being reset can be a mixture of both, long past as well.
  `RestartIsDue` excepts both (`overtaken`).
- A failed list of the pods counts as no pods and clears the timer; a pod without
  status conditions keeps the timer for the readiness gates, which stays on if
  the pod is ready when it has them.
- `RepairICStuckDeleting` keeps its timer when the InnoDBCluster is gone, so the
  next one is repaired at once. The timer for stuck pods does not distinguish
  pods.

**Migration and Keycloak**

- The hand over of the volume records a stage after each action. If a write is
  lost after the old claim is deleted, the next pass finds no claim and skips the
  migration silently (`C/mysql/legacydb.go:218`); after the claim reference is
  removed but before the new claim exists, the upgrade is stuck; when the new
  claim is bound but not recorded, it waits for ever for the volume to be free.
  A failing first write skips the migration as well (`:186`).
- A crash between the deletion of the load job and of the secret loads the dump
  twice. `getDbMigrationPod` and `getMySQLPod` panic on an empty list of pods.
- A Keycloak user is created by one command and gets its password by a second
  one; if that fails the user exists and never gets a password
  (`C/keycloak/keycloak.go:1312`–1351).
- The passwords of `verrazzano-prom-internal` and `verrazzano-es-internal` are
  overwritten like the admin's (run `lockedout`).
- `removeLoginConfigFile` (`:1483`) removes the login that the VMC controller
  shares (`cluster-operator/controllers/vmc/vmc_controller.go:666`–692); `rm` without
  `-f` fails if the file is gone.

**Between clusters**

- A crash or a failed status write between the import into Rancher and its
  record, followed by the deletion of the VMC, leaks the Rancher cluster. A VMC
  made by the cluster sync without an id is never deleted by it; a cluster that
  goes before the finalizer or the id is recorded leaves a VMC with a dead id.
- Deregistration deletes the secrets by name, also ones that were pushed anew; a
  second delete that fails, or a crash before it, leaves the registration secret
  for good (`A/mcagent/mcagent_deregister.go:17`). Afterwards
  `syncAgentSecretFromAdminCluster` may write to a nil `Data` map.
- The list of scrape jobs and the Thanos endpoints are computed from a first
  read and written with the version of a second
  (`cluster-operator/controllers/vmc/sync_prometheus.go:98`): with two writers, jobs are
  lost or come back.
- The VMC becomes Inactive after one minute without contact, although three
  polling intervals are meant.
- On a cluster that is not managed the agent never drains its channel of 50
  status updates: the multicluster controllers block in the send
  (`A/controllers/clusters/cluster_utils.go:281`) for good.
- A status update that is lost is not sent again. A resource that is re-created on
  the admin cluster gets no status until its copy changes. The admin's list of
  conditions grows without bound.
- `IsPlacedInThisCluster` takes a read error for "not placed". A copy that is
  deleted before `AddFinalizer` orphans the wrapped resource.
- The clean-up of the secrets works from the list of the applications that the
  iteration began with (`A/mcagent/mcagent_k8ssecret.go:29`): an application that
  is placed here, or begins to name a secret, between the list and the deletion
  (`:74`) loses the secret until the next iteration. A list that is forbidden
  counts as empty (`:32`) and takes every secret away until then.
- One application that names a missing secret stops the sync and the clean-up of
  all secrets of its namespace (`A/mcagent/mcagent_k8ssecret.go:43`).

**Applications**

- A domain that is stopped and started again before its controller ran keeps the
  last action and stays stopped
  (`A/controllers/wlsworkload/weblogicworkload_controller.go:1150`); a start may overtake
  the stop.
- A pass that has written the domain and then finds the workload changed leaves
  its record out; if the change has put the recorded values back, no later pass
  begins and the domain stays as written (`:784`). `AppsUpgraded` excepts this and
  the next but one (`lost`).
- `startDomainsStoppedByUpgrade` also starts domains a user had stopped
  (`R/restart/app_restart.go:196`), and any change of template or restart version
  does as well.
- The application's own restart version replaces the "upgrade" annotation of its
  workloads (`A/controllers/appconfig/appconfig_controller.go:122`): a WebLogic
  workload restarts twice, or never gets the new Envoy.
- The condition of `WKOPodMatcher` is inverted, so it matches every pod;
  `AppPodMatcher` decides on the first container.
- The Coherence controller never records the last restart version
  (`A/controllers/cohworkload/coherenceworkload_controller.go:675`).

**Ingress traits**

- `cleanupGateway` computes the servers from a first read of the gateway
  (`A/controllers/ingresstrait/ingresstrait_ops.go:131`). If the cache catches up before
  the second read, a newer gateway is overwritten and another trait's server is
  lost until the resync; if the cache lacks the trait's own server, that server
  stays for good.
- `coallateAllHostsForTrait` takes the status by value: an error at the start of
  a pass leaves no host. An address assigned before the rules leaves server and
  certificate without hosts until the resync. The watches compare the specs of
  services, but the address is in their status.
- `addFinalizerIfRequired` returns nil on every error: a trait then has children
  and no finalizer (`unguarded`), and deleting it leaves certificate, policies and
  server.
- A trait that is named like its application loses its certificate and secret
  in every pass of a sibling (`LegacyTraits`).
- Routes and policies of rules that were removed are never deleted.
- `cleanupPolicies` logs a failed list and goes on, and the list is from a cache
  that may lack a policy just made (`A/controllers/ingresstrait/ingresstrait_ops.go:54`).
  The finalizer goes and the policies stay for good (`overlooked`). A listed
  policy that is gone already is an error (`:62`) and begins the clean-up anew.

**Conversion of the API versions** (read, not modelled)

- Among several overrides the first one wins
  (`C/helm/helm_component.go:516`–552, `:631`–653); the API documents say "last override
  takes precedence" (`platform-operator/apis/verrazzano/v1beta1/verrazzano_types.go:457`).
- Install args are merged into the first override, Istio's into the last. Args
  beside an override that refers to a ConfigMap or Secret are ignored, and later
  updates fail the validation.
- Istio's egress `replicaCount` is guarded by `IngressReplicaCount`
  (`platform-operator/apis/verrazzano/v1alpha1/convert_istio_to.go:48`).

## 4. Proofs

All theorems hold for every value of the constants. Each is proved by an
inductive invariant: the initial states have it, every step of the next-state
relation keeps it, one proof step per action. TLC checked each invariant before
it was proved.

`VzController_proofs` assumes `BoundAssumption` and `ComponentAssumption`:

- `TypeCorrect`: `Spec => []TypeOK`. `TypeOK` alone is not inductive: a step of
  a component loop changes the entry of `comp == registry[cur]`, a member of
  the registry only if `cur > 0`. `TypeInv` adds `LoopStarted`. The lemmas run
  from the pure functions (`UpdateType`, `MergeType`) through the queue
  operators (`AliasedType`, `DisownedType`, `SendDetailsType`) and the ways a
  step of a pass can end (`EndSendingStep`, `NextComponentStep`, ...) to one
  lemma per part of `Next`, with one step per action.
- `UpgradesToRequestCorrect` and `VersionNeverDecreasesCorrect`, if no older
  operator replaces a newer one. The invariant `VersionInv` says that requests (in the
  resource, the cache and the pass) and the installed version never exceed the
  running operator's version, that every queued event carries this version or
  none, and that a pass that will upgrade has a request that is empty or of
  this version. The last part is what `ProcUpgradingState` checks, and the first
  is what makes the check sufficient; the second is needed because
  `UpgradeDone` announces `loc.spec`. That it is `bom` follows from
  `UpgradesToRequest`, so both properties are parts of one induction. Neither
  `NoDelayedRead` nor `SettledUpdate` is assumed: both hold with any cache
  delay and with replacements at any step. The second needs the hypothesis about
  rollback, as `Rollback = TRUE` violates it.

`VzUninstall_proofs` proves three properties of the uninstall, for any number of
edits, restarts and goroutines and for panics at any step. `UnInv` has five
parts besides the types:

- `McInv` adds to `McOrderKept` that bindings exist only
  in a cluster that has projects, as the removal passes them over elsewhere.
  `McOrderKeptCorrect` follows.
- `SparedInv`: on a cluster that Rancher provisioned, neither the uninstall of
  the component nor its post-uninstall gets where it removes anything.
  `RancherKeptCorrect` follows.
- `CleanupInv`: what the clean-up job and its goroutine have done when the
  tracker has recorded it, and that a job at work means that there is something
  left to clean up. The job itself may stay, as `deleteCleanupJob` returns no
  error (`C/rancher/rancher_uninstall.go:301`). `TrackerInv`: what is gone at each stage of the tracker;
  the lemma `GoneStays` says that nothing comes back, which is needed because an
  edit or a restart makes a new tracker that goes through the stages again.
  `EndInv`: when the finalizer is gone so is the rest. `NothingLeftCorrect` follows.

It also proves that the monitor keeps its promise to a component that polls it:
`OneOperationCorrect` for the monitor alone and `MonitorKeptCorrect` for the
instance that run `platform` checks. `MonitorInv` adds to `OneOperation` that
the channel of a running monitor is open and belongs to a goroutine, and that a
goroutine has a result only after its work: so a new operation starts only when
no goroutine works, and every close meets an open channel.

`VzUpgrade_proofs`, `UpgradeInOrderCorrect`: a component is upgraded only after
the installed ones before it are from the new version and ready, if no older
operator replaces a newer one. That is no property of the upgrade alone, as the
loop that runs before it may install a component again between two of its
passes. `OrderInv` has four parts: `GenInv` orders the generations of the
resource, the cache, the pass and both trackers; `LoopInv` says that a loop over
the registry leaves finished components behind; `MachineInv` says in which
states of the install loop a component may still wait; and `UpgradedInv` that
what the tracker remembers as upgraded is from this operator, and is ready
unless the install loop waits for it or the tracker is out of date.

`VzReports_proofs` is about what the status claims, for any environment the
constants describe: passes that read old copies (`NoDelayedRead` is not assumed),
lost events, override events, edits that enable and disable components, crashes,
and operators replaced at any step.

- `LastReconciledIsTrueCorrect`: a component that is installed and reports Ready
  claims no generation its chart was not installed with. A release that was
  there before the resource (`Preinstalled`) is excepted, as
  `initComponentStatus` claims the present generation for it.
- `ReportsAreTrue`: a component that no spec disables and every bill of materials
  has (`Always`) is in the cluster when it reports Ready.
- `InstallCompleteIsTrue`: a resource with the InstallComplete condition has all of
  these in the cluster.
- `AlwaysDependenciesInstalled`: Helm is called for a component that depends on one
  of these only when it is in the cluster. For dependencies that edits disable this
  is false in a registry out of order (see *What else the model showed*).
- `UpgradedIsComplete`, if no older operator replaces a newer one: when the end of an
  upgrade is announced, every installed chart of the bill of materials is from
  the requested version. It takes `UpgradedInv` of `VzUpgrade_proofs` as well,
  since the install loop works on the charts between two passes of an upgrade.

Two writers set the last reconciled generation without a call of Helm just
before: `vzStateUpgradeDone`, for every enabled component at once, and
`initComponentStatus`, for what it finds in the cluster. And any copy of the
details (in the resource, the cache, the pass, a queued event) may be written back
later. So `ReportInv` speaks of all of them:

- `Fine`: the statement of the first two theorems, about every copy; a copy that is
  old claims less, and a chart never goes back to an older generation.
- `Charted`: a machine past its call of Helm has a chart from the generation of its
  tracker or a later one, or none at all, so completing it claims no more. The
  trackers outlive the pass. An upgrade past its components has been through
  all of them.
- `Placed`: what is always enabled is on no machine's way to be uninstalled, which
  also carries the check of the dependencies made in `PreInstall` to the call of
  Helm, passes later.
- `Entry`: what this operator or an earlier one has begun to install has a status
  in every copy a pass can read, so `initComponentStatus` does not take it for
  found. It is for this that copies are allowed to lag, but the first status of a
  component is written before the component is touched.
- `Global`: InstallComplete, wherever it is, is a claim about charts.

`VzLifecycle_proofs`, `InstallCompleteIsStickyCorrect`: the InstallComplete
condition is never lost again. Every event replaces the whole list of conditions
by the one of the copy its pass has read, so an old copy without the condition
could take it away. The argument counts the *phases* of a resource on its way:
new, Ready, Reconciling, InstallComplete. A pass that has read one phase sends at
most the next, and the pass that sends it must have read the one before.

- `OldInv`: the pass is not ahead of the cache nor the cache of the resource,
  and the resource is at most one phase ahead of what is read, by the running
  pass or else by the next.
- `QueueInv`: the events that set a state lead from phase to phase in the order of
  the queue, and none is more than one phase ahead of what is read. Once a pass
  can read the condition, every event in the queue keeps it.
- `PlaceInv`: a pass is in the handler of the state it has read, and in the install
  loop only from Reconciling on; so it completes an installation only from there.
- `Untouched`: until a pass reads Reconciling nothing is installed and nothing
  reports Ready, so the shortcut of `ProcReadyState` from Ready to
  InstallComplete (`AlreadyInstalled`) stays closed: it would skip a phase.

Both hypotheses are needed, and TLC shows what happens without them (see *What
else the model showed*): the resource is new (`Preinstalled = {}`), and every spec
enables something of every bill of materials (`SomethingEnabled`), which is what
would have to report Ready for the shortcut; `ReportInv` says that the spec a
pass has read is one the user may write. Nothing else is assumed: the
cache may be as old as it likes, events are lost, and operators crash or are
replaced at any step.

TLC checks `ReportInv` and `PhaseInv` in the bounds of run `stale`, and with two
components of which the second can be disabled and comes with a newer operator.

`VzComponents_proofs`, `VolumeKeptCorrect`: the volume of the old database
outlives its migration, with failed calls and crashes at any step. While data is
pending and no load job has failed, `VolumeInv` says that the policy is to
retain the volume whenever the old claim may go, `StageInv` what the recorded
stages say about claim and volume, and `JobInv` that an upgrade which goes on
either never touched the volume or has a load job. The hypothesis about load
jobs is needed: one that failed can be taken for complete, which is what run
`migrationlost` shows.

`VzComponents_proofs`, `EnabledIsCompleteCorrect`: `Progress` says that what a pass
has passed is in the realm, if there is a realm. A realm that is lost in the
middle of a pass comes back only by the second step, so a pass beyond it cannot
meet a new realm; this is why the loss of the database does not break the
property.

`VzComponents_proofs`, `ChangeIsKeptCorrect`: the safety half of
`ChangeIsApplied`, which run `checks` checks. `VisitInv` says that a component is
visited because it is watched, and that the watch of a component that was
reconciled is cleared only when it has seen the last change, an event is still
to come, or one was handled in between, which is the race of
`R/install.go:190`. A crash loses the watched set but delivers the objects again.

`VzMulticluster_proofs`, `ConfigHasVmcCorrect`: in `FleetInv`, a pass of the VMC
controller works on a VMC that has the finalizer (`PassHeld`), which only the
pass itself takes away; a pass that cleans up does so for a VMC that is being
deleted, and from the removal from Rancher on, nothing of the configuration is
left (`CleanPass`). So configuration is written only while a VMC holds the
finalizer.

`VzMulticluster_proofs`, `CopyProtectedCorrect`: `WorkerInv` says that a finalizer seen in
the copy a pass read, or added by the pass, is on the current copy as long as the
pass lasts, since the agent's writes keep it (`CopiedKeeps`). A pass that fails
before it leaves the object in the queue, and the property is about objects
that are not (`WritesKeepInv`, `PassEnds`, `PassGoesOn`).

`VzMulticluster_proofs`, `SharedSecretKeptCorrect`, an action property: an
iteration of the agent keeps every copied secret that an application named,
placed here, when the iteration listed the applications, and still does.
`SecretsInv` says that each listed reference is still to be written, failed to be
written, or on the label that decides about the clean-up (`ReferencesWritten`,
`ReferencesKept`), so a label that an earlier iteration left incomplete does no
harm.

`VzMulticluster_proofs`, `FreshPassKeepsJobs`: the safety half of `LiveScraped`,
which run `fleet` checks. In `JobsInv`, the list of a pass that read the secret as it
is differs from the secret in the job of its own VMC only, up to its write: there is
one worker. Nothing is promised of a pass that began with an old copy.

`VzMulticluster_proofs`, `GoneCleanedUp`: the part of `IngressServed` about deleted
traits, as an invariant; of the policies it says that those left are ones the
last clean-up did not list. `WorkedOn` says that the trait of a pass does not go
meanwhile, unless it was deleted before it had the finalizer, so that a pass with an
old copy of a live trait cannot write a certificate or a policy for one that is gone;
and that from the clean-up to the end of its pass nobody writes them again. A failed
clean-up begins anew, as does one that a crash interrupts (`TraitGone`,
`ObjectsWritten`, one lemma per action). The server in the gateway is left out:
a clean-up that reads an old gateway leaves it (see above).

`VzComponents_proofs`, `NoEventUndoneCorrect`: `CopyOf` says that a cached or merged copy
is no newer than the resource and, at the same version, is the resource. A
write succeeds only at the same version, so it writes the resource as it is with
one event merged into it (`WriteIsMerge`, `MergeType`).

`VzComponents_proofs`, `RestartIsDueCorrect`, under `RepairTimeoutAssumption`:
`TimerBehind` says that a running timer is never older than the run of checks
that found its trouble. All timers are reset by a restart for any reason, so
they may be younger, which is safe. `CheckUnderWay` says that what a check has
read of its timer is still so, unless it was overtaken (`OthersKeep`).

Only model-checked: `SettledIsInstalled`; `SettledIsCurrent`, `SettledVersion`,
`DependenciesInstalled`, `VersionFollowsUpgrade` and `FollowsLifecycle`, each in runs
whose passes read current copies; and all liveness, which depends on fairness
and so is out of the prover's reach.

## 5. Not modelled, and the plan

| Step | Module | Content |
|---|---|---|
| 1 (done) | `VzStatus`, `VzCluster`, `VzInstall`, `VzUpgrade`, `VzController`, `VzLifecycle` | the life cycle of the resource |
| 2 (done) | `VzMonitor`, `VzUninstall` | the uninstall and background processes |
| 3 (done) | `VzWatch`, `VzHealth`, `VzMySQLCheck` | the loops beside the reconciler |
| 4 (done) | `VzMigration`, `VzKeycloak` | the component implementations that keep state of their own |
| 5 (done) | `VzFleet`, `VzFederation`, `VzAgent`, `VzAgentShared` | several clusters |
| 6 (done) | `VzWorkload`, `VzIngress` | applications |
| 7 (done) | `VzUninstall_proofs`, `VzComponents_proofs`, `VzMulticluster_proofs`, `VzUpgrade_proofs`, `VzReports_proofs`, `VzLifecycle_proofs` | `MonitorKept`, `VolumeKept`, `SharedSecretKept`, `UpgradeInOrder`, `ChangeIsKept`, `FreshPassKeepsJobs`, `GoneCleanedUp`; `LastReconciledIsTrue`, `UpgradedIsComplete` and `InstallCompleteIsSticky` with delayed reads |
| 8 | proofs | `SettledIsInstalled`; the part of `FollowsLifecycle` that delayed reads leave true |
| 9 | `VzSemver` | comparison of versions as a function, against an order |
| 10 | `VzHealth`, `VzMySQLCheck` | start and pause of the goroutines; the status updater's start |

Not modelled, because there is no state or order in it that a property could
be about:

- Generated code (`zz_generated.deepcopy.go`, clients), the API types, CRDs,
  charts and third-party manifests. The types are the records of the modules,
  as far as the code of the modules uses them.
- Translation: the conversion between API versions, the manifests and values
  that components, workloads and traits generate, the validation of component
  configuration. A model of it would repeat it line by line. This is the
  largest part of the source: most of a component implementation and of an
  application controller translates one object into another. The control around
  it (when it is done, from which copy, what happens on failure) is modelled.
- The hooks of the components other than Istio's and Rancher's background
  processes, MySQL's migration and Keycloak's realm: each is an idempotent call
  that may fail, which is how `VzInstall`, `VzUpgrade` and `VzUninstall` see it.
- The secret controllers (Rancher, TLS, multicluster), the metrics and logging
  traits: each copies one object into another, and meets no other writer.
- Metrics, log messages, the `vz` tool and PSR.
