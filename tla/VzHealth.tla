------------------------------- MODULE VzHealth -------------------------------
(***************************************************************************)
(* The health checker: a goroutine that, at every tick, computes the       *)
(* availability of the components from a cached copy of the resource and   *)
(* sends it to the status updater, which merges it into the resource later *)
(* and out of step with the events of the reconciler, whose component      *)
(* details carry the availability they were read with.                     *)
(***************************************************************************)
EXTENDS Naturals, Sequences, FiniteSets

CONSTANTS HComps,          \* the components with an availability metric
          MaxWorldChanges, \* changes of the workloads and of the states
          HealthChannel    \* capacity of the update channel

VARIABLES healthy,      \* IsAvailable of each component, as the cluster is
          health,       \* the published status of the resource
          cached,       \* an older or the current status, as the cache has it
          updates,      \* the channel of the status updater
          merging,      \* the event in doUpdate with the copy it read, if any
          worldChanges

healthVars == <<healthy, health, cached, updates, merging, worldChanges>>

(* The status: per component Ready or not and its availability, which may   *)
(* be unset, the count of available components, and a resource version.     *)
Availability == {"unset", "Available", "Unavailable"}

HStatus == [ready : [HComps -> BOOLEAN],
            available : [HComps -> Availability],
            count : 0..Cardinality(HComps) \cup {99},
            rv : Nat]

NoEvent == [kind |-> "none"]

HealthTypeOK ==
    /\ healthy \in [HComps -> BOOLEAN]
    /\ health \in HStatus
    /\ cached \in HStatus
    /\ \A i \in 1..Len(updates) : updates[i].kind \in {"availability", "details"}
    /\ Len(updates) <= HealthChannel
    /\ merging # NoEvent => merging.event.kind \in {"availability", "details"}
    /\ worldChanges \in 0..MaxWorldChanges

HealthInit ==
    /\ healthy = [c \in HComps |-> TRUE]
    /\ health = [ready |-> [c \in HComps |-> FALSE],
                 available |-> [c \in HComps |-> "unset"],
                 count |-> 99, rv |-> 0]
    /\ cached = health
    /\ updates = << >>
    /\ merging = NoEvent
    /\ worldChanges = 0

(* getComponentAvailability, from the state in the copy of the resource and *)
(* the workloads as they are now.                                           *)
ComponentAvailability(vz, c) ==
    IF vz.ready[c] /\ healthy[c] THEN "Available" ELSE "Unavailable"

newStatus(vz) ==
    LET avail == [c \in HComps |-> ComponentAvailability(vz, c)]
    IN [available |-> avail,
        count |-> Cardinality({c \in HComps : avail[c] = "Available"})]

(* Faulty variant: only the count, the printed column, is compared.         *)
needsUpdate_Count(vz, status) == vz.count # status.count

(* The new status is compared with the copy it was computed from.           *)
needsUpdate(vz, status) ==
    vz.available # status.available \/ vz.count # status.count

(* A tick: updateAvailability and sendStatus.                               *)
HealthTick ==
    /\ Len(updates) < HealthChannel
    /\ needsUpdate(cached, newStatus(cached))
    /\ updates' = Append(updates, [kind |-> "availability",
                                   status |-> newStatus(cached)])
    /\ UNCHANGED <<healthy, health, cached, merging, worldChanges>>

(* The reconciler changes the state of a component: its event carries the   *)
(* details of that component as the cached copy has them otherwise.         *)
ReconcilerUpdates(c) ==
    /\ worldChanges < MaxWorldChanges
    /\ Len(updates) < HealthChannel
    /\ worldChanges' = worldChanges + 1
    /\ updates' = Append(updates, [kind |-> "details", comp |-> c,
                                   ready |-> ~cached.ready[c],
                                   available |-> cached.available[c]])
    /\ UNCHANGED <<healthy, health, cached, merging>>

(* The merge of an event into the copy vz of the resource.                  *)
mergeEvent(e, vz) ==
    IF e.kind = "availability"
    THEN [vz EXCEPT !.available = e.status.available, !.count = e.status.count]
    ELSE [vz EXCEPT !.ready[e.comp] = e.ready, !.available[e.comp] = e.available]

(* doUpdate reads the resource from the cache and merges the event.         *)
ReceiveEvent ==
    /\ merging = NoEvent
    /\ updates # << >>
    /\ merging' = [event |-> Head(updates), base |-> cached]
    /\ updates' = Tail(updates)
    /\ UNCHANGED <<healthy, health, cached, worldChanges>>

(* Faulty variant: a conflict is overwritten instead of retried.            *)
WriteStatus_Force ==
    /\ merging # NoEvent
    /\ health' = [mergeEvent(merging.event, merging.base) EXCEPT !.rv = health.rv + 1]
    /\ merging' = NoEvent
    /\ UNCHANGED <<healthy, cached, updates, worldChanges>>

(* The update succeeds on the current version, is retried with a new copy   *)
(* after a conflict, or fails for good.                                     *)
WriteStatus ==
    /\ merging # NoEvent
    /\ \/ /\ merging.base.rv = health.rv
          /\ health' = [mergeEvent(merging.event, merging.base)
                           EXCEPT !.rv = health.rv + 1]
          /\ merging' = NoEvent
       \/ /\ merging.base.rv # health.rv
          /\ merging' = [merging EXCEPT !.base = cached]
          /\ UNCHANGED health
    /\ UNCHANGED <<healthy, cached, updates, worldChanges>>

UpdateFails ==
    /\ merging # NoEvent
    /\ merging.event.kind = "availability"
    /\ worldChanges < MaxWorldChanges
    /\ worldChanges' = worldChanges + 1
    /\ merging' = NoEvent
    /\ UNCHANGED <<healthy, health, cached, updates>>

(* The cluster: the cache catches up, the workloads come and go.            *)
CacheCatchesUp ==
    /\ cached' = health
    /\ UNCHANGED <<healthy, health, updates, merging, worldChanges>>

WorkloadChanges(c) ==
    /\ worldChanges < MaxWorldChanges
    /\ worldChanges' = worldChanges + 1
    /\ healthy' = [healthy EXCEPT ![c] = ~@]
    /\ UNCHANGED <<health, cached, updates, merging>>

HealthNext ==
    \/ HealthTick \/ ReceiveEvent \/ WriteStatus \/ UpdateFails
    \/ CacheCatchesUp
    \/ \E c \in HComps : ReconcilerUpdates(c) \/ WorkloadChanges(c)

HealthFairness == /\ SF_healthVars(HealthTick)
                  /\ WF_healthVars(ReceiveEvent)
                  /\ WF_healthVars(WriteStatus)
                  /\ WF_healthVars(CacheCatchesUp)

HealthSpec == HealthInit /\ [][HealthNext]_healthVars /\ HealthFairness

(***************************************************************************)
(* Properties.                                                             *)
(***************************************************************************)
(* Events are merged into the resource as it is, never into an older copy:  *)
(* one write changes what its own event is about and nothing else, however  *)
(* stale the cache it was read from (status_updater.go:85).                 *)
NoEventUndone ==
    [][health' # health =>
         /\ \A c \in HComps :
               health.ready[c] # health'.ready[c] =>
                   merging.event.kind = "details" /\ merging.event.comp = c
         /\ health'.count # health.count => merging.event.kind = "availability"]_health

(* Once the world is at rest the published availability is the true one,    *)
(* although each write was computed from an older status and an event of    *)
(* the reconciler brings back the availability of its own copy              *)
(* (availability.go:110).                                                   *)
AvailabilityConverges ==
    <>[](/\ health.available = newStatus(health).available
         /\ health.count = newStatus(health).count)
===============================================================================
