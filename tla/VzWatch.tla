------------------------------- MODULE VzWatch --------------------------------
(***************************************************************************)
(* The watches of the reconciler.  An event of a watched object (the       *)
(* managed cluster registration secret, a MySQL pod, the Thanos secret)    *)
(* puts the components that depend on it into the watched set and queues a *)
(* request; the next pass calls Reconcile of each watched component and    *)
(* clears its watch afterwards.  The event handler runs in a goroutine of  *)
(* its own: between Reconcile and ClearWatch it can add a watch that       *)
(* ClearWatch then removes.                                                *)
(***************************************************************************)
EXTENDS Naturals

CONSTANTS WatchComps,   \* the components that depend on the watched object
          MaxChanges,   \* changes of the object
          MaxWatchCrashes

VARIABLES object,       \* the version of the watched object
          applied,      \* the version each component was reconciled with
          watched,      \* Reconciler.WatchedComponents
          undelivered,  \* the last change has not reached the handler
          request,      \* a request is queued
          pass,         \* the components the running pass has yet to visit,
                        \* the one it is at, and its step
          upgrading,    \* status.state is Upgrading
          raced,        \* a watch was added between Reconcile and ClearWatch
          crashes

watchVars == <<object, applied, watched, undelivered, request, pass,
               upgrading, raced, crashes>>

NoComp == "none"

Idle == [todo |-> {}, at |-> NoComp, step |-> "idle"]

WatchTypeOK ==
    /\ object \in 0..MaxChanges
    /\ applied \in [WatchComps -> 0..MaxChanges]
    /\ watched \subseteq WatchComps
    /\ undelivered \in BOOLEAN
    /\ request \in BOOLEAN
    /\ pass \in [todo : SUBSET WatchComps, at : WatchComps \cup {NoComp},
                 step : {"idle", "loop", "reconcile", "clear"}]
    /\ upgrading \in BOOLEAN
    /\ raced \subseteq WatchComps
    /\ crashes \in 0..MaxWatchCrashes

WatchInit ==
    /\ object = 0
    /\ applied = [c \in WatchComps |-> 0]
    /\ watched = {}
    /\ undelivered = FALSE
    /\ request = FALSE
    /\ pass = Idle
    /\ upgrading = FALSE
    /\ raced = {}
    /\ crashes = 0

ObjectChanges ==
    /\ object < MaxChanges
    /\ object' = object + 1
    /\ undelivered' = TRUE
    /\ UNCHANGED <<applied, watched, request, pass, upgrading, raced, crashes>>

(* Faulty variant: the request is queued for a component already watched    *)
(* only.                                                                    *)
DeliverEvent_NoAdd ==
    /\ undelivered
    /\ undelivered' = FALSE
    /\ request' = TRUE
    /\ UNCHANGED <<object, applied, watched, pass, upgrading, raced, crashes>>

(* The predicate of the watch calls AddWatch and lets the handler enqueue.  *)
DeliverEvent ==
    /\ undelivered
    /\ undelivered' = FALSE
    /\ watched' = WatchComps
    /\ request' = TRUE
    /\ raced' = raced \cup (IF pass.step = "clear" THEN {pass.at} ELSE {})
    /\ UNCHANGED <<object, applied, pass, upgrading, crashes>>

(* A pass of the reconcile loop; an upgrade leaves the watches for later.   *)
BeginPass ==
    /\ request
    /\ pass = Idle
    /\ ~upgrading
    /\ request' = FALSE
    /\ pass' = [todo |-> WatchComps, at |-> NoComp, step |-> "loop"]
    /\ UNCHANGED <<object, applied, watched, undelivered, upgrading, raced,
                   crashes>>

Visited(c) ==
    pass' = IF pass.todo = {c} THEN Idle
            ELSE [todo |-> pass.todo \ {c}, at |-> NoComp, step |-> "loop"]

(* IsWatchedComponent.                                                      *)
VisitComponent(c) ==
    /\ pass.step = "loop"
    /\ c \in pass.todo
    /\ IF c \in watched
       THEN pass' = [pass EXCEPT !.at = c, !.step = "reconcile"]
       ELSE Visited(c)
    /\ UNCHANGED <<object, applied, watched, undelivered, request, upgrading,
                   raced, crashes>>

(* An error of Reconcile ends the pass, which is requeued; the component    *)
(* stays watched.                                                           *)
ReconcileFails ==
    /\ pass.step = "reconcile"
    /\ pass' = Idle
    /\ request' = TRUE
    /\ UNCHANGED <<object, applied, watched, undelivered, upgrading, raced,
                   crashes>>

(* Reconcile of the component works with the object as it is now.           *)
ReconcileWatched ==
    /\ pass.step = "reconcile"
    /\ applied' = [applied EXCEPT ![pass.at] = object]
    /\ raced' = raced \ {pass.at}
    /\ pass' = [pass EXCEPT !.step = "clear"]
    /\ UNCHANGED <<object, watched, undelivered, request, upgrading, crashes>>

ClearWatch ==
    /\ pass.step = "clear"
    /\ watched' = watched \ {pass.at}
    /\ Visited(pass.at)
    /\ UNCHANGED <<object, applied, undelivered, request, upgrading, raced,
                   crashes>>

(* The state of the resource enters or leaves Upgrading between passes.     *)
UpgradeToggles ==
    /\ pass = Idle
    /\ upgrading' = ~upgrading
    /\ request' = TRUE
    /\ UNCHANGED <<object, applied, watched, undelivered, pass, raced, crashes>>

(* A restart loses the set; initForVzResource watches again, and the list   *)
(* of the existing objects arrives as events.                               *)
WatchCrash ==
    /\ crashes < MaxWatchCrashes
    /\ crashes' = crashes + 1
    /\ watched' = {}
    /\ pass' = Idle
    /\ request' = TRUE
    /\ undelivered' = TRUE
    /\ UNCHANGED <<object, applied, upgrading, raced>>

WatchPass == BeginPass \/ ReconcileWatched \/ ClearWatch
             \/ \E c \in WatchComps : VisitComponent(c)

WatchNext ==
    \/ ObjectChanges \/ DeliverEvent \/ WatchPass \/ ReconcileFails
    \/ UpgradeToggles \/ WatchCrash

(* The queue and the handlers make progress, Reconcile succeeds in the end  *)
(* and an upgrade ends.                                                     *)
WatchFairness ==
    /\ WF_watchVars(DeliverEvent)
    /\ SF_watchVars(BeginPass)
    /\ \A c \in WatchComps : SF_watchVars(VisitComponent(c))
    /\ SF_watchVars(ReconcileWatched)
    /\ WF_watchVars(ClearWatch)
    /\ WF_watchVars(upgrading /\ UpgradeToggles)

WatchSpec == WatchInit /\ [][WatchNext]_watchVars /\ WatchFairness

(***************************************************************************)
(* Properties.                                                             *)
(***************************************************************************)
(* A change is not forgotten, through failing passes, upgrades and crashes: *)
(* each component has seen it, will be visited for it, or has lost it to    *)
(* the race of install.go:190.                                              *)
ChangeIsKept ==
    \A c \in WatchComps :
        applied[c] # object => \/ undelivered
                               \/ c \in watched \cup raced
                               \/ pass.at = c /\ pass.step = "reconcile"

(* Each component is reconciled with the last version of the object, but    *)
(* for that race.                                                           *)
ChangeIsApplied ==
    \A c \in WatchComps : <>[](applied[c] = object \/ c \in raced)

===============================================================================
