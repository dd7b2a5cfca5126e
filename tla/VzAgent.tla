-------------------------------- MODULE VzAgent --------------------------------
(***************************************************************************)
(* The cluster agent: one process with the multicluster agent, which       *)
(* copies the multicluster resources placed on this cluster from the admin *)
(* cluster and reports their status back, and the controllers that turn    *)
(* each copy into the resource it wraps.  A controller sends a status      *)
(* update to the agent over a bounded channel; the agent drains it in      *)
(* batches between two copies.                                             *)
(*                                                                         *)
(* The four kinds of multicluster resource are handled alike: an object    *)
(* stands for one of any kind, its template for the version of what it     *)
(* wraps.  On a cluster that is not registered the agent has no secret to  *)
(* reconcile and users create the resources themselves.                    *)
(***************************************************************************)
EXTENDS Naturals, Sequences

CONSTANTS McObjects,      \* multicluster resources, by name
          ChannelSize,    \* StatusUpdateChannelBufferSize
          BatchSize,      \* StatusUpdateBatchSize
          MaxAdminEdits,  \* edits by the users
          MaxAgentFaults  \* API errors, conflicts and crashes

VARIABLES registered,     \* the agent secret exists
          adminObj,       \* the resources on the admin cluster
          allowed,        \* the project lets this cluster read them
          mc,             \* their copies on this cluster
          wrapped,        \* the wrapped resources: a template or none
          queue,          \* reconcile requests of the controller
          worker,         \* the controller
          channel,        \* status updates for the agent
          agent,          \* the agent: what it listed, and its batch
          unreported,     \* objects whose last status update was lost
          adminEdits,
          agentFaults

agentVars == <<registered, adminObj, allowed, mc, wrapped, queue, worker,
               channel, agent, unreported, adminEdits, agentFaults>>

Nothing == 0    \* no template: nothing is wrapped

Templates == 1..2

Results == {"created", "updated", "unchanged", "failed"}

NoMc == [exists |-> FALSE]

NoStatus == [state |-> "none", done |-> "none", failed |-> FALSE]

NewMc(t) == [exists |-> TRUE, tmpl |-> t, placed |-> TRUE, deleting |-> FALSE,
             finalizer |-> FALSE, status |-> NoStatus]

Absent == [present |-> FALSE, placed |-> FALSE, tmpl |-> Nothing,
           report |-> "none"]

IdleWorker == [pc |-> "idle"]

IdleAgent == [pc |-> "idle"]

AgentTypeOK ==
    /\ registered \in BOOLEAN
    /\ adminObj \in [McObjects -> [present : BOOLEAN, placed : BOOLEAN,
                                   tmpl : Templates \cup {Nothing},
                                   report : Results \cup {"none"}]]
    /\ allowed \in BOOLEAN
    /\ \A o \in McObjects :
          mc[o].exists =>
             /\ mc[o].tmpl \in Templates
             /\ mc[o].status \in [state : {"none", "Succeeded", "Failed"},
                                  done : Results \cup {"none"},
                                  failed : BOOLEAN]
    /\ wrapped \in [McObjects -> Templates \cup {Nothing}]
    /\ queue \subseteq McObjects
    /\ worker.pc \in {"idle", "delete", "apply", "finalizer", "status", "send"}
    /\ channel \in Seq([obj : McObjects, result : Results])
    /\ Len(channel) <= ChannelSize
    /\ agent.pc \in {"idle", "write", "report"}
    /\ unreported \subseteq McObjects

AgentInit ==
    /\ registered \in BOOLEAN
    /\ adminObj = [o \in McObjects |-> Absent]
    /\ allowed = TRUE
    /\ mc = [o \in McObjects |-> NoMc]
    /\ wrapped = [o \in McObjects |-> Nothing]
    /\ queue = {}
    /\ worker = IdleWorker
    /\ channel = << >>
    /\ agent = IdleAgent
    /\ unreported = {}
    /\ adminEdits = 0
    /\ agentFaults = 0

Fault == agentFaults < MaxAgentFaults /\ agentFaults' = agentFaults + 1

NoFault == UNCHANGED agentFaults

(***************************************************************************)
(* The controller of the copies.                                           *)
(***************************************************************************)
StateOf(result) == IF result = "failed" THEN "Failed" ELSE "Succeeded"

StatusNeedsUpdate(status, result) ==
    \/ status.state # StateOf(result)
    \/ IF result = "failed" THEN ~status.failed ELSE status.done # result

(* addOrUpdateCondition keeps one condition of each type.                   *)
WithCondition(status, result) ==
    IF result = "failed"
    THEN [status EXCEPT !.state = "Failed", !.failed = TRUE]
    ELSE [status EXCEPT !.state = "Succeeded", !.done = result]

(* The copy the worker read is still the current one: its update succeeds.  *)
Current == mc[worker.obj] = worker.copy

WorkerDone(requeue) ==
    /\ worker' = IdleWorker
    /\ queue' = IF requeue THEN queue \cup {worker.obj} ELSE queue

(* Reconcile reads the copy.  When the cluster's own name cannot be read it *)
(* is taken not to be placed here (IsPlacedInThisCluster).                  *)
BeginReconcile(o) ==
    /\ worker = IdleWorker
    /\ o \in queue
    /\ queue' = queue \ {o}
    /\ \/ /\ ~mc[o].exists
          /\ worker' = IdleWorker
          /\ NoFault
       \/ /\ mc[o].exists
          /\ mc[o].deleting \/ ~mc[o].placed
          /\ worker' = [pc |-> "delete", obj |-> o, copy |-> mc[o]]
          /\ NoFault
       \/ /\ mc[o].exists
          /\ ~mc[o].deleting /\ mc[o].placed
          /\ \/ /\ worker' = [pc |-> "apply", obj |-> o, copy |-> mc[o]]
                /\ NoFault
             \/ /\ worker' = [pc |-> "delete", obj |-> o, copy |-> mc[o]]
                /\ Fault
    /\ UNCHANGED <<registered, adminObj, allowed, mc, wrapped, channel, agent, unreported, adminEdits>>

(* DeleteAssociatedResource: the wrapped resource, then the finalizer.      *)
DeleteAssociatedResource ==
    /\ worker.pc = "delete"
    /\ LET o == worker.obj
       IN \/ /\ Current
             /\ wrapped' = [wrapped EXCEPT ![o] = Nothing]
             /\ mc' = [mc EXCEPT ![o] = IF @.deleting THEN NoMc
                                        ELSE [@ EXCEPT !.finalizer = FALSE]]
             /\ WorkerDone(mc[o].finalizer /\ ~mc[o].deleting)
             /\ NoFault
          \/ /\ ~Current
             /\ wrapped' = [wrapped EXCEPT ![o] = Nothing]
             /\ UNCHANGED mc
             /\ WorkerDone(TRUE)
             /\ NoFault
          \/ /\ UNCHANGED <<mc, wrapped>>
             /\ WorkerDone(TRUE)
             /\ Fault
    /\ UNCHANGED <<registered, adminObj, allowed, channel, agent,
                   unreported, adminEdits>>

ToStep(step, result) == [pc |-> step, obj |-> worker.obj,
                         copy |-> worker.copy, result |-> result]

(* CreateOrUpdate of the wrapped resource from the copy's template.         *)
CreateOrUpdateWrapped ==
    /\ worker.pc = "apply"
    /\ LET o == worker.obj
           t == worker.copy.tmpl
       IN \/ /\ wrapped' = [wrapped EXCEPT ![o] = t]
             /\ worker' = ToStep("finalizer",
                                 IF wrapped[o] = t THEN "unchanged"
                                 ELSE IF wrapped[o] = Nothing THEN "created"
                                 ELSE "updated")
             /\ NoFault
          \/ /\ worker' = ToStep("status", "failed")
             /\ UNCHANGED wrapped
             /\ Fault
    /\ UNCHANGED <<registered, adminObj, allowed, mc, queue, channel, agent, unreported, adminEdits>>

(* Faulty variant: the finalizer is never added.                            *)
AddFinalizer_None ==
    /\ worker.pc = "finalizer"
    /\ worker' = [worker EXCEPT !.pc = "status"]
    /\ NoFault
    /\ UNCHANGED <<registered, adminObj, allowed, mc, wrapped, queue, channel,
                   agent, unreported, adminEdits>>

(* AddFinalizer updates the copy, unless it has changed or the API fails;   *)
(* that is reported as a failed deployment.                                 *)
AddFinalizer ==
    /\ worker.pc = "finalizer"
    /\ LET o == worker.obj
           new == [mc[o] EXCEPT !.finalizer = TRUE]
       IN \/ /\ worker.copy.finalizer
             /\ worker' = [worker EXCEPT !.pc = "status"]
             /\ UNCHANGED <<mc, queue>>
             /\ NoFault
          \/ /\ ~worker.copy.finalizer /\ Current
             /\ mc' = [mc EXCEPT ![o] = new]
             /\ worker' = [worker EXCEPT !.pc = "status", !.copy = new]
             /\ queue' = queue \cup {o}
             /\ NoFault
          \/ /\ ~worker.copy.finalizer
             /\ worker' = [worker EXCEPT !.pc = "status", !.result = "failed"]
             /\ UNCHANGED <<mc, queue>>
             /\ IF Current THEN Fault ELSE NoFault
    /\ UNCHANGED <<registered, adminObj, allowed, wrapped, channel, agent, unreported, adminEdits>>

(* UpdateStatus, up to the send on the channel.                             *)
UpdateMcStatus ==
    /\ worker.pc = "status"
    /\ LET o == worker.obj
           failed == worker.result = "failed"
       IN \/ /\ ~StatusNeedsUpdate(worker.copy.status, worker.result)
             /\ WorkerDone(failed)
             /\ UNCHANGED mc
             /\ NoFault
          \/ /\ StatusNeedsUpdate(worker.copy.status, worker.result)
             /\ Current
             /\ mc' = [mc EXCEPT ![o].status = WithCondition(@, worker.result)]
             /\ queue' = queue \cup {o}
             /\ worker' = [worker EXCEPT !.pc = "send"]
             /\ NoFault
          \/ /\ StatusNeedsUpdate(worker.copy.status, worker.result)
             /\ WorkerDone(TRUE)
             /\ UNCHANGED mc
             /\ IF Current THEN Fault ELSE NoFault
    /\ UNCHANGED <<registered, adminObj, allowed, wrapped, channel, agent, unreported, adminEdits>>

(* Faulty variant: a send that would block is dropped.                      *)
SendStatus_Drop ==
    /\ worker.pc = "send"
    /\ channel' = IF Len(channel) = ChannelSize THEN channel
                  ELSE Append(channel, [obj |-> worker.obj,
                                        result |-> worker.result])
    /\ WorkerDone(worker.result = "failed")
    /\ UNCHANGED <<registered, adminObj, allowed, mc, wrapped, agent,
                   unreported, adminEdits, agentFaults>>

(* The send blocks while the channel is full.                               *)
SendStatus ==
    /\ worker.pc = "send"
    /\ Len(channel) < ChannelSize
    /\ channel' = Append(channel, [obj |-> worker.obj,
                                   result |-> worker.result])
    /\ WorkerDone(worker.result = "failed")
    /\ UNCHANGED <<registered, adminObj, allowed, mc, wrapped, agent,
                   unreported, adminEdits, agentFaults>>

(***************************************************************************)
(* The agent.                                                              *)
(***************************************************************************)
(* What a list of the resources returns: a cluster that may not read them   *)
(* is treated as one without any.                                           *)
Listed == [o \in McObjects |->
             IF allowed /\ adminObj[o].present /\ adminObj[o].placed
             THEN adminObj[o].tmpl ELSE Nothing]

(* A list that fails otherwise leaves the copies alone in this iteration.   *)
ListResources ==
    /\ registered
    /\ agent = IdleAgent
    /\ \/ /\ agent' = [pc |-> "write", listed |-> Listed]
          /\ NoFault
       \/ /\ agent' = [pc |-> "report", left |-> BatchSize, tries |-> 0]
          /\ Fault
    /\ UNCHANGED <<registered, adminObj, allowed, mc, wrapped, queue, worker,
                   channel, unreported, adminEdits>>

(* Faulty variant: what is no longer listed stays.                          *)
Copied_Kept(m, t) ==
    IF t = Nothing THEN m
    ELSE IF m.exists THEN [m EXCEPT !.tmpl = t] ELSE NewMc(t)

(* The copy of an object after a write: created, updated, or deleted, which *)
(* waits for the finalizer.                                                 *)
Copied(m, t) ==
    IF t # Nothing
    THEN IF m.exists THEN [m EXCEPT !.tmpl = t] ELSE NewMc(t)
    ELSE IF m.exists /\ m.finalizer THEN [m EXCEPT !.deleting = TRUE]
         ELSE NoMc

(* The copies are written and those not listed deleted; a write that fails  *)
(* is logged and left for the next iteration.                               *)
WriteResources ==
    /\ agent.pc = "write"
    /\ \E done \in SUBSET McObjects :
          LET new(o) == IF o \in done THEN Copied(mc[o], agent.listed[o])
                        ELSE mc[o]
          IN /\ IF done = McObjects THEN NoFault ELSE Fault
             /\ mc' = [o \in McObjects |-> new(o)]
             /\ queue' = queue \cup {o \in McObjects : new(o) # mc[o]}
    /\ agent' = [pc |-> "report", left |-> BatchSize, tries |-> 0]
    /\ UNCHANGED <<registered, adminObj, allowed, wrapped, worker, channel,
                   unreported, adminEdits>>

(* processStatusUpdates: one message of the batch.                          *)
NextMessage == [agent EXCEPT !.left = @ - 1, !.tries = 0]

ReportStatus ==
    /\ agent.pc = "report"
    /\ agent.left > 0
    /\ channel # << >>
    /\ LET o == Head(channel).obj
           readable == allowed /\ adminObj[o].present
       IN \/ /\ readable
             /\ adminObj' = [adminObj EXCEPT ![o].report = Head(channel).result]
             /\ channel' = Tail(channel)
             /\ agent' = NextMessage
             /\ unreported' = unreported \ {o}
             /\ NoFault
          \/ /\ readable
             /\ agent.tries < 2
             /\ agent' = [agent EXCEPT !.tries = @ + 1]
             /\ UNCHANGED <<adminObj, channel, unreported>>
             /\ Fault
          \/ /\ channel' = Tail(channel)
             /\ agent' = NextMessage
             /\ unreported' = unreported \cup {o}
             /\ UNCHANGED adminObj
             /\ IF readable THEN Fault ELSE NoFault
    /\ UNCHANGED <<registered, allowed, mc, wrapped, queue, worker,
                   adminEdits>>

EndIteration ==
    /\ agent.pc = "report"
    /\ agent.left = 0 \/ channel = << >>
    /\ agent' = IdleAgent
    /\ UNCHANGED <<registered, adminObj, allowed, mc, wrapped, queue, worker,
                   channel, unreported, adminEdits, agentFaults>>

(* The process restarts; its controllers reconcile every copy again.        *)
AgentCrash ==
    /\ Fault
    /\ worker' = IdleWorker
    /\ agent' = IdleAgent
    /\ channel' = << >>
    /\ queue' = {o \in McObjects : mc[o].exists}
    /\ unreported' = unreported \cup {channel[i].obj : i \in 1..Len(channel)}
                     \cup (IF worker.pc = "send" THEN {worker.obj} ELSE {})
    /\ UNCHANGED <<registered, adminObj, allowed, mc, wrapped,
                   adminEdits>>

(* The informers of the manager deliver every object again from time to     *)
(* time.                                                                    *)
Resync ==
    /\ queue' = queue \cup {o \in McObjects : mc[o].exists}
    /\ UNCHANGED <<registered, adminObj, allowed, mc, wrapped, worker, channel,
                   agent, unreported, adminEdits, agentFaults>>

(***************************************************************************)
(* The users.                                                              *)
(***************************************************************************)
Edit == adminEdits < MaxAdminEdits /\ adminEdits' = adminEdits + 1

(* On the admin cluster a resource is created, edited, placed or deleted.   *)
(* One that is deleted and created anew has no status; a copy keeps its own.*)
AdminEdits(o) ==
    /\ registered
    /\ Edit
    /\ \/ /\ adminObj[o].present
          /\ adminObj' = [adminObj EXCEPT ![o] = Absent]
       \/ \E t \in Templates, p \in BOOLEAN :
             adminObj' = [adminObj EXCEPT
                ![o] = [@ EXCEPT !.present = TRUE, !.tmpl = t, !.placed = p]]
    /\ unreported' = IF /\ ~adminObj[o].present
                        /\ mc[o].exists /\ ~mc[o].deleting
                     THEN unreported \cup {o} ELSE unreported
    /\ UNCHANGED <<registered, allowed, mc, wrapped, queue, worker, channel,
                   agent, agentFaults>>

(* The project is placed on this cluster or taken off it.                   *)
ProjectMoves ==
    /\ registered
    /\ Edit
    /\ allowed' = ~allowed
    /\ UNCHANGED <<registered, adminObj, mc, wrapped, queue, worker, channel,
                   agent, unreported, agentFaults>>

(* On a cluster that is not registered users make and unmake the copies.    *)
LocalEdits(o) ==
    /\ ~registered
    /\ Edit
    /\ \/ \E t \in Templates : mc' = [mc EXCEPT ![o] = Copied(@, t)]
       \/ /\ mc[o].exists
          /\ mc' = [mc EXCEPT ![o].placed = ~@]
       \/ /\ mc[o].exists /\ mc[o].finalizer
          /\ mc' = [mc EXCEPT ![o].deleting = TRUE]
    /\ queue' = queue \cup {o}
    /\ UNCHANGED <<registered, adminObj, allowed, wrapped, worker, channel,
                   agent, unreported, agentFaults>>

WorkerStep ==
    \/ \E o \in McObjects : BeginReconcile(o)
    \/ DeleteAssociatedResource
    \/ CreateOrUpdateWrapped
    \/ AddFinalizer
    \/ UpdateMcStatus
    \/ SendStatus

AgentStep == ListResources \/ WriteResources \/ ReportStatus \/ EndIteration

AgentNext ==
    \/ WorkerStep
    \/ AgentStep
    \/ AgentCrash
    \/ Resync
    \/ \E o \in McObjects : AdminEdits(o) \/ LocalEdits(o)
    \/ ProjectMoves

(* The agent is requeued about every minute, the controller's queue is      *)
(* served; the faults are bounded.                                          *)
AgentFairness ==
    /\ WF_agentVars(AgentStep)
    /\ WF_agentVars(WorkerStep)
    /\ WF_agentVars(Resync)

AgentSpec == AgentInit /\ [][AgentNext]_agentVars /\ AgentFairness

(***************************************************************************)
(* Properties.                                                             *)
(***************************************************************************)
(* What a controller has made it can unmake: a copy it is done with holds   *)
(* the finalizer while its wrapped resource exists, through conflicts with  *)
(* the agent's writes, failures and crashes (controller.go:112).            *)
CopyProtected ==
    \A o \in McObjects :
        /\ mc[o].exists
        /\ wrapped[o] # Nothing
        /\ o \notin queue
        /\ worker.pc # "idle" => worker.obj # o
        => mc[o].finalizer

(* A copy that goes before its finalizer is added leaves the resource.      *)
Orphaned(o) == wrapped[o] # Nothing /\ ~mc[o].exists

(* On a registered cluster each resource is wrapped exactly if the admin    *)
(* cluster places it there and lets it be read, in its last version, unless *)
(* it was orphaned (mcagent_secret.go:35).                                  *)
PlacementApplied ==
    \A o \in McObjects :
        <>[](registered => wrapped[o] = Listed[o] \/ Orphaned(o))

(* The admin cluster learns the state each copy ends in, unless the last    *)
(* update was lost (mcagent_syncer.go:131): nothing sends it again, because *)
(* the copy's own status is already up to date.                             *)
StatusReported ==
    \A o \in McObjects :
        <>[](registered /\ Listed[o] # Nothing =>
                \/ o \in unreported
                \/ /\ mc[o].exists
                   /\ adminObj[o].report # "none"
                   /\ StateOf(adminObj[o].report) = mc[o].status.state)

===============================================================================
