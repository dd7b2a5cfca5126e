------------------------ MODULE VzMulticluster_proofs -------------------------
(***************************************************************************)
(* Proofs about the admin cluster, its managed clusters and applications.  *)
(* The copy of a multicluster resource holds the finalizer when its        *)
(* controller is done with it; a secret that applications share is not     *)
(* taken from one of them with another; what refers to a VMC in the tools  *)
(* of the admin cluster goes before the VMC does; a pass takes the scrape  *)
(* job of another cluster only with an old copy of the list; and a deleted *)
(* ingress trait leaves nothing behind: for any resources, bounds, edits   *)
(* and faults.                                                             *)
(***************************************************************************)
EXTENDS VzAgent, VzAgentShared, VzFleet, VzFederation, VzIngress, TLAPS

-------------------------------------------------------------------------------
(* Copies of multicluster resources.                                        *)

McFields == {"exists", "tmpl", "placed", "deleting", "finalizer", "status"}

IsMc(m) == m = NoMc \/ (DOMAIN m = McFields /\ m.exists = TRUE)

WellFormed ==
    /\ DOMAIN mc = McObjects
    /\ DOMAIN wrapped = McObjects
    /\ \A o \in McObjects : IsMc(mc[o])

(* Only the controller itself takes the finalizer away: once the copy it    *)
(* read, or updated, has the finalizer, the current copy keeps it for the   *)
(* rest of the pass, whatever the agent writes.                             *)
HoldsFinalizer(o) == mc[o].exists /\ mc[o].finalizer

WorkerInv ==
    worker.pc # "idle" =>
        /\ worker.obj \in McObjects
        /\ {"pc", "obj", "copy"} \subseteq DOMAIN worker
        /\ worker.copy.exists = TRUE /\ DOMAIN worker.copy = McFields
        /\ worker.pc \in {"delete", "apply", "finalizer", "status", "send"}
        /\ worker.pc # "delete" /\ worker.copy.finalizer => HoldsFinalizer(worker.obj)
        /\ worker.pc \in {"finalizer", "status", "send"} =>
              DOMAIN worker = {"pc", "obj", "copy", "result"}
        /\ worker.pc \in {"status", "send"} /\ worker.result # "failed" =>
              HoldsFinalizer(worker.obj)

AgentInv ==
    /\ WellFormed
    /\ "pc" \in DOMAIN worker
    /\ WorkerInv
    /\ CopyProtected

LEMMA AgentInvInit == AgentInit => AgentInv
  BY DEF AgentInit, AgentInv, WellFormed, IsMc, NoMc, IdleWorker, WorkerInv, CopyProtected

(* A write of the agent or of a user keeps the finalizer.                   *)
LEMMA CopiedKeeps ==
    ASSUME NEW m, IsMc(m), NEW t
    PROVE  /\ IsMc(Copied(m, t))
           /\ m.exists /\ m.finalizer => /\ Copied(m, t).exists
                                         /\ Copied(m, t).finalizer
  BY DEF IsMc, NoMc, NewMc, Copied, McFields

(* Steps that keep the copies' finalizers and queue every copy they touch.  *)
LEMMA WritesKeepInv ==
    ASSUME AgentInv, UNCHANGED <<wrapped, worker>>,
           DOMAIN mc' = McObjects,
           \A o \in McObjects : /\ IsMc(mc'[o])
                                /\ HoldsFinalizer(o) => HoldsFinalizer(o)'
                                /\ mc'[o] = mc[o] \/ o \in queue',
           queue \subseteq queue'
    PROVE  AgentInv'
<1> USE DEF AgentInv
<1>1. WellFormed'
  BY DEF WellFormed
<1>2. WorkerInv'
  BY DEF WorkerInv
<1>3. CopyProtected'
  BY DEF CopyProtected
<1> QED
  BY <1>1, <1>2, <1>3

(* The end of a pass on o that changed nothing of the other objects.        *)
LEMMA PassEnds ==
    ASSUME AgentInv, worker.pc # "idle", NEW requeue, WorkerDone(requeue),
           DOMAIN mc' = McObjects, DOMAIN wrapped' = McObjects,
           \A o \in McObjects : o # worker.obj => mc'[o] = mc[o] /\ wrapped'[o] = wrapped[o],
           IsMc(mc'[worker.obj]),
           \/ wrapped'[worker.obj] = Nothing
           \/ requeue
           \/ mc'[worker.obj].finalizer
    PROVE  AgentInv'
<1> USE DEF AgentInv
<1>1. WellFormed'
  BY DEF WellFormed
<1>2. "pc" \in DOMAIN worker' /\ worker'.pc = "idle"
  BY DEF WorkerDone, IdleWorker
<1>3. CopyProtected'
  <2>1. SUFFICES ASSUME NEW o \in McObjects, mc'[o].exists, wrapped'[o] # Nothing,
                        o \notin queue'
                 PROVE  mc'[o].finalizer
    BY <1>2 DEF CopyProtected
  <2>2. CASE o = worker.obj
    <3>1. ~requeue
      BY <2>1, <2>2 DEF WorkerDone
    <3> QED
      BY <2>1, <2>2, <3>1
  <2>3. CASE o # worker.obj
    <3>1. o \notin queue
      BY <2>1 DEF WorkerDone
    <3> QED
      BY <2>1, <2>3, <3>1 DEF CopyProtected
  <2> QED
    BY <2>2, <2>3
<1> QED
  BY <1>1, <1>2, <1>3 DEF WorkerInv

(* A step inside a pass.                                                    *)
LEMMA PassGoesOn ==
    ASSUME AgentInv, worker.pc # "idle", worker'.obj = worker.obj, worker'.pc # "idle",
           DOMAIN mc' = McObjects, DOMAIN wrapped' = McObjects,
           \A o \in McObjects : o # worker.obj => mc'[o] = mc[o] /\ wrapped'[o] = wrapped[o],
           IsMc(mc'[worker.obj]), queue \subseteq queue',
           WorkerInv', "pc" \in DOMAIN worker'
    PROVE  AgentInv'
  BY DEF AgentInv, WellFormed, CopyProtected

LEMMA AgentInvStep == AgentInv /\ [AgentNext]_agentVars => AgentInv'
<1> SUFFICES ASSUME AgentInv, [AgentNext]_agentVars
             PROVE  AgentInv'
  OBVIOUS
<1> USE DEF AgentInv
<1>1. ASSUME UNCHANGED <<mc, wrapped, worker>>, queue \subseteq queue'
      PROVE  AgentInv'
  BY <1>1 DEF WellFormed, WorkerInv, HoldsFinalizer, CopyProtected
<1>2. ASSUME NEW o \in McObjects, BeginReconcile(o)
      PROVE  AgentInv'
  <2>1. UNCHANGED <<mc, wrapped>> /\ queue' = queue \ {o} /\ worker.pc = "idle"
    BY <1>2 DEF BeginReconcile, IdleWorker
  <2>2. CASE ~mc[o].exists /\ worker' = IdleWorker
    <3>1. CopyProtected'
      BY <2>1, <2>2 DEF CopyProtected, IdleWorker
    <3> QED
      BY <2>1, <2>2, <3>1 DEF WellFormed, WorkerInv, IdleWorker
  <2>3. CASE \E p \in {"delete", "apply"} :
                 mc[o].exists /\ worker' = [pc |-> p, obj |-> o, copy |-> mc[o]]
    <3>1. WorkerInv' /\ "pc" \in DOMAIN worker' /\ worker'.obj = o
      BY <2>1, <2>3 DEF WellFormed, IsMc, NoMc, WorkerInv, HoldsFinalizer
    <3>2. CopyProtected'
      BY <2>1, <2>3, <3>1 DEF CopyProtected
    <3> QED
      BY <2>1, <3>1, <3>2 DEF WellFormed
  <2> QED
    BY <1>2, <2>2, <2>3 DEF BeginReconcile
<1>3. CASE DeleteAssociatedResource
  <2> DEFINE o == worker.obj
  <2>0. worker.pc # "idle" /\ o \in McObjects
    BY <1>3 DEF DeleteAssociatedResource, WorkerInv
  <2>1. CASE /\ wrapped' = [wrapped EXCEPT ![o] = Nothing]
             /\ mc' = [mc EXCEPT ![o] = IF @.deleting THEN NoMc
                                        ELSE [@ EXCEPT !.finalizer = FALSE]]
             /\ Current
             /\ WorkerDone(mc[o].finalizer /\ ~mc[o].deleting)
    <3>1. IsMc(mc'[o])
      BY <2>0, <2>1 DEF Current, WorkerInv, WellFormed, IsMc, McFields
    <3> QED
      BY <2>0, <2>1, <3>1, PassEnds DEF WellFormed
  <2>2. CASE /\ wrapped' = [wrapped EXCEPT ![o] = Nothing] \/ UNCHANGED wrapped
             /\ UNCHANGED mc
             /\ WorkerDone(TRUE)
    BY <2>0, <2>2, PassEnds DEF WellFormed
  <2> QED
    BY <1>3, <2>1, <2>2 DEF DeleteAssociatedResource
<1>4. CASE CreateOrUpdateWrapped
  <2>0. worker.pc = "apply" /\ worker.obj \in McObjects /\ UNCHANGED <<mc, queue>>
    BY <1>4 DEF CreateOrUpdateWrapped, WorkerInv
  <2>1. \/ \E r : worker' = ToStep("finalizer", r)
        \/ worker' = ToStep("status", "failed")
    BY <1>4, Zenon DEF CreateOrUpdateWrapped
  <2> DEFINE GoesOn == /\ worker'.obj = worker.obj /\ worker'.pc # "idle"
                       /\ "pc" \in DOMAIN worker' /\ WorkerInv'
  <2>2. GoesOn
    <3>1. ASSUME NEW r, worker' = ToStep("finalizer", r)
          PROVE  GoesOn
      BY <2>0, <3>1 DEF ToStep, WorkerInv, HoldsFinalizer
    <3>2. CASE worker' = ToStep("status", "failed")
      BY <2>0, <3>2 DEF ToStep, WorkerInv, HoldsFinalizer
    <3> QED
      BY <2>1, <3>1, <3>2
  <2>3. wrapped' = [wrapped EXCEPT ![worker.obj] = worker.copy.tmpl] \/ UNCHANGED wrapped
    BY <1>4 DEF CreateOrUpdateWrapped
  <2> QED
    BY <2>0, <2>2, <2>3, PassGoesOn DEF WellFormed
<1>5. CASE AddFinalizer
  <2>0. worker.pc = "finalizer" /\ worker.obj \in McObjects /\ UNCHANGED wrapped
    BY <1>5 DEF AddFinalizer, WorkerInv
  <2> DEFINE o == worker.obj
             new == [mc[o] EXCEPT !.finalizer = TRUE]
  <2>1. CASE /\ worker.copy.finalizer
             /\ worker' = [worker EXCEPT !.pc = "status"]
             /\ UNCHANGED <<mc, queue>>
    <3>1. WorkerInv' /\ worker'.pc = "status" /\ worker'.obj = o /\ "pc" \in DOMAIN worker'
      BY <2>0, <2>1 DEF WorkerInv, HoldsFinalizer
    <3> QED
      BY <2>0, <2>1, <3>1, PassGoesOn DEF WellFormed
  <2>2. CASE /\ Current
             /\ mc' = [mc EXCEPT ![o] = new]
             /\ worker' = [worker EXCEPT !.pc = "status", !.copy = new]
             /\ queue' = queue \cup {o}
    <3>1. DOMAIN mc[o] = McFields /\ mc[o].exists = TRUE
      BY <2>0, <2>2 DEF Current, WorkerInv
    <3>2. /\ DOMAIN new = McFields /\ new.exists = TRUE /\ new.finalizer = TRUE
      BY <3>1 DEF McFields
    <3> HIDE DEF new
    <3>3. mc'[o] = new /\ DOMAIN mc' = McObjects /\ \A q \in McObjects : q # o => mc'[q] = mc[q]
      BY <2>0, <2>2 DEF WellFormed
    <3>4. /\ worker'.pc = "status" /\ worker'.obj = o /\ worker'.copy = new
          /\ DOMAIN worker' = {"pc", "obj", "copy", "result"}
      BY <2>0, <2>2 DEF WorkerInv
    <3>5. WorkerInv' /\ IsMc(mc'[o])
      BY <2>0, <3>2, <3>3, <3>4 DEF WorkerInv, HoldsFinalizer, IsMc
    <3> QED
      BY <2>0, <2>2, <3>3, <3>4, <3>5, PassGoesOn DEF WellFormed
  <2>3. CASE /\ worker' = [worker EXCEPT !.pc = "status", !.result = "failed"]
             /\ UNCHANGED <<mc, queue>>
    <3>1. /\ worker'.pc = "status" /\ worker'.obj = o /\ worker'.copy = worker.copy
          /\ worker'.result = "failed"
          /\ DOMAIN worker' = {"pc", "obj", "copy", "result"}
      BY <2>0, <2>3 DEF WorkerInv
    <3>2. WorkerInv'
      BY <2>0, <2>3, <3>1 DEF WorkerInv, HoldsFinalizer
    <3> QED
      BY <2>0, <2>3, <3>1, <3>2, PassGoesOn DEF WellFormed
  <2> QED
    BY <1>5, <2>1, <2>2, <2>3 DEF AddFinalizer
<1>6. CASE UpdateMcStatus
  <2>0. worker.pc = "status" /\ worker.obj \in McObjects /\ UNCHANGED wrapped
    BY <1>6 DEF UpdateMcStatus, WorkerInv
  <2> DEFINE o == worker.obj
             failed == worker.result = "failed"
  <2>1. CASE UNCHANGED mc /\ (WorkerDone(failed) \/ WorkerDone(TRUE))
    <3>1. failed \/ mc'[o].finalizer
      BY <2>0, <2>1 DEF WorkerInv, HoldsFinalizer
    <3>2. worker.pc # "idle" /\ IsMc(mc'[o]) /\ DOMAIN mc' = McObjects
          /\ DOMAIN wrapped' = McObjects
      BY <2>0, <2>1 DEF WellFormed
    <3> HIDE DEF failed
    <3>3. CASE WorkerDone(failed)
      BY <2>0, <2>1, <3>1, <3>2, <3>3, PassEnds
    <3>4. CASE WorkerDone(TRUE)
      BY <2>0, <2>1, <3>2, <3>4, PassEnds
    <3> QED
      BY <2>1, <3>3, <3>4
  <2>2. CASE /\ Current
             /\ mc' = [mc EXCEPT ![o].status = WithCondition(@, worker.result)]
             /\ queue' = queue \cup {o}
             /\ worker' = [worker EXCEPT !.pc = "send"]
    <3>1. DOMAIN mc[o] = McFields /\ mc[o].exists = TRUE
      BY <2>0, <2>2 DEF Current, WorkerInv
    <3>2. /\ DOMAIN mc' = McObjects /\ \A q \in McObjects : q # o => mc'[q] = mc[q]
          /\ DOMAIN mc'[o] = McFields /\ mc'[o].exists = TRUE
          /\ mc'[o].finalizer = mc[o].finalizer
      BY <2>0, <2>2, <3>1 DEF WellFormed, McFields
    <3>3. /\ worker'.pc = "send" /\ worker'.obj = o /\ worker'.copy = worker.copy
          /\ worker'.result = worker.result
          /\ DOMAIN worker' = {"pc", "obj", "copy", "result"}
      BY <2>0, <2>2 DEF WorkerInv
    <3>4. WorkerInv' /\ IsMc(mc'[o])
      BY <2>0, <3>1, <3>2, <3>3 DEF WorkerInv, HoldsFinalizer, IsMc
    <3> QED
      BY <2>0, <2>2, <3>2, <3>3, <3>4, PassGoesOn DEF WellFormed
  <2> QED
    BY <1>6, <2>1, <2>2 DEF UpdateMcStatus
<1>7. CASE SendStatus
  <2>1. /\ worker.pc = "send" /\ worker.obj \in McObjects /\ UNCHANGED <<mc, wrapped>>
        /\ WorkerDone(worker.result = "failed")
    BY <1>7 DEF SendStatus, WorkerInv
  <2> DEFINE failed == worker.result = "failed"
  <2>2. failed \/ mc'[worker.obj].finalizer
    BY <2>1 DEF WorkerInv, HoldsFinalizer
  <2>3. WorkerDone(failed)
    BY <2>1
  <2>4. /\ worker.pc # "idle" /\ IsMc(mc'[worker.obj]) /\ DOMAIN mc' = McObjects
        /\ DOMAIN wrapped' = McObjects
    BY <2>1 DEF WellFormed
  <2> HIDE DEF failed
  <2> QED
    BY <2>1, <2>2, <2>3, <2>4, PassEnds
<1>8. CASE AgentStep
  <2>1. CASE ListResources \/ ReportStatus \/ EndIteration
    BY <1>1, <2>1 DEF ListResources, ReportStatus, EndIteration
  <2>2. CASE WriteResources
    <3>1. PICK done \in SUBSET McObjects :
             LET new(o) == IF o \in done THEN Copied(mc[o], agent.listed[o]) ELSE mc[o]
             IN /\ mc' = [o \in McObjects |-> new(o)]
                /\ queue' = queue \cup {o \in McObjects : new(o) # mc[o]}
      BY <2>2 DEF WriteResources
    <3>2. UNCHANGED <<wrapped, worker>>
      BY <2>2 DEF WriteResources
    <3>3. ASSUME NEW o \in McObjects
          PROVE  /\ IsMc(mc'[o])
                 /\ HoldsFinalizer(o) => HoldsFinalizer(o)'
                 /\ mc'[o] = mc[o] \/ o \in queue'
      <4>1. mc'[o] = Copied(mc[o], agent.listed[o]) \/ mc'[o] = mc[o]
        BY <3>1
      <4> QED
        BY <3>1, <4>1, CopiedKeeps DEF WellFormed, HoldsFinalizer
    <3> QED
      BY <3>1, <3>2, <3>3, WritesKeepInv
  <2> QED
    BY <1>8, <2>1, <2>2 DEF AgentStep
<1>9. CASE AgentCrash
  <2>1. /\ UNCHANGED <<mc, wrapped>> /\ worker' = IdleWorker
        /\ queue' = {o \in McObjects : mc[o].exists}
    BY <1>9 DEF AgentCrash
  <2> QED
    BY <2>1 DEF WellFormed, WorkerInv, CopyProtected, IdleWorker
<1>10. CASE Resync
  BY <1>1, <1>10 DEF Resync
<1>11. ASSUME NEW o \in McObjects, AdminEdits(o)
       PROVE  AgentInv'
  BY <1>1, <1>11 DEF AdminEdits
<1>12. ASSUME NEW o \in McObjects, LocalEdits(o)
       PROVE  AgentInv'
  <2>1. UNCHANGED <<wrapped, worker>> /\ queue' = queue \cup {o}
    BY <1>12 DEF LocalEdits
  <2>2. PICK m : /\ mc' = [mc EXCEPT ![o] = m]
                 /\ IsMc(m)
                 /\ HoldsFinalizer(o) => m.exists /\ m.finalizer
    <3>1. CASE \E t \in Templates : mc' = [mc EXCEPT ![o] = Copied(@, t)]
      BY <3>1, CopiedKeeps DEF WellFormed, HoldsFinalizer
    <3>2. CASE mc[o].exists /\ mc' = [mc EXCEPT ![o].placed = ~@]
      <4> DEFINE m == [mc[o] EXCEPT !.placed = ~@]
      <4>1. DOMAIN mc[o] = McFields /\ mc[o].exists = TRUE
        BY <3>2 DEF WellFormed, IsMc, NoMc
      <4>2. DOMAIN m = McFields /\ m.exists = TRUE /\ m.finalizer = mc[o].finalizer
        BY <4>1 DEF McFields
      <4>3. mc' = [mc EXCEPT ![o] = m]
        BY <3>2
      <4> HIDE DEF m
      <4> QED
        BY <4>2, <4>3 DEF IsMc, HoldsFinalizer
    <3>3. CASE mc[o].exists /\ mc' = [mc EXCEPT ![o].deleting = TRUE]
      <4> DEFINE m == [mc[o] EXCEPT !.deleting = TRUE]
      <4>1. DOMAIN mc[o] = McFields /\ mc[o].exists = TRUE
        BY <3>3 DEF WellFormed, IsMc, NoMc
      <4>2. DOMAIN m = McFields /\ m.exists = TRUE /\ m.finalizer = mc[o].finalizer
        BY <4>1 DEF McFields
      <4>3. mc' = [mc EXCEPT ![o] = m]
        BY <3>3
      <4> HIDE DEF m
      <4> QED
        BY <4>2, <4>3 DEF IsMc, HoldsFinalizer
    <3> QED
      BY <1>12, <3>1, <3>2, <3>3 DEF LocalEdits
  <2> QED
    BY <2>1, <2>2, WritesKeepInv DEF WellFormed, HoldsFinalizer
<1>13. CASE ProjectMoves
  BY <1>1, <1>13 DEF ProjectMoves
<1>14. CASE UNCHANGED agentVars
  BY <1>1, <1>14 DEF agentVars
<1> QED
  BY <1>2, <1>3, <1>4, <1>5, <1>6, <1>7, <1>8, <1>9, <1>10, <1>11, <1>12, <1>13,
     <1>14 DEF AgentNext, WorkerStep

(* What a controller has made it can unmake: through conflicts with the     *)
(* writes of the agent, failures and crashes, a copy whose pass is over     *)
(* holds the finalizer while the resource it wraps exists                   *)
(* (controller.go:112).                                                     *)
THEOREM CopyProtectedCorrect == AgentSpec => []CopyProtected
<1>1. AgentInv => CopyProtected
  BY DEF AgentInv
<1> QED
  BY <1>1, AgentInvInit, AgentInvStep, PTL DEF AgentSpec

-------------------------------------------------------------------------------
(* Shared secrets.  Within an iteration every reference that was listed is  *)
(* still to be written, failed to be written, or is on the label of its     *)
(* secret, whatever the label was; the clean-up begins once none is to be   *)
(* written any more, and spares a secret with a listed application on its   *)
(* label.                                                                   *)
Carries(i, a) == secret[i].present /\ a \in secret[i].label

SecretsTyped == /\ secret \in [Items -> Copies]
                /\ sharePc = "writeSecrets" => toWrite \subseteq Apps \X Items

ReferencesWritten ==
    sharePc = "writeSecrets" =>
        \A i \in Items : \A a \in ListedUsers(i) :
            <<a, i>> \in toWrite \cup unwritten \/ Carries(i, a)

ReferencesKept ==
    sharePc = "cleanSecrets" =>
        \A i \in Items \cap toClean : \A a \in ListedUsers(i) :
            <<a, i>> \in unwritten \/ Carries(i, a)

SecretsInv == SecretsTyped /\ ReferencesWritten /\ ReferencesKept

LEMMA SecretsInvInit == ShareInit => SecretsInv
  BY DEF ShareInit, SecretsInv, SecretsTyped, ReferencesWritten,
         ReferencesKept, Copies, NoCopy

LEMMA WriteSecretStep ==
    ASSUME SecretsInv, WriteSecret
    PROVE  SecretsInv'
<1>1. sharePc = "writeSecrets" /\ secret \in [Items -> Copies]
      /\ toWrite \subseteq Apps \X Items /\ ReferencesWritten
  BY DEF SecretsInv, SecretsTyped, WriteSecret
<1>2. PICK a \in Apps, i \in Items :
         \/ /\ secret' = [secret EXCEPT ![i] = Written(@, a)]
            /\ toWrite' = toWrite \ {<<a, i>>}
            /\ UNCHANGED <<sharePc, unwritten>>
         \/ /\ toWrite' = toWrite \ {<<a, i>>}
            /\ unwritten' = unwritten \cup {<<a, i>>}
            /\ UNCHANGED <<sharePc, secret>>
         \/ /\ toWrite' = {}
            /\ sharePc' = "applications"
            /\ UNCHANGED secret
  <2>1. PICK r \in toWrite :
           \/ /\ secret' = [secret EXCEPT ![r[2]] = Written(@, r[1])]
              /\ toWrite' = toWrite \ {r}
              /\ UNCHANGED <<sharePc, unwritten>>
           \/ /\ toWrite' = toWrite \ {r}
              /\ unwritten' = unwritten \cup {r}
              /\ UNCHANGED <<sharePc, secret>>
           \/ /\ toWrite' = {}
              /\ sharePc' = "applications"
              /\ UNCHANGED secret
    BY DEF WriteSecret
  <2>2. PICK a \in Apps, i \in Items : r = <<a, i>>
    BY <1>1, <2>1
  <2> QED
    BY <2>1, <2>2
<1>3. Written(secret[i], a) = [present |-> TRUE,
                               label |-> secret[i].label \cup {a}]
  BY DEF Written
<1>4. secret[i].label \subseteq Apps
  BY <1>1 DEF Copies
<1>5. secret' \in [Items -> Copies]
  <2>1. Written(secret[i], a) \in Copies
    BY <1>3, <1>4 DEF Copies
  <2> HIDE DEF Copies
  <2> QED
    BY <1>1, <1>2, <2>1
<1>6. listed' = listed
  BY DEF WriteSecret
<1>7. ASSUME sharePc' = "writeSecrets", NEW j \in Items, NEW b \in ListedUsers(j)
      PROVE  <<b, j>> \in toWrite' \cup unwritten' \/ Carries(j, b)'
  <2>1. <<b, j>> \in toWrite \cup unwritten \/ Carries(j, b)
    BY <1>1, <1>7 DEF ReferencesWritten
  <2> QED
    BY <1>1, <1>2, <1>3, <1>7, <2>1 DEF Carries
<1> QED
  BY <1>1, <1>2, <1>5, <1>6, <1>7
     DEF SecretsInv, SecretsTyped, ReferencesWritten, ReferencesKept,
         ListedUsers

LEMMA CleanSecretStep ==
    ASSUME SecretsInv, CleanSecret
    PROVE  /\ SecretsInv'
           /\ \A i \in Items : secret[i].present /\ ~secret'[i].present =>
                 \A a \in ListedUsers(i) : <<a, i>> \in unwritten
<1>1. sharePc = "cleanSecrets" /\ secret \in [Items -> Copies]
      /\ ReferencesKept
  BY DEF SecretsInv, SecretsTyped, CleanSecret
<1>2. PICK i \in toClean :
         /\ \/ secret' = [secret EXCEPT
                  ![i] = IF k8sSecretPlacedOnCluster(@)
                         THEN [@ EXCEPT !.label = ListedUsers(i)]
                         ELSE NoCopy]
            \/ UNCHANGED secret
         /\ toClean' = toClean \ {i}
  BY DEF CleanSecret
<1>3. UNCHANGED <<sharePc, listed, unwritten>>
  BY DEF CleanSecret
<1>4. ListedUsers(i) \subseteq Apps
  BY DEF ListedUsers
<1>5. secret' \in [Items -> Copies]
  <2> DEFINE left == IF k8sSecretPlacedOnCluster(secret[i])
                     THEN [secret[i] EXCEPT !.label = ListedUsers(i)]
                     ELSE NoCopy
  <2>1. ASSUME i \in Items
        PROVE  left \in Copies
    <3>1. secret[i] \in Copies
      BY <1>1, <2>1
    <3>2. [secret[i] EXCEPT !.label = ListedUsers(i)] \in Copies
      BY <1>4, <3>1 DEF Copies
    <3> QED
      BY <3>2 DEF Copies, NoCopy
  <2>2. secret' = secret \/ secret' = [secret EXCEPT ![i] = left]
    BY <1>2
  <2> HIDE DEF left
  <2> QED
    BY <1>1, <2>1, <2>2
<1>6. \A j \in Items : j # i => secret'[j] = secret[j]
  BY <1>1, <1>2
<1>7. ReferencesKept'
  BY <1>1, <1>2, <1>3, <1>6 DEF ReferencesKept, Carries, ListedUsers
<1>8. ASSUME NEW j \in Items, secret[j].present, ~secret'[j].present,
             NEW a \in ListedUsers(j)
      PROVE  <<a, j>> \in unwritten
  <2>1. j = i /\ ~k8sSecretPlacedOnCluster(secret[i])
    BY <1>1, <1>2, <1>6, <1>8 DEF Copies
  <2>2. ~Carries(j, a)
    BY <2>1, <1>8 DEF Carries, k8sSecretPlacedOnCluster, ListedUsers
  <2> QED
    BY <1>1, <1>2, <2>1, <2>2 DEF ReferencesKept
<1> QED
  BY <1>1, <1>3, <1>5, <1>7, <1>8
     DEF SecretsInv, SecretsTyped, ReferencesWritten

(* Every other step leaves the copies of the secrets alone.                 *)
LEMMA SecretsInvStep ==
    ASSUME SecretsInv, [ShareNext]_shareVars
    PROVE  /\ SecretsInv'
           /\ \A i \in Items : secret[i].present /\ ~secret'[i].present =>
                 \A a \in ListedUsers(i) : <<a, i>> \in unwritten
<1>1. CASE ListForSecrets
  <2>1. sharePc' = "writeSecrets" => toWrite' = References(listed')
    BY <1>1 DEF ListForSecrets
  <2>2. \A i \in Items : \A a \in ListedUsers(i)' :
           <<a, i>> \in References(listed')
    BY DEF References, ListedUsers
  <2>3. References(listed') \subseteq Apps \X Items
    BY DEF References
  <2>4. secret' = secret /\ sharePc' # "cleanSecrets"
    BY <1>1 DEF ListForSecrets
  <2> QED
    BY <2>1, <2>2, <2>3, <2>4
       DEF SecretsInv, SecretsTyped, ReferencesWritten, ReferencesKept
<1>2. CASE WriteSecret
  <2>1. \A i \in Items : secret[i].present => secret'[i].present
    BY <1>2 DEF WriteSecret, Written, SecretsInv, SecretsTyped
  <2> QED
    BY <1>2, <2>1, WriteSecretStep
<1>3. CASE ListSecrets
  BY <1>3 DEF ListSecrets, SecretsInv, SecretsTyped, ReferencesWritten,
              ReferencesKept, Carries, ListedUsers
<1>4. CASE CleanSecret
  BY <1>4, CleanSecretStep
<1>5. CASE SecretsCleaned
  BY <1>5 DEF SecretsCleaned, SecretsInv, SecretsTyped, ReferencesWritten,
              ReferencesKept
<1>6. CASE syncMCApplicationConfigurationObjects
  <2>1. secret' = secret /\ sharePc' \notin {"writeSecrets", "cleanSecrets"}
    BY <1>6 DEF syncMCApplicationConfigurationObjects, ListApplications,
                WriteComponent, CopyApplication, ListCopies, DeleteCopy,
                ListComponents, CleanComponent
  <2> QED
    BY <2>1 DEF SecretsInv, SecretsTyped, ReferencesWritten, ReferencesKept
<1>7. CASE UNCHANGED <<secret, passVars>>
  BY <1>7 DEF passVars, SecretsInv, SecretsTyped, ReferencesWritten,
              ReferencesKept, Carries, ListedUsers
<1> QED
  BY <1>1, <1>2, <1>3, <1>4, <1>5, <1>6, <1>7
     DEF ShareNext, syncSecretObjects, LocalAppGone, EditApp, EditSource,
         shareVars

(* A secret stays with the applications that are placed here and name it    *)
(* when another one goes or moves (mcagent_k8ssecret.go:73), for any number *)
(* of applications and secrets, with edits of the admin cluster between any *)
(* two steps of the agent's iteration: only an application that was not     *)
(* among its users when the iteration listed them, or whose reference could *)
(* not be written, can lose it.                                             *)
THEOREM SharedSecretKeptCorrect == ShareSpec => SharedSecretKept
<1>1. SecretsInv /\ [ShareNext]_shareVars
        => [\A i \in Items : secret[i].present /\ ~secret'[i].present =>
              \A a \in Users(i) : a \notin ListedUsers(i)
                                  \/ <<a, i>> \in unwritten]_shareVars
  BY SecretsInvStep
<1> QED
  BY <1>1, SecretsInvInit, SecretsInvStep, PTL DEF ShareSpec, SharedSecretKept

-------------------------------------------------------------------------------
(* The registration of managed clusters.                                    *)

(* A pass of the VMC controller works on a VMC that has the finalizer, so   *)
(* that only the pass itself can remove the object; the configuration is    *)
(* written in such a pass only, and is gone by the time the pass reaches    *)
(* Rancher.                                                                 *)
HasFields == DOMAIN vmc = {"phase", "inc", "byVz", "finalizer", "id", "metrics"}

Held == vmc.phase \in {"live", "deleting"} /\ vmc.finalizer = TRUE

PassHeld == vmcPass.pc # "idle" => Held

CleanPass ==
    /\ vmcPass.pc \in {"cleanup", "unimport", "finalize"} => vmc.phase = "deleting"
    /\ vmcPass.pc \in {"unimport", "finalize"} => config = {}

FleetInv ==
    /\ HasFields
    /\ "pc" \in DOMAIN vmcPass
    /\ vmc.phase \in {"none", "live", "deleting"}
    /\ vmc.phase = "deleting" => Held
    /\ PassHeld
    /\ CleanPass
    /\ config # {} => Held

(* Initially there is neither a VMC nor a pass.                             *)
LEMMA FleetInvInit == FleetInit => FleetInv
  BY DEF FleetInit, FleetInv, HasFields, NoVmc, FleetIdle, PassHeld, CleanPass,
         Held

(* Every step of the controllers, of the agent and of the users keeps it.   *)
LEMMA FleetInvStep == FleetInv /\ [FleetNext]_fleetVars => FleetInv'
<1> SUFFICES ASSUME FleetInv, [FleetNext]_fleetVars
             PROVE  FleetInv'
  OBVIOUS
<1> USE DEF FleetInv, HasFields, PassHeld, CleanPass, Held
<1>1. ASSUME UNCHANGED <<vmc, vmcPass, config>> PROVE FleetInv'
  BY <1>1
<1>2. CASE BeginVmcPass
  <2>1. CASE vmc.phase = "deleting"
    BY <1>2, <2>1 DEF Copy, BeginVmcPass
  <2>2. CASE vmc.phase = "live"
    BY <1>2, <2>2 DEF Copy, BeginVmcPass
  <2> QED
    BY <1>2, <2>1, <2>2 DEF BeginVmcPass
<1>3. CASE ImportCluster
  <2>1. \/ vmcPass' = FleetIdle
        \/ vmcPass' = [vmcPass EXCEPT !.pc = "record", !.id = lastId']
        \/ vmcPass' = [vmcPass EXCEPT !.pc = "record", !.id = rcluster.id]
        \/ vmcPass' = [vmcPass EXCEPT !.pc = "record"]
    BY <1>3 DEF ImportCluster
  <2>2. vmcPass'.pc \in {"idle", "record"} /\ "pc" \in DOMAIN vmcPass'
    <3>1. CASE vmcPass' = FleetIdle
      BY <3>1 DEF FleetIdle
    <3>2. CASE vmcPass' = [vmcPass EXCEPT !.pc = "record", !.id = lastId']
      BY <3>2
    <3>3. CASE vmcPass' = [vmcPass EXCEPT !.pc = "record", !.id = rcluster.id]
      BY <3>3
    <3>4. CASE vmcPass' = [vmcPass EXCEPT !.pc = "record"]
      BY <3>4
    <3> QED
      BY <2>1, <3>1, <3>2, <3>3, <3>4
  <2> QED
    BY <1>3, <2>2 DEF ImportCluster
<1>4. CASE RecordCluster
  <2>1. CASE vmcPass' = FleetIdle
    BY <1>4, <2>1 DEF RecordCluster, FleetIdle
  <2>2. CASE vmcPass' = Copy("push") /\ UNCHANGED vmc
    BY <1>4, <2>2 DEF Copy, RecordCluster
  <2> QED
    BY <1>4, <2>1, <2>2 DEF RecordCluster
<1>5. CASE PushToCluster
  BY <1>5 DEF PushToCluster, FleetIdle
<1>6. CASE SyncManagedMetrics
  BY <1>6 DEF SyncManagedMetrics, FleetIdle
<1>7. CASE CleanUpVmc
  BY <1>7 DEF CleanUpVmc, FleetIdle
<1>8. CASE DeleteFromRancher
  BY <1>8 DEF DeleteFromRancher, FleetIdle
<1>9. CASE RemoveVmcFinalizer
  BY <1>9 DEF RemoveVmcFinalizer, FleetIdle, NoVmc
<1>10. CASE ClusterController
  <2>1. CASE BeginClusterPass \/ RemoveClusterFinalizer
    BY <1>1, <2>1 DEF BeginClusterPass, RemoveClusterFinalizer
  <2>2. CASE EnsureVmc
    BY <2>2 DEF EnsureVmc, NewVmc, NoVmc
  <2>3. CASE SetClusterId
    BY <2>3 DEF SetClusterId
  <2>4. CASE DeleteVmc
    BY <2>4 DEF DeleteVmc, DeletedVmc, NoVmc
  <2> QED
    BY <1>10, <2>1, <2>2, <2>3, <2>4 DEF ClusterController
<1>11. CASE AgentRegistration
  <2>1. CASE BeginAgentPass \/ DeleteAgentSecret \/ DeleteRegistrationSecret
    BY <1>1, <2>1 DEF BeginAgentPass, DeleteAgentSecret, DeleteRegistrationSecret
  <2>2. CASE AgentConnects
    BY <2>2 DEF AgentConnects
  <2> QED
    BY <1>11, <2>1, <2>2 DEF AgentRegistration
<1>12. CASE ClusterOperatorCrash
  BY <1>12 DEF ClusterOperatorCrash, FleetIdle
<1>13. CASE AgentRestart \/ UserInRancher \/ ApplyManifest
  BY <1>1, <1>13 DEF AgentRestart, UserInRancher, ApplyManifest
<1>14. CASE CreateVmc
  BY <1>14 DEF CreateVmc, NewVmc, NoVmc
<1>15. CASE UserDeletesVmc
  BY <1>15 DEF UserDeletesVmc, DeletedVmc, NoVmc
<1>16. CASE ToggleThanos
  BY <1>16 DEF ToggleThanos
<1>17. CASE UNCHANGED fleetVars
  BY <1>1, <1>17 DEF fleetVars
<1> QED
  BY <1>2, <1>3, <1>4, <1>5, <1>6, <1>7, <1>8, <1>9, <1>10, <1>11, <1>12, <1>13,
     <1>14, <1>15, <1>16, <1>17 DEF FleetNext, VmcController

(* The scrape job, the Thanos endpoint, the Argo CD secret and the CA of a  *)
(* managed cluster are gone before its VMC is, whatever fails, crashes or   *)
(* is edited meanwhile (vmc_controller.go:512).                             *)
THEOREM ConfigHasVmcCorrect == FleetSpec => []ConfigHasVmc
<1>1. FleetInv => ConfigHasVmc
  BY DEF FleetInv, ConfigHasVmc, Held
<1> QED
  BY <1>1, FleetInvInit, FleetInvStep, PTL DEF FleetSpec
-------------------------------------------------------------------------------
(* The scrape jobs of the managed clusters.                                 *)

(* A pass that read the secret as it is now only edits the job of its VMC:  *)
(* there is one worker, so nobody writes the secret before the pass does.   *)
JobsInv ==
    /\ jobsCache.current => jobsCache.of = jobs
    /\ jobPass = NoPass \/ jobPass.pc = "write"
    /\ jobPass.pc = "write" /\ jobPass.fresh =>
          jobPass.list \ {jobPass.vmc} = jobs \ {jobPass.vmc}

LEMMA JobsInvStep == JobsInv /\ [FederationNext]_federationVars => JobsInv'
<1> SUFFICES ASSUME JobsInv, [FederationNext]_federationVars
             PROVE  JobsInv'
  OBVIOUS
<1>1. NoPass.pc # "write"
  BY DEF NoPass
<1>2. ASSUME NEW v \in Vmcs, ReadJobs(v)
      PROVE  JobsInv'
  <2>1. /\ jobPass'.pc = "write" /\ jobPass'.vmc = v
        /\ jobPass'.list = EditScrapeJob(jobsCache.of, v)
        /\ jobPass'.fresh = jobsCache.current
        /\ UNCHANGED <<jobs, jobsCache>>
    BY <1>2 DEF ReadJobs
  <2>2. EditScrapeJob(jobsCache.of, v) \ {v} = jobsCache.of \ {v}
    BY DEF EditScrapeJob
  <2> QED
    BY <2>1, <2>2 DEF JobsInv
<1>3. CASE WriteJobs
  <2>1. jobPass' = NoPass
    BY <1>3 DEF WriteJobs
  <2>2. CASE UNCHANGED <<jobs, jobsCache>>
    BY <1>1, <2>1, <2>2 DEF JobsInv
  <2>3. CASE jobsCache' = [jobsCache EXCEPT !.current = FALSE]
    <3>1. jobsCache'.current => jobsCache'.of = jobs'
      BY <2>3 DEF JobsInv
    <3> QED
      BY <1>1, <2>1, <3>1 DEF JobsInv
  <2> QED
    BY <1>3, <2>2, <2>3 DEF WriteJobs
<1>4. CASE JobsCached
  <2>1. /\ jobsCache'.of = jobs /\ UNCHANGED <<jobs, jobPass>>
    BY <1>4 DEF JobsCached
  <2> QED
    BY <2>1 DEF JobsInv
<1>5. ASSUME NEW v \in Vmcs, VmcComesOrGoes(v)
      PROVE  JobsInv'
  BY <1>5 DEF VmcComesOrGoes, JobsInv
<1>6. CASE UNCHANGED federationVars
  BY <1>6 DEF federationVars, JobsInv
<1> QED
  BY <1>2, <1>3, <1>4, <1>5, <1>6 DEF FederationNext

(* A pass takes no other cluster's scrape job away unless it began with an  *)
(* old copy of the secret, although CreateOrUpdate writes the whole list of *)
(* the first read over whatever it reads again (sync_prometheus.go:127).    *)
THEOREM FreshPassKeepsJobs ==
    FederationSpec =>
      [][\A v \in jobs \ jobs' : ~jobPass.fresh \/ v = jobPass.vmc]_federationVars
<1>1. FederationInit => JobsInv
  BY DEF FederationInit, JobsInv, NoPass
<1>2. ASSUME JobsInv, FederationNext, NEW v \in jobs \ jobs', jobPass.fresh
      PROVE  v = jobPass.vmc
  <2>1. WriteJobs
    BY <1>2 DEF FederationNext, ReadJobs, VmcComesOrGoes, JobsCached
  <2>2. jobPass.pc = "write" /\ jobs' = jobPass.list
    BY <1>2, <2>1 DEF WriteJobs
  <2> QED
    BY <1>2, <2>2 DEF JobsInv
<1>3. JobsInv /\ [FederationNext]_federationVars =>
        [\A v \in jobs \ jobs' : ~jobPass.fresh \/ v = jobPass.vmc]_federationVars
  BY <1>2
<1> QED
  BY <1>1, <1>3, JobsInvStep, PTL DEF FederationSpec

-------------------------------------------------------------------------------
(* The ingress traits of an application.                                    *)

TraitFields == {"phase", "gen", "finalizer", "spec", "status"}

IsTrait(r) == r = Gone \/ (DOMAIN r = TraitFields /\ Exists(r))

PassFields == {"t", "copy", "step", "host", "servers", "wroteGateway", "rule",
               "errors"}

CleanSteps == {"readServers", "writeServers", "removeFinalizer"}

CertSteps == CleanSteps \cup {"policies"}

(* Its trait does not go while a pass works on it, unless it was deleted    *)
(* before it had the finalizer; from the clean-up to the end of its pass    *)
(* nobody writes its certificate or the policies listed again.              *)
WorkedOn ==
    pass # Idle =>
        /\ DOMAIN pass = PassFields /\ pass.t \in Traits
        /\ DOMAIN pass.copy = TraitFields /\ Exists(pass.copy)
        /\ Exists(trait[pass.t]) \/ pass.t \in unguarded
        /\ pass.step \in CertSteps => certs[pass.t] = NoObject
        /\ pass.step \in CleanSteps =>
              policies[pass.t] \subseteq overlooked[pass.t]

GoneIsCleanedUp ==
    \A t \in Traits : trait[t] = Gone /\ t \notin unguarded => CleanedUp(t)

IngressInv ==
    /\ DOMAIN trait = Traits /\ \A t \in Traits : IsTrait(trait[t])
    /\ DOMAIN certs = Traits /\ DOMAIN policies = Traits
    /\ DOMAIN overlooked = Traits
    /\ DOMAIN routes = Traits /\ \A t \in Traits : DOMAIN routes[t] = Rules
    /\ WorkedOn /\ GoneIsCleanedUp

LEMMA GoneIsGone == ~Exists(Gone)
  BY DEF Gone, Exists

LEMMA IngressInvInit == IngressInit => IngressInv
<1> SUFFICES ASSUME IngressInit
             PROVE  IngressInv
  OBVIOUS
<1>1. ASSUME NEW t \in Traits
      PROVE  IsTrait(trait[t]) /\ trait[t] # Gone
  <2>1. PICK s \in TraitSpecs : trait[t] = NewTrait(s)
    BY DEF IngressInit
  <2>2. DOMAIN NewTrait(s) = TraitFields /\ NewTrait(s).phase = "live"
    BY DEF NewTrait, TraitFields
  <2>3. Gone.phase = "gone"
    BY DEF Gone
  <2> QED
    BY <2>1, <2>2, <2>3 DEF IsTrait, Exists
<1>2. /\ DOMAIN trait = Traits /\ DOMAIN certs = Traits /\ DOMAIN policies = Traits
      /\ DOMAIN overlooked = Traits
      /\ DOMAIN routes = Traits /\ \A t \in Traits : DOMAIN routes[t] = Rules
      /\ pass = Idle
  BY DEF IngressInit
<1> QED
  BY <1>1, <1>2 DEF IngressInv, WorkedOn, GoneIsCleanedUp

(* The ways a step keeps the invariant.                                     *)

(* The pass moves on, and no object of a trait is written.                  *)
LEMMA PassMovesKeeps ==
    ASSUME IngressInv, pass # Idle, UNCHANGED <<trait, certs, routes, policies, overlooked, unguarded>>,
           \/ pass' = Idle
           \/ /\ DOMAIN pass' = PassFields /\ pass'.t = pass.t /\ pass'.copy = pass.copy
              /\ pass'.step \in CertSteps => pass.step \in CleanSteps
    PROVE  IngressInv'
<1>1. WorkedOn'
  BY DEF IngressInv, WorkedOn, Exists, CertSteps
<1>2. GoneIsCleanedUp'
  BY DEF IngressInv, GoneIsCleanedUp, CleanedUp
<1> QED
  BY <1>1, <1>2 DEF IngressInv

LEMMA MovedPass ==
    ASSUME IngressInv, pass # Idle, NEW s, GoTo(s)
    PROVE  /\ DOMAIN pass' = PassFields /\ pass'.t = pass.t /\ pass'.copy = pass.copy
           /\ pass'.step = s
BY DEF IngressInv, WorkedOn, GoTo, PassFields

(* A trait that stays gets another value.                                   *)
LEMMA TraitKept ==
    ASSUME IngressInv, NEW t \in Traits, NEW r, IsTrait(r), Exists(r),
           trait' = [trait EXCEPT ![t] = r],
           UNCHANGED <<certs, routes, policies, overlooked, unguarded>>,
           \/ pass' = pass \/ pass' = Idle
           \/ /\ pass # Idle /\ DOMAIN pass' = PassFields /\ pass'.t = pass.t
              /\ DOMAIN pass'.copy = TraitFields /\ Exists(pass'.copy)
              /\ pass'.step \notin CertSteps
    PROVE  IngressInv'
<1>1. /\ DOMAIN trait' = Traits
      /\ \A x \in Traits : trait'[x] = IF x = t THEN r ELSE trait[x]
  BY DEF IngressInv
<1>2. Gone.phase = "gone"
  BY DEF Gone
<1>3. r # Gone
  BY <1>2 DEF Exists
<1>4. \A x \in Traits : Exists(trait[x]) => Exists(trait'[x])
  BY <1>1
<1>5. WorkedOn'
  BY <1>4 DEF IngressInv, WorkedOn, CertSteps
<1>6. GoneIsCleanedUp'
  BY <1>1, <1>3 DEF IngressInv, GoneIsCleanedUp, CleanedUp
<1> QED
  BY <1>1, <1>5, <1>6 DEF IngressInv

LEMMA StartPassIngress ==
    ASSUME IngressInv, NEW t \in Traits, StartPass(t)
    PROVE  IngressInv'
<1>1. UNCHANGED <<trait, certs, routes, policies, overlooked, unguarded>>
  BY DEF StartPass, objectVars, worldVars, policyVars
<1>2. CASE ~Exists(trait[t])
  <2>1. pass' = Idle
    BY <1>2 DEF StartPass
  <2> QED
    BY <1>1, <2>1 DEF IngressInv, WorkedOn, GoneIsCleanedUp, CleanedUp
<1>3. CASE Exists(trait[t])
  <2>1. /\ DOMAIN pass' = PassFields /\ pass'.t = t /\ pass'.copy = trait[t]
        /\ pass'.step \in {"cleanup", "finalizer"}
    BY <1>3 DEF StartPass, PassFields
  <2>2. DOMAIN trait[t] = TraitFields
    BY <1>3, GoneIsGone DEF IngressInv, IsTrait
  <2>3. WorkedOn'
    BY <1>1, <1>3, <2>1, <2>2 DEF WorkedOn, CleanSteps, CertSteps
  <2> QED
    BY <1>1, <2>3 DEF IngressInv, GoneIsCleanedUp, CleanedUp
<1> QED
  BY <1>2, <1>3

(* The pass writes the objects of its trait.                                *)
LEMMA ObjectsWritten ==
    ASSUME IngressInv, pass # Idle, UNCHANGED <<trait, unguarded>>,
           DOMAIN certs' = Traits, DOMAIN policies' = Traits,
           DOMAIN routes' = Traits, \A t \in Traits : DOMAIN routes'[t] = Rules,
           DOMAIN overlooked' = Traits,
           \A t \in Traits \ {pass.t} :
              /\ certs'[t] = certs[t] \/ certs'[t] = NoObject
              /\ policies'[t] = policies[t] /\ routes'[t] = routes[t]
              /\ overlooked'[t] = overlooked[t],
           ~Exists(trait[pass.t]) => routes'[pass.t] = routes[pass.t],
           \/ pass' = Idle
           \/ /\ DOMAIN pass' = PassFields /\ pass'.t = pass.t /\ pass'.copy = pass.copy
              /\ pass'.step \in CertSteps => certs'[pass.t] = NoObject
              /\ pass'.step \in CleanSteps =>
                    policies'[pass.t] \subseteq overlooked'[pass.t]
    PROVE  IngressInv'
<1>1. WorkedOn'
  BY DEF IngressInv, WorkedOn
<1>2. GoneIsCleanedUp'
  <2> SUFFICES ASSUME NEW t \in Traits, trait[t] = Gone, t \notin unguarded
               PROVE  CleanedUp(t)'
    BY DEF GoneIsCleanedUp
  <2>1. CleanedUp(t)
    BY DEF IngressInv, GoneIsCleanedUp
  <2>2. t # pass.t
    BY GoneIsGone DEF IngressInv, WorkedOn
  <2> QED
    BY <2>1, <2>2 DEF CleanedUp
<1> QED
  BY <1>1, <1>2 DEF IngressInv

LEMMA FinalizerIngress ==
    ASSUME IngressInv, addFinalizer
    PROVE  IngressInv'
<1>1. /\ pass # Idle /\ pass.step = "finalizer" /\ pass.t \in Traits
      /\ DOMAIN pass = PassFields /\ DOMAIN pass.copy = TraitFields /\ Exists(pass.copy)
      /\ UNCHANGED <<certs, routes, policies, overlooked, unguarded>>
  BY DEF addFinalizer, Idle, IngressInv, WorkedOn, objectVars, worldVars, policyVars
<1>2. CASE GoTo("certificate") /\ UNCHANGED trait
  <2>1. /\ DOMAIN pass' = PassFields /\ pass'.t = pass.t /\ pass'.copy = pass.copy
        /\ pass'.step = "certificate"
    BY <1>1, <1>2, MovedPass
  <2> QED
    BY <1>1, <1>2, <2>1, PassMovesKeeps DEF CertSteps, CleanSteps
<1>3. CASE /\ Writable
           /\ trait' = [trait EXCEPT ![pass.t].finalizer = TRUE]
           /\ pass' = [pass EXCEPT !.step = "certificate", !.copy.finalizer = TRUE]
  <2> DEFINE r == [pass.copy EXCEPT !.finalizer = TRUE]
  <2>1. DOMAIN r = TraitFields /\ r.phase = pass.copy.phase
    BY <1>1 DEF TraitFields
  <2>2. trait' = [trait EXCEPT ![pass.t] = r]
    BY <1>1, <1>3 DEF Writable, IngressInv
  <2>3. /\ DOMAIN pass' = PassFields /\ pass'.t = pass.t /\ pass'.copy = r
        /\ pass'.step = "certificate"
    BY <1>1, <1>3 DEF PassFields
  <2>4. IsTrait(r) /\ Exists(r)
    BY <1>1, <2>1 DEF IsTrait, Exists
  <2>5. pass'.step \notin CertSteps
    BY <2>3 DEF CertSteps, CleanSteps
  <2> HIDE DEF r
  <2> QED
    BY <1>1, <2>1, <2>2, <2>3, <2>4, <2>5, TraitKept
<1> QED
  BY <1>2, <1>3 DEF addFinalizer

LEMMA CertificateIngress ==
    ASSUME IngressInv, createOrUseGatewaySecret
    PROVE  IngressInv'
<1>1. /\ pass # Idle /\ pass.step = "certificate" /\ pass.t \in Traits
      /\ DOMAIN pass = PassFields
      /\ UNCHANGED <<trait, routes, policies, overlooked, unguarded>>
  BY DEF createOrUseGatewaySecret, Idle, IngressInv, WorkedOn, worldVars, policyVars
<1>2. /\ DOMAIN pass' = PassFields /\ pass'.t = pass.t /\ pass'.copy = pass.copy
      /\ pass'.step \in {"gateway", "status"}
  <2>1. CASE GoTo("gateway")
    BY <1>1, <2>1, MovedPass
  <2>2. CASE pass' = [pass EXCEPT !.step = "status", !.errors = TRUE]
    BY <1>1, <2>2 DEF PassFields
  <2> QED
    BY <2>1, <2>2 DEF createOrUseGatewaySecret
<1>3. pass'.step \notin CertSteps
  BY <1>2 DEF CertSteps, CleanSteps
<1>4. CASE UNCHANGED certs
  BY <1>1, <1>2, <1>3, <1>4, PassMovesKeeps
<1>5. CASE certs' = [t \in Traits |-> IF t = pass.t THEN pass.host
                                      ELSE IF t \in LegacyTraits THEN NoObject
                                      ELSE certs[t]]
  <2>1. /\ DOMAIN certs' = Traits
        /\ \A t \in Traits \ {pass.t} : certs'[t] = certs[t] \/ certs'[t] = NoObject
    BY <1>5
  <2> QED
    BY <1>1, <1>2, <1>3, <2>1, ObjectsWritten DEF IngressInv, CertSteps
<1> QED
  BY <1>4, <1>5 DEF createOrUseGatewaySecret

LEMMA GatewayIngress ==
    ASSUME IngressInv, createOrUpdateGateway
    PROVE  IngressInv'
<1>1. /\ pass # Idle /\ pass.step = "gateway" /\ DOMAIN pass = PassFields
      /\ UNCHANGED <<trait, certs, routes, policies, overlooked, unguarded>>
  BY DEF createOrUpdateGateway, Idle, IngressInv, WorkedOn, worldVars, policyVars
<1>2. pass' = Idle \/ \E b : pass' = [pass EXCEPT !.step = "rule", !.wroteGateway = b]
  BY DEF createOrUpdateGateway, WriteServers, Requeue
<1>3. ASSUME NEW b, pass' = [pass EXCEPT !.step = "rule", !.wroteGateway = b]
      PROVE  /\ DOMAIN pass' = PassFields /\ pass'.t = pass.t /\ pass'.copy = pass.copy
             /\ pass'.step \notin CertSteps
  BY <1>1, <1>3 DEF PassFields, CertSteps, CleanSteps
<1> QED
  BY <1>1, <1>2, <1>3, PassMovesKeeps

LEMMA RuleIngress ==
    ASSUME IngressInv, createOrUpdateRule
    PROVE  IngressInv'
<1>1. pass # Idle /\ pass.step = "rule"
  <2>1. pass.step = "rule"
    BY DEF createOrUpdateRule
  <2> QED
    BY <2>1 DEF Idle
<1>2. DOMAIN pass = PassFields /\ pass.t \in Traits
  BY <1>1 DEF IngressInv, WorkedOn
<1>3. UNCHANGED trait /\ UNCHANGED certs /\ UNCHANGED unguarded
  BY DEF createOrUpdateRule, worldVars
<1>4. CASE Requeue /\ UNCHANGED <<routes, policies, overlooked>>
  BY <1>1, <1>3, <1>4, PassMovesKeeps DEF Requeue
<1>5. ASSUME NEW route \in BOOLEAN, NEW policy \in BOOLEAN,
             createOrUpdateVirtualService(route, HostOf(pass.copy.spec)),
             createOrUpdateAuthorizationPolicies(policy),
             pass' = [pass EXCEPT
                        !.rule = @ + 1,
                        !.step = IF pass.rule < pass.copy.spec.rules THEN @
                                 ELSE "status",
                        !.errors = @ \/ HostOf(pass.copy.spec) = NoHost
                                     \/ ~(route /\ policy)],
             UNCHANGED overlooked
      PROVE  IngressInv'
  <2>1. /\ DOMAIN pass' = PassFields /\ pass'.t = pass.t /\ pass'.copy = pass.copy
        /\ pass'.step \in {"rule", "status"}
    BY <1>1, <1>2, <1>5 DEF PassFields
  <2>2. pass'.step \notin CertSteps
    BY <2>1 DEF CertSteps, CleanSteps
  <2>3. /\ DOMAIN policies' = Traits
        /\ \A t \in Traits \ {pass.t} : policies'[t] = policies[t]
    BY <1>2, <1>5 DEF createOrUpdateAuthorizationPolicies, IngressInv
  <2>4. /\ DOMAIN routes' = Traits /\ \A t \in Traits : DOMAIN routes'[t] = Rules
        /\ \A t \in Traits \ {pass.t} : routes'[t] = routes[t]
        /\ ~Exists(trait[pass.t]) => routes'[pass.t] = routes[pass.t]
    BY <1>2, <1>5 DEF createOrUpdateVirtualService, IngressInv
  <2> QED
    BY <1>1, <1>3, <1>5, <2>1, <2>2, <2>3, <2>4, ObjectsWritten
    DEF IngressInv, CertSteps
<1> QED
  BY <1>4, <1>5
  DEF createOrUpdateRule, createOrUpdateAuthorizationPolicies, policyVars

LEMMA StatusIngress ==
    ASSUME IngressInv, updateTraitStatus
    PROVE  IngressInv'
<1>1. pass # Idle /\ pass' = Idle
  BY DEF updateTraitStatus, Idle, Requeue
<1>2. pass.t \in Traits /\ DOMAIN pass.copy = TraitFields /\ Exists(pass.copy)
  BY <1>1 DEF IngressInv, WorkedOn
<1>3. UNCHANGED <<certs, routes, policies, overlooked, unguarded>>
  BY DEF updateTraitStatus, objectVars, worldVars, policyVars
<1>4. CASE UNCHANGED trait
  BY <1>1, <1>3, <1>4, PassMovesKeeps
<1>5. ASSUME NEW new, Writable, trait' = [trait EXCEPT ![pass.t].status = new]
      PROVE  IngressInv'
  <2> DEFINE r == [pass.copy EXCEPT !.status = new]
  <2>1. DOMAIN r = TraitFields /\ r.phase = pass.copy.phase
    BY <1>2 DEF TraitFields
  <2>2. trait' = [trait EXCEPT ![pass.t] = r]
    BY <1>2, <1>5 DEF Writable, IngressInv
  <2>3. IsTrait(r) /\ Exists(r)
    BY <1>2, <2>1 DEF IsTrait, Exists
  <2> HIDE DEF r
  <2> QED
    BY <1>1, <1>2, <1>3, <2>2, <2>3, TraitKept
<1> QED
  BY <1>4, <1>5 DEF updateTraitStatus

LEMMA CertIngress ==
    ASSUME IngressInv, cleanupCert
    PROVE  IngressInv'
<1>1. pass # Idle /\ pass.step = "cleanup"
  BY DEF cleanupCert, Idle
<1>2. pass.t \in Traits /\ DOMAIN certs = Traits
  BY <1>1 DEF IngressInv, WorkedOn
<1>3. UNCHANGED <<trait, unguarded, routes, policies, overlooked>>
  BY DEF cleanupCert, worldVars, policyVars
<1>4. CASE certs' = [certs EXCEPT ![pass.t] = NoObject] /\ GoTo("policies")
  <2>1. /\ DOMAIN pass' = PassFields /\ pass'.t = pass.t /\ pass'.copy = pass.copy
        /\ pass'.step \notin CleanSteps
    BY <1>1, <1>4, MovedPass DEF CleanSteps
  <2>2. /\ DOMAIN certs' = Traits /\ certs'[pass.t] = NoObject
        /\ \A t \in Traits \ {pass.t} : certs'[t] = certs[t]
    BY <1>2, <1>4
  <2> QED
    BY <1>1, <1>3, <2>1, <2>2, ObjectsWritten DEF IngressInv
<1>5. CASE /\ certs' = [certs EXCEPT ![pass.t] = NoObject] \/ UNCHANGED certs
           /\ Requeue
  <2>1. pass' = Idle
    BY <1>5 DEF Requeue
  <2>2. /\ DOMAIN certs' = Traits
        /\ \A t \in Traits \ {pass.t} : certs'[t] = certs[t]
    BY <1>2, <1>5
  <2> QED
    BY <1>1, <1>2, <1>3, <2>1, <2>2, ObjectsWritten DEF IngressInv
<1> QED
  BY <1>4, <1>5 DEF cleanupCert

LEMMA PoliciesIngress ==
    ASSUME IngressInv, cleanupPolicies
    PROVE  IngressInv'
<1>1. pass # Idle /\ pass.step = "policies"
  BY DEF cleanupPolicies, Idle
<1>2. /\ pass.t \in Traits /\ certs[pass.t] = NoObject
      /\ DOMAIN policies = Traits /\ DOMAIN overlooked = Traits
  BY <1>1 DEF IngressInv, WorkedOn, CertSteps
<1>3. UNCHANGED <<trait, unguarded, routes, certs>>
  BY DEF cleanupPolicies, worldVars
<1>4. PICK some : policies' = [policies EXCEPT ![pass.t] = @ \ some]
  BY DEF cleanupPolicies
<1>5. /\ DOMAIN policies' = Traits
      /\ \A t \in Traits \ {pass.t} : policies'[t] = policies[t]
  BY <1>2, <1>4
<1>6. CASE /\ overlooked' = [overlooked EXCEPT ![pass.t] = policies'[pass.t]]
           /\ GoTo("readServers")
  <2>1. DOMAIN pass' = PassFields /\ pass'.t = pass.t /\ pass'.copy = pass.copy
    BY <1>1, <1>6, MovedPass
  <2>2. /\ DOMAIN overlooked' = Traits
        /\ policies'[pass.t] \subseteq overlooked'[pass.t]
        /\ \A t \in Traits \ {pass.t} : overlooked'[t] = overlooked[t]
    BY <1>2, <1>6
  <2> QED
    BY <1>1, <1>2, <1>3, <1>5, <2>1, <2>2, ObjectsWritten DEF IngressInv
<1>7. CASE Requeue /\ UNCHANGED overlooked
  BY <1>1, <1>2, <1>3, <1>5, <1>7, ObjectsWritten DEF IngressInv, Requeue
<1> QED
  BY <1>6, <1>7 DEF cleanupPolicies

LEMMA ServersIngress ==
    ASSUME IngressInv, ReadServers \/ cleanupGateway
    PROVE  IngressInv'
<1>1. pass # Idle /\ pass.step \in CleanSteps /\ pass.step \in CertSteps
  BY DEF CertSteps, ReadServers, cleanupGateway, Idle, CleanSteps
<1>2. DOMAIN pass = PassFields
  BY <1>1 DEF IngressInv, WorkedOn
<1>3. UNCHANGED <<trait, certs, routes, policies, overlooked, unguarded>>
  BY DEF ReadServers, cleanupGateway, objectVars, worldVars, policyVars
<1>4. CASE ReadServers
  <2>1. PICK servers : pass' = [pass EXCEPT !.step = "writeServers", !.servers = servers]
    BY <1>4 DEF ReadServers
  <2>2. DOMAIN pass' = PassFields /\ pass'.t = pass.t /\ pass'.copy = pass.copy
    BY <1>2, <2>1 DEF PassFields
  <2> QED
    BY <1>1, <1>3, <2>2, PassMovesKeeps
<1>5. CASE cleanupGateway
  <2>1. GoTo("removeFinalizer") \/ pass' = Idle
    BY <1>5 DEF cleanupGateway, WriteServers, Requeue
  <2>2. CASE GoTo("removeFinalizer")
    <3>1. DOMAIN pass' = PassFields /\ pass'.t = pass.t /\ pass'.copy = pass.copy
      BY <1>1, <2>2, MovedPass
    <3> QED
      BY <1>1, <1>3, <3>1, PassMovesKeeps
  <2> QED
    BY <1>1, <1>3, <2>1, <2>2, PassMovesKeeps
<1> QED
  BY <1>4, <1>5

(* A trait goes, and its routes with it.                                    *)
LEMMA TraitGone ==
    ASSUME IngressInv, NEW t \in Traits,
           trait' = [trait EXCEPT ![t] = Gone],
           routes' = [routes EXCEPT ![t] = [i \in Rules |-> NoObject]],
           UNCHANGED <<certs, policies, overlooked>>,
           \/ /\ pass # Idle /\ pass.t = t /\ pass.step \in CleanSteps
              /\ pass' = Idle /\ UNCHANGED unguarded
           \/ UNCHANGED pass /\ unguarded' = unguarded \cup {t}
    PROVE  IngressInv'
<1>1. /\ DOMAIN trait' = Traits /\ trait'[t] = Gone
      /\ \A x \in Traits \ {t} : trait'[x] = trait[x]
  BY DEF IngressInv
<1>2. /\ DOMAIN routes' = Traits /\ routes'[t] = [i \in Rules |-> NoObject]
      /\ \A x \in Traits \ {t} : routes'[x] = routes[x]
  BY DEF IngressInv
<1>3. \A x \in Traits : DOMAIN routes'[x] = Rules
  BY <1>2 DEF IngressInv
<1>4. \A x \in Traits : IsTrait(trait'[x])
  BY <1>1 DEF IngressInv, IsTrait
<1>5. WorkedOn'
  BY <1>1 DEF IngressInv, WorkedOn
<1>6. GoneIsCleanedUp'
  <2> SUFFICES ASSUME NEW x \in Traits, trait'[x] = Gone, x \notin unguarded'
               PROVE  CleanedUp(x)'
    BY DEF GoneIsCleanedUp
  <2>1. CASE x = t
    <3>1. certs[t] = NoObject /\ policies[t] \subseteq overlooked[t]
      BY <2>1 DEF IngressInv, WorkedOn, CertSteps
    <3> QED
      BY <1>2, <2>1, <3>1 DEF CleanedUp
  <2>2. CASE x # t
    <3>1. trait[x] = Gone /\ x \notin unguarded
      BY <1>1, <2>2
    <3>2. CleanedUp(x)
      BY <3>1 DEF IngressInv, GoneIsCleanedUp
    <3> QED
      BY <1>2, <2>2, <3>2 DEF CleanedUp
  <2> QED
    BY <2>1, <2>2
<1> QED
  BY <1>1, <1>2, <1>3, <1>4, <1>5, <1>6 DEF IngressInv

LEMMA RemoveIngress ==
    ASSUME IngressInv, removeFinalizer
    PROVE  IngressInv'
<1>1. pass # Idle /\ pass.step \in CleanSteps /\ pass' = Idle
  BY DEF removeFinalizer, Idle, CleanSteps, Requeue
<1>2. pass.t \in Traits
  BY <1>1 DEF IngressInv, WorkedOn
<1>3. UNCHANGED <<certs, policies, overlooked, unguarded>>
  BY DEF removeFinalizer, worldVars, policyVars
<1>4. CASE UNCHANGED <<trait, routes>>
  BY <1>1, <1>3, <1>4, PassMovesKeeps
<1>5. CASE /\ trait' = [trait EXCEPT ![pass.t] = Gone]
           /\ routes' = [routes EXCEPT ![pass.t] = [i \in Rules |-> NoObject]]
  BY <1>1, <1>2, <1>3, <1>5, TraitGone
<1> QED
  BY <1>4, <1>5 DEF removeFinalizer

LEMMA EditIngress ==
    ASSUME IngressInv, NEW t \in Traits, EditTrait(t)
    PROVE  IngressInv'
<1>1. UNCHANGED <<certs, routes, policies, overlooked, unguarded>> /\ pass' = pass
  BY DEF EditTrait, objectVars, worldVars, policyVars
<1>2. trait[t].phase = "live"
  BY DEF EditTrait
<1>3. DOMAIN trait[t] = TraitFields
  BY <1>2 DEF IngressInv, IsTrait, Gone
<1>4. PICK s : trait' = [trait EXCEPT ![t].spec = s, ![t].gen = disturbances']
  BY DEF EditTrait
<1> DEFINE r == [trait[t] EXCEPT !.spec = s, !.gen = disturbances']
<1>5. DOMAIN r = TraitFields /\ r.phase = "live"
  BY <1>2, <1>3 DEF TraitFields
<1>6. trait' = [trait EXCEPT ![t] = r]
  BY <1>4 DEF IngressInv
<1>7. IsTrait(r) /\ Exists(r)
  BY <1>5 DEF IsTrait, Exists
<1> HIDE DEF r
<1> QED
  BY <1>1, <1>6, <1>7, TraitKept

LEMMA DeleteIngress ==
    ASSUME IngressInv, NEW t \in Traits, DeleteTrait(t)
    PROVE  IngressInv'
<1>1. UNCHANGED <<certs, policies, overlooked>> /\ pass' = pass
  BY DEF DeleteTrait, policyVars
<1>2. CASE trait[t].finalizer
  <2>1. trait' = [trait EXCEPT ![t].phase = "deleting"] /\ UNCHANGED <<routes, unguarded>>
    BY <1>2 DEF DeleteTrait
  <2>2. trait[t].phase = "live"
    BY DEF DeleteTrait
  <2>3. DOMAIN trait[t] = TraitFields
    BY <2>2 DEF IngressInv, IsTrait, Gone
  <2> DEFINE r == [trait[t] EXCEPT !.phase = "deleting"]
  <2>4. DOMAIN r = TraitFields /\ r.phase = "deleting"
    BY <2>3 DEF TraitFields
  <2>5. trait' = [trait EXCEPT ![t] = r]
    BY <2>1 DEF IngressInv
  <2>6. IsTrait(r) /\ Exists(r)
    BY <2>4 DEF IsTrait, Exists
  <2> HIDE DEF r
  <2> QED
    BY <1>1, <2>1, <2>5, <2>6, TraitKept
<1>3. CASE ~trait[t].finalizer
  <2>1. /\ trait' = [trait EXCEPT ![t] = Gone]
        /\ routes' = [routes EXCEPT ![t] = [i \in Rules |-> NoObject]]
        /\ unguarded' = unguarded \cup {t}
    BY <1>3 DEF DeleteTrait
  <2> QED
    BY <1>1, <2>1, TraitGone
<1> QED
  BY <1>2, <1>3

(* The other steps change no trait and none of its objects.                 *)
LEMMA WorldIngress ==
    ASSUME IngressInv, UNCHANGED <<trait, certs, routes, policies, overlooked, unguarded>>,
           pass' = pass \/ pass' = Idle
    PROVE  IngressInv'
<1>1. WorkedOn'
  BY DEF IngressInv, WorkedOn
<1>2. GoneIsCleanedUp'
  BY DEF IngressInv, GoneIsCleanedUp, CleanedUp
<1> QED
  BY <1>1, <1>2 DEF IngressInv

LEMMA IngressInvStep == IngressInv /\ [IngressNext]_ingressVars => IngressInv'
<1> SUFFICES ASSUME IngressInv, [IngressNext]_ingressVars
             PROVE  IngressInv'
  OBVIOUS
<1>1. ASSUME NEW t \in Traits, StartPass(t) \/ EditTrait(t) \/ DeleteTrait(t)
      PROVE  IngressInv'
  BY <1>1, StartPassIngress, EditIngress, DeleteIngress
<1>2. CASE PassStep
  BY <1>2, FinalizerIngress, CertificateIngress, GatewayIngress, RuleIngress,
     StatusIngress, CertIngress, PoliciesIngress, ServersIngress, RemoveIngress
     DEF PassStep
<1>3. CASE \/ GatewayCached \/ PoliciesCached \/ TraitResync \/ AddressChanges \/ AddressAssigned
           \/ ServiceStarts \/ IngressCrash \/ UNCHANGED ingressVars
  <2>1. /\ UNCHANGED <<trait, certs, routes, policies, overlooked, unguarded>>
        /\ pass' = pass \/ pass' = Idle
    BY <1>3 DEF GatewayCached, PoliciesCached, TraitResync, AddressChanges, AddressAssigned,
       ServiceStarts, IngressCrash, ingressVars, objectVars, worldVars,
       policyVars
  <2> QED
    BY <2>1, WorldIngress
<1> QED
  BY <1>1, <1>2, <1>3 DEF IngressNext

(* Of a deleted trait that had the finalizer no certificate and no route is *)
(* left once it is gone, and no policy but those the clean-up overlooked:   *)
(* whatever call of its clean-up fails, wherever the operator crashes, and  *)
(* however often the trait was edited before (cleanup, ingresstrait_ops.go, *)
(* and removeFinalizerIfRequired, ingresstrait_controller.go).              *)
THEOREM GoneCleanedUp == IngressSpec => []GoneIsCleanedUp
<1>1. IngressInv => GoneIsCleanedUp
  BY DEF IngressInv
<1> QED
  BY <1>1, IngressInvInit, IngressInvStep, PTL DEF IngressSpec
===============================================================================
