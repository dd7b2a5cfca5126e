-------------------------- MODULE VzLifecycle_proofs ---------------------------
(***************************************************************************)
(* Proofs about the life of the resource: the InstallComplete condition is *)
(* never lost again, although every event replaces the whole condition     *)
(* list by one computed from a copy that may be old by then.               *)
(***************************************************************************)
EXTENDS VzReports_proofs

-------------------------------------------------------------------------------
(* The inductive invariant.                                                 *)

(* The way of a resource to InstallComplete.                                *)
Phase(r) ==
  IF isInstalled(r) THEN 3
  ELSE IF r.state = "Reconciling" THEN 2
  ELSE IF r.state = "Ready" THEN 1 ELSE 0

(* Where an event leads that sets the state.                                *)
EventPhase(e) ==
  IF isInstalled(e) THEN 3 ELSE IF e.state = "Reconciling" THEN 2 ELSE 1

(* What the pass, or else the next one, has read.                           *)
Read == IF pc = "idle" THEN Phase(cache) ELSE Phase(loc)

(* Copies lag behind, but never by two phases behind the one that is to     *)
(* write next; the other states come after InstallComplete only.            *)
Early(r) == Phase(r) = 3 \/ r.state \in {"", "Ready", "Reconciling"}

OldInv ==
  /\ Phase(loc) <= Phase(cache) /\ Phase(cache) <= Phase(vz)
  /\ Phase(vz) <= Read + 1
  /\ Early(vz) /\ Early(cache) /\ Early(loc)

(* What an event does to the state and to the conditions.                   *)
Tells(e) == e.state # ""

Keeps(e) == e.conds = NoConditions

Plain(e) == EventPhase(e) = 3 \/ e.state \in {"Ready", "Reconciling"}

(* The events in the queue lead from phase to phase in order, none of them  *)
(* more than one ahead; once a pass can read InstallComplete, none drops it. *)
Follows(e) ==
  /\ ~Tells(e) => Keeps(e)
  /\ Phase(cache) = 3 => Keeps(e) \/ EventPhase(e) = 3
  /\ Phase(cache) # 3 /\ Tells(e) =>
       /\ Plain(e)
       /\ Phase(vz) <= EventPhase(e) /\ EventPhase(e) <= Read + 1

Before(a, b) ==
  Phase(cache) # 3 /\ Tells(a) /\ Tells(b) => EventPhase(a) <= EventPhase(b)

QueueInv ==
  /\ \A i \in DOMAIN chan : Follows(chan[i])
  /\ \A i, j \in DOMAIN chan : i < j => Before(chan[i], chan[j])

(* Where a pass can be with what it has read.                               *)
PlaceInv ==
  /\ pc \in VzStates => pc = loc.state
  /\ pc = "components" => /\ Phase(loc) >= 2
                          /\ ret # "Reconciling" => Phase(loc) = 3
  /\ pc = "upgrade" => Phase(loc) = 3
  /\ pc = "panic" => Phase(loc) >= 2
  /\ it.state = "SetGlobalInstallStatus" => pc = "components" /\ Phase(loc) = 3

(* Before a pass reads Reconciling, nothing is in the cluster and nothing   *)
(* reports Ready.                                                           *)
Untouched ==
  \A c \in Comp : ~installed(c) /\ \A d \in Copies(c) : d.state # "Ready"

PhaseInv == OldInv /\ QueueInv /\ PlaceInv /\ (Read < 2 => Untouched)

-------------------------------------------------------------------------------
(* The queue.                                                               *)

LEMMA Phases ==
  /\ Phase(vz) \in 0..3 /\ (Phase(vz) = 3 <=> isInstalled(vz))
  /\ Phase(cache) \in 0..3 /\ (Phase(cache) = 3 <=> isInstalled(cache))
  /\ Phase(loc) \in 0..3 /\ (Phase(loc) = 3 <=> isInstalled(loc))
  /\ Read \in 0..3
  /\ Phase(NoResource) = 0 /\ Early(NoResource)
<1>1. NoResource.state = "" /\ ~isInstalled(NoResource)
  BY Nothing DEF NoResource, NewResource
<1>2. Phase(NoResource) = 0 /\ Early(NoResource)
  BY <1>1 DEF Phase, Early
<1>3. Read \in 0..3
  BY DEF Phase, Read
<1>. QED
  BY <1>2, <1>3 DEF Phase

LEMMA NextPhases ==
  /\ Phase(vz)' \in 0..3 /\ (Phase(vz)' = 3 <=> isInstalled(vz)')
  /\ Phase(cache)' \in 0..3 /\ (Phase(cache)' = 3 <=> isInstalled(cache)')
  /\ Phase(loc)' \in 0..3
  /\ Read' \in 0..3
BY DEF Phase, Read

LEMMA EventPhases ==
  ASSUME NEW e
  PROVE  EventPhase(e) \in 1..3 /\ (EventPhase(e) = 3 <=> isInstalled(e))
BY DEF EventPhase

(* The details of its events aside, a queue is the one of this state.       *)
SameQueue(q) ==
  /\ q \in Seq(Event) /\ DOMAIN q = DOMAIN chan
  /\ \A i \in DOMAIN chan : q[i].state = chan[i].state /\ q[i].conds = chan[i].conds

Neutral(e) == ~Tells(e) /\ Keeps(e)

(* What a pass may send that has read its copy.                             *)
Fits(e) ==
  /\ ~Tells(e) => Keeps(e)
  /\ Phase(loc) = 3 => Keeps(e) \/ EventPhase(e) = 3
  /\ Phase(loc) # 3 /\ Tells(e) =>
       /\ EventPhase(e) = Phase(loc) + 1
       /\ Plain(e)

Sent(e) ==
  \E q : SameQueue(q) /\ chan' = Append(q, e)

QueueMoves ==
  \/ SameQueue(chan')
  \/ \E e \in Event : Sent(e) /\ (Neutral(e) \/ (pc # "idle" /\ Fits(e)))

LEMMA SameQueues ==
  ASSUME TypeInv
  PROVE  /\ SameQueue(chan) /\ SameQueue(Disowned)
         /\ \A ds \in [Comp -> Details] : SameQueue(Aliased(ds))
BY ReportTypes, DisownedQueue, AliasedQueue DEF SameQueue

LEMMA FollowsStays ==
  ASSUME UNCHANGED crVars, Read <= Read', NEW e, NEW x,
         x.state = e.state, x.conds = e.conds
  PROVE  /\ Follows(e) => Follows(x)'
         /\ EventPhase(x) = EventPhase(e) /\ (Tells(x) <=> Tells(e))
<1>1. /\ EventPhase(x) = EventPhase(e) /\ (Tells(x) <=> Tells(e))
      /\ Keeps(x) <=> Keeps(e)
      /\ Plain(x) <=> Plain(e)
  BY DEF EventPhase, isInstalled, Tells, Keeps, Plain
<1>2. /\ Phase(vz)' = Phase(vz) /\ Phase(cache)' = Phase(cache)
      /\ Read \in 0..3 /\ Read' \in 0..3 /\ EventPhase(e) \in 1..3
  BY Phases, NextPhases, EventPhases DEF crVars
<1>. QED
  BY <1>1, <1>2 DEF Follows

LEMMA FitsFollows ==
  ASSUME OldInv, NEW e, Neutral(e) \/ (pc # "idle" /\ Fits(e))
  PROVE  /\ Follows(e)
         /\ \A x : Follows(x) => Before(x, e)
<1>1. /\ Phase(vz) <= Read + 1 /\ (Phase(cache) # 3 => Phase(loc) # 3)
      /\ Phase(cache) = 3 /\ pc # "idle" /\ Phase(loc) # 3 => Phase(loc) = 2
      /\ pc # "idle" => Read = Phase(loc)
  BY Phases DEF OldInv, Read
<1>2. EventPhase(e) \in 1..3 /\ Read \in 0..3 /\ Phase(vz) \in 0..3
      /\ Phase(loc) \in 0..3
  BY Phases, EventPhases
<1>3. Follows(e)
  BY <1>1, <1>2 DEF Follows, Fits, Neutral
<1>4. Phase(cache) # 3 /\ Tells(e) => EventPhase(e) = Read + 1
  BY <1>1 DEF Fits, Neutral
<1>. QED
  BY <1>3, <1>4 DEF Before, Follows

LEMMA SameQueueKept ==
  ASSUME QueueInv, SameQueue(chan'), UNCHANGED crVars, Read <= Read'
  PROVE  QueueInv'
<1>1. \A i \in DOMAIN chan :
        /\ chan'[i].state = chan[i].state /\ chan'[i].conds = chan[i].conds
  BY DEF SameQueue
<1>2. \A i \in DOMAIN chan : /\ Follows(chan[i])'
                             /\ EventPhase(chan'[i]) = EventPhase(chan[i])
                             /\ Tells(chan'[i]) <=> Tells(chan[i])
  BY <1>1, FollowsStays DEF QueueInv
<1>3. Phase(cache)' = Phase(cache) /\ DOMAIN chan' = DOMAIN chan
  BY DEF crVars, SameQueue
<1>. QED
  BY <1>1, <1>2, <1>3 DEF QueueInv, Before

LEMMA SentKept ==
  ASSUME TypeInv, OldInv, QueueInv, NEW e \in Event, Sent(e),
         Neutral(e) \/ (pc # "idle" /\ Fits(e)), UNCHANGED crVars, Read <= Read'
  PROVE  QueueInv'
<1>1. PICK q : SameQueue(q) /\ chan' = Append(q, e)
  BY DEF Sent
<1>2. /\ chan \in Seq(Event) /\ Len(q) = Len(chan) /\ Len(chan) \in Nat
      /\ DOMAIN chan = 1..Len(chan)
  BY <1>1, ReportTypes DEF SameQueue
<1>3. /\ DOMAIN chan' = 1..(Len(chan) + 1) /\ chan'[Len(chan) + 1] = e
      /\ \A i \in DOMAIN chan : chan'[i] = q[i]
  BY <1>1, <1>2 DEF SameQueue
<1>4. \A i \in DOMAIN chan : /\ Follows(q[i])'
                             /\ EventPhase(q[i]) = EventPhase(chan[i])
                             /\ Tells(q[i]) <=> Tells(chan[i])
  BY <1>1, FollowsStays DEF QueueInv, SameQueue
<1>5. Follows(e)' /\ \A i \in DOMAIN chan : Before(chan[i], e)
  BY FitsFollows, FollowsStays DEF QueueInv
<1>6. Phase(cache)' = Phase(cache)
  BY DEF crVars
<1>7. ASSUME NEW i \in DOMAIN chan'
      PROVE  Follows(chan[i])'
  BY <1>2, <1>3, <1>4, <1>5
<1>8. ASSUME NEW i \in DOMAIN chan', NEW j \in DOMAIN chan', i < j
      PROVE  Before(chan[i], chan[j])'
  <2>1. i \in DOMAIN chan /\ chan'[i] = q[i]
    BY <1>2, <1>3, <1>8
  <2>2. CASE j \in DOMAIN chan
    <3>1. chan'[j] = q[j] /\ Before(chan[i], chan[j])
      BY <1>3, <1>8, <2>1, <2>2 DEF QueueInv
    <3>. QED
      BY <1>4, <1>6, <2>1, <2>2, <3>1 DEF Before
  <2>3. CASE j \notin DOMAIN chan
    <3>1. chan'[j] = e
      BY <1>2, <1>3, <2>3
    <3>. QED
      BY <1>4, <1>5, <1>6, <2>1, <3>1 DEF Before
  <2>. QED
    BY <2>2, <2>3
<1>. QED
  BY <1>7, <1>8 DEF QueueInv

-------------------------------------------------------------------------------
(* Around the reconcile loop.                                               *)

(* The oldest event leads the resource to its phase.                        *)
LEMMA MergePhases ==
  ASSUME TypeInv, OldInv, NEW e \in Event, Follows(e), vz' = merge(vz, e)
  PROVE  /\ Phase(vz) <= Phase(vz)' /\ Phase(vz)' <= Read + 1 /\ Early(vz)'
         /\ Phase(cache) # 3 => Phase(vz)' = IF Tells(e) THEN EventPhase(e)
                                             ELSE Phase(vz)
<1>1. vz \in Resource
  BY ReportTypes
<1>2. /\ vz'.state = IF Tells(e) THEN e.state ELSE vz.state
      /\ vz'.conds = IF Keeps(e) THEN vz.conds ELSE e.conds
  BY <1>1 DEF merge, Resource, Tells, Keeps
<1>3. isInstalled(e) => ~Keeps(e)
  BY DEF isInstalled, Keeps, NoConditions
<1>4. /\ isInstalled(vz)' = IF Keeps(e) THEN isInstalled(vz) ELSE isInstalled(e)
  BY <1>2 DEF isInstalled
<1>5. /\ EventPhase(e) \in 1..3 /\ (EventPhase(e) = 3 <=> isInstalled(e))
      /\ Phase(vz) \in 0..3 /\ (Phase(vz) = 3 <=> isInstalled(vz))
      /\ Phase(vz)' \in 0..3 /\ (Phase(vz)' = 3 <=> isInstalled(vz)')
      /\ Read \in 0..3 /\ Phase(cache) \in 0..3
  BY Phases, NextPhases, EventPhases
<1>6. /\ EventPhase(e) # 3 => EventPhase(e) = IF e.state = "Reconciling" THEN 2 ELSE 1
      /\ Phase(vz)' # 3 => Phase(vz)' = IF vz'.state = "Reconciling" THEN 2
                                        ELSE IF vz'.state = "Ready" THEN 1 ELSE 0
      /\ Phase(vz) # 3 => Phase(vz) = IF vz.state = "Reconciling" THEN 2
                                      ELSE IF vz.state = "Ready" THEN 1 ELSE 0
  BY DEF Phase, EventPhase
<1>7. CASE Phase(cache) = 3
  <2>1. Phase(vz) = 3 /\ Phase(vz) <= Read + 1
    BY <1>5, <1>7 DEF OldInv
  <2>2. Phase(vz)' = 3
    BY <1>4, <1>5, <1>7, <2>1 DEF Follows
  <2>. QED
    BY <1>7, <2>1, <2>2 DEF Early
<1>8. CASE Phase(cache) # 3 /\ ~Tells(e)
  <2>1. Keeps(e) /\ vz'.state = vz.state
    BY <1>2, <1>8 DEF Follows
  <2>2. Phase(vz)' = Phase(vz)
    BY <1>4, <1>5, <1>6, <2>1
  <2>3. Early(vz)'
    BY <2>1, <2>2 DEF OldInv, Early
  <2>4. Phase(vz) <= Phase(vz)' /\ Phase(vz)' <= Read + 1
    BY <1>5, <2>2 DEF OldInv
  <2>. QED
    BY <1>8, <2>2, <2>3, <2>4
<1>9. CASE Phase(cache) # 3 /\ Tells(e)
  <2>1. Plain(e) /\ Phase(vz) <= EventPhase(e) /\ EventPhase(e) <= Read + 1
    BY <1>9 DEF Follows
  <2>2. CASE EventPhase(e) = 3
    <3>1. Phase(vz)' = 3
      BY <1>3, <1>4, <1>5, <2>2
    <3>2. Early(vz)'
      BY <3>1 DEF Early
    <3>3. Phase(vz) <= Phase(vz)' /\ Phase(vz)' <= Read + 1
      BY <1>5, <2>1, <2>2, <3>1
    <3>4. Phase(vz)' = IF Tells(e) THEN EventPhase(e) ELSE Phase(vz)
      BY <1>9, <2>2, <3>1
    <3>. QED
      BY <3>2, <3>3, <3>4
  <2>3. CASE EventPhase(e) # 3
    <3>1. ~isInstalled(vz)' /\ vz'.state = e.state
      BY <1>2, <1>4, <1>5, <1>9, <2>1, <2>3
    <3>2. e.state \in {"Ready", "Reconciling"}
      BY <2>1, <2>3 DEF Plain
    <3>3. Phase(vz)' = EventPhase(e)
      BY <1>5, <1>6, <2>3, <3>1, <3>2
    <3>. QED
      BY <1>5, <1>9, <2>1, <3>1, <3>2, <3>3 DEF Early
  <2>. QED
    BY <2>2, <2>3
<1>. QED
  BY <1>7, <1>8, <1>9

LEMMA TailTypes ==
  ASSUME TypeInv, chan # <<>>, chan' = Tail(chan)
  PROVE  /\ Head(chan) = chan[1] /\ Head(chan) \in Event /\ 1 \in DOMAIN chan
         /\ \A i \in DOMAIN chan' :
              /\ i \in Nat /\ i + 1 \in DOMAIN chan /\ 1 < i + 1
              /\ chan'[i] = chan[i + 1]
         /\ \A i, j \in DOMAIN chan' : i < j => i + 1 < j + 1
BY ReportTypes

(* What can move forward without a step of a pass.                          *)
LEMMA AroundPhases ==
  ASSUME TypeInv, TypeInv', PhaseInv, UNCHANGED <<pc, loc, ret, it>>,
         \A c \in Comp : installed(c)' <=> installed(c),
         \A c \in Comp : \A d \in Copies(c)' : d \in Copies(c) \/ d.state # "Ready"
                                               \/ ~Untouched,
         OldInv', QueueInv', Read <= Read'
  PROVE  PhaseInv'
<1>1. PlaceInv'
  <2>1. Phase(loc)' = Phase(loc)
    OBVIOUS
  <2>. QED
    BY <2>1 DEF PhaseInv, PlaceInv
<1>2. Read' < 2 => Untouched'
  <2>1. Read' < 2 => Untouched
    BY Phases, NextPhases DEF PhaseInv
  <2>. QED
    BY <2>1 DEF Untouched
<1>. QED
  BY <1>1, <1>2 DEF PhaseInv

LEMMA ApplyPhases ==
  ASSUME TypeInv, TypeInv', PhaseInv, ApplyEvent
  PROVE  PhaseInv'
<1>. DEFINE e == Head(chan)
<1>1. /\ chan # <<>> /\ chan' = Tail(chan) /\ vz' = merge(vz, e)
      /\ UNCHANGED <<cache, release, pc, loc, ret, it>>
  BY DEF ApplyEvent, chartVars, passVars, trackerVars
<1>2. e = chan[1] /\ e \in Event /\ 1 \in DOMAIN chan
  BY <1>1, TailTypes
<1>. HIDE DEF e
<1>3. Follows(e)
  BY <1>2 DEF PhaseInv, QueueInv
<1>4. /\ Phase(vz) <= Phase(vz)' /\ Phase(vz)' <= Read + 1 /\ Early(vz)'
      /\ Phase(cache) # 3 => Phase(vz)' = IF Tells(e) THEN EventPhase(e)
                                          ELSE Phase(vz)
  BY <1>1, <1>2, <1>3, MergePhases DEF PhaseInv
<1>5. Read' = Read /\ Phase(cache)' = Phase(cache) /\ Phase(loc)' = Phase(loc)
      /\ (Early(cache)' <=> Early(cache)) /\ (Early(loc)' <=> Early(loc))
  BY <1>1 DEF Read
<1>6. OldInv'
  BY <1>4, <1>5, Phases, NextPhases DEF PhaseInv, OldInv
<1>7. ASSUME NEW x \in Event, Follows(x), Before(e, x)
      PROVE  Follows(x)'
  BY <1>4, <1>5, <1>7, Phases, NextPhases DEF Follows, Before
<1>8. ASSUME NEW i \in DOMAIN chan'
      PROVE  Follows(chan[i])'
  <2>1. i + 1 \in DOMAIN chan /\ 1 < i + 1 /\ chan'[i] = chan[i + 1]
    BY <1>1, TailTypes
  <2>2. chan[i + 1] \in Event /\ Follows(chan[i + 1]) /\ Before(e, chan[i + 1])
    BY <1>2, <2>1, ReportTypes DEF PhaseInv, QueueInv
  <2>. QED
    BY <1>7, <2>1, <2>2
<1>9. ASSUME NEW i \in DOMAIN chan', NEW j \in DOMAIN chan', i < j
      PROVE  Before(chan[i], chan[j])'
  <2>1. /\ i + 1 \in DOMAIN chan /\ chan'[i] = chan[i + 1]
        /\ j + 1 \in DOMAIN chan /\ chan'[j] = chan[j + 1] /\ i + 1 < j + 1
    BY <1>1, <1>9, TailTypes
  <2>2. Before(chan[i + 1], chan[j + 1])
    BY <2>1 DEF PhaseInv, QueueInv
  <2>. QED
    BY <1>5, <2>1, <2>2 DEF Before
<1>10. QueueInv'
  BY <1>8, <1>9 DEF QueueInv
<1>11. \A c \in Comp : \A d \in Copies(c)' : d \in Copies(c)
  <2>1. \A c \in Comp : vz'.comps[c] = IF e.comps[c] = NoDetails THEN vz.comps[c]
                                       ELSE e.comps[c]
    BY <1>1, ReportTypes DEF merge, Resource
  <2>2. \A c \in Comp : vz'.comps[c] \in Copies(c)
    BY <1>2, <2>1 DEF Copies, Queued
  <2>3. \A c \in Comp : Queued(c)' \subseteq Queued(c)
    BY <1>1, TailTypes DEF Queued
  <2>. QED
    BY <1>1, <2>2, <2>3 DEF Copies
<1>. QED
  BY <1>1, <1>5, <1>6, <1>10, <1>11, Phases, AroundPhases DEF installed

LEMMA SyncPhases ==
  ASSUME TypeInv, TypeInv', PhaseInv, SyncCache
  PROVE  PhaseInv'
<1>1. cache' = vz /\ UNCHANGED <<vz, chan, release, pc, loc, ret, it>>
  BY DEF SyncCache, busVars, chartVars, passVars, trackerVars
<1>2. /\ Phase(cache)' = Phase(vz) /\ Phase(vz)' = Phase(vz) /\ Phase(loc)' = Phase(loc)
      /\ Early(cache)' <=> Early(vz)
      /\ Early(vz)' <=> Early(vz)
      /\ Early(loc)' <=> Early(loc)
  BY <1>1
<1>3. /\ Read \in 0..3 /\ Phase(vz) \in 0..3 /\ Phase(loc) \in 0..3
      /\ Phase(cache) \in 0..3
      /\ Read' = IF pc = "idle" THEN Phase(vz) ELSE Read
      /\ pc = "idle" => Read = Phase(cache)
  BY <1>1, Phases DEF Read
<1>4. Read <= Read'
  BY <1>3 DEF PhaseInv, OldInv
<1>5. OldInv'
  BY <1>2, <1>3, <1>4 DEF PhaseInv, OldInv
<1>6. ASSUME NEW x, Follows(x)
      PROVE  Follows(x)'
  BY <1>2, <1>3, <1>4, <1>6, EventPhases DEF Follows, PhaseInv, OldInv
<1>7. Phase(vz) # 3 => Phase(cache) # 3
  BY <1>3 DEF PhaseInv, OldInv
<1>8. ASSUME NEW x, NEW y, Before(x, y)
      PROVE  Before(x, y)'
  BY <1>2, <1>7, <1>8 DEF Before
<1>9. QueueInv'
  BY <1>1, <1>6, <1>8 DEF PhaseInv, QueueInv
<1>10. \A c \in Comp : \A d \in Copies(c)' : d \in Copies(c)
  BY <1>1 DEF Copies, Queued
<1>. QED
  BY <1>1, <1>4, <1>5, <1>9, <1>10, AroundPhases DEF installed

LEMMA DropPhases ==
  ASSUME TypeInv, TypeInv', PhaseInv, DropEvent
  PROVE  PhaseInv'
<1>1. chan # <<>> /\ chan' = Tail(chan) /\ UNCHANGED <<vz, cache, release, pc, loc, ret, it>>
  BY DEF DropEvent, crVars, chartVars, passVars, trackerVars
<1>2. Read' = Read /\ Phase(vz)' = Phase(vz) /\ Phase(cache)' = Phase(cache)
      /\ (OldInv' <=> OldInv)
  BY <1>1 DEF Read, OldInv
<1>3. ASSUME NEW i \in DOMAIN chan'
      PROVE  Follows(chan[i])'
  <2>1. i + 1 \in DOMAIN chan /\ chan'[i] = chan[i + 1]
    BY <1>1, TailTypes
  <2>2. Follows(chan[i + 1])
    BY <2>1 DEF PhaseInv, QueueInv
  <2>. QED
    BY <1>2, <2>1, <2>2 DEF Follows
<1>4. ASSUME NEW i \in DOMAIN chan', NEW j \in DOMAIN chan', i < j
      PROVE  Before(chan[i], chan[j])'
  <2>1. /\ i + 1 \in DOMAIN chan /\ chan'[i] = chan[i + 1]
        /\ j + 1 \in DOMAIN chan /\ chan'[j] = chan[j + 1] /\ i + 1 < j + 1
    BY <1>1, <1>4, TailTypes
  <2>2. Before(chan[i + 1], chan[j + 1])
    BY <2>1 DEF PhaseInv, QueueInv
  <2>. QED
    BY <1>2, <2>1, <2>2 DEF Before
<1>5. QueueInv'
  BY <1>3, <1>4 DEF QueueInv
<1>6. \A c \in Comp : \A d \in Copies(c)' : d \in Copies(c)
  BY <1>1, TailTypes DEF Copies, Queued
<1>7. Read <= Read'
  BY <1>2, Phases
<1>. QED
  BY <1>1, <1>2, <1>5, <1>6, <1>7, AroundPhases DEF installed, PhaseInv

LEMMA StartProcessPhases ==
  ASSUME TypeInv, TypeInv', PhaseInv, StartProcess
  PROVE  PhaseInv'
<1>1. /\ cache' = vz /\ chan' = <<>> /\ pc' = "idle" /\ loc' = NoResource
      /\ it'.state # "SetGlobalInstallStatus" /\ UNCHANGED <<vz, release>>
  BY DEF StartProcess, NoInstallTracker, newInstallTracker
<1>2. DOMAIN chan' = {}
  BY <1>1
<1>3. /\ Phase(cache)' = Phase(vz) /\ Phase(vz)' = Phase(vz) /\ Phase(loc)' = 0
      /\ Read' = Phase(vz) /\ Phase(vz) \in 0..3 /\ Phase(cache) \in 0..3
      /\ Read \in 0..3
  BY <1>1, Phases DEF Read
<1>4. Early(vz)' /\ Early(cache)' /\ Early(loc)'
  BY <1>1, Phases DEF PhaseInv, OldInv
<1>5. OldInv'
  BY <1>3, <1>4 DEF OldInv
<1>6. QueueInv'
  BY <1>2 DEF QueueInv
<1>7. PlaceInv'
  BY <1>1 DEF PlaceInv, VzStates
<1>8. Read <= Read'
  <2>1. Read <= Phase(vz)
    BY Phases DEF PhaseInv, OldInv, Read
  <2>. QED
    BY <1>3, <2>1
<1>9. Read' < 2 => Untouched
  BY <1>3, <1>8 DEF PhaseInv
<1>10. \A c \in Comp : \A d \in Copies(c)' : d \in Copies(c) \/ d.state # "Ready"
  BY <1>1, <1>2, Nothing DEF Copies, Queued
<1>11. Untouched => Untouched'
  BY <1>1, <1>10 DEF Untouched, installed
<1>. QED
  BY <1>5, <1>6, <1>7, <1>9, <1>11 DEF PhaseInv

LEMMA EnvironmentPhases ==
  ASSUME TypeInv, TypeInv', PhaseInv, Environment
  PROVE  PhaseInv'
<1>. USE DEF crVars, chartVars, passVars, trackerVars, busVars
(* A step that leaves the phases alone.                                     *)
<1>1. ASSUME vz'.state = vz.state, vz'.conds = vz.conds, vz'.comps = vz.comps,
             UNCHANGED <<cache, pc, loc, ret, it>>,
             \A c \in Comp : installed(c)' <=> installed(c),
             \/ chan' = chan
             \/ \E e \in Event : /\ chan' = Append(chan, e) /\ Neutral(e) /\ vz' = vz
                                 /\ \A c \in Comp : \/ e.comps[c] \in Copies(c)
                                                    \/ e.comps[c].state # "Ready"
                                                    \/ ~Untouched
      PROVE  PhaseInv'
  <2>1. Phase(vz)' = Phase(vz) /\ Phase(cache)' = Phase(cache) /\ Read' = Read
        /\ (Early(vz)' <=> Early(vz))
    BY <1>1 DEF Phase, Early, Read, isInstalled
  <2>2. OldInv' /\ Read <= Read'
    BY <1>1, <2>1, Phases DEF PhaseInv, OldInv
  <2>3. CASE chan' = chan
    <3>1. QueueInv'
      BY <2>1, <2>3 DEF PhaseInv, QueueInv, Follows, Before
    <3>2. \A c \in Comp : \A d \in Copies(c)' : d \in Copies(c)
      BY <1>1, <2>3 DEF Copies, Queued
    <3>. QED
      BY <1>1, <2>2, <3>1, <3>2, AroundPhases
  <2>4. CASE chan' # chan
    <3>1. PICK e \in Event : /\ chan' = Append(chan, e) /\ Neutral(e) /\ vz' = vz
                             /\ \A c \in Comp : \/ e.comps[c] \in Copies(c)
                                                \/ e.comps[c].state # "Ready"
                                                \/ ~Untouched
      BY <1>1, <2>4
    <3>2. QueueInv'
      BY <1>1, <2>2, <3>1, SameQueues, SentKept DEF Sent, PhaseInv
    <3>3. \A i \in DOMAIN chan' : \/ i \in DOMAIN chan /\ chan'[i] = chan[i]
                                  \/ chan'[i] = e
      BY <3>1, ReportTypes, AppendedQueue
    <3>4. \A c \in Comp : \A d \in Copies(c)' : \/ d \in Copies(c)
                                                \/ d.state # "Ready" \/ ~Untouched
      BY <1>1, <3>1, <3>3 DEF Copies, Queued
    <3>. QED
      BY <1>1, <2>2, <3>2, <3>4, AroundPhases
  <2>. QED
    BY <2>3, <2>4
<1>2. CASE ApplyEvent
  BY <1>2, ApplyPhases
<1>3. CASE DropEvent
  BY <1>3, DropPhases
<1>4. CASE SyncCache
  BY <1>4, SyncPhases
<1>5. CASE WatchedEvent
  BY <1>1, <1>5 DEF WatchedEvent, installed
<1>6. ASSUME NEW version, NEW enab, EditSpec(version, enab)
      PROVE  PhaseInv'
  <2>1. /\ vz'.comps = vz.comps /\ vz'.conds = vz.conds /\ vz'.state = vz.state
        /\ UNCHANGED <<cache, chan, pc, loc, ret, it, release>>
    BY <1>6, ReportTypes DEF EditSpec, Resource
  <2>. QED
    BY <1>1, <2>1 DEF installed
<1>7. ASSUME NEW c \in Comp, EditOverride(c)
      PROVE  PhaseInv'
  <2>1. \A x \in Comp : installed(x)' <=> installed(x)
    <3>1. release \in [Comp -> Release]
      BY OrderTypes
    <3>. QED
      BY <1>7, <3>1 DEF EditOverride, installed, Release
  <2>. QED
    BY <1>1, <1>7, <2>1 DEF EditOverride
<1>8. ASSUME NEW c \in Comp, ReconcileOverride(c)
      PROVE  PhaseInv'
  <2>. DEFINE u == [cache.comps[c] EXCEPT !.rg = 1]
              e == CompEvent(c, u)
  <2>1. cache.comps[c] \in Details /\ cache.comps[c] \in Copies(c)
    BY ReportTypes DEF Copies
  <2>2. u \in Details /\ u.state = cache.comps[c].state
    BY <2>1 DEF Details
  <2>. HIDE DEF u
  <2>3. /\ e \in Event /\ Neutral(e) /\ e.comps[c] = u
        /\ \A x \in Comp \ {c} : e.comps[x] = NoDetails
    BY <2>2, NoEventType DEF CompEvent, Event, NoEvent, NoComps, Neutral, Tells, Keeps
  <2>4. /\ chan' = Append(chan, e)
        /\ UNCHANGED <<vz, cache, pc, loc, ret, it, release>>
    BY <1>8 DEF ReconcileOverride, u
  <2>. HIDE DEF e
  <2>5. \A x \in Comp : e.comps[x].state # "Ready" \/ ~Untouched
    BY <2>1, <2>2, <2>3, Nothing DEF Untouched
  <2>. QED
    BY <1>1, <2>3, <2>4, <2>5 DEF installed
<1>9. ASSUME NEW c \in Comp, BecomeReady(c)
      PROVE  PhaseInv'
  BY <1>1, <1>9 DEF BecomeReady, installed
<1>10. ASSUME StartProcess
       PROVE  PhaseInv'
  BY <1>10, StartProcessPhases
<1>. QED
  BY <1>2, <1>3, <1>4, <1>5, <1>6, <1>7, <1>8, <1>9, <1>10
     DEF Environment, Restart, ReplaceOperator

-------------------------------------------------------------------------------
(* The reconcile loop.                                                      *)

(* Nothing that reports Ready joins the queue.                              *)
NoReports ==
  \A i \in DOMAIN chan' : \A c \in Comp : \/ chan'[i].comps[c] \in Queued(c)
                                          \/ chan'[i].comps[c].state # "Ready"

(* Where a step of a pass may lead.                                         *)
PassMoves ==
  /\ UNCHANGED crVars
  /\ \/ pc' = "idle" /\ loc' = NoResource
     \/ pc' # "idle" /\ loc'.state = loc.state /\ loc'.conds = loc.conds
  /\ QueueMoves

LEMMA PassPhases ==
  ASSUME TypeInv, TypeInv', PhaseInv, pc # "idle", PassMoves, PlaceInv',
         \/ Phase(loc) >= 2
         \/ /\ UNCHANGED release /\ NoReports
            /\ pc' # "idle" => loc'.comps = loc.comps
  PROVE  PhaseInv'
<1>. USE DEF crVars, PassMoves
<1>1. /\ Phase(vz)' = Phase(vz) /\ Phase(cache)' = Phase(cache)
      /\ Early(vz)' <=> Early(vz)
      /\ Early(cache)' <=> Early(cache)
      /\ Read = Phase(loc)
  BY DEF Read
<1>2. IF pc' = "idle"
      THEN /\ Phase(loc)' = 0 /\ Early(loc)' /\ Read' = Phase(cache)
      ELSE /\ Phase(loc)' = Phase(loc) /\ (Early(loc)' <=> Early(loc))
           /\ Read' = Phase(loc)
  <2>1. CASE pc' = "idle"
    BY <2>1, Phases DEF Read
  <2>2. CASE pc' # "idle"
    BY <2>2 DEF Phase, Early, Read, isInstalled
  <2>. QED
    BY <2>1, <2>2
<1>3. /\ Phase(vz) \in 0..3 /\ Phase(cache) \in 0..3 /\ Phase(loc) \in 0..3
      /\ Phase(loc) <= Phase(cache) /\ Phase(cache) <= Phase(vz)
      /\ Phase(vz) <= Read + 1
      /\ Early(vz) /\ Early(cache) /\ Early(loc)
  BY Phases DEF PhaseInv, OldInv
<1>4. Read <= Read'
  BY <1>1, <1>2, <1>3
<1>5. OldInv'
  <2>1. Phase(vz) <= Read' + 1 /\ Phase(loc)' <= Phase(cache)
    BY <1>1, <1>2, <1>3
  <2>2. Early(vz)' /\ Early(cache)' /\ Early(loc)'
    BY <1>1, <1>2, <1>3
  <2>. QED
    BY <1>1, <1>3, <2>1, <2>2 DEF OldInv
<1>6. QueueInv'
  BY <1>4, SameQueueKept, SentKept DEF QueueMoves, PhaseInv
<1>7. ASSUME Read' < 2
      PROVE  Untouched'
  <2>1. Phase(loc) < 2
    BY <1>1, <1>2, <1>3, <1>7
  <2>2. UNCHANGED release /\ NoReports /\ (pc' # "idle" => loc'.comps = loc.comps)
    BY <1>3, <2>1
  <2>3. Untouched
    BY <1>1, <2>1 DEF PhaseInv
  <2>4. \A c \in Comp : loc'.comps[c] \in Copies(c) \/ loc'.comps[c].state # "Ready"
    BY <2>2, Nothing DEF Copies
  <2>5. \A c \in Comp : \A d \in Queued(c)' : d \in Copies(c) \/ d.state # "Ready"
    BY <2>2 DEF NoReports, Queued, Copies
  <2>6. \A c \in Comp : \A d \in Copies(c)' : d \in Copies(c) \/ d.state # "Ready"
    BY <2>4, <2>5 DEF Copies
  <2>. QED
    BY <2>2, <2>3, <2>6 DEF Untouched, installed
<1>. QED
  BY <1>5, <1>6, <1>7 DEF PhaseInv

(* The pass ends.                                                           *)
LEMMA EndQuietlyPhases ==
  ASSUME TypeInv, TypeInv', PhaseInv, pc # "idle", UNCHANGED <<crVars, release>>,
         NEW r, EndQuietly(r), it'.state # "SetGlobalInstallStatus"
  PROVE  PhaseInv'
<1>1. pc' = "idle" /\ loc' = NoResource /\ chan' = Disowned
  BY DEF EndQuietly, EndPass
<1>2. PassMoves
  BY <1>1, SameQueues DEF PassMoves, QueueMoves
<1>3. PlaceInv'
  BY <1>1 DEF PlaceInv, VzStates
<1>4. NoReports
  BY <1>1, DisownedQueue DEF NoReports, Queued
<1>. QED
  BY <1>1, <1>2, <1>3, <1>4, PassPhases

LEMMA EndSendingPhases ==
  ASSUME TypeInv, TypeInv', PhaseInv, pc # "idle", UNCHANGED <<crVars, release>>,
         NEW e \in Event, NEW r, EndSending(e, r), Neutral(e) \/ Fits(e),
         Phase(loc) < 2 => \A c \in Comp : e.comps[c].state # "Ready",
         it'.state # "SetGlobalInstallStatus"
  PROVE  PhaseInv'
<1>1. pc' = "idle" /\ loc' = NoResource /\ chan' = Append(Disowned, e)
  BY DEF EndSending, EndPass
<1>2. PassMoves
  BY <1>1, SameQueues DEF PassMoves, QueueMoves, Sent
<1>3. PlaceInv'
  BY <1>1 DEF PlaceInv, VzStates
<1>4. Phase(loc) < 2 => NoReports
  <2>1. \A i \in DOMAIN chan' : \/ i \in DOMAIN chan /\ chan'[i] = Disowned[i]
                                \/ chan'[i] = e
    BY <1>1, DisownedQueue, AppendedQueue
  <2>. QED
    BY <2>1, DisownedQueue DEF NoReports, Queued
<1>5. Phase(loc) >= 2 \/ Phase(loc) < 2
  BY Phases
<1>. QED
  BY <1>1, <1>2, <1>3, <1>4, <1>5, PassPhases

(* What an event with a condition does that a pass writes from its copy.    *)
LEMMA ConditionPhases ==
  ASSUME NEW t \in VzConditions, NEW v
  PROVE  LET e == ConditionEvent(loc, t, v)
         IN  /\ Phase(loc) = 3 => Fits(e)
             /\ Phase(loc) = 2 /\ t = "InstallComplete" => Fits(e)
             /\ Phase(loc) = 1 /\ t = "InstallStarted" => Fits(e)
             /\ e.comps = NoComps
<1>. DEFINE e == ConditionEvent(loc, t, v)
<1>1. /\ e.state = conditionToVzState(t) /\ e.comps = NoComps
      /\ e.conds.has = loc.conds.has \cup {t}
  BY DEF ConditionEvent, NoEvent, appendConditionIfNecessary
<1>2. e.state \in {"Ready", "Reconciling", "Upgrading", "Paused"}
      /\ (t = "InstallStarted" => e.state = "Reconciling")
  BY <1>1 DEF conditionToVzState
<1>3. Tells(e)
  BY <1>2 DEF Tells
<1>4. isInstalled(e) <=> isInstalled(loc) \/ t = "InstallComplete"
  BY <1>1 DEF isInstalled
<1>. HIDE DEF e
<1>5. /\ isInstalled(e) => EventPhase(e) = 3
      /\ ~isInstalled(e) /\ t = "InstallStarted" => EventPhase(e) = 2 /\ Plain(e)
  BY <1>2 DEF EventPhase, Plain
<1>6. Phase(loc) = 3 => Fits(e)
  BY <1>3, <1>4, <1>5, Phases DEF Fits
<1>7. Phase(loc) = 2 /\ t = "InstallComplete" => Fits(e)
  BY <1>3, <1>4, <1>5 DEF Fits, Plain
<1>8. Phase(loc) = 1 /\ t = "InstallStarted" => Fits(e)
  <2>. SUFFICES ASSUME Phase(loc) = 1, t = "InstallStarted"
                PROVE  Fits(e)
    OBVIOUS
  <2>1. ~isInstalled(loc)
    BY Phases
  <2>2. ~isInstalled(e)
    BY <1>4, <2>1
  <2>. QED
    BY <1>3, <1>5, <2>2 DEF Fits
<1>. QED
  BY <1>1, <1>6, <1>7, <1>8 DEF e

(* A step of reconcileComponents.                                           *)
LEMMA ComponentsPhases ==
  ASSUME TypeInv, TypeInv', PhaseInv, pc = "components", PassMoves,
         pc' \in {"idle", "components", "panic"},
         pc' = "components" => ret' = ret,
         it'.state = "SetGlobalInstallStatus" => pc' = pc /\ Phase(loc) = 3
  PROVE  PhaseInv'
<1>1. Phase(loc) >= 2 /\ (ret # "Reconciling" => Phase(loc) = 3)
  BY DEF PhaseInv, PlaceInv
<1>2. pc' # "idle" => Phase(loc)' = Phase(loc)
  BY DEF PassMoves, Phase, isInstalled
<1>3. pc' \notin VzStates /\ pc' # "upgrade"
  BY Zenon DEF VzStates
<1>4. PlaceInv'
  BY <1>1, <1>2, <1>3 DEF PlaceInv
<1>. QED
  BY <1>1, <1>4, PassPhases

(* A step of reconcileUpgrade.                                              *)
LEMMA UpgradePhases ==
  ASSUME TypeInv, TypeInv', PhaseInv, pc = "upgrade", PassMoves,
         pc' \in {"idle", "components", "upgrade"},
         it'.state # "SetGlobalInstallStatus"
  PROVE  PhaseInv'
<1>1. Phase(loc) = 3
  BY DEF PhaseInv, PlaceInv
<1>2. pc' # "idle" => Phase(loc)' = Phase(loc)
  BY DEF PassMoves, Phase, isInstalled
<1>3. pc' \notin VzStates /\ pc' # "panic"
  BY Zenon DEF VzStates
<1>4. PlaceInv'
  BY <1>1, <1>2, <1>3 DEF PlaceInv
<1>. QED
  BY <1>1, <1>4, PassPhases

-------------------------------------------------------------------------------
(* reconcileComponents.                                                     *)

(* Events with details only.                                                *)
LEMMA DetailsSent ==
  ASSUME TypeInv
  PROVE  /\ \A ds \in [Comp -> Details] : SendDetails(ds) => QueueMoves
         /\ InLoop /\ SendInitialDetails => QueueMoves
<1>1. ASSUME NEW ds \in [Comp -> Details], SendDetails(ds)
      PROVE  QueueMoves
  <2>. DEFINE e == [NoEvent EXCEPT !.comps = ds, !.own = TRUE]
  <2>1. e \in Event /\ Neutral(e)
    BY NoEventType DEF Event, NoEvent, Neutral, Tells, Keeps
  <2>2. Sent(e)
    BY <1>1, SameQueues DEF SendDetails, Sent
  <2>. QED
    BY <2>1, <2>2 DEF QueueMoves
<1>2. ASSUME InLoop, SendInitialDetails
      PROVE  QueueMoves
  <2>. DEFINE u == initialDetails(comp)
              e == CompEvent(comp, u)
  <2>1. comp \in Comp
    BY <1>2, RegistryType DEF InLoop, InTracker
  <2>2. u \in Details
    BY <2>1, InitialDetailsType, ReportTypes, OrderTypes
  <2>. HIDE DEF u
  <2>3. e \in Event /\ Neutral(e)
    BY <2>1, <2>2, NoEventType
       DEF CompEvent, Event, NoEvent, NoComps, Neutral, Tells, Keeps
  <2>4. Sent(e)
    BY <1>2, SameQueues DEF SendInitialDetails, Sent, u
  <2>. QED
    BY <2>3, <2>4 DEF QueueMoves
<1>. QED
  BY <1>1, <1>2

(* A step of the machine of a component.                                    *)
LEMMA LoopPhases ==
  ASSUME TypeInv, TypeInv', PhaseInv, InLoop, UNCHANGED <<crVars, ret>>,
         pc' \in {"components", "panic"},
         it' = it \/ (\E s : GoTo(s) \/ GoToUninstall(s)),
         \/ chan' = chan /\ loc' = loc
         \/ \E d \in Details : SendDetails(OnlyDetails(d))
         \/ SendInitialDetails /\ loc' = loc
  PROVE  PhaseInv'
<1>1. pc = "components" /\ it.state = "InstallComponents"
  BY DEF InLoop, InTracker
<1>2. it'.state = "InstallComponents"
  BY <1>1, OrderTypes DEF GoTo, GoToUninstall, InstallTracker
<1>3. comp \in Comp
  BY <1>1, RegistryType
<1>4. QueueMoves
  BY <1>3, DetailsSent, OnlyDetailsType, SameQueues DEF QueueMoves
<1>5. loc'.state = loc.state /\ loc'.conds = loc.conds
  BY ReportTypes DEF SendDetails, Resource
<1>6. PassMoves
  BY <1>1, <1>4, <1>5 DEF PassMoves
<1>. QED
  BY <1>1, <1>2, <1>6, ComponentsPhases

LEMMA InstallStepPhases ==
  ASSUME TypeInv, TypeInv', PhaseInv, InstallStep
  PROVE  PhaseInv'
<1>1. CASE ReconcileWatched \/ DecideUpdate \/ ComponentsInstalled \/ PostInstall
  <2>1. /\ pc = "components"
        /\ UNCHANGED <<crVars, chan, pc, loc, ret>>
        /\ \E s : SetTracker(s) /\ (s = "SetGlobalInstallStatus" => loc.state = "Ready")
    BY <1>1 DEF ReconcileWatched, DecideUpdate, ComponentsInstalled, PostInstall,
                LoopDone, InTracker, Quiet, busVars, passVars
  <2>2. it'.state = "SetGlobalInstallStatus" => loc.state = "Ready"
    BY <2>1, OrderTypes DEF SetTracker, InstallTracker
  <2>3. loc.state = "Ready" => Phase(loc) = 3
    BY <2>1 DEF PhaseInv, PlaceInv, Phase
  <2>4. PassMoves
    BY <2>1, SameQueues DEF PassMoves, QueueMoves
  <2>. QED
    BY <2>1, <2>2, <2>3, <2>4, ComponentsPhases
<1>2. CASE ReconcileWatchedFails \/ ComponentsWaiting \/ PostInstallFails
  <2>1. /\ pc # "idle" /\ EndQuietly(TRUE) /\ UNCHANGED <<crVars, release>>
        /\ it'.state # "SetGlobalInstallStatus"
    BY <1>2 DEF ReconcileWatchedFails, ComponentsWaiting, PostInstallFails,
                LoopDone, InTracker, chartVars, trackerVars
  <2>. QED
    BY <2>1, EndQuietlyPhases
<1>3. CASE SetGlobalInstallStatus
  <2>. DEFINE e == setInstallingState(loc)
  <2>1. /\ pc # "idle" /\ EndSending(e, TRUE) /\ SetTracker("InstallComponents")
        /\ UNCHANGED <<crVars, release>> /\ Phase(loc) = 3
    BY <1>3 DEF SetGlobalInstallStatus, InTracker, chartVars, PhaseInv, PlaceInv
  <2>2. e \in Event
    BY ReportTypes, OrderTypes, ConditionEventType DEF setInstallingState, VzConditions
  <2>3. Fits(e)
    BY <2>1, ConditionPhases DEF setInstallingState, VzConditions
  <2>4. it'.state # "SetGlobalInstallStatus"
    BY <2>1, OrderTypes DEF SetTracker, InstallTracker
  <2>5. ~(Phase(loc) < 2)
    BY <2>1
  <2>. HIDE DEF e
  <2>. QED
    BY <2>1, <2>2, <2>3, <2>4, <2>5, EndSendingPhases
<1>4. ASSUME \/ ComponentSkippedUnseen \/ ComponentStatusMissing
             \/ ComponentStatusUnknown \/ ComponentInit \/ ComponentDisabled
             \/ ComponentReady \/ InstalledCheckFails \/ ComponentPreInstall
             \/ ComponentInstall \/ ComponentWaitReady \/ ComponentPostInstall
             \/ ComponentBlocked \/ ComponentEnd \/ UninstallPreUninstall
             \/ UninstallUninstall \/ UninstallWaitUninstalled \/ UninstallEnd
             \/ UninstallBlocked
      PROVE  PhaseInv'
  <2>1. InLoop /\ pc = "components"
    BY <1>4
       DEF ComponentSkippedUnseen, ComponentStatusMissing, ComponentStatusUnknown,
           ComponentInit, ComponentDisabled, ComponentReady, InstalledCheckFails,
           ComponentPreInstall, ComponentInstall, ComponentWaitReady,
           ComponentPostInstall, ComponentBlocked, ComponentEnd,
           UninstallPreUninstall, UninstallUninstall, UninstallWaitUninstalled,
           UninstallEnd, UninstallBlocked, StatusMissing, AtUninstall, At, InLoop,
           InTracker
  <2>2. /\ UNCHANGED <<crVars, ret, loc>> /\ pc' \in {"components", "panic"}
        /\ it' = it \/ (\E s : GoTo(s) \/ GoToUninstall(s))
        /\ chan' = chan \/ SendInitialDetails
    BY <1>4, <2>1
       DEF ComponentSkippedUnseen, ComponentStatusMissing, ComponentStatusUnknown,
           ComponentInit, ComponentDisabled, ComponentReady, InstalledCheckFails,
           ComponentPreInstall, ComponentInstall, ComponentWaitReady,
           ComponentPostInstall, ComponentBlocked, ComponentEnd,
           UninstallPreUninstall, UninstallUninstall, UninstallWaitUninstalled,
           UninstallEnd, UninstallBlocked, Quiet, NextComponent, busVars, passVars,
           trackerVars
  <2>. QED
    BY <2>1, <2>2, LoopPhases
<1>5. ASSUME \/ ComponentWriteInstallStarted \/ ComponentComplete \/ ComponentRestart
             \/ UninstallStart \/ UninstallDone
      PROVE  PhaseInv'
  <2>1. InLoop /\ pc = "components"
    BY <1>5 DEF ComponentWriteInstallStarted, ComponentComplete, ComponentRestart,
                UninstallStart, UninstallDone, AtUninstall, At, InLoop, InTracker
  <2>2. details \in Details /\ loc.gen \in Nat
    BY <2>1, RegistryType, OrderTypes DEF details
  <2>3. [details EXCEPT !.rg = 0] \in Details
    BY <2>2 DEF Details
  <2>4. \A d \in Details : \A t : updateComponentStatus(d, t, loc.gen) \in Details
    BY <2>2, UpdateType
  <2>5. /\ UNCHANGED <<crVars, ret, pc>>
        /\ \E s : GoTo(s) \/ GoToUninstall(s)
        /\ \E d \in Details : SendDetails(OnlyDetails(d))
    BY <1>5, <2>2, <2>3, <2>4
       DEF ComponentWriteInstallStarted, ComponentComplete, ComponentRestart,
           UninstallStart, UninstallDone, WriteDetails, NextComponent
  <2>. QED
    BY <2>1, <2>5, LoopPhases
<1>. QED
  BY <1>1, <1>2, <1>3, <1>4, <1>5 DEF InstallStep

-------------------------------------------------------------------------------
(* reconcileUpgrade.                                                        *)

LEMMA UpgradeDonePhases ==
  ASSUME TypeInv, TypeInv', PhaseInv, UpgradeDone
  PROVE  PhaseInv'
<1>. DEFINE ds == [c \in Comp |->
                     IF c \in Known \cap loc.enabled /\ loc.comps[c] # NoDetails
                     THEN [loc.comps[c] EXCEPT !.lrg = loc.gen] ELSE NoDetails]
            q == [i \in DOMAIN chan |-> [Aliased(ds)[i] EXCEPT !.own = FALSE]]
            e == [NoEvent EXCEPT !.comps = ds, !.version = loc.spec]
<1>1. /\ pc = "upgrade" /\ chan' = Append(q, e) /\ EndPass(TRUE)
      /\ UNCHANGED <<crVars, it>>
  BY DEF UpgradeDone, InUpgrade
<1>2. /\ loc \in Resource /\ loc.gen \in Nat /\ loc.spec \in Nat
      /\ loc.comps \in [Comp -> Details]
  BY ReportTypes, OrderTypes DEF Resource
<1>3. ds \in [Comp -> Details]
  BY <1>2, NoDetailsType DEF Details
<1>4. e \in Event /\ Neutral(e)
  BY <1>2, <1>3, NoEventType DEF Event, NoEvent, Neutral, Tells, Keeps
<1>. HIDE DEF ds, e
<1>5. /\ Aliased(ds) \in Seq(Event) /\ DOMAIN Aliased(ds) = DOMAIN chan
      /\ \A i \in DOMAIN chan : /\ Aliased(ds)[i].conds = chan[i].conds
                                /\ Aliased(ds)[i].state = chan[i].state
  BY <1>3, AliasedQueue
<1>6. q \in Seq(Event) /\ DOMAIN q = DOMAIN chan
  BY <1>5, DisownedType
<1>7. ASSUME NEW i \in DOMAIN chan
      PROVE  q[i].state = chan[i].state /\ q[i].conds = chan[i].conds
  <2>1. Aliased(ds)[i] \in Event
    BY <1>5
  <2>2. q[i].state = Aliased(ds)[i].state /\ q[i].conds = Aliased(ds)[i].conds
    BY <2>1 DEF Event
  <2>. QED
    BY <1>5, <2>2
<1>. HIDE DEF q
<1>8. Sent(e)
  BY <1>1, <1>6, <1>7 DEF Sent, SameQueue
<1>9. PassMoves
  BY <1>1, <1>4, <1>8 DEF PassMoves, QueueMoves, EndPass
<1>10. it'.state # "SetGlobalInstallStatus"
  BY <1>1 DEF PhaseInv, PlaceInv
<1>. QED
  BY <1>1, <1>9, <1>10, UpgradePhases DEF EndPass

LEMMA UpgradeStepPhases ==
  ASSUME TypeInv, TypeInv', PhaseInv, UpgradeStep
  PROVE  PhaseInv'
<1>1. CASE WriteUpgradeStarted
  <2>. DEFINE e == ConditionEvent(loc, "UpgradeStarted", 0)
  <2>1. /\ pc = "upgrade" /\ EndSending(e, TRUE)
        /\ UNCHANGED <<crVars, release, it>>
    BY <1>1 DEF WriteUpgradeStarted, InUpgrade, chartVars, trackerVars
  <2>2. e \in Event
    BY ReportTypes, ConditionEventType DEF VzConditions
  <2>3. Phase(loc) = 3 /\ it.state # "SetGlobalInstallStatus"
    BY <2>1 DEF PhaseInv, PlaceInv
  <2>4. Fits(e)
    BY <2>3, ConditionPhases DEF VzConditions
  <2>5. ~(Phase(loc) < 2) /\ it'.state # "SetGlobalInstallStatus" /\ pc # "idle"
    BY <2>1, <2>3
  <2>. HIDE DEF e
  <2>. QED
    BY <2>1, <2>2, <2>4, <2>5, EndSendingPhases
<1>2. CASE UpgradeWaits \/ UpgradeBlocked
  <2>1. /\ pc = "upgrade" /\ EndQuietly(TRUE) /\ UNCHANGED <<crVars, release, it>>
    BY <1>2 DEF UpgradeWaits, UpgradeBlocked, UpgradeAt, InUpgrade, chartVars,
                trackerVars
  <2>2. it.state # "SetGlobalInstallStatus"
    BY <2>1 DEF PhaseInv, PlaceInv
  <2>. QED
    BY <2>1, <2>2, EndQuietlyPhases
<1>3. CASE \/ UpgradeStarted \/ ComponentsUpgraded \/ VzPostUpgrade
           \/ WaitPostUpgradeDone \/ RestartApps \/ UpgradeNotInstalled
           \/ UpgradePreUpgrade \/ UpgradeUpgrade \/ UpgradeWaitReady
           \/ UpgradePostUpgrade \/ UpgradeNext
  <2>1. /\ pc = "upgrade" /\ UNCHANGED <<crVars, chan, pc, loc, it>>
    BY <1>3 DEF UpgradeStarted, ComponentsUpgraded, VzPostUpgrade,
                WaitPostUpgradeDone, RestartApps, UpgradeNotInstalled,
                UpgradePreUpgrade, UpgradeUpgrade, UpgradeWaitReady,
                UpgradePostUpgrade, UpgradeNext, UpgradeAt, InUpgrade,
                QuietUpgrade, busVars, passVars, trackerVars
  <2>2. it.state # "SetGlobalInstallStatus"
    BY <2>1 DEF PhaseInv, PlaceInv
  <2>3. PassMoves
    BY <2>1, SameQueues DEF PassMoves, QueueMoves
  <2>. QED
    BY <2>1, <2>2, <2>3, UpgradePhases
<1>4. CASE UpgradeInit \/ UpgradeComplete
  <2>1. pc = "upgrade" /\ UNCHANGED <<crVars, pc, it>>
    BY <1>4 DEF UpgradeInit, UpgradeComplete, WriteUpgradeDetails, UpgradeAt,
                InUpgrade
  <2>2. comp \in Comp /\ details \in Details /\ loc.gen \in Nat
    BY <1>4, RegistryType, OrderTypes DEF UpgradeInit, UpgradeComplete
  <2>3. \A t : updateComponentStatus(details, t, loc.gen) \in Details
    BY <2>2, UpdateType
  <2>4. PICK d \in Details : SendDetails(OnlyDetails(d))
    BY <1>4, <2>3 DEF UpgradeInit, UpgradeComplete, WriteUpgradeDetails
  <2>5. QueueMoves
    BY <2>2, <2>4, DetailsSent, OnlyDetailsType
  <2>6. loc'.state = loc.state /\ loc'.conds = loc.conds
    BY <2>4, ReportTypes DEF SendDetails, Resource
  <2>7. PassMoves
    BY <2>1, <2>5, <2>6 DEF PassMoves
  <2>8. it.state # "SetGlobalInstallStatus"
    BY <2>1 DEF PhaseInv, PlaceInv
  <2>. QED
    BY <2>1, <2>7, <2>8, UpgradePhases
<1>5. CASE UpgradeEnd
  <2>1. /\ pc = "upgrade" /\ pc' = "components" /\ loc' = loc
        /\ ret' = "PostUpgrade" /\ UNCHANGED <<crVars, chan>>
        /\ it' = it \/ it' = newInstallTracker(loc.gen)
    BY <1>5 DEF UpgradeEnd, InUpgrade, EnterComponents, getInstallTracker, busVars
  <2>2. it'.state # "SetGlobalInstallStatus"
    BY <2>1 DEF newInstallTracker, PhaseInv, PlaceInv
  <2>3. PassMoves
    BY <2>1, SameQueues DEF PassMoves, QueueMoves
  <2>. QED
    BY <2>1, <2>2, <2>3, UpgradePhases
<1>. QED
  BY <1>1, <1>2, <1>3, <1>4, <1>5, UpgradeDonePhases DEF UpgradeStep

-------------------------------------------------------------------------------
(* Reconcile.                                                               *)

(* What a resource may enable at all is in the bill of materials of every   *)
(* operator, so no pass finds every enabled component Ready for want of     *)
(* enabled ones.                                                            *)
SomethingEnabled ==
  \A S \in Specs, v \in 1..MaxVersion :
    \E i \in DOMAIN Registry[v] : Registry[v][i] \in S

LEMMA StartPassPhases ==
  ASSUME TypeInv, TypeInv', PhaseInv, StartPass
  PROVE  PhaseInv'
<1>1. /\ pc = "idle" /\ loc' = cache /\ pc' = cache.state
      /\ UNCHANGED <<vz, cache, release, chan, it>>
  BY DEF StartPass, crVars, busVars, chartVars, trackerVars
<1>2. cache.state \in VzStates
  BY ReportTypes DEF Resource
<1>3. pc' \notin {"idle", "components", "upgrade", "panic"}
  BY <1>1, <1>2, Zenon DEF VzStates
<1>4. /\ Phase(vz)' = Phase(vz) /\ Phase(cache)' = Phase(cache)
      /\ Phase(loc)' = Phase(cache)
      /\ Read' = Read /\ Read = Phase(cache)
      /\ Early(vz)' <=> Early(vz)
      /\ Early(cache)' <=> Early(cache)
      /\ Early(loc)' <=> Early(cache)
  BY <1>1, <1>3 DEF Read
<1>5. OldInv'
  BY <1>4, Phases DEF PhaseInv, OldInv
<1>6. QueueInv'
  BY <1>1, <1>4 DEF PhaseInv, QueueInv, Follows, Before
<1>7. PlaceInv'
  BY <1>1, <1>3 DEF PhaseInv, PlaceInv
<1>8. Read' < 2 => Untouched'
  <2>1. \A c \in Comp : \A d \in Copies(c)' : d \in Copies(c)
    BY <1>1 DEF Copies, Queued
  <2>. QED
    BY <1>1, <1>4, <2>1 DEF PhaseInv, Untouched, installed
<1>. QED
  BY <1>5, <1>6, <1>7, <1>8 DEF PhaseInv

(* A handler calls reconcileComponents or reconcileUpgrade.                 *)
LEMMA EnterPhases ==
  ASSUME TypeInv, TypeInv', PhaseInv, pc # "idle", UNCHANGED <<crVars, chan>>,
         pc' \in {"components", "upgrade"},
         loc'.state = loc.state, loc'.conds = loc.conds,
         Phase(loc) = 3 \/ (Phase(loc) = 2 /\ pc' = "components" /\ ret' = "Reconciling"),
         it'.state # "SetGlobalInstallStatus"
  PROVE  PhaseInv'
<1>1. pc' \notin VzStates /\ pc' # "idle" /\ pc' # "panic"
  BY Zenon DEF VzStates
<1>2. Phase(loc)' = Phase(loc)
  BY DEF Phase, isInstalled
<1>3. Phase(loc) >= 2
  OBVIOUS
<1>4. PlaceInv'
  BY <1>1, <1>2, <1>3 DEF PlaceInv
<1>5. PassMoves
  BY <1>1, SameQueues DEF PassMoves, QueueMoves
<1>. QED
  BY <1>3, <1>4, <1>5, PassPhases

LEMMA InitializePhases ==
  ASSUME TypeInv, TypeInv', PhaseInv, InitializeComponentStatus
  PROVE  PhaseInv'
<1>. DEFINE e == [NoEvent EXCEPT !.comps = Initialized]
<1>1. /\ pc = "Ready" /\ EndSending(e, TRUE)
      /\ UNCHANGED <<crVars, release, it>>
  BY DEF InitializeComponentStatus, chartVars, trackerVars
<1>2. e \in Event /\ e.comps = Initialized /\ Neutral(e)
  BY InitializedType, NoEventType DEF Event, NoEvent, Neutral, Tells, Keeps
<1>. HIDE DEF e
<1>3. it'.state # "SetGlobalInstallStatus" /\ pc # "idle"
  BY <1>1 DEF PhaseInv, PlaceInv
<1>4. ASSUME Phase(loc) < 2, NEW c \in Comp
      PROVE  Initialized[c].state # "Ready"
  <2>1. Untouched
    BY <1>3, <1>4 DEF PhaseInv, Read
  <2>2. ~installed(c) /\ loc.comps[c].state # "Ready" /\ loc.comps[c] \in Details
    BY <2>1, ReportTypes DEF Untouched, Copies
  <2>. QED
    BY <2>2, Nothing DEF Initialized, NewDetails, initialDetails, Details
<1>. QED
  BY <1>1, <1>2, <1>3, <1>4, EndSendingPhases

LEMMA ReconcilePhases ==
  ASSUME TypeInv, TypeInv', ReportInv, PhaseInv, SomethingEnabled, Reconcile
  PROVE  PhaseInv'
<1>. USE DEF chartVars, trackerVars
<1>1. loc \in Resource /\ loc.gen \in Nat
  BY ReportTypes, OrderTypes
<1>2. /\ pc # "components" => it.state # "SetGlobalInstallStatus"
      /\ \A g : newInstallTracker(g).state # "SetGlobalInstallStatus"
      /\ pc \in VzStates => pc = loc.state
      /\ pc = "components" => /\ Phase(loc) >= 2
                              /\ ret # "Reconciling" => Phase(loc) = 3
  BY DEF newInstallTracker, PhaseInv, PlaceInv
<1>3. ASSUME pc # "idle", UNCHANGED <<crVars, release>>,
             it'.state # "SetGlobalInstallStatus",
             NEW t \in VzConditions, NEW v \in Nat, NEW r,
             EndSending(ConditionEvent(loc, t, v), r),
             \/ Phase(loc) = 3
             \/ Phase(loc) = 2 /\ t = "InstallComplete"
             \/ Phase(loc) = 1 /\ t = "InstallStarted"
      PROVE  PhaseInv'
  <2>. DEFINE e == ConditionEvent(loc, t, v)
  <2>1. e \in Event /\ EndSending(e, r)
    BY <1>1, <1>3, ConditionEventType
  <2>2. Fits(e) /\ e.comps = NoComps
    BY <1>3, ConditionPhases
  <2>. HIDE DEF e
  <2>3. \A c \in Comp : e.comps[c].state # "Ready"
    BY <2>2, Nothing
  <2>. QED
    BY <1>3, <2>1, <2>2, <2>3, EndSendingPhases
<1>4. ASSUME pc # "idle", UNCHANGED <<crVars, release, it>>,
             it.state # "SetGlobalInstallStatus",
             NEW s \in {"Ready", "Upgrading"}, NEW r, EndSending(StateEvent(s), r),
             Phase(loc) = 3 \/ (Phase(loc) = 0 /\ s = "Ready")
      PROVE  PhaseInv'
  <2>. DEFINE e == StateEvent(s)
  <2>1. /\ e.state = s /\ e.conds = NoConditions /\ e.comps = NoComps
        /\ ~isInstalled(e)
    BY DEF StateEvent, NoEvent, isInstalled, NoConditions
  <2>2. e \in Event
    BY NoEventType DEF StateEvent, Event, VzStates
  <2>3. EndSending(e, r)
    BY <1>4
  <2>. HIDE DEF e
  <2>4. Keeps(e) /\ Tells(e) /\ (s = "Ready" => EventPhase(e) = 1 /\ Plain(e))
    BY <2>1 DEF Keeps, Tells, EventPhase, Plain
  <2>5. Fits(e)
    BY <1>4, <2>4 DEF Fits
  <2>6. \A c \in Comp : e.comps[c].state # "Ready"
    BY <2>1, Nothing
  <2>. QED
    BY <1>4, <2>2, <2>3, <2>5, <2>6, EndSendingPhases
<1>5. CASE ProcNew
  <2>1. /\ pc = "" /\ EndSending(StateEvent("Ready"), TRUE)
        /\ UNCHANGED <<crVars, release, it>>
    BY <1>5 DEF ProcNew
  <2>2. loc.state = ""
    BY <1>2, <2>1 DEF VzStates
  <2>3. Phase(loc) = 3 \/ Phase(loc) = 0
    BY <2>2 DEF Phase
  <2>. QED
    BY <1>2, <1>4, <2>1, <2>3
<1>6. CASE \/ InitializationFails \/ VersionUnparsable \/ InstallPrerequisiteFails
           \/ StayPaused
  <2>1. /\ pc \notin {"idle", "components"} /\ EndQuietly(TRUE)
        /\ UNCHANGED <<crVars, release, it>>
    BY <1>6 DEF InitializationFails, VersionUnparsable, InstallPrerequisiteFails,
                StayPaused, ProcReady
  <2>. QED
    BY <1>2, <2>1, EndQuietlyPhases
<1>7. CASE StartUpgrade
  <2>1. /\ pc = "Ready" /\ isInstalled(loc) /\ EndSending(StateEvent("Upgrading"), TRUE)
        /\ UNCHANGED <<crVars, release, it>>
    BY <1>7 DEF StartUpgrade, ProcReady
  <2>2. Phase(loc) = 3
    BY <2>1, Phases
  <2>. QED
    BY <1>2, <1>4, <2>1, <2>2
<1>8. CASE ResumeUpgrade
  <2>1. /\ pc = "Paused" /\ EndSending(StateEvent("Ready"), TRUE)
        /\ UNCHANGED <<crVars, release, it>>
    BY <1>8 DEF ResumeUpgrade
  <2>2. loc.state = "Paused"
    BY <1>2, <2>1 DEF VzStates
  <2>3. Phase(loc) = 3
    BY <2>2 DEF PhaseInv, OldInv, Early
  <2>. QED
    BY <1>2, <1>4, <2>1, <2>3
<1>9. CASE PauseUpgrade
  <2>1. /\ pc = "Upgrading" /\ EndSending(ConditionEvent(loc, "UpgradePaused", 0), TRUE)
        /\ UNCHANGED <<crVars, release, it>>
    BY <1>9 DEF PauseUpgrade
  <2>2. loc.state = "Upgrading"
    BY <1>2, <2>1 DEF VzStates
  <2>3. Phase(loc) = 3
    BY <2>2 DEF PhaseInv, OldInv, Early
  <2>. QED
    BY <1>2, <1>3, <2>1, <2>3 DEF VzConditions
<1>10. CASE StartInstall
  <2>1. /\ pc = "Ready" /\ ~isInstalled(loc)
        /\ EndSending(ConditionEvent(loc, "InstallStarted", bom), TRUE)
        /\ UNCHANGED <<crVars, release, it>>
    BY <1>10 DEF StartInstall, ProcReady, setInstallingState
  <2>2. loc.state = "Ready"
    BY <1>2, <2>1 DEF VzStates
  <2>3. Phase(loc) = 1
    BY <2>1, <2>2 DEF Phase
  <2>. QED
    BY <1>2, <1>3, <2>1, <2>3, OrderTypes DEF VzConditions
(* Nothing reports Ready yet, but something is enabled.                     *)
<1>11. CASE AlreadyInstalled
  <2>1. pc = "Ready" /\ ~isInstalled(loc) /\ checkComponentReadyState
    BY <1>11 DEF AlreadyInstalled, ProcReady
  <2>2. loc.state = "Ready"
    BY <1>2, <2>1 DEF VzStates
  <2>3. Phase(loc) = 1
    BY <2>1, <2>2 DEF Phase
  <2>4. Untouched
    BY <2>1, <2>3 DEF PhaseInv, Read
  <2>5. loc.enabled \in Specs /\ bom \in 1..MaxVersion
    BY <2>1 DEF ReportInv, Global, TypeInv, TypeOK, ProcessType
  <2>6. PICK i \in DOMAIN registry : registry[i] \in loc.enabled
    BY <2>5 DEF SomethingEnabled, registry
  <2>7. registry[i] \in Known /\ registry[i] \in Comp
    BY OrderTypes
  <2>8. loc.comps[registry[i]].state = "Ready"
    BY <2>1, <2>6, <2>7 DEF checkComponentReadyState
  <2>. QED
    BY <2>4, <2>7, <2>8 DEF Untouched, Copies
<1>12. CASE ReconcileReady
  <2>1. /\ pc = "Ready" /\ isInstalled(loc) /\ UNCHANGED <<crVars, chan>>
        /\ pc' = "components"
        /\ it' = it \/ it' = newInstallTracker(loc'.gen)
        /\ loc' = [loc EXCEPT !.comps = Overwrite(@, Initialized)]
    BY <1>12 DEF ReconcileReady, ProcReady, EnterComponents, getInstallTracker,
                 busVars
  <2>2. Phase(loc) = 3
    BY <2>1, Phases
  <2>3. loc'.state = loc.state /\ loc'.conds = loc.conds
    BY <1>1, <2>1 DEF Resource
  <2>4. it'.state # "SetGlobalInstallStatus"
    BY <1>2, <2>1
  <2>5. /\ pc # "idle" /\ pc' \in {"components", "upgrade"}
        /\ UNCHANGED <<crVars, chan>>
    BY <2>1
  <2>. QED
    BY <2>2, <2>3, <2>4, <2>5, EnterPhases
<1>13. CASE ProcReconciling \/ ProcUpgrading
  <2>1. /\ pc \in {"Reconciling", "Upgrading"} /\ UNCHANGED <<crVars, chan, loc>>
        /\ pc' = "components"
        /\ it' = it \/ it' = newInstallTracker(loc.gen)
        /\ ret' = "Reconciling" => pc = "Reconciling"
        /\ pc = "Reconciling" => ret' = "Reconciling"
    BY <1>13 DEF ProcReconciling, ProcUpgrading, EnterComponents,
                 getInstallTracker, busVars
  <2>2. loc.state = pc
    BY <1>2, <2>1 DEF VzStates
  <2>3. pc = "Reconciling" => Phase(loc) = 3 \/ Phase(loc) = 2
    BY <2>2 DEF Phase
  <2>4. pc = "Upgrading" => Phase(loc) = 3
    BY <2>2 DEF PhaseInv, OldInv, Early
  <2>5. \/ Phase(loc) = 3
        \/ Phase(loc) = 2 /\ pc' = "components" /\ ret' = "Reconciling"
    BY <2>1, <2>3, <2>4
  <2>6. /\ pc # "idle" /\ pc' \in {"components", "upgrade"}
        /\ UNCHANGED <<crVars, chan>> /\ loc'.state = loc.state
        /\ loc'.conds = loc.conds
    BY <2>1
  <2>7. it'.state # "SetGlobalInstallStatus"
    BY <1>2, <2>1
  <2>. QED
    BY <2>5, <2>6, <2>7, EnterPhases
<1>14. CASE FinishReady \/ FinishInstall \/ FinishUpgrade
  <2>1. /\ pc = "components" /\ UNCHANGED <<crVars, release>>
        /\ it'.state # "SetGlobalInstallStatus"
    BY <1>2, <1>14 DEF FinishReady, FinishInstall, FinishUpgrade, Finished,
                       InTracker, NoInstallTracker
  <2>2. CASE \E r : EndQuietly(r)
    BY <2>1, <2>2, EndQuietlyPhases
  <2>3. CASE ~\E r : EndQuietly(r)
    <3>1. PICK t \in {"InstallComplete", "UpgradeComplete"} :
            /\ EndSending(ConditionEvent(loc, t, 0), FALSE)
            /\ t = "UpgradeComplete" => ret = "PostUpgrade"
      BY <1>14, <2>3
         DEF FinishReady, FinishInstall, FinishUpgrade, Finished, InstallCompleteEvent
    <3>2. Phase(loc) = 3 \/ (Phase(loc) = 2 /\ t = "InstallComplete")
      BY <1>2, <2>1, <3>1, Phases
    <3>. QED
      BY <1>3, <2>1, <3>1, <3>2 DEF VzConditions
  <2>. QED
    BY <2>2, <2>3
<1>15. CASE FinishPreUpgrade \/ SkipUpgrade
  <2>1. /\ pc = "components" /\ pc' \in {"components", "upgrade"}
        /\ UNCHANGED <<crVars, chan, loc>>
        /\ it' = newInstallTracker(0) \/ it' = newInstallTracker(loc.gen)
        /\ ret = "PreUpgrade"
    BY <1>15 DEF FinishPreUpgrade, SkipUpgrade, Finished, InTracker, EnterUpgrade,
                 NoInstallTracker, busVars
  <2>2. Phase(loc) = 3
    BY <1>2, <2>1
  <2>3. it'.state # "SetGlobalInstallStatus" /\ pc # "idle"
    BY <1>2, <2>1
  <2>. QED
    BY <2>1, <2>2, <2>3, EnterPhases
<1>. QED
  BY <1>5, <1>6, <1>7, <1>8, <1>9, <1>10, <1>11, <1>12, <1>13, <1>14, <1>15,
     StartPassPhases, InitializePhases DEF Reconcile

-------------------------------------------------------------------------------
(* The invariant and the theorem.                                           *)

LEMMA InitPhases ==
  ASSUME Init, Preinstalled = {}
  PROVE  PhaseInv
<1>1. /\ cache = vz /\ chan = <<>> /\ pc = "idle" /\ loc = NoResource
      /\ it = newInstallTracker(0)
      /\ release = [c \in Comp |-> NoRelease]
  BY DEF Init, IdlePass, NoInstallTracker
<1>2. /\ vz.state = "" /\ vz.comps = NoComps /\ ~isInstalled(vz)
  <2>1. PICK spec, enab : vz = NewResource(1, spec, enab)
    BY DEF Init
  <2>2. vz.state = "" /\ vz.comps = NoComps /\ vz.conds.has = {}
    BY <2>1, Zenon DEF NewResource, NoConditions
  <2>. QED
    BY <2>2 DEF isInstalled
<1>3. Phase(vz) = 0 /\ Early(vz)
  BY <1>2 DEF Phase, Early
<1>4. Phase(cache) = 0 /\ Phase(loc) = 0 /\ Early(cache) /\ Early(loc) /\ Read = 0
  BY <1>1, <1>3, Phases DEF Read
<1>5. OldInv
  BY <1>3, <1>4 DEF OldInv
<1>6. DOMAIN chan = {}
  BY <1>1
<1>7. PlaceInv
  BY <1>1 DEF PlaceInv, VzStates, newInstallTracker
<1>8. Untouched
  <2>1. \A c \in Comp : ~installed(c)
    <3>1. NoRelease.ver = 0
      BY DEF NoRelease
    <3>2. \A c \in Comp : release[c].ver = 0
      BY <1>1, <3>1
    <3>3. ~(0 > 0)
      OBVIOUS
    <3>. QED
      BY <3>2, <3>3 DEF installed
  <2>2. \A c \in Comp : Queued(c) = {}
    BY <1>6 DEF Queued
  <2>3. \A c \in Comp : \A d \in Copies(c) : d = NoDetails
    BY <1>1, <1>2, <2>2, Nothing DEF Copies
  <2>. QED
    BY <2>1, <2>3, Nothing DEF Untouched
<1>. QED
  BY <1>5, <1>6, <1>7, <1>8 DEF PhaseInv, QueueInv

LEMMA UnchangedPhases ==
  ASSUME PhaseInv, UNCHANGED vars
  PROVE  PhaseInv'
<1>1. /\ UNCHANGED <<vz, cache, chan, pc, loc, ret, release, it>>
  BY DEF vars
<1>2. OldInv' /\ QueueInv' /\ PlaceInv'
  BY <1>1 DEF PhaseInv, OldInv, QueueInv, PlaceInv, Follows, Before, Read, Phase,
              Early, isInstalled
<1>3. Read' = Read /\ (Untouched' <=> Untouched)
  BY <1>1 DEF Read, Untouched, Copies, Queued, installed
<1>. QED
  BY <1>2, <1>3 DEF PhaseInv

LEMMA PhaseInvariant ==
  ASSUME Preinstalled = {}, SomethingEnabled
  PROVE  Spec => [](TypeInv /\ ReportInv /\ PhaseInv)
<1>1. Init => PhaseInv
  BY InitPhases
<1>2. TypeInv /\ TypeInv' /\ ReportInv /\ PhaseInv /\ [Next]_vars => PhaseInv'
  BY UnchangedPhases, EnvironmentPhases, InstallStepPhases, UpgradeStepPhases,
     ReconcilePhases DEF Next
<1>. QED
  BY <1>1, <1>2, ReportInvariant, PTL DEF Spec

(* Once InstallComplete, always InstallComplete: no event that a pass       *)
(* computed from an older copy, or sent before an event that was lost, or   *)
(* that is merged after the operator was replaced, takes the condition out  *)
(* of the list again (updateStatus, UpdateEvent.merge).  The resource is a  *)
(* new one, and enables something in every bill of materials; without       *)
(* either, an old copy that is Ready can complete the installation while a  *)
(* later pass has begun it again.                                           *)
THEOREM InstallCompleteIsStickyCorrect ==
  ASSUME Preinstalled = {}, SomethingEnabled
  PROVE  Spec => InstallCompleteIsSticky
<1>1. TypeInv /\ PhaseInv /\ [Next]_vars => [isInstalled(vz) => isInstalled(vz)']_vars
  <2>. SUFFICES ASSUME TypeInv, PhaseInv, [Next]_vars, isInstalled(vz)
                PROVE  isInstalled(vz)'
    OBVIOUS
  <2>1. CASE ApplyEvent
    <3>. DEFINE e == Head(chan)
    <3>1. chan # <<>> /\ chan' = Tail(chan) /\ vz' = merge(vz, e)
      BY <2>1 DEF ApplyEvent
    <3>2. e = chan[1] /\ e \in Event /\ 1 \in DOMAIN chan
      BY <3>1, TailTypes
    <3>. HIDE DEF e
    <3>3. Phase(vz) <= Phase(vz)'
      BY <3>1, <3>2, MergePhases DEF PhaseInv, QueueInv
    <3>. QED
      BY <3>3, Phases, NextPhases
  <2>2. ASSUME NEW version, NEW enab, EditSpec(version, enab)
        PROVE  isInstalled(vz)'
    BY <2>2, ReportTypes DEF EditSpec, Resource, isInstalled
  <2>3. CASE vz' = vz
    BY <2>3 DEF isInstalled
  <2>. QED
    BY <2>1, <2>2, <2>3, WhoChangesResource
<1>2. Spec => [](TypeInv /\ ReportInv /\ PhaseInv)
  BY PhaseInvariant
<1>. QED
  BY <1>1, <1>2, PTL DEF Spec, InstallCompleteIsSticky
===============================================================================
