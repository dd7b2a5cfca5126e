---------------------------- MODULE VzReports_proofs ----------------------------
(***************************************************************************)
(* Proofs about what the status reports of the charts: a component that    *)
(* reports Ready is not ahead of its chart, and what InstallComplete and   *)
(* Ready say of a component that no spec can disable is in the cluster.    *)
(* They hold for any registry, any bounds and any environment: passes that *)
(* read old copies of the resource, lost events, crashes and replacements  *)
(* of the operator at any time.                                            *)
(***************************************************************************)
EXTENDS VzUpgrade_proofs

-------------------------------------------------------------------------------
(* The inductive invariant.                                                 *)

(* The components that every spec enables and every operator knows.         *)
Always ==
  {c \in Comp : /\ \A S \in Specs : c \in S
                /\ \A v \in 1..MaxVersion :
                     \E i \in DOMAIN Registry[v] : Registry[v][i] = c}

AllThere == \A x \in Always : installed(x)

(* The details of a component, wherever they are.                           *)
Queued(c) == {chan[i].comps[c] : i \in DOMAIN chan}

Copies(c) == {vz.comps[c], cache.comps[c], loc.comps[c]} \cup Queued(c)

(* No copy is ahead of the passes; one that reports Ready is of a chart     *)
(* that is no older, unless the chart was found or is gone.                 *)
Fine(c, d) ==
  /\ d.rg <= PassGen /\ d.lrg <= PassGen
  /\ d.state = "Ready" =>
       /\ c \notin Preinstalled =>
            d.lrg > 0 /\ (installed(c) => d.lrg <= release[c].gen)
       /\ c \in Always => installed(c)

(* The places of the machines after the call of Helm.                       *)
PastInstall == {"WaitReady", "PostInstall", "Complete"}
PastUpgrade == {"WaitReady", "PostUpgrade", "Done", "End"}

PastComponents == {"PostUpgrade", "WaitPostUpgradeDone", "RestartApps",
                   "UpgradeDone", "End"}

(* A machine is past the call of Helm only if the chart is from the         *)
(* generation of its tracker, or from a later one.                          *)
Charted(c) ==
  /\ it.comp[c] \in PastInstall /\ installed(c) => it.gen <= release[c].gen
  /\ ut.comp[c] \in PastUpgrade /\ installed(c) => ut.gen <= release[c].gen
  /\ ut.state \in PastComponents /\ c \in Known => ut.comp[c] = "End"

(* What is always enabled is never uninstalled, and what depends on it is   *)
(* installed after it.                                                      *)
Placed(c) ==
  /\ c \in Always =>
       /\ it.comp[c] # "Uninstall"
       /\ it.comp[c] \in PastInstall => installed(c)
       /\ ut.comp[c] \in PastUpgrade \ {"End"} => installed(c)
  /\ it.comp[c] = "Install" => \A d \in Deps[c] \cap Always : installed(d)

(* What this operator has begun to install has a status in every copy, so   *)
(* initComponentStatus does not invent one.                                 *)
Begun(c) == \/ installed(c)
            \/ it.comp[c] \notin {"Init", "End"}
            \/ ut.comp[c] \notin {"Init", "End"}

Entry(c) ==
  /\ cache.comps[c] # NoDetails => vz.comps[c] # NoDetails
  /\ loc.comps[c] # NoDetails => cache.comps[c] # NoDetails
  /\ Begun(c) => cache.comps[c] # NoDetails
  /\ Begun(c) /\ pc # "idle" => loc.comps[c] # NoDetails

Announced ==
  \/ isInstalled(vz) \/ isInstalled(cache) \/ isInstalled(loc)
  \/ \E i \in DOMAIN chan : isInstalled(chan[i])

(* A pass works on a resource the user has written, and what InstallComplete *)
(* announces is in the cluster.                                             *)
Global ==
  /\ cache.gen > 0 /\ vz.enabled \in Specs /\ cache.enabled \in Specs
  /\ pc # "idle" => loc.gen > 0 /\ loc.enabled \in Specs
  /\ Announced => AllThere

ReportInv ==
  /\ Global
  /\ \A c \in Comp : \A d \in Copies(c) : Fine(c, d)
  /\ \A c \in Comp : Charted(c) /\ Placed(c)
  /\ \A c \in Comp \ Preinstalled : Entry(c)

-------------------------------------------------------------------------------
(* What the proofs need of the definitions.                                 *)

LEMMA Nothing ==
  /\ NoDetails.state = "Absent" /\ NoDetails.rg = 0 /\ NoDetails.lrg = 0
  /\ \A c \in Comp : NoComps[c] = NoDetails
  /\ NoResource.gen = 0 /\ NoResource.comps = NoComps
  /\ ~isInstalled(NoResource)
  /\ NoEvent.comps = NoComps /\ ~isInstalled(NoEvent) /\ NoEvent.state = ""
BY DEF NoDetails, NoComps, NoResource, NewResource, NoEvent, NoConditions,
       isInstalled

LEMMA ReportTypes ==
  ASSUME TypeInv
  PROVE  /\ vz \in Resource /\ cache \in Resource /\ loc \in Resource
         /\ chan \in Seq(Event)
         /\ \A c \in Comp : \A d \in Copies(c) :
              d \in Details /\ d.rg \in Nat /\ d.lrg \in Nat
         /\ \A c \in Comp : release[c].gen \in Nat /\ release[c].ver \in Nat
         /\ Always \subseteq Known
<1>1. /\ vz \in Resource /\ cache \in Resource /\ loc \in Resource
      /\ chan \in Seq(Event) /\ release \in [Comp -> Release]
      /\ bom \in 1..MaxVersion
  BY DEF TypeInv, TypeOK, CrType, PassType, BusType, ChartType, ProcessType
<1>2. \A i \in DOMAIN chan : chan[i] \in Event
  BY <1>1
<1>3. ASSUME NEW c \in Comp, NEW d \in Copies(c)
      PROVE  d \in Details /\ d.rg \in Nat /\ d.lrg \in Nat
  <2>1. d \in Details
    BY <1>1, <1>2, <1>3 DEF Copies, Queued, Resource, Event
  <2>. QED
    BY <2>1 DEF Details
<1>4. Always \subseteq Known
  BY <1>1 DEF Always, Known, registry
<1>. QED
  BY <1>1, <1>3, <1>4 DEF Release

(* A pass works on a resource that enables what is always enabled.          *)
LEMMA AlwaysEnabled ==
  ASSUME TypeInv, ReportInv, pc # "idle", NEW x \in Always
  PROVE  x \in Comp /\ x \in Known /\ x \in loc.enabled
BY ReportTypes DEF Always, ReportInv, Global

LEMMA NothingFine ==
  ASSUME TypeInv, NEW c
  PROVE  Fine(c, NoDetails)
<1>1. NoDetails.state = "Absent" /\ NoDetails.rg = 0 /\ NoDetails.lrg = 0
  BY Nothing
<1>2. PassGen \in Nat
  BY OrderTypes
<1>. QED
  BY <1>1, <1>2 DEF Fine

(* When the pass finds every enabled component of its copy Ready, the ones  *)
(* that are always enabled are in the cluster.                              *)
LEMMA ReadyThere ==
  ASSUME TypeInv, ReportInv, pc # "idle", checkComponentReadyState
  PROVE  AllThere
<1>. SUFFICES ASSUME NEW x \in Always
              PROVE  installed(x)
  BY DEF AllThere
<1>1. x \in Comp /\ loc.comps[x].state = "Ready"
  BY AlwaysEnabled DEF checkComponentReadyState
<1>. QED
  BY <1>1 DEF ReportInv, Copies, Fine

-------------------------------------------------------------------------------
(* The queue.                                                               *)

(* Every event in the queue of the next state was there before or tells     *)
(* nothing but the truth.                                                   *)
EventsFine ==
  \A i \in DOMAIN chan' :
    /\ \A c \in Comp : \/ chan'[i].comps[c] \in Queued(c)
                       \/ Fine(c, chan'[i].comps[c])
    /\ isInstalled(chan'[i]) => Announced \/ AllThere

LEMMA DisownedQueue ==
  ASSUME TypeInv
  PROVE  /\ Disowned \in Seq(Event) /\ DOMAIN Disowned = DOMAIN chan
         /\ \A i \in DOMAIN chan : /\ Disowned[i].comps = chan[i].comps
                                   /\ Disowned[i].conds = chan[i].conds
                                   /\ Disowned[i].state = chan[i].state
<1>1. chan \in Seq(Event)
  BY ReportTypes
<1>2. ASSUME NEW i \in DOMAIN chan
      PROVE  /\ Disowned[i].comps = chan[i].comps
             /\ Disowned[i].conds = chan[i].conds
             /\ Disowned[i].state = chan[i].state
  <2>1. chan[i] \in Event
    BY <1>1
  <2>. QED
    BY <2>1 DEF Disowned, Event
<1>. QED
  BY <1>1, <1>2, DisownedType DEF Disowned

LEMMA AliasedQueue ==
  ASSUME TypeInv, NEW ds \in [Comp -> Details]
  PROVE  /\ Aliased(ds) \in Seq(Event) /\ DOMAIN Aliased(ds) = DOMAIN chan
         /\ \A i \in DOMAIN chan :
              /\ \A c \in Comp : Aliased(ds)[i].comps[c] \in {chan[i].comps[c], ds[c]}
              /\ Aliased(ds)[i].conds = chan[i].conds
              /\ Aliased(ds)[i].state = chan[i].state
<1>1. chan \in Seq(Event)
  BY ReportTypes
<1>2. ASSUME NEW i \in DOMAIN chan
      PROVE  /\ \A c \in Comp : Aliased(ds)[i].comps[c] \in {chan[i].comps[c], ds[c]}
             /\ Aliased(ds)[i].conds = chan[i].conds
             /\ Aliased(ds)[i].state = chan[i].state
  <2>1. chan[i] \in Event
    BY <1>1
  <2>. QED
    BY <2>1 DEF Aliased, Event
<1>. QED
  BY <1>1, <1>2, AliasedType DEF Aliased, TypeInv

(* The last event of a queue is the one just sent.                          *)
LEMMA AppendedQueue ==
  ASSUME NEW q \in Seq(Event), NEW e \in Event
  PROVE  \A i \in DOMAIN Append(q, e) :
           \/ i \in DOMAIN q /\ Append(q, e)[i] = q[i]
           \/ Append(q, e)[i] = e
<1>1. DOMAIN Append(q, e) = 1..(Len(q) + 1) /\ DOMAIN q = 1..Len(q)
      /\ Len(q) \in Nat
  OBVIOUS
<1>2. ASSUME NEW i \in 1..(Len(q) + 1), i # Len(q) + 1
      PROVE  i \in DOMAIN q /\ Append(q, e)[i] = q[i]
  BY <1>1, <1>2
<1>3. Append(q, e)[Len(q) + 1] = e
  OBVIOUS
<1>. QED
  BY <1>1, <1>2, <1>3

LEMMA DisownedFine ==
  ASSUME TypeInv, chan' = Disowned
  PROVE  EventsFine
BY DisownedQueue DEF EventsFine, Queued, Announced, isInstalled

LEMMA SameFine ==
  ASSUME TypeInv, chan' = chan
  PROVE  EventsFine
BY DEF EventsFine, Queued, Announced, isInstalled

LEMMA SentFine ==
  ASSUME TypeInv, NEW q \in {chan, Disowned}, NEW e \in Event,
         chan' = Append(q, e), \A c \in Comp : Fine(c, e.comps[c]),
         isInstalled(e) => Announced \/ AllThere
  PROVE  EventsFine
<1>1. q \in Seq(Event) /\ DOMAIN q = DOMAIN chan
      /\ \A i \in DOMAIN chan : q[i].comps = chan[i].comps /\ q[i].conds = chan[i].conds
  BY DisownedQueue, ReportTypes
<1>2. \A i \in DOMAIN chan' : (i \in DOMAIN q /\ chan'[i] = q[i]) \/ chan'[i] = e
  BY <1>1, AppendedQueue
<1>3. ASSUME NEW i \in DOMAIN chan', i \in DOMAIN q, chan'[i] = q[i]
      PROVE  /\ \A c \in Comp : chan'[i].comps[c] \in Queued(c)
             /\ isInstalled(chan'[i]) => Announced
  BY <1>1, <1>3 DEF Queued, Announced, isInstalled
<1>. QED
  BY <1>2, <1>3 DEF EventsFine

(* An event without details.                                                *)
LEMMA AnnouncedFine ==
  ASSUME TypeInv, NEW e \in Event, NEW r, EndSending(e, r), e.comps = NoComps,
         isInstalled(e) => Announced \/ AllThere
  PROVE  EventsFine
<1>1. \A c \in Comp : Fine(c, e.comps[c])
  BY Nothing, NothingFine
<1>. QED
  BY <1>1, SentFine DEF EndSending

LEMMA WrittenFine ==
  ASSUME TypeInv, NEW ds \in [Comp -> Details], SendDetails(ds),
         \A c \in Comp : Fine(c, ds[c])
  PROVE  EventsFine
<1>. DEFINE e == [NoEvent EXCEPT !.comps = ds, !.own = TRUE]
<1>1. e \in Event /\ e.comps = ds /\ ~isInstalled(e)
  BY NoEventType, Nothing DEF Event, NoEvent, isInstalled
<1>2. chan' = Append(Aliased(ds), e)
  BY DEF SendDetails
<1>. HIDE DEF e
<1>3. \A i \in DOMAIN chan' : \/ i \in DOMAIN chan /\ chan'[i] = Aliased(ds)[i]
                              \/ chan'[i] = e
  BY <1>1, <1>2, AliasedQueue, AppendedQueue
<1>4. ASSUME NEW i \in DOMAIN chan
      PROVE  /\ \A c \in Comp : Aliased(ds)[i].comps[c] \in Queued(c) \cup {ds[c]}
             /\ isInstalled(Aliased(ds)[i]) => Announced
  BY AliasedQueue DEF Queued, Announced, isInstalled
<1>. QED
  BY <1>1, <1>3, <1>4 DEF EventsFine

-------------------------------------------------------------------------------
(* The ways a step keeps the invariant.                                     *)

SameCharts ==
  \A c \in Comp : release'[c].ver = release[c].ver /\ release'[c].gen = release[c].gen

LEMMA ChartsStay ==
  ASSUME SameCharts
  PROVE  /\ \A c \in Comp : installed(c)' <=> installed(c)
         /\ AllThere' <=> AllThere
BY DEF SameCharts, installed, AllThere, Always

LEMMA NextTypes ==
  ASSUME TypeInv', NEW c \in Comp, NEW d \in Copies(c)'
  PROVE  d.rg \in Nat /\ d.lrg \in Nat
<1>1. /\ vz' \in Resource /\ cache' \in Resource /\ loc' \in Resource
      /\ chan' \in Seq(Event)
  BY DEF TypeInv, TypeOK, CrType, PassType, BusType
<1>2. \A i \in DOMAIN chan' : chan'[i] \in Event
  BY <1>1
<1>3. d \in Details
  BY <1>1, <1>2 DEF Copies, Queued, Resource, Event
<1>. QED
  BY <1>3 DEF Details

(* Copies stay fine while the charts stay what they are.                    *)
LEMMA CopiesStay ==
  ASSUME TypeInv, TypeInv', ReportInv, SameCharts, PassGen <= PassGen',
         NEW c \in Comp,
         \A d \in Copies(c)' : d \in Copies(c) \/ Fine(c, d)
  PROVE  \A d \in Copies(c)' : Fine(c, d)'
<1>. SUFFICES ASSUME NEW d \in Copies(c)'
              PROVE  Fine(c, d)'
  OBVIOUS
<1>1. Fine(c, d)
  BY DEF ReportInv
<1>2. d.rg \in Nat /\ d.lrg \in Nat /\ PassGen \in Nat /\ PassGen' \in Nat
  <2>1. PassGen' \in Nat
    BY DEF PassGen, TypeInv, TypeOK, CrType, PassType, Resource
  <2>. QED
    BY <2>1, NextTypes, OrderTypes
<1>3. d.rg <= PassGen' /\ d.lrg <= PassGen'
  BY <1>1, <1>2 DEF Fine
<1>4. release'[c].gen = release[c].gen /\ (installed(c)' <=> installed(c))
  BY ChartsStay DEF SameCharts
<1>. QED
  BY <1>1, <1>3, <1>4 DEF Fine, Always

(* The moves of the machines that do not call Helm.                         *)
InstallMoves(c) ==
  /\ it'.comp[c] \in PastInstall => it.comp[c] \in PastInstall /\ it'.gen = it.gen
  /\ it'.comp[c] = "Uninstall" => it.comp[c] = "Uninstall" \/ c \notin Always
  /\ it'.comp[c] = "Install" => \/ it.comp[c] = "Install"
                                \/ \A d \in Deps[c] \cap Always : installed(d)
  /\ it'.comp[c] \notin {"Init", "End"} =>
       it.comp[c] \notin {"Init", "End"} \/ loc.comps[c] # NoDetails

UpgradeMoves(c) ==
  /\ ut'.comp[c] \in PastUpgrade =>
       \/ ut.comp[c] \in PastUpgrade /\ ut'.gen = ut.gen
       \/ ~installed(c)
  /\ ut'.comp[c] \in PastUpgrade \ {"End"} => ut.comp[c] \in PastUpgrade \ {"End"}
  /\ ut'.comp[c] \notin {"Init", "End"} =>
       ut.comp[c] \notin {"Init", "End"} \/ installed(c)
  /\ ut'.state \in PastComponents /\ c \in Known => ut'.comp[c] = "End"

LEMMA MachinesStay ==
  ASSUME ReportInv, SameCharts, bom' = bom, NEW c \in Comp,
         InstallMoves(c), UpgradeMoves(c)
  PROVE  Charted(c)' /\ Placed(c)'
<1>1. Charted(c) /\ Placed(c)
  BY DEF ReportInv
<1>2. /\ \A d \in Comp : installed(d)' <=> installed(d)
      /\ release'[c].gen = release[c].gen
      /\ Known' = Known
  BY ChartsStay DEF SameCharts, Known, registry
<1>3. Charted(c)'
  BY <1>1, <1>2 DEF Charted, InstallMoves, UpgradeMoves
<1>4. Always' = Always /\ \A d \in Always : installed(d)' <=> installed(d)
  BY <1>2 DEF Always
<1>5. (c \in Always =>
         /\ it.comp[c] # "Uninstall"
         /\ it.comp[c] \in PastInstall => installed(c)
         /\ ut.comp[c] \in PastUpgrade \ {"End"} => installed(c))'
  BY <1>1, <1>2, <1>4 DEF Placed, InstallMoves, UpgradeMoves
<1>6. it'.comp[c] = "Install" => \A d \in Deps[c] \cap Always : installed(d)'
  BY <1>1, <1>4 DEF Placed, InstallMoves
<1>7. Placed(c)'
  BY <1>4, <1>5, <1>6 DEF Placed
<1>. QED
  BY <1>3, <1>7

LEMMA InstallStays ==
  ASSUME ReportInv, UNCHANGED it, NEW c \in Comp
  PROVE  InstallMoves(c)
BY DEF InstallMoves

LEMMA UpgradeStays ==
  ASSUME ReportInv, UNCHANGED ut, NEW c \in Comp
  PROVE  UpgradeMoves(c)
BY DEF UpgradeMoves, ReportInv, Charted

LEMMA NewTrackersMove ==
  ASSUME NEW c \in Comp
  PROVE  /\ \A g \in Nat : it' = newInstallTracker(g) => InstallMoves(c)
         /\ \A g \in Nat : ut' = newUpgradeTracker(g) => UpgradeMoves(c)
BY DEF newInstallTracker, newUpgradeTracker, InstallMoves, UpgradeMoves,
       PastInstall, PastUpgrade, PastComponents

(* A step of the environment.                                               *)
LEMMA AroundReports ==
  ASSUME TypeInv, TypeInv', OrderInv, ReportInv,
         UNCHANGED <<pc, loc, bom, trackerVars>>, SameCharts,
         PassGen <= PassGen', cache'.gen >= cache.gen, cache' \in {cache, vz},
         vz'.enabled \in Specs,
         \A c \in Comp : vz.comps[c] # NoDetails => vz'.comps[c] # NoDetails,
         \A c \in Comp : vz'.comps[c] \in Copies(c),
         isInstalled(vz') => Announced, EventsFine
  PROVE  ReportInv'
<1>. USE ChartsStay, ReportTypes DEF trackerVars
<1>1. Global'
  <2>1. cache'.gen > 0
    BY OrderTypes DEF ReportInv, Global, Resource
  <2>2. Announced' => Announced \/ AllThere
    BY DEF Announced, EventsFine
  <2>. QED
    BY <2>1, <2>2 DEF ReportInv, Global
<1>2. ASSUME NEW c \in Comp
      PROVE  \A d \in Copies(c)' : Fine(c, d)'
  <2>1. \A d \in Copies(c)' : d \in Copies(c) \/ Fine(c, d)
    BY DEF Copies, Queued, EventsFine
  <2>. QED
    BY <2>1, CopiesStay
<1>3. ASSUME NEW c \in Comp
      PROVE  Charted(c)' /\ Placed(c)'
  BY InstallStays, UpgradeStays, MachinesStay
<1>4. ASSUME NEW c \in Comp \ Preinstalled
      PROVE  Entry(c)'
  BY DEF ReportInv, Entry, Begun
<1>. QED
  BY <1>1, <1>2, <1>3, <1>4 DEF ReportInv

(* A step of a pass that does not touch the charts.                         *)
LEMMA PassReports ==
  ASSUME TypeInv, TypeInv', OrderInv, ReportInv, pc # "idle",
         UNCHANGED <<crVars, bom, release>>, EventsFine,
         \A c \in Comp : InstallMoves(c) /\ UpgradeMoves(c),
         \/ pc' = "idle" /\ loc' = NoResource
         \/ /\ pc' # "idle" /\ loc'.gen = loc.gen /\ loc'.enabled = loc.enabled
            /\ loc'.conds = loc.conds
            /\ \A c \in Comp :
                 \/ loc'.comps[c] = loc.comps[c]
                 \/ /\ loc.comps[c] # NoDetails \/ c \in Preinstalled
                    /\ loc'.comps[c] # NoDetails /\ Fine(c, loc'.comps[c])
  PROVE  ReportInv'
<1>. USE DEF crVars
<1>1. SameCharts
  BY DEF SameCharts
<1>2. PassGen <= PassGen'
  <2>1. loc.gen <= cache.gen /\ PassGen = loc.gen
    BY DEF OrderInv, GenInv, PassGen
  <2>. QED
    BY <2>1, OrderTypes DEF PassGen
<1>3. Global'
  <2>1. Announced' => Announced \/ AllThere
    BY Nothing DEF Announced, EventsFine, isInstalled
  <2>. QED
    BY <1>1, <2>1, ChartsStay DEF ReportInv, Global
<1>4. ASSUME NEW c \in Comp
      PROVE  \A d \in Copies(c)' : Fine(c, d)'
  <2>1. loc'.comps[c] \in Copies(c) \cup {NoDetails} \/ Fine(c, loc'.comps[c])
    BY Nothing DEF Copies
  <2>2. \A d \in Copies(c)' : d \in Copies(c) \/ Fine(c, d)
    BY <2>1, NothingFine DEF Copies, Queued, EventsFine
  <2>. QED
    BY <1>1, <1>2, <2>2, CopiesStay
<1>5. ASSUME NEW c \in Comp
      PROVE  Charted(c)' /\ Placed(c)'
  BY <1>1, MachinesStay
<1>6. ASSUME NEW c \in Comp \ Preinstalled
      PROVE  Entry(c)'
  <2>1. Entry(c) /\ InstallMoves(c) /\ UpgradeMoves(c)
    BY DEF ReportInv
  <2>2. Begun(c)' => loc.comps[c] # NoDetails
    BY <1>1, <2>1, ChartsStay DEF Begun, Entry, InstallMoves, UpgradeMoves
  <2>. QED
    BY <2>1, <2>2, Nothing DEF Entry
<1>. QED
  BY <1>3, <1>4, <1>5, <1>6 DEF ReportInv

(* The pass ends.                                                           *)
LEMMA EndQuietlyReports ==
  ASSUME TypeInv, TypeInv', OrderInv, ReportInv, pc # "idle",
         UNCHANGED <<crVars, bom, release>>, NEW r, EndQuietly(r),
         \A c \in Comp : InstallMoves(c) /\ UpgradeMoves(c)
  PROVE  ReportInv'
BY DisownedFine, PassReports DEF EndQuietly, EndPass

LEMMA EndSendingReports ==
  ASSUME TypeInv, TypeInv', OrderInv, ReportInv, pc # "idle",
         UNCHANGED <<crVars, bom, release>>, NEW e \in Event, NEW r,
         EndSending(e, r), e.comps = NoComps,
         isInstalled(e) => Announced \/ AllThere,
         \A c \in Comp : InstallMoves(c) /\ UpgradeMoves(c)
  PROVE  ReportInv'
BY AnnouncedFine, PassReports DEF EndSending, EndPass

(* The details of the component of the loop are written.                    *)
LEMMA WriteReports ==
  ASSUME TypeInv, TypeInv', OrderInv, ReportInv, pc # "idle",
         UNCHANGED <<crVars, bom, release, pc>>, comp \in Comp,
         NEW u \in Details, SendDetails(OnlyDetails(u)),
         u # NoDetails, Fine(comp, u),
         loc.comps[comp] # NoDetails \/ comp \in Preinstalled,
         \A c \in Comp : InstallMoves(c) /\ UpgradeMoves(c)
  PROVE  ReportInv'
<1>. DEFINE ds == OnlyDetails(u)
<1>1. /\ ds \in [Comp -> Details] /\ ds[comp] = u
      /\ \A c \in Comp \ {comp} : ds[c] = NoDetails
  BY OnlyDetailsType DEF OnlyDetails, NoComps
<1>2. loc' = [loc EXCEPT !.comps = Overwrite(@, ds)] /\ SendDetails(ds)
  BY DEF SendDetails
<1>. HIDE DEF ds
<1>3. \A c \in Comp : Fine(c, ds[c])
  BY <1>1, NothingFine
<1>4. EventsFine
  BY <1>1, <1>2, <1>3, WrittenFine
<1>5. /\ loc'.gen = loc.gen /\ loc'.enabled = loc.enabled /\ loc'.conds = loc.conds
      /\ \A c \in Comp : loc'.comps[c] = IF c = comp THEN u ELSE loc.comps[c]
  BY <1>1, <1>2, ReportTypes DEF Overwrite, Resource
<1>. QED
  BY <1>4, <1>5, PassReports

(* Helm installs the component of the loop.                                 *)
LEMMA InstallReports ==
  ASSUME TypeInv, TypeInv', OrderInv, ReportInv, NEW k \in Comp, k = comp,
         pc \in {"components", "upgrade"}, HelmInstall,
         UNCHANGED <<crVars, bom, chan, pc, loc>>,
         loc.comps[k] # NoDetails \/ k \in Preinstalled,
         it'.gen = it.gen, ut'.gen = ut.gen, ut'.state = ut.state,
         ut'.state \notin PastComponents \/ ut' = ut,
         \A c \in Comp \ {k} : it'.comp[c] = it.comp[c] /\ ut'.comp[c] = ut.comp[c],
         it'.comp[k] \notin {"Uninstall", "Install"} \/ it' = it,
         it.comp[k] # "Uninstall"
  PROVE  ReportInv'
<1>. USE DEF crVars
<1>1. /\ release'[k].gen = loc.gen /\ release'[k].ver = bom
      /\ \A c \in Comp \ {k} : release'[c] = release[c]
      /\ bom \in Nat \ {0} /\ loc.gen \in Nat /\ PassGen = loc.gen /\ PassGen' = loc.gen
  BY OrderTypes DEF HelmInstall, PassGen
<1>2. installed(k)' /\ \A c \in Comp \ {k} : installed(c)' <=> installed(c)
  <2>1. installed(k)'
    BY <1>1 DEF installed
  <2>. QED
    BY <1>1, <2>1 DEF installed
<1>3. Known' = Known /\ \A c \in Comp : Copies(c)' = Copies(c)
  BY DEF Known, registry, Copies, Queued
<1>4. it.gen \in Nat /\ ut.gen \in Nat /\ it.gen <= loc.gen /\ ut.gen <= loc.gen
  BY <1>1, OrderTypes, FreshTrackers DEF OrderInv, GenInv
<1>5. Global'
  <2>1. AllThere => AllThere'
    BY <1>2 DEF AllThere, Always
  <2>2. Announced' => Announced
    BY DEF Announced, isInstalled
  <2>. QED
    BY <2>1, <2>2 DEF ReportInv, Global
<1>6. ASSUME NEW c \in Comp, NEW d \in Copies(c)'
      PROVE  Fine(c, d)'
  <2>1. Fine(c, d)
    BY <1>3, <1>6 DEF ReportInv
  <2>2. CASE c = k
    <3>1. d.lrg <= loc.gen /\ d.rg <= loc.gen
      BY <1>1, <2>1 DEF Fine
    <3>2. d.lrg <= release'[c].gen /\ installed(c)'
      BY <1>1, <1>2, <2>2, <3>1
    <3>. QED
      BY <1>1, <2>1, <3>1, <3>2 DEF Fine, Always
  <2>3. CASE c # k
    BY <1>1, <1>2, <2>1, <2>3 DEF Fine, Always
  <2>. QED
    BY <2>2, <2>3
<1>7. ASSUME NEW c \in Comp
      PROVE  Charted(c)' /\ Placed(c)'
  <2>1. Charted(c) /\ Placed(c)
    BY DEF ReportInv
  <2>2. \A d \in Always : installed(d) => installed(d)'
    BY <1>2 DEF Always
  <2>3. Charted(c)'
    BY <1>1, <1>2, <1>3, <1>4, <2>1 DEF Charted
  <2>4. Placed(c)'
    <3>1. Always' = Always
      BY DEF Always
    <3>2. it'.comp[c] = "Install" => it.comp[c] = "Install"
      OBVIOUS
    <3>3. (it.comp[c] = "Install" => \A d \in Deps[c] \cap Always : installed(d))'
      BY <2>1, <2>2, <3>1, <3>2 DEF Placed
    <3>4. CASE c = k
      BY <1>2, <3>1, <3>3, <3>4 DEF Placed
    <3>5. CASE c # k
      BY <1>2, <2>1, <3>1, <3>3, <3>5 DEF Placed
    <3>. QED
      BY <3>4, <3>5
  <2>. QED
    BY <2>3, <2>4
<1>8. ASSUME NEW c \in Comp \ Preinstalled
      PROVE  Entry(c)'
  <2>1. Entry(c)
    BY DEF ReportInv
  <2>. QED
    BY <1>2, <2>1 DEF Entry, Begun
<1>. QED
  BY <1>5, <1>6, <1>7, <1>8 DEF ReportInv

(* reconcileComponents is called.                                           *)
LEMMA EnterReports ==
  ASSUME TypeInv, TypeInv', OrderInv, ReportInv, pc # "idle",
         UNCHANGED <<crVars, bom, release, chan>>, NEW caller,
         EnterComponents(loc, caller),
         \A c \in Comp : UpgradeMoves(c)
  PROVE  ReportInv'
<1>1. /\ loc' = loc /\ pc' = "components"
      /\ it' = it \/ it' = newInstallTracker(loc.gen)
  BY DEF EnterComponents, getInstallTracker
<1>2. \A c \in Comp : InstallMoves(c)
  BY <1>1, InstallStays, NewTrackersMove, OrderTypes
<1>. QED
  BY <1>1, <1>2, SameFine, PassReports

-------------------------------------------------------------------------------
(* Around the reconcile loop.                                               *)

LEMMA ApplyReports ==
  ASSUME TypeInv, TypeInv', OrderInv, ReportInv, ApplyEvent
  PROVE  ReportInv'
<1>. DEFINE e == chan[1]
<1>1. /\ 1 \in DOMAIN chan /\ Head(chan) = e /\ e \in Event
      /\ \A i \in DOMAIN chan' : i + 1 \in DOMAIN chan /\ chan'[i] = chan[i + 1]
  BY ReportTypes DEF ApplyEvent
<1>2. /\ vz' = merge(vz, e)
      /\ UNCHANGED <<cache, release, pc, loc, bom, trackerVars>>
  BY <1>1 DEF ApplyEvent, chartVars, passVars, processVars
<1>3. /\ vz'.enabled = vz.enabled
      /\ vz'.conds \in {vz.conds, e.conds}
      /\ \A c \in Comp : vz'.comps[c] = IF e.comps[c] = NoDetails
                                        THEN vz.comps[c] ELSE e.comps[c]
  <2>. HIDE DEF e
  <2>. QED
    BY <1>2, ReportTypes DEF merge, Resource
<1>4. \A c \in Comp : vz'.comps[c] \in Copies(c)
  BY <1>1, <1>3 DEF Copies, Queued
<1>5. isInstalled(vz') => Announced
  BY <1>1, <1>3 DEF Announced, isInstalled
<1>6. EventsFine
  BY <1>1 DEF EventsFine, Queued, Announced, isInstalled
<1>7. SameCharts /\ PassGen <= PassGen' /\ cache'.gen >= cache.gen
  BY <1>2, OrderTypes DEF SameCharts, PassGen
<1>8. vz'.enabled \in Specs
  BY <1>3 DEF ReportInv, Global
<1>. QED
  BY <1>2, <1>3, <1>4, <1>5, <1>6, <1>7, <1>8, AroundReports

LEMMA StartProcessReports ==
  ASSUME TypeInv, TypeInv', OrderInv, ReportInv, StartProcess
  PROVE  ReportInv'
<1>1. /\ cache' = vz /\ chan' = <<>> /\ pc' = "idle" /\ loc' = NoResource
      /\ it' = newInstallTracker(0) /\ ut' = newUpgradeTracker(0)
      /\ UNCHANGED <<vz, release>>
  BY DEF StartProcess, NoInstallTracker, NoUpgradeTracker
<1>2. DOMAIN chan' = {}
  BY <1>1
<1>3. SameCharts
  BY <1>1 DEF SameCharts
<1>4. PassGen <= PassGen' /\ cache.gen <= vz.gen
  BY <1>1, OrderTypes DEF OrderInv, GenInv, PassGen
<1>5. Global'
  <2>1. Announced' => Announced
    BY <1>1, <1>2, Nothing DEF Announced, isInstalled
  <2>2. vz.gen > 0
    BY <1>4, OrderTypes DEF ReportInv, Global
  <2>. QED
    BY <1>1, <1>3, <2>1, <2>2, ChartsStay DEF ReportInv, Global
<1>6. ASSUME NEW c \in Comp
      PROVE  \A d \in Copies(c)' : Fine(c, d)'
  <2>1. \A d \in Copies(c)' : d \in Copies(c) \/ Fine(c, d)
    BY <1>1, <1>2, Nothing, NothingFine DEF Copies, Queued
  <2>. QED
    BY <1>3, <1>4, <2>1, CopiesStay
<1>7. ASSUME NEW c \in Comp
      PROVE  /\ Charted(c)' /\ Placed(c)'
             /\ it'.comp[c] = "Init" /\ ut'.comp[c] = "Init"
  BY <1>1 DEF newInstallTracker, newUpgradeTracker, Charted, Placed, PastInstall,
              PastUpgrade, PastComponents
<1>8. ASSUME NEW c \in Comp \ Preinstalled
      PROVE  Entry(c)'
  <2>1. Entry(c) /\ loc'.comps[c] = NoDetails
    BY <1>1, Nothing DEF ReportInv
  <2>. QED
    BY <1>1, <1>3, <1>7, <2>1, ChartsStay DEF Entry, Begun
<1>. QED
  BY <1>5, <1>6, <1>7, <1>8 DEF ReportInv

LEMMA EnvironmentReports ==
  ASSUME TypeInv, TypeInv', OrderInv, ReportInv, Environment
  PROVE  ReportInv'
<1>. USE DEF crVars, processVars, chartVars, passVars
<1>1. PassGen \in Nat /\ cache.gen \in Nat /\ vz.gen \in Nat
  BY OrderTypes
<1>2. \A c \in Comp : vz.comps[c] \in Copies(c) /\ cache.comps[c] \in Copies(c)
  BY DEF Copies
<1>3. vz.enabled \in Specs /\ (isInstalled(vz) => Announced)
  BY DEF ReportInv, Global, Announced
(* A step that changes neither the resource nor its copies.                 *)
<1>4. ASSUME UNCHANGED <<vz, cache, pc, loc, bom, trackerVars>>, SameCharts, EventsFine
      PROVE  ReportInv'
  <2>1. PassGen <= PassGen' /\ cache'.gen >= cache.gen
    BY <1>1, <1>4 DEF PassGen
  <2>. QED
    BY <1>2, <1>3, <1>4, <2>1, AroundReports
<1>5. CASE DropEvent
  <2>1. \A i \in DOMAIN chan' : i + 1 \in DOMAIN chan /\ chan'[i] = chan[i + 1]
    BY <1>5, ReportTypes DEF DropEvent
  <2>2. EventsFine
    BY <2>1 DEF EventsFine, Queued, Announced, isInstalled
  <2>. QED
    BY <1>4, <1>5, <2>2 DEF DropEvent, SameCharts
<1>6. CASE SyncCache
  <2>1. cache.gen <= vz.gen
    BY DEF OrderInv, GenInv
  <2>2. PassGen <= PassGen' /\ cache'.gen >= cache.gen
    BY <1>1, <1>6, <2>1 DEF SyncCache, PassGen
  <2>. QED
    BY <1>2, <1>3, <1>6, <2>2, SameFine, AroundReports
       DEF SyncCache, busVars, SameCharts
<1>7. CASE WatchedEvent
  BY <1>4, <1>7, SameFine DEF WatchedEvent, busVars, SameCharts
<1>8. ASSUME NEW version, NEW enab \in Specs, EditSpec(version, enab)
      PROVE  ReportInv'
  <2>1. /\ vz'.comps = vz.comps /\ vz'.conds = vz.conds /\ vz'.enabled = enab
        /\ UNCHANGED <<cache, chan, pc, loc, bom, trackerVars, release>>
    BY <1>8, ReportTypes DEF EditSpec, Resource, busVars
  <2>2. PassGen <= PassGen' /\ cache'.gen >= cache.gen /\ SameCharts
    BY <1>1, <2>1 DEF PassGen, SameCharts
  <2>3. isInstalled(vz') => Announced
    BY <1>3, <2>1 DEF isInstalled
  <2>. QED
    BY <1>2, <2>1, <2>2, <2>3, SameFine, AroundReports
<1>9. ASSUME NEW c \in Comp, EditOverride(c)
      PROVE  ReportInv'
  <2>1. SameCharts
    <3>1. release \in [Comp -> Release]
      BY OrderTypes
    <3>. QED
      BY <1>9, <3>1 DEF EditOverride, SameCharts, Release
  <2>. QED
    BY <1>4, <1>9, <2>1, SameFine DEF EditOverride, busVars
<1>10. ASSUME NEW c \in Comp, ReconcileOverride(c)
       PROVE  ReportInv'
  <2>. DEFINE u == [cache.comps[c] EXCEPT !.rg = 1]
              e == CompEvent(c, u)
  <2>1. Fine(c, cache.comps[c]) /\ cache.comps[c] \in Details
    BY <1>2, ReportTypes DEF ReportInv
  <2>2. PassGen >= 1
    BY <1>1, OrderTypes DEF ReportInv, Global, PassGen
  <2>3. u \in Details /\ Fine(c, u)
    BY <2>1, <2>2 DEF Details, Fine
  <2>. HIDE DEF u
  <2>4. /\ e \in Event /\ ~isInstalled(e) /\ e.comps[c] = u
        /\ \A x \in Comp \ {c} : e.comps[x] = NoDetails
    BY <2>3, NoEventType DEF CompEvent, Event, NoEvent, NoComps, NoConditions,
                             isInstalled
  <2>5. chan' = Append(chan, e)
    BY <1>10 DEF ReconcileOverride, u
  <2>. HIDE DEF e
  <2>6. \A x \in Comp : Fine(x, e.comps[x])
    BY <2>3, <2>4, NothingFine
  <2>. QED
    BY <1>4, <1>10, <2>4, <2>5, <2>6, SentFine DEF ReconcileOverride, SameCharts
<1>11. ASSUME NEW c \in Comp, BecomeReady(c)
       PROVE  ReportInv'
  BY <1>4, <1>11, SameFine DEF BecomeReady, busVars, SameCharts
<1>12. CASE ApplyEvent
  BY <1>12, ApplyReports
<1>13. ASSUME StartProcess
       PROVE  ReportInv'
  BY <1>13, StartProcessReports
<1>. QED
  BY <1>5, <1>6, <1>7, <1>8, <1>9, <1>10, <1>11, <1>12, <1>13
     DEF Environment, Restart, ReplaceOperator

-------------------------------------------------------------------------------
(* reconcileComponents.                                                     *)

(* The place of the component of the loop.                                  *)
LEMMA LoopFacts ==
  ASSUME TypeInv, ReportInv, InLoop
  PROVE  /\ pc = "components" /\ comp \in Comp /\ comp \in Known
         /\ details = loc.comps[comp] /\ details \in Details
         /\ Fine(comp, details)
         /\ \A s \in InstallStates : GoTo(s) =>
              /\ it'.gen = it.gen /\ it'.comp[comp] = s
              /\ \A c \in Comp \ {comp} : it'.comp[c] = it.comp[c]
         /\ \A s : GoToUninstall(s) => it'.gen = it.gen /\ it'.comp = it.comp
         /\ it.comp[comp] \notin {"Init", "End"} =>
              details # NoDetails \/ comp \in Preinstalled
<1>1. pc = "components" /\ cur <= Len(registry)
  BY DEF InLoop, InTracker
<1>2. comp \in Comp /\ details \in Details /\ details = loc.comps[comp]
  BY RegistryType DEF details
<1>3. cur \in DOMAIN registry
  BY <1>1, OrderTypes
<1>4. Fine(comp, details)
  BY <1>2 DEF ReportInv, Copies
<1>5. it \in InstallTracker
  BY OrderTypes
<1>6. it.comp[comp] \notin {"Init", "End"} =>
        details # NoDetails \/ comp \in Preinstalled
  BY <1>1, <1>2 DEF ReportInv, Entry, Begun
<1>. QED
  BY <1>1, <1>2, <1>3, <1>4, <1>5, <1>6
     DEF comp, Known, GoTo, GoToUninstall, InstallTracker

(* The machine of the component of the loop moves, outside Helm.            *)
LEMMA GoToMoves ==
  ASSUME TypeInv, ReportInv, InLoop, NEW s \in InstallStates, GoTo(s),
         s \in PastInstall => it.comp[comp] \in PastInstall,
         s = "Uninstall" => comp \notin Always,
         s = "Install" => \A d \in Deps[comp] \cap Always : installed(d),
         s \notin {"Init", "End"} =>
           it.comp[comp] \notin {"Init", "End"} \/ details # NoDetails,
         NEW c \in Comp
  PROVE  InstallMoves(c)
<1>1. /\ it'.gen = it.gen /\ it'.comp[comp] = s /\ details = loc.comps[comp]
      /\ \A x \in Comp \ {comp} : it'.comp[x] = it.comp[x]
  BY LoopFacts
<1>. QED
  BY <1>1 DEF InstallMoves

(* Steps that only move the machine.                                        *)
LEMMA QuietReports ==
  ASSUME TypeInv, TypeInv', OrderInv, ReportInv, pc # "idle", UNCHANGED ut,
         UNCHANGED <<crVars, bom, release, chan, pc, loc>>,
         \A c \in Comp : InstallMoves(c)
  PROVE  ReportInv'
<1>1. \A c \in Comp : UpgradeMoves(c)
  BY UpgradeStays
<1>. QED
  BY <1>1, SameFine, PassReports

(* What updateComponentStatus writes.                                       *)
LEMMA UpdateFine ==
  ASSUME TypeInv, ReportInv, pc # "idle", NEW c \in Comp, NEW d \in Details,
         Fine(c, d), NEW t,
         t \in {"InstallComplete", "UpgradeComplete"} =>
           /\ installed(c) => loc.gen <= release[c].gen
           /\ c \in Always => installed(c),
         t \in {"PreInstall", "InstallStarted", "UninstallStarted",
                "UninstallComplete", "UpgradeStarted",
                "InstallComplete", "UpgradeComplete"}
  PROVE  LET u == updateComponentStatus(d, t, loc.gen)
         IN  u \in Details /\ u # NoDetails /\ Fine(c, u)
<1>. DEFINE u == updateComponentStatus(d, t, loc.gen)
            done == t \in {"InstallComplete", "UpgradeComplete"}
<1>1. PassGen = loc.gen /\ loc.gen \in Nat /\ loc.gen > 0
      /\ release[c].gen \in Nat
  BY OrderTypes, ReportTypes DEF PassGen, ReportInv, Global
<1>2. d.rg \in Nat /\ d.lrg \in Nat /\ d.rg <= loc.gen /\ d.lrg <= loc.gen
  BY <1>1 DEF Details, Fine
<1>3. u \in Details
  BY <1>1, UpdateType
<1>4. /\ u.state = checkCondtitionType(t)
      /\ u.rg = IF done THEN 0 ELSE IF d.rg = 0 THEN loc.gen ELSE d.rg
      /\ u.lrg = IF ~done THEN d.lrg ELSE IF d.rg > 0 THEN d.rg ELSE loc.gen
  BY DEF updateComponentStatus
<1>5. u.state # "Absent" /\ (u.state = "Ready" => done)
  BY <1>4 DEF checkCondtitionType
<1>. HIDE DEF u, done
<1>6. u # NoDetails
  BY <1>5, Nothing
<1>7. u.rg <= loc.gen /\ u.lrg <= loc.gen /\ (done => u.lrg > 0)
  BY <1>1, <1>2, <1>4
<1>8. u.lrg \in Nat
  BY <1>3 DEF Details
<1>9. Fine(c, u)
  BY <1>1, <1>5, <1>7, <1>8 DEF Fine, done
<1>. QED
  BY <1>3, <1>6, <1>9 DEF u

LEMMA LoopMoveReports ==
  ASSUME TypeInv, TypeInv', OrderInv, ReportInv,
         \/ ComponentStatusUnknown \/ ComponentInit \/ InstalledCheckFails
         \/ ComponentDisabled \/ ComponentReady \/ ComponentPreInstall
         \/ ComponentWaitReady \/ ComponentPostInstall \/ ComponentBlocked
         \/ ComponentEnd \/ UninstallPreUninstall \/ UninstallWaitUninstalled
         \/ UninstallEnd \/ UninstallBlocked
  PROVE  ReportInv'
<1>. USE DEF At, AtUninstall
<1>1. InLoop /\ pc = "components"
  BY DEF ComponentStatusUnknown, ComponentInit, InstalledCheckFails,
         ComponentDisabled, ComponentReady, ComponentPreInstall,
         ComponentWaitReady, ComponentPostInstall, ComponentBlocked,
         ComponentEnd, UninstallPreUninstall, UninstallWaitUninstalled,
         UninstallEnd, UninstallBlocked, StatusMissing, InLoop, InTracker
<1>2. UNCHANGED <<crVars, bom, release, chan, pc, loc, ut>>
  BY DEF ComponentStatusUnknown, ComponentInit, InstalledCheckFails,
         ComponentDisabled, ComponentReady, ComponentPreInstall,
         ComponentWaitReady, ComponentPostInstall, ComponentBlocked,
         ComponentEnd, UninstallPreUninstall, UninstallWaitUninstalled,
         UninstallEnd, UninstallBlocked, Quiet, NextComponent, busVars,
         processVars, chartVars, passVars
<1>. SUFFICES ASSUME NEW c \in Comp
              PROVE  InstallMoves(c)
  BY <1>1, <1>2, QuietReports
<1>3. ASSUME NEW s \in InstallStates \ (PastInstall \cup {"Uninstall", "Install"}),
             GoTo(s), s # "End" => it.comp[comp] \notin {"Init", "End"}
                                   \/ details # NoDetails
      PROVE  InstallMoves(c)
  BY <1>1, <1>3, GoToMoves
<1>4. CASE ComponentStatusUnknown \/ ComponentBlocked \/ ComponentEnd \/ UninstallBlocked
  BY <1>4, InstallStays
     DEF ComponentStatusUnknown, ComponentBlocked, ComponentEnd, UninstallBlocked
<1>5. CASE ComponentInit
  <2>1. PICK s \in {"End", "Disabled", "WriteInstallStarted", "Ready"} : GoTo(s)
    BY <1>5 DEF ComponentInit
  <2>. QED
    BY <1>3, <1>5, <2>1 DEF ComponentInit, InstallStates, PastInstall
<1>6. CASE InstalledCheckFails \/ UninstallEnd
  BY <1>3, <1>6 DEF InstalledCheckFails, UninstallEnd, InstallStates, PastInstall
<1>7. CASE ComponentDisabled
  <2>1. PICK s \in {"End", "WriteInstallStarted"} : GoTo(s)
    BY <1>7 DEF ComponentDisabled
  <2>. QED
    BY <1>3, <1>7, <2>1 DEF ComponentDisabled, InstallStates, PastInstall
<1>8. CASE ComponentReady
  <2>1. /\ it.comp[comp] = "Ready"
        /\ \/ GoTo("End") \/ GoTo("WriteInstallStarted")
           \/ GoTo("Uninstall") /\ comp \notin loc.enabled
    BY <1>8 DEF ComponentReady, enabled
  <2>2. comp \notin loc.enabled => comp \notin Always
    BY <1>1, AlwaysEnabled
  <2>. QED
    BY <1>1, <2>1, <2>2, GoToMoves DEF InstallStates, PastInstall
<1>9. CASE ComponentPreInstall
  <2>1. GoTo("Install") /\ it.comp[comp] = "PreInstall" /\ ComponentDependenciesMet
    BY <1>9 DEF ComponentPreInstall
  <2>2. ASSUME NEW d \in Deps[comp] \cap Always
        PROVE  installed(d)
    <3>1. d \in Comp /\ d \in loc.enabled /\ isDependencyReady(d)
      BY <1>1, <2>1, AlwaysEnabled DEF ComponentDependenciesMet
    <3>2. loc.comps[d] \in Copies(d)
      BY DEF Copies
    <3>. QED
      BY <3>1, <3>2 DEF isDependencyReady, enabled, ReportInv, Fine
  <2>. QED
    BY <1>1, <2>1, <2>2, GoToMoves DEF InstallStates, PastInstall
<1>10. CASE ComponentWaitReady
  BY <1>1, <1>10, GoToMoves DEF ComponentWaitReady, InstallStates, PastInstall
<1>11. CASE ComponentPostInstall
  BY <1>1, <1>11, GoToMoves DEF ComponentPostInstall, InstallStates, PastInstall
<1>12. CASE UninstallPreUninstall \/ UninstallWaitUninstalled
  <2>1. it'.gen = it.gen /\ it'.comp = it.comp
    BY <1>1, <1>12, LoopFacts DEF UninstallPreUninstall, UninstallWaitUninstalled
  <2>. QED
    BY <2>1 DEF InstallMoves
<1>. QED
  BY <1>4, <1>5, <1>6, <1>7, <1>8, <1>9, <1>10, <1>11, <1>12

LEMMA LoopWriteReports ==
  ASSUME TypeInv, TypeInv', OrderInv, ReportInv,
         \/ ComponentWriteInstallStarted \/ ComponentComplete \/ ComponentRestart
         \/ UninstallStart \/ UninstallDone
  PROVE  ReportInv'
<1>. USE DEF At, AtUninstall
<1>1. InLoop /\ pc = "components"
  BY DEF ComponentWriteInstallStarted, ComponentComplete, ComponentRestart,
         UninstallStart, UninstallDone, InLoop, InTracker
<1>2. /\ comp \in Comp /\ details = loc.comps[comp] /\ details \in Details
      /\ Fine(comp, details)
      /\ it.comp[comp] \notin {"Init", "End"} =>
           details # NoDetails \/ comp \in Preinstalled
  BY <1>1, LoopFacts
<1>3. UNCHANGED <<crVars, bom, release, pc, ut>>
  BY DEF ComponentWriteInstallStarted, ComponentComplete, ComponentRestart,
         UninstallStart, UninstallDone, WriteDetails, NextComponent, processVars,
         chartVars
<1>4. ASSUME NEW u \in Details, SendDetails(OnlyDetails(u)), u # NoDetails,
             Fine(comp, u), \A c \in Comp : InstallMoves(c),
             it.comp[comp] \notin {"Init", "End"} \/ details # NoDetails
      PROVE  ReportInv'
  BY <1>1, <1>2, <1>3, <1>4, UpgradeStays, WriteReports
<1>5. loc.gen \in Nat /\ loc.gen > 0 /\ it.gen = loc.gen
  BY <1>1, OrderTypes DEF ReportInv, Global, OrderInv, GenInv
<1>6. ASSUME ComponentWriteInstallStarted
      PROVE  ReportInv'
  <2>. DEFINE d == [details EXCEPT !.rg = 0]
  <2>1. d \in Details /\ Fine(comp, d)
    BY <1>2, OrderTypes DEF Details, Fine
  <2>. HIDE DEF d
  <2>. DEFINE u == updateComponentStatus(d, "InstallStarted", loc.gen)
  <2>2. u \in Details /\ u # NoDetails /\ Fine(comp, u)
    BY <1>1, <1>2, <2>1, UpdateFine
  <2>3. SendDetails(OnlyDetails(u))
    BY <1>6 DEF ComponentWriteInstallStarted, WriteDetails, d
  <2>4. it.comp[comp] = "WriteInstallStarted" /\ GoTo("PreInstall")
    BY <1>6 DEF ComponentWriteInstallStarted
  <2>5. \A c \in Comp : InstallMoves(c)
    BY <1>1, <2>4, GoToMoves DEF InstallStates, PastInstall
  <2>. HIDE DEF u
  <2>. QED
    BY <1>4, <2>2, <2>3, <2>4, <2>5
<1>7. ASSUME ComponentComplete
      PROVE  ReportInv'
  <2>. DEFINE u == updateComponentStatus(details, "InstallComplete", loc.gen)
  <2>1. it.comp[comp] = "Complete" /\ GoTo("End") /\ SendDetails(OnlyDetails(u))
    BY <1>7 DEF ComponentComplete, WriteDetails
  <2>2. /\ installed(comp) => loc.gen <= release[comp].gen
        /\ comp \in Always => installed(comp)
    BY <1>2, <1>5, <2>1 DEF ReportInv, Charted, Placed, PastInstall
  <2>3. u \in Details /\ u # NoDetails /\ Fine(comp, u)
    BY <1>1, <1>2, <2>2, UpdateFine
  <2>4. \A c \in Comp : InstallMoves(c)
    BY <1>1, <2>1, GoToMoves DEF InstallStates, PastInstall
  <2>. HIDE DEF u
  <2>. QED
    BY <1>4, <2>1, <2>3, <2>4
<1>8. ASSUME ComponentRestart
      PROVE  ReportInv'
  <2>. DEFINE u == updateComponentStatus(details, "PreInstall", loc.gen)
  <2>1. details # NoDetails /\ GoTo("Init") /\ SendDetails(OnlyDetails(u))
    BY <1>8 DEF ComponentRestart
  <2>2. u \in Details /\ u # NoDetails /\ Fine(comp, u)
    BY <1>1, <1>2, UpdateFine
  <2>3. \A c \in Comp : InstallMoves(c)
    BY <1>1, <2>1, GoToMoves DEF InstallStates, PastInstall
  <2>. HIDE DEF u
  <2>. QED
    BY <1>4, <2>1, <2>2, <2>3
<1>9. ASSUME NEW t \in {"UninstallStarted", "UninstallComplete"},
             WriteDetails(updateComponentStatus(details, t, loc.gen)),
             it.comp[comp] = "Uninstall", NEW s, GoToUninstall(s)
      PROVE  ReportInv'
  <2>. DEFINE u == updateComponentStatus(details, t, loc.gen)
  <2>1. SendDetails(OnlyDetails(u))
    BY <1>9 DEF WriteDetails
  <2>2. u \in Details /\ u # NoDetails /\ Fine(comp, u)
    BY <1>1, <1>2, UpdateFine
  <2>3. \A c \in Comp : InstallMoves(c)
    <3>1. it'.gen = it.gen /\ it'.comp = it.comp
      BY <1>1, <1>9, LoopFacts
    <3>. QED
      BY <3>1 DEF InstallMoves
  <2>. HIDE DEF u
  <2>. QED
    BY <1>4, <1>9, <2>1, <2>2, <2>3
<1>10. CASE UninstallStart
  BY <1>9, <1>10 DEF UninstallStart
<1>11. CASE UninstallDone
  BY <1>9, <1>11 DEF UninstallDone
<1>. QED
  BY <1>6, <1>7, <1>8, <1>10, <1>11

(* What initComponentStatus writes.                                         *)
LEMMA InitialFine ==
  ASSUME TypeInv, ReportInv, pc # "idle", NEW c \in Comp,
         loc.comps[c] = NoDetails
  PROVE  initialDetails(c) \in Details /\ Fine(c, initialDetails(c))
<1>1. PassGen = loc.gen /\ loc.gen \in Nat /\ initialDetails(c) \in Details
  BY OrderTypes, InitialDetailsType DEF PassGen
<1>2. c \notin Preinstalled => ~installed(c)
  BY DEF ReportInv, Entry, Begun
<1>3. CASE installed(c)
  BY <1>1, <1>2, <1>3 DEF Fine, initialDetails
<1>4. CASE ~installed(c)
  BY <1>1, <1>4 DEF Fine, initialDetails
<1>. QED
  BY <1>1, <1>3, <1>4

LEMMA InitialReports ==
  ASSUME TypeInv, TypeInv', OrderInv, ReportInv,
         ComponentSkippedUnseen \/ ComponentStatusMissing
  PROVE  ReportInv'
<1>1. /\ InLoop /\ pc = "components" /\ details = NoDetails
      /\ SendInitialDetails /\ loc' = loc /\ pc' # "idle"
      /\ UNCHANGED <<crVars, bom, release, ut>>
      /\ it' = it \/ GoTo("End")
  BY DEF ComponentSkippedUnseen, ComponentStatusMissing, StatusMissing, At, InLoop,
         InTracker, NextComponent, processVars, chartVars, trackerVars
<1>2. comp \in Comp /\ loc.comps[comp] = NoDetails
  BY <1>1, LoopFacts
<1>. DEFINE u == initialDetails(comp)
            e == CompEvent(comp, u)
<1>3. u \in Details /\ Fine(comp, u)
  BY <1>1, <1>2, InitialFine
<1>4. chan' = Append(chan, e)
  BY <1>1 DEF SendInitialDetails
<1>. HIDE DEF u
<1>5. /\ e \in Event /\ ~isInstalled(e) /\ e.comps[comp] = u
      /\ \A c \in Comp \ {comp} : e.comps[c] = NoDetails
  BY <1>2, <1>3, NoEventType
     DEF CompEvent, Event, NoEvent, NoComps, NoConditions, isInstalled
<1>. HIDE DEF e
<1>6. \A c \in Comp : Fine(c, e.comps[c])
  BY <1>3, <1>5, NothingFine
<1>7. EventsFine
  BY <1>4, <1>5, <1>6, SentFine
<1>8. \A c \in Comp : InstallMoves(c) /\ UpgradeMoves(c)
  BY <1>1, InstallStays, UpgradeStays, GoToMoves DEF InstallStates, PastInstall
<1>. QED
  BY <1>1, <1>7, <1>8, PassReports

LEMMA UninstallReports ==
  ASSUME TypeInv, TypeInv', OrderInv, ReportInv, UninstallUninstall
  PROVE  ReportInv'
<1>1. /\ InLoop /\ pc = "components" /\ it.comp[comp] = "Uninstall"
      /\ UNCHANGED <<vz, cache, bom, chan, pc, loc, ut>>
  BY DEF UninstallUninstall, AtUninstall, At, InLoop, InTracker, crVars, busVars,
         processVars, passVars
<1>2. PICK k \in Comp : k = comp
  BY <1>1, LoopFacts
<1>3. /\ it'.gen = it.gen /\ it'.comp = it.comp
      /\ release' = [release EXCEPT ![k] = NoRelease]
  BY <1>1, <1>2, LoopFacts DEF UninstallUninstall
<1>4. /\ release'[k] = NoRelease
      /\ \A c \in Comp \ {k} : release'[c] = release[c]
  BY <1>2, <1>3, OrderTypes
<1>5. ~installed(k)' /\ k \notin Always
  BY <1>1, <1>2, <1>4 DEF installed, NoRelease, ReportInv, Placed
<1>6. /\ \A c \in Comp \ {k} : (installed(c)' <=> installed(c))
      /\ Always \subseteq Comp \ {k} /\ Always' = Always
  BY <1>4, <1>5 DEF installed, Always
<1>7. Known' = Known /\ PassGen' = PassGen /\ \A c \in Comp : Copies(c)' = Copies(c)
  BY <1>1 DEF Known, registry, PassGen, Copies, Queued
<1>8. Global'
  <2>1. AllThere' <=> AllThere
    BY <1>6 DEF AllThere
  <2>2. Announced' <=> Announced
    BY <1>1 DEF Announced, isInstalled
  <2>. QED
    BY <1>1, <2>1, <2>2 DEF ReportInv, Global
<1>9. ASSUME NEW c \in Comp, NEW d \in Copies(c)'
      PROVE  Fine(c, d)'
  <2>1. Fine(c, d)
    BY <1>7, <1>9 DEF ReportInv
  <2>. QED
    BY <1>4, <1>5, <1>6, <1>7, <2>1 DEF Fine
<1>10. ASSUME NEW c \in Comp
       PROVE  Charted(c)' /\ Placed(c)'
  <2>1. Charted(c) /\ Placed(c)
    BY DEF ReportInv
  <2>2. Charted(c)'
    BY <1>1, <1>3, <1>4, <1>5, <1>6, <1>7, <2>1 DEF Charted
  <2>3. \A d \in Always : installed(d)' <=> installed(d)
    BY <1>6
  <2>4. Placed(c)'
    BY <1>1, <1>3, <1>6, <2>1, <2>3 DEF Placed
  <2>. QED
    BY <2>2, <2>4
<1>11. ASSUME NEW c \in Comp \ Preinstalled
       PROVE  Entry(c)'
  <2>1. Entry(c) /\ (Begun(c)' => Begun(c))
    BY <1>1, <1>3, <1>5, <1>6 DEF ReportInv, Begun
  <2>. QED
    BY <1>1, <2>1 DEF Entry
<1>. QED
  BY <1>8, <1>9, <1>10, <1>11 DEF ReportInv

LEMMA InstallStepReports ==
  ASSUME TypeInv, TypeInv', OrderInv, ReportInv, InstallStep
  PROVE  ReportInv'
<1>. USE DEF processVars, chartVars, trackerVars
<1>1. ASSUME NEW s, SetTracker(s)
      PROVE  \A c \in Comp : InstallMoves(c)
  BY <1>1, OrderTypes DEF SetTracker, InstallTracker, InstallMoves
<1>2. \A c \in Comp : ut' = ut => UpgradeMoves(c)
  BY UpgradeStays
<1>3. \A c \in Comp : it' = it => InstallMoves(c)
  BY InstallStays
<1>4. CASE ReconcileWatched \/ DecideUpdate \/ ComponentsInstalled \/ PostInstall
  <2>1. /\ pc # "idle" /\ UNCHANGED <<crVars, bom, release, chan, pc, loc, ut>>
        /\ \E s : SetTracker(s)
    BY <1>4 DEF ReconcileWatched, DecideUpdate, ComponentsInstalled, PostInstall,
                LoopDone, InTracker, Quiet, busVars, passVars
  <2>. QED
    BY <1>1, <2>1, QuietReports
<1>5. CASE ReconcileWatchedFails \/ ComponentsWaiting \/ PostInstallFails
  <2>1. /\ pc # "idle" /\ EndQuietly(TRUE)
        /\ UNCHANGED <<crVars, bom, release, it, ut>>
    BY <1>5 DEF ReconcileWatchedFails, ComponentsWaiting, PostInstallFails,
                LoopDone, InTracker
  <2>. QED
    BY <1>2, <1>3, <2>1, EndQuietlyReports
<1>6. CASE SetGlobalInstallStatus
  <2>. DEFINE e == setInstallingState(loc)
  <2>1. /\ pc # "idle" /\ EndSending(e, TRUE) /\ SetTracker("InstallComponents")
        /\ UNCHANGED <<crVars, bom, release, ut>>
    BY <1>6 DEF SetGlobalInstallStatus, InTracker
  <2>2. e \in Event
    BY ReportTypes, OrderTypes, ConditionEventType DEF setInstallingState, VzConditions
  <2>3. e.comps = NoComps /\ (isInstalled(e) => Announced)
    BY Nothing DEF setInstallingState, ConditionEvent, NoEvent, isInstalled,
                   appendConditionIfNecessary, Announced
  <2>. HIDE DEF e
  <2>. QED
    BY <1>1, <1>2, <2>1, <2>2, <2>3, EndSendingReports
<1>7. CASE ComponentInstall
  <2>1. /\ InLoop /\ pc = "components" /\ it.comp[comp] = "Install"
        /\ HelmInstall /\ GoTo("WaitReady")
        /\ UNCHANGED <<crVars, bom, chan, pc, loc, ut>>
    BY <1>7 DEF ComponentInstall, At, InLoop, InTracker, busVars, passVars
  <2>2. PICK k \in Comp : k = comp
    BY <2>1, LoopFacts
  <2>3. loc.comps[k] # NoDetails \/ k \in Preinstalled
    BY <2>1, <2>2, LoopFacts
  <2>4. /\ it'.gen = it.gen /\ it'.comp[k] = "WaitReady"
        /\ \A c \in Comp \ {k} : it'.comp[c] = it.comp[c]
    BY <2>1, <2>2, LoopFacts DEF InstallStates
  <2>. QED
    BY <2>1, <2>2, <2>3, <2>4, InstallReports
<1>. QED
  BY <1>4, <1>5, <1>6, <1>7, LoopMoveReports, LoopWriteReports, InitialReports,
     UninstallReports DEF InstallStep

-------------------------------------------------------------------------------
(* reconcileUpgrade.                                                        *)

LEMMA UpgradeFacts ==
  ASSUME TypeInv, ReportInv, NEW s, UpgradeAt(s)
  PROVE  /\ pc = "upgrade" /\ ut.state = "UpgradeComponents" /\ ut.comp[comp] = s
         /\ comp \in Comp /\ comp \in Known
         /\ details = loc.comps[comp] /\ details \in Details
         /\ Fine(comp, details)
         /\ \A t \in UpgradeStates : GoToUpgrade(t) =>
              /\ ut'.gen = ut.gen /\ ut'.state = ut.state /\ ut'.comp[comp] = t
              /\ \A c \in Comp \ {comp} : ut'.comp[c] = ut.comp[c]
<1>1. pc = "upgrade" /\ ut.state = "UpgradeComponents" /\ cur <= Len(registry)
      /\ ut.comp[comp] = s
  BY DEF UpgradeAt, InUpgrade
<1>2. comp \in Comp /\ details \in Details /\ details = loc.comps[comp]
  BY RegistryType DEF details
<1>3. cur \in DOMAIN registry
  BY <1>1, OrderTypes
<1>4. Fine(comp, details)
  BY <1>2 DEF ReportInv, Copies
<1>5. ut \in UpgradeTracker
  BY OrderTypes
<1>. QED
  BY <1>1, <1>2, <1>3, <1>4, <1>5 DEF comp, Known, GoToUpgrade, UpgradeTracker

LEMMA GoToUpgradeMoves ==
  ASSUME TypeInv, ReportInv, NEW s, UpgradeAt(s), NEW t \in UpgradeStates,
         GoToUpgrade(t), it' = it,
         t \in PastUpgrade => s \in PastUpgrade \ {"End"} \/ ~installed(comp),
         t \in PastUpgrade \ {"End"} => s \in PastUpgrade \ {"End"},
         t \notin {"Init", "End"} => s \notin {"Init", "End"} \/ installed(comp)
  PROVE  \A c \in Comp : InstallMoves(c) /\ UpgradeMoves(c)
<1>. SUFFICES ASSUME NEW c \in Comp
              PROVE  UpgradeMoves(c)
  BY InstallStays
<1>1. /\ ut.comp[comp] = s /\ ut'.gen = ut.gen /\ ut'.comp[comp] = t
      /\ ut'.state = "UpgradeComponents"
      /\ \A x \in Comp \ {comp} : ut'.comp[x] = ut.comp[x]
  BY UpgradeFacts
<1>. QED
  BY <1>1 DEF UpgradeMoves, PastComponents

LEMMA UpgradeMoveReports ==
  ASSUME TypeInv, TypeInv', OrderInv, ReportInv,
         \/ UpgradeNotInstalled \/ UpgradePreUpgrade \/ UpgradeWaitReady
         \/ UpgradePostUpgrade \/ UpgradeNext
  PROVE  ReportInv'
<1>1. /\ \E s : UpgradeAt(s)
      /\ UNCHANGED <<crVars, bom, release, chan, pc, loc, it>>
  BY DEF UpgradeNotInstalled, UpgradePreUpgrade, UpgradeWaitReady,
         UpgradePostUpgrade, UpgradeNext, QuietUpgrade, busVars, processVars,
         chartVars, passVars, trackerVars
<1>2. pc # "idle"
  BY <1>1, UpgradeFacts
<1>. SUFFICES \A c \in Comp : InstallMoves(c) /\ UpgradeMoves(c)
  BY <1>1, <1>2, SameFine, PassReports
<1>3. CASE UpgradeNotInstalled
  BY <1>1, <1>3, GoToUpgradeMoves DEF UpgradeNotInstalled, UpgradeStates
<1>4. CASE UpgradePreUpgrade
  BY <1>1, <1>4, GoToUpgradeMoves DEF UpgradePreUpgrade, UpgradeStates, PastUpgrade
<1>5. CASE UpgradeWaitReady
  BY <1>1, <1>5, GoToUpgradeMoves DEF UpgradeWaitReady, UpgradeStates, PastUpgrade
<1>6. CASE UpgradePostUpgrade
  BY <1>1, <1>6, GoToUpgradeMoves DEF UpgradePostUpgrade, UpgradeStates, PastUpgrade
<1>7. CASE UpgradeNext
  BY <1>7, InstallStays, UpgradeStays DEF UpgradeNext, trackerVars
<1>. QED
  BY <1>3, <1>4, <1>5, <1>6, <1>7

LEMMA UpgradeWriteReports ==
  ASSUME TypeInv, TypeInv', OrderInv, ReportInv, UpgradeInit \/ UpgradeComplete
  PROVE  ReportInv'
<1>1. /\ UNCHANGED <<crVars, bom, release, pc, it>>
      /\ \E s : UpgradeAt(s)
  BY DEF UpgradeInit, UpgradeComplete, WriteUpgradeDetails, processVars, chartVars
<1>2. /\ pc = "upgrade" /\ comp \in Comp /\ details = loc.comps[comp]
      /\ details \in Details /\ Fine(comp, details)
  BY <1>1, UpgradeFacts
<1>3. CASE UpgradeInit
  <2>. DEFINE u == updateComponentStatus(details, "UpgradeStarted", loc.gen)
  <2>1. UpgradeAt("Init") /\ installed(comp) /\ GoToUpgrade("PreUpgrade")
        /\ SendDetails(OnlyDetails(u))
    BY <1>3 DEF UpgradeInit, WriteUpgradeDetails
  <2>2. u \in Details /\ u # NoDetails /\ Fine(comp, u)
    BY <1>2, UpdateFine
  <2>3. \A c \in Comp : InstallMoves(c) /\ UpgradeMoves(c)
    BY <1>1, <2>1, GoToUpgradeMoves DEF UpgradeStates, PastUpgrade
  <2>4. loc.comps[comp] # NoDetails \/ comp \in Preinstalled
    BY <1>2, <2>1 DEF ReportInv, Entry, Begun
  <2>. HIDE DEF u
  <2>. QED
    BY <1>1, <1>2, <2>1, <2>2, <2>3, <2>4, WriteReports
<1>4. CASE UpgradeComplete
  <2>. DEFINE u == updateComponentStatus(details, "UpgradeComplete", loc.gen)
  <2>1. UpgradeAt("Done") /\ GoToUpgrade("End") /\ SendDetails(OnlyDetails(u))
    BY <1>4 DEF UpgradeComplete, WriteUpgradeDetails
  <2>2. ut.comp[comp] = "Done" /\ ut.gen = loc.gen
    BY <1>2, <2>1, UpgradeFacts DEF OrderInv, GenInv
  <2>3. /\ installed(comp) => loc.gen <= release[comp].gen
        /\ comp \in Always => installed(comp)
    BY <1>2, <2>2 DEF ReportInv, Charted, Placed, PastUpgrade
  <2>4. u \in Details /\ u # NoDetails /\ Fine(comp, u)
    BY <1>2, <2>3, UpdateFine
  <2>5. \A c \in Comp : InstallMoves(c) /\ UpgradeMoves(c)
    BY <1>1, <2>1, GoToUpgradeMoves DEF UpgradeStates, PastUpgrade
  <2>6. loc.comps[comp] # NoDetails \/ comp \in Preinstalled
    BY <1>2, <2>2 DEF ReportInv, Entry, Begun
  <2>. HIDE DEF u
  <2>. QED
    BY <1>1, <1>2, <2>1, <2>4, <2>5, <2>6, WriteReports
<1>. QED
  BY <1>3, <1>4

LEMMA UpgradeUpgradeReports ==
  ASSUME TypeInv, TypeInv', OrderInv, ReportInv, UpgradeUpgrade
  PROVE  ReportInv'
<1>1. /\ UpgradeAt("Upgrade") /\ HelmInstall /\ GoToUpgrade("WaitReady")
      /\ UNCHANGED <<crVars, bom, chan, pc, loc, it>>
  BY DEF UpgradeUpgrade, busVars, processVars, passVars
<1>2. PICK k \in Comp : k = comp
  BY <1>1, UpgradeFacts
<1>3. /\ pc = "upgrade" /\ ut.comp[k] = "Upgrade" /\ ut.state = "UpgradeComponents"
      /\ ut'.gen = ut.gen /\ ut'.state = ut.state
      /\ \A c \in Comp \ {k} : ut'.comp[c] = ut.comp[c]
  BY <1>1, <1>2, UpgradeFacts DEF UpgradeStates
<1>4. it = NoInstallTracker /\ it.comp[k] = "Init"
  BY <1>3, FreshTrackers DEF OrderInv, GenInv
<1>5. loc.comps[k] # NoDetails \/ k \in Preinstalled
  BY <1>3 DEF ReportInv, Entry, Begun
<1>. QED
  BY <1>1, <1>2, <1>3, <1>4, <1>5, InstallReports DEF PastComponents

(* UpgradeDone claims the present generation for every component, and every *)
(* chart is from this generation by now.                                    *)
LEMMA UpgradeDoneReports ==
  ASSUME TypeInv, TypeInv', OrderInv, ReportInv, UpgradeDone
  PROVE  ReportInv'
<1>. DEFINE ds == [c \in Comp |->
                     IF c \in Known \cap loc.enabled /\ loc.comps[c] # NoDetails
                     THEN [loc.comps[c] EXCEPT !.lrg = loc.gen] ELSE NoDetails]
            q == [i \in DOMAIN chan |-> [Aliased(ds)[i] EXCEPT !.own = FALSE]]
            e == [NoEvent EXCEPT !.comps = ds, !.version = loc.spec]
<1>1. /\ pc = "upgrade" /\ ut.state = "UpgradeDone"
      /\ chan' = Append(q, e) /\ EndPass(TRUE) /\ SetUpgrade("End")
      /\ UNCHANGED <<crVars, bom, release, it>>
  BY DEF UpgradeDone, InUpgrade, processVars, chartVars
<1>2. /\ loc \in Resource /\ loc.gen \in Nat /\ PassGen = loc.gen
      /\ ut.gen = loc.gen /\ loc.gen > 0
  BY <1>1, ReportTypes, OrderTypes DEF PassGen, OrderInv, GenInv, ReportInv, Global
<1>3. ASSUME NEW c \in Comp
      PROVE  ds[c] \in Details /\ Fine(c, ds[c])
  <2>1. loc.comps[c] \in Details /\ Fine(c, loc.comps[c])
    BY <1>2 DEF Resource, ReportInv, Copies
  <2>2. CASE c \in Known \cap loc.enabled /\ loc.comps[c] # NoDetails
    <3>. DEFINE d == [loc.comps[c] EXCEPT !.lrg = loc.gen]
    <3>1. d \in Details /\ d.lrg = loc.gen /\ d.state = loc.comps[c].state
          /\ d.rg = loc.comps[c].rg
      BY <1>2, <2>1 DEF Details
    <3>2. ut.comp[c] = "End" /\ (installed(c) => ut.gen <= release[c].gen)
      BY <1>1, <2>2 DEF ReportInv, Charted, PastComponents, PastUpgrade
    <3>3. ds[c] = d
      BY <2>2
    <3>. HIDE DEF d, ds
    <3>4. Fine(c, d)
      BY <1>2, <2>1, <3>1, <3>2 DEF Fine
    <3>. QED
      BY <3>1, <3>3, <3>4
  <2>3. CASE ~(c \in Known \cap loc.enabled /\ loc.comps[c] # NoDetails)
    BY <2>3, NothingFine, NoDetailsType
  <2>. QED
    BY <2>2, <2>3
<1>4. ds \in [Comp -> Details]
  BY <1>3
<1>5. e \in Event /\ e.comps = ds /\ ~isInstalled(e)
  BY <1>2, <1>4, NoEventType, Nothing DEF Event, NoEvent, isInstalled, Resource
<1>6. /\ Aliased(ds) \in Seq(Event) /\ DOMAIN Aliased(ds) = DOMAIN chan
      /\ \A i \in DOMAIN chan :
           /\ \A c \in Comp : Aliased(ds)[i].comps[c] \in {chan[i].comps[c], ds[c]}
           /\ Aliased(ds)[i].conds = chan[i].conds
  BY <1>4, AliasedQueue
<1>7. \A c \in Comp : Fine(c, ds[c])
  BY <1>3
<1>. HIDE DEF ds, e
<1>8. q \in Seq(Event) /\ DOMAIN q = DOMAIN chan
  BY <1>6, DisownedType
<1>9. ASSUME NEW i \in DOMAIN chan
      PROVE  /\ \A c \in Comp : q[i].comps[c] \in Queued(c) \cup {ds[c]}
             /\ isInstalled(q[i]) => Announced
  <2>1. Aliased(ds)[i] \in Event
    BY <1>6
  <2>2. q[i].comps = Aliased(ds)[i].comps /\ q[i].conds = Aliased(ds)[i].conds
    BY <2>1 DEF Event
  <2>. QED
    BY <1>6, <2>2 DEF Queued, Announced, isInstalled
<1>. HIDE DEF q
<1>10. \A i \in DOMAIN chan' : (i \in DOMAIN chan /\ chan'[i] = q[i]) \/ chan'[i] = e
  BY <1>1, <1>5, <1>8, AppendedQueue
<1>11. EventsFine
  BY <1>5, <1>7, <1>9, <1>10 DEF EventsFine
<1>12. \A c \in Comp : InstallMoves(c) /\ UpgradeMoves(c)
  <2>1. ut'.comp = ut.comp /\ ut'.gen = ut.gen
    BY <1>1, OrderTypes DEF SetUpgrade, UpgradeTracker
  <2>2. \A c \in Comp : c \in Known => ut.comp[c] = "End"
    BY <1>1 DEF ReportInv, Charted, PastComponents
  <2>. QED
    BY <1>1, <2>1, <2>2, InstallStays DEF UpgradeMoves
<1>. QED
  BY <1>1, <1>11, <1>12, PassReports DEF EndPass

LEMMA UpgradeStepReports ==
  ASSUME TypeInv, TypeInv', OrderInv, ReportInv, UpgradeStep
  PROVE  ReportInv'
<1>. USE DEF processVars, chartVars, trackerVars
<1>1. \A c \in Comp : it' = it => InstallMoves(c)
  BY InstallStays
<1>2. \A c \in Comp : ut' = ut => UpgradeMoves(c)
  BY UpgradeStays
<1>3. ASSUME NEW s, SetUpgrade(s)
      PROVE  ut'.comp = ut.comp /\ ut'.gen = ut.gen /\ ut'.state = s
  BY <1>3, OrderTypes DEF SetUpgrade, UpgradeTracker
<1>4. CASE WriteUpgradeStarted
  <2>. DEFINE e == ConditionEvent(loc, "UpgradeStarted", 0)
  <2>1. /\ pc # "idle" /\ EndSending(e, TRUE)
        /\ UNCHANGED <<crVars, bom, release, it, ut>>
    BY <1>4 DEF WriteUpgradeStarted, InUpgrade
  <2>2. e \in Event
    BY ReportTypes, ConditionEventType DEF VzConditions
  <2>3. e.comps = NoComps /\ (isInstalled(e) => Announced)
    BY Nothing DEF ConditionEvent, NoEvent, isInstalled,
                   appendConditionIfNecessary, Announced
  <2>. HIDE DEF e
  <2>. QED
    BY <1>1, <1>2, <2>1, <2>2, <2>3, EndSendingReports
<1>5. CASE UpgradeWaits \/ UpgradeBlocked
  <2>1. /\ pc # "idle" /\ EndQuietly(TRUE)
        /\ UNCHANGED <<crVars, bom, release, it, ut>>
    BY <1>5 DEF UpgradeWaits, UpgradeBlocked, UpgradeAt, InUpgrade
  <2>. QED
    BY <1>1, <1>2, <2>1, EndQuietlyReports
<1>6. CASE \/ UpgradeStarted \/ ComponentsUpgraded \/ VzPostUpgrade
           \/ WaitPostUpgradeDone \/ RestartApps
  <2>1. /\ pc = "upgrade" /\ UNCHANGED <<crVars, bom, release, chan, pc, loc, it>>
        /\ \E s : SetUpgrade(s)
    BY <1>6 DEF UpgradeStarted, ComponentsUpgraded, VzPostUpgrade,
                WaitPostUpgradeDone, RestartApps, InUpgrade, QuietUpgrade,
                busVars, passVars
  <2>2. ut'.comp = ut.comp /\ ut'.gen = ut.gen
    BY <1>3, <2>1
  <2>3. ut'.state \in PastComponents => \A c \in Known : ut.comp[c] = "End"
    <3>1. CASE UpgradeStarted
      BY <1>3, <3>1 DEF UpgradeStarted, PastComponents
    <3>2. CASE ComponentsUpgraded
      <4>1. cur > Len(registry)
        BY <3>2 DEF ComponentsUpgraded
      <4>2. \A i \in DOMAIN registry : ut.comp[registry[i]] = "End"
        BY <2>1, <4>1, OrderTypes DEF OrderInv, LoopInv
      <4>. QED
        BY <4>2 DEF Known
    <3>3. CASE VzPostUpgrade \/ WaitPostUpgradeDone \/ RestartApps
      BY <3>3, OrderTypes DEF VzPostUpgrade, WaitPostUpgradeDone, RestartApps,
                              InUpgrade, PastComponents, ReportInv, Charted
    <3>. QED
      BY <1>6, <3>1, <3>2, <3>3
  <2>4. \A c \in Comp : UpgradeMoves(c)
    BY <2>2, <2>3 DEF UpgradeMoves
  <2>. QED
    BY <1>1, <2>1, <2>4, SameFine, PassReports
<1>7. CASE UpgradeEnd
  <2>1. /\ pc # "idle" /\ ut' = newUpgradeTracker(0)
        /\ EnterComponents(loc, "PostUpgrade")
        /\ UNCHANGED <<crVars, bom, release, chan>>
    BY <1>7 DEF UpgradeEnd, InUpgrade, NoUpgradeTracker, busVars
  <2>2. \A c \in Comp : UpgradeMoves(c)
    BY <2>1, NewTrackersMove
  <2>. QED
    BY <2>1, <2>2, EnterReports
<1>. QED
  BY <1>4, <1>5, <1>6, <1>7, UpgradeDoneReports, UpgradeMoveReports,
     UpgradeWriteReports, UpgradeUpgradeReports DEF UpgradeStep


-------------------------------------------------------------------------------
(* The handlers of the states of the resource.                              *)

LEMMA StartPassReports ==
  ASSUME TypeInv, TypeInv', OrderInv, ReportInv, StartPass
  PROVE  ReportInv'
<1>1. /\ pc = "idle" /\ loc' = cache /\ pc' = cache.state
      /\ UNCHANGED <<crVars, bom, release, chan, it, ut>>
  BY DEF StartPass, busVars, processVars, chartVars, trackerVars
<1>. USE DEF crVars
<1>2. pc' # "idle" /\ PassGen' = PassGen /\ PassGen \in Nat
  <2>1. cache.state \in VzStates
    BY ReportTypes DEF Resource
  <2>2. cache.state # "idle"
    BY <2>1, Zenon DEF VzStates
  <2>. QED
    BY <1>1, <2>2, OrderTypes DEF PassGen
<1>3. SameCharts
  BY <1>1 DEF SameCharts
<1>4. Global'
  <2>1. Announced' => Announced
    BY <1>1 DEF Announced, isInstalled
  <2>. QED
    BY <1>1, <1>3, <2>1, ChartsStay DEF ReportInv, Global
<1>5. ASSUME NEW c \in Comp
      PROVE  \A d \in Copies(c)' : Fine(c, d)'
  <2>1. \A d \in Copies(c)' : d \in Copies(c)
    BY <1>1 DEF Copies, Queued
  <2>. QED
    BY <1>2, <1>3, <2>1, CopiesStay
<1>6. ASSUME NEW c \in Comp
      PROVE  Charted(c)' /\ Placed(c)'
  BY <1>1, <1>3, InstallStays, UpgradeStays, MachinesStay
<1>7. ASSUME NEW c \in Comp \ Preinstalled
      PROVE  Entry(c)'
  BY <1>1, <1>3, ChartsStay DEF ReportInv, Entry, Begun
<1>. QED
  BY <1>4, <1>5, <1>6, <1>7 DEF ReportInv

(* What initializeComponentStatus writes: an entry that was never           *)
(* reconciled is not Ready, unless the chart was found.                     *)
LEMMA InitializedFine ==
  ASSUME TypeInv, ReportInv, pc # "idle", NEW c \in Comp
  PROVE  Fine(c, Initialized[c])
<1>1. PassGen = loc.gen /\ loc.gen \in Nat
  BY OrderTypes DEF PassGen
<1>2. loc.comps[c] \in Details /\ Fine(c, loc.comps[c])
  BY ReportTypes DEF ReportInv, Copies
<1>3. CASE c \in Known /\ loc.comps[c].lrg = 0 /\ loc.comps[c] # NoDetails
  <2>. DEFINE d == [loc.comps[c] EXCEPT !.lrg = loc.gen]
  <2>1. /\ d.lrg = loc.gen /\ d.rg = loc.comps[c].rg /\ d.state = loc.comps[c].state
    BY <1>2 DEF Details
  <2>2. Initialized[c] = d
    BY <1>3 DEF Initialized, NewDetails
  <2>. HIDE DEF d
  <2>3. Fine(c, d)
    BY <1>1, <1>2, <1>3, <2>1 DEF Fine
  <2>. QED
    BY <2>2, <2>3
<1>4. CASE c \in Known /\ loc.comps[c] = NoDetails
  <2>1. Initialized[c] = initialDetails(c)
    BY <1>4, Nothing DEF Initialized, NewDetails
  <2>. QED
    BY <1>4, <2>1, InitialFine
<1>5. CASE ~(c \in Known /\ loc.comps[c].lrg = 0)
  <2>1. Initialized[c] = NoDetails
    BY <1>5 DEF Initialized
  <2>. QED
    BY <2>1, NothingFine
<1>. QED
  BY <1>3, <1>4, <1>5

LEMMA InitializeReports ==
  ASSUME TypeInv, TypeInv', OrderInv, ReportInv, InitializeComponentStatus
  PROVE  ReportInv'
<1>. DEFINE e == [NoEvent EXCEPT !.comps = Initialized]
<1>1. /\ pc # "idle" /\ EndSending(e, TRUE)
      /\ UNCHANGED <<crVars, bom, release, it, ut>>
  BY DEF InitializeComponentStatus, processVars, chartVars, trackerVars
<1>2. e \in Event /\ e.comps = Initialized /\ ~isInstalled(e)
  BY InitializedType, NoEventType, Nothing DEF Event, NoEvent, isInstalled
<1>. HIDE DEF e
<1>3. \A c \in Comp : Fine(c, e.comps[c])
  BY <1>1, <1>2, InitializedFine
<1>4. EventsFine
  BY <1>1, <1>2, <1>3, SentFine DEF EndSending
<1>5. \A c \in Comp : InstallMoves(c) /\ UpgradeMoves(c)
  BY <1>1, InstallStays, UpgradeStays
<1>. QED
  BY <1>1, <1>4, <1>5, PassReports DEF EndSending, EndPass

LEMMA ReconcileReadyReports ==
  ASSUME TypeInv, TypeInv', OrderInv, ReportInv, ReconcileReady
  PROVE  ReportInv'
<1>1. /\ pc # "idle" /\ Missing = {} /\ pc' = "components"
      /\ loc' = [loc EXCEPT !.comps = Overwrite(@, Initialized)]
      /\ it' = it \/ it' = newInstallTracker(loc'.gen)
      /\ UNCHANGED <<crVars, bom, release, chan, ut>>
  BY DEF ReconcileReady, ProcReady, EnterComponents, getInstallTracker, busVars,
         processVars, chartVars
<1>2. loc \in Resource /\ loc.gen \in Nat
  BY ReportTypes, OrderTypes
<1>3. /\ loc'.gen = loc.gen /\ loc'.enabled = loc.enabled /\ loc'.conds = loc.conds
      /\ loc'.comps = Overwrite(loc.comps, Initialized)
  BY <1>1, <1>2 DEF Resource
<1>4. ASSUME NEW c \in Comp
      PROVE  \/ loc'.comps[c] = loc.comps[c]
             \/ /\ loc.comps[c] # NoDetails \/ c \in Preinstalled
                /\ loc'.comps[c] # NoDetails /\ Fine(c, loc'.comps[c])
  <2>1. loc'.comps[c] = IF Initialized[c] = NoDetails THEN loc.comps[c]
                        ELSE Initialized[c]
    BY <1>3 DEF Overwrite
  <2>2. Initialized[c] # NoDetails => c \in Known
    BY DEF Initialized
  <2>3. c \in Known => loc.comps[c] # NoDetails
    BY <1>1 DEF Missing
  <2>. QED
    BY <1>1, <2>1, <2>2, <2>3, InitializedFine
<1>5. \A c \in Comp : InstallMoves(c) /\ UpgradeMoves(c)
  BY <1>1, <1>2, <1>3, InstallStays, UpgradeStays, NewTrackersMove
<1>. QED
  BY <1>1, <1>3, <1>4, <1>5, SameFine, PassReports

LEMMA ReconcileReports ==
  ASSUME TypeInv, TypeInv', OrderInv, ReportInv, Reconcile
  PROVE  ReportInv'
<1>. USE DEF processVars, chartVars, trackerVars
<1>1. \A c \in Comp : (it' = it => InstallMoves(c)) /\ (ut' = ut => UpgradeMoves(c))
  BY InstallStays, UpgradeStays
<1>2. /\ loc \in Resource /\ loc.gen \in Nat
      /\ \A c \in Comp : \A g \in Nat :
           /\ it' = newInstallTracker(g) => InstallMoves(c)
           /\ ut' = newUpgradeTracker(g) => UpgradeMoves(c)
  BY ReportTypes, OrderTypes, NewTrackersMove
<1>3. \A s : StateEvent(s).comps = NoComps /\ ~isInstalled(StateEvent(s))
  BY Nothing DEF StateEvent, NoEvent, isInstalled
<1>4. \A s \in VzStates : StateEvent(s) \in Event
  BY NoEventType DEF StateEvent, Event
<1>5. \A t \in VzConditions, v \in Nat :
        LET e == ConditionEvent(loc, t, v)
        IN  /\ e \in Event /\ e.comps = NoComps
            /\ isInstalled(e) => Announced \/ t = "InstallComplete"
  <2>. SUFFICES ASSUME NEW t \in VzConditions, NEW v \in Nat
                PROVE  LET e == ConditionEvent(loc, t, v)
                       IN  /\ e \in Event /\ e.comps = NoComps
                           /\ isInstalled(e) => Announced \/ t = "InstallComplete"
    OBVIOUS
  <2>1. ConditionEvent(loc, t, v) \in Event
    BY <1>2, ConditionEventType
  <2>. QED
    BY <2>1 DEF ConditionEvent, NoEvent, isInstalled, appendConditionIfNecessary,
                Announced
<1>6. CASE \/ ProcNew \/ StartUpgrade \/ StartInstall \/ PauseUpgrade \/ ResumeUpgrade
  <2>1. /\ pc # "idle" /\ UNCHANGED <<crVars, bom, release, it, ut>>
        /\ \E e \in Event : \E r : /\ EndSending(e, r) /\ e.comps = NoComps
                                   /\ isInstalled(e) => Announced
    BY <1>3, <1>4, <1>5, <1>6, OrderTypes
       DEF ProcNew, StartUpgrade, StartInstall, PauseUpgrade, ResumeUpgrade,
           ProcReady, setInstallingState, VzStates, VzConditions
  <2>. QED
    BY <1>1, <2>1, EndSendingReports
<1>7. CASE \/ InitializationFails \/ VersionUnparsable \/ InstallPrerequisiteFails
           \/ StayPaused
  <2>1. /\ pc # "idle" /\ UNCHANGED <<crVars, bom, release, it, ut>>
        /\ EndQuietly(TRUE)
    BY <1>7 DEF InitializationFails, VersionUnparsable, InstallPrerequisiteFails,
                StayPaused, ProcReady
  <2>. QED
    BY <1>1, <2>1, EndQuietlyReports
<1>8. ASSUME checkComponentReadyState, pc # "idle",
             UNCHANGED <<crVars, bom, release, ut>>,
             it' = it \/ it' = NoInstallTracker,
             NEW t \in {"InstallComplete", "UpgradeComplete"},
             EndSending(ConditionEvent(loc, t, 0), FALSE)
      PROVE  ReportInv'
  <2>. DEFINE e == ConditionEvent(loc, t, 0)
  <2>1. e \in Event /\ e.comps = NoComps
    BY <1>5 DEF VzConditions
  <2>2. AllThere
    BY <1>8, ReadyThere
  <2>3. \A c \in Comp : InstallMoves(c) /\ UpgradeMoves(c)
    BY <1>1, <1>2, <1>8 DEF NoInstallTracker
  <2>4. EndSending(e, FALSE)
    BY <1>8
  <2>. HIDE DEF e
  <2>. QED
    BY <1>8, <2>1, <2>2, <2>3, <2>4, EndSendingReports
<1>9. CASE AlreadyInstalled
  BY <1>8, <1>9 DEF AlreadyInstalled, ProcReady, InstallCompleteEvent
<1>10. CASE FinishReady \/ FinishInstall \/ FinishUpgrade
  <2>1. /\ pc # "idle" /\ UNCHANGED <<crVars, bom, release, ut>>
        /\ it' = NoInstallTracker
    BY <1>10 DEF FinishReady, FinishInstall, FinishUpgrade, Finished, InTracker
  <2>2. \A c \in Comp : InstallMoves(c) /\ UpgradeMoves(c)
    BY <1>1, <1>2, <2>1 DEF NoInstallTracker
  <2>3. CASE \E r : EndQuietly(r)
    BY <2>1, <2>2, <2>3, EndQuietlyReports
  <2>4. CASE ~\E r : EndQuietly(r)
    <3>1. /\ checkComponentReadyState
          /\ \E t \in {"InstallComplete", "UpgradeComplete"} :
               EndSending(ConditionEvent(loc, t, 0), FALSE)
      BY <1>10, <2>4
         DEF FinishReady, FinishInstall, FinishUpgrade, InstallCompleteEvent
    <3>. QED
      BY <1>8, <2>1, <3>1
  <2>. QED
    BY <2>3, <2>4
<1>11. CASE ProcReconciling \/ ProcUpgrading
  <2>1. /\ pc # "idle" /\ UNCHANGED <<crVars, bom, release, chan, ut>>
        /\ \E caller : EnterComponents(loc, caller)
    BY <1>11 DEF ProcReconciling, ProcUpgrading, busVars
  <2>. QED
    BY <1>1, <2>1, EnterReports
<1>12. CASE FinishPreUpgrade \/ SkipUpgrade
  <2>1. /\ pc # "idle" /\ pc' # "idle"
        /\ UNCHANGED <<crVars, bom, release, chan, loc>>
        /\ it' = newInstallTracker(0) \/ it' = newInstallTracker(loc.gen)
        /\ ut' = ut \/ ut' = newUpgradeTracker(loc.gen)
    BY <1>12 DEF FinishPreUpgrade, SkipUpgrade, Finished, InTracker, EnterUpgrade,
                 getUpgradeTracker, NoInstallTracker, busVars
  <2>2. \A c \in Comp : InstallMoves(c) /\ UpgradeMoves(c)
    BY <1>1, <1>2, <2>1
  <2>. QED
    BY <2>1, <2>2, SameFine, PassReports
<1>. QED
  BY <1>6, <1>7, <1>9, <1>10, <1>11, <1>12, StartPassReports, InitializeReports,
     ReconcileReadyReports DEF Reconcile

-------------------------------------------------------------------------------
(* The invariant.                                                           *)

LEMMA InitReports ==
  ASSUME Init
  PROVE  ReportInv
<1>1. /\ cache = vz /\ chan = <<>> /\ pc = "idle" /\ loc = NoResource
      /\ it = newInstallTracker(0) /\ ut = newUpgradeTracker(0)
      /\ \A c \in Comp \ Preinstalled : release[c] = NoRelease
  BY DEF Init, IdlePass, NoInstallTracker, NoUpgradeTracker
<1>2. TypeInv
  BY InitType
<1>3. /\ vz.gen = 1 /\ vz.enabled \in Specs /\ vz.comps = NoComps /\ ~isInstalled(vz)
  <2>1. PICK spec, enab : enab \in Specs /\ vz = NewResource(1, spec, enab)
    BY DEF Init
  <2>2. vz.gen = 1 /\ vz.enabled = enab /\ vz.comps = NoComps /\ vz.conds.has = {}
    BY <2>1, Zenon DEF NewResource, NoConditions
  <2>. QED
    BY <2>1, <2>2 DEF isInstalled
<1>4. DOMAIN chan = {}
  BY <1>1
<1>5. Global
  <2>1. ~Announced
    BY <1>1, <1>3, <1>4, Nothing DEF Announced
  <2>. QED
    BY <1>1, <1>3, <2>1 DEF Global
<1>6. ASSUME NEW c \in Comp
      PROVE  /\ \A d \in Copies(c) : d = NoDetails
             /\ Charted(c) /\ Placed(c)
             /\ it.comp[c] = "Init" /\ ut.comp[c] = "Init"
  BY <1>1, <1>3, <1>4, Nothing
     DEF Copies, Queued, Charted, Placed, newInstallTracker, newUpgradeTracker,
         PastInstall, PastUpgrade, PastComponents
<1>7. ASSUME NEW c \in Comp \ Preinstalled
      PROVE  Entry(c)
  <2>1. ~installed(c)
    BY <1>1 DEF NoRelease, installed
  <2>. QED
    BY <1>1, <1>6, <2>1, Nothing DEF Entry, Begun
<1>. QED
  BY <1>2, <1>5, <1>6, <1>7, NothingFine DEF ReportInv

LEMMA UnchangedReports ==
  ASSUME TypeInv, TypeInv', OrderInv, ReportInv, UNCHANGED vars
  PROVE  ReportInv'
<1>1. /\ UNCHANGED <<vz, cache, chan, pc, loc, bom, release, it, ut>>
  BY DEF vars, crVars, busVars, processVars, chartVars, passVars, trackerVars
<1>2. SameCharts /\ PassGen <= PassGen' /\ cache'.gen >= cache.gen
  BY <1>1, OrderTypes DEF SameCharts, PassGen
<1>3. isInstalled(vz') => Announced
  BY <1>1 DEF Announced, isInstalled
<1>4. \A c \in Comp : vz'.comps[c] \in Copies(c)
  BY <1>1 DEF Copies
<1>5. vz'.enabled \in Specs
  BY <1>1 DEF ReportInv, Global
<1>. QED
  BY <1>1, <1>2, <1>3, <1>4, <1>5, SameFine, AroundReports DEF trackerVars

LEMMA ReportInvariant == Spec => [](TypeInv /\ OrderInv /\ ReportInv)
<1>1. Init => ReportInv
  BY InitReports
<1>2. /\ TypeInv /\ TypeInv' /\ OrderInv /\ ReportInv /\ [Next]_vars
      => ReportInv'
  BY UnchangedReports, EnvironmentReports, InstallStepReports, UpgradeStepReports,
     ReconcileReports DEF Next
<1>. QED
  BY <1>1, <1>2, OrderInvariant, PTL DEF Spec

-------------------------------------------------------------------------------
(* What the status may claim.                                               *)

(* A component that reports Ready never claims a generation its chart was   *)
(* not installed with, so checkConfigUpdated hides no edit, although passes *)
(* read old copies, events overwrite each other or are lost, and            *)
(* initComponentStatus and vzStateUpgradeDone claim generations of charts   *)
(* they did not install.                                                    *)
THEOREM LastReconciledIsTrueCorrect == Spec => []LastReconciledIsTrue
<1>1. TypeInv /\ ReportInv => LastReconciledIsTrue
  <2>. SUFFICES ASSUME TypeInv, ReportInv, NEW c \in Comp \ Preinstalled,
                       vz.comps[c].state = "Ready", installed(c)
                PROVE  release[c].gen >= vz.comps[c].lrg
    BY DEF LastReconciledIsTrue
  <2>1. Fine(c, vz.comps[c])
    BY DEF ReportInv, Copies
  <2>2. vz.comps[c].lrg \in Nat /\ release[c].gen \in Nat
    BY ReportTypes DEF Copies
  <2>. QED
    BY <2>1, <2>2 DEF Fine
<1>. QED
  BY <1>1, ReportInvariant, PTL

(* A component no spec disables that reports Ready is in the cluster        *)
(* (checkComponentReadyState looks at the reports alone), whoever wrote the *)
(* report, however late it arrived and whatever crashed in between.         *)
THEOREM ReportsAreTrue ==
  Spec => [](\A x \in Always : vz.comps[x].state = "Ready" => installed(x))
<1>1. ReportInv => \A x \in Always : vz.comps[x].state = "Ready" => installed(x)
  BY DEF ReportInv, Copies, Fine, Always
<1>. QED
  BY <1>1, ReportInvariant, PTL

(* InstallComplete is only announced when everything that no spec disables  *)
(* is in the cluster, and stays there (checkInstallComplete and the shortcut *)
(* of ProcReadyState for a resource whose components all report Ready).     *)
THEOREM InstallCompleteIsTrue ==
  Spec => [](isInstalled(vz) => \A x \in Always : installed(x))
<1>1. ReportInv => (isInstalled(vz) => \A x \in Always : installed(x))
  BY DEF ReportInv, Global, Announced, AllThere
<1>. QED
  BY <1>1, ReportInvariant, PTL

(* A component is not installed before the dependencies that no spec        *)
(* disables: what isDependencyReady found holds until the call of Helm      *)
(* (ComponentDependenciesMet), in whatever order the registry lists them.   *)
THEOREM AlwaysDependenciesInstalled ==
  Spec => [](At("Install") => \A d \in Deps[comp] \cap Always : installed(d))
<1>1. TypeInv /\ ReportInv /\ At("Install")
        => \A d \in Deps[comp] \cap Always : installed(d)
  BY LoopFacts DEF At, ReportInv, Placed
<1>. QED
  BY <1>1, ReportInvariant, PTL

(* When an upgrade is announced, every chart of the registry in the cluster *)
(* is from the requested version (vzStateUpgradeDone), although installs    *)
(* and restarts of components ran between the passes of the upgrade.        *)
THEOREM UpgradedIsComplete ==
  ASSUME Rollback = FALSE
  PROVE  Spec => [][UpgradeDone => \A c \in Known : installed(c)
                                      => release[c].ver = loc.spec]_vars
<1>1. TypeInv /\ VersionInv /\ OrderInv /\ ReportInv /\ [Next]_vars
        => [UpgradeDone => \A c \in Known : installed(c)
                              => release[c].ver = loc.spec]_vars
  <2>. SUFFICES ASSUME TypeInv, VersionInv, OrderInv, ReportInv, UpgradeDone,
                       NEW c \in Known, installed(c)
                PROVE  release[c].ver = loc.spec
    OBVIOUS
  <2>1. pc = "upgrade" /\ ut.state = "UpgradeDone" /\ c \in Comp
    BY RegistryType DEF UpgradeDone, InUpgrade, Known
  <2>2. ut.comp[c] = "End"
    BY <2>1 DEF ReportInv, Charted, PastComponents
  <2>3. release[c].ver = bom /\ loc.spec = bom
    BY <2>1, <2>2 DEF OrderInv, UpgradedInv, VersionInv, UpgradesToRequest
  <2>. QED
    BY <2>3
<1>. QED
  BY <1>1, VersionInvariant, ReportInvariant, PTL DEF Spec
===============================================================================
