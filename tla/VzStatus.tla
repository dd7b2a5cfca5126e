------------------------------- MODULE VzStatus -------------------------------
(***************************************************************************)
(* The status of a Verrazzano custom resource and the pure functions the   *)
(* platform operator computes it with: conditions, the state they imply,   *)
(* the per-component details with their generations, and the merge of an   *)
(* UpdateEvent into the status of the resource.                            *)
(*                                                                         *)
(* A version is a natural number, 0 standing for the empty string.  The    *)
(* condition list is abstracted to the set of its types and the type of    *)
(* its last element, the only things the code ever asks of it.             *)
(***************************************************************************)
EXTENDS Naturals, Sequences

CONSTANT Comp           \* the components of the registry

(***************************************************************************)
(* Types.                                                                  *)
(***************************************************************************)
VzStates == {"", "Ready", "Reconciling", "Upgrading", "Paused"}

VzConditions == {"InstallStarted", "InstallComplete", "UpgradeStarted",
                 "UpgradePaused", "UpgradeComplete"}

CompStates == {"Absent", "Disabled", "PreInstalling", "Installing", "Ready",
               "Upgrading", "Uninstalling", "Uninstalled"}

Conditions == [has : SUBSET VzConditions, last : VzConditions \cup {"none"}]

NoConditions == [has |-> {}, last |-> "none"]

(* ComponentStatusDetails: the state and the two generations.  "Absent" is  *)
(* a component with no entry in the status map.                             *)
Details == [state : CompStates, rg : Nat, lrg : Nat]

NoDetails == [state |-> "Absent", rg |-> 0, lrg |-> 0]

(* The resource: spec.version, the components the spec enables, and the     *)
(* status subresource.  The API server bumps gen on every spec change.      *)
Resource == [gen : Nat, spec : Nat, enabled : SUBSET Comp,
             state : VzStates, conds : Conditions, version : Nat,
             comps : [Comp -> Details]]

(* UpdateEvent: an empty state, version 0, NoConditions and NoDetails stand *)
(* for the fields an event leaves unset.  own marks an event that points to *)
(* the details the running reconcile pass is still changing.                *)
Event == [state : VzStates, conds : Conditions, version : Nat,
          comps : [Comp -> Details], own : BOOLEAN]

NoComps == [c \in Comp |-> NoDetails]

NoEvent == [state |-> "", conds |-> NoConditions, version |-> 0,
            comps |-> NoComps, own |-> FALSE]

(***************************************************************************)
(* Conditions and the states they imply.                                   *)
(***************************************************************************)

(* Faulty variant: the list starts over.                                    *)
appendCondition_Restarts(cs, t) == [has |-> {t}, last |-> t]

appendConditionIfNecessary(cs, t) == [has |-> cs.has \cup {t}, last |-> t]

conditionToVzState(t) ==
  CASE t = "InstallStarted" -> "Reconciling"
    [] t = "UpgradeStarted" -> "Upgrading"
    [] t = "UpgradePaused"  -> "Paused"
    [] OTHER                -> "Ready"

(* Faulty variant: the default of the switch is a failure.                  *)
checkCondtitionType_Failed(t) ==
  CASE t = "PreInstall"        -> "PreInstalling"
    [] t = "InstallStarted"    -> "Installing"
    [] t = "UninstallStarted"  -> "Uninstalling"
    [] t = "UpgradeStarted"    -> "Upgrading"
    [] t = "UninstallComplete" -> "Uninstalled"
    [] OTHER                   -> "Failed"

checkCondtitionType(t) ==
  CASE t = "PreInstall"        -> "PreInstalling"
    [] t = "InstallStarted"    -> "Installing"
    [] t = "UninstallStarted"  -> "Uninstalling"
    [] t = "UpgradeStarted"    -> "Upgrading"
    [] t = "UninstallComplete" -> "Uninstalled"
    [] OTHER                   -> "Ready"

isInstalled(cr) == "InstallComplete" \in cr.conds.has

isLastCondition(cr, t) == cr.conds.last = t

(***************************************************************************)
(* Component details.                                                      *)
(***************************************************************************)

(* updateComponentStatus: a completed install or upgrade moves the          *)
(* reconciling generation to the last reconciled one, any other condition   *)
(* claims the current generation unless one is already claimed.             *)
updateComponentStatus(d, t, gen) ==
  LET done == t \in {"InstallComplete", "UpgradeComplete"}
  IN  [state |-> checkCondtitionType(t),
       rg    |-> IF done THEN 0 ELSE IF d.rg = 0 THEN gen ELSE d.rg,
       lrg   |-> IF ~done THEN d.lrg ELSE IF d.rg > 0 THEN d.rg ELSE gen]

(* checkConfigUpdated: has the resource changed since this component was    *)
(* last (or is being) reconciled?  The faulty variant forgets the last.     *)
checkConfigUpdated_OnlyReconciling(cr, d) == d.rg > 0 /\ cr.gen > d.rg

checkConfigUpdated(cr, d) ==
  IF d.rg > 0 THEN cr.gen > d.rg
              ELSE d.state = "Ready" /\ cr.gen > d.lrg

(***************************************************************************)
(* Events.                                                                 *)
(***************************************************************************)
StateEvent(s) == [NoEvent EXCEPT !.state = s]

CompEvent(c, d) == [NoEvent EXCEPT !.comps[c] = d]

(* updateStatus: append a condition to the list of the resource at hand and *)
(* set the state the condition implies.                                     *)
ConditionEvent(cr, t, v) ==
  [NoEvent EXCEPT !.state   = conditionToVzState(t),
                  !.conds   = appendConditionIfNecessary(cr.conds, t),
                  !.version = v]

(* UpdateEvent.merge: the condition list and the details of a component are *)
(* replaced wholesale by those of the event.  The faulty variant copies a   *)
(* version that is not set.                                                 *)
merge_Unset(cr, e) ==
  [cr EXCEPT !.state   = IF e.state = "" THEN @ ELSE e.state,
             !.conds   = IF e.conds = NoConditions THEN @ ELSE e.conds,
             !.version = e.version,
             !.comps   = [c \in Comp |-> IF e.comps[c] = NoDetails
                                         THEN @[c] ELSE e.comps[c]]]

merge(cr, e) ==
  [cr EXCEPT !.state   = IF e.state = "" THEN @ ELSE e.state,
             !.conds   = IF e.conds = NoConditions THEN @ ELSE e.conds,
             !.version = IF e.version = 0 THEN @ ELSE e.version,
             !.comps   = [c \in Comp |-> IF e.comps[c] = NoDetails
                                         THEN @[c] ELSE e.comps[c]]]
===============================================================================
