----------------------------- MODULE VzLifecycle ------------------------------
(***************************************************************************)
(* What the status of a Verrazzano resource promises to whoever watches    *)
(* it: the states it goes through, when it becomes and that it remains     *)
(* installed, and when the installed version may change.  VzController     *)
(* implements this specification.                                          *)
(***************************************************************************)
EXTENDS Naturals

VARIABLES
  state,      \* status.state
  complete,  \* is there an InstallComplete condition?
  version,    \* status.version, 0 for none
  operator    \* the version of the running operator

vars == <<state, complete, version, operator>>

Init == state = "" /\ complete = FALSE /\ version = 0 /\ operator = 1

(* The resource is picked up.                                               *)
Accept ==
  /\ state = "" /\ state' = "Ready"
  /\ UNCHANGED <<complete, version, operator>>

(* An installation, or an update of an installed resource, starts and takes *)
(* the version of the operator.                                             *)
StartReconciling ==
  /\ state = "Ready" /\ state' = "Reconciling"
  /\ version <= operator /\ version' = operator
  /\ UNCHANGED <<complete, operator>>

(* Everything enabled is ready: from now on the resource is installed.      *)
CompleteInstall ==
  /\ state \in {"Ready", "Reconciling"} /\ state' = "Ready"
  /\ complete' = TRUE
  /\ UNCHANGED <<version, operator>>

StartUpgrade ==
  /\ state = "Ready" /\ complete /\ version # 0
  /\ state' = "Upgrading"
  /\ UNCHANGED <<complete, version, operator>>

(* The components are upgraded: the only way an installed resource gets a   *)
(* new version while it is not being reconciled.                            *)
SetVersion ==
  /\ state = "Upgrading" /\ version < operator
  /\ version' = operator
  /\ UNCHANGED <<state, complete, operator>>

(* Also when there was nothing to upgrade: an edit may have withdrawn the   *)
(* request before the resource was seen to be Upgrading.                    *)
CompleteUpgrade ==
  /\ state = "Upgrading" /\ state' = "Ready"
  /\ UNCHANGED <<complete, version, operator>>

(* The upgrade was overtaken by a newer operator; it restarts from Ready.   *)
Pause ==
  /\ state = "Upgrading" /\ state' = "Paused"
  /\ UNCHANGED <<complete, version, operator>>

Resume ==
  /\ state = "Paused" /\ state' = "Ready"
  /\ UNCHANGED <<complete, version, operator>>

NewOperator ==
  /\ operator' > operator
  /\ UNCHANGED <<state, complete, version>>

Next ==
  \/ Accept \/ StartReconciling \/ CompleteInstall
  \/ StartUpgrade \/ SetVersion \/ CompleteUpgrade \/ Pause \/ Resume
  \/ NewOperator

Spec == Init /\ [][Next]_vars
===============================================================================
