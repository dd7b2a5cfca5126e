----------------------------- MODULE VzAgentShared -----------------------------
(***************************************************************************)
(* What the multicluster agent copies along with the applications of a     *)
(* namespace: the secrets and the OAM components they name.  Applications  *)
(* may share one; a label on the copy lists the applications it is for,    *)
(* and the copy is deleted with the last of them.  Secrets are cleaned up  *)
(* by the applications of the admin cluster, components by those that have *)
(* been copied.  The label is a set here: its order has no effect.         *)
(***************************************************************************)
EXTENDS Naturals

CONSTANTS Apps,             \* MultiClusterApplicationConfigurations
          Items,            \* names of secrets, and of components
          MaxShareEdits,
          MaxShareFaults

VARIABLES app,              \* on the admin cluster: placed here, what it names
          source,           \* the secrets and components of the admin cluster
          localApp,         \* the copies of the applications
          secret,           \* the copies of the secrets: present, label
          component,        \* the copies of the components
          multi,            \* the components of MultiClusterComponents
          sharePc,          \* the step of the agent's iteration
          listed,           \* the applications as the iteration listed them
          toWrite,          \* the references it has still to write, ...
          unwritten,        \* ... those it failed to write, ...
          toClean,          \* ... and the copies it has still to clean up
          shareEdits,
          shareFaults

passVars  == <<sharePc, listed, toWrite, unwritten, toClean>>
adminVars == <<app, source, multi>>
shareVars == <<adminVars, localApp, secret, component, passVars, shareEdits,
               shareFaults>>

NoApps == [a \in Apps |-> [placed |-> FALSE, items |-> {}]]

NoCopy == [present |-> FALSE, label |-> {}]

Copies == [present : BOOLEAN, label : SUBSET Apps]

ShareSteps == {"secrets", "writeSecrets", "cleanSecrets", "applications",
               "writeApplications", "deleteApplications", "cleanComponents"}

ShareTypeOK ==
    /\ {app, listed} \subseteq [Apps -> [placed : BOOLEAN, items : SUBSET Items]]
    /\ source \subseteq Items
    /\ localApp \in [Apps -> [state : {"none", "live", "deleting"},
                              items : SUBSET Items]]
    /\ secret \in [Items -> Copies]
    /\ component \in [Items -> Copies]
    /\ multi \subseteq Items
    /\ sharePc \in ShareSteps
    /\ toWrite \subseteq Apps \X (Items \cup {"copy"})
    /\ unwritten \subseteq Apps \X Items
    /\ toClean \subseteq Apps \cup Items
    /\ shareEdits \in 0..MaxShareEdits
    /\ shareFaults \in 0..MaxShareFaults

ShareInit ==
    /\ app = NoApps
    /\ source = Items
    /\ localApp = [a \in Apps |-> [state |-> "none", items |-> {}]]
    /\ secret = [i \in Items |-> NoCopy]
    /\ component = [i \in Items |-> NoCopy]
    /\ multi \in {{}, {CHOOSE i \in Items : TRUE}}
    /\ sharePc = "secrets"
    /\ listed = NoApps
    /\ toWrite = {} /\ unwritten = {} /\ toClean = {}
    /\ shareEdits = 0
    /\ shareFaults = 0

ShareFault == shareFaults < MaxShareFaults /\ shareFaults' = shareFaults + 1

ShareWorks == UNCHANGED shareFaults

(* The applications placed here that name item i: as they are, and as they  *)
(* were listed.                                                             *)
Users(i) == {a \in Apps : app[a].placed /\ i \in app[a].items}

ListedUsers(i) == {a \in Apps : listed[a].placed /\ i \in listed[a].items}

(* The references of the applications on a list: each to the items it names. *)
References(list) == {r \in Apps \X Items : list[r[1]].placed
                                          /\ r[2] \in list[r[1]].items}

(* The list of the admin cluster's applications; one that is forbidden, as  *)
(* it can be while placements change, counts as empty.                      *)
AppsListed == \/ listed' = app /\ ShareWorks
              \/ listed' = NoApps /\ ShareFault

(* What writing the reference of application a leaves of a copy.            *)
Written(c, a) == [present |-> TRUE, label |-> c.label \cup {a}]

(***************************************************************************)
(* syncSecretObjects.                                                      *)
(***************************************************************************)
(* The applications of the admin cluster are listed; without the list the   *)
(* secrets are left alone.                                                  *)
ListForSecrets ==
    /\ sharePc = "secrets"
    /\ \/ /\ AppsListed
          /\ toWrite' = References(listed')
          /\ sharePc' = "writeSecrets"
       \/ /\ sharePc' = "applications" /\ ShareFault
          /\ UNCHANGED <<listed, toWrite>>
    /\ unwritten' = {}
    /\ UNCHANGED <<adminVars, localApp, secret, component, toClean, shareEdits>>

(* Each secret that is named is read and written.  One that cannot be read  *)
(* ends the work on secrets; a write that fails is passed over.             *)
WriteSecret ==
    /\ sharePc = "writeSecrets"
    /\ \E r \in toWrite :
          \/ /\ r[2] \in source /\ ShareWorks
             /\ secret' = [secret EXCEPT ![r[2]] = Written(@, r[1])]
             /\ toWrite' = toWrite \ {r}
             /\ UNCHANGED <<sharePc, unwritten>>
          \/ /\ r[2] \in source /\ ShareFault
             /\ toWrite' = toWrite \ {r}
             /\ unwritten' = unwritten \cup {r}
             /\ UNCHANGED <<sharePc, secret>>
          \/ /\ (r[2] \notin source /\ ShareWorks) \/ ShareFault
             /\ toWrite' = {}
             /\ sharePc' = "applications"
             /\ UNCHANGED <<secret, unwritten>>
    /\ UNCHANGED <<adminVars, localApp, component, listed, toClean, shareEdits>>

ListSecrets ==
    /\ sharePc = "writeSecrets" /\ toWrite = {}
    /\ \/ /\ toClean' = {i \in Items : secret[i].present}
          /\ sharePc' = "cleanSecrets" /\ ShareWorks
       \/ /\ sharePc' = "applications" /\ ShareFault
          /\ UNCHANGED toClean
    /\ UNCHANGED <<adminVars, localApp, secret, component, listed, toWrite,
                   unwritten, shareEdits>>

(* Faulty variant: a shared secret goes with the first of its applications. *)
k8sSecretPlacedOnCluster_All(c) ==
    c.label # {} /\ \A a \in c.label : listed[a].placed

(* One of the applications on the label was listed as placed here.          *)
k8sSecretPlacedOnCluster(c) == \E a \in c.label : listed[a].placed

(* Each copy is deleted or gets the label of its listed applications.       *)
CleanSecret ==
    /\ sharePc = "cleanSecrets"
    /\ \E i \in toClean :
          /\ \/ /\ secret' = [secret EXCEPT
                     ![i] = IF k8sSecretPlacedOnCluster(@)
                            THEN [@ EXCEPT !.label = ListedUsers(i)]
                            ELSE NoCopy]
                /\ ShareWorks
             \/ ShareFault /\ UNCHANGED secret
          /\ toClean' = toClean \ {i}
    /\ UNCHANGED <<adminVars, localApp, component, sharePc, listed, toWrite,
                   unwritten, shareEdits>>

SecretsCleaned ==
    /\ sharePc = "cleanSecrets" /\ toClean = {}
    /\ sharePc' = "applications"
    /\ UNCHANGED <<adminVars, localApp, secret, component, listed, toWrite,
                   unwritten, toClean, shareEdits, shareFaults>>

syncSecretObjects ==
    \/ ListForSecrets \/ WriteSecret \/ ListSecrets
    \/ CleanSecret \/ SecretsCleaned

(***************************************************************************)
(* syncMCApplicationConfigurationObjects.                                  *)
(***************************************************************************)
(* The applications are listed anew; each is written after its components.  *)
ListApplications ==
    /\ sharePc = "applications"
    /\ \/ /\ AppsListed
          /\ toWrite' = References(listed')
                \cup {r \in Apps \X {"copy"} : listed'[r[1]].placed}
          /\ sharePc' = "writeApplications"
       \/ /\ sharePc' = "secrets" /\ ShareFault
          /\ UNCHANGED <<listed, toWrite>>
    /\ UNCHANGED <<adminVars, localApp, secret, component, unwritten, toClean,
                   shareEdits>>

(* syncComponentList: a component that the admin cluster does not have, nor *)
(* a MultiClusterComponent, ends the list of its application, as does one   *)
(* that cannot be read.                                                     *)
WriteComponent ==
    /\ sharePc = "writeApplications"
    /\ \E r \in toWrite :
          /\ r[2] # "copy"
          /\ \/ /\ r[2] \in source /\ ShareWorks
                /\ component' = [component EXCEPT ![r[2]] = Written(@, r[1])]
                /\ toWrite' = toWrite \ {r}
             \/ /\ \/ r[2] \in source /\ ShareFault
                   \/ r[2] \in multi \ source /\ ShareWorks
                /\ toWrite' = toWrite \ {r}
                /\ UNCHANGED component
             \/ /\ \/ r[2] \notin source \cup multi /\ ShareWorks
                   \/ ShareFault
                /\ toWrite' = {q \in toWrite : q[1] # r[1] \/ q[2] = "copy"}
                /\ UNCHANGED component
    /\ UNCHANGED <<adminVars, localApp, secret, sharePc, listed, unwritten,
                   toClean, shareEdits>>

(* createOrUpdateMCAppConfig.                                               *)
CopyApplication ==
    /\ sharePc = "writeApplications"
    /\ \E a \in Apps :
          /\ {r \in toWrite : r[1] = a} = {<<a, "copy">>}
          /\ toWrite' = toWrite \ {<<a, "copy">>}
          /\ \/ /\ localApp' = [localApp EXCEPT
                     ![a] = [state |-> IF @.state = "none" THEN "live"
                                       ELSE @.state,
                             items |-> listed[a].items]]
                /\ ShareWorks
             \/ ShareFault /\ UNCHANGED localApp
    /\ UNCHANGED <<adminVars, secret, component, sharePc, listed, unwritten,
                   toClean, shareEdits>>

(* The copies are listed, and those not placed here are deleted, which      *)
(* their finalizer delays.                                                  *)
ListCopies ==
    /\ sharePc = "writeApplications" /\ toWrite = {}
    /\ \/ /\ toClean' = {a \in Apps : localApp[a].state # "none"
                                       /\ ~listed[a].placed}
          /\ sharePc' = "deleteApplications" /\ ShareWorks
       \/ /\ sharePc' = "secrets" /\ ShareFault
          /\ UNCHANGED toClean
    /\ UNCHANGED <<adminVars, localApp, secret, component, listed, toWrite,
                   unwritten, shareEdits>>

DeleteCopy ==
    /\ sharePc = "deleteApplications"
    /\ \E a \in toClean :
          /\ \/ /\ localApp' = [localApp EXCEPT
                     ![a].state = IF @ = "none" THEN @ ELSE "deleting"]
                /\ ShareWorks
             \/ ShareFault /\ UNCHANGED localApp
          /\ toClean' = toClean \ {a}
    /\ UNCHANGED <<adminVars, secret, component, sharePc, listed, toWrite,
                   unwritten, shareEdits>>

(* deleteOrphanedComponents lists the components and then the copies of the *)
(* applications, ...                                                        *)
ListComponents ==
    /\ sharePc = "deleteApplications" /\ toClean = {}
    /\ \/ /\ toClean' = {i \in Items : component[i].present}
          /\ listed' = [a \in Apps |-> [placed |-> localApp[a].state # "none",
                                        items |-> localApp[a].items]]
          /\ sharePc' = "cleanComponents" /\ ShareWorks
       \/ /\ sharePc' = "secrets" /\ ShareFault
          /\ UNCHANGED <<listed, toClean>>
    /\ UNCHANGED <<adminVars, localApp, secret, component, toWrite, unwritten,
                   shareEdits>>

(* Faulty variant: the label tells which applications a component is for.   *)
CleanedComponent_Label(i) ==
    IF component[i].label = {} THEN NoCopy ELSE component[i]

CleanedComponent(i) ==
    IF ListedUsers(i) = {} THEN NoCopy
    ELSE [component[i] EXCEPT !.label = ListedUsers(i)]

(* ... and leaves those of a MultiClusterComponent alone.  A write that     *)
(* fails ends the clean-up.                                                 *)
CleanComponent ==
    /\ sharePc = "cleanComponents"
    /\ \/ \E i \in toClean :
             /\ component' = IF i \in multi THEN component
                             ELSE [component EXCEPT ![i] = CleanedComponent(i)]
             /\ toClean' = toClean \ {i}
             /\ ShareWorks
             /\ UNCHANGED sharePc
       \/ /\ (toClean = {} /\ ShareWorks) \/ ShareFault
          /\ toClean' = {}
          /\ sharePc' = "secrets"
          /\ UNCHANGED component
    /\ UNCHANGED <<adminVars, localApp, secret, listed, toWrite, unwritten,
                   shareEdits>>

syncMCApplicationConfigurationObjects ==
    \/ ListApplications \/ WriteComponent \/ CopyApplication
    \/ ListCopies \/ DeleteCopy
    \/ ListComponents \/ CleanComponent

(***************************************************************************)
(* The rest of the system.                                                 *)
(***************************************************************************)
(* The controller of the copies removes the finalizer.                      *)
LocalAppGone(a) ==
    /\ localApp[a].state = "deleting"
    /\ localApp' = [localApp EXCEPT ![a] = [state |-> "none", items |-> {}]]
    /\ UNCHANGED <<adminVars, secret, component, passVars, shareEdits,
                   shareFaults>>

(* On the admin cluster an application is edited, placed here or not, and   *)
(* a secret or component is deleted or made again.                          *)
EditApp(a) ==
    /\ shareEdits < MaxShareEdits
    /\ shareEdits' = shareEdits + 1
    /\ \E p \in BOOLEAN, items \in SUBSET Items :
          app' = [app EXCEPT ![a] = [placed |-> p, items |-> items]]
    /\ UNCHANGED <<source, multi, localApp, secret, component, passVars,
                   shareFaults>>

EditSource(i) ==
    /\ shareEdits < MaxShareEdits
    /\ shareEdits' = shareEdits + 1
    /\ source' = (source \ {i}) \cup ({i} \ source)
    /\ UNCHANGED <<app, multi, localApp, secret, component, passVars,
                   shareFaults>>

ShareNext ==
    \/ syncSecretObjects
    \/ syncMCApplicationConfigurationObjects
    \/ \E a \in Apps : LocalAppGone(a) \/ EditApp(a)
    \/ \E i \in Items : EditSource(i)

ShareFairness ==
    /\ WF_shareVars(syncSecretObjects \/ syncMCApplicationConfigurationObjects)
    /\ \A a \in Apps : WF_shareVars(LocalAppGone(a))

ShareSpec == ShareInit /\ [][ShareNext]_shareVars /\ ShareFairness

(***************************************************************************)
(* Properties.                                                             *)
(***************************************************************************)
(* A secret is not taken away from an application that is placed here and   *)
(* names it because another one goes (mcagent_k8ssecret.go:73), unless the  *)
(* application did not yet name it here when the iteration listed the       *)
(* applications (mcagent_k8ssecret.go:29), or its label was not written.    *)
SharedSecretKept ==
    [][\A i \in Items : secret[i].present /\ ~secret'[i].present =>
          \A a \in Users(i) : a \notin ListedUsers(i) \/ <<a, i>> \in unwritten
      ]_shareVars

(* Each application ends up with what it names, and nothing stays behind    *)
(* for applications that are gone, as long as everything named exists: one  *)
(* name without a secret stops the clean-up of the whole namespace          *)
(* (mcagent_k8ssecret.go:44).                                               *)
SharedItemsFollow ==
    \A i \in Items :
        <>[](UNION {app[a].items : a \in {b \in Apps : app[b].placed}}
                \subseteq source
             => /\ secret[i] = IF Users(i) = {} THEN NoCopy
                               ELSE [present |-> TRUE, label |-> Users(i)]
                /\ component[i].present <=> Users(i) # {} \/
                      (i \in multi /\ component[i].present)
                /\ i \notin multi => component[i].label = Users(i))
===============================================================================
