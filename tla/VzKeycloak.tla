------------------------------ MODULE VzKeycloak ------------------------------
(***************************************************************************)
(* The realm of Verrazzano in Keycloak.  configureKeycloakRealms creates   *)
(* what is missing, one command in the Keycloak pod after the other, and   *)
(* starts anew after any failure.  It runs when Keycloak was installed or  *)
(* upgraded, when the pod of its database was created (which loses         *)
(* everything if the database has no volume) and when the secret of the    *)
(* Thanos user appears.  Rancher is told the secret of its client.         *)
(*                                                                         *)
(* The commands of all passes share one login, which the cluster operator  *)
(* uses too when it creates the client of a managed cluster.               *)
(***************************************************************************)
EXTENDS Naturals, Sequences

CONSTANTS MaxKcFaults,      \* failing commands, crashes and pod restarts
          MaxLosses,        \* restarts of the database
          MaxUnread         \* reads of a secret that fail

VARIABLES kcStep,       \* position in ConfigSteps, 0 between passes
          settingPw,    \* the user was created, its password comes next
          realm,        \* the realm in the database
          kcDue,        \* the watch: a pass is asked for, or was meanwhile
          kcPod,        \* the pod is ready
          login,        \* the pod holds a login
          adminPw,      \* password of the admin in the database, 0: no admin
          httpSecret,   \* the admin's password in its secret
          clientSecret, \* secret of Rancher's client
          authConfig,   \* the secret Rancher uses
          thanosSecret, \* Thanos has its secret
          vmcPass,      \* the cluster operator is logged in
          watchLost,    \* a request was cleared with an older one
          kcFaults, losses, unread

keycloakVars == <<kcStep, settingPw, realm, kcDue, kcPod, login, adminPw,
                  httpSecret, clientSecret, authConfig, thanosSecret, vmcPass,
                  watchLost, kcFaults, losses, unread>>

ConfigSteps == <<"login", "realm", "groups", "roles", "verrazzano", "thanos",
                 "clients", "rancher", "authConfig", "policies", "enable",
                 "removeLogin", "clearWatch">>

Created == {"groups", "roles", "verrazzano", "clients", "rancher", "policies"}

NoRealm == [exists |-> FALSE, made |-> {}, passwords |-> {},
            enabled |-> FALSE]

KeycloakTypeOK ==
    /\ kcStep \in 0 .. Len(ConfigSteps) /\ settingPw \in BOOLEAN
    /\ realm \in [exists : BOOLEAN,
                  made : SUBSET (Created \cup {"thanos", "managed"}),
                  passwords : SUBSET {"verrazzano", "thanos"},
                  enabled : BOOLEAN]
    /\ kcDue \in {"no", "yes", "again"}
    /\ {kcPod, login, thanosSecret, vmcPass, watchLost} \subseteq BOOLEAN
    /\ {adminPw, httpSecret, clientSecret, authConfig} \subseteq Nat

(* Keycloak has been installed; PostInstall is about to configure it.       *)
KeycloakInit ==
    /\ kcStep = 0 /\ settingPw = FALSE
    /\ realm = NoRealm
    /\ kcDue = "yes"
    /\ kcPod = TRUE /\ login = FALSE
    /\ adminPw = 1 /\ httpSecret = 1
    /\ clientSecret = 0 /\ authConfig = 0
    /\ thanosSecret \in BOOLEAN
    /\ vmcPass = FALSE /\ watchLost = FALSE
    /\ kcFaults = 0 /\ losses = 0 /\ unread = 0

At(step) == kcStep # 0 /\ ConfigSteps[kcStep] = step /\ ~settingPw

AddKcWatch == kcDue' = IF kcStep = 0 THEN "yes" ELSE "again"

(* A command of kcadm succeeds with a login that the database knows.        *)
CommandWorks == kcPod /\ login /\ adminPw # 0

GiveUp == kcStep' = 0 /\ settingPw' = FALSE /\ kcDue' = "yes"

(***************************************************************************)
(* The passes.                                                             *)
(***************************************************************************)
BeginConfig ==
    /\ kcStep = 0 /\ kcDue = "yes" /\ kcPod
    /\ kcStep' = 1
    /\ UNCHANGED <<settingPw, realm, kcDue, kcPod, login, adminPw, httpSecret,
                   clientSecret, authConfig, thanosSecret, vmcPass, watchLost,
                   kcFaults, losses, unread>>

DatabaseKnowsAdmin == kcPod /\ adminPw = httpSecret

(* Faulty variant: the pod stays.                                           *)
LoginKeycloak_Kept ==
    /\ At("login")
    /\ \/ /\ DatabaseKnowsAdmin
          /\ login' = TRUE
          /\ kcStep' = kcStep + 1
          /\ UNCHANGED <<settingPw, kcDue, kcPod>>
       \/ /\ ~DatabaseKnowsAdmin
          /\ GiveUp
          /\ UNCHANGED <<kcPod, login>>
    /\ UNCHANGED <<realm, adminPw, httpSecret, clientSecret, authConfig,
                   thanosSecret, vmcPass, watchLost, kcFaults, losses, unread>>

(* If the database has no volume, a login that fails is taken for the loss  *)
(* of its data: the pod is recycled.                                        *)
LoginKeycloak ==
    /\ At("login")
    /\ \/ /\ DatabaseKnowsAdmin
          /\ login' = TRUE
          /\ kcStep' = kcStep + 1
          /\ UNCHANGED <<settingPw, kcDue, kcPod>>
       \/ /\ ~DatabaseKnowsAdmin
          /\ kcPod' = (kcPod /\ MaxLosses = 0)
          /\ login' = (login /\ MaxLosses = 0)
          /\ GiveUp
    /\ UNCHANGED <<realm, adminPw, httpSecret, clientSecret, authConfig,
                   thanosSecret, vmcPass, watchLost, kcFaults, losses, unread>>

(* Faulty variant: the realm is created ready for use.                      *)
createVerrazzanoSystemRealm_Enabled ==
    /\ At("realm") /\ CommandWorks
    /\ realm' = IF realm.exists THEN realm
                ELSE [NoRealm EXCEPT !.exists = TRUE, !.enabled = TRUE]
    /\ kcStep' = kcStep + 1
    /\ UNCHANGED <<settingPw, kcDue, kcPod, login, adminPw, httpSecret,
                   clientSecret, authConfig, thanosSecret, vmcPass, watchLost,
                   kcFaults, losses, unread>>

createVerrazzanoSystemRealm ==
    /\ At("realm") /\ CommandWorks
    /\ realm' = IF realm.exists THEN realm
                                ELSE [NoRealm EXCEPT !.exists = TRUE]
    /\ kcStep' = kcStep + 1
    /\ UNCHANGED <<settingPw, kcDue, kcPod, login, adminPw, httpSecret,
                   clientSecret, authConfig, thanosSecret, vmcPass, watchLost,
                   kcFaults, losses, unread>>

(* Groups, roles, clients without a secret that matters, and policies.      *)
CreateMissing(item) ==
    /\ At(item) /\ CommandWorks /\ realm.exists
    /\ realm' = [realm EXCEPT !.made = @ \cup {item}]
    /\ kcStep' = kcStep + 1
    /\ UNCHANGED <<settingPw, kcDue, kcPod, login, adminPw, httpSecret,
                   clientSecret, authConfig, thanosSecret, vmcPass, watchLost,
                   kcFaults, losses, unread>>

(* A user that exists is left alone.                                        *)
createUser(u) ==
    /\ At(u) /\ CommandWorks /\ realm.exists
    /\ IF u \in realm.made \/ (u = "thanos" /\ ~thanosSecret)
       THEN kcStep' = kcStep + 1 /\ UNCHANGED <<settingPw, realm>>
       ELSE /\ realm' = [realm EXCEPT !.made = @ \cup {u}]
            /\ settingPw' = TRUE
            /\ UNCHANGED kcStep
    /\ UNCHANGED <<kcDue, kcPod, login, adminPw, httpSecret, clientSecret,
                   authConfig, thanosSecret, vmcPass, watchLost, kcFaults,
                   losses, unread>>

SetPassword ==
    /\ settingPw /\ CommandWorks /\ realm.exists
    /\ realm' = [realm EXCEPT !.passwords = @ \cup {ConfigSteps[kcStep]}]
    /\ settingPw' = FALSE
    /\ kcStep' = kcStep + 1
    /\ UNCHANGED <<kcDue, kcPod, login, adminPw, httpSecret, clientSecret,
                   authConfig, thanosSecret, vmcPass, watchLost, kcFaults,
                   losses, unread>>

(* A new client has a new secret.                                           *)
CreateRancherClient ==
    /\ At("rancher") /\ CommandWorks /\ realm.exists
    /\ realm' = [realm EXCEPT !.made = @ \cup {"rancher"}]
    /\ clientSecret' = IF "rancher" \in realm.made THEN clientSecret
                                                   ELSE losses + 1
    /\ kcStep' = kcStep + 1
    /\ UNCHANGED <<settingPw, kcDue, kcPod, login, adminPw, httpSecret,
                   authConfig, thanosSecret, vmcPass, watchLost, kcFaults,
                   losses, unread>>

(* The secret is read under a login of its own.                             *)
updateRancherClientSecretForKeycloakAuthConfig ==
    /\ At("authConfig") /\ DatabaseKnowsAdmin /\ realm.exists
    /\ login' = TRUE
    /\ authConfig' = clientSecret
    /\ kcStep' = kcStep + 1
    /\ UNCHANGED <<settingPw, realm, kcDue, kcPod, adminPw, httpSecret,
                   clientSecret, thanosSecret, vmcPass, watchLost, kcFaults,
                   losses, unread>>

enableVerrazzanoSystemRealm ==
    /\ At("enable") /\ CommandWorks /\ realm.exists
    /\ realm' = [realm EXCEPT !.enabled = TRUE]
    /\ kcStep' = kcStep + 1
    /\ UNCHANGED <<settingPw, kcDue, kcPod, login, adminPw, httpSecret,
                   clientSecret, authConfig, thanosSecret, vmcPass, watchLost,
                   kcFaults, losses, unread>>

(* This one needs no database.                                              *)
removeLoginConfigFile ==
    /\ At("removeLogin") /\ kcPod /\ login
    /\ login' = FALSE
    /\ kcStep' = kcStep + 1
    /\ UNCHANGED <<settingPw, realm, kcDue, kcPod, adminPw, httpSecret,
                   clientSecret, authConfig, thanosSecret, vmcPass, watchLost,
                   kcFaults, losses, unread>>

(* The reconciler clears the watch, requested again meanwhile or not.       *)
EndConfig ==
    /\ At("clearWatch")
    /\ kcStep' = 0
    /\ kcDue' = "no"
    /\ watchLost' = (watchLost \/ kcDue = "again")
    /\ UNCHANGED <<settingPw, realm, kcPod, login, adminPw, httpSecret,
                   clientSecret, authConfig, thanosSecret, vmcPass, kcFaults,
                   losses, unread>>

(* A command that cannot work fails, and with it the pass.                    *)
CommandFails ==
    /\ kcStep # 0 /\ ~At("login") /\ ~At("clearWatch")
    /\ CASE At("removeLogin") -> ~(kcPod /\ login)
         [] At("authConfig") -> ~(DatabaseKnowsAdmin /\ realm.exists)
         [] At("realm") -> ~CommandWorks
         [] OTHER -> ~(CommandWorks /\ realm.exists)
    /\ GiveUp
    /\ UNCHANGED <<realm, kcPod, login, adminPw, httpSecret, clientSecret,
                   authConfig, thanosSecret, vmcPass, watchLost, kcFaults,
                   losses, unread>>

(***************************************************************************)
(* The others.                                                             *)
(***************************************************************************)
(* The client of a managed cluster is made under the same login.            *)
VmcLogin ==
    /\ ~vmcPass /\ DatabaseKnowsAdmin
    /\ "managed" \notin realm.made
    /\ login' = TRUE /\ vmcPass' = TRUE
    /\ UNCHANGED <<kcStep, settingPw, realm, kcDue, kcPod, adminPw, httpSecret,
                   clientSecret, authConfig, thanosSecret, watchLost,
                   kcFaults, losses, unread>>

createManagedClusterKeycloakClient ==
    /\ vmcPass
    /\ realm' = IF CommandWorks /\ realm.exists
                THEN [realm EXCEPT !.made = @ \cup {"managed"}] ELSE realm
    /\ vmcPass' = FALSE
    /\ UNCHANGED <<kcStep, settingPw, kcDue, kcPod, login, adminPw, httpSecret,
                   clientSecret, authConfig, thanosSecret, watchLost,
                   kcFaults, losses, unread>>

ThanosInstalled ==
    /\ ~thanosSecret
    /\ thanosSecret' = TRUE
    /\ AddKcWatch
    /\ UNCHANGED <<kcStep, settingPw, realm, kcPod, login, adminPw, httpSecret,
                   clientSecret, authConfig, vmcPass, watchLost, kcFaults,
                   losses, unread>>

(* Keycloak creates its schema and the admin, with the password it finds.   *)
KcPodStarts ==
    /\ ~kcPod
    /\ kcPod' = TRUE
    /\ adminPw' = IF adminPw = 0 THEN httpSecret ELSE adminPw
    /\ UNCHANGED <<kcStep, settingPw, realm, kcDue, login, httpSecret,
                   clientSecret, authConfig, thanosSecret, vmcPass, watchLost,
                   kcFaults, losses, unread>>

(* The pod of the database is created anew, without the data.               *)
LoseDatabase ==
    /\ losses < MaxLosses
    /\ losses' = losses + 1
    /\ realm' = NoRealm
    /\ adminPw' = 0 /\ clientSecret' = 0
    /\ AddKcWatch
    /\ UNCHANGED <<kcStep, settingPw, kcPod, login, httpSecret, authConfig,
                   thanosSecret, vmcPass, watchLost, kcFaults, unread>>

(* A command fails or the operator stops; after its restart it is told of   *)
(* the database's pod again.                                                *)
ConfigInterrupted ==
    /\ kcStep # 0
    /\ kcFaults < MaxKcFaults
    /\ kcFaults' = kcFaults + 1
    /\ GiveUp
    /\ UNCHANGED <<realm, kcPod, login, adminPw, httpSecret, clientSecret,
                   authConfig, thanosSecret, vmcPass, watchLost, losses,
                   unread>>

KcPodStops ==
    /\ kcPod
    /\ kcFaults < MaxKcFaults
    /\ kcFaults' = kcFaults + 1
    /\ kcPod' = FALSE /\ login' = FALSE
    /\ UNCHANGED <<kcStep, settingPw, realm, kcDue, adminPw, httpSecret,
                   clientSecret, authConfig, thanosSecret, vmcPass, watchLost,
                   losses, unread>>

(* Any error of reading the secret counts as its absence, although the      *)
(* write after it may well succeed.                                         *)
createAuthSecret ==
    /\ kcStep = 0
    /\ unread < MaxUnread
    /\ unread' = unread + 1
    /\ httpSecret' = httpSecret + 1
    /\ UNCHANGED <<kcStep, settingPw, realm, kcDue, kcPod, login, adminPw,
                   clientSecret, authConfig, thanosSecret, vmcPass, watchLost,
                   kcFaults, losses>>

ConfigStep ==
    \/ BeginConfig \/ LoginKeycloak \/ createVerrazzanoSystemRealm
    \/ \E i \in {"groups", "roles", "clients", "policies"} : CreateMissing(i)
    \/ \E u \in {"verrazzano", "thanos"} : createUser(u)
    \/ SetPassword \/ CreateRancherClient
    \/ updateRancherClientSecretForKeycloakAuthConfig
    \/ enableVerrazzanoSystemRealm \/ removeLoginConfigFile \/ EndConfig
    \/ CommandFails

KeycloakNext ==
    \/ ConfigStep \/ VmcLogin \/ createManagedClusterKeycloakClient
    \/ ThanosInstalled \/ KcPodStarts \/ LoseDatabase \/ ConfigInterrupted
    \/ KcPodStops \/ createAuthSecret

(* The operators poll and retry; the pod is started again by its set.       *)
KeycloakFairness ==
    /\ WF_keycloakVars(ConfigStep)
    /\ WF_keycloakVars(VmcLogin)
    /\ WF_keycloakVars(createManagedClusterKeycloakClient)
    /\ WF_keycloakVars(KcPodStarts)

KeycloakSpec ==
    KeycloakInit /\ [][KeycloakNext]_keycloakVars /\ KeycloakFairness

(***************************************************************************)
(* Properties.                                                             *)
(***************************************************************************)
(* The realm serves nobody before everything in it was created and Rancher  *)
(* knows the secret of its client (keycloak.go:1223, 1468), whatever was    *)
(* lost or interrupted between the steps.                                   *)
EnabledIsComplete ==
    realm.enabled => Created \subseteq realm.made /\ authConfig = clientSecret

(* After every loss of the database the realm, with the user of Thanos and  *)
(* the client of the managed cluster, is there again                        *)
(* (keycloak_component.go:107), unless the request for it was cleared       *)
(* together with the one before it (install.go:190).                        *)
RealmRestored ==
    <>[](\/ /\ realm.enabled /\ "managed" \in realm.made
            /\ thanosSecret => "thanos" \in realm.made
         \/ watchLost)

(* The admin's password is the one in its secret: the secret is created     *)
(* only if it does not exist (keycloak.go:1153).                            *)
AdminMayLogIn == adminPw # 0 => adminPw = httpSecret
===============================================================================
