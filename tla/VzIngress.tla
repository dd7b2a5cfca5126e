------------------------------ MODULE VzIngress --------------------------------
(***************************************************************************)
(* The controller of the ingress traits of one application.  Each trait    *)
(* has its certificate and the virtual services and policies of its rules; *)
(* all share the application's gateway, with one server for each trait.    *)
(* One worker reconciles the traits it has queued.  One action is one call *)
(* that changes something, with the reads before it.  The gateway and the  *)
(* policies are read through the cache of the operator; a trait is read    *)
(* when its pass begins, and a pass from before a change stands for one    *)
(* with an old cache.  An update of a version that is not current fails.   *)
(*                                                                         *)
(* The virtual service of a rule stands for its destination rule too, and  *)
(* the certificate for the secret cert-manager makes of it.  What a trait  *)
(* owns goes with it at once.  The application stays, and a name is used   *)
(* for one trait.                                                          *)
(***************************************************************************)
EXTENDS Integers

CONSTANTS Traits,            \* the traits of the application
          LegacyTraits,      \* those with the name of the application
          Kinds,             \* of traits: some of "plain", "guarded", "own"
          MaxRules,          \* the rules of a trait
          Addresses,         \* the addresses the ingress gateway may have
          MaxDisturbances    \* changes of traits and of the address, failed
                             \* calls and crashes of the operator

VARIABLES trait,        \* the traits in the API server
          queued,       \* the traits whose reconcile is due
          gateway,      \* the host of each server of the gateway
          gatewaySeen,  \* the gateway in the cache, and if it is current
          certs,        \* the host of the certificate of each trait
          routes,       \* the host of the virtual service of each rule
          policies,     \* the rules with authorization policies
          policiesSeen, \* those policies in the cache
          overlooked,   \* the policies the last clean-up did not list
          address,      \* of the ingress gateway
          serviceUp,    \* the workloads have their services
          pass,         \* the pass of the worker
          unguarded,    \* traits deleted before they had the finalizer
          disturbances

policyVars == <<policies, policiesSeen, overlooked>>
objectVars == <<gateway, gatewaySeen, certs, routes, policyVars>>
worldVars  == <<address, serviceUp, unguarded>>

ingressVars == <<trait, queued, objectVars, pass, worldVars,
                 disturbances>>

NoObject == -2   \* no such object
Own      == -1   \* the hosts the trait names
NoHost   == 0    \* no host could be made

Hosts == Addresses \cup {NoObject, Own, NoHost}

Rules == 1..MaxRules

(* A trait leaves hosts and certificate to the operator, with paths guarded *)
(* by policies or not, or names its own hosts and the secret for them.      *)
TraitSpecs == [kind : Kinds, rules : Rules]

Gone == [phase |-> "gone"]

Exists(r) == r.phase \in {"live", "deleting"}

NoResources == [of |-> "none"]

Idle == [step |-> "idle"]

IngressTypeOK ==
    /\ \A t \in Traits : LET r == trait[t] IN
          \/ r = Gone
          \/ /\ Exists(r) /\ r.spec \in TraitSpecs
             /\ r.gen \in 0..MaxDisturbances /\ r.finalizer \in BOOLEAN
    /\ queued \subseteq Traits /\ unguarded \subseteq Traits
    /\ gateway \in [Traits -> Hosts]
    /\ gatewaySeen \in [of : [Traits -> Hosts], current : BOOLEAN]
    /\ certs \in [Traits -> Hosts]
    /\ routes \in [Traits -> [Rules -> Hosts]]
    /\ {policies, policiesSeen, overlooked} \subseteq [Traits -> SUBSET Rules]
    /\ address \in Addresses \cup {NoHost}
    /\ serviceUp \in BOOLEAN
    /\ disturbances \in 0..MaxDisturbances

NewTrait(s) == [phase |-> "live", gen |-> 0, finalizer |-> FALSE, spec |-> s,
                status |-> NoResources]

(* The application has just been deployed.                                  *)
IngressInit ==
    /\ trait \in [Traits -> {NewTrait(s) : s \in TraitSpecs}]
    /\ queued = Traits
    /\ gateway = [t \in Traits |-> NoObject]
    /\ gatewaySeen = [of |-> gateway, current |-> TRUE]
    /\ certs = [t \in Traits |-> NoObject]
    /\ routes = [t \in Traits |-> [i \in Rules |-> NoObject]]
    /\ policies = [t \in Traits |-> {}]
    /\ policiesSeen = policies /\ overlooked = policies
    /\ address \in Addresses
    /\ serviceUp = FALSE
    /\ pass = Idle
    /\ unguarded = {}
    /\ disturbances = 0

(***************************************************************************)
(* A pass.                                                                 *)
(***************************************************************************)
(* A host made of the names of the application and the namespace and the    *)
(* address of the ingress gateway; of these only the address changes.       *)
buildAppFullyQualifiedHostName == address

(* createHostsFromIngressTraitRule takes the hosts of the rule, or makes    *)
(* one, if there is an address.                                             *)
HostOf(spec) == IF spec.kind = "own" THEN Own
                ELSE buildAppFullyQualifiedHostName

(* What updateTraitStatus lists; the gateway only if this pass wrote it.    *)
CreateResources(spec, wroteGateway) == [of |-> spec, gateway |-> wroteGateway]

Disturb == /\ disturbances < MaxDisturbances
           /\ disturbances' = disturbances + 1

(* A call fails.                                                            *)
CallFails == Disturb

CallWorks == UNCHANGED disturbances

GoTo(step) == pass' = [pass EXCEPT !.step = step]

Requeue == pass' = Idle /\ queued' = queued \cup {pass.t}

(* Reconcile fetches the trait, doReconcile decides, and coallateAllHosts   *)
(* makes the hosts; its errors are lost with the copy of the status.        *)
StartPass(t) ==
    /\ pass = Idle /\ t \in queued
    /\ queued' = queued \ {t}
    /\ pass' = IF ~Exists(trait[t]) THEN Idle
               ELSE [t |-> t, copy |-> trait[t],
                     step |-> IF trait[t].phase = "deleting"
                              THEN "cleanup" ELSE "finalizer",
                     host |-> HostOf(trait[t].spec),
                     servers |-> [x \in Traits |-> NoObject],
                     wroteGateway |-> FALSE, rule |-> 1, errors |-> FALSE]
    /\ UNCHANGED <<trait, objectVars, worldVars, disturbances>>

(* The update is of the current version.                                    *)
Writable == trait[pass.t] = pass.copy

(* addFinalizerIfRequired: no failure is an error, so the pass goes on      *)
(* without the finalizer.                                                   *)
addFinalizer ==
    /\ pass.step = "finalizer"
    /\ \/ /\ ~pass.copy.finalizer /\ Writable
          /\ trait' = [trait EXCEPT ![pass.t].finalizer = TRUE]
          /\ pass' = [pass EXCEPT !.step = "certificate",
                                  !.copy.finalizer = TRUE]
          /\ queued' = queued \cup {pass.t} /\ CallWorks
       \/ /\ pass.copy.finalizer \/ ~Writable
          /\ GoTo("certificate") /\ CallWorks /\ UNCHANGED <<trait, queued>>
       \/ /\ ~pass.copy.finalizer /\ CallFails
          /\ GoTo("certificate") /\ UNCHANGED <<trait, queued>>
    /\ UNCHANGED <<objectVars, worldVars>>

(* createOrUseGatewaySecret removes the certificate of the legacy name and  *)
(* writes that of the trait; a failure is an error of the status, and       *)
(* nothing else is written.                                                 *)
createOrUseGatewaySecret ==
    /\ pass.step = "certificate"
    /\ \/ /\ pass.copy.spec.kind = "own"
          /\ GoTo("gateway") /\ CallWorks /\ UNCHANGED certs
       \/ /\ pass.copy.spec.kind # "own"
          /\ certs' = [t \in Traits |-> IF t = pass.t THEN pass.host
                                        ELSE IF t \in LegacyTraits THEN NoObject
                                        ELSE certs[t]]
          /\ GoTo("gateway") /\ CallWorks
       \/ /\ pass.copy.spec.kind # "own" /\ CallFails
          /\ pass' = [pass EXCEPT !.step = "status", !.errors = TRUE]
          /\ UNCHANGED certs
    /\ UNCHANGED <<trait, queued, gateway, gatewaySeen, routes,
                   policyVars, worldVars>>

(* Faulty variant: a gateway that needs no change ends the pass.            *)
WriteServers_NoChange(servers, Then) ==
    /\ CallWorks
    /\ \/ /\ servers # gatewaySeen.of /\ gatewaySeen.current
          /\ gateway' = servers
          /\ gatewaySeen' = [gatewaySeen EXCEPT !.current = FALSE]
          /\ Then /\ UNCHANGED queued
       \/ /\ servers = gatewaySeen.of \/ ~gatewaySeen.current
          /\ Requeue /\ UNCHANGED <<gateway, gatewaySeen>>

(* CreateOrUpdateProtobuf of the servers.  Only the controller writes the   *)
(* gateway, and only over the current version: its cache is one behind at   *)
(* most.                                                                    *)
WriteServers(servers, Then) ==
    \/ /\ servers = gatewaySeen.of
       /\ Then /\ CallWorks /\ UNCHANGED <<gateway, gatewaySeen, queued>>
    \/ /\ servers # gatewaySeen.of /\ gatewaySeen.current
       /\ gateway' = servers
       /\ gatewaySeen' = [gatewaySeen EXCEPT !.current = FALSE]
       /\ Then /\ CallWorks /\ UNCHANGED queued
    \/ /\ \/ servers # gatewaySeen.of /\ ~gatewaySeen.current /\ CallWorks
          \/ CallFails
       /\ Requeue /\ UNCHANGED <<gateway, gatewaySeen>>

(* updateGatewayServersList replaces or adds the server of the trait.       *)
updateGatewayServersList(servers) ==
    [servers EXCEPT ![pass.t] = pass.host]

createOrUpdateGateway ==
    /\ pass.step = "gateway"
    /\ LET servers == updateGatewayServersList(gatewaySeen.of)
       IN  WriteServers(servers,
             pass' = [pass EXCEPT !.step = "rule",
                        !.wroteGateway = servers # gatewaySeen.of])
    /\ UNCHANGED <<trait, certs, routes, policyVars, worldVars>>

(* The virtual service and the destination rule of a rule; what a trait that *)
(* is gone would own goes again at once.                                    *)
createOrUpdateVirtualService(works, host) ==
    routes' = IF works /\ Exists(trait[pass.t])
              THEN [routes EXCEPT ![pass.t][pass.rule] = host] ELSE routes

(* A policy that is not in the cache is created, which fails if it is there. *)
PolicyHidden ==
    /\ pass.copy.spec.kind = "guarded"
    /\ pass.rule \in policies[pass.t] \ policiesSeen[pass.t]

(* The policies of the paths; the trait does not own them.                  *)
createOrUpdateAuthorizationPolicies(works) ==
    /\ works => ~PolicyHidden
    /\ policies' = IF works /\ pass.copy.spec.kind = "guarded"
                   THEN [policies EXCEPT ![pass.t] = @ \cup {pass.rule}]
                   ELSE policies
    /\ UNCHANGED <<policiesSeen, overlooked>>

(* One rule: without a service the pass is repeated later; the host is made *)
(* anew; a failing write is an error of the status.                         *)
createOrUpdateRule ==
    /\ pass.step = "rule"
    /\ \/ /\ ~serviceUp
          /\ Requeue /\ CallWorks /\ UNCHANGED <<routes, policyVars>>
       \/ /\ serviceUp
          /\ LET host == HostOf(pass.copy.spec)
             IN  \E route, policy \in BOOLEAN :
                   /\ IF route /\ (policy \/ PolicyHidden)
                      THEN CallWorks ELSE CallFails
                   /\ createOrUpdateVirtualService(route, host)
                   /\ createOrUpdateAuthorizationPolicies(policy)
                   /\ pass' = [pass EXCEPT
                         !.rule = @ + 1,
                         !.step = IF pass.rule < pass.copy.spec.rules THEN @
                                  ELSE "status",
                         !.errors = @ \/ host = NoHost \/ ~(route /\ policy)]
          /\ UNCHANGED queued
    /\ UNCHANGED <<trait, gateway, gatewaySeen, certs, worldVars>>

(* updateTraitStatus writes the outcome if it is new or has errors; then    *)
(* the trait is reconciled again.                                           *)
updateTraitStatus ==
    /\ pass.step = "status"
    /\ LET new == CreateResources(pass.copy.spec, pass.wroteGateway)
       IN  IF pass.errors \/ pass.copy.status # new
           THEN /\ Requeue
                /\ \/ /\ Writable /\ CallWorks
                      /\ trait' = [trait EXCEPT ![pass.t].status = new]
                   \/ /\ ~Writable /\ CallWorks /\ UNCHANGED trait
                   \/ CallFails /\ UNCHANGED trait
           ELSE /\ pass' = Idle /\ CallWorks
                /\ UNCHANGED <<queued, trait>>
    /\ UNCHANGED <<objectVars, worldVars>>

(* cleanup removes the certificate and its secret, ...                      *)
cleanupCert ==
    /\ pass.step = "cleanup"
    /\ \/ /\ certs' = [certs EXCEPT ![pass.t] = NoObject]
          /\ GoTo("policies") /\ CallWorks /\ UNCHANGED queued
       \/ /\ CallFails
          /\ \/ certs' = [certs EXCEPT ![pass.t] = NoObject] \/ UNCHANGED certs
          /\ Requeue
    /\ UNCHANGED <<trait, gateway, gatewaySeen, routes, policyVars, worldVars>>

(* ... the policies: those of the cache are listed, and a list that fails   *)
(* is logged and passed over.  A deletion that fails, or finds its policy   *)
(* gone, ends the pass.                                                     *)
cleanupPolicies ==
    /\ pass.step = "policies"
    /\ LET t      == pass.t
           listed == policiesSeen[t]
           Delete(some) == policies' = [policies EXCEPT ![t] = @ \ some]
           Overlook     ==
               overlooked' = [overlooked EXCEPT ![t] = policies'[t]]
       IN  \/ /\ listed \subseteq policies[t] /\ CallWorks
              /\ Delete(listed) /\ Overlook
              /\ GoTo("readServers") /\ UNCHANGED queued
           \/ /\ CallFails
              /\ Delete({}) /\ Overlook
              /\ GoTo("readServers") /\ UNCHANGED queued
           \/ /\ listed # {}
              /\ IF listed \subseteq policies[t] THEN CallFails ELSE CallWorks
              /\ \E some \in SUBSET listed : some # listed /\ Delete(some)
              /\ Requeue /\ UNCHANGED overlooked
    /\ UNCHANGED <<trait, gateway, gatewaySeen, certs, routes, policiesSeen,
                   worldVars>>

(* ... and the server: cleanupGateway makes the list of one read of the     *)
(* gateway and writes it over another.                                      *)
ReadServers ==
    /\ pass.step = "readServers"
    /\ pass' = [pass EXCEPT !.step = "writeServers",
                            !.servers = [gatewaySeen.of EXCEPT ![pass.t] = NoObject]]
    /\ UNCHANGED <<trait, queued, objectVars, worldVars,
                   disturbances>>

cleanupGateway ==
    /\ pass.step = "writeServers"
    /\ WriteServers(pass.servers, GoTo("removeFinalizer"))
    /\ UNCHANGED <<trait, certs, routes, policyVars, worldVars>>

(* removeFinalizerIfRequired lets the trait go, and what it owns with it.   *)
removeFinalizer ==
    /\ pass.step = "removeFinalizer"
    /\ \/ /\ Writable /\ CallWorks
          /\ trait' = [trait EXCEPT ![pass.t] = Gone]
          /\ routes' = [routes EXCEPT ![pass.t] = [i \in Rules |-> NoObject]]
          /\ pass' = Idle /\ UNCHANGED queued
       \/ /\ (~Writable /\ CallWorks) \/ CallFails
          /\ Requeue /\ UNCHANGED <<trait, routes>>
    /\ UNCHANGED <<gateway, gatewaySeen, certs, policyVars, worldVars>>

PassStep ==
    \/ addFinalizer \/ createOrUseGatewaySecret \/ createOrUpdateGateway
    \/ createOrUpdateRule \/ updateTraitStatus
    \/ cleanupCert \/ cleanupPolicies \/ ReadServers \/ cleanupGateway
    \/ removeFinalizer

(***************************************************************************)
(* The cache, the watches and the world.                                   *)
(***************************************************************************)
GatewayCached ==
    /\ ~gatewaySeen.current
    /\ gatewaySeen' = [of |-> gateway, current |-> TRUE]
    /\ UNCHANGED <<trait, queued, gateway, certs, routes, policyVars,
                   pass, worldVars, disturbances>>

PoliciesCached ==
    /\ policiesSeen # policies
    /\ policiesSeen' = policies
    /\ UNCHANGED <<trait, queued, gateway, gatewaySeen, certs, routes,
                   policies, overlooked, pass, worldVars, disturbances>>

(* The traits a watch of the service maps its event to.                     *)
Existing == {t \in Traits : Exists(trait[t])}

(* The informers repeat what they hold, hours later (SyncPeriod).            *)
TraitResync ==
    /\ queued = {} /\ pass = Idle
    /\ gatewaySeen.current /\ policiesSeen = policies
    /\ queued' = queued \cup Existing
    /\ UNCHANGED <<trait, objectVars, pass, worldVars, disturbances>>

EditTrait(t) ==
    /\ trait[t].phase = "live" /\ Disturb
    /\ \E s \in TraitSpecs \ {trait[t].spec} :
          trait' = [trait EXCEPT ![t].spec = s, ![t].gen = disturbances']
    /\ queued' = queued \cup {t}
    /\ UNCHANGED <<objectVars, pass, worldVars>>

(* Without the finalizer the trait goes at once.  One trait is deleted.     *)
DeleteTrait(t) ==
    /\ \A x \in Traits : trait[x].phase = "live"
    /\ IF trait[t].finalizer
       THEN /\ trait' = [trait EXCEPT ![t].phase = "deleting"]
            /\ UNCHANGED <<routes, unguarded>>
       ELSE /\ trait' = [trait EXCEPT ![t] = Gone]
            /\ routes' = [routes EXCEPT ![t] = [i \in Rules |-> NoObject]]
            /\ unguarded' = unguarded \cup {t}
    /\ queued' = queued \cup {t}
    /\ UNCHANGED <<gateway, gatewaySeen, certs, policyVars,
                   pass, address, serviceUp, disturbances>>

(* The address is lost or another.  The watch passes on a change of the     *)
(* specification of the service, but not one of its status, as when the     *)
(* load balancer assigns an address.                                        *)
AddressChanges ==
    /\ Disturb
    /\ \E a \in (Addresses \cup {NoHost}) \ {address} : address' = a
    /\ queued' \in {queued, queued \cup Existing}
    /\ UNCHANGED <<trait, objectVars, pass, serviceUp, unguarded>>

AddressAssigned ==
    /\ address = NoHost
    /\ address' \in Addresses
    /\ UNCHANGED <<trait, queued, objectVars, pass, serviceUp,
                   unguarded, disturbances>>

ServiceStarts ==
    /\ ~serviceUp
    /\ serviceUp' = TRUE
    /\ UNCHANGED <<trait, queued, objectVars, pass, address,
                   unguarded, disturbances>>

(* After a restart the caches are new, and every trait is queued.           *)
IngressCrash ==
    /\ Disturb
    /\ pass' = Idle
    /\ gatewaySeen' = [of |-> gateway, current |-> TRUE]
    /\ policiesSeen' = policies
    /\ queued' = Existing
    /\ UNCHANGED <<trait, gateway, certs, routes, policies, overlooked,
                   worldVars>>

IngressNext ==
    \/ \E t \in Traits : StartPass(t)
    \/ PassStep
    \/ GatewayCached \/ PoliciesCached \/ TraitResync
    \/ \E t \in Traits : EditTrait(t) \/ DeleteTrait(t)
    \/ AddressChanges \/ AddressAssigned \/ ServiceStarts
    \/ IngressCrash

(* The queue is served in turn, the caches follow, the load balancer and    *)
(* the workloads come up.                                                   *)
IngressFairness ==
    /\ \A t \in Traits : SF_ingressVars(StartPass(t))
    /\ WF_ingressVars(PassStep)
    /\ WF_ingressVars(GatewayCached)
    /\ WF_ingressVars(PoliciesCached)
    /\ WF_ingressVars(TraitResync)
    /\ WF_ingressVars(AddressAssigned)
    /\ WF_ingressVars(ServiceStarts)

IngressSpec == IngressInit /\ [][IngressNext]_ingressVars /\ IngressFairness

(***************************************************************************)
(* Properties.                                                             *)
(***************************************************************************)
(* The trait has what it asks for.                                          *)
Served(t) ==
    LET host == HostOf(trait[t].spec)
    IN  /\ gateway[t] = host
        /\ \A i \in 1..trait[t].spec.rules :
              /\ routes[t][i] = host
              /\ trait[t].spec.kind = "guarded" => i \in policies[t]
        /\ trait[t].spec.kind # "own" => certs[t] = host

(* Nothing is left of the trait but perhaps its server, if the clean-up     *)
(* read a gateway from before the server, and the policies its list lacked. *)
CleanedUp(t) ==
    /\ certs[t] = NoObject /\ policies[t] \subseteq overlooked[t]
    /\ \A i \in Rules : routes[t][i] = NoObject

(* What a trait is due in the end: it is served, or of a deleted trait that *)
(* had the finalizer no certificate or route is left, and no policy that    *)
(* its clean-up listed.                                                     *)
Settled(t) ==
    /\ trait[t].phase = "live" => Served(t)
    /\ trait[t].phase # "deleting"
    /\ trait[t] = Gone /\ t \notin unguarded => CleanedUp(t)
===============================================================================
