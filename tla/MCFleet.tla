------------------------------- MODULE MCFleet ---------------------------------
(***************************************************************************)
(* One instance for TLC of the parts of a fleet of clusters that share no  *)
(* state: the agent with the controllers of the multicluster resources,    *)
(* what applications of one namespace share, the registration of a managed *)
(* cluster, the scrape jobs of several, and the ingress traits of one      *)
(* application.  Each behaviour is one of its subject; the other parts     *)
(* keep one of their initial states.                                       *)
(***************************************************************************)
EXTENDS VzAgent, VzAgentShared, VzFleet, VzFederation, VzIngress

CONSTANTS a1, a2, v1, v2, t1, t2   \* the values of Apps, Vmcs and Traits

VARIABLE subject

allVars == <<subject, agentVars, shareVars, fleetVars, federationVars,
             ingressVars>>

NotAgent      == <<subject, shareVars, fleetVars, federationVars, ingressVars>>
NotShared     == <<subject, agentVars, fleetVars, federationVars, ingressVars>>
NotFleet      == <<subject, agentVars, shareVars, federationVars, ingressVars>>
NotFederation == <<subject, agentVars, shareVars, fleetVars, ingressVars>>
NotIngress    == <<subject, agentVars, shareVars, fleetVars, federationVars>>

MCFleetInit ==
    /\ subject \in {"agent", "shared", "fleet", "federation", "ingress"}
    /\ AgentInit /\ ShareInit /\ FleetInit /\ FederationInit /\ IngressInit
    /\ trait[t1].spec.kind = "guarded" /\ trait[t2].spec.kind = "own"
    /\ subject # "agent" => registered
    /\ subject # "shared" => multi = {}
    /\ subject # "fleet" => clusterSync /\ ~thanos.managed

MCFleetNext ==
    \/ subject = "agent"      /\ AgentNext      /\ UNCHANGED NotAgent
    \/ subject = "shared"     /\ ShareNext      /\ UNCHANGED NotShared
    \/ subject = "fleet"      /\ FleetNext      /\ UNCHANGED NotFleet
    \/ subject = "federation" /\ FederationNext /\ UNCHANGED NotFederation
    \/ subject = "ingress"    /\ IngressNext    /\ UNCHANGED NotIngress

InAgent(A)      == subject = "agent"      /\ A /\ UNCHANGED NotAgent
InShared(A)     == subject = "shared"     /\ A /\ UNCHANGED NotShared
InFleet(A)      == subject = "fleet"      /\ A /\ UNCHANGED NotFleet
InFederation(A) == subject = "federation" /\ A /\ UNCHANGED NotFederation
InIngress(A)    == subject = "ingress"    /\ A /\ UNCHANGED NotIngress

(* The fairness of the parts.  As the subject never changes, one condition  *)
(* about actions of several parts is the condition of each of them.         *)
MCFleetFairness ==
    /\ SF_allVars(InFederation(ReadJobs(v1)) \/ InIngress(StartPass(t1)))
    /\ SF_allVars(InFederation(ReadJobs(v2)) \/ InIngress(StartPass(t2)))
    /\ WF_allVars(\/ InAgent(AgentStep)
                  \/ InShared(\/ syncSecretObjects
                              \/ syncMCApplicationConfigurationObjects)
                  \/ InFleet(VmcController)
                  \/ InFederation(WriteJobs)
                  \/ InIngress(PassStep))
    /\ WF_allVars(\/ InAgent(WorkerStep)
                  \/ InShared(LocalAppGone(a1))
                  \/ InFleet(ClusterController)
                  \/ InFederation(JobsCached)
                  \/ InIngress(GatewayCached))
    /\ WF_allVars(\/ InAgent(Resync)
                  \/ InShared(LocalAppGone(a2))
                  \/ InFleet(AgentRegistration)
                  \/ InIngress(TraitResync))
    /\ WF_allVars(InIngress(PoliciesCached))
    /\ WF_allVars(InIngress(AddressAssigned))
    /\ WF_allVars(InIngress(ServiceStarts))

MCFleetSpec == MCFleetInit /\ [][MCFleetNext]_allVars /\ MCFleetFairness

MCFleetTypeOK ==
    AgentTypeOK /\ ShareTypeOK /\ FleetTypeOK /\ FederationTypeOK /\ IngressTypeOK

(* In the end every ingress trait is served, at the address of the day      *)
(* (ingresstrait_controller.go:236, "1 Gateway server per IngressTrait").   *)
(* The list a clean-up writes over a newer gateway, and hosts that could    *)
(* not be made when a pass began, are put right no earlier than by the      *)
(* resync.                                                                  *)
IngressServed ==
    \A t \in Traits : <>[](subject = "ingress" => Settled(t))
===============================================================================
