----------------------------- MODULE VzFederation ------------------------------
(***************************************************************************)
(* The scrape jobs of all managed clusters in one secret of the admin      *)
(* cluster.  For each VerrazzanoManagedCluster (VMC) the controller reads  *)
(* the secret from its cache, edits the job of that VMC, and writes the    *)
(* whole list with CreateOrUpdate, which reads the secret again: the check *)
(* of the version is about the second read, the list about the first.      *)
(***************************************************************************)
CONSTANTS Vmcs           \* the managed clusters

VARIABLES vmcState,      \* of each VMC: "none", "live" or "deleting"
          jobs,          \* the secret: the VMCs with a job
          jobsCache,     \* the secret in the cache, and if it is current
          jobPass        \* the running pass: its VMC and the list it made

federationVars == <<vmcState, jobs, jobsCache, jobPass>>

NoPass == [pc |-> "idle"]

FederationTypeOK ==
    /\ vmcState \in [Vmcs -> {"none", "live", "deleting", "gone"}]
    /\ jobs \subseteq Vmcs
    /\ jobsCache \in [of : SUBSET Vmcs, current : BOOLEAN]
    /\ jobPass.pc \in {"idle", "write"}

FederationInit ==
    /\ vmcState = [v \in Vmcs |-> "none"]
    /\ jobs = {}
    /\ jobsCache = [of |-> {}, current |-> TRUE]
    /\ jobPass = NoPass

(* Faulty variant: the list is made anew for each VMC.                      *)
EditScrapeJob_Alone(list, v) == IF vmcState[v] = "live" THEN {v} ELSE {}

(* EditScrapeJob adds or replaces the job of a VMC, or removes it.          *)
EditScrapeJob(list, v) == IF vmcState[v] = "live" THEN list \cup {v}
                          ELSE list \ {v}

(* mutateAdditionalScrapeConfigs reads the secret and edits the list.       *)
ReadJobs(v) ==
    /\ jobPass = NoPass
    /\ vmcState[v] \in {"live", "deleting"}
    /\ jobPass' = [pc |-> "write", vmc |-> v,
                   deleting |-> vmcState[v] = "deleting",
                   list |-> EditScrapeJob(jobsCache.of, v),
                   fresh |-> jobsCache.current]
    /\ UNCHANGED <<vmcState, jobs, jobsCache>>

(* ... and writes it over whatever the secret holds by now.  CreateOrUpdate *)
(* skips a write that changes nothing of what it reads again, and conflicts *)
(* with a version it has not read, which ends the pass.  After the deletion *)
(* of the job the VMC goes.                                                 *)
WriteJobs ==
    /\ jobPass.pc = "write"
    /\ jobPass' = NoPass
    /\ IF jobPass.list # jobsCache.of /\ ~jobsCache.current
       THEN UNCHANGED <<vmcState, jobs, jobsCache>>
       ELSE /\ vmcState' = IF jobPass.deleting
                           THEN [vmcState EXCEPT ![jobPass.vmc] = "gone"]
                           ELSE vmcState
            /\ IF jobPass.list = jobsCache.of
               THEN UNCHANGED <<jobs, jobsCache>>
               ELSE /\ jobs' = jobPass.list
                    /\ jobsCache' = [jobsCache EXCEPT !.current = FALSE]

(* Only a current version is written over: the cache is one behind at most. *)
JobsCached ==
    /\ jobsCache' = [of |-> jobs, current |-> TRUE]
    /\ UNCHANGED <<vmcState, jobs, jobPass>>

(* A cluster is registered and reports its host, or its VMC is deleted.     *)
VmcComesOrGoes(v) ==
    /\ \/ vmcState[v] = "none" /\ vmcState' = [vmcState EXCEPT ![v] = "live"]
       \/ vmcState[v] = "live" /\ vmcState' = [vmcState EXCEPT ![v] = "deleting"]
    /\ UNCHANGED <<jobs, jobsCache, jobPass>>

FederationNext ==
    \/ \E v \in Vmcs : ReadJobs(v) \/ VmcComesOrGoes(v)
    \/ WriteJobs \/ JobsCached

FederationFairness ==
    /\ \A v \in Vmcs : SF_federationVars(ReadJobs(v))
    /\ WF_federationVars(WriteJobs)
    /\ WF_federationVars(JobsCached)

FederationSpec ==
    FederationInit /\ [][FederationNext]_federationVars /\ FederationFairness

(***************************************************************************)
(* Properties.                                                             *)
(***************************************************************************)
(* A pass that reads an old list loses the job of another cluster; once the *)
(* passes read what was written last, every registered cluster is scraped   *)
(* for good, whatever was lost before (sync_prometheus.go:127).             *)
LiveScraped ==
    <>[](jobPass # NoPass => jobPass.fresh) =>
        \A v \in Vmcs : <>[](vmcState[v] = "live" => v \in jobs)

===============================================================================
