------------------------------ MODULE IngestRun ------------------------------
(***************************************************************************)
(* The IngestRun controller (operator/internal/controller/                 *)
(* ingestrun_controller.go and ingest_stream.go): one worker reconciles    *)
(* IngestRun objects into TAMSin Jobs.  Its reads come from informer       *)
(* caches that lag behind the API server, its writes are separate API      *)
(* calls, and the operator may stop between any two of them.               *)
(***************************************************************************)
EXTENDS Naturals

CONSTANTS
    Runs,            \* names of the IngestRun objects
    NoRun,           \* "no retry parent"
    Parent,          \* Parent[r]: the run that spec.retryOf of r names, or NoRun
    Invalid,         \* runs whose immutable output intent fails validation
    Foreign,         \* runs whose Job name is already taken by somebody else
    Profiled,        \* runs whose options reference a FlowProfile
    Profiles,        \* profile identities a FlowProfile may publish
    Streams,         \* terminal event streams a TAMSin Pod may leave behind
    Gates,           \* outcomes of the admission gates that a pass may meet
    Results,         \* states of status.resultRef that its external writer uses
    Disruptions,     \* what users and the cluster do to the system meanwhile
    Lagging,         \* kinds whose informer cache may be stale in a reconcile
    JobsOutliveLag,  \* a Job stays until the cached run names it
    MaxJobs,         \* bound: Jobs created per run
    MaxFaults        \* bound: operator restarts plus failed status patches

Kinds == {"run", "job", "pod", "tamoss"}
AllStreams == {"succeeded", "partial", "interrupted", "failed", "invalid"}
AllDisruptions == {"console", "kubectl", "deleteTamoss", "createTamoss", "loseJob", "losePod"}
AllGates == {"open", "poll", "static", "input", "endpoint"}
AllResults == {"none", "recorded", "verified"}

ASSUME NoRunAssumption == NoRun \notin Runs
ASSUME ParentAssumption == Parent \in [Runs -> Runs \cup {NoRun}]
ASSUME SetsAssumption ==
    /\ Invalid \subseteq Runs
    /\ Foreign \subseteq Runs
    /\ Profiled \subseteq Runs
    /\ Profiles \subseteq Nat \ {0}
    /\ Streams \subseteq AllStreams
    /\ Gates \subseteq AllGates
    /\ "none" \in Results /\ Results \subseteq AllResults
    /\ Lagging \subseteq Kinds
    /\ Disruptions \subseteq AllDisruptions
    /\ JobsOutliveLag \in BOOLEAN
ASSUME BoundsAssumption == MaxJobs \in Nat /\ MaxFaults \in Nat

VARIABLES
    run,       \* the IngestRun objects in the API server
    job,       \* the Job named after each run
    pod,       \* the Pod of that Job
    tamoss,    \* does the target Tamoss exist?
    profile,   \* profile identity the FlowProfile publishes, 0 while not Ready
    late,      \* UID of the Job whose observation deadline has expired
    runC, jobC, podC, tamossC,   \* the informer caches of the operator
    dirty,     \* runs in the work queue, or with a requeue timer running
    pend,      \* status patch the worker has computed and not sent
    created,   \* Jobs created so far for each run (the UID of the newest)
    streams,   \* history: terminal streams the run's own Pods produced
    faults     \* restarts and failed patches so far

objects == <<run, job, pod, tamoss, profile, late>>
caches  == <<runC, jobC, podC, tamossC>>
ghosts  == <<created, streams, faults>>
vars    == <<objects, caches, dirty, pend, ghosts>>

Terminal == {"Succeeded", "PartiallySucceeded", "Failed", "Cancelled"}
Phases   == {"", "Pending", "Queued", "Running"} \cup Terminal

\* spec.desiredState and the status fields the properties tell apart.
RunObject ==
    [desired: {"Running", "Cancelled"}, phase: Phases, jobRef: Nat, attempt: Nat,
     profiles: {0} \cup Profiles, result: Results]

\* profiles: the identities passed to TAMSin on its command line.
JobObject ==
    [state: {"absent", "queued", "active", "finished"}, uid: Nat, owned: BOOLEAN,
     deleting: BOOLEAN, profiles: {0} \cup Profiles]

PodObject == [state: {"absent", "running", "done"}, uid: Nat, stream: Streams \cup {"none"}]

NoJob == [state |-> "absent", uid |-> 0, owned |-> FALSE, deleting |-> FALSE, profiles |-> 0]
NoPod == [state |-> "absent", uid |-> 0, stream |-> "none"]
NewRun == [desired |-> "Running", phase |-> "", jobRef |-> 0, attempt |-> 0,
           profiles |-> 0, result |-> "none"]
NoPatch == [kind |-> "none"]
Patches == [kind: {"patch"}, target: Runs, base: RunObject, new: RunObject, requeue: BOOLEAN]

TypeOK ==
    /\ run \in [Runs -> RunObject] /\ runC \in [Runs -> RunObject]
    /\ job \in [Runs -> JobObject] /\ jobC \in [Runs -> JobObject]
    /\ pod \in [Runs -> PodObject] /\ podC \in [Runs -> PodObject]
    /\ tamoss \in BOOLEAN /\ tamossC \in BOOLEAN
    /\ profile \in {0} \cup Profiles
    /\ late \in [Runs -> Nat]
    /\ dirty \subseteq Runs
    /\ pend \in Patches \cup {NoPatch}
    /\ created \in [Runs -> Nat]
    /\ streams \in [Runs -> SUBSET Streams]
    /\ faults \in Nat

Init ==
    /\ run = [r \in Runs |-> NewRun]
    /\ job = [r \in Runs |-> IF r \in Foreign THEN [NoJob EXCEPT !.state = "queued"] ELSE NoJob]
    /\ pod = [r \in Runs |-> NoPod]
    /\ tamoss = TRUE
    /\ profile \in {0} \cup Profiles
    /\ late = [r \in Runs |-> 0]
    /\ runC = run /\ jobC = job /\ podC = pod /\ tamossC = tamoss
    /\ dirty = Runs
    /\ pend = NoPatch
    /\ created = [r \in Runs |-> 0]
    /\ streams = [r \in Runs |-> {}]
    /\ faults = 0

-----------------------------------------------------------------------------
(* The reconcile pass.                                                     *)

\* Mutant: success is forgotten among the terminal phases.
isIngestRunTerminal_Mutant(phase) == phase \in {"Failed", "Cancelled"}

\* isIngestRunTerminal
isIngestRunTerminal(phase) == phase \in Terminal

Present(j) == j.state # "absent"

\* The caches of the kinds outside Lagging have caught up when a pass reads them.
CachesCurrent(r) ==
    /\ "run" \in Lagging \/ runC = run
    /\ "job" \in Lagging \/ jobC[r] = job[r]
    /\ "pod" \in Lagging \/ podC[r] = pod[r]
    /\ "tamoss" \in Lagging \/ tamossC = tamoss

\* The pass took r from the work queue; it returns, with or without RequeueAfter.
Return(r, requeue) == dirty' = IF requeue THEN dirty \cup {r} ELSE dirty \ {r}

\* A recorded result that has not passed digest verification holds success back.
ingestResultUnverified(result) == result = "recorded"

\* The status patch is computed from the cached run and sent in a step of its own.
Patch(r, new, requeue) ==
    /\ pend' = [kind |-> "patch", target |-> r, base |-> runC[r], new |-> new, requeue |-> requeue]
    /\ Return(r, FALSE)

\* Mutant: the pass that leaves a run non-terminal does not poll.
SetPhase_Mutant(r, phase, poll, uid, attempt) ==
    Patch(r, [runC[r] EXCEPT !.phase = phase,
                             !.jobRef = IF uid > 0 THEN uid ELSE @,
                             !.attempt = IF attempt > 0 THEN attempt ELSE @], FALSE)

\* setIngestRunJobPhaseWithStream up to the patch: uid and attempt are 0 when
\* the caller has no Job or no attempt to record; poll is RequeueAfter.
SetPhase(r, phase, poll, uid, attempt) ==
    LET held == phase \in {"Succeeded", "PartiallySucceeded"}
                /\ ingestResultUnverified(runC[r].result)
        settled == IF held THEN "Running" ELSE phase
    IN  Patch(r, [runC[r] EXCEPT !.phase = settled,
                                 !.jobRef = IF uid > 0 THEN uid ELSE @,
                                 !.attempt = IF attempt > 0 THEN attempt ELSE @],
              ~isIngestRunTerminal(settled) /\ (held \/ poll))

\* Client.Delete with foreground propagation: a Job that is already gone is ignored.
DeleteJob(r) ==
    job' = [job EXCEPT ![r] = IF Present(@) THEN [@ EXCEPT !.deleting = TRUE] ELSE @]

\* Mutant: Pods are assumed to go with their Job.
ingestRunPodsRemain_Mutant(r) == FALSE

\* ingestRunPodsRemain, from the cached Pods.
ingestRunPodsRemain(r) ==
    podC[r].state # "absent" /\ (runC[r].jobRef = 0 \/ podC[r].uid = runC[r].jobRef)

reconcileIngestCancellation(r) ==
    \/ /\ ~Present(jobC[r])
       /\ SetPhase(r, IF ingestRunPodsRemain(r) THEN "Running" ELSE "Cancelled", TRUE, 0, 0)
       /\ UNCHANGED job
    \/ /\ Present(jobC[r])
       /\ IF jobC[r].deleting THEN UNCHANGED job ELSE DeleteJob(r)
       /\ SetPhase(r, "Running", TRUE, jobC[r].uid, 0)

\* The target is gone from the cache while a Job exists: confirmed live.
abandonIngestRunForDeletedTamoss(r) ==
    \/ /\ tamoss
       /\ Return(r, TRUE)
       /\ UNCHANGED <<job, pend>>
    \/ /\ ~tamoss
       /\ IF jobC[r].deleting THEN UNCHANGED job ELSE DeleteJob(r)
       /\ SetPhase(r, "Failed", FALSE, jobC[r].uid, 0)

\* collectIngestStream: the cached Pod of this Job has terminated and its log
\* can still be read.  Reading may fail at any time.
collectIngestStream(r) ==
    {"unavailable"} \cup
    (IF podC[r].state = "done" /\ podC[r].uid = jobC[r].uid /\ pod[r] = podC[r]
     THEN {podC[r].stream} ELSE {})

\* Mutants: a finished Job counts as success without a stream; an unreadable
\* stream is awaited for ever.
FinishedPhase_MutantTrusts(r, stream) ==
    IF stream \in {"unavailable", "succeeded"} THEN "Succeeded" ELSE "Failed"

FinishedPhase_MutantWaits(r, stream) ==
    CASE stream = "unavailable" -> "Running"
      [] stream = "succeeded" -> "Succeeded"
      [] OTHER -> "Failed"

\* ingestStreamFailurePhase and the finished half of ingestPhaseFromJob.
FinishedPhase(r, stream) ==
    LET unproven == \/ stream = "unavailable"
                    \/ /\ stream \in {"succeeded", "partial"}
                       /\ ingestResultUnverified(runC[r].result)
    IN  CASE unproven /\ late[r] = jobC[r].uid -> "Failed"
          [] unproven /\ late[r] # jobC[r].uid -> "Running"
          [] ~unproven /\ stream = "succeeded" -> "Succeeded"
          [] ~unproven /\ stream = "partial" -> "PartiallySucceeded"
          [] OTHER -> "Failed"

\* An attempt that already has a Job is tracked from the Job alone.
TrackJob(r) ==
    \/ /\ jobC[r].state = "finished"
       /\ \E stream \in collectIngestStream(r) :
              SetPhase(r, FinishedPhase(r, stream), TRUE, jobC[r].uid, 0)
    \/ /\ jobC[r].state = "active"
       /\ SetPhase(r, "Running", FALSE, jobC[r].uid, 0)
    \/ /\ jobC[r].state = "queued"
       /\ SetPhase(r, "Queued", FALSE, jobC[r].uid, 0)

\* Mutant: a lost Job is forgotten, and the run starts over.
reconcileMissingIngestJob_Mutant(r) ==
    \/ Present(job[r]) /\ Return(r, TRUE) /\ UNCHANGED pend
    \/ /\ ~Present(job[r])
       /\ Patch(r, [runC[r] EXCEPT !.phase = "Pending", !.jobRef = 0], TRUE)

\* The recorded Job is missing from the cache: confirmed live before failing.
reconcileMissingIngestJob(r) ==
    \/ Present(job[r]) /\ Return(r, TRUE) /\ UNCHANGED pend
    \/ ~Present(job[r]) /\ SetPhase(r, "Failed", FALSE, 0, 0)

\* Mutant: the parent need not have finished.
validateRetryParent_Mutant(r) ==
    IF Parent[r] = NoRun THEN 1 ELSE runC[Parent[r]].attempt + 1

\* validateRetryParent: the attempt number, or 0 when the parent does not qualify.
validateRetryParent(r) ==
    CASE Parent[r] = NoRun -> 1
      [] Parent[r] # NoRun /\ (Parent[r] = r \/ ~isIngestRunTerminal(runC[Parent[r]].phase)) -> 0
      [] OTHER -> IF runC[Parent[r]].attempt = 0 THEN 2 ELSE runC[Parent[r]].attempt + 1

ProfileMissing(r) == r \in Profiled /\ profile = 0

ResolvedProfiles(r) == IF r \in Profiled THEN profile ELSE 0

\* Create the Job; the reference to it is stored by the patch that follows.
CreateJob(r) ==
    \/ /\ Present(job[r])
       /\ Return(r, TRUE)
       /\ UNCHANGED <<job, pend, created>>
    \/ /\ ~Present(job[r])
       /\ created[r] < MaxJobs
       /\ created' = [created EXCEPT ![r] = @ + 1]
       /\ job' = [job EXCEPT ![r] = [state |-> "queued", uid |-> created'[r], owned |-> TRUE,
                                     deleting |-> FALSE, profiles |-> ResolvedProfiles(r)]]
       /\ SetPhase(r, "Queued", FALSE, created'[r], validateRetryParent(r))

\* Mutant: the Job is created without storing the resolved profiles first.
AdmitRun_Mutant(r) ==
    \E gate \in Gates :
        IF gate = "open" /\ validateRetryParent(r) > 0 /\ ~ProfileMissing(r)
        THEN CreateJob(r)
        ELSE SetPhase(r, "Pending", TRUE, 0, 0) /\ UNCHANGED <<job, created>>

\* The gates that admit new work, in the order of the code; gate is what the
\* pass finds in the objects it reads: all open, or held with or without a poll,
\* before or after the profiles are resolved.  A snapshot of the resolved
\* profiles that changed is stored before the pass goes any further.
AdmitRun(r) ==
    \E gate \in Gates :
       \/ /\ gate \in {"poll", "static"} \/ validateRetryParent(r) = 0
          /\ SetPhase(r, "Pending", gate # "static", 0, 0)
          /\ UNCHANGED <<job, created>>
       \/ /\ gate \in {"open", "input", "endpoint"} /\ validateRetryParent(r) > 0
          /\ \/ /\ runC[r].profiles # ResolvedProfiles(r)
                /\ Patch(r, [runC[r] EXCEPT !.profiles = ResolvedProfiles(r)], TRUE)
                /\ UNCHANGED <<job, created>>
             \/ /\ runC[r].profiles = ResolvedProfiles(r)
                /\ gate # "open" \/ ProfileMissing(r)
                /\ SetPhase(r, "Pending", gate # "endpoint" \/ ProfileMissing(r), 0, 0)
                /\ UNCHANGED <<job, created>>
             \/ /\ runC[r].profiles = ResolvedProfiles(r)
                /\ gate = "open" /\ ~ProfileMissing(r)
                /\ CreateJob(r)

\* The target does not exist, according to the cache.
TamossNotFound(r) ==
    \/ /\ Present(jobC[r])
       /\ abandonIngestRunForDeletedTamoss(r)
    \/ /\ ~Present(jobC[r])
       /\ SetPhase(r, "Pending", TRUE, 0, 0)
       /\ UNCHANGED job

\* A run that has not finished: a conflicting Job, then cancellation, then the
\* target, then its Job.
ReconcileActive(r) ==
    LET conflict == Present(jobC[r]) /\ ~jobC[r].owned
        wanted == ~conflict /\ runC[r].desired = "Running"
    IN  \/ /\ conflict
           /\ SetPhase(r, "Pending", TRUE, 0, 0)
           /\ UNCHANGED <<job, created>>
        \/ /\ ~conflict /\ runC[r].desired = "Cancelled"
           /\ reconcileIngestCancellation(r)
           /\ UNCHANGED created
        \/ /\ wanted /\ ~tamossC
           /\ TamossNotFound(r)
           /\ UNCHANGED created
        \/ /\ wanted /\ tamossC /\ Present(jobC[r])
           /\ TrackJob(r)
           /\ UNCHANGED <<job, created>>
        \/ /\ wanted /\ tamossC /\ ~Present(jobC[r]) /\ runC[r].jobRef # 0
           /\ reconcileMissingIngestJob(r)
           /\ UNCHANGED <<job, created>>
        \/ /\ wanted /\ tamossC /\ ~Present(jobC[r]) /\ runC[r].jobRef = 0
           /\ AdmitRun(r)

\* IngestRunReconciler.Reconcile: the cached reads, the live confirmations and
\* the first write of a pass.
Reconcile(r) ==
    /\ pend = NoPatch
    /\ r \in dirty
    /\ CachesCurrent(r)
    /\ \/ /\ r \in Invalid
          /\ SetPhase(r, "Pending", FALSE, 0, 0)
          /\ UNCHANGED <<job, created>>
       \/ /\ r \notin Invalid /\ isIngestRunTerminal(runC[r].phase)
          /\ Return(r, FALSE)
          /\ UNCHANGED <<pend, job, created>>
       \/ /\ r \notin Invalid /\ ~isIngestRunTerminal(runC[r].phase)
          /\ ReconcileActive(r)
    /\ UNCHANGED <<run, pod, tamoss, profile, late, caches, streams, faults>>

\* Status().Patch with MergeFrom: a merge patch of the fields that differ from
\* the cached base, without a resource version.
MergePatch(live, base, new) ==
    [f \in DOMAIN live |-> IF new[f] # base[f] THEN new[f] ELSE live[f]]

StatusPatch ==
    /\ pend # NoPatch
    /\ run' = [run EXCEPT ![pend.target] = MergePatch(@, pend.base, pend.new)]
    /\ dirty' = IF pend.requeue THEN dirty \cup {pend.target} ELSE dirty
    /\ pend' = NoPatch
    /\ UNCHANGED <<job, pod, tamoss, profile, late, caches, ghosts>>

\* The patch fails; controller-runtime queues the run again.
StatusPatchError ==
    /\ pend # NoPatch
    /\ faults < MaxFaults
    /\ faults' = faults + 1
    /\ dirty' = dirty \cup {pend.target}
    /\ pend' = NoPatch
    /\ UNCHANGED <<objects, caches, created, streams>>

\* The operator stops and starts again: caches are listed afresh and every run
\* is queued.
Restart ==
    /\ faults < MaxFaults
    /\ faults' = faults + 1
    /\ runC' = run /\ jobC' = job /\ podC' = pod /\ tamossC' = tamoss
    /\ dirty' = Runs
    /\ pend' = NoPatch
    /\ UNCHANGED <<objects, created, streams>>

-----------------------------------------------------------------------------
(* Watches: an informer catches up; run and owned Job events queue the run. *)

SyncRun(r) ==
    /\ runC[r] # run[r]
    /\ runC' = [runC EXCEPT ![r] = run[r]]
    /\ dirty' = dirty \cup {r}
    /\ UNCHANGED <<objects, jobC, podC, tamossC, pend, ghosts>>

SyncJob(r) ==
    /\ jobC[r] # job[r]
    /\ jobC' = [jobC EXCEPT ![r] = job[r]]
    /\ dirty' = IF jobC[r].owned \/ job[r].owned THEN dirty \cup {r} ELSE dirty
    /\ UNCHANGED <<objects, runC, podC, tamossC, pend, ghosts>>

SyncPod(r) ==
    /\ podC[r] # pod[r]
    /\ podC' = [podC EXCEPT ![r] = pod[r]]
    /\ UNCHANGED <<objects, runC, jobC, tamossC, dirty, pend, ghosts>>

SyncTamoss ==
    /\ tamossC # tamoss
    /\ tamossC' = tamoss
    /\ UNCHANGED <<objects, runC, jobC, podC, dirty, pend, ghosts>>

-----------------------------------------------------------------------------
(* Everything around the controller.                                       *)

\* CommandAPI.cancelIngestRun: optimistic lock, and only an active run.
ConsoleCancel(r) ==
    /\ "console" \in Disruptions
    /\ run[r].desired = "Running" /\ ~isIngestRunTerminal(run[r].phase)
    /\ run' = [run EXCEPT ![r].desired = "Cancelled"]
    /\ UNCHANGED <<job, pod, tamoss, profile, late, caches, dirty, pend, ghosts>>

\* A Kubernetes client patches desiredState; the CRD allows it in any phase.
KubectlCancel(r) ==
    /\ "kubectl" \in Disruptions
    /\ run[r].desired = "Running"
    /\ run' = [run EXCEPT ![r].desired = "Cancelled"]
    /\ UNCHANGED <<job, pod, tamoss, profile, late, caches, dirty, pend, ghosts>>

\* The external writer of status.resultRef records a result, then verifies it.
WriteResult(r) ==
    /\ \E next \in Results :
          /\ <<run[r].result, next>> \in {<<"none", "recorded">>, <<"recorded", "verified">>}
          /\ run' = [run EXCEPT ![r].result = next]
    /\ UNCHANGED <<job, pod, tamoss, profile, late, caches, dirty, pend, ghosts>>

DeleteTamoss ==
    /\ "deleteTamoss" \in Disruptions
    /\ tamoss
    /\ tamoss' = FALSE
    /\ UNCHANGED <<run, job, pod, profile, late, caches, dirty, pend, ghosts>>

CreateTamoss ==
    /\ "createTamoss" \in Disruptions
    /\ ~tamoss
    /\ tamoss' = TRUE
    /\ UNCHANGED <<run, job, pod, profile, late, caches, dirty, pend, ghosts>>

\* The FlowProfile controller; ingestRunsForFlowProfile queues the runs.
ChangeProfile ==
    /\ profile' \in ({0} \cup Profiles) \ {profile}
    /\ dirty' = dirty \cup Profiled
    /\ UNCHANGED <<run, job, pod, tamoss, late, caches, pend, ghosts>>

\* The Job controller starts the only Pod of the Job (backoffLimit 0).
StartPod(r) ==
    /\ job[r].state = "queued" /\ job[r].owned /\ ~job[r].deleting
    /\ job' = [job EXCEPT ![r].state = "active"]
    /\ pod' = [pod EXCEPT ![r] = [state |-> "running", uid |-> job[r].uid, stream |-> "none"]]
    /\ UNCHANGED <<run, tamoss, profile, late, caches, dirty, pend, ghosts>>

\* TAMSin exits and leaves its terminal event stream in the Pod log.
FinishPod(r) ==
    /\ pod[r].state = "running"
    /\ \E s \in Streams :
          /\ pod' = [pod EXCEPT ![r] = [state |-> "done", uid |-> @.uid, stream |-> s]]
          /\ streams' = [streams EXCEPT ![r] = @ \cup {s}]
    /\ UNCHANGED <<run, job, tamoss, profile, late, caches, dirty, pend, created, faults>>

\* The Pod disappears: its Job is being deleted or gone, or it is evicted.
RemovePod(r) ==
    /\ pod[r].state # "absent"
    /\ "losePod" \in Disruptions \/ job[r].deleting \/ ~Present(job[r])
    /\ pod' = [pod EXCEPT ![r] = NoPod]
    /\ UNCHANGED <<run, job, tamoss, profile, late, caches, dirty, pend, ghosts>>

\* The Job gets its terminal condition once its Pod no longer runs.
FinishJob(r) ==
    /\ job[r].state = "active" /\ pod[r].state # "running"
    /\ job' = [job EXCEPT ![r].state = "finished"]
    /\ UNCHANGED <<run, pod, tamoss, profile, late, caches, dirty, pend, ghosts>>

\* ingestTerminalObservationDeadline passes after the Job finished.
ExpireObservation(r) ==
    /\ job[r].state = "finished" /\ late[r] # job[r].uid
    /\ late' = [late EXCEPT ![r] = job[r].uid]
    /\ UNCHANGED <<run, job, pod, tamoss, profile, caches, dirty, pend, ghosts>>

\* A Job may vanish before the operator noticed it, unless JobsOutliveLag.
MayVanish(r) == JobsOutliveLag /\ job[r].owned => runC[r].jobRef = job[r].uid

\* Somebody else deletes the Job, or its TTL expires; its Pod goes later.
RemoveJob(r) ==
    /\ "loseJob" \in Disruptions
    /\ Present(job[r]) /\ MayVanish(r)
    /\ job' = [job EXCEPT ![r] = NoJob]
    /\ UNCHANGED <<run, pod, tamoss, profile, late, caches, dirty, pend, ghosts>>

\* Foreground deletion completes when the Pod is gone.
FinishDelete(r) ==
    /\ job[r].deleting /\ pod[r].state = "absent" /\ MayVanish(r)
    /\ job' = [job EXCEPT ![r] = NoJob]
    /\ UNCHANGED <<run, pod, tamoss, profile, late, caches, dirty, pend, ghosts>>

-----------------------------------------------------------------------------

Operator == (\E r \in Runs : Reconcile(r)) \/ StatusPatch \/ StatusPatchError \/ Restart

Informers == (\E r \in Runs : SyncRun(r) \/ SyncJob(r) \/ SyncPod(r)) \/ SyncTamoss

Users ==
    \/ \E r \in Runs : ConsoleCancel(r) \/ KubectlCancel(r) \/ WriteResult(r)
    \/ DeleteTamoss \/ CreateTamoss \/ ChangeProfile

Cluster ==
    \E r \in Runs : \/ StartPod(r) \/ FinishPod(r) \/ RemovePod(r) \/ FinishJob(r)
                    \/ ExpireObservation(r) \/ RemoveJob(r) \/ FinishDelete(r)

Next == Operator \/ Informers \/ Users \/ Cluster

Spec == Init /\ [][Next]_vars

\* What goes on by itself: the worker, the informers, the Job controller, Pods
\* (bounded by activeDeadlineSeconds) and the clock.  The work queue is first in,
\* first out, so a run that keeps coming back to it is served.
Fairness ==
    /\ WF_vars(StatusPatch) /\ WF_vars(SyncTamoss)
    /\ \A r \in Runs :
          /\ SF_vars(Reconcile(r))
          /\ WF_vars(SyncRun(r)) /\ WF_vars(SyncJob(r)) /\ WF_vars(SyncPod(r))
          /\ WF_vars(StartPod(r)) /\ WF_vars(FinishPod(r)) /\ WF_vars(FinishJob(r))
          /\ WF_vars(ExpireObservation(r)) /\ WF_vars(FinishDelete(r))
          /\ WF_vars(RemovePod(r) /\ (job[r].deleting \/ ~Present(job[r])))

FairSpec == Spec /\ Fairness

-----------------------------------------------------------------------------
(* Properties.                                                             *)

\* A run is Succeeded or PartiallySucceeded only on the evidence of a terminal
\* event stream with that outcome, left by a Pod of the run's own Job, however
\* stale the caches were and wherever the operator stopped.
SuccessIsEvidenced ==
    \A r \in Runs :
        /\ run[r].phase = "Succeeded" => "succeeded" \in streams[r]
        /\ run[r].phase = "PartiallySucceeded" => "partial" \in streams[r]

\* "TAMSin ingest is not idempotent, so the operator never replays it": at most
\* one Job is ever created for a run.
NeverReplays == \A r \in Runs : created[r] <= 1

\* "Cancellation removes the owned Job and waits for its Pods to terminate
\* before the run becomes Cancelled."
CancelledMeansStopped ==
    \A r \in Runs : run[r].phase = "Cancelled" =>
        ~(Present(job[r]) /\ job[r].owned) /\ pod[r].state # "running"

\* "Retrying creates a new IngestRun so completed history remains immutable":
\* a terminal phase is never overwritten.
TerminalIsFinal ==
    [][\A r \in Runs : run[r].phase \in Terminal => run'[r].phase = run[r].phase]_vars

\* A retry is "linked to ... a terminal parent": while a retry has a Job its
\* parent is terminal, and the attempt it records is later than the parent's.
RetryFollowsParent ==
    \A r \in Runs : Parent[r] # NoRun =>
        /\ Present(job[r]) /\ job[r].owned => run[Parent[r]].phase \in Terminal
        /\ run[r].attempt # 0 => run[r].attempt > run[Parent[r]].attempt

\* "snapshots its UUID before creating the Job": the profile identity a Job was
\* started with is the one that status.resolvedTamsFlowProfiles records.
ProfilesRecorded ==
    \A r \in Runs : Present(job[r]) /\ job[r].owned => run[r].profiles = job[r].profiles

\* A cancelled run ends: whatever was in flight, a run whose cancellation was
\* requested reaches a terminal phase, because every pass that leaves it
\* non-terminal polls again.
CancelCompletes ==
    \A r \in Runs : run[r].desired = "Cancelled" ~> run[r].phase \in Terminal

\* A run that started ends: once a Job is recorded, the run reaches a terminal
\* phase even if the event stream, the verification or the Job never turns up.
RecordedRunEnds ==
    \A r \in Runs : run[r].jobRef # 0 ~> run[r].phase \in Terminal

=============================================================================
