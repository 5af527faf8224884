--------------------------- MODULE IngestRunProofs ---------------------------
(***************************************************************************)
(* Theorems about the IngestRun controller, for every set of runs, every   *)
(* bound and every choice of lagging caches.                               *)
(***************************************************************************)
EXTENDS IngestRun, TLAPS

\* A success phase that object x of run r carries is backed by a stream.
Backed(x, r) ==
    /\ x.phase = "Succeeded" => "succeeded" \in streams[r]
    /\ x.phase = "PartiallySucceeded" => "partial" \in streams[r]

\* What a reconcile pass of r does to the Job: nothing, mark it for deletion,
\* or create the next one for a run that is not known to have one.
KeepsJob == job' = job /\ created' = created

MarksJob(r) ==
    /\ Present(job[r])
    /\ job' = [job EXCEPT ![r] = [@ EXCEPT !.deleting = TRUE]]
    /\ created' = created

MakesJob(r) ==
    /\ ~Present(job[r]) /\ runC[r].jobRef = 0
    /\ created' = [created EXCEPT ![r] = @ + 1]
    /\ job' = [job EXCEPT ![r] = [state |-> "queued", uid |-> created[r] + 1, owned |-> TRUE,
                                  deleting |-> FALSE, profiles |-> ResolvedProfiles(r)]]

\* What the status patch of a pass of r carries.
GoodPatch(r) ==
    /\ pend' \in Patches
    /\ pend'.target = r /\ pend'.base = runC[r]
    /\ runC[r].jobRef # 0 => pend'.new.jobRef # 0
    /\ Backed(pend'.new, r)
    /\ dirty' \subseteq Runs

\* A pass that returns without a patch.
NoWrite == pend' = pend /\ dirty' \subseteq Runs

\* The evidence invariant: whatever carries a success phase is backed, and the
\* logs of the Pods, live and cached, are in the history.
Evidence ==
    /\ \A r \in Runs : Backed(run[r], r) /\ Backed(runC[r], r)
    /\ \A r \in Runs : /\ pod[r].stream # "none" => pod[r].stream \in streams[r]
                       /\ podC[r].stream # "none" => podC[r].stream \in streams[r]
    /\ pend # NoPatch => Backed(pend.new, pend.target)

\* The replay invariant: a run for which a Job was created either still has it,
\* or the cached run already names it; and a recorded reference is never lost.
Remembered ==
    /\ \A r \in Runs : created[r] # 0 =>
          \/ Present(job[r]) /\ job[r].owned /\ job[r].uid = created[r]
          \/ runC[r].jobRef # 0
    /\ \A r \in Runs : runC[r].jobRef # 0 => run[r].jobRef # 0
    /\ pend # NoPatch => (pend.base.jobRef # 0 => pend.new.jobRef # 0)

-----------------------------------------------------------------------------

\* MergePatch of status objects is a status object: each field is the new one
\* if the pass changed it, and the live one if it did not.
LEMMA MergePatchType ==
    ASSUME NEW live \in RunObject, NEW base \in RunObject, NEW new \in RunObject
    PROVE  /\ MergePatch(live, base, new) \in RunObject
           /\ MergePatch(live, base, new).phase \in {live.phase, new.phase}
           /\ MergePatch(live, base, new).jobRef =
                 IF new.jobRef # base.jobRef THEN new.jobRef ELSE live.jobRef
  BY Zenon DEF MergePatch, RunObject

\* setIngestRunJobPhaseWithStream records the phase it is given or holds it at
\* Running, keeps a Job reference, and leaves the rest of the status alone.
LEMMA SetPhaseEffect ==
    ASSUME TypeOK, NEW r \in Runs, NEW phase \in Phases, NEW poll \in BOOLEAN,
           NEW uid \in Nat, NEW attempt \in Nat,
           SetPhase(r, phase, poll, uid, attempt),
           phase = "Succeeded" => "succeeded" \in streams[r],
           phase = "PartiallySucceeded" => "partial" \in streams[r]
    PROVE  GoodPatch(r)
  <1> DEFINE held == phase \in {"Succeeded", "PartiallySucceeded"}
                     /\ ingestResultUnverified(runC[r].result)
             settled == IF held THEN "Running" ELSE phase
             ref == IF uid > 0 THEN uid ELSE runC[r].jobRef
             try == IF attempt > 0 THEN attempt ELSE runC[r].attempt
             new == [runC[r] EXCEPT !.phase = settled, !.jobRef = ref, !.attempt = try]
             again == ~isIngestRunTerminal(settled) /\ (held \/ poll)
  <1>1. Patch(r, new, again)
    BY Zenon DEF SetPhase
  <1>2. runC[r] \in RunObject
    BY Zenon DEF TypeOK
  <1>3. settled \in Phases /\ settled \in {"Running", phase}
    BY Zenon DEF Phases, Terminal
  <1>4. again \in BOOLEAN
    BY Zenon
  <1>5. ref \in Nat /\ try \in Nat /\ (runC[r].jobRef # 0 => ref # 0)
    BY <1>2 DEF RunObject
  <1> HIDE DEF settled, ref, try, again
  <1>6. new \in RunObject /\ new.phase = settled /\ new.jobRef = ref
    BY <1>2, <1>3, <1>5, Zenon DEF RunObject
  <1> HIDE DEF new
  <1>7. pend' = [kind |-> "patch", target |-> r, base |-> runC[r], new |-> new, requeue |-> again]
        /\ dirty' = dirty \ {r}
    BY <1>1, Zenon DEF Patch, Return
  <1>8. Backed(new, r)
    BY <1>3, <1>6, Zenon DEF Backed
  <1> QED
    BY <1>2, <1>4, <1>5, <1>6, <1>7, <1>8, Zenon DEF GoodPatch, Patches, TypeOK

\* The phase derived from a finished Job is a success phase only if the Pod log
\* it was derived from is in the history.
LEMMA FinishedPhaseBacked ==
    ASSUME TypeOK, Evidence, NEW r \in Runs, NEW stream \in collectIngestStream(r)
    PROVE  /\ FinishedPhase(r, stream) \in Phases
           /\ FinishedPhase(r, stream) = "Succeeded" => "succeeded" \in streams[r]
           /\ FinishedPhase(r, stream) = "PartiallySucceeded" => "partial" \in streams[r]
  <1>1. stream \in {"unavailable", podC[r].stream}
    BY Zenon DEF collectIngestStream
  <1>2. stream \in {"succeeded", "partial"} => stream \in streams[r]
    BY <1>1, Zenon DEF Evidence
  <1> DEFINE unproven == \/ stream = "unavailable"
                         \/ /\ stream \in {"succeeded", "partial"}
                            /\ ingestResultUnverified(runC[r].result)
  <1>3. FinishedPhase(r, stream) =
           IF unproven THEN IF late[r] = jobC[r].uid THEN "Failed" ELSE "Running"
           ELSE IF stream = "succeeded" THEN "Succeeded"
           ELSE IF stream = "partial" THEN "PartiallySucceeded" ELSE "Failed"
    BY Zenon DEF FinishedPhase, ingestResultUnverified
  <1> QED
    BY <1>2, <1>3, Zenon DEF Phases, Terminal

\* One pass of Reconcile: its patch is backed and keeps the Job reference, and
\* it creates a Job only for a run that, to its knowledge, has none.
LEMMA ReconcileEffect ==
    ASSUME TypeOK, Evidence, NEW r \in Runs, Reconcile(r)
    PROVE  /\ GoodPatch(r) \/ NoWrite
           /\ KeepsJob \/ MarksJob(r) \/ MakesJob(r)
  <1> DEFINE Goal == /\ GoodPatch(r) \/ NoWrite
                     /\ KeepsJob \/ MarksJob(r) \/ MakesJob(r)
  <1>0. jobC[r] \in JobObject /\ runC[r] \in RunObject /\ dirty \subseteq Runs
    BY Zenon DEF TypeOK
  <1>1. ASSUME NEW phase \in {"Pending", "Running", "Queued", "Failed", "Cancelled"},
               NEW poll \in BOOLEAN, NEW uid \in Nat, NEW attempt \in Nat,
               SetPhase(r, phase, poll, uid, attempt)
        PROVE  GoodPatch(r)
    BY <1>1, SetPhaseEffect, Zenon DEF Phases, Terminal
  <1>2. ASSUME NEW requeue, Return(r, requeue)
        PROVE  dirty' \subseteq Runs
    BY <1>2, <1>0, Zenon DEF Return
  <1>3. ASSUME DeleteJob(r), UNCHANGED created
        PROVE  KeepsJob \/ MarksJob(r)
    <2>1. CASE Present(job[r])
      BY <1>3, <2>1, Zenon DEF DeleteJob, MarksJob
    <2>2. CASE ~Present(job[r])
      BY <1>3, <2>2, Zenon DEF DeleteJob, KeepsJob, TypeOK
    <2> QED BY <2>1, <2>2, Zenon
  <1>4. jobC[r].uid \in Nat
    BY <1>0, Zenon DEF JobObject
  <1>5. ASSUME reconcileIngestCancellation(r), UNCHANGED created
        PROVE  Goal
    <2>1. CASE ~Present(jobC[r]) /\ UNCHANGED job
               /\ SetPhase(r, IF ingestRunPodsRemain(r) THEN "Running" ELSE "Cancelled", TRUE, 0, 0)
      <3>1. GoodPatch(r)
        BY <1>1, <2>1, Zenon
      <3> QED BY <1>5, <2>1, <3>1, Zenon DEF KeepsJob
    <2>2. CASE /\ Present(jobC[r])
               /\ IF jobC[r].deleting THEN UNCHANGED job ELSE DeleteJob(r)
               /\ SetPhase(r, "Running", TRUE, jobC[r].uid, 0)
      <3>1. GoodPatch(r)
        BY <1>1, <1>4, <2>2, Zenon
      <3> QED BY <1>3, <1>5, <2>2, <3>1, Zenon DEF KeepsJob
    <2> QED BY <1>5, <2>1, <2>2, Zenon DEF reconcileIngestCancellation
  <1>6. ASSUME TamossNotFound(r), UNCHANGED created
        PROVE  Goal
    <2>1. CASE ~Present(jobC[r]) /\ SetPhase(r, "Pending", TRUE, 0, 0) /\ UNCHANGED job
      <3>1. GoodPatch(r)
        BY <1>1, <2>1, Zenon
      <3> QED BY <1>6, <2>1, <3>1, Zenon DEF KeepsJob
    <2>2. CASE tamoss /\ Return(r, TRUE) /\ UNCHANGED <<job, pend>>
      <3>1. dirty' \subseteq Runs
        BY <1>2, <2>2, Zenon
      <3> QED BY <1>6, <2>2, <3>1, Zenon DEF NoWrite, KeepsJob
    <2>3. CASE /\ IF jobC[r].deleting THEN UNCHANGED job ELSE DeleteJob(r)
               /\ SetPhase(r, "Failed", FALSE, jobC[r].uid, 0)
      <3>1. GoodPatch(r)
        BY <1>1, <1>4, <2>3, Zenon
      <3> QED BY <1>3, <1>6, <2>3, <3>1, Zenon DEF KeepsJob
    <2> QED BY <1>6, <2>1, <2>2, <2>3, Zenon DEF TamossNotFound, abandonIngestRunForDeletedTamoss
  <1>7. ASSUME TrackJob(r)
        PROVE  GoodPatch(r)
    <2>1. ASSUME NEW stream \in collectIngestStream(r),
                 SetPhase(r, FinishedPhase(r, stream), TRUE, jobC[r].uid, 0)
          PROVE  GoodPatch(r)
      BY <1>4, <2>1, FinishedPhaseBacked, SetPhaseEffect, Zenon
    <2>2. CASE SetPhase(r, "Running", FALSE, jobC[r].uid, 0)
      BY <1>1, <1>4, <2>2, Zenon
    <2>3. CASE SetPhase(r, "Queued", FALSE, jobC[r].uid, 0)
      BY <1>1, <1>4, <2>3, Zenon
    <2> QED BY <1>7, <2>1, <2>2, <2>3, Zenon DEF TrackJob
  <1>8. ASSUME reconcileMissingIngestJob(r)
        PROVE  GoodPatch(r) \/ NoWrite
    <2>1. CASE Return(r, TRUE) /\ UNCHANGED pend
      BY <1>2, <2>1, Zenon DEF NoWrite
    <2>2. CASE SetPhase(r, "Failed", FALSE, 0, 0)
      BY <1>1, <2>2, Zenon
    <2> QED BY <1>8, <2>1, <2>2, Zenon DEF reconcileMissingIngestJob
  <1>9. ASSUME AdmitRun(r), runC[r].jobRef = 0
        PROVE  Goal
    <2>1. validateRetryParent(r) \in Nat
      <3>1. Parent[r] # NoRun => Parent[r] \in Runs
        BY ParentAssumption, Zenon
      <3>2. Parent[r] # NoRun => runC[Parent[r]].attempt \in Nat
        BY <3>1, Zenon DEF TypeOK, RunObject
      <3> QED BY <3>2 DEF validateRetryParent
    <2>2. ASSUME NEW poll \in BOOLEAN, SetPhase(r, "Pending", poll, 0, 0), UNCHANGED <<job, created>>
          PROVE  Goal
      BY <1>1, <2>2, Zenon DEF KeepsJob
    <2>3. CASE Patch(r, [runC[r] EXCEPT !.profiles = ResolvedProfiles(r)], TRUE)
               /\ UNCHANGED <<job, created>>
      <3> DEFINE new == [runC[r] EXCEPT !.profiles = ResolvedProfiles(r)]
      <3>1. ResolvedProfiles(r) \in {0} \cup Profiles
        BY Zenon DEF ResolvedProfiles, TypeOK
      <3>2. new \in RunObject /\ new.phase = runC[r].phase /\ new.jobRef = runC[r].jobRef
        BY <1>0, <3>1, Zenon DEF RunObject
      <3>3. Backed(new, r)
        BY <3>2, Zenon DEF Backed, Evidence
      <3> HIDE DEF new
      <3>4. GoodPatch(r)
        BY <1>0, <2>3, <3>2, <3>3, Zenon DEF GoodPatch, Patches, Patch, Return, new
      <3> QED BY <2>3, <3>4, Zenon DEF KeepsJob
    <2>4. CASE CreateJob(r)
      <3>1. CASE Return(r, TRUE) /\ UNCHANGED <<job, pend, created>>
        BY <1>2, <3>1, Zenon DEF NoWrite, KeepsJob
      <3>2. CASE /\ ~Present(job[r])
                 /\ created' = [created EXCEPT ![r] = @ + 1]
                 /\ job' = [job EXCEPT ![r] = [state |-> "queued", uid |-> created'[r],
                              owned |-> TRUE, deleting |-> FALSE, profiles |-> ResolvedProfiles(r)]]
                 /\ SetPhase(r, "Queued", FALSE, created'[r], validateRetryParent(r))
        <4>1. created'[r] = created[r] + 1 /\ created'[r] \in Nat
          BY <3>2 DEF TypeOK
        <4>2. GoodPatch(r)
          BY <1>1, <2>1, <3>2, <4>1, Zenon
        <4> QED BY <1>9, <3>2, <4>1, <4>2, Zenon DEF MakesJob
      <3> QED BY <2>4, <3>1, <3>2, Zenon DEF CreateJob
    <2> QED BY <1>9, <2>2, <2>3, <2>4, Zenon DEF AdmitRun
  <1>10. ASSUME ReconcileActive(r)
         PROVE  Goal
    <2>1. CASE SetPhase(r, "Pending", TRUE, 0, 0) /\ UNCHANGED <<job, created>>
      BY <1>1, <2>1, Zenon DEF KeepsJob
    <2>2. CASE TrackJob(r) /\ UNCHANGED <<job, created>>
      BY <1>7, <2>2, Zenon DEF KeepsJob
    <2>3. CASE reconcileMissingIngestJob(r) /\ UNCHANGED <<job, created>>
      BY <1>8, <2>3, Zenon DEF KeepsJob
    <2> QED BY <1>5, <1>6, <1>9, <1>10, <2>1, <2>2, <2>3, Zenon DEF ReconcileActive
  <1>11. CASE r \in Invalid /\ SetPhase(r, "Pending", FALSE, 0, 0) /\ UNCHANGED <<job, created>>
    BY <1>1, <1>11, Zenon DEF KeepsJob
  <1>12. CASE Return(r, FALSE) /\ UNCHANGED <<pend, job, created>>
    BY <1>2, <1>12, Zenon DEF KeepsJob, NoWrite
  <1> QED BY <1>10, <1>11, <1>12, Zenon DEF Reconcile

\* What Reconcile leaves alone.
LEMMA ReconcileFrame ==
    ASSUME NEW r \in Runs, Reconcile(r)
    PROVE  UNCHANGED <<run, pod, tamoss, profile, late, runC, jobC, podC, tamossC,
                       streams, faults>> /\ pend = NoPatch
  BY Zenon DEF Reconcile, caches

\* Types of the objects that the other actions write.
LEMMA ObjectTypes ==
    /\ NewRun \in RunObject /\ NoJob \in JobObject /\ NoPod \in PodObject
    /\ \A j \in JobObject, st \in {"absent", "queued", "active", "finished"} :
          [j EXCEPT !.state = st] \in JobObject
    /\ \A j \in JobObject : [j EXCEPT !.deleting = TRUE] \in JobObject
  BY SetsAssumption, Zenon DEF NewRun, NoJob, NoPod, RunObject, JobObject, PodObject, Phases,
     Terminal

\* Every step keeps the types.
LEMMA TypeStep ==
    ASSUME TypeOK, Evidence, [Next]_vars
    PROVE  TypeOK'
  <1>1. ASSUME NEW r \in Runs, Reconcile(r)
        PROVE  TypeOK'
    <2>1. UNCHANGED <<run, pod, tamoss, profile, late, runC, jobC, podC, tamossC,
                      streams, faults>>
      BY <1>1, ReconcileFrame, Zenon
    <2>2. pend' \in Patches \cup {NoPatch} /\ dirty' \subseteq Runs
      BY <1>1, ReconcileEffect, Zenon DEF GoodPatch, NoWrite, TypeOK
    <2>3. job' \in [Runs -> JobObject] /\ created' \in [Runs -> Nat]
      <3>1. CASE KeepsJob
        BY <3>1, Zenon DEF KeepsJob, TypeOK
      <3>2. CASE MarksJob(r)
        BY <3>2, ObjectTypes, Zenon DEF MarksJob, TypeOK
      <3>3. CASE MakesJob(r)
        <4>1. ResolvedProfiles(r) \in {0} \cup Profiles
          BY Zenon DEF ResolvedProfiles, TypeOK
        <4> QED BY <3>3, <4>1 DEF MakesJob, TypeOK, JobObject
      <3> QED BY <1>1, <3>1, <3>2, <3>3, ReconcileEffect, Zenon
    <2> QED BY <2>1, <2>2, <2>3, Zenon DEF TypeOK
  <1>2. CASE StatusPatch
    <2>1. pend.target \in Runs /\ pend.base \in RunObject /\ pend.new \in RunObject
      BY <1>2, Zenon DEF StatusPatch, TypeOK, Patches
    <2>2. MergePatch(run[pend.target], pend.base, pend.new) \in RunObject
      BY <2>1, MergePatchType, Zenon DEF TypeOK
    <2>3. run' \in [Runs -> RunObject]
      BY <1>2, <2>1, <2>2, Zenon DEF StatusPatch, TypeOK
    <2> QED BY <1>2, <2>1, <2>3, Zenon DEF StatusPatch, TypeOK, caches, ghosts
  <1>3. CASE StatusPatchError
    BY <1>3 DEF StatusPatchError, TypeOK, objects, caches, Patches
  <1>4. CASE Restart
    BY <1>4 DEF Restart, TypeOK, objects
  <1>5. ASSUME NEW r \in Runs, SyncRun(r) \/ SyncJob(r) \/ SyncPod(r)
        PROVE  TypeOK'
    BY <1>5, Zenon DEF SyncRun, SyncJob, SyncPod, TypeOK, objects, ghosts
  <1>6. CASE SyncTamoss
    BY <1>6, Zenon DEF SyncTamoss, TypeOK, objects, ghosts
  <1>7. ASSUME NEW r \in Runs, ConsoleCancel(r) \/ KubectlCancel(r) \/ WriteResult(r)
        PROVE  TypeOK'
    <2>1. run' \in [Runs -> RunObject]
      <3>1. run[r] \in RunObject
        BY Zenon DEF TypeOK
      <3>2. [run[r] EXCEPT !.desired = "Cancelled"] \in RunObject
        BY <3>1, Zenon DEF RunObject
      <3>3. \A x \in Results : [run[r] EXCEPT !.result = x] \in RunObject
        BY <3>1, Zenon DEF RunObject
      <3> QED BY <1>7, <3>2, <3>3, Zenon DEF ConsoleCancel, KubectlCancel, WriteResult, TypeOK
    <2> QED BY <1>7, <2>1, Zenon DEF ConsoleCancel, KubectlCancel, WriteResult, TypeOK, caches,
                    ghosts
  <1>8. CASE DeleteTamoss \/ CreateTamoss \/ ChangeProfile
    BY <1>8, SetsAssumption, Zenon
    DEF DeleteTamoss, CreateTamoss, ChangeProfile, TypeOK, caches, ghosts
  <1>9. ASSUME NEW r \in Runs, StartPod(r)
        PROVE  TypeOK'
    <2>1. job[r] \in JobObject /\ job[r].uid \in Nat
      BY Zenon DEF TypeOK, JobObject
    <2>2. [state |-> "running", uid |-> job[r].uid, stream |-> "none"] \in PodObject
      BY <2>1, Zenon DEF PodObject
    <2>3. job' \in [Runs -> JobObject] /\ pod' \in [Runs -> PodObject]
      BY <1>9, <2>1, <2>2, ObjectTypes, Zenon DEF StartPod, TypeOK
    <2> QED BY <1>9, <2>3, Zenon DEF StartPod, TypeOK, caches, ghosts
  <1>10. ASSUME NEW r \in Runs, FinishPod(r)
         PROVE  TypeOK'
    <2>1. PICK s \in Streams :
             /\ pod' = [pod EXCEPT ![r] = [state |-> "done", uid |-> @.uid, stream |-> s]]
             /\ streams' = [streams EXCEPT ![r] = @ \cup {s}]
      BY <1>10, Zenon DEF FinishPod
    <2>2. [state |-> "done", uid |-> pod[r].uid, stream |-> s] \in PodObject
      BY Zenon DEF TypeOK, PodObject
    <2>3. pod' \in [Runs -> PodObject]
      BY <2>1, <2>2, Zenon DEF TypeOK
    <2>4. streams' \in [Runs -> SUBSET Streams]
      BY <2>1, Zenon DEF TypeOK
    <2> QED BY <1>10, <2>3, <2>4, Zenon DEF FinishPod, TypeOK, caches
  <1>11. ASSUME NEW r \in Runs, RemovePod(r) \/ RemoveJob(r) \/ FinishDelete(r)
         PROVE  TypeOK'
    BY <1>11, ObjectTypes, Zenon DEF RemovePod, RemoveJob, FinishDelete, TypeOK, caches, ghosts
  <1>12. ASSUME NEW r \in Runs, FinishJob(r)
         PROVE  TypeOK'
    <2>1. job' \in [Runs -> JobObject]
      BY <1>12, ObjectTypes, Zenon DEF FinishJob, TypeOK
    <2> QED BY <1>12, <2>1, Zenon DEF FinishJob, TypeOK, caches, ghosts
  <1>13. ASSUME NEW r \in Runs, ExpireObservation(r)
         PROVE  TypeOK'
    <2>1. job[r].uid \in Nat
      BY Zenon DEF TypeOK, JobObject
    <2> QED BY <1>13, <2>1, Zenon DEF ExpireObservation, TypeOK, caches, ghosts
  <1>14. CASE UNCHANGED vars
    BY <1>14, Zenon DEF vars, objects, caches, ghosts, TypeOK
  <1> QED
    BY <1>1, <1>2, <1>3, <1>4, <1>5, <1>6, <1>7, <1>8, <1>9, <1>10, <1>11, <1>12, <1>13, <1>14,
       Zenon
    DEF Next, Operator, Informers, Users, Cluster

\* Every step keeps the evidence: success enters the status only through a pass
\* whose patch is backed, and the history of streams only grows.
LEMMA EvidenceStep ==
    ASSUME TypeOK, Evidence, [Next]_vars
    PROVE  Evidence'
  <1>1. ASSUME NEW r \in Runs, Reconcile(r)
        PROVE  Evidence'
    <2>1. UNCHANGED <<run, runC, pod, podC, streams>>
      BY <1>1, ReconcileFrame, Zenon
    <2>2. pend' # NoPatch => pend'.target = r /\ Backed(pend'.new, r)
      BY <1>1, ReconcileEffect, ReconcileFrame, Zenon DEF GoodPatch, NoWrite
    <2> QED BY <2>1, <2>2, Zenon DEF Evidence, Backed
  <1>2. CASE StatusPatch
    <2> DEFINE t == pend.target
               merged == MergePatch(run[t], pend.base, pend.new)
    <2>1. t \in Runs /\ pend.base \in RunObject /\ pend.new \in RunObject /\ pend # NoPatch
      BY <1>2, Zenon DEF StatusPatch, TypeOK, Patches
    <2>2. merged.phase \in {run[t].phase, pend.new.phase}
      BY <2>1, MergePatchType, Zenon DEF TypeOK
    <2>3. Backed(merged, t)
      BY <2>1, <2>2, Zenon DEF Evidence, Backed
    <2> HIDE DEF merged
    <2>4. run' = [run EXCEPT ![t] = merged] /\ pend' = NoPatch
          /\ UNCHANGED <<runC, pod, podC, streams>>
      BY <1>2, Zenon DEF StatusPatch, merged, caches, ghosts
    <2>5. \A r \in Runs : Backed(run'[r], r)
      BY <2>1, <2>3, <2>4, Zenon DEF Evidence, TypeOK
    <2> QED BY <2>4, <2>5, Zenon DEF Evidence, Backed
  <1>3. CASE StatusPatchError
    BY <1>3, Zenon DEF StatusPatchError, objects, caches, Evidence, Backed
  <1>4. CASE Restart
    BY <1>4, Zenon DEF Restart, objects, Evidence, Backed
  <1>5. ASSUME NEW r \in Runs, SyncRun(r) \/ SyncJob(r) \/ SyncPod(r)
        PROVE  Evidence'
    BY <1>5, Zenon DEF SyncRun, SyncJob, SyncPod, Evidence, Backed, TypeOK, objects, ghosts
  <1>6. ASSUME NEW r \in Runs, ConsoleCancel(r) \/ KubectlCancel(r) \/ WriteResult(r)
        PROVE  Evidence'
    <2>1. \A q \in Runs : run'[q].phase = run[q].phase
      <3>1. run[r] \in RunObject
        BY Zenon DEF TypeOK
      <3>2. PICK changed :
               run' = [run EXCEPT ![r] = changed] /\ changed.phase = run[r].phase
        <4>1. CASE ConsoleCancel(r) \/ KubectlCancel(r)
          <5> WITNESS [run[r] EXCEPT !.desired = "Cancelled"]
          <5> QED BY <3>1, <4>1, Zenon DEF ConsoleCancel, KubectlCancel, TypeOK, RunObject
        <4>2. CASE WriteResult(r)
          <5>1. PICK x \in Results : run' = [run EXCEPT ![r].result = x]
            BY <4>2, Zenon DEF WriteResult
          <5> WITNESS [run[r] EXCEPT !.result = x]
          <5> QED BY <3>1, <5>1, Zenon DEF TypeOK, RunObject
        <4> QED BY <1>6, <4>1, <4>2, Zenon
      <3> QED BY <3>2, Zenon DEF TypeOK
    <2>2. UNCHANGED <<runC, pod, podC, pend, streams>>
      BY <1>6, Zenon DEF ConsoleCancel, KubectlCancel, WriteResult, caches, ghosts
    <2> QED BY <2>1, <2>2, Zenon DEF Evidence, Backed
  <1>7. CASE SyncTamoss \/ DeleteTamoss \/ CreateTamoss \/ ChangeProfile
    BY <1>7, Zenon DEF SyncTamoss, DeleteTamoss, CreateTamoss, ChangeProfile, Evidence,
                Backed, objects, caches, ghosts
  <1>8. ASSUME NEW r \in Runs, FinishPod(r)
        PROVE  Evidence'
    <2>1. PICK s \in Streams :
             /\ pod' = [pod EXCEPT ![r] = [state |-> "done", uid |-> @.uid, stream |-> s]]
             /\ streams' = [streams EXCEPT ![r] = @ \cup {s}]
      BY <1>8, Zenon DEF FinishPod
    <2>2. UNCHANGED <<run, runC, podC, pend>>
      BY <1>8, Zenon DEF FinishPod, caches
    <2>3. \A q \in Runs : streams[q] \subseteq streams'[q]
      BY <2>1, Zenon DEF TypeOK
    <2>4. \A q \in Runs : pod'[q].stream # "none" => pod'[q].stream \in streams'[q]
      BY <2>1, <2>3, Zenon DEF TypeOK, Evidence
    <2>5. pend # NoPatch => pend.target \in Runs
      BY Zenon DEF TypeOK, Patches
    <2> QED BY <2>2, <2>3, <2>4, <2>5, Zenon DEF Evidence, Backed
  <1>9. ASSUME NEW r \in Runs,
               StartPod(r) \/ RemovePod(r) \/ FinishJob(r) \/ ExpireObservation(r)
               \/ RemoveJob(r) \/ FinishDelete(r)
        PROVE  Evidence'
    <2>1. UNCHANGED <<run, runC, podC, pend, streams>>
      BY <1>9, Zenon DEF StartPod, RemovePod, FinishJob, ExpireObservation, RemoveJob,
         FinishDelete,
                  caches, ghosts
    <2>2. \A q \in Runs : pod'[q].stream = pod[q].stream \/ pod'[q].stream = "none"
      BY <1>9 DEF StartPod, RemovePod, FinishJob, ExpireObservation, RemoveJob, FinishDelete,
                  NoPod, TypeOK
    <2> QED BY <2>1, <2>2, Zenon DEF Evidence, Backed
  <1>10. CASE UNCHANGED vars
    BY <1>10, Zenon DEF vars, objects, caches, ghosts, Evidence, Backed
  <1> QED
    BY <1>1, <1>2, <1>3, <1>4, <1>5, <1>6, <1>7, <1>8, <1>9, <1>10, Zenon
    DEF Next, Operator, Informers, Users, Cluster

-----------------------------------------------------------------------------

\* The initial states satisfy the types and the evidence invariant.
LEMMA InitInvariant == Init => TypeOK /\ Evidence
  <1> SUFFICES ASSUME Init PROVE TypeOK /\ Evidence
    BY Zenon
  <1>1. job \in [Runs -> JobObject]
    BY ObjectTypes, Zenon DEF Init
  <1>2. TypeOK
    BY <1>1, ObjectTypes, Zenon DEF Init, TypeOK
  <1>3. Evidence
    BY Zenon DEF Init, Evidence, Backed, NewRun, NoPod
  <1> QED BY <1>2, <1>3, Zenon

\* The controller, its caches and the cluster never leave their types.
THEOREM TypeCorrect == Spec => []TypeOK
  <1>1. TypeOK /\ Evidence /\ [Next]_vars => (TypeOK /\ Evidence)'
    BY TypeStep, EvidenceStep, Zenon
  <1> QED BY <1>1, InitInvariant, PTL DEF Spec

\* A run is only ever reported successful on the evidence of its own terminal
\* event stream, whatever the caches say and wherever the operator stops.
THEOREM SuccessTheorem == Spec => []SuccessIsEvidenced
  <1>1. TypeOK /\ Evidence /\ [Next]_vars => (TypeOK /\ Evidence)'
    BY TypeStep, EvidenceStep, Zenon
  <1>2. Evidence => SuccessIsEvidenced
    BY Zenon DEF Evidence, Backed, SuccessIsEvidenced
  <1> QED BY <1>1, <1>2, InitInvariant, PTL DEF Spec

-----------------------------------------------------------------------------

\* Users and the result writer leave the controller's status fields alone.
LEMMA UserKeepsStatus ==
    ASSUME TypeOK, NEW r \in Runs, ConsoleCancel(r) \/ KubectlCancel(r) \/ WriteResult(r)
    PROVE  \A q \in Runs : run'[q].jobRef = run[q].jobRef /\ run'[q].phase = run[q].phase
  <1>1. run[r] \in RunObject
    BY Zenon DEF TypeOK
  <1> DEFINE c == [run[r] EXCEPT !.desired = "Cancelled"]
             w(x) == [run[r] EXCEPT !.result = x]
  <1>2. c.jobRef = run[r].jobRef /\ c.phase = run[r].phase
    BY <1>1, Zenon DEF RunObject
  <1>3. \A x \in Results : w(x).jobRef = run[r].jobRef /\ w(x).phase = run[r].phase
    BY <1>1, Zenon DEF RunObject
  <1>4. PICK y : run' = [run EXCEPT ![r] = y] /\ (y = c \/ \E x \in Results : y = w(x))
    BY Zenon DEF ConsoleCancel, KubectlCancel, WriteResult
  <1> HIDE DEF c, w
  <1> QED BY <1>2, <1>3, <1>4, Zenon DEF TypeOK

\* Every step keeps the memory of a created Job, as long as a Job outlives the
\* lag of the run cache.
LEMMA RememberedStep ==
    ASSUME JobsOutliveLag, TypeOK, Evidence, Remembered, NeverReplays, [Next]_vars
    PROVE  Remembered' /\ NeverReplays'
  <1>1. ASSUME NEW r \in Runs, Reconcile(r)
        PROVE  Remembered' /\ NeverReplays'
    <2>1. UNCHANGED <<run, runC>> /\ pend = NoPatch
      BY <1>1, ReconcileFrame, Zenon
    <2>2. pend' # NoPatch => (pend'.base.jobRef # 0 => pend'.new.jobRef # 0)
      BY <1>1, <2>1, ReconcileEffect, Zenon DEF GoodPatch, NoWrite
    <2>3. CASE KeepsJob
      BY <2>1, <2>2, <2>3, Zenon DEF KeepsJob, Remembered, NeverReplays
    <2>4. CASE MarksJob(r)
      <3>1. \A q \in Runs : /\ job'[q].state = job[q].state /\ job'[q].owned = job[q].owned
                            /\ job'[q].uid = job[q].uid
        BY <2>4 DEF MarksJob, TypeOK, JobObject
      <3> QED BY <2>1, <2>2, <2>4, <3>1, Zenon DEF MarksJob, Present, Remembered, NeverReplays
    <2>5. CASE MakesJob(r)
      <3>1. created[r] = 0
        BY <2>5, Zenon DEF MakesJob, Remembered
      <3>2. created'[r] = 1 /\ \A q \in Runs \ {r} : created'[q] = created[q] /\ job'[q] = job[q]
        BY <2>5, <3>1 DEF MakesJob, TypeOK
      <3>3. job'[r].state = "queued" /\ job'[r].owned /\ job'[r].uid = 1
        BY <2>5, <3>1 DEF MakesJob, TypeOK
      <3> QED BY <2>1, <2>2, <3>2, <3>3 DEF Present, Remembered, NeverReplays
    <2> QED BY <1>1, <2>3, <2>4, <2>5, ReconcileEffect, Zenon
  <1>2. CASE StatusPatch
    <2> DEFINE t == pend.target
               merged == MergePatch(run[t], pend.base, pend.new)
    <2>1. t \in Runs /\ pend.base \in RunObject /\ pend.new \in RunObject /\ pend # NoPatch
      BY <1>2, Zenon DEF StatusPatch, TypeOK, Patches
    <2>2. run[t].jobRef # 0 => merged.jobRef # 0
      BY <2>1, MergePatchType DEF TypeOK, Remembered
    <2> HIDE DEF merged
    <2>3. run' = [run EXCEPT ![t] = merged] /\ pend' = NoPatch /\ UNCHANGED <<runC, job, created>>
      BY <1>2, Zenon DEF StatusPatch, merged, caches, ghosts
    <2>4. \A r \in Runs : run[r].jobRef # 0 => run'[r].jobRef # 0
      BY <2>1, <2>2, <2>3, Zenon DEF TypeOK
    <2> QED BY <2>3, <2>4, Zenon DEF Remembered, NeverReplays
  <1>3. CASE StatusPatchError \/ Restart
    BY <1>3, Zenon DEF StatusPatchError, Restart, objects, caches, Remembered, NeverReplays
  <1>4. ASSUME NEW r \in Runs, SyncRun(r) \/ SyncJob(r) \/ SyncPod(r)
        PROVE  Remembered' /\ NeverReplays'
    BY <1>4, Zenon DEF SyncRun, SyncJob, SyncPod, Remembered, NeverReplays, TypeOK, objects,
       ghosts
  <1>5. ASSUME NEW r \in Runs, ConsoleCancel(r) \/ KubectlCancel(r) \/ WriteResult(r)
        PROVE  Remembered' /\ NeverReplays'
    <2>1. \A q \in Runs : run'[q].jobRef = run[q].jobRef
      BY <1>5, UserKeepsStatus, Zenon
    <2>2. UNCHANGED <<runC, job, pend, created>>
      BY <1>5, Zenon DEF ConsoleCancel, KubectlCancel, WriteResult, caches, ghosts
    <2> QED BY <2>1, <2>2, Zenon DEF Remembered, NeverReplays
  <1>6. CASE SyncTamoss \/ DeleteTamoss \/ CreateTamoss \/ ChangeProfile
    BY <1>6, Zenon DEF SyncTamoss, DeleteTamoss, CreateTamoss, ChangeProfile, Remembered,
                NeverReplays, objects, caches, ghosts
  <1>7. ASSUME NEW r \in Runs, RemoveJob(r) \/ FinishDelete(r)
        PROVE  Remembered' /\ NeverReplays'
    <2>1. job' = [job EXCEPT ![r] = NoJob] /\ MayVanish(r) /\ UNCHANGED <<run, runC, pend, created>>
      BY <1>7, Zenon DEF RemoveJob, FinishDelete, caches, ghosts
    <2>2. created[r] # 0 => runC[r].jobRef # 0
      BY <2>1, Zenon DEF MayVanish, Remembered
    <2> QED BY <2>1, <2>2, Zenon DEF Remembered, NeverReplays, TypeOK
  <1>8. ASSUME NEW r \in Runs,
               StartPod(r) \/ FinishPod(r) \/ RemovePod(r) \/ FinishJob(r) \/ ExpireObservation(r)
        PROVE  Remembered' /\ NeverReplays'
    <2>1. UNCHANGED <<run, runC, pend, created>>
      BY <1>8, Zenon DEF StartPod, FinishPod, RemovePod, FinishJob, ExpireObservation, caches,
         ghosts
    <2>2. \A q \in Runs : /\ Present(job[q]) => Present(job'[q])
                          /\ job'[q].owned = job[q].owned /\ job'[q].uid = job[q].uid
      <3>1. job[r] \in JobObject
        BY Zenon DEF TypeOK
      <3>2. ASSUME NEW st \in {"active", "finished"}, job' = [job EXCEPT ![r].state = st]
            PROVE  \A q \in Runs : /\ Present(job[q]) => Present(job'[q])
                                   /\ job'[q].owned = job[q].owned /\ job'[q].uid = job[q].uid
        <4>1. /\ [job[r] EXCEPT !.state = st].state # "absent"
              /\ [job[r] EXCEPT !.state = st].owned = job[r].owned
              /\ [job[r] EXCEPT !.state = st].uid = job[r].uid
          BY <3>1, <3>2, Zenon DEF JobObject
        <4>2. job'[r] = [job[r] EXCEPT !.state = st] /\ \A q \in Runs \ {r} : job'[q] = job[q]
          BY <3>2, Zenon DEF TypeOK
        <4> QED BY <4>1, <4>2, Zenon DEF Present
      <3>3. CASE UNCHANGED job
        BY <3>3, Zenon
      <3> QED
        BY <1>8, <3>2, <3>3, Zenon DEF StartPod, FinishPod, RemovePod, FinishJob,
           ExpireObservation
    <2> QED BY <2>1, <2>2, Zenon DEF Remembered, NeverReplays
  <1>9. CASE UNCHANGED vars
    BY <1>9, Zenon DEF vars, objects, caches, ghosts, Remembered, NeverReplays
  <1> QED
    BY <1>1, <1>2, <1>3, <1>4, <1>5, <1>6, <1>7, <1>8, <1>9, Zenon
    DEF Next, Operator, Informers, Users, Cluster

\* "TAMSin ingest is not idempotent, so the operator never replays it": with any
\* staleness and any number of restarts, at most one Job is created for a run,
\* provided Jobs outlive the lag of the run cache.
THEOREM NoReplayTheorem == ASSUME JobsOutliveLag PROVE Spec => []NeverReplays
  <1>1. Init => Remembered /\ NeverReplays
    <2> SUFFICES ASSUME Init PROVE Remembered /\ NeverReplays
      BY Zenon
    <2>1. NewRun.jobRef = 0
      BY Zenon DEF NewRun
    <2>2. /\ runC = [r \in Runs |-> NewRun]
          /\ created = [r \in Runs |-> 0] /\ pend = NoPatch
      BY Zenon DEF Init
    <2> QED BY <2>1, <2>2 DEF Remembered, NeverReplays
  <1>2. TypeOK /\ Evidence /\ Remembered /\ NeverReplays /\ [Next]_vars
           => (TypeOK /\ Evidence /\ Remembered /\ NeverReplays)'
    BY TypeStep, EvidenceStep, RememberedStep, Zenon
  <1> QED BY <1>1, <1>2, InitInvariant, PTL DEF Spec

-----------------------------------------------------------------------------

\* The lock that a current run cache amounts to: the patch in flight replaces
\* the phase it was computed from, and that phase was not terminal.
Locked ==
    /\ pend # NoPatch => /\ run[pend.target].phase = pend.base.phase
                         /\ pend.base.phase \notin Terminal
                         /\ pend.target \in Invalid => pend.new.phase \notin Terminal
    /\ \A r \in Invalid : run[r].phase \notin Terminal

\* A run with an invalid output intent is only ever set Pending.
LEMMA InvalidStaysPending ==
    ASSUME TypeOK, NEW r \in Runs, r \in Invalid, Reconcile(r)
    PROVE  pend'.new.phase = "Pending"
  <1> DEFINE new == [runC[r] EXCEPT !.phase = "Pending", !.jobRef = runC[r].jobRef,
                                    !.attempt = runC[r].attempt]
  <1>1. SetPhase(r, "Pending", FALSE, 0, 0)
    BY Zenon DEF Reconcile
  <1>2. pend'.new = new
    BY <1>1 DEF SetPhase, Patch
  <1>3. new.phase = "Pending"
    BY Zenon DEF TypeOK, RunObject
  <1> QED BY <1>2, <1>3, Zenon

\* Every step keeps the lock and overwrites no terminal phase, as long as the
\* run cache is current when a pass reads it.
LEMMA LockedStep ==
    ASSUME "run" \notin Lagging, TypeOK, Evidence, Locked, [Next]_vars
    PROVE  /\ Locked'
           /\ \A r \in Runs : run[r].phase \in Terminal => run'[r].phase = run[r].phase
  <1> DEFINE Goal == /\ Locked'
                     /\ \A r \in Runs : run[r].phase \in Terminal => run'[r].phase = run[r].phase
  <1>0. Invalid \subseteq Runs
    BY SetsAssumption, Zenon
  <1>1. ASSUME NEW r \in Runs, Reconcile(r)
        PROVE  Goal
    <2>1. run' = run /\ pend = NoPatch /\ runC = run
      BY <1>1, ReconcileFrame, Zenon DEF Reconcile, CachesCurrent
    <2>2. CASE NoWrite
      BY <2>1, <2>2, Zenon DEF NoWrite, Locked
    <2>3. CASE GoodPatch(r) /\ ~NoWrite
      <3>1. runC[r].phase \notin Terminal
        <4>1. CASE r \in Invalid
          BY <2>1, <4>1, Zenon DEF Locked
        <4>2. CASE r \notin Invalid
          <5>1. isIngestRunTerminal(runC[r].phase) => NoWrite
            BY <1>1, <4>2, Zenon DEF Reconcile, NoWrite, Return, TypeOK
          <5> QED BY <2>3, <5>1, Zenon DEF isIngestRunTerminal
        <4> QED BY <4>1, <4>2, Zenon
      <3>2. r \in Invalid => pend'.new.phase \notin Terminal
        BY <1>1, InvalidStaysPending, Zenon DEF Terminal
      <3> QED BY <2>1, <2>3, <3>1, <3>2, Zenon DEF GoodPatch, Locked
    <2> QED BY <1>1, <2>2, <2>3, ReconcileEffect, Zenon
  <1>2. CASE StatusPatch
    <2> DEFINE t == pend.target
               merged == MergePatch(run[t], pend.base, pend.new)
    <2>1. t \in Runs /\ pend.base \in RunObject /\ pend.new \in RunObject /\ pend # NoPatch
      BY <1>2, Zenon DEF StatusPatch, TypeOK, Patches
    <2>2. merged.phase \in {run[t].phase, pend.new.phase}
      BY <2>1, MergePatchType, Zenon DEF TypeOK
    <2> HIDE DEF merged
    <2>3. run' = [run EXCEPT ![t] = merged] /\ pend' = NoPatch
      BY <1>2, Zenon DEF StatusPatch, merged
    <2>4. run[t].phase \notin Terminal /\ (t \in Invalid => merged.phase \notin Terminal)
      BY <2>1, <2>2, Zenon DEF Locked
    <2>5. run'[t] = merged /\ \A r \in Runs \ {t} : run'[r] = run[r]
      BY <2>1, <2>3, Zenon DEF TypeOK
    <2> QED BY <1>0, <2>3, <2>4, <2>5, Zenon DEF Locked
  <1>3. CASE StatusPatchError \/ Restart
    BY <1>3, Zenon DEF StatusPatchError, Restart, objects, Locked
  <1>4. ASSUME NEW r \in Runs, ConsoleCancel(r) \/ KubectlCancel(r) \/ WriteResult(r)
        PROVE  Goal
    <2>1. \A q \in Runs : run'[q].phase = run[q].phase
      BY <1>4, UserKeepsStatus, Zenon
    <2>2. pend' = pend
      BY <1>4, Zenon DEF ConsoleCancel, KubectlCancel, WriteResult
    <2>3. pend # NoPatch => pend.target \in Runs
      BY Zenon DEF TypeOK, Patches
    <2> QED BY <1>0, <2>1, <2>2, <2>3, Zenon DEF Locked
  <1>5. CASE UNCHANGED <<run, pend>>
    BY <1>5, Zenon DEF Locked
  <1>6. CASE SyncTamoss \/ DeleteTamoss \/ CreateTamoss \/ ChangeProfile
    BY <1>5, <1>6, Zenon DEF SyncTamoss, DeleteTamoss, CreateTamoss, ChangeProfile, objects
  <1>7. ASSUME NEW r \in Runs, SyncRun(r) \/ SyncJob(r) \/ SyncPod(r)
        PROVE  Goal
    BY <1>5, <1>7, Zenon DEF SyncRun, SyncJob, SyncPod, objects
  <1>8. ASSUME NEW r \in Runs,
               \/ StartPod(r) \/ FinishPod(r) \/ RemovePod(r) \/ FinishJob(r)
               \/ ExpireObservation(r) \/ RemoveJob(r) \/ FinishDelete(r)
        PROVE  Goal
    BY <1>5, <1>8, Zenon DEF StartPod, FinishPod, RemovePod, FinishJob, ExpireObservation,
       RemoveJob,
                      FinishDelete
  <1>9. CASE UNCHANGED vars
    BY <1>5, <1>9, Zenon DEF vars, objects
  <1> QED
    BY <1>1, <1>2, <1>3, <1>4, <1>6, <1>7, <1>8, <1>9, Zenon
    DEF Next, Operator, Informers, Users, Cluster

\* "Retrying creates a new IngestRun so completed history remains immutable":
\* a terminal phase is never overwritten, provided the run cache is current
\* when a pass reads it (the status patch itself carries no resource version).
THEOREM TerminalTheorem == ASSUME "run" \notin Lagging PROVE Spec => TerminalIsFinal
  <1>1. Init => Locked
    <2> SUFFICES ASSUME Init PROVE Locked
      BY Zenon
    <2>1. NewRun.phase \notin Terminal
      BY Zenon DEF NewRun, Terminal
    <2>2. run = [r \in Runs |-> NewRun] /\ pend = NoPatch
      BY Zenon DEF Init
    <2> QED BY <2>1, <2>2, SetsAssumption, Zenon DEF Locked
  <1>2. TypeOK /\ Evidence /\ Locked /\ [Next]_vars => (TypeOK /\ Evidence /\ Locked)'
    BY TypeStep, EvidenceStep, LockedStep, Zenon
  <1>3. TypeOK /\ Evidence /\ Locked /\ [Next]_vars =>
           [\A r \in Runs : run[r].phase \in Terminal => run'[r].phase = run[r].phase]_vars
    BY LockedStep, Zenon
  <1> QED BY <1>1, <1>2, <1>3, InitInvariant, PTL DEF Spec, TerminalIsFinal

-----------------------------------------------------------------------------
(* What the controller guarantees when its passes read current caches.     *)
(* Each theorem names the caches it needs: they are the reads the code     *)
(* does not repeat against the API server.                                 *)

\* A pass that creates a Job has found the run unfinished, its retry parent
\* finished, and the profiles it hands to the Job recorded.
Admitted(r) ==
    /\ MakesJob(r)
    /\ r \notin Invalid /\ runC[r].phase \notin Terminal
    /\ validateRetryParent(r) > 0
    /\ runC[r].profiles = ResolvedProfiles(r)

\* The patch of a pass of r that sets a phase, a reference and an attempt; 0 leaves
\* the last two as they are.
Carries(r, phase, uid, attempt) ==
    /\ pend'.target = r /\ pend'.base = runC[r]
    /\ pend'.new.phase \in {"Running", phase}
    /\ pend'.new.profiles = runC[r].profiles
    /\ pend'.new.jobRef = IF uid > 0 THEN uid ELSE runC[r].jobRef
    /\ pend'.new.attempt = IF attempt > 0 THEN attempt ELSE runC[r].attempt

\* What a pass of r decides: which fields of the status its patch changes, and
\* on which grounds.
Decided(r) ==
    LET new == pend'.new
    IN /\ pend'.target = r /\ pend'.base = runC[r]
       /\ new.profiles # runC[r].profiles => ~Present(jobC[r]) /\ KeepsJob
       /\ new.phase = "Cancelled" => ~Present(jobC[r]) /\ ~ingestRunPodsRemain(r) /\ KeepsJob
       /\ new.attempt # runC[r].attempt =>
             validateRetryParent(r) > 0 /\ new.attempt = validateRetryParent(r)
       /\ \/ new.jobRef = runC[r].jobRef
          \/ new.jobRef = jobC[r].uid /\ Present(jobC[r]) /\ jobC[r].owned
          \/ new.jobRef = created[r] + 1 /\ MakesJob(r)

\* A step that creates no Job keeps the identity of every Job it leaves, starts a
\* Pod only for an owned Job, and changes no status field of the controller.
JobsShrink ==
    \A q \in Runs : Present(job'[q]) =>
        /\ Present(job[q]) /\ job'[q].owned = job[q].owned
        /\ job'[q].uid = job[q].uid /\ job'[q].profiles = job[q].profiles

PodsFollow ==
    \A q \in Runs : pod'[q].state # "absent" =>
        \/ /\ pod[q].state # "absent" /\ pod'[q].uid = pod[q].uid
           /\ pod'[q].state = "running" => pod[q].state = "running"
        \/ Present(job[q]) /\ job[q].owned /\ pod'[q].uid = job[q].uid

StatusKept ==
    \A q \in Runs : /\ run'[q].phase = run[q].phase /\ run'[q].jobRef = run[q].jobRef
                    /\ run'[q].attempt = run[q].attempt /\ run'[q].profiles = run[q].profiles

Quiet == JobsShrink /\ PodsFollow /\ StatusKept /\ created' = created /\ pend' \in {pend, NoPatch}

\* The retry invariant: a run that has a Job, an attempt number or a patch that
\* gives it one follows a terminal parent.
Follows(r, attempt) ==
    Parent[r] # NoRun => /\ run[Parent[r]].phase \in Terminal
                         /\ attempt > run[Parent[r]].attempt

Lineage ==
    /\ \A r \in Runs : run[r].attempt # 0 => Follows(r, run[r].attempt)
    /\ \A r \in Runs : Present(job[r]) /\ job[r].owned /\ Parent[r] # NoRun =>
                          run[Parent[r]].phase \in Terminal
    /\ pend # NoPatch =>
          /\ run[pend.target].attempt = pend.base.attempt
          /\ pend.new.attempt # pend.base.attempt => Follows(pend.target, pend.new.attempt)

\* The snapshot invariant: no patch changes the profiles of a run with a Job.
Snapshot ==
    /\ ProfilesRecorded
    /\ pend # NoPatch => \/ pend.new.profiles = pend.base.profiles
                         \/ ~Present(job[pend.target])

\* The stop invariant: Job, Pod and recorded reference name the one Job that was
\* created, and Cancelled is decided and reported without either.
Stopped(r) == ~(Present(job[r]) /\ job[r].owned) /\ pod[r].state # "running"

Halted ==
    /\ \A r \in Runs :
          /\ Present(job[r]) /\ job[r].owned => job[r].uid = created[r] /\ created[r] # 0
          /\ pod[r].state # "absent" => pod[r].uid = created[r] /\ created[r] # 0
          /\ run[r].jobRef \in {0, created[r]}
          /\ run[r].phase = "Cancelled" => Stopped(r)
    /\ pend # NoPatch => /\ pend.new.jobRef \in {0, created[pend.target]}
                         /\ pend.new.phase = "Cancelled" => Stopped(pend.target)

-----------------------------------------------------------------------------

\* setIngestRunJobPhaseWithStream field by field.
LEMMA SetPhaseFields ==
    ASSUME TypeOK, NEW r \in Runs, NEW phase \in Phases, NEW poll \in BOOLEAN,
           NEW uid \in Nat, NEW attempt \in Nat,
           SetPhase(r, phase, poll, uid, attempt)
    PROVE  Carries(r, phase, uid, attempt)
  <1> DEFINE held == phase \in {"Succeeded", "PartiallySucceeded"}
                     /\ ingestResultUnverified(runC[r].result)
             settled == IF held THEN "Running" ELSE phase
             ref == IF uid > 0 THEN uid ELSE runC[r].jobRef
             try == IF attempt > 0 THEN attempt ELSE runC[r].attempt
             new == [runC[r] EXCEPT !.phase = settled, !.jobRef = ref, !.attempt = try]
             again == ~isIngestRunTerminal(settled) /\ (held \/ poll)
  <1>1. Patch(r, new, again)
    BY Zenon DEF SetPhase
  <1>2. runC[r] \in RunObject
    BY Zenon DEF TypeOK
  <1>3. settled \in {"Running", phase}
    BY Zenon
  <1> HIDE DEF settled, ref, try, again
  <1>4. /\ new.phase = settled /\ new.jobRef = ref /\ new.attempt = try
        /\ new.profiles = runC[r].profiles
    BY <1>2, Zenon DEF RunObject
  <1> HIDE DEF new
  <1>5. pend'.target = r /\ pend'.base = runC[r] /\ pend'.new = new
    BY <1>1, Zenon DEF Patch
  <1> QED
    BY <1>3, <1>4, <1>5, Zenon DEF ref, try, Carries

\* One pass of Reconcile: it leaves the patch alone or decides one, and creates
\* a Job only when it may be admitted.
LEMMA PassDecides ==
    ASSUME TypeOK, NEW r \in Runs, Reconcile(r)
    PROVE  /\ UNCHANGED pend \/ Decided(r)
           /\ KeepsJob \/ MarksJob(r) \/ Admitted(r)
  <1> DEFINE Goal == /\ UNCHANGED pend \/ Decided(r)
                     /\ KeepsJob \/ MarksJob(r) \/ Admitted(r)
  <1>0. jobC[r] \in JobObject /\ runC[r] \in RunObject
    BY Zenon DEF TypeOK
  <1>1. jobC[r].uid \in Nat /\ runC[r].jobRef \in Nat /\ runC[r].attempt \in Nat
    BY <1>0, Zenon DEF JobObject, RunObject
  <1>2. ASSUME NEW phase \in {"Pending", "Running", "Queued", "Failed"},
               NEW poll \in BOOLEAN, SetPhase(r, phase, poll, 0, 0)
        PROVE  Decided(r)
    <2>1. phase \in Phases /\ 0 \in Nat /\ phase # "Cancelled"
      BY Zenon DEF Phases, Terminal
    <2>2. Carries(r, phase, 0, 0)
      BY <1>2, <2>1, SetPhaseFields, Zenon
    <2> QED BY <2>1, <2>2 DEF Decided, Carries
  <1>3. ASSUME NEW phase \in Phases \ {"Cancelled"}, NEW poll \in BOOLEAN,
               SetPhase(r, phase, poll, jobC[r].uid, 0), Present(jobC[r]), jobC[r].owned
        PROVE  Decided(r)
    <2>1. Carries(r, phase, jobC[r].uid, 0)
      BY <1>1, <1>3, SetPhaseFields, Zenon
    <2> QED BY <1>1, <1>3, <2>1 DEF Decided, Carries
  <1>4. ASSUME DeleteJob(r), UNCHANGED created
        PROVE  KeepsJob \/ MarksJob(r)
    <2>1. CASE Present(job[r])
      BY <1>4, <2>1, Zenon DEF DeleteJob, MarksJob
    <2>2. CASE ~Present(job[r])
      BY <1>4, <2>2, Zenon DEF DeleteJob, KeepsJob, TypeOK
    <2> QED BY <2>1, <2>2, Zenon
  <1> DEFINE own == Present(jobC[r]) => jobC[r].owned
  <1>5. ASSUME reconcileIngestCancellation(r), UNCHANGED created, own
        PROVE  Goal
    <2>1. CASE ~Present(jobC[r]) /\ UNCHANGED job /\ ingestRunPodsRemain(r)
               /\ SetPhase(r, "Running", TRUE, 0, 0)
      BY <1>2, <1>5, <2>1, Zenon DEF KeepsJob
    <2>2. CASE ~Present(jobC[r]) /\ UNCHANGED job /\ ~ingestRunPodsRemain(r)
               /\ SetPhase(r, "Cancelled", TRUE, 0, 0)
      <3>1. KeepsJob
        BY <1>5, <2>2, Zenon DEF KeepsJob
      <3>2. "Cancelled" \in Phases /\ TRUE \in BOOLEAN /\ 0 \in Nat
        BY Zenon DEF Phases, Terminal
      <3>3. Carries(r, "Cancelled", 0, 0)
        BY <2>2, <3>2, SetPhaseFields, Zenon
      <3>4. Decided(r)
        BY <2>2, <3>1, <3>3 DEF Decided, Carries
      <3> QED BY <3>1, <3>4, Zenon
    <2>3. CASE /\ Present(jobC[r])
               /\ IF jobC[r].deleting THEN UNCHANGED job ELSE DeleteJob(r)
               /\ SetPhase(r, "Running", TRUE, jobC[r].uid, 0)
      <3>1. Decided(r)
        BY <1>3, <1>5, <2>3, Zenon DEF Phases, Terminal
      <3> QED BY <1>4, <1>5, <2>3, <3>1, Zenon DEF KeepsJob
    <2> QED BY <1>5, <2>1, <2>2, <2>3, Zenon DEF reconcileIngestCancellation
  <1>6. ASSUME TamossNotFound(r), UNCHANGED created, own
        PROVE  Goal
    <2>1. CASE ~Present(jobC[r]) /\ SetPhase(r, "Pending", TRUE, 0, 0) /\ UNCHANGED job
      BY <1>2, <1>6, <2>1, Zenon DEF KeepsJob
    <2>2. CASE UNCHANGED <<job, pend>>
      BY <1>6, <2>2, Zenon DEF KeepsJob
    <2>3. CASE /\ Present(jobC[r])
               /\ IF jobC[r].deleting THEN UNCHANGED job ELSE DeleteJob(r)
               /\ SetPhase(r, "Failed", FALSE, jobC[r].uid, 0)
      <3>1. Decided(r)
        BY <1>3, <1>6, <2>3, Zenon DEF Phases, Terminal
      <3> QED BY <1>4, <1>6, <2>3, <3>1, Zenon DEF KeepsJob
    <2> QED BY <1>6, <2>1, <2>2, <2>3, Zenon DEF TamossNotFound, abandonIngestRunForDeletedTamoss
  <1>7. ASSUME TrackJob(r), Present(jobC[r]), own
        PROVE  Decided(r)
    <2>1. ASSUME NEW stream \in collectIngestStream(r),
                 SetPhase(r, FinishedPhase(r, stream), TRUE, jobC[r].uid, 0)
          PROVE  Decided(r)
      <3>1. FinishedPhase(r, stream)
               \in {"Failed", "Running", "Succeeded", "PartiallySucceeded"}
        <4> DEFINE unproven == \/ stream = "unavailable"
                               \/ /\ stream \in {"succeeded", "partial"}
                                  /\ ingestResultUnverified(runC[r].result)
        <4>1. FinishedPhase(r, stream) =
                 IF unproven THEN IF late[r] = jobC[r].uid THEN "Failed" ELSE "Running"
                 ELSE IF stream = "succeeded" THEN "Succeeded"
                 ELSE IF stream = "partial" THEN "PartiallySucceeded" ELSE "Failed"
          BY Zenon DEF FinishedPhase, ingestResultUnverified
        <4> QED BY <4>1, Zenon
      <3> QED BY <1>3, <1>7, <2>1, <3>1, Zenon DEF Phases, Terminal
    <2>2. CASE SetPhase(r, "Running", FALSE, jobC[r].uid, 0)
      BY <1>3, <1>7, <2>2, Zenon DEF Phases, Terminal
    <2>3. CASE SetPhase(r, "Queued", FALSE, jobC[r].uid, 0)
      BY <1>3, <1>7, <2>3, Zenon DEF Phases, Terminal
    <2> QED BY <1>7, <2>1, <2>2, <2>3, Zenon DEF TrackJob
  <1>8. ASSUME reconcileMissingIngestJob(r)
        PROVE  UNCHANGED pend \/ Decided(r)
    BY <1>2, <1>8, Zenon DEF reconcileMissingIngestJob
  <1>9. ASSUME AdmitRun(r), runC[r].jobRef = 0, ~Present(jobC[r]),
               r \notin Invalid, runC[r].phase \notin Terminal
        PROVE  Goal
    <2>1. ASSUME NEW poll \in BOOLEAN, SetPhase(r, "Pending", poll, 0, 0), UNCHANGED <<job, created>>
          PROVE  Goal
      BY <1>2, <2>1, Zenon DEF KeepsJob
    <2>2. CASE Patch(r, [runC[r] EXCEPT !.profiles = ResolvedProfiles(r)], TRUE)
               /\ UNCHANGED <<job, created>>
      <3> DEFINE new == [runC[r] EXCEPT !.profiles = ResolvedProfiles(r)]
      <3>1. /\ new.phase = runC[r].phase /\ new.jobRef = runC[r].jobRef
            /\ new.attempt = runC[r].attempt
        BY <1>0, Zenon DEF RunObject
      <3> HIDE DEF new
      <3>2. pend'.target = r /\ pend'.base = runC[r] /\ pend'.new = new
        BY <2>2, Zenon DEF Patch, new
      <3>3. KeepsJob
        BY <2>2, Zenon DEF KeepsJob
      <3> QED BY <1>9, <3>1, <3>2, <3>3, Zenon DEF Decided, Terminal
    <2>3. CASE CreateJob(r) /\ validateRetryParent(r) > 0 /\ runC[r].profiles = ResolvedProfiles(r)
      <3>1. CASE UNCHANGED <<job, pend, created>>
        BY <3>1, Zenon DEF KeepsJob
      <3>2. CASE /\ ~Present(job[r])
                 /\ created' = [created EXCEPT ![r] = @ + 1]
                 /\ job' = [job EXCEPT ![r] = [state |-> "queued", uid |-> created'[r],
                              owned |-> TRUE, deleting |-> FALSE, profiles |-> ResolvedProfiles(r)]]
                 /\ SetPhase(r, "Queued", FALSE, created'[r], validateRetryParent(r))
        <4>1. created'[r] = created[r] + 1 /\ created'[r] \in Nat /\ created[r] \in Nat
          BY <3>2 DEF TypeOK
        <4>2. MakesJob(r)
          BY <1>9, <3>2, <4>1, Zenon DEF MakesJob
        <4>3. validateRetryParent(r) \in Nat
          <5>1. Parent[r] # NoRun => Parent[r] \in Runs
            BY ParentAssumption, Zenon
          <5>2. Parent[r] # NoRun => runC[Parent[r]].attempt \in Nat
            BY <5>1, Zenon DEF TypeOK, RunObject
          <5> QED BY <5>2 DEF validateRetryParent
        <4>4. "Queued" \in Phases /\ FALSE \in BOOLEAN
          BY Zenon DEF Phases
        <4>5. Carries(r, "Queued", created'[r], validateRetryParent(r))
          BY <3>2, <4>1, <4>3, <4>4, SetPhaseFields, Zenon
        <4>6. Decided(r)
          BY <2>3, <4>1, <4>2, <4>3, <4>5, Zenon DEF Decided, Carries
        <4> QED BY <1>9, <2>3, <4>2, <4>6, Zenon DEF Admitted
      <3> QED BY <2>3, <3>1, <3>2, Zenon DEF CreateJob
    <2> QED BY <1>9, <2>1, <2>2, <2>3, Zenon DEF AdmitRun
  <1>10. ASSUME ReconcileActive(r), r \notin Invalid, runC[r].phase \notin Terminal
         PROVE  Goal
    <2>1. CASE SetPhase(r, "Pending", TRUE, 0, 0) /\ UNCHANGED <<job, created>>
      BY <1>2, <2>1, Zenon DEF KeepsJob
    <2>2. CASE own /\ Present(jobC[r]) /\ TrackJob(r) /\ UNCHANGED <<job, created>>
      BY <1>7, <2>2, Zenon DEF KeepsJob
    <2>3. CASE reconcileMissingIngestJob(r) /\ UNCHANGED <<job, created>>
      BY <1>8, <2>3, Zenon DEF KeepsJob
    <2> QED BY <1>5, <1>6, <1>9, <1>10, <2>1, <2>2, <2>3, Zenon DEF ReconcileActive
  <1>11. CASE r \in Invalid /\ SetPhase(r, "Pending", FALSE, 0, 0) /\ UNCHANGED <<job, created>>
    BY <1>2, <1>11, Zenon DEF KeepsJob
  <1>12. CASE UNCHANGED <<pend, job, created>>
    BY <1>12, Zenon DEF KeepsJob
  <1> QED BY <1>10, <1>11, <1>12, Zenon DEF Reconcile, isIngestRunTerminal

-----------------------------------------------------------------------------

\* MergePatch, field by field.
LEMMA MergePatchFields ==
    ASSUME NEW live \in RunObject, NEW base \in RunObject, NEW new \in RunObject
    PROVE  LET merged == MergePatch(live, base, new)
           IN /\ merged.attempt = IF new.attempt # base.attempt THEN new.attempt ELSE live.attempt
              /\ merged.profiles = IF new.profiles # base.profiles THEN new.profiles ELSE live.profiles
  BY Zenon DEF MergePatch, RunObject

\* Users and the result writer leave every status field of the controller alone.
LEMMA UserKeepsFields ==
    ASSUME TypeOK, NEW r \in Runs, ConsoleCancel(r) \/ KubectlCancel(r) \/ WriteResult(r)
    PROVE  StatusKept
  <1>1. run[r] \in RunObject
    BY Zenon DEF TypeOK
  <1> DEFINE Same(y) == /\ y.phase = run[r].phase /\ y.jobRef = run[r].jobRef
                        /\ y.attempt = run[r].attempt /\ y.profiles = run[r].profiles
  <1>2. Same([run[r] EXCEPT !.desired = "Cancelled"])
    BY <1>1, Zenon DEF RunObject
  <1>3. \A x \in Results : Same([run[r] EXCEPT !.result = x])
    BY <1>1, Zenon DEF RunObject
  <1>4. PICK y : run' = [run EXCEPT ![r] = y] /\ Same(y)
    BY <1>2, <1>3, Zenon DEF ConsoleCancel, KubectlCancel, WriteResult
  <1> QED BY <1>4, Zenon DEF TypeOK, StatusKept

\* The Job controller and the kubelet create no Job, and a Pod only for one.
LEMMA ClusterIsQuiet ==
    ASSUME TypeOK, NEW r \in Runs,
           \/ StartPod(r) \/ FinishPod(r) \/ RemovePod(r) \/ FinishJob(r)
           \/ ExpireObservation(r) \/ RemoveJob(r) \/ FinishDelete(r)
    PROVE  Quiet
  <1>1. UNCHANGED <<run, created, pend>>
    BY Zenon DEF StartPod, FinishPod, RemovePod, FinishJob, ExpireObservation, RemoveJob,
           FinishDelete, ghosts
  <1>2. JobsShrink
    <2>1. job[r] \in JobObject
      BY Zenon DEF TypeOK
    <2>2. ASSUME NEW st \in {"active", "finished"}, job[r].state # "absent",
                 job' = [job EXCEPT ![r].state = st]
          PROVE  JobsShrink
      <3>1. /\ [job[r] EXCEPT !.state = st].owned = job[r].owned
            /\ [job[r] EXCEPT !.state = st].uid = job[r].uid
            /\ [job[r] EXCEPT !.state = st].profiles = job[r].profiles
        BY <2>1, Zenon DEF JobObject
      <3>2. job'[r] = [job[r] EXCEPT !.state = st] /\ \A q \in Runs \ {r} : job'[q] = job[q]
        BY <2>2, Zenon DEF TypeOK
      <3> QED BY <2>2, <3>1, <3>2, Zenon DEF JobsShrink, Present
    <2>3. CASE job' = [job EXCEPT ![r] = NoJob]
      BY <2>3, Zenon DEF JobsShrink, Present, NoJob, TypeOK
    <2>4. CASE UNCHANGED job
      BY <2>4, Zenon DEF JobsShrink
    <2> QED
      BY <2>2, <2>3, <2>4, Zenon DEF StartPod, FinishPod, RemovePod, FinishJob, ExpireObservation,
                              RemoveJob, FinishDelete
  <1>3. PodsFollow
    <2>1. CASE StartPod(r)
      <3>1. /\ Present(job[r]) /\ job[r].owned
            /\ pod' = [pod EXCEPT ![r] = [state |-> "running", uid |-> job[r].uid, stream |-> "none"]]
        BY <2>1, Zenon DEF StartPod, Present
      <3>2. pod'[r].uid = job[r].uid /\ \A q \in Runs \ {r} : pod'[q] = pod[q]
        BY <3>1, Zenon DEF TypeOK
      <3> QED BY <3>1, <3>2, Zenon DEF PodsFollow
    <2>2. CASE FinishPod(r)
      <3>1. PICK s \in Streams :
               pod' = [pod EXCEPT ![r] = [state |-> "done", uid |-> @.uid, stream |-> s]]
        BY <2>2, Zenon DEF FinishPod
      <3>2. pod[r].state = "running"
        BY <2>2, Zenon DEF FinishPod
      <3>3. /\ pod'[r].uid = pod[r].uid /\ pod'[r].state = "done"
            /\ \A q \in Runs \ {r} : pod'[q] = pod[q]
        BY <3>1, Zenon DEF TypeOK
      <3> QED BY <3>2, <3>3, Zenon DEF PodsFollow
    <2>3. CASE RemovePod(r)
      BY <2>3, Zenon DEF RemovePod, PodsFollow, NoPod, TypeOK
    <2>4. CASE UNCHANGED pod
      BY <2>4, Zenon DEF PodsFollow
    <2> QED
      BY <2>1, <2>2, <2>3, <2>4, Zenon DEF FinishJob, ExpireObservation, RemoveJob, FinishDelete
  <1> QED
    BY <1>1, <1>2, <1>3, Zenon DEF Quiet, StatusKept

\* Every step is a pass, a status patch or quiet.
LEMMA StepCases ==
    ASSUME TypeOK, [Next]_vars
    PROVE  (\E r \in Runs : Reconcile(r)) \/ StatusPatch \/ Quiet
  <1>1. ASSUME UNCHANGED <<job, pod, created>>, StatusKept, pend' \in {pend, NoPatch}
        PROVE  Quiet
    BY <1>1, Zenon DEF Quiet, JobsShrink, PodsFollow
  <1>2. UNCHANGED run => StatusKept
    BY Zenon DEF StatusKept
  <1>3. CASE StatusPatchError \/ Restart
    BY <1>1, <1>2, <1>3, Zenon DEF StatusPatchError, Restart, objects
  <1>4. ASSUME NEW r \in Runs, SyncRun(r) \/ SyncJob(r) \/ SyncPod(r)
        PROVE  Quiet
    BY <1>1, <1>2, <1>4, Zenon DEF SyncRun, SyncJob, SyncPod, objects, ghosts
  <1>5. ASSUME NEW r \in Runs, ConsoleCancel(r) \/ KubectlCancel(r) \/ WriteResult(r)
        PROVE  Quiet
    <2>1. UNCHANGED <<job, pod, created, pend>>
      BY <1>5, Zenon DEF ConsoleCancel, KubectlCancel, WriteResult, ghosts
    <2> QED BY <1>1, <1>5, <2>1, UserKeepsFields, Zenon
  <1>6. CASE SyncTamoss \/ DeleteTamoss \/ CreateTamoss \/ ChangeProfile
    BY <1>1, <1>2, <1>6, Zenon DEF SyncTamoss, DeleteTamoss, CreateTamoss, ChangeProfile,
       objects, ghosts
  <1>7. CASE UNCHANGED vars
    BY <1>1, <1>2, <1>7, Zenon DEF vars, objects, ghosts
  <1> QED
    BY <1>3, <1>4, <1>5, <1>6, <1>7, ClusterIsQuiet, Zenon
    DEF Next, Operator, Informers, Users, Cluster

\* What a pass does to the Jobs.
LEMMA PassJobs ==
    ASSUME TypeOK, NEW r \in Runs, Reconcile(r)
    PROVE  \/ JobsShrink /\ created' = created
           \/ Admitted(r)
  <1>1. CASE KeepsJob
    BY <1>1, Zenon DEF KeepsJob, JobsShrink
  <1>2. CASE MarksJob(r)
    <2>1. job[r] \in JobObject
      BY Zenon DEF TypeOK
    <2> DEFINE j == [job[r] EXCEPT !.deleting = TRUE]
    <2>2. j.owned = job[r].owned /\ j.uid = job[r].uid /\ j.profiles = job[r].profiles
      BY <2>1, Zenon DEF JobObject
    <2>3. Present(job[r]) /\ created' = created /\ job' = [job EXCEPT ![r] = j]
      BY <1>2, Zenon DEF MarksJob
    <2> HIDE DEF j
    <2> QED BY <2>2, <2>3, Zenon DEF JobsShrink, TypeOK
  <1> QED BY <1>1, <1>2, PassDecides, Zenon

\* What the status patch stores.
LEMMA PatchStores ==
    ASSUME TypeOK, StatusPatch
    PROVE  LET t == pend.target
           IN /\ pend # NoPatch /\ t \in Runs
              /\ \A q \in Runs \ {t} : run'[q] = run[q]
              /\ run'[t].phase \in {run[t].phase, pend.new.phase}
              /\ run'[t].jobRef = IF pend.new.jobRef # pend.base.jobRef
                                  THEN pend.new.jobRef ELSE run[t].jobRef
              /\ run'[t].attempt = IF pend.new.attempt # pend.base.attempt
                                   THEN pend.new.attempt ELSE run[t].attempt
              /\ run'[t].profiles = IF pend.new.profiles # pend.base.profiles
                                    THEN pend.new.profiles ELSE run[t].profiles
              /\ pend' = NoPatch /\ UNCHANGED <<job, pod, created>>
  <1> DEFINE t == pend.target
             merged == MergePatch(run[t], pend.base, pend.new)
  <1>1. /\ t \in Runs /\ pend.base \in RunObject /\ pend.new \in RunObject /\ pend # NoPatch
        /\ run[t] \in RunObject
    BY Zenon DEF StatusPatch, TypeOK, Patches
  <1>2. run' = [run EXCEPT ![t] = merged] /\ pend' = NoPatch /\ UNCHANGED <<job, pod, created>>
    BY Zenon DEF StatusPatch, ghosts
  <1>3. /\ merged.phase \in {run[t].phase, pend.new.phase}
        /\ merged.jobRef = IF pend.new.jobRef # pend.base.jobRef
                           THEN pend.new.jobRef ELSE run[t].jobRef
    BY <1>1, MergePatchType
  <1>4. /\ merged.attempt = IF pend.new.attempt # pend.base.attempt
                            THEN pend.new.attempt ELSE run[t].attempt
        /\ merged.profiles = IF pend.new.profiles # pend.base.profiles
                             THEN pend.new.profiles ELSE run[t].profiles
    BY <1>1, MergePatchFields
  <1> HIDE DEF merged
  <1>5. run'[t] = merged /\ \A q \in Runs \ {t} : run'[q] = run[q]
    BY <1>1, <1>2, Zenon DEF TypeOK
  <1> QED BY <1>1, <1>2, <1>3, <1>4, <1>5, Zenon

-----------------------------------------------------------------------------

\* Every step keeps the lineage of retries, when passes read current runs.
LEMMA LineageStep ==
    ASSUME "run" \notin Lagging, TypeOK, Evidence, Locked, Lineage, [Next]_vars
    PROVE  Lineage'
  <1>1. \A q \in Runs : Parent[q] # NoRun => Parent[q] \in Runs
    BY ParentAssumption, Zenon
  <1>2. pend # NoPatch => pend.target \in Runs
    BY Zenon DEF TypeOK, Patches
  <1>3. CASE Quiet
    <2>1. \A q \in Runs : run'[q].attempt = run[q].attempt /\ run'[q].phase = run[q].phase
      BY <1>3, Zenon DEF Quiet, StatusKept
    <2>2. \A q \in Runs : \A n \in Nat : Follows(q, n) => Follows(q, n)'
      BY <1>1, <2>1, Zenon DEF Follows
    <2>3. \A q \in Runs : run[q].attempt \in Nat
      BY Zenon DEF TypeOK, RunObject
    <2>4. \A q \in Runs : run'[q].attempt # 0 => Follows(q, run[q].attempt)'
      <3> SUFFICES ASSUME NEW q \in Runs, run[q].attempt # 0
                   PROVE  Parent[q] # NoRun => /\ run'[Parent[q]].phase \in Terminal
                                               /\ run'[q].attempt > run'[Parent[q]].attempt
        BY <2>1, Zenon DEF Follows
      <3> QED BY <1>1, <2>1, Zenon DEF Lineage, Follows
    <2>5. \A q \in Runs : Present(job[q])' /\ job'[q].owned /\ Parent[q] # NoRun
                             => run'[Parent[q]].phase \in Terminal
      BY <1>1, <1>3, <2>1, Zenon DEF Quiet, JobsShrink, Lineage, Present
    <2>6. pend' # NoPatch =>
             /\ run'[pend'.target].attempt = pend'.base.attempt
             /\ pend'.new.attempt # pend'.base.attempt => Follows(pend.target, pend.new.attempt)'
      <3> SUFFICES ASSUME pend' # NoPatch
                   PROVE  /\ run'[pend'.target].attempt = pend'.base.attempt
                          /\ pend'.new.attempt # pend'.base.attempt =>
                                Follows(pend.target, pend.new.attempt)'
        BY Zenon
      <3>1. pend' = pend /\ pend # NoPatch /\ pend.target \in Runs
        BY <1>2, <1>3, Zenon DEF Quiet
      <3>2. pend.new.attempt \in Nat
        BY <3>1, Zenon DEF TypeOK, Patches, RunObject
      <3> QED BY <1>1, <2>1, <3>1, <3>2, Zenon DEF Lineage, Follows
    <2> QED BY <2>4, <2>5, <2>6, Zenon DEF Lineage
  <1>4. CASE StatusPatch
    <2> DEFINE t == pend.target
    <2>1. /\ pend # NoPatch /\ t \in Runs /\ pend' = NoPatch /\ job' = job
          /\ \A q \in Runs \ {t} : run'[q] = run[q]
          /\ run'[t].attempt = IF pend.new.attempt # pend.base.attempt
                               THEN pend.new.attempt ELSE run[t].attempt
      BY <1>4, PatchStores, Zenon
    <2>2. run[t].phase \notin Terminal
      BY <2>1, Zenon DEF Locked
    <2>3. \A q \in Runs : Parent[q] # NoRun /\ run[Parent[q]].phase \in Terminal
                             => run'[Parent[q]] = run[Parent[q]]
      BY <1>1, <2>1, <2>2, Zenon
    <2>4. \A q \in Runs : run'[q].attempt # 0 => Follows(q, run'[q].attempt)
      BY <2>1, Zenon DEF Lineage
    <2> QED BY <2>1, <2>3, <2>4, Zenon DEF Lineage, Follows
  <1>5. ASSUME NEW r \in Runs, Reconcile(r)
        PROVE  Lineage'
    <2>1. run' = run /\ pend = NoPatch /\ runC = run
      BY <1>5, ReconcileFrame, Zenon DEF Reconcile, CachesCurrent
    <2>2. validateRetryParent(r) > 0 => Follows(r, validateRetryParent(r))
      <3>1. Parent[r] # NoRun => run[Parent[r]].attempt \in Nat
        BY <1>1, Zenon DEF TypeOK, RunObject
      <3>2. validateRetryParent(r) =
               IF Parent[r] = NoRun THEN 1
               ELSE IF Parent[r] = r \/ run[Parent[r]].phase \notin Terminal THEN 0
               ELSE IF run[Parent[r]].attempt = 0 THEN 2 ELSE run[Parent[r]].attempt + 1
        BY <2>1, SMTT(20) DEF validateRetryParent, isIngestRunTerminal
      <3> QED BY <3>1, <3>2 DEF Follows
    <2>3. pend' # NoPatch =>
             /\ run[pend'.target].attempt = pend'.base.attempt
             /\ pend'.new.attempt # pend'.base.attempt => Follows(pend'.target, pend'.new.attempt)
      BY <1>5, <2>1, <2>2, PassDecides, Zenon DEF Decided
    <2>4. \A q \in Runs : Present(job'[q]) /\ job'[q].owned =>
             (Present(job[q]) /\ job[q].owned) \/ (q = r /\ validateRetryParent(r) > 0)
      <3>1. CASE JobsShrink
        BY <3>1, Zenon DEF JobsShrink
      <3>2. CASE Admitted(r)
        BY <3>2, SMTT(20) DEF Admitted, MakesJob, TypeOK
      <3> QED BY <1>5, <3>1, <3>2, PassJobs, Zenon
    <2>5. \A q \in Runs : Present(job'[q]) /\ job'[q].owned /\ Parent[q] # NoRun
                             => run[Parent[q]].phase \in Terminal
      BY <2>2, <2>4, Zenon DEF Lineage, Follows
    <2> QED BY <2>1, <2>3, <2>5, Zenon DEF Lineage, Follows
  <1> QED BY <1>3, <1>4, <1>5, StepCases, Zenon

\* Every step keeps the snapshot of the profiles, when passes read current runs
\* and Jobs.
LEMMA SnapshotStep ==
    ASSUME {"run", "job"} \cap Lagging = {}, TypeOK, Snapshot, [Next]_vars
    PROVE  Snapshot'
  <1>1. pend # NoPatch => pend.target \in Runs
    BY Zenon DEF TypeOK, Patches
  <1>2. CASE Quiet
    <2>1. \A q \in Runs : Present(job'[q]) => Present(job[q])
      BY <1>2, Zenon DEF Quiet, JobsShrink
    <2>2. \A q \in Runs : Present(job'[q]) /\ job'[q].owned =>
             Present(job[q]) /\ job[q].owned /\ job'[q].profiles = job[q].profiles
      BY <1>2, Zenon DEF Quiet, JobsShrink
    <2>3. \A q \in Runs : run'[q].profiles = run[q].profiles
      BY <1>2, Zenon DEF Quiet, StatusKept
    <2>4. ProfilesRecorded'
      BY <2>2, <2>3, Zenon DEF Snapshot, ProfilesRecorded
    <2> QED BY <1>1, <1>2, <2>1, <2>4, Zenon DEF Snapshot, Quiet
  <1>3. CASE StatusPatch
    <2> DEFINE t == pend.target
    <2>1. /\ pend # NoPatch /\ t \in Runs /\ pend' = NoPatch /\ job' = job
          /\ \A q \in Runs \ {t} : run'[q] = run[q]
          /\ run'[t].profiles = IF pend.new.profiles # pend.base.profiles
                                THEN pend.new.profiles ELSE run[t].profiles
      BY <1>3, PatchStores, Zenon
    <2> QED BY <2>1, Zenon DEF Snapshot, ProfilesRecorded
  <1>4. ASSUME NEW r \in Runs, Reconcile(r)
        PROVE  Snapshot'
    <2>1. run' = run /\ pend = NoPatch /\ runC = run /\ jobC[r] = job[r]
      BY <1>4, ReconcileFrame, SMTT(20) DEF Reconcile, CachesCurrent
    <2>2. pend' # NoPatch => pend'.new.profiles = pend'.base.profiles \/ ~Present(job'[pend'.target])
      BY <1>4, <2>1, PassDecides, Zenon DEF Decided, KeepsJob
    <2>3. CASE JobsShrink
      <3>1. \A q \in Runs : Present(job'[q]) /\ job'[q].owned =>
               Present(job[q]) /\ job[q].owned /\ job'[q].profiles = job[q].profiles
        BY <2>3, Zenon DEF JobsShrink
      <3> QED BY <2>1, <2>2, <3>1, Zenon DEF Snapshot, ProfilesRecorded
    <2>4. CASE Admitted(r)
      <3>1. /\ job'[r].profiles = ResolvedProfiles(r)
            /\ \A q \in Runs \ {r} : job'[q] = job[q]
        BY <2>4, Zenon DEF Admitted, MakesJob, TypeOK
      <3>2. run[r].profiles = ResolvedProfiles(r)
        BY <2>1, <2>4, Zenon DEF Admitted
      <3> QED BY <2>1, <2>2, <3>1, <3>2, Zenon DEF Snapshot, ProfilesRecorded
    <2> QED BY <1>4, <2>3, <2>4, PassJobs, Zenon
  <1> QED BY <1>2, <1>3, <1>4, StepCases, Zenon

\* Every step keeps the stop invariant, when passes read current runs, Jobs and
\* Pods.
LEMMA HaltedStep ==
    ASSUME {"run", "job", "pod"} \cap Lagging = {}, TypeOK, Locked, Remembered, Halted, [Next]_vars
    PROVE  Halted'
  <1>1. pend # NoPatch => pend.target \in Runs
    BY Zenon DEF TypeOK, Patches
  <1>2. CASE Quiet
    <2>1. \A q \in Runs : Present(job'[q]) /\ job'[q].owned =>
             Present(job[q]) /\ job[q].owned /\ job'[q].uid = job[q].uid
      BY <1>2, Zenon DEF Quiet, JobsShrink
    <2>2. \A q \in Runs : Stopped(q) => Stopped(q)'
      BY <1>2, <2>1, Zenon DEF Quiet, PodsFollow, Stopped
    <2>3. created' = created /\ \A q \in Runs : run'[q].jobRef = run[q].jobRef
                                                /\ run'[q].phase = run[q].phase
      BY <1>2, Zenon DEF Quiet, StatusKept
    <2>4. \A q \in Runs : pod'[q].state # "absent" => pod'[q].uid = created[q] /\ created[q] # 0
      BY <1>2, Zenon DEF Quiet, PodsFollow, Halted
    <2>5. \A q \in Runs : /\ Present(job'[q]) /\ job'[q].owned => job'[q].uid = created[q] /\ created[q] # 0
                          /\ run'[q].jobRef \in {0, created[q]}
                          /\ run'[q].phase = "Cancelled" => Stopped(q)'
      BY <2>1, <2>2, <2>3, Zenon DEF Halted
    <2>6. pend' # NoPatch => /\ pend'.new.jobRef \in {0, created[pend'.target]}
                             /\ pend'.new.phase = "Cancelled" => Stopped(pend.target)'
      <3> SUFFICES ASSUME pend' # NoPatch
                   PROVE  /\ pend'.new.jobRef \in {0, created[pend'.target]}
                          /\ pend'.new.phase = "Cancelled" => Stopped(pend.target)'
        BY Zenon
      <3>1. pend' = pend /\ pend # NoPatch /\ pend.target \in Runs
        BY <1>1, <1>2, Zenon DEF Quiet
      <3>2. Stopped(pend.target) => ~(Present(job'[pend.target]) /\ job'[pend.target].owned)
                                    /\ pod'[pend.target].state # "running"
        BY <2>2, <3>1, SMTT(20) DEF Stopped
      <3> QED BY <3>1, <3>2, Zenon DEF Halted, Stopped
    <2> QED BY <2>3, <2>4, <2>5, <2>6, Zenon DEF Halted
  <1>3. CASE StatusPatch
    <2> DEFINE t == pend.target
    <2>1. /\ pend # NoPatch /\ t \in Runs /\ pend' = NoPatch
          /\ UNCHANGED <<job, pod, created>>
          /\ \A q \in Runs \ {t} : run'[q] = run[q]
          /\ run'[t].phase \in {run[t].phase, pend.new.phase}
          /\ run'[t].jobRef = IF pend.new.jobRef # pend.base.jobRef
                              THEN pend.new.jobRef ELSE run[t].jobRef
      BY <1>3, PatchStores, Zenon
    <2> QED BY <2>1, SMTT(20) DEF Halted, Stopped
  <1>4. ASSUME NEW r \in Runs, Reconcile(r)
        PROVE  Halted'
    <2>1. /\ UNCHANGED <<run, pod>> /\ pend = NoPatch
          /\ runC = run /\ jobC[r] = job[r] /\ podC[r] = pod[r]
      BY <1>4, ReconcileFrame, Zenon DEF Reconcile, CachesCurrent
    <2>2. pend' # NoPatch => Decided(r)
      BY <1>4, <2>1, PassDecides, Zenon
    <2>3. pend' # NoPatch /\ pend'.new.phase = "Cancelled" => Stopped(pend.target)'
      <3> SUFFICES ASSUME pend' # NoPatch, pend'.new.phase = "Cancelled"
                   PROVE  Stopped(pend.target)'
        BY SMTT(20)
      <3>1. pend'.target = r /\ ~Present(job[r]) /\ ~ingestRunPodsRemain(r) /\ job' = job
        BY <2>1, <2>2, SMTT(20) DEF Decided, KeepsJob
      <3>2. pod[r].state = "absent"
        BY <2>1, <3>1, Zenon DEF ingestRunPodsRemain, Halted
      <3> QED BY <2>1, <3>1, <3>2, Zenon DEF Stopped
    <2>4. CASE JobsShrink /\ created' = created
      <3>1. \A q \in Runs : Present(job'[q]) /\ job'[q].owned =>
               Present(job[q]) /\ job[q].owned /\ job'[q].uid = job[q].uid
        BY <2>4, Zenon DEF JobsShrink
      <3>2. \A q \in Runs : Stopped(q) => Stopped(q)'
        BY <2>1, <3>1, Zenon DEF Stopped
      <3>3. ~MakesJob(r)
        BY <2>4, SMTT(20) DEF MakesJob, TypeOK
      <3>4. pend' # NoPatch => pend'.target = r /\ pend'.new.jobRef \in {0, created[r]}
        BY <2>1, <2>2, <3>3, SMTT(20) DEF Decided, Halted
      <3>5. \A q \in Runs : /\ Present(job'[q]) /\ job'[q].owned => job'[q].uid = created[q] /\ created[q] # 0
                            /\ run[q].phase = "Cancelled" => Stopped(q)'
        BY <3>1, <3>2, Zenon DEF Halted
      <3> QED BY <2>1, <2>3, <2>4, <3>4, <3>5, Zenon DEF Halted
    <2>5. CASE Admitted(r)
      <3>1. created[r] = 0 /\ run[r].jobRef = 0 /\ run[r].phase # "Cancelled"
        BY <2>1, <2>5, Zenon DEF Admitted, MakesJob, Remembered, Terminal
      <3>2. /\ created'[r] = 1 /\ job'[r].uid = 1
            /\ \A q \in Runs \ {r} : created'[q] = created[q] /\ job'[q] = job[q]
        BY <2>5, <3>1, SMTT(20) DEF Admitted, MakesJob, TypeOK
      <3>3. pod[r].state = "absent"
        BY <3>1, SMTT(20) DEF Halted
      <3>4. pend' # NoPatch => pend'.target = r /\ pend'.new.jobRef \in {0, 1}
        <4>1. jobC[r] = job[r] /\ ~Present(job[r])
          BY <2>1, <2>5, Zenon DEF Admitted, MakesJob
        <4> QED BY <2>1, <2>2, <3>1, <4>1, SMTT(20) DEF Decided
      <3>5. \A q \in Runs \ {r} : run[q].phase = "Cancelled" => Stopped(q)'
        BY <2>1, <3>2, Zenon DEF Halted, Stopped
      <3>6. \A q \in Runs :
               /\ Present(job'[q]) /\ job'[q].owned => job'[q].uid = created'[q] /\ created'[q] # 0
               /\ pod[q].state # "absent" => pod[q].uid = created'[q] /\ created'[q] # 0
               /\ run[q].jobRef \in {0, created'[q]}
        BY <3>1, <3>2, <3>3 DEF Halted
      <3>7. \A q \in Runs : run[q].phase = "Cancelled" => Stopped(q)'
        BY <3>1, <3>5, Zenon
      <3> QED BY <2>1, <2>3, <3>2, <3>4, <3>6, <3>7, SMTT(20) DEF Halted
    <2> QED BY <1>4, <2>4, <2>5, PassJobs, Zenon
  <1> QED BY <1>2, <1>3, <1>4, StepCases, Zenon

-----------------------------------------------------------------------------

\* Initially there is no attempt, no owned Job, no Pod and no patch.
LEMMA InitCurrent == Init => Locked /\ Lineage /\ Snapshot /\ Halted /\ Remembered /\ NeverReplays
  <1> SUFFICES ASSUME Init
               PROVE  Locked /\ Lineage /\ Snapshot /\ Halted /\ Remembered /\ NeverReplays
    BY Zenon
  <1>1. \A r \in Runs : /\ run[r] = NewRun /\ runC[r] = NewRun
                        /\ pod[r] = NoPod /\ created[r] = 0
    BY Zenon DEF Init
  <1>2. NewRun.phase = "" /\ NewRun.attempt = 0 /\ NewRun.jobRef = 0 /\ NoPod.state = "absent"
    BY Zenon DEF NewRun, NoPod
  <1>3. \A r \in Runs : ~job[r].owned
    <2>1. ~NoJob.owned /\ ~[NoJob EXCEPT !.state = "queued"].owned
      BY Zenon DEF NoJob
    <2>2. \A r \in Runs : job[r] = IF r \in Foreign THEN [NoJob EXCEPT !.state = "queued"] ELSE NoJob
      BY Zenon DEF Init
    <2> QED BY <2>1, <2>2, Zenon
  <1>4. pend = NoPatch
    BY Zenon DEF Init
  <1>5. Locked /\ Lineage
    BY <1>1, <1>2, <1>3, <1>4, SetsAssumption, Zenon DEF Locked, Lineage, Terminal
  <1>6. Snapshot /\ Halted
    BY <1>1, <1>2, <1>3, <1>4, Zenon DEF Snapshot, ProfilesRecorded, Halted
  <1>7. Remembered
    BY <1>1, <1>2, <1>4, Zenon DEF Remembered
  <1>8. NeverReplays
    <2>1. \A n : n = 0 => n <= 1
      OBVIOUS
    <2> QED BY <1>1, <2>1, Zenon DEF NeverReplays
  <1> QED BY <1>5, <1>6, <1>7, <1>8, Zenon

\* A retry is "linked to ... a terminal parent": while a retry has a Job its parent
\* is terminal and its attempt number is later than the parent's, for any chain of
\* retries, provided the run cache is current when a pass reads it.
THEOREM RetryTheorem == ASSUME "run" \notin Lagging PROVE Spec => []RetryFollowsParent
  <1>1. TypeOK /\ Evidence /\ Locked /\ Lineage /\ [Next]_vars
           => (TypeOK /\ Evidence /\ Locked /\ Lineage)'
    BY TypeStep, EvidenceStep, LockedStep, LineageStep, Zenon
  <1>2. Lineage => RetryFollowsParent
    BY Zenon DEF Lineage, Follows, RetryFollowsParent
  <1> QED BY <1>1, <1>2, InitInvariant, InitCurrent, PTL DEF Spec

\* "snapshots its UUID before creating the Job": a Job runs with the profile
\* identity its run records, however often the FlowProfile changes between the
\* two writes, provided the run and Job caches are current when a pass reads them.
THEOREM ProfilesTheorem ==
    ASSUME {"run", "job"} \cap Lagging = {} PROVE Spec => []ProfilesRecorded
  <1>1. TypeOK /\ Evidence /\ Snapshot /\ [Next]_vars => (TypeOK /\ Evidence /\ Snapshot)'
    BY TypeStep, EvidenceStep, SnapshotStep, Zenon
  <1>2. Snapshot => ProfilesRecorded
    BY Zenon DEF Snapshot
  <1> QED BY <1>1, <1>2, InitInvariant, InitCurrent, PTL DEF Spec

\* "Cancellation removes the owned Job and waits for its Pods to terminate before
\* the run becomes Cancelled": no Job and no running Pod of a Cancelled run, ever,
\* provided the run, Job and Pod caches are current when a pass reads them and
\* Jobs outlive the lag of the run cache.
THEOREM CancelTheorem ==
    ASSUME {"run", "job", "pod"} \cap Lagging = {}, JobsOutliveLag
    PROVE  Spec => []CancelledMeansStopped
  <1>0. "run" \notin Lagging
    BY Zenon
  <1>1. TypeOK /\ Evidence /\ Locked /\ Remembered /\ NeverReplays /\ Halted /\ [Next]_vars
           => (TypeOK /\ Evidence /\ Locked /\ Remembered /\ NeverReplays /\ Halted)'
    BY <1>0, TypeStep, EvidenceStep, LockedStep, RememberedStep, HaltedStep, Zenon
  <1>2. Halted => CancelledMeansStopped
    BY Zenon DEF Halted, Stopped, CancelledMeansStopped
  <1> QED BY <1>1, <1>2, InitInvariant, InitCurrent, PTL DEF Spec

=============================================================================
