------------------------------ MODULE Upgrade ------------------------------
(***************************************************************************)
(* Installing and upgrading one Tamoss instance: the main pass of the      *)
(* TamossReconciler (tamoss_controller.go) with its release lock           *)
(* (releases.go, releases/catalogue.go), its gates (tamoss_backends.go,    *)
(* tamoss_identity.go, httproute_input.go), the schema migration           *)
(* (schema_controller.go), the workloads that wait for it, the pruning of  *)
(* owned objects (tamoss_lifecycle.go) and the status it reports           *)
(* (tamoss_status.go).  A pass reads informer caches that may lag behind   *)
(* the API server and takes one step per group of API calls, so users,     *)
(* the Job controller and the garbage collector act in between.            *)
(***************************************************************************)
EXTENDS Naturals

CONSTANTS
    Releases, NoVersion, SchemaOf, UpgradeFrom,   \* as in Release
    PreviousSchema, \* the older schema each release can migrate from, or 0
    Managed,        \* are the backends managed by the operator?
    Lagging,        \* kinds whose informer cache may be stale during a pass
    Gates,          \* the obstacles the environment may put in the way of a pass
    MaxEdits,       \* bound: edits of spec and annotations
    MaxFaults,      \* bound: failed migrations, API errors, obstacles, deleted Jobs
    MaxJobs         \* bound: migration Jobs created

\* The checks of a pass that the environment can make fail, in the order of the
\* stages; each is the set of the ways in which it can stop the pass.
reconcileHTTPRouteInputGate     == {"route"}
backendDependencyGate           == {"dependencyUnknown", "dependency"}
reconcileProviderBackends       == {"provider", "providerDegraded"}
checkBackendReferences          == {"references"}
CheckPlatformNamespace          == {"platformNamespace"}
externalIdentityConfiguration   == {"externalIdentity"}
checkDefaultStorageBackendReady == {"storage", "storageDegraded"}
reconcileTamossManagedAuthentikStage ==
    {"redirect", "token", "authentikRetrying", "authentikFailed"}
identityResult                  == {"issuer"}
routingStatus                   == {"routing"}

\* The stages before the schema stage, and the report after it.
EarlyGates ==
    UNION {reconcileHTTPRouteInputGate, backendDependencyGate, reconcileProviderBackends,
           checkBackendReferences, CheckPlatformNamespace, externalIdentityConfiguration}
ReportGates == identityResult \cup routingStatus
AllGates ==
    UNION {EarlyGates, checkDefaultStorageBackendReady, reconcileTamossManagedAuthentikStage,
           ReportGates}
\* Obstacles in the spec of the Tamoss: removing them is an edit.
SpecGates == reconcileHTTPRouteInputGate \cup externalIdentityConfiguration
\* Obstacles that only an instance with operator-managed backends meets.
ManagedGates ==
    UNION {backendDependencyGate, reconcileProviderBackends, checkDefaultStorageBackendReady}

Kinds == {"tamoss", "state", "job", "pod", "deployment"}

ASSUME CatalogueAssumption ==
    /\ NoVersion \notin Releases
    /\ SchemaOf \in [Releases -> Nat \ {0}]
    /\ PreviousSchema \in [Releases -> Nat]
    /\ \A v \in Releases : PreviousSchema[v] < SchemaOf[v]
    /\ UpgradeFrom \in [Releases -> SUBSET Releases]
ASSUME SettingsAssumption ==
    Managed \in BOOLEAN /\ Lagging \subseteq Kinds /\ Gates \subseteq AllGates
ASSUME BoundsAssumption == MaxEdits \in Nat /\ MaxFaults \in Nat /\ MaxJobs \in Nat

\* An edit or an obstacle in the spec changes the generation.
MaxGeneration == 1 + MaxEdits + 2 * MaxFaults
Schemas == {SchemaOf[v] : v \in Releases}

VARIABLES
    tam,      \* the Tamoss: spec, generation, schema-retry annotation, status
    state,    \* the schema-state ConfigMap
    jobs,     \* the migration Job of each schema version (its name holds the version)
    pods,     \* the Pods of migration Jobs
    deploy,   \* the API and worker Deployments
    cache,    \* the informer caches: the last copy of each kind the operator received
    db,       \* the schema the database carries
    gate,     \* the obstacle in the way, or "open"
    pass,     \* the pass in progress
    dirty,    \* is the Tamoss in the work queue, or a requeue timer running?
    made,     \* Jobs created so far; the number of a Job is its UID
    edits, faults

world == <<db, gate>>
bounds == <<made, edits, faults>>
vars  == <<tam, state, jobs, pods, deploy, cache, world, pass, dirty, bounds>>

NoState  == [applied |-> 0, failedVersion |-> 0, failedGeneration |-> 0, failures |-> 0,
             consumed |-> 0, present |-> FALSE]
Recorded(applied, consumed) ==
            [applied |-> applied, failedVersion |-> 0, failedGeneration |-> 0, failures |-> 0,
             consumed |-> consumed, present |-> TRUE]
NoJob    == [status |-> "absent", uid |-> 0, image |-> "", fixtures |-> FALSE, deleting |-> FALSE]
NoDeploy == [release |-> NoVersion, image |-> "", rolled |-> FALSE]
Live     == [tamoss |-> tam, state |-> state, job |-> jobs, pod |-> pods, deployment |-> deploy]

Conditions == {"True", "False", "Unknown"}
Phases     == {"", "Ready", "Progressing", "Degraded", "Paused"}
Statuses   ==
    [current: Releases \cup {NoVersion}, pending: Releases \cup {NoVersion}, phase: Phases,
     ready: Conditions, degraded: Conditions, schema: Conditions, backends: Conditions,
     upgrade: {"", "Unknown", "Progressing", "Blocked", "Upgradeable"},
     observed: 0..MaxGeneration]

\* A pass that is not running.
NoPass == [at |-> "idle"]

----------------------------------------------------------------------------
(* Informer caches and the work queue *)

\* A kind that does not lag delivers its events before anything else happens.
Fresh == \A k \in Kinds \ Lagging : cache[k] = Live[k]

\* An update of the Tamoss itself enqueues it only when its generation or an
\* action annotation changed; any event on an owned object does.  Pods of the
\* migration are not watched.
primaryResourcePredicate(old, new) == old.gen # new.gen \/ old.retry # new.retry
Enqueues(k) ==
    CASE k = "tamoss" -> primaryResourcePredicate(cache.tamoss, tam)
      [] k = "pod"    -> FALSE
      [] OTHER        -> TRUE

Sync(k) ==
    /\ cache[k] # Live[k]
    /\ cache' = [cache EXCEPT ![k] = Live[k]]
    /\ dirty' = (dirty \/ Enqueues(k))
    /\ UNCHANGED <<tam, state, jobs, pods, deploy, world, pass, bounds>>

----------------------------------------------------------------------------
(* Releases *)

\* schema.Target.Supports
Supports(v, observed) ==
    \/ observed = 0
    \/ observed = SchemaOf[v]
    \/ PreviousSchema[v] # 0 /\ observed = PreviousSchema[v]

Select_MutantNoLock(version, current, inProgress) ==
    /\ version \in Releases
    /\ current \notin {NoVersion, version} =>
          current \in Releases /\ current \in UpgradeFrom[version]

\* releases.Catalogue.Select succeeds: the version is in the catalogue, no other
\* upgrade is in progress, and the catalogue has a path to it.
Select(version, current, inProgress) ==
    /\ version \in Releases
    /\ inProgress \in {NoVersion, version}
    /\ current \notin {NoVersion, version} =>
          current \in Releases /\ current \in UpgradeFrom[version]

validateReleaseState(mem, observed) ==
    /\ Select(mem.version, mem.status.current, mem.status.pending)
    /\ observed.present =>
          /\ Supports(mem.version, observed.applied)
          /\ mem.status.current = NoVersion /\ observed.applied # 0 =>
                observed.applied = SchemaOf[mem.version]

----------------------------------------------------------------------------
(* Status *)

\* A status patch carries the resourceVersion the pass has read: it is skipped
\* when it changes nothing, and refused when the Tamoss has changed meanwhile.
patchTamossStatus(mem, new) ==
    /\ new # mem.status => mem = tam
    /\ tam' = IF new = mem.status THEN tam ELSE [tam EXCEPT !.status = new]
Conflict(mem, new) == new # mem.status /\ mem # tam

\* What a pass has learned when it writes the status.  schema or backends is ""
\* where the pass learned nothing: schemaResult.Ready and .Degraded are then not
\* known, and the last observed state of the backends is kept.
Observation(phase, ready, degraded, schema, backends) ==
    [phase |-> phase, ready |-> ready, degraded |-> degraded, schema |-> schema,
     backends |-> backends]

\* status.upgrade.phase; "Unknown" when the pass did not reach the schema stage.
setUpgradeStatusFromSchema(o) ==
    CASE o.schema = "Unknown" -> "Unknown"
      [] o.schema = "True"    -> "Upgradeable"
      [] o.schema = "False"   -> IF o.degraded = "True" THEN "Blocked" ELSE "Progressing"

applyTamossStatusObservation(mem, o) ==
    LET known == [mem.status EXCEPT
            !.phase = o.phase, !.ready = o.ready, !.degraded = o.degraded, !.schema = o.schema,
            !.backends = IF o.backends = "" THEN @ ELSE o.backends,
            !.upgrade = setUpgradeStatusFromSchema(o),
            !.observed = mem.gen]
    IN  IF o.ready = "True" /\ o.schema = "True"
        THEN [known EXCEPT !.current = mem.version, !.pending = NoVersion]
        ELSE known

\* blockRelease leaves the other conditions, Degraded among them, as they were.
blockedStatus(mem) ==
    [mem.status EXCEPT !.phase = "Degraded", !.ready = "False", !.upgrade = "Blocked",
                       !.observed = mem.gen]

updatePausedStatus == Observation("Paused", "False", "False", "Unknown", "Unknown")

updateHTTPRouteInputStatus  == Observation("Degraded", "False", "True", "Unknown", "")
updateBlockedBackendStatus  == Observation("Degraded", "False", "True", "Unknown", "False")
updateIdentityBlockedStatus == Observation("Degraded", "False", "True", "Unknown", "True")
\* schema is "Unknown" before the schema stage.
updateProviderBackendStatus(degraded, schema) ==
    IF degraded THEN Observation("Degraded", "False", "True", schema, "False")
                ELSE Observation("Progressing", "False", "False", schema, "False")
\* A retryable error is not a degradation before the grace period is over.
updateAuthentikApplyFailureStatus(retrying) ==
    IF retrying THEN Observation("Progressing", "False", "False", "Unknown", "True")
                ELSE Observation("Degraded", "False", "True", "Unknown", "True")

\* The status a pass reports when obstacle g stops it.
gateObservation(g) ==
    CASE g = "route"                        -> updateHTTPRouteInputStatus
      [] g \in {"dependency", "references"} -> updateBlockedBackendStatus
      [] g \in reconcileProviderBackends    ->
            updateProviderBackendStatus(g = "providerDegraded", "Unknown")
      [] g \in checkDefaultStorageBackendReady ->
            updateProviderBackendStatus(g = "storageDegraded", "True")
      [] g \in {"authentikRetrying", "authentikFailed"} ->
            updateAuthentikApplyFailureStatus(g = "authentikRetrying")
      [] OTHER                              -> updateIdentityBlockedStatus

\* Obstacles after which the pass waits for the next event instead of a timer.
Unscheduled == SpecGates

\* End the pass with a status patch; a refused patch is an error, and the pass
\* is tried again.
FinishWith(mem, new, requeue) ==
    /\ pass' = NoPass
    /\ dirty' = (requeue \/ Conflict(mem, new))
    /\ IF Conflict(mem, new) THEN UNCHANGED tam ELSE patchTamossStatus(mem, new)

----------------------------------------------------------------------------
(* The pass *)

beginRelease_MutantForced(mem) ==
    IF mem.status.current = mem.version \/ mem.status.pending # NoVersion
    THEN mem.status
    ELSE [mem.status EXCEPT !.pending = mem.version]

\* The release lock: status.upgrade.targetVersion.
beginRelease(mem) ==
    IF mem.status.current = mem.version \/ mem.status.pending # NoVersion
    THEN mem.status
    ELSE [mem.status EXCEPT !.pending = mem.version, !.ready = "False"]

\* loadTamoss and prepareTamossLifecycle.
StartPass ==
    /\ pass = NoPass
    /\ dirty
    /\ LET mem == cache.tamoss
           begun == beginRelease(mem)
       IN
       CASE ~validateReleaseState(mem, cache.state) -> FinishWith(mem, blockedStatus(mem), FALSE)
         [] validateReleaseState(mem, cache.state) /\ mem.paused ->
               FinishWith(mem, applyTamossStatusObservation(mem, updatePausedStatus), FALSE)
         [] OTHER ->
               IF Conflict(mem, begun)
               THEN pass' = NoPass /\ dirty' = TRUE /\ UNCHANGED tam
               ELSE /\ patchTamossStatus(mem, begun)
                    /\ pass' = [at |-> "schema", mem |-> [mem EXCEPT !.status = begun]]
                    /\ dirty' = FALSE
    /\ UNCHANGED <<state, jobs, pods, deploy, cache, world, bounds>>

\* Obstacle g ends the pass here.
StopAt(g) ==
    IF g = "dependencyUnknown"
    THEN pass' = NoPass /\ dirty' = TRUE /\ UNCHANGED tam
    ELSE FinishWith(pass.mem, applyTamossStatusObservation(pass.mem, gateObservation(g)),
                    dirty \/ g \notin Unscheduled)

\* reconcileHTTPRouteInputGate, reconcileTamossBackendStages and
\* reconcileTamossIdentityGates stop the pass.
StopBeforeSchema ==
    /\ pass.at = "schema"
    /\ gate \in EarlyGates
    /\ StopAt(gate)
    /\ UNCHANGED <<state, jobs, pods, deploy, cache, world, bounds>>

----------------------------------------------------------------------------
(* The schema stage: SchemaController.Reconcile *)

\* The image a spec selects for the API and the migration.
schemaMigrationRuntimeImage(mem) == IF mem.override THEN "override" ELSE mem.version

\* The schema version the pass migrates to, the cached state and the cached Job.
Target == SchemaOf[pass.mem.version]
CJob   == cache.job[Target]
CState == cache.state

includeFixtures_MutantAlways == TRUE

\* The rendered Job.  Fixtures are applied until a version has been recorded.
desiredImage    == schemaMigrationRuntimeImage(pass.mem)
includeFixtures == CState.applied = 0

schemaMigrationJob(uid) ==
    [status |-> "new", uid |-> uid, image |-> desiredImage, fixtures |-> includeFixtures,
     deleting |-> FALSE]

terminalSchemaFailure(st) ==
    /\ st.present
    /\ st.failedVersion = Target
    /\ st.failedGeneration = pass.mem.gen
    /\ st.failures >= 3

nextFailureCount(st) ==
    IF st.present /\ st.failedVersion = Target /\ st.failedGeneration = pass.mem.gen
    THEN st.failures + 1
    ELSE 1

schemaStateConfigMap(previous) == Recorded(Target, previous.consumed)

schemaFailureStateConfigMap_MutantFresh(previous, count) ==
    [NoState EXCEPT !.present = TRUE, !.failedVersion = Target,
                    !.failedGeneration = pass.mem.gen, !.failures = count]

schemaFailureStateConfigMap(previous, count) ==
    [applied |-> previous.applied, failedVersion |-> Target, failedGeneration |-> pass.mem.gen,
     failures |-> count, consumed |-> previous.consumed, present |-> TRUE]

schemaRetryStateConfigMap(previous, value) == Recorded(previous.applied, value)

obsoleteJobs == {s \in Schemas \ {Target} : cache.job[s].status # "absent"}

acceptsSchemaRetry ==
    /\ pass.mem.retry # 0
    /\ terminalSchemaFailure(CState)
    /\ CState.consumed # pass.mem.retry

jobSucceeded_MutantActive(job) == job.status \in {"active", "complete"}

jobSucceeded(job) == job.status = "complete"
jobFailed(job)    == job.status = "failed"

schemaJobTemplateDrifted(job) == job.image # desiredImage \/ job.fixtures # includeFixtures

schemaJobPods_MutantNone == {}

\* reconcileSchemaJobPodCleanup: Pods any migration Job still owns.
schemaJobPods == cache.pod

\* The stages of SchemaController.Reconcile in their order: the first that
\* applies decides what the pass does.
schemaStage ==
    CASE CState.present /\ ~Supports(pass.mem.version, CState.applied) -> "unsupported"
      [] CState.present /\ CState.applied = Target                     -> "atVersion"
      [] OTHER ->
         IF obsoleteJobs # {}             THEN "obsolete"
         ELSE IF acceptsSchemaRetry       THEN "retry"
         ELSE IF CJob.status # "absent" /\ schemaJobTemplateDrifted(CJob) THEN "stale"
         ELSE IF jobSucceeded(CJob)     THEN "succeeded"
         ELSE IF jobFailed(CJob)        THEN "failed"
         ELSE IF CJob.status # "absent"   THEN "running"
         ELSE IF schemaJobPods # {}       THEN "podCleanup"
         ELSE "launch"

SchemaStep(stage) ==
    /\ pass.at = "schema"
    /\ gate \notin EarlyGates
    /\ schemaStage = stage

\* Leave the schema stage with its result; keepJobs and keepState are its
\* ManagedObjects, which the pruner spares.
Conclude(ready, degraded, keepJobs, keepState, requeue) ==
    pass' = [at |-> "apply", mem |-> pass.mem, ready |-> ready, degraded |-> degraded,
             keepJobs |-> keepJobs, keepState |-> keepState, requeue |-> requeue]

Foreground(js) ==
    [s \in Schemas |->
        IF s \in js /\ jobs[s].status # "absent" THEN [jobs[s] EXCEPT !.deleting = TRUE]
                                                 ELSE jobs[s]]

SchemaObserved ==
    /\ \/ SchemaStep("unsupported") /\ Conclude(FALSE, TRUE, {}, TRUE, FALSE)
       \/ SchemaStep("atVersion")   /\ Conclude(TRUE, FALSE, {}, TRUE, FALSE)
       \/ SchemaStep("running")     /\ Conclude(FALSE, FALSE, {Target}, CState.present, FALSE)
       \/ SchemaStep("podCleanup")  /\ Conclude(FALSE, FALSE, {Target}, CState.present, TRUE)
    /\ UNCHANGED <<tam, state, jobs, pods, deploy, cache, world, dirty, bounds>>

reconcileObsoleteSchemaJobs ==
    /\ SchemaStep("obsolete")
    /\ jobs' = Foreground({s \in obsoleteJobs : ~cache.job[s].deleting})
    /\ Conclude(FALSE, FALSE, {Target} \cup obsoleteJobs, CState.present, TRUE)
    /\ UNCHANGED <<tam, state, pods, deploy, cache, world, dirty, bounds>>

reconcileStaleSchemaJob ==
    /\ SchemaStep("stale")
    /\ jobs' = Foreground({Target})
    /\ Conclude(FALSE, FALSE, {Target}, CState.present, FALSE)
    /\ UNCHANGED <<tam, state, pods, deploy, cache, world, dirty, bounds>>

\* acceptSchemaRetry deletes the failed Job without a propagation policy, which
\* orphans its finished Pod, and then resets the state.
acceptSchemaRetry ==
    /\ SchemaStep("retry")
    /\ IF jobFailed(CJob)
       THEN /\ jobs' = [jobs EXCEPT ![Target] = NoJob]
            /\ pods' = {p \in pods : p.uid # jobs[Target].uid}
       ELSE UNCHANGED <<jobs, pods>>
    /\ pass' = [at |-> "reset", mem |-> pass.mem,
                state |-> schemaRetryStateConfigMap(CState, pass.mem.retry)]
    /\ UNCHANGED <<tam, state, deploy, cache, world, dirty, bounds>>

resetSchemaState ==
    /\ pass.at = "reset"
    /\ state' = pass.state
    /\ Conclude(FALSE, FALSE, {Target}, TRUE, FALSE)
    /\ UNCHANGED <<tam, jobs, pods, deploy, cache, world, dirty, bounds>>

reconcileSucceededSchemaJob ==
    /\ SchemaStep("succeeded")
    /\ state' = schemaStateConfigMap(CState)
    /\ Conclude(TRUE, FALSE, {Target}, TRUE, FALSE)
    /\ UNCHANGED <<tam, jobs, pods, deploy, cache, world, dirty, bounds>>

reconcileFailedSchemaJob ==
    /\ SchemaStep("failed")
    /\ IF terminalSchemaFailure(CState)
       THEN /\ Conclude(FALSE, TRUE, {Target}, TRUE, FALSE)
            /\ UNCHANGED state
       ELSE LET count == nextFailureCount(CState) IN
            /\ state' = schemaFailureStateConfigMap(CState, count)
            /\ Conclude(FALSE, count >= 3, {Target}, TRUE, FALSE)
    /\ UNCHANGED <<tam, jobs, pods, deploy, cache, world, dirty, bounds>>

\* Applying the Job creates it; it changes nothing when an identical Job exists,
\* and fails when one with another (immutable) template does.
launchSchemaJob ==
    /\ SchemaStep("launch")
    /\ IF jobs[Target].status = "absent"
       THEN /\ made < MaxJobs
            /\ made' = made + 1
            /\ jobs' = [jobs EXCEPT ![Target] = schemaMigrationJob(made + 1)]
       ELSE UNCHANGED <<made, jobs>>
    /\ IF jobs[Target].status # "absent" /\ schemaJobTemplateDrifted(jobs[Target])
       THEN pass' = NoPass /\ dirty' = TRUE
       ELSE /\ Conclude(FALSE, FALSE, {Target}, CState.present, FALSE)
            /\ UNCHANGED dirty
    /\ UNCHANGED <<tam, state, pods, deploy, cache, world, edits, faults>>

----------------------------------------------------------------------------
(* After the schema stage *)

\* checkDefaultStorageBackendReady, at the end of reconcileTamossSchemaStage, or
\* reconcileTamossManagedAuthentikStage stops the pass.
stopsAfterSchema ==
    \/ gate \in reconcileTamossManagedAuthentikStage
    \/ gate \in checkDefaultStorageBackendReady /\ pass.ready
StopAfterSchema ==
    /\ pass.at = "apply"
    /\ stopsAfterSchema
    /\ StopAt(gate)
    /\ UNCHANGED <<state, jobs, pods, deploy, cache, world, bounds>>

gateSchemaDependentWorkloads_MutantOpen(schemaReady) == TRUE

\* Are the API and worker Deployments among the desired objects?
gateSchemaDependentWorkloads(schemaReady) == schemaReady

\* The Deployments roll out anew when their images change.
applyTamossDesiredObjects ==
    /\ pass.at = "apply"
    /\ ~stopsAfterSchema
    /\ LET image == schemaMigrationRuntimeImage(pass.mem) IN
       deploy' = IF gateSchemaDependentWorkloads(pass.ready)
                 THEN [release |-> pass.mem.version, image |-> image,
                       rolled |-> deploy.rolled /\ deploy.image = image]
                 ELSE deploy
    /\ pass' = [pass EXCEPT !.at = "prune"]
    /\ UNCHANGED <<tam, state, jobs, pods, cache, world, dirty, bounds>>

\* The owned objects in the caches that are not among the desired ones.
pruneLoadedList ==
    [deploy |-> cache.deployment # NoDeploy /\ ~gateSchemaDependentWorkloads(pass.ready),
     jobs   |-> {s \in Schemas \ pass.keepJobs : cache.job[s].status # "absent"},
     state  |-> cache.state.present /\ ~pass.keepState]

\* They are deleted by name, with background propagation.
pruneOwnedObjects ==
    /\ pass.at = "prune"
    /\ deploy' = IF pruneLoadedList.deploy THEN NoDeploy ELSE deploy
    /\ jobs' = [s \in Schemas |-> IF s \in pruneLoadedList.jobs THEN NoJob ELSE jobs[s]]
    /\ state' = IF pruneLoadedList.state THEN NoState ELSE state
    /\ pass' = [pass EXCEPT !.at = "report"]
    /\ UNCHANGED <<tam, pods, cache, world, dirty, bounds>>

workloadRolloutsReady_MutantImageOnly(mem) ==
    cache.deployment.image = schemaMigrationRuntimeImage(mem)

\* The cached Deployments carry the requested images and have rolled out.
workloadRolloutsReady(mem) ==
    /\ cache.deployment.rolled
    /\ cache.deployment.image = schemaMigrationRuntimeImage(mem)

\* The pass asks to be repeated when the schema asked for it, and always when the
\* backends are managed: their readiness is probed on a timer.
tamossCompletionResult == pass.requeue \/ Managed

\* updateStatus; identityResult and routingStatus are the report gates.
updateStatus ==
    /\ pass.at = "report"
    /\ LET ready == /\ ~pass.degraded
                    /\ pass.ready
                    /\ workloadRolloutsReady(pass.mem)
                    /\ gate \notin ReportGates
           phase == IF pass.degraded THEN "Degraded" ELSE IF ready THEN "Ready" ELSE "Progressing"
           bool(b) == IF b THEN "True" ELSE "False"
       IN  FinishWith(pass.mem,
              applyTamossStatusObservation(pass.mem,
                 Observation(phase, bool(ready), bool(pass.degraded), bool(pass.ready), "True")),
              dirty \/ tamossCompletionResult)
    /\ UNCHANGED <<state, jobs, pods, deploy, cache, world, bounds>>

\* An API error in the pass, or a restart of the operator: the pass is tried
\* again from the start.
AbortPass ==
    /\ pass # NoPass
    /\ faults < MaxFaults
    /\ faults' = faults + 1
    /\ pass' = NoPass
    /\ dirty' = TRUE
    /\ UNCHANGED <<tam, state, jobs, pods, deploy, cache, world, made, edits>>

----------------------------------------------------------------------------
(* Users *)

\* An edit of the spec increments metadata.generation.
EditSpec(new) ==
    /\ edits < MaxEdits
    /\ new # tam
    /\ edits' = edits + 1
    /\ tam' = [new EXCEPT !.gen = @ + 1]
    /\ UNCHANGED <<state, jobs, pods, deploy, cache, world, pass, dirty, made, faults>>

SelectVersion == \E v \in Releases : EditSpec([tam EXCEPT !.version = v])
OverrideImage == EditSpec([tam EXCEPT !.override = ~@])
TogglePaused  == EditSpec([tam EXCEPT !.paused = ~@])

AnnotateRetry ==
    /\ edits < MaxEdits
    /\ edits' = edits + 1
    /\ tam' = [tam EXCEPT !.retry = @ + 1]
    /\ UNCHANGED <<state, jobs, pods, deploy, cache, world, pass, dirty, made, faults>>

----------------------------------------------------------------------------
(* The cluster: Job controller, kubelet, garbage collector, Deployments *)

StartPod(s) ==
    /\ jobs[s].status = "new"
    /\ ~jobs[s].deleting
    /\ jobs' = [jobs EXCEPT ![s].status = "active"]
    /\ pods' = pods \cup {[uid |-> jobs[s].uid, schema |-> s, running |-> TRUE,
                           fixtures |-> jobs[s].fixtures]}
    /\ UNCHANGED <<tam, state, deploy, cache, world, pass, dirty, bounds>>

\* Alembic skips the revisions the database already carries.
Committed(p) == IF p.schema > db THEN p.schema ELSE db

\* The Job reports how its only Pod ended (backoffLimit 0, restartPolicy Never).
PodEnds(p, outcome) ==
    /\ p.running
    /\ pods' = (pods \ {p}) \cup {[p EXCEPT !.running = FALSE]}
    /\ jobs' = [jobs EXCEPT ![p.schema] =
                   IF @.uid = p.uid /\ ~@.deleting THEN [@ EXCEPT !.status = outcome] ELSE @]

PodSucceeds ==
    /\ \E p \in pods : PodEnds(p, "complete") /\ db' = Committed(p)
    /\ UNCHANGED <<tam, state, deploy, cache, gate, pass, dirty, bounds>>

\* A migration fails before or after its transaction commits.
PodFails ==
    /\ faults < MaxFaults
    /\ faults' = faults + 1
    /\ \E p \in pods : PodEnds(p, "failed") /\ db' \in {db, Committed(p)}
    /\ UNCHANGED <<tam, state, deploy, cache, gate, pass, dirty, made, edits>>

\* A Pod whose Job is gone, or is deleted in the foreground, is removed; a Job
\* deleted in the foreground goes once its Pods are gone.
CollectPod ==
    /\ \E p \in pods :
          /\ jobs[p.schema].uid # p.uid \/ jobs[p.schema].deleting
          /\ pods' = pods \ {p}
    /\ UNCHANGED <<tam, state, jobs, deploy, cache, world, pass, dirty, bounds>>

CollectJob ==
    /\ \E s \in Schemas :
          /\ jobs[s].deleting
          /\ \A p \in pods : p.uid # jobs[s].uid
          /\ jobs' = [jobs EXCEPT ![s] = NoJob]
    /\ UNCHANGED <<tam, state, pods, deploy, cache, world, pass, dirty, bounds>>

\* Somebody deletes a migration Job; its Pod is collected in the background.  The
\* event reaches the work queue even when the cache never held that Job.
DeleteJob ==
    /\ faults < MaxFaults
    /\ faults' = faults + 1
    /\ \E s \in Schemas :
          /\ jobs[s].status # "absent"
          /\ jobs' = [jobs EXCEPT ![s] = NoJob]
    /\ dirty' = TRUE
    /\ UNCHANGED <<tam, state, pods, deploy, cache, world, pass, made, edits>>

RolloutFinishes ==
    /\ deploy # NoDeploy
    /\ ~deploy.rolled
    /\ deploy' = [deploy EXCEPT !.rolled = TRUE]
    /\ UNCHANGED <<tam, state, jobs, pods, cache, world, pass, dirty, bounds>>

\* An obstacle appears or goes.  Obstacles in the spec come and go with an edit;
\* the return of other components is seen by a probe or an event.
SetGate(g) ==
    /\ gate' = g
    /\ LET inSpec == {gate, g} \cap SpecGates # {} IN
       /\ tam' = IF inSpec THEN [tam EXCEPT !.gen = @ + 1] ELSE tam
       /\ dirty' = (dirty \/ (g = "open" /\ ~inSpec))
    /\ UNCHANGED <<state, jobs, pods, deploy, cache, db, pass, made, edits>>

ObstacleAppears ==
    /\ gate = "open"
    /\ faults < MaxFaults
    /\ faults' = faults + 1
    /\ \E g \in Gates : (g \in ManagedGates => Managed) /\ SetGate(g)

ObstacleGoes ==
    /\ gate # "open"
    /\ SetGate("open")
    /\ UNCHANGED faults

----------------------------------------------------------------------------

NewStatus ==
    [current |-> NoVersion, pending |-> NoVersion, phase |-> "", ready |-> "Unknown",
     degraded |-> "Unknown", schema |-> "Unknown", backends |-> "Unknown", upgrade |-> "",
     observed |-> 0]
NewTamoss(v) ==
    [version |-> v, override |-> FALSE, paused |-> FALSE, retry |-> 0, gen |-> 1,
     status |-> NewStatus]

\* A new Tamoss, or one installed by an operator that did not record
\* status.currentVersion yet, with its schema at some version.
Init ==
    /\ \E v \in Releases : tam = NewTamoss(v)
    /\ db \in {0} \cup Schemas
    /\ state = IF db = 0 THEN NoState ELSE Recorded(db, 0)
    /\ jobs = [s \in Schemas |-> NoJob]
    /\ pods = {}
    /\ deploy = NoDeploy
    /\ cache = Live
    /\ gate = "open"
    /\ pass = NoPass
    /\ dirty = TRUE
    /\ made = 0 /\ edits = 0 /\ faults = 0

Controller ==
    /\ Fresh
    /\ \/ StartPass \/ StopBeforeSchema \/ SchemaObserved \/ reconcileObsoleteSchemaJobs
       \/ reconcileStaleSchemaJob \/ acceptSchemaRetry \/ resetSchemaState
       \/ reconcileSucceededSchemaJob \/ reconcileFailedSchemaJob \/ launchSchemaJob
       \/ StopAfterSchema \/ applyTamossDesiredObjects \/ pruneOwnedObjects \/ updateStatus

Cluster ==
    /\ Fresh
    /\ \/ \E s \in Schemas : StartPod(s)
       \/ PodSucceeds \/ CollectPod \/ CollectJob \/ RolloutFinishes

Users == Fresh /\ (SelectVersion \/ OverrideImage \/ TogglePaused \/ AnnotateRetry)

Faults ==
    /\ Fresh
    /\ PodFails \/ AbortPass \/ DeleteJob \/ ObstacleAppears \/ ObstacleGoes

Next ==
    \/ Controller
    \/ Cluster
    \/ Users
    \/ Faults
    \/ \E k \in Kinds : Sync(k)

Spec == Init /\ [][Next]_vars

\* Controllers and informers keep working, and a running migration ends.
FairSpec ==
    /\ Spec
    /\ WF_vars(Controller)
    /\ \A k \in Kinds : WF_vars(Sync(k))
    /\ \A s \in Schemas : WF_vars(Fresh /\ StartPod(s))
    /\ WF_vars(Fresh /\ PodSucceeds)
    /\ WF_vars(Fresh /\ CollectPod)
    /\ WF_vars(Fresh /\ CollectJob)
    /\ WF_vars(Fresh /\ RolloutFinishes)

----------------------------------------------------------------------------
(* Properties *)

\* The variables have their types; in particular the recorded failures stop at
\* the limit of terminalSchemaFailure.
TypeOK ==
    /\ tam.version \in Releases
    /\ tam.status \in Statuses
    /\ state \in [applied: {0} \cup Schemas, failedVersion: {0} \cup Schemas,
                  failedGeneration: 0..MaxGeneration, failures: 0..3, consumed: 0..MaxEdits,
                  present: BOOLEAN]
    /\ \A s \in Schemas :
          /\ jobs[s].status \in {"absent", "new", "active", "complete", "failed"}
          /\ jobs[s].uid \in 0..MaxJobs
    /\ deploy.release \in Releases \cup {NoVersion}
    /\ db \in {0} \cup Schemas
    /\ gate \in AllGates \cup {"open"}
    /\ pass.at \in {"idle", "schema", "reset", "apply", "prune", "report"}

\* The schema-state ConfigMap never claims a schema the database does not carry:
\* only a Job of the current template that succeeded stamps a version.
StampTrue == state.applied <= db

\* A migration that runs belongs to the upgrade under way.
MigrationIsPending ==
    \A p \in pods : p.running =>
        /\ tam.status.pending # NoVersion
        /\ SchemaOf[tam.status.pending] = p.schema

\* Two migrations never run against the database at once, and the one that runs
\* is the one of the upgrade under way: a Job is replaced only when no Pod of its
\* predecessor is left, and the release lock holds while a Pod is there.
OneMigration ==
    /\ \A p, q \in pods : p.running /\ q.running => p = q
    /\ MigrationIsPending

\* API and worker of a release are deployed only on a database that has reached
\* the schema of that release.
ServingNeedsSchema == deploy # NoDeploy => db >= SchemaOf[deploy.release]

\* Fixtures are never applied once a schema version has been recorded.
FixturesOnlyOnInstall == \A p \in pods : p.running /\ p.fixtures => state.applied = 0

\* Ready=True is only reported for a release that is complete: no upgrade is in
\* progress and nothing is reported degraded.
ReadyMeansReleased ==
    tam.status.ready = "True" =>
        /\ tam.status.phase = "Ready"
        /\ tam.status.current # NoVersion
        /\ tam.status.pending = NoVersion
        /\ tam.status.degraded = "False"
        /\ tam.status.schema = "True"
        /\ tam.status.upgrade = "Upgradeable"
        /\ db = SchemaOf[tam.status.current]

\* status.currentVersion advances only after the schema and the workload
\* rollouts have succeeded.
CurrentAdvancesLast ==
    [][tam'.status.current # tam.status.current =>
          /\ tam.status.pending = tam'.status.current
          /\ state.applied = SchemaOf[tam'.status.current]
          /\ deploy.release = tam'.status.current
          /\ deploy.rolled]_vars

\* A recorded schema version is never forgotten.
StampKept == [][state.applied <= state'.applied]_vars

\* The release machinery keeps the promise of Release.
R == INSTANCE Release WITH
        current <- tam.status.current, pending <- tam.status.pending, schema <- db
ImplementsRelease == R!Spec

terminal ==
    /\ state.present
    /\ state.failedVersion = SchemaOf[tam.version]
    /\ state.failedGeneration = tam.gen
    /\ state.failures >= 3

Settled ==
    \/ gate # "open"
    \/ tam.status.observed = tam.gen /\
       \/ tam.status.ready = "True" /\ tam.status.current = tam.version
       \/ tam.paused /\ tam.status.phase = "Paused"
       \/ ~validateReleaseState(tam, state) /\ tam.status.phase = "Degraded"
       \/ terminal /\ tam.status.degraded = "True"

\* Once users and faults leave the instance alone, its status settles on the
\* truth: the selected release is complete, or refused, paused or failed.
EventuallySettled == <>[]Settled
=============================================================================
