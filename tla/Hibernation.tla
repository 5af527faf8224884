---------------------------- MODULE Hibernation ----------------------------
(***************************************************************************)
(* Hibernating and waking one Tamoss instance.  Two controllers of the     *)
(* operator share the Tamoss status: the TamossReconciler                  *)
(* (tamoss_controller.go, tamoss_hibernation_driver.go,                    *)
(* tamoss_resume_bootstrap.go, tamoss_hibernation_cleanup.go,              *)
(* tamoss_status.go) and the TamossHibernateReconciler                     *)
(* (tamosshibernate_controller.go).  Each has one worker; each pass reads  *)
(* informer caches and writes with separate API calls.                     *)
(***************************************************************************)
EXTENDS Naturals

CONSTANTS
    MaxCycles,    \* bound: hibernation cycles, whose operations are 1..MaxCycles
    UserOps,      \* TamossHibernate objects that users create by hand
    NoRef,        \* "no operation"
    Foreign,      \* operations whose Backup name somebody else has taken
    Retention,    \* the retention mode of the hibernate StorageBackend
    Disruptions,  \* what users and the cluster do to the system meanwhile
    Lagging,      \* kinds whose informer cache may be stale when a pass starts
    SlowPasses,   \* may the two controllers' passes overlap?
    MaxToggles,   \* bound: changes of spec.hibernation.enabled
    MaxWrites,    \* bound: acknowledged writes
    MaxFaults     \* bound: restarts, failures, flaps, deletions and retries

CycleOps == 1..MaxCycles
Ops      == CycleOps \cup UserOps
Refs     == Ops \cup {NoRef}

AllDisruptions ==
    {"enableUnsettled", "disableEarly", "disableCommitted", "deleteOp", "retry",
     "backupFails", "uploadFails", "destination", "invalid", "restart"}

ASSUME OpsAssumption ==
    /\ MaxCycles \in Nat
    /\ UserOps \cap CycleOps = {}
    /\ NoRef \notin Ops
    /\ Foreign \subseteq Ops
ASSUME SettingsAssumption ==
    /\ Retention \in {"Retain", "DeleteAfterResume", "TTL"}
    /\ Disruptions \subseteq AllDisruptions
    /\ Lagging \subseteq {"tamoss", "hibernate"}
    /\ SlowPasses \in BOOLEAN
ASSUME BoundsAssumption == MaxToggles \in Nat /\ MaxWrites \in Nat /\ MaxFaults \in Nat

VARIABLES
    tam,       \* the Tamoss object: spec.hibernation.enabled and the status
    tamC,      \* its copy in the informer cache
    op, opC,   \* the TamossHibernate objects and their cached copies
    backup,    \* the CNPG Backup named after each operation
    store,     \* what each operation's Backup put into the bucket
    manifest,  \* operations whose manifest is in the bucket
    cluster,   \* the CNPG Cluster
    gens,      \* Clusters created so far
    replicas,  \* replicas the workload Deployments ask for
    pods,      \* does a workload Pod run?
    dest,      \* the hibernate StorageBackend: "ready", "notReady", "invalid"
    t,         \* the pass of the TamossReconciler
    tdirty,    \* is the Tamoss in its work queue, or a requeue timer running?
    h,         \* the pass of the TamossHibernateReconciler
    hdirty,    \* operations in its work queue, or with a requeue timer running
    acked,     \* history: writes acknowledged to API clients
    toggles, faults

objects == <<tam, op, backup, store, manifest, cluster, gens, replicas, pods, dest>>
caches  == <<tamC, opC>>
tamossPass    == <<t, tdirty>>
hibernatePass == <<h, hdirty>>
ghosts  == <<acked, toggles, faults>>
vars    == <<objects, caches, tamossPass, hibernatePass, ghosts>>

LifecyclePhases == {"Running", "Hibernating", "Hibernated", "Resuming", "Failed"}
OperationPhases ==
    {"", "ResolvingSource", "PreparingTarget", "Quiescing", "CapturingDatabase",
     "WritingManifest", "DeprovisioningSource", "Completed", "Failed"}

\* restore, resumed, cleanup: status.lifecycle.resolvedRestore by its operation,
\* whether resumedAt is set, and its cleanup phase (Finished: Retained or
\* Completed).  pending, blocked: pendingArtifactCleanups still to do, and those
\* that are Blocked.  schema: the SchemaMigrated condition is True.
TamossObject ==
    [enabled: BOOLEAN, phase: LifecyclePhases, active: Refs, last: Refs, cycle: 0..MaxCycles,
     restore: Refs, resumed: BOOLEAN, cleanup: {"Pending", "Finished", "Blocked"},
     pending: SUBSET Ops, blocked: SUBSET Ops, schema: BOOLEAN]

\* committed: status.artifact.checksum is set.  retry: the operation-retry
\* annotation carries a value that status.acceptedRetry does not.
HibernateObject ==
    [exists: BOOLEAN, finalizer: BOOLEAN, deleting: BOOLEAN, phase: OperationPhases,
     committed: BOOLEAN, retry: BOOLEAN]

Capture == [gen: Nat, data: Nat]
ClusterObject == [gen: Nat, data: Nat, ready: BOOLEAN, deleting: BOOLEAN, source: Refs]

NoHibernate == [exists |-> FALSE, finalizer |-> FALSE, deleting |-> FALSE, phase |-> "",
                committed |-> FALSE, retry |-> FALSE]
NewHibernate == [NoHibernate EXCEPT !.exists = TRUE]
NoCapture == [gen |-> 0, data |-> 0]
NoCluster == [gen |-> 0, data |-> 0, ready |-> FALSE, deleting |-> FALSE, source |-> NoRef]
NewTamoss == [enabled |-> FALSE, phase |-> "Running", active |-> NoRef, last |-> NoRef,
              cycle |-> 0, restore |-> NoRef, resumed |-> FALSE, cleanup |-> "Pending",
              pending |-> {}, blocked |-> {}, schema |-> TRUE]
Idle == [pc |-> "idle"]

TamossPasses ==
    [pc: {"driven", "created", "retention", "deleted", "unready", "workloads", "ready"},
     mem: TamossObject, todo: SUBSET Ops, item: Refs]
HibernatePasses ==
    [pc: {"quiesce", "capture", "status", "failing", "unfinalize"},
     op: Ops, mem: HibernateObject, tmem: TamossObject, to: HibernateObject]

TypeOK ==
    /\ tam \in TamossObject /\ tamC \in TamossObject
    /\ op \in [Ops -> HibernateObject] /\ opC \in [Ops -> HibernateObject]
    /\ backup \in [Ops -> {"none", "running", "completed", "failed", "foreign"}]
    /\ store \in [Ops -> Capture]
    /\ manifest \in SUBSET Ops
    /\ cluster \in ClusterObject
    /\ gens \in Nat
    /\ replicas \in {0, 1}
    /\ pods \in BOOLEAN
    /\ dest \in {"ready", "notReady", "invalid"}
    /\ t \in TamossPasses \cup {Idle}
    /\ h \in HibernatePasses \cup {Idle}
    /\ tdirty \in BOOLEAN
    /\ hdirty \subseteq Ops
    /\ acked \in Nat /\ toggles \in Nat /\ faults \in Nat

\* A running instance that has served writes and never hibernated.
Init ==
    /\ tam = NewTamoss /\ tamC = NewTamoss
    /\ op = [o \in Ops |-> NoHibernate] /\ opC = op
    /\ backup = [o \in Ops |-> IF o \in Foreign THEN "foreign" ELSE "none"]
    /\ store = [o \in Ops |-> NoCapture]
    /\ manifest = {}
    /\ cluster = [gen |-> 1, data |-> 0, ready |-> TRUE, deleting |-> FALSE, source |-> NoRef]
    /\ gens = 1
    /\ replicas = 1 /\ pods = TRUE
    /\ dest = "ready"
    /\ t = Idle /\ tdirty = TRUE
    /\ h = Idle /\ hdirty = {}
    /\ acked = 0 /\ toggles = 0 /\ faults = 0

-----------------------------------------------------------------------------
(* Writing the Tamoss status.  A copy is current when it equals the live    *)
(* object: resource versions are compared by content.                       *)

\* patchTamossLifecycleStatus: nothing is sent when the mutation leaves the copy
\* in memory alone; otherwise a conflict re-reads the cache and re-applies the
\* mutation, without asking the caller again, until the cache has caught up.
\* new is the mutated copy in memory, newLive the mutated live object.
patchable(mem, new) == new = mem \/ mem = tam \/ tamC = tam

\* The object in memory after the patch; the live one is the same unless nothing was sent.
patched(mem, new, newLive) == IF new = mem THEN mem ELSE newLive

patchTamossLifecycleStatus(mem, new, newLive) ==
    /\ patchable(mem, new)
    /\ tam' = IF new = mem THEN tam ELSE newLive

\* setLifecycleOperationState
setLifecycleOperationState(x, phase, active) == [x EXCEPT !.phase = phase, !.active = active]

-----------------------------------------------------------------------------
(* The TamossReconciler.                                                   *)

TamossCachesCurrent ==
    /\ "tamoss" \in Lagging \/ tamC = tam
    /\ "hibernate" \in Lagging \/ opC = op

\* A pass starts: it takes the Tamoss from the queue and reads it from the cache.
BeginTamoss ==
    /\ t = Idle /\ tdirty
    /\ SlowPasses \/ h = Idle
    /\ TamossCachesCurrent

\* An event that arrives during a pass queues the next one.
QueuedMeanwhile == t # Idle /\ tdirty
ReturnTamoss(requeue) == t' = Idle /\ tdirty' = (requeue \/ QueuedMeanwhile)

\* hibernationOperationTerminal
hibernationOperationTerminal(x) == x.phase \in {"Completed", "Failed"}

\* A cycle whose operation has not acquired the lifecycle is forgotten.
CycleInFlight_MutantForgets(x) == FALSE

\* The recorded cycle's operation is still in flight (driver, lines 54-65).
CycleInFlight(x) ==
    x.cycle > 0 /\ opC[x.cycle].exists /\ ~hibernationOperationTerminal(opC[x.cycle])

\* tamossLifecycleBlocksReconcile
tamossLifecycleBlocksReconcile(x) == x.enabled \/ x.phase \in {"Hibernating", "Hibernated"}

\* resumeBootstrapSource, waking: the last hibernation is the source.
Waking(x) == ~x.enabled /\ x.last # NoRef /\ x.phase \in {"Hibernated", "Failed"}

\* S3HibernationManifestReader.Read: an absent manifest is a permanent failure
\* (isPermanentHibernationManifestReadError); a transport failure only repeats
\* the pass.
manifestRead(o) == IF o \in manifest THEN "resolved" ELSE "failure"

\* resolveResumeBootstrapSource
resolveResumeBootstrapSource(o) ==
    IF ~opC[o].exists \/ ~hibernationOperationTerminal(opC[o]) THEN "waiting"
    ELSE IF opC[o].phase = "Failed" \/ ~opC[o].committed \/ dest = "invalid" THEN "failure"
    ELSE IF dest = "notReady" THEN "waiting"
    ELSE manifestRead(o)

\* The restore source replaces the previous one, whose unfinished cleanup is kept.
Resolved(x, o) ==
    LET keep(c) == IF x.restore \notin {NoRef, o} /\ x.resumed /\ x.cleanup = c
                   THEN {x.restore} ELSE {}
    IN  [setLifecycleOperationState(x, "Resuming", NoRef) EXCEPT
            !.restore = o, !.resumed = FALSE, !.cleanup = "Pending",
            !.pending = (x.pending \ {o}) \cup keep("Pending"),
            !.blocked = (x.blocked \ {o}) \cup keep("Blocked")]

\* Past the lifecycle gate the pass goes on with the artifacts to clean up.
GateOrContinue(x) ==
    IF tamossLifecycleBlocksReconcile(x)
    THEN ReturnTamoss(FALSE)
    ELSE /\ t' = [pc |-> "retention", mem |-> x, item |-> NoRef,
                  todo |-> x.pending \cup ({y \in {x.restore} : x.cleanup = "Pending"} \ {NoRef})]
         /\ tdirty' = QueuedMeanwhile

\* reconcileResumeBootstrap, then the gate of prepareTamossLifecycle.
reconcileResumeBootstrap(x) ==
    LET outcome  == resolveResumeBootstrapSource(x.last)
        Fail(y)  == setLifecycleOperationState(y, "Failed", NoRef)
        Take(y)  == Resolved(y, x.last)
    IN  \/ /\ ~(Waking(x) /\ cluster = NoCluster)
           /\ GateOrContinue(x)
           /\ UNCHANGED tam
        \/ /\ Waking(x) /\ cluster = NoCluster
           /\ outcome = "waiting"
           /\ ReturnTamoss(TRUE)
           /\ UNCHANGED tam
        \/ /\ Waking(x) /\ cluster = NoCluster
           /\ outcome = "failure"
           /\ patchTamossLifecycleStatus(x, Fail(x), Fail(tam))
           /\ ReturnTamoss(FALSE)
        \/ /\ Waking(x) /\ cluster = NoCluster
           /\ outcome = "resolved"
           /\ patchTamossLifecycleStatus(x, Take(x), Take(tam))
           /\ GateOrContinue(patched(x, Take(x), Take(tam)))

\* A pass in which spec.hibernation asks for nothing.
TamossPass ==
    /\ BeginTamoss
    /\ \/ tamC.enabled /\ (tamC.phase # "Running" \/ CycleInFlight(tamC))
       \/ ~tamC.enabled /\ tamC.phase # "Hibernating"
    /\ reconcileResumeBootstrap(tamC)
    /\ UNCHANGED <<op, backup, store, manifest, cluster, gens, replicas, pods, dest,
                   caches, hibernatePass, ghosts>>

\* recordHibernationCycle
RecordedCycle(x, c) == [x EXCEPT !.cycle = c]

\* ensureHibernationCycleOperation creates the next cycle's operation; one that
\* exists already is taken as created before a restart.
ensureHibernationCycleOperation ==
    LET c == tamC.cycle + 1
    IN  /\ BeginTamoss
        /\ tamC.enabled /\ tamC.phase = "Running" /\ ~CycleInFlight(tamC)
        /\ c \in CycleOps
        /\ op' = IF op[c].exists THEN op ELSE [op EXCEPT ![c] = NewHibernate]
        /\ t' = [pc |-> "created", mem |-> tamC, todo |-> {}, item |-> c]
        /\ tdirty' = FALSE
        /\ UNCHANGED <<tam, backup, store, manifest, cluster, gens, replicas, pods, dest,
                       caches, hibernatePass, ghosts>>

\* The cycle is recorded by a second API call, and the pass goes on.
recordHibernationCycle ==
    LET Record(x) == RecordedCycle(x, t.item)
    IN  /\ t.pc = "created"
        /\ patchTamossLifecycleStatus(t.mem, Record(t.mem), Record(tam))
        /\ t' = [t EXCEPT !.pc = "driven", !.mem = patched(t.mem, Record(t.mem), Record(tam)), !.item = NoRef]
        /\ UNCHANGED <<op, backup, store, manifest, cluster, gens, replicas, pods, dest,
                       caches, tdirty, hibernatePass, ghosts>>

ContinueDriven ==
    /\ t.pc = "driven"
    /\ reconcileResumeBootstrap(t.mem)
    /\ UNCHANGED <<op, backup, store, manifest, cluster, gens, replicas, pods, dest,
                   caches, hibernatePass, ghosts>>

\* The API server's deletion of a TamossHibernate: without a finalizer it is gone
\* at once, and with it, by its owner reference, the Backup.
Deleted(o) ==
    IF op[o].finalizer
    THEN /\ op' = [op EXCEPT ![o].deleting = TRUE]
         /\ UNCHANGED backup
    ELSE /\ op' = [op EXCEPT ![o] = NoHibernate]
         /\ backup' = [backup EXCEPT ![o] = IF @ = "foreign" THEN @ ELSE "none"]

\* abortSpecHibernation deletes the active operation if the Tamoss controls it;
\* Hibernating keeps the pass behind the gate.
abortSpecHibernation ==
    /\ BeginTamoss
    /\ ~tamC.enabled /\ tamC.phase = "Hibernating"
    /\ IF /\ tamC.active \in CycleOps
          /\ opC[tamC.active].exists /\ ~opC[tamC.active].deleting
          /\ op[tamC.active].exists
       THEN Deleted(tamC.active)
       ELSE UNCHANGED <<op, backup>>
    /\ ReturnTamoss(FALSE)
    /\ UNCHANGED <<tam, store, manifest, cluster, gens, replicas, pods, dest,
                   caches, hibernatePass, ghosts>>

\* reconcileArtifactRetention takes the current restore first, then the pending ones.
NextArtifact(o) ==
    /\ t.pc = "retention" /\ o \in t.todo
    /\ o = t.mem.restore \/ t.mem.restore \notin t.todo

\* recordArtifactCleanup
RecordedCleanup(x, o, outcome) ==
    IF x.restore = o THEN [x EXCEPT !.cleanup = outcome]
    ELSE IF o \in x.pending
         THEN [x EXCEPT !.pending = @ \ {o},
                        !.blocked = IF outcome = "Blocked" THEN @ \cup {o} ELSE @]
         ELSE x

retentionFrame == UNCHANGED <<op, backup, store, cluster, gens, replicas, pods, dest,
                              caches, tdirty, hibernatePass, ghosts>>

\* The restore is complete once its database is ready; deletion waits for a later pass.
recordResumed(o) ==
    LET Resume(x) ==
            IF x.restore = NoRef THEN x
            ELSE IF x.phase = "Resuming"
                 THEN [setLifecycleOperationState(x, "Running", NoRef) EXCEPT !.resumed = TRUE]
                 ELSE [x EXCEPT !.resumed = TRUE]
    IN  /\ NextArtifact(o)
        /\ o = t.mem.restore /\ ~t.mem.resumed
        /\ IF cluster.ready
           THEN /\ patchTamossLifecycleStatus(t.mem, Resume(t.mem), Resume(tam))
                /\ t' = [t EXCEPT !.todo = @ \ {o}, !.mem = patched(t.mem, Resume(t.mem), Resume(tam))]
           ELSE /\ t' = [t EXCEPT !.todo = @ \ {o}]
                /\ UNCHANGED tam
        /\ UNCHANGED manifest
        /\ retentionFrame

\* Retention that does not wait for the restored database.
Resumed_MutantEager(o) == TRUE

Resumed(o) == o # t.mem.restore \/ t.mem.resumed

\* The outcome without a deletion: kept by policy, or a destination of the wrong kind.
recordArtifactCleanup(o) ==
    LET outcome == IF t.pc = "deleted" \/ dest # "invalid" THEN "Finished" ELSE "Blocked"
        Record(x) == RecordedCleanup(x, o, outcome)
    IN  /\ \/ NextArtifact(o) /\ Resumed(o) /\ (dest = "invalid" \/ Retention = "Retain")
           \/ t.pc = "deleted" /\ t.item = o
        /\ patchTamossLifecycleStatus(t.mem, Record(t.mem), Record(tam))
        /\ t' = [t EXCEPT !.pc = "retention", !.item = NoRef, !.todo = @ \ {o},
                          !.mem = patched(t.mem, Record(t.mem), Record(tam))]
        /\ UNCHANGED manifest
        /\ retentionFrame

\* A TTL that is not due, or a deletion that fails: the cleanup stays pending.
DeferCleanup(o) ==
    /\ NextArtifact(o) /\ Resumed(o)
    /\ dest # "invalid" /\ Retention # "Retain"
    /\ t' = [t EXCEPT !.todo = @ \ {o}]
    /\ UNCHANGED <<tam, manifest>>
    /\ retentionFrame

\* deleteResumeArtifact removes the artifact's prefix, manifest and capture alike.
deleteResumeArtifact(o) ==
    /\ NextArtifact(o) /\ Resumed(o)
    /\ dest # "invalid" /\ Retention # "Retain"
    /\ manifest' = manifest \ {o}
    /\ store' = [store EXCEPT ![o] = NoCapture]
    /\ t' = [t EXCEPT !.pc = "deleted", !.item = o]
    /\ UNCHANGED <<tam, op, backup, cluster, gens, replicas, pods, dest,
                   caches, tdirty, hibernatePass, ghosts>>

\* reconcileCNPG applies the Cluster: a missing one is created, recovering from
\* the resolved restore or else empty.  A Cluster that is not ready ends the pass
\* with its status.
reconcileCNPG ==
    /\ t.pc = "retention" /\ t.todo = {}
    /\ cluster' = IF cluster # NoCluster THEN cluster
                  ELSE [gen |-> gens + 1, ready |-> FALSE, deleting |-> FALSE,
                        source |-> t.mem.restore, data |-> 0]
    /\ gens' = IF cluster # NoCluster THEN gens ELSE gens + 1
    /\ t' = [t EXCEPT !.pc = IF cluster.ready THEN "workloads" ELSE "unready"]
    /\ UNCHANGED <<tam, op, backup, store, manifest, replicas, pods, dest,
                   caches, tdirty, hibernatePass, ghosts>>

\* applyTamossDesiredObjects, once the schema stage finds the database migrated.
applyTamossDesiredObjects ==
    /\ t.pc = "workloads"
    /\ replicas' = 1
    /\ t' = [t EXCEPT !.pc = "ready"]
    /\ UNCHANGED <<tam, op, backup, store, manifest, cluster, gens, pods, dest,
                   caches, tdirty, hibernatePass, ghosts>>

\* lifecycleRestoreInProgress
lifecycleRestoreInProgress(x) == x.phase = "Resuming" /\ x.restore # NoRef /\ ~x.resumed

\* The lifecycle never goes back to Running here.
applyTamossStatusObservation_MutantKeepsPhase(x, ready) == [x EXCEPT !.schema = ready]

\* applyTamossStatusObservation
applyTamossStatusObservation(x, ready) ==
    LET running == x.active = NoRef /\ ~x.enabled /\ ~lifecycleRestoreInProgress(x)
    IN  [x EXCEPT !.schema = ready, !.phase = IF running THEN "Running" ELSE @]

\* updateStatus and updateProviderBackendStatus: an optimistically locked patch,
\* lost on a conflict; either way the Tamoss is requeued.
patchTamossStatus ==
    LET new == applyTamossStatusObservation(t.mem, t.pc = "ready")
    IN  /\ t.pc \in {"unready", "ready"}
        /\ tam' = IF t.mem = tam THEN new ELSE tam
        /\ ReturnTamoss(TRUE)
        /\ UNCHANGED <<op, backup, store, manifest, cluster, gens, replicas, pods, dest,
                       caches, hibernatePass, ghosts>>

\* A lifecycle patch that keeps conflicting with a cache that lags fails the pass.
TamossConflict ==
    /\ t # Idle /\ t.pc \in {"created", "driven", "retention", "deleted"}
    /\ t.mem # tam /\ tamC # tam
    /\ ReturnTamoss(TRUE)
    /\ UNCHANGED <<objects, caches, hibernatePass, ghosts>>

-----------------------------------------------------------------------------
(* The TamossHibernateReconciler.                                          *)

\* A pass over operation o starts from the cached operation and Tamoss.
BeginHibernate(o) ==
    /\ h = Idle /\ o \in hdirty
    /\ SlowPasses \/ t = Idle
    /\ TamossCachesCurrent

ReturnHibernate(o, requeue) ==
    /\ h' = Idle
    /\ hdirty' = IF requeue THEN hdirty \cup {o} ELSE IF h = Idle THEN hdirty \ {o} ELSE hdirty

InPass(o, pc, tmem, to) == [pc |-> pc, op |-> o, mem |-> opC[o], tmem |-> tmem, to |-> to]

\* setOperationStatus: most status writes carry a freshly built artifact, without
\* the checksum; those of resolveHibernateDestination carry none and keep it.
At(x, phase) == [x EXCEPT !.phase = phase]
AtNew(x, phase) == [x EXCEPT !.phase = phase, !.committed = FALSE]

\* A status that was written ends the polling, whatever the phase.
updateHibernateStatus_MutantNoPoll(o, mem, new) ==
    /\ op' = IF mem = op[o] THEN [op EXCEPT ![o] = new] ELSE op
    /\ ReturnHibernate(o, new # mem /\ mem # op[o])

\* updateHibernateStatus: optimistically locked; a terminal phase that is written
\* ends the polling (operationWaitResult), a conflict is retried.
updateHibernateStatus(o, mem, new) ==
    /\ op' = IF mem = op[o] THEN [op EXCEPT ![o] = new] ELSE op
    /\ ReturnHibernate(o, (new # mem /\ mem # op[o]) \/ ~hibernationOperationTerminal(new))

hibernateFrame == UNCHANGED <<store, manifest, cluster, gens, replicas, pods, dest,
                              caches, tamossPass, ghosts>>

\* The operation has left the cache.
HibernateNotFound(o) ==
    /\ BeginHibernate(o) /\ ~opC[o].exists
    /\ ReturnHibernate(o, FALSE)
    /\ UNCHANGED <<tam, op, backup>>
    /\ hibernateFrame

addFinalizer(o) ==
    /\ BeginHibernate(o)
    /\ opC[o].exists /\ ~opC[o].deleting /\ ~opC[o].finalizer
    /\ op' = IF op[o].exists /\ ~op[o].deleting THEN [op EXCEPT ![o].finalizer = TRUE] ELSE op
    /\ ReturnHibernate(o, FALSE)
    /\ UNCHANGED <<tam, backup>>
    /\ hibernateFrame

Reconcilable(o) == opC[o].exists /\ ~opC[o].deleting /\ opC[o].finalizer

\* acceptOperationRetry: a Failed Backup of the operation is deleted first.
acceptOperationRetry(o) ==
    /\ BeginHibernate(o) /\ Reconcilable(o)
    /\ opC[o].retry /\ opC[o].phase = "Failed"
    /\ IF backup[o] = "failed"
       THEN /\ backup' = [backup EXCEPT ![o] = "none"]
            /\ ReturnHibernate(o, TRUE)
            /\ UNCHANGED op
       ELSE /\ updateHibernateStatus(o, opC[o], [opC[o] EXCEPT !.phase = "", !.retry = FALSE])
            /\ UNCHANGED backup
    /\ UNCHANGED tam
    /\ hibernateFrame

HibernateTerminal(o) ==
    /\ BeginHibernate(o) /\ Reconcilable(o)
    /\ hibernationOperationTerminal(opC[o]) /\ ~(opC[o].phase = "Failed" /\ opC[o].retry)
    /\ ReturnHibernate(o, FALSE)
    /\ UNCHANGED <<tam, op, backup>>
    /\ hibernateFrame

\* hibernateLifecycleOwnedBy
hibernateLifecycleOwnedBy(x, o) == x.active = o \/ (x.phase = "Hibernated" /\ x.last = o)

\* The early returns before the lifecycle is touched, each a status of its own:
\* resolveHibernateDestination and hibernateCompatibilityError,
\* validateHibernateSourceSchema, loadHibernateCNPGCluster, acquireHibernateLifecycle.
Deterrent(o) ==
    LET x == tamC
    IN  IF dest = "invalid" THEN "Failed"
        ELSE IF dest = "notReady" THEN "PreparingTarget"
        ELSE IF ~hibernateLifecycleOwnedBy(x, o) /\ ~x.schema THEN "ResolvingSource"
        ELSE IF opC[o].phase = "DeprovisioningSource" THEN "none"
        ELSE IF cluster = NoCluster THEN "PreparingTarget"
        ELSE IF x.active \notin {NoRef, o} THEN "Failed"
        ELSE IF x.phase = "Hibernated" /\ x.last # o THEN "Failed"
        ELSE "none"

Runs(o) == BeginHibernate(o) /\ Reconcilable(o) /\ ~hibernationOperationTerminal(opC[o])

HibernateDeterred(o) ==
    /\ Runs(o) /\ Deterrent(o) # "none"
    /\ updateHibernateStatus(o, opC[o], IF dest = "ready" THEN AtNew(opC[o], Deterrent(o))
                                        ELSE At(opC[o], Deterrent(o)))
    /\ UNCHANGED <<tam, backup>>
    /\ hibernateFrame

\* acquireHibernateLifecycle
acquireHibernateLifecycle(o) ==
    LET Acquire(x) == IF tamC.phase = "Hibernated" THEN x
                      ELSE setLifecycleOperationState(x, "Hibernating", o)
    IN  /\ Runs(o) /\ Deterrent(o) = "none"
        /\ opC[o].phase # "DeprovisioningSource"
        /\ patchTamossLifecycleStatus(tamC, Acquire(tamC), Acquire(tam))
        /\ h' = InPass(o, "quiesce", patched(tamC, Acquire(tamC), Acquire(tam)), opC[o])
        /\ hdirty' = hdirty \ {o}
        /\ UNCHANGED <<op, backup>>
        /\ hibernateFrame

\* The Pods are not waited for.
quiesceTamossWorkloads_MutantNoWait ==
    /\ h.pc = "quiesce"
    /\ replicas' = 0
    /\ h' = [h EXCEPT !.pc = "capture"]
    /\ UNCHANGED <<tam, op, backup, store, manifest, cluster, gens, pods, dest,
                   caches, tamossPass, hdirty, ghosts>>

\* quiesceTamossWorkloads scales the Deployments to zero and asks whether they,
\* and every Pod, were gone already.  A Cluster that has vanished fails the pass
\* in ensureHibernateCNPGBackupConfiguration.
quiesceTamossWorkloads ==
    LET o == h.op
    IN  /\ h.pc = "quiesce"
        /\ IF cluster = NoCluster
           THEN ReturnHibernate(o, TRUE) /\ UNCHANGED replicas
           ELSE /\ replicas' = 0
                /\ h' = IF replicas = 0 /\ ~pods
                        THEN [h EXCEPT !.pc = "capture"]
                        ELSE [h EXCEPT !.pc = "status", !.to = AtNew(h.mem, "Quiescing")]
                /\ UNCHANGED hdirty
        /\ UNCHANGED <<tam, op, backup, store, manifest, cluster, gens, pods, dest,
                       caches, tamossPass, ghosts>>

captureFrame == UNCHANGED <<op, store, cluster, gens, replicas, pods, dest, caches,
                            tamossPass, hdirty, ghosts>>

Report(phase) == h' = [h EXCEPT !.pc = "status", !.to = AtNew(h.mem, phase)]

\* ensureHibernateCNPGBackup: the operation's Backup is created once.
ensureHibernateCNPGBackup(o) == [backup EXCEPT ![o] = IF @ = "none" THEN "running" ELSE @]

\* reconcileHibernateCapture while the Backup is missing or runs.
captureDatabase ==
    /\ h.pc = "capture" /\ backup[h.op] \in {"none", "running"}
    /\ backup' = ensureHibernateCNPGBackup(h.op)
    /\ Report("CapturingDatabase")
    /\ UNCHANGED <<tam, manifest>>
    /\ captureFrame

\* The Backup is not waited for.
writeHibernateManifest_MutantEarly ==
    /\ h.pc = "capture" /\ backup[h.op] \in {"running", "completed"}
    /\ manifest' = manifest \cup {h.op}
    /\ h' = [h EXCEPT !.pc = "status",
                      !.to = [At(h.mem, "DeprovisioningSource") EXCEPT !.committed = TRUE]]
    /\ UNCHANGED <<tam, backup>>
    /\ captureFrame

\* The Backup is complete: its manifest is uploaded, and the artifact committed.
writeHibernateManifest ==
    /\ h.pc = "capture" /\ backup[h.op] = "completed"
    /\ manifest' = manifest \cup {h.op}
    /\ h' = [h EXCEPT !.pc = "status",
                      !.to = [At(h.mem, "DeprovisioningSource") EXCEPT !.committed = TRUE]]
    /\ UNCHANGED <<tam, backup>>
    /\ captureFrame

uploadFails ==
    /\ "uploadFails" \in Disruptions /\ faults < MaxFaults
    /\ h.pc = "capture" /\ backup[h.op] = "completed"
    /\ Report("WritingManifest")
    /\ faults' = faults + 1
    /\ UNCHANGED <<tam, op, backup, store, manifest, cluster, gens, replicas, pods, dest,
                   caches, tamossPass, hdirty, acked, toggles>>

\* setHibernateLifecycleFailed, also the mutation of failActiveHibernateLifecycle.
LifecycleFailed(x, o) == [setLifecycleOperationState(x, "Failed", NoRef) EXCEPT !.last = o]

setHibernateLifecycleFailed ==
    LET Fail(x) == LifecycleFailed(x, h.op)
    IN  /\ h.pc = "capture" /\ backup[h.op] \in {"failed", "foreign"}
        /\ patchTamossLifecycleStatus(h.tmem, Fail(h.tmem), Fail(tam))
        /\ Report("Failed")
        /\ UNCHANGED <<backup, manifest>>
        /\ captureFrame

ReportStatus ==
    /\ h.pc = "status"
    /\ updateHibernateStatus(h.op, h.mem, h.to)
    /\ UNCHANGED <<tam, backup>>
    /\ hibernateFrame

\* completeHibernateLifecycle
LifecycleHibernated(x, o) == [setLifecycleOperationState(x, "Hibernated", NoRef) EXCEPT !.last = o]

\* deprovisionHibernateSource deletes the Cluster in the foreground and waits.
deprovisionHibernateSource(o) ==
    /\ cluster # NoCluster
    /\ cluster' = [cluster EXCEPT !.deleting = TRUE]
    /\ ReturnHibernate(o, TRUE)
    /\ UNCHANGED <<tam, op, backup, store, manifest, gens, replicas, pods, dest,
                   caches, tamossPass, ghosts>>

\* Once the Cluster is gone the lifecycle is Hibernated, then the operation ends.
completeHibernateLifecycle(o, next, to) ==
    LET Complete(x) == LifecycleHibernated(x, o)
    IN  /\ cluster = NoCluster
        /\ patchTamossLifecycleStatus(tamC, Complete(tamC), Complete(tam))
        /\ h' = InPass(o, next, patched(tamC, Complete(tamC), Complete(tam)), to)
        /\ hdirty' = hdirty \ {o}
        /\ UNCHANGED <<op, backup>>
        /\ hibernateFrame

reconcileHibernateSourceDeprovisioning(o) ==
    /\ Runs(o) /\ Deterrent(o) = "none"
    /\ opC[o].phase = "DeprovisioningSource"
    /\ \/ deprovisionHibernateSource(o)
       \/ completeHibernateLifecycle(o, "status", At(opC[o], "Completed"))

Finalizing(o) == BeginHibernate(o) /\ opC[o].exists /\ opC[o].deleting
Committed(x) == x.phase = "DeprovisioningSource" /\ x.committed

\* finalizeHibernate of a committed operation finishes the hibernation first; if
\* the Tamoss no longer holds it, the pass fails and is retried.
finalizeCommitted(o) ==
    /\ Finalizing(o) /\ Committed(opC[o])
    /\ IF hibernateLifecycleOwnedBy(tamC, o)
       THEN \/ deprovisionHibernateSource(o)
            \/ completeHibernateLifecycle(o, "unfinalize", opC[o])
       ELSE /\ ReturnHibernate(o, TRUE)
            /\ UNCHANGED <<tam, op, backup>>
            /\ hibernateFrame

\* The deleted operation leaves the lifecycle it holds alone.
finalizeAborted_MutantKeepsLifecycle(o) ==
    /\ Finalizing(o) /\ ~Committed(opC[o])
    /\ h' = InPass(o, "unfinalize", tamC, opC[o])
    /\ hdirty' = hdirty \ {o}
    /\ UNCHANGED <<tam, op, backup>>
    /\ hibernateFrame

\* finalizeHibernate of any other operation fails the lifecycle it holds
\* (failActiveHibernateLifecycle), then the operation itself.
finalizeAborted(o) ==
    LET Fail(x) == IF tamC.active = o THEN LifecycleFailed(x, o) ELSE x
    IN  /\ Finalizing(o) /\ ~Committed(opC[o])
        /\ IF opC[o].phase = "Completed"
           THEN h' = InPass(o, "unfinalize", tamC, opC[o]) /\ UNCHANGED tam
           ELSE /\ patchTamossLifecycleStatus(tamC, Fail(tamC), Fail(tam))
                /\ h' = InPass(o, "failing", patched(tamC, Fail(tamC), Fail(tam)), At(opC[o], "Failed"))
        /\ hdirty' = hdirty \ {o}
        /\ UNCHANGED <<op, backup>>
        /\ hibernateFrame

FailDeleted ==
    LET o == h.op
    IN  /\ h.pc = "failing"
        /\ IF h.mem = op[o] \/ h.mem = h.to
           THEN /\ op' = IF h.mem = h.to THEN op ELSE [op EXCEPT ![o] = h.to]
                /\ h' = [h EXCEPT !.pc = "unfinalize"]
                /\ UNCHANGED hdirty
           ELSE /\ ReturnHibernate(o, TRUE)
                /\ UNCHANGED op
        /\ UNCHANGED <<tam, backup>>
        /\ hibernateFrame

\* Without its finalizer the deleted operation disappears, and its Backup with it.
removeFinalizer ==
    LET o == h.op
    IN  /\ h.pc = "unfinalize"
        /\ op' = [op EXCEPT ![o] = NoHibernate]
        /\ backup' = [backup EXCEPT ![o] = IF @ = "foreign" THEN @ ELSE "none"]
        /\ ReturnHibernate(o, FALSE)
        /\ UNCHANGED tam
        /\ hibernateFrame

HibernateConflict ==
    /\ h # Idle /\ h.pc = "capture" /\ backup[h.op] \in {"failed", "foreign"}
    /\ h.tmem # tam /\ tamC # tam
    /\ ReturnHibernate(h.op, TRUE)
    /\ UNCHANGED <<objects, caches, tamossPass, ghosts>>

-----------------------------------------------------------------------------
(* The informers, CNPG, the workloads, users and restarts.                  *)

\* The predicate of the Tamoss controller: spec or lifecycle changed.
SyncTamoss ==
    /\ tamC # tam
    /\ tamC' = tam
    /\ tdirty' = (tdirty \/ [tamC EXCEPT !.schema = tam.schema] # tam)
    /\ UNCHANGED <<objects, opC, t, hibernatePass, ghosts>>

\* Owned operations wake the Tamoss controller; the predicate of the hibernate
\* controller passes creation, deletion, finalizers and the retry annotation.
SyncOp(o) ==
    /\ opC[o] # op[o]
    /\ opC' = [opC EXCEPT ![o] = op[o]]
    /\ tdirty' = (tdirty \/ o \in CycleOps)
    /\ hdirty' = IF \/ opC[o].exists # op[o].exists \/ opC[o].deleting # op[o].deleting
                    \/ opC[o].finalizer # op[o].finalizer \/ (op[o].retry /\ ~opC[o].retry)
                 THEN hdirty \cup {o} ELSE hdirty
    /\ UNCHANGED <<objects, tamC, t, h, ghosts>>

Fault == faults < MaxFaults /\ faults' = faults + 1

\* CNPG bootstraps a Cluster: from the artifact, if that is still there, or empty.
ClusterBecomesReady ==
    /\ cluster # NoCluster /\ ~cluster.ready /\ ~cluster.deleting
    /\ cluster.source # NoRef => cluster.source \in manifest
    /\ cluster' = [cluster EXCEPT !.ready = TRUE,
                      !.data = IF cluster.source = NoRef THEN 0 ELSE store[cluster.source].data]
    /\ tdirty' = TRUE
    /\ UNCHANGED <<tam, op, backup, store, manifest, gens, replicas, pods, dest,
                   caches, t, hibernatePass, ghosts>>

ClusterIsGone ==
    /\ cluster.deleting
    /\ cluster' = NoCluster
    /\ tdirty' = TRUE
    /\ UNCHANGED <<tam, op, backup, store, manifest, gens, replicas, pods, dest,
                   caches, t, hibernatePass, ghosts>>

\* CNPG completes a Backup with what the database holds then.
BackupCompletes(o) ==
    /\ backup[o] = "running" /\ cluster.ready /\ ~cluster.deleting
    /\ backup' = [backup EXCEPT ![o] = "completed"]
    /\ store' = [store EXCEPT ![o] = [gen |-> cluster.gen, data |-> cluster.data]]
    /\ UNCHANGED <<tam, op, manifest, cluster, gens, replicas, pods, dest,
                   caches, tamossPass, hibernatePass, ghosts>>

BackupFails(o) ==
    /\ backup[o] = "running"
    /\ \/ "backupFails" \in Disruptions /\ Fault
       \/ (cluster = NoCluster \/ cluster.deleting) /\ UNCHANGED faults
    /\ backup' = [backup EXCEPT ![o] = "failed"]
    /\ UNCHANGED <<tam, op, store, manifest, cluster, gens, replicas, pods, dest,
                   caches, tamossPass, hibernatePass, acked, toggles>>

\* The Deployments' Pods follow their replicas; the Tamoss controller sees it.
PodsFollow ==
    /\ pods # (replicas = 1)
    /\ pods' = (replicas = 1)
    /\ tdirty' = TRUE
    /\ UNCHANGED <<tam, op, backup, store, manifest, cluster, gens, replicas, dest,
                   caches, t, hibernatePass, ghosts>>

\* The API acknowledges a write.
Write ==
    /\ pods /\ cluster.ready /\ ~cluster.deleting
    /\ acked < MaxWrites
    /\ acked' = acked + 1
    /\ cluster' = [cluster EXCEPT !.data = @ + 1]
    /\ UNCHANGED <<tam, op, backup, store, manifest, gens, replicas, pods, dest,
                   caches, tamossPass, hibernatePass, toggles, faults>>

envFrame == UNCHANGED <<store, manifest, cluster, gens, replicas, pods, caches,
                        tamossPass, hibernatePass, acked>>

Settled == tam.phase = "Running" /\ tam.schema

Enable ==
    /\ ~tam.enabled /\ toggles < MaxToggles
    /\ Settled \/ "enableUnsettled" \in Disruptions
    /\ tam' = [tam EXCEPT !.enabled = TRUE]
    /\ toggles' = toggles + 1
    /\ UNCHANGED <<op, backup, dest, faults>>
    /\ envFrame

Disable ==
    LET ended     == tam.phase \in {"Hibernated", "Failed"}
        committed == tam.active # NoRef /\ Committed(op[tam.active])
    IN  /\ tam.enabled /\ toggles < MaxToggles
        /\ \/ ended
           \/ ~ended /\ committed /\ "disableCommitted" \in Disruptions
           \/ ~ended /\ ~committed /\ "disableEarly" \in Disruptions
        /\ tam' = [tam EXCEPT !.enabled = FALSE]
        /\ toggles' = toggles + 1
        /\ UNCHANGED <<op, backup, dest, faults>>
        /\ envFrame

\* A user creates an operation under a name that the Tamoss does not know.
CreateOp(o) ==
    /\ o \in UserOps /\ ~op[o].exists
    /\ o \notin {tam.active, tam.last} /\ store[o] = NoCapture
    /\ op' = [op EXCEPT ![o] = NewHibernate]
    /\ UNCHANGED <<tam, backup, dest, toggles, faults>>
    /\ envFrame

DeleteOp(o) ==
    /\ "deleteOp" \in Disruptions /\ Fault
    /\ op[o].exists /\ ~op[o].deleting
    /\ Deleted(o)
    /\ UNCHANGED <<tam, dest, toggles>>
    /\ envFrame

RetryOp(o) ==
    /\ "retry" \in Disruptions /\ Fault
    /\ op[o].phase = "Failed" /\ ~op[o].retry
    /\ op' = [op EXCEPT ![o].retry = TRUE]
    /\ UNCHANGED <<tam, backup, dest, toggles>>
    /\ envFrame

DestinationChanges ==
    /\ \/ dest = "ready" /\ dest' = "notReady" /\ "destination" \in Disruptions /\ Fault
       \/ dest = "ready" /\ dest' = "invalid" /\ "invalid" \in Disruptions /\ Fault
    /\ UNCHANGED <<tam, op, backup, toggles>>
    /\ envFrame

DestinationRecovers ==
    /\ dest # "ready" /\ dest' = "ready"
    /\ UNCHANGED <<tam, op, backup, toggles, faults>>
    /\ envFrame

\* The operator restarts: both passes are lost, the caches and queues refilled.
Restart ==
    /\ "restart" \in Disruptions /\ Fault
    /\ t' = Idle /\ tdirty' = TRUE
    /\ h' = Idle /\ hdirty' = {o \in Ops : op[o].exists}
    /\ tamC' = tam /\ opC' = op
    /\ UNCHANGED <<objects, acked, toggles>>

-----------------------------------------------------------------------------
TamossStep ==
    \/ TamossPass \/ ensureHibernationCycleOperation \/ recordHibernationCycle
    \/ ContinueDriven \/ abortSpecHibernation
    \/ \E o \in Ops : recordResumed(o) \/ recordArtifactCleanup(o) \/ deleteResumeArtifact(o)
    \/ reconcileCNPG \/ applyTamossDesiredObjects \/ patchTamossStatus \/ TamossConflict

HibernateStep(o) ==
    \/ HibernateNotFound(o) \/ addFinalizer(o) \/ acceptOperationRetry(o)
    \/ HibernateTerminal(o) \/ HibernateDeterred(o) \/ acquireHibernateLifecycle(o)
    \/ reconcileHibernateSourceDeprovisioning(o)
    \/ finalizeCommitted(o) \/ finalizeAborted(o)

HibernateContinues ==
    \/ quiesceTamossWorkloads \/ captureDatabase \/ writeHibernateManifest
    \/ setHibernateLifecycleFailed \/ ReportStatus \/ FailDeleted \/ removeFinalizer
    \/ HibernateConflict

Cnpg == ClusterBecomesReady \/ ClusterIsGone \/ \E o \in Ops : BackupCompletes(o)

Environment ==
    \/ \E o \in Ops : BackupFails(o) \/ CreateOp(o) \/ DeleteOp(o) \/ RetryOp(o) \/ DeferCleanup(o)
    \/ Write \/ Enable \/ Disable \/ DestinationChanges \/ uploadFails \/ Restart

Next ==
    \/ TamossStep
    \/ \E o \in Ops : HibernateStep(o) \/ SyncOp(o)
    \/ HibernateContinues \/ SyncTamoss
    \/ Cnpg \/ PodsFollow \/ DestinationRecovers
    \/ Environment

Spec == Init /\ [][Next]_vars

\* A started pass goes on and a queued one starts: the work queues are FIFO, so an
\* operation that keeps coming back does not shut out another one.  CNPG, the
\* kubelets and the informers make progress; an unready destination recovers.
Fairness ==
    /\ SF_vars(TamossStep) /\ WF_vars(HibernateContinues)
    /\ \A o \in Ops : SF_vars(HibernateStep(o)) /\ WF_vars(SyncOp(o)) /\ WF_vars(BackupCompletes(o))
    /\ WF_vars(SyncTamoss) /\ WF_vars(ClusterBecomesReady) /\ WF_vars(ClusterIsGone)
    /\ WF_vars(PodsFollow) /\ WF_vars(DestinationRecovers)

FairSpec == Spec /\ Fairness

-----------------------------------------------------------------------------
(* Safety.                                                                 *)

\* A database that serves holds every write the API ever acknowledged: quiescing
\* before the capture, and restoring the latest capture, lose nothing.
NoLostWrites == cluster.ready => cluster.data = acked

\* While the instance has no database, a committed artifact in the bucket holds
\* every acknowledged write; retention never removes that only copy.
OnlyCopyKept == cluster = NoCluster => \E o \in manifest : store[o].data = acked

\* While the lifecycle is Hibernated no workload runs or is asked for.
QuiescedWhileHibernated == tam.phase = "Hibernated" => replicas = 0 /\ ~pods

\* The operation that status.lifecycle.activeOperationRef names exists, so that
\* finishing or finalizing it can release the lifecycle.
ActiveOperationExists == tam.active # NoRef => op[tam.active].exists

\* A Cluster is deleted only when a committed artifact was captured from that very
\* Cluster, never a database that was restored after the capture.
DeletesOnlyCaptured ==
    [][~cluster.deleting /\ cluster'.deleting
       => \E o \in manifest : op[o].committed /\ store[o].gen = cluster.gen]_vars

\* The spec starts no further cycle while the operation of the cycle before it is
\* still in flight, whether or not that one has acquired the lifecycle.
NewCycleAlone ==
    [][\A c \in CycleOps \ {1} :
          ~op[c].exists /\ op'[c].exists /\ op[c - 1].exists
          => op[c - 1].phase \in {"Completed", "Failed"}]_vars

\* Cycles are numbered so that each has an artifact of its own: the capture of a
\* later database never replaces one whose manifest is in the bucket.
ArtifactsDistinct ==
    [][\A o \in CycleOps :
          o \in manifest /\ store'[o].gen # 0 => store'[o].gen = store[o].gen]_vars

-----------------------------------------------------------------------------
(* Liveness.                                                               *)

\* spec.hibernation.enabled, left set, ends in an instance that is Hibernated or
\* has reported a failure.
EnabledHibernates == <>[]tam.enabled => <>[](tam.phase \in {"Hibernated", "Failed"})

\* Once it is left unset the instance runs again, with a database and workloads.
DisabledRuns == <>[]~tam.enabled => <>[](tam.phase = "Running" /\ cluster.ready /\ pods)

=============================================================================
