------------------------- MODULE HibernationProofs -------------------------
(***************************************************************************)
(* Hibernation keeps every acknowledged write, proved for any number of    *)
(* cycles, operations, writes, toggles and faults, when both controllers   *)
(* read current caches, their passes alternate and the destination stays   *)
(* ready.                                                                  *)
(***************************************************************************)
EXTENDS Hibernation, TLAPS

\* The hypotheses under which the results on data hold.
Orderly ==
    /\ Lagging = {} /\ ~SlowPasses
    /\ "destination" \notin Disruptions /\ "invalid" \notin Disruptions

\* Two copies of the Tamoss that differ at most in spec.hibernation.enabled.
SameStatus(x, y) ==
    /\ x.phase = y.phase /\ x.active = y.active /\ x.last = y.last /\ x.cycle = y.cycle
    /\ x.restore = y.restore /\ x.resumed = y.resumed /\ x.cleanup = y.cleanup
    /\ x.pending = y.pending /\ x.blocked = y.blocked /\ x.schema = y.schema

\* The steps of a Tamoss pass that lie past the lifecycle gate.
PastGate == t.pc \in {"retention", "deleted", "unready", "workloads", "ready"}

\* One pass at a time; what it remembers of the Tamoss status is the live one,
\* as nobody else writes it meanwhile, and past the gate nothing hibernates.
TamossMemory ==
    t # Idle =>
        /\ h = Idle
        /\ SameStatus(t.mem, tam)
        /\ PastGate => tam.phase \notin {"Hibernating", "Hibernated"}
        /\ t.pc = "created" => t.item \in CycleOps
        /\ t.pc \in {"created", "driven"} => tam.phase = "Running"

\* What a hibernate pass is about to report, by what it has found.
Reports(o) ==
    \/ /\ h.mem.phase # "DeprovisioningSource"
       /\ \/ \E p \in {"Quiescing", "CapturingDatabase", "WritingManifest"} : h.to = AtNew(h.mem, p)
          \/ h.to = AtNew(h.mem, "Failed") /\ backup[o] \in {"failed", "foreign"} /\ tam.active # o
          \/ /\ h.to = [At(h.mem, "DeprovisioningSource") EXCEPT !.committed = TRUE]
             /\ backup[o] = "completed" /\ o \in manifest
    \/ /\ h.mem.phase = "DeprovisioningSource"
       /\ h.to = At(h.mem, "Completed") /\ tam.phase = "Hibernated" /\ tam.last = o

\* A hibernate pass and its operation, which a user may have marked for deletion.
HibernateMemory ==
    h # Idle =>
        /\ op[h.op].exists /\ op[h.op].finalizer
        /\ h.mem.exists /\ h.mem.finalizer
        /\ h.pc \in {"quiesce", "capture", "status", "failing"} =>
              op[h.op].phase = h.mem.phase /\ op[h.op].committed = h.mem.committed
        /\ h.pc \in {"quiesce", "capture", "status"} =>
              ~h.mem.deleting /\ ~hibernationOperationTerminal(h.mem)
        /\ h.pc \in {"quiesce", "capture"} =>
              /\ tam.active = h.op /\ SameStatus(h.tmem, tam)
              /\ h.mem.phase # "DeprovisioningSource"
        /\ h.pc = "capture" => replicas = 0 /\ ~pods
        /\ h.pc = "status" => Reports(h.op)
        /\ h.pc \in {"failing", "unfinalize"} =>
              h.mem.deleting /\ op[h.op].deleting /\ tam.active # h.op
        /\ h.pc = "failing" =>
              /\ h.to = At(h.mem, "Failed")
              /\ h.mem.phase \notin {"DeprovisioningSource", "Completed"}
        /\ h.pc = "unfinalize" => op[h.op].phase \in {"DeprovisioningSource", "Completed", "Failed"}

\* The lifecycle is held by exactly the operation that hibernates.
Held(o) == tam.active = o \/ (tam.phase = "Hibernated" /\ tam.last = o)

\* o has begun its Backup and may still commit it.
Capturing(o) ==
    /\ op[o].exists /\ ~hibernationOperationTerminal(op[o])
    /\ ~op[o].deleting \/ op[o].phase = "DeprovisioningSource"
    /\ backup[o] \in {"running", "completed"}

\* From the Backup to the end of its operation nothing writes, so that a complete
\* Backup holds the database as it is.
Quiet(o) ==
    Capturing(o) =>
        /\ Held(o) /\ replicas = 0 /\ ~pods
        /\ backup[o] = "completed" =>
              store[o].data = acked /\ (cluster # NoCluster => store[o].gen = cluster.gen)

Operation(o) ==
    /\ ~op[o].exists => op[o] = NoHibernate /\ backup[o] \in {"none", "foreign"}
    /\ op[o].phase # "" \/ op[o].deleting => op[o].finalizer
    /\ op[o].phase \in {"DeprovisioningSource", "Completed"} => op[o].committed
    /\ op[o].phase = "DeprovisioningSource" => backup[o] = "completed" /\ o \in manifest
    /\ op[o].phase = "Failed" /\ ~op[o].deleting => backup[o] \notin {"running", "completed"}
    /\ tam.active = o =>
          op[o].exists /\ op[o].finalizer /\ ~hibernationOperationTerminal(op[o])
    /\ Quiet(o)

\* The artifact of s is the source of a restore whose end is not recorded.
Restoring(s) ==
    /\ s \in manifest /\ store[s].data = acked
    /\ tam.restore = s /\ ~tam.resumed /\ s \notin tam.pending

\* The artifact of o is what the instance will be restored from.
Kept(o) ==
    /\ o \in manifest /\ store[o].data = acked
    /\ \/ tam.active = o /\ op[o].phase = "DeprovisioningSource"
       \/ /\ tam.phase = "Hibernated" /\ tam.last = o /\ cluster = NoCluster
          /\ op[o].exists => op[o].phase \in {"DeprovisioningSource", "Completed"}
       \/ tam.phase = "Resuming" /\ Restoring(o) /\ cluster = NoCluster

Database ==
    /\ cluster.ready => cluster.data = acked
    /\ cluster # NoCluster /\ ~cluster.ready =>
          cluster.source \in Ops /\ Restoring(cluster.source)
    /\ cluster = NoCluster \/ cluster.deleting => \E o \in Ops : Kept(o)
    /\ tam.phase = "Hibernated" => cluster = NoCluster /\ replicas = 0 /\ ~pods

\* An operation is active exactly while the lifecycle is Hibernating.
Holding == tam.active # NoRef <=> tam.phase = "Hibernating"

\* The inductive invariant.
Preserved ==
    /\ TypeOK /\ dest = "ready" /\ Holding
    /\ TamossMemory /\ HibernateMemory
    /\ \A o \in Ops : Operation(o)
    /\ Database

-----------------------------------------------------------------------------
(* Updates of the Tamoss status.                                           *)

\* What retention works on is the same in both copies.
SameArtifacts(x, y) ==
    /\ x.restore = y.restore /\ x.resumed = y.resumed /\ x.cleanup = y.cleanup
    /\ x.pending = y.pending /\ x.blocked = y.blocked

\* setLifecycleOperationState changes the phase and the active operation.
LEMMA SetState ==
    ASSUME NEW x \in TamossObject, NEW p \in LifecyclePhases, NEW a \in Refs,
           NEW y, y = setLifecycleOperationState(x, p, a)
    PROVE  /\ y \in TamossObject
           /\ y.phase = p /\ y.active = a
           /\ y.enabled = x.enabled /\ y.last = x.last /\ y.cycle = x.cycle
           /\ y.schema = x.schema /\ SameArtifacts(y, x)
<1>1. y = [x EXCEPT !.phase = p, !.active = a]
  BY Zenon DEF setLifecycleOperationState
<1>2. y = [[x EXCEPT !.phase = p] EXCEPT !.active = a]
  BY <1>1, Zenon DEF TamossObject
<1> QED
  BY <1>2, Zenon DEF TamossObject, SameArtifacts

\* setHibernateLifecycleFailed also names the operation.
LEMMA FailedFields ==
    ASSUME NEW x \in TamossObject, NEW o \in Ops
    PROVE  LET y == LifecycleFailed(x, o)
           IN  /\ y \in TamossObject
               /\ y.phase = "Failed" /\ y.active = NoRef /\ y.last = o
               /\ y.enabled = x.enabled /\ SameArtifacts(y, x)
<1>1. NoRef \in Refs /\ o \in Refs /\ "Failed" \in LifecyclePhases
  BY Zenon DEF Refs, LifecyclePhases
<1> DEFINE z == setLifecycleOperationState(x, "Failed", NoRef)
<1>2. /\ z \in TamossObject /\ z.phase = "Failed" /\ z.active = NoRef
      /\ z.enabled = x.enabled /\ SameArtifacts(z, x)
  BY <1>1, SetState
<1>3. LifecycleFailed(x, o) = [z EXCEPT !.last = o]
  BY Zenon DEF LifecycleFailed
<1> HIDE DEF z
<1> QED
  BY <1>1, <1>2, <1>3, Zenon DEF TamossObject, SameArtifacts

\* So does completeHibernateLifecycle.
LEMMA HibernatedFields ==
    ASSUME NEW x \in TamossObject, NEW o \in Ops
    PROVE  LET y == LifecycleHibernated(x, o)
           IN  /\ y \in TamossObject
               /\ y.phase = "Hibernated" /\ y.active = NoRef /\ y.last = o
               /\ y.enabled = x.enabled /\ SameArtifacts(y, x)
<1>1. NoRef \in Refs /\ o \in Refs /\ "Hibernated" \in LifecyclePhases
  BY Zenon DEF Refs, LifecyclePhases
<1> DEFINE z == setLifecycleOperationState(x, "Hibernated", NoRef)
<1>2. /\ z \in TamossObject /\ z.phase = "Hibernated" /\ z.active = NoRef
      /\ z.enabled = x.enabled /\ SameArtifacts(z, x)
  BY <1>1, SetState
<1>3. LifecycleHibernated(x, o) = [z EXCEPT !.last = o]
  BY Zenon DEF LifecycleHibernated
<1> HIDE DEF z
<1> QED
  BY <1>1, <1>2, <1>3, Zenon DEF TamossObject, SameArtifacts

\* The spec's switch.
LEMMA SetEnabled ==
    ASSUME NEW x \in TamossObject, NEW b \in BOOLEAN, NEW y, y = [x EXCEPT !.enabled = b]
    PROVE  y \in TamossObject /\ SameStatus(y, x) /\ y.enabled = b
  BY Zenon DEF TamossObject, SameStatus

\* recordHibernationCycle.
LEMMA SetCycle ==
    ASSUME NEW x \in TamossObject, NEW c \in CycleOps, NEW y, y = RecordedCycle(x, c)
    PROVE  /\ y \in TamossObject
           /\ y.phase = x.phase /\ y.active = x.active /\ y.last = x.last
           /\ y.enabled = x.enabled /\ y.cycle = c
           /\ y.schema = x.schema /\ SameArtifacts(y, x)
<1>1. c \in 0..MaxCycles
  BY OpsAssumption DEF CycleOps
<1> QED
  BY <1>1, Zenon DEF TamossObject, RecordedCycle, SameArtifacts

-----------------------------------------------------------------------------
(* Updates of an operation and of the passes.                              *)

\* setOperationStatus with the artifact kept.
LEMMA AtFields ==
    ASSUME NEW x \in HibernateObject, NEW p \in OperationPhases
    PROVE  /\ At(x, p) \in HibernateObject
           /\ At(x, p).phase = p /\ At(x, p).exists = x.exists
           /\ At(x, p).finalizer = x.finalizer /\ At(x, p).deleting = x.deleting
           /\ At(x, p).committed = x.committed
  BY Zenon DEF HibernateObject, At

\* setOperationStatus with a freshly built artifact.
LEMMA AtNewFields ==
    ASSUME NEW x \in HibernateObject, NEW p \in OperationPhases
    PROVE  /\ AtNew(x, p) \in HibernateObject
           /\ AtNew(x, p).phase = p /\ AtNew(x, p).exists = x.exists
           /\ AtNew(x, p).finalizer = x.finalizer /\ AtNew(x, p).deleting = x.deleting
<1>1. AtNew(x, p) = [At(x, p) EXCEPT !.committed = FALSE]
  BY Zenon DEF HibernateObject, At, AtNew
<1> QED
  BY <1>1, Zenon DEF HibernateObject, At

\* Accepting a retry.
LEMMA RetriedFields ==
    ASSUME NEW x \in HibernateObject, NEW y, y = [x EXCEPT !.phase = "", !.retry = FALSE]
    PROVE  /\ y \in HibernateObject /\ y.phase = "" /\ y.retry = FALSE
           /\ y.exists = x.exists /\ y.finalizer = x.finalizer /\ y.deleting = x.deleting
           /\ y.committed = x.committed
<1>1. y = [At(x, "") EXCEPT !.retry = FALSE]
  BY Zenon DEF HibernateObject, At
<1> QED
  BY <1>1, Zenon DEF HibernateObject, At, OperationPhases

\* The marks that the API server, addFinalizer and users set.
LEMMA DeletingFields ==
    ASSUME NEW x \in HibernateObject, NEW y, y = [x EXCEPT !.deleting = TRUE]
    PROVE  /\ y \in HibernateObject /\ y.deleting = TRUE /\ y.phase = x.phase
           /\ y.exists = x.exists /\ y.finalizer = x.finalizer
           /\ y.committed = x.committed /\ y.retry = x.retry
  BY Zenon DEF HibernateObject

LEMMA FinalizerFields ==
    ASSUME NEW x \in HibernateObject, NEW y, y = [x EXCEPT !.finalizer = TRUE]
    PROVE  /\ y \in HibernateObject /\ y.finalizer = TRUE /\ y.phase = x.phase
           /\ y.exists = x.exists /\ y.deleting = x.deleting
           /\ y.committed = x.committed /\ y.retry = x.retry
  BY Zenon DEF HibernateObject

LEMMA RetryFields ==
    ASSUME NEW x \in HibernateObject, NEW y, y = [x EXCEPT !.retry = TRUE]
    PROVE  /\ y \in HibernateObject /\ y.retry = TRUE /\ y.phase = x.phase
           /\ y.exists = x.exists /\ y.finalizer = x.finalizer
           /\ y.committed = x.committed /\ y.deleting = x.deleting
  BY Zenon DEF HibernateObject

\* One operation is written.
LEMMA OpUpdate ==
    ASSUME TypeOK, NEW c \in Ops, NEW n \in HibernateObject, op' = [op EXCEPT ![c] = n]
    PROVE  /\ op' \in [Ops -> HibernateObject]
           /\ op'[c] = n /\ \A o \in Ops \ {c} : op'[o] = op[o]
  BY Zenon DEF TypeOK

LEMMA NewFields ==
    /\ NoHibernate \in HibernateObject /\ NewHibernate \in HibernateObject
    /\ NoHibernate.exists = FALSE /\ NoHibernate.finalizer = FALSE
    /\ NoHibernate.deleting = FALSE /\ NoHibernate.phase = ""
    /\ NoHibernate.committed = FALSE /\ NoHibernate.retry = FALSE
    /\ NewHibernate.exists = TRUE /\ NewHibernate.finalizer = FALSE
    /\ NewHibernate.deleting = FALSE /\ NewHibernate.phase = ""
    /\ NewHibernate.committed = FALSE /\ NewHibernate.retry = FALSE
  BY Zenon DEF NoHibernate, NewHibernate, HibernateObject, OperationPhases

\* The Tamoss pass moves on: its place, what it remembers, its artifacts.
TamossPlaces == {"driven", "created", "retention", "deleted", "unready", "workloads", "ready"}

\* The hibernate pass moves on.
HibernatePlaces == {"quiesce", "capture", "status", "failing", "unfinalize"}
-----------------------------------------------------------------------------
(* What leaves the parts of the invariant alone.                           *)

\* Operations depend on the Tamoss by its holder only.
LEMMA OperationFrame ==
    ASSUME \A o \in Ops : Operation(o),
           UNCHANGED <<op, backup, store, replicas, pods, cluster, acked>>,
           manifest \subseteq manifest',
           tam'.active = tam.active, tam'.phase = tam.phase, tam'.last = tam.last
    PROVE  \A o \in Ops : Operation(o)'
<1> SUFFICES ASSUME NEW o \in Ops PROVE Operation(o)'
  BY Zenon
<1>1. Capturing(o)' <=> Capturing(o)
  BY Zenon DEF Capturing, hibernationOperationTerminal
<1>2. Held(o)' <=> Held(o)
  BY Zenon DEF Held
<1>3. Quiet(o)'
  BY <1>1, <1>2, Zenon DEF Operation, Quiet
<1> QED
  BY <1>3, Zenon DEF Operation, hibernationOperationTerminal

\* A step that concerns one operation leaves the others alone.
LEMMA OneOperation ==
    ASSUME \A o \in Ops : Operation(o), NEW c \in Ops, Operation(c)',
           \A o \in Ops \ {c} : op'[o] = op[o] /\ backup'[o] = backup[o] /\ store'[o] = store[o],
           UNCHANGED <<replicas, pods, cluster, acked>>, manifest \subseteq manifest',
           tam'.active = tam.active, tam'.phase = tam.phase, tam'.last = tam.last
    PROVE  \A o \in Ops : Operation(o)'
<1> SUFFICES ASSUME NEW o \in Ops \ {c} PROVE Operation(o)'
  BY Zenon
<1>1. op'[o] = op[o] /\ backup'[o] = backup[o] /\ store'[o] = store[o]
  BY Zenon
<1>2. Capturing(o)' <=> Capturing(o)
  BY <1>1, Zenon DEF Capturing, hibernationOperationTerminal
<1>3. Held(o)' <=> Held(o)
  BY Zenon DEF Held
<1>4. Quiet(o)'
  BY <1>1, <1>2, <1>3, ZenonT(40) DEF Operation, Quiet
<1> QED
  BY <1>1, <1>4, ZenonT(40) DEF Operation, hibernationOperationTerminal

\* So does the database, unless the operation is what it is restored from.
LEMMA OneOperationKept ==
    ASSUME Database, NEW c \in Ops,
           UNCHANGED <<tam, store, manifest, replicas, pods, cluster, acked>>,
           \A o \in Ops \ {c} : op'[o] = op[o],
           tam.active = c /\ op[c].phase = "DeprovisioningSource" =>
              op'[c].phase = "DeprovisioningSource",
           tam.phase = "Hibernated" /\ tam.last = c
              /\ (op[c].exists => op[c].phase \in {"DeprovisioningSource", "Completed"})
              => (op'[c].exists => op'[c].phase \in {"DeprovisioningSource", "Completed"})
    PROVE  Database'
<1>1. \A o \in Ops : Restoring(o) => Restoring(o)'
  BY Zenon DEF Restoring
<1>2. \A o \in Ops : Kept(o) => Kept(o)'
  BY <1>1, Zenon DEF Kept
<1>3. (cluster # NoCluster /\ ~cluster.ready => cluster.source \in Ops /\ Restoring(cluster.source))'
  BY <1>1, Zenon DEF Database
<1> QED
  BY <1>2, <1>3, Zenon DEF Database

\* The database depends on the Tamoss by its holder and its restore.
LEMMA DatabaseFrame ==
    ASSUME Database,
           UNCHANGED <<op, store, manifest, replicas, pods, cluster, acked>>,
           tam'.active = tam.active, tam'.phase = tam.phase, tam'.last = tam.last,
           tam'.restore = tam.restore, tam'.resumed = tam.resumed,
           tam'.pending \subseteq tam.pending
    PROVE  Database'
<1>1. \A o \in Ops : Restoring(o) => Restoring(o)'
  BY Zenon DEF Restoring
<1>2. \A o \in Ops : Kept(o) => Kept(o)'
  BY <1>1, Zenon DEF Kept
<1>3. (cluster # NoCluster /\ ~cluster.ready => cluster.source \in Ops /\ Restoring(cluster.source))'
  BY <1>1, Zenon DEF Database
<1>4. (cluster = NoCluster \/ cluster.deleting => \E o \in Ops : Kept(o))'
  BY <1>2, Zenon DEF Database
<1> QED
  BY <1>3, <1>4, Zenon DEF Database

\* Between hibernations no operation captures, and a Cluster that is missing is
\* being restored.
LEMMA NothingCaptures ==
    ASSUME Holding, \A o \in Ops : Operation(o), Database,
           tam.phase \notin {"Hibernating", "Hibernated"}
    PROVE  /\ \A o \in Ops : ~Capturing(o) /\ op[o].phase # "DeprovisioningSource"
           /\ tam.active = NoRef
           /\ ~(cluster # NoCluster /\ cluster.deleting)
           /\ cluster = NoCluster => tam.phase = "Resuming" /\ \E o \in Ops : Restoring(o)
<1>1. tam.active = NoRef
  BY Zenon DEF Holding
<1>2. \A o \in Ops : ~Capturing(o)
  BY <1>1, OpsAssumption, Zenon DEF Operation, Quiet, Held
<1>3. \A o \in Ops : op[o].phase # "DeprovisioningSource"
  BY <1>2, NewFields, Zenon DEF Operation, Capturing, hibernationOperationTerminal
<1>4. cluster = NoCluster \/ cluster.deleting =>
         cluster = NoCluster /\ tam.phase = "Resuming" /\ \E o \in Ops : Restoring(o)
  BY <1>1, OpsAssumption, Zenon DEF Database, Kept
<1> QED
  BY <1>1, <1>2, <1>3, <1>4, Zenon

\* Then what happens to artifacts and workloads does not concern an operation.
LEMMA OperationGate ==
    ASSUME \A o \in Ops : Operation(o),
           \A o \in Ops : ~Capturing(o) /\ op[o].phase # "DeprovisioningSource",
           tam'.active = NoRef, UNCHANGED <<op, backup>>
    PROVE  \A o \in Ops : Operation(o)'
<1> SUFFICES ASSUME NEW o \in Ops PROVE Operation(o)'
  BY Zenon
<1>1. ~Capturing(o)'
  BY Zenon DEF Capturing, hibernationOperationTerminal
<1>2. tam'.active # o
  BY OpsAssumption, Zenon
<1> QED
  BY <1>1, <1>2, Zenon DEF Operation, Quiet, hibernationOperationTerminal

\* A hibernate pass is not disturbed by what leaves the status alone.
LEMMA HibernateFrame ==
    ASSUME HibernateMemory, UNCHANGED <<h, op, backup, replicas, pods>>,
           manifest \subseteq manifest', SameStatus(tam', tam)
    PROVE  HibernateMemory'
<1>1. h # Idle /\ h.pc = "status" => Reports(h.op)'
  BY Zenon DEF HibernateMemory, Reports, SameStatus
<1>2. h # Idle /\ h.pc \in {"quiesce", "capture"} => SameStatus(h.tmem, tam')
  BY Zenon DEF HibernateMemory, SameStatus
<1> QED
  BY <1>1, <1>2, Zenon DEF HibernateMemory, SameStatus, hibernationOperationTerminal

LEMMA TamossFrame ==
    ASSUME TamossMemory, UNCHANGED <<t, h>>, SameStatus(tam', tam)
    PROVE  TamossMemory'
  BY Zenon DEF TamossMemory, SameStatus, PastGate

LEMMA StatusFrame ==
    ASSUME Holding, SameStatus(tam', tam) PROVE Holding'
  BY Zenon DEF Holding, SameStatus

\* Everything but queues, caches and the switch stays.
LEMMA OuterFrame ==
    ASSUME Preserved, TypeOK',
           UNCHANGED <<op, backup, store, manifest, cluster, replicas, pods, dest, acked, t, h>>,
           SameStatus(tam', tam)
    PROVE  Preserved'
<1>1. /\ tam'.active = tam.active /\ tam'.phase = tam.phase /\ tam'.last = tam.last
      /\ tam'.restore = tam.restore /\ tam'.resumed = tam.resumed
      /\ tam'.pending \subseteq tam.pending
  BY Zenon DEF SameStatus
<1>2. \A o \in Ops : Operation(o)'
  BY <1>1, OperationFrame, Zenon DEF Preserved
<1>3. Database'
  BY <1>1, DatabaseFrame, Zenon DEF Preserved
<1>4. HibernateMemory' /\ TamossMemory' /\ Holding'
  BY HibernateFrame, TamossFrame, StatusFrame, Zenon DEF Preserved
<1> QED
  BY <1>2, <1>3, <1>4, Zenon DEF Preserved

LEMMA StatusReflexive == SameStatus(tam, tam)
  BY Zenon DEF SameStatus

\* A pass that ends, or stays before the gate, changing nothing.
LEMMA PassEnds ==
    ASSUME Preserved, TypeOK',
           UNCHANGED <<tam, op, backup, store, manifest, cluster, replicas, pods, dest, acked>>,
           TamossMemory', HibernateMemory'
    PROVE  Preserved'
<1>1. \A o \in Ops : Operation(o)'
  BY OperationFrame, Zenon DEF Preserved
<1>2. Database'
  BY DatabaseFrame, Zenon DEF Preserved
<1>3. Holding'
  BY Zenon DEF Preserved, Holding
<1> QED
  BY <1>1, <1>2, <1>3, Zenon DEF Preserved

-----------------------------------------------------------------------------
(* Steps of the informers, CNPG, the workloads and users.                  *)

LEMMA SyncStep ==
    ASSUME Preserved, SyncTamoss \/ \E o \in Ops : SyncOp(o)
    PROVE  Preserved'
<1>1. TypeOK'
  <2>1. CASE SyncTamoss
    BY <2>1, Zenon DEF Preserved, TypeOK, SyncTamoss, objects, hibernatePass, ghosts
  <2>2. ASSUME NEW o \in Ops, SyncOp(o) PROVE TypeOK'
    BY <2>2, Zenon DEF Preserved, TypeOK, SyncOp, objects, ghosts
  <2> QED
    BY <2>1, <2>2, Zenon
<1>2. UNCHANGED <<tam, op, backup, store, manifest, cluster, replicas, pods, dest, acked, t, h>>
  BY Zenon DEF SyncTamoss, SyncOp, objects, hibernatePass, ghosts
<1> QED
  BY <1>1, <1>2, OuterFrame, Zenon DEF SameStatus

LEMMA ToggleStep ==
    ASSUME Preserved, Enable \/ Disable
    PROVE  Preserved'
<1>1. PICK b \in BOOLEAN : tam' = [tam EXCEPT !.enabled = b]
  BY Zenon DEF Enable, Disable
<1>2. /\ UNCHANGED <<op, backup, store, manifest, cluster, gens, replicas, pods, dest, tamC, opC,
                     t, tdirty, h, hdirty, acked, faults>>
      /\ toggles' = toggles + 1
  BY Zenon DEF Enable, Disable, envFrame, caches, tamossPass, hibernatePass
<1>3. tam' \in TamossObject /\ SameStatus(tam', tam)
  BY <1>1, SetEnabled, Zenon DEF Preserved, TypeOK
<1>4. TypeOK'
  BY <1>2, <1>3 DEF Preserved, TypeOK
<1> QED
  BY <1>2, <1>3, <1>4, OuterFrame, Zenon

\* A ready destination of the right kind stays so.
LEMMA DestinationStep ==
    ASSUME Orderly, Preserved, DestinationChanges \/ DestinationRecovers
    PROVE  FALSE
  BY Zenon DEF Orderly, Preserved, DestinationChanges, DestinationRecovers

\* A restored database holds what the artifact holds.
LEMMA ClusterReadyStep ==
    ASSUME Preserved, ClusterBecomesReady
    PROVE  Preserved'
<1>1. /\ UNCHANGED <<tam, op, backup, store, manifest, gens, replicas, pods, dest, tamC, opC,
                     t, h, hdirty, acked, toggles, faults>>
      /\ tdirty' = TRUE
  BY Zenon DEF ClusterBecomesReady, caches, hibernatePass, ghosts
<1>2. cluster # NoCluster /\ cluster \in ClusterObject
  BY Zenon DEF ClusterBecomesReady, Preserved, TypeOK
<1>3. cluster.source \in Ops /\ store[cluster.source].data = acked
  BY <1>2, Zenon DEF ClusterBecomesReady, Preserved, Database, Restoring
<1>4. cluster.source # NoRef
  BY <1>3, OpsAssumption, Zenon
<1>5. cluster' = [[cluster EXCEPT !.ready = TRUE] EXCEPT !.data = acked]
  BY <1>2, <1>3, <1>4, Zenon DEF ClusterBecomesReady, ClusterObject
<1>6. /\ cluster' \in ClusterObject /\ cluster'.ready /\ cluster'.data = acked
      /\ cluster'.gen = cluster.gen /\ cluster'.deleting = FALSE
  BY <1>2, <1>5, Zenon DEF ClusterObject, ClusterBecomesReady, Preserved, TypeOK
<1>7. cluster' # NoCluster
  BY <1>6 DEF NoCluster
<1>8. TypeOK'
  BY <1>1, <1>6, Zenon DEF Preserved, TypeOK
<1>9. \A o \in Ops : Operation(o)'
  <2> SUFFICES ASSUME NEW o \in Ops PROVE Operation(o)'
    BY Zenon
  <2>1. Capturing(o)' <=> Capturing(o)
    BY <1>1, Zenon DEF Capturing, hibernationOperationTerminal
  <2>2. Held(o)' <=> Held(o)
    BY <1>1, Zenon DEF Held
  <2>3. Quiet(o)'
    BY <1>1, <1>2, <1>6, <2>1, <2>2, Zenon DEF Preserved, Operation, Quiet
  <2> QED
    BY <1>1, <2>3, Zenon DEF Preserved, Operation, hibernationOperationTerminal
<1>10. Database'
  BY <1>1, <1>2, <1>6, <1>7, Zenon DEF Preserved, Database
<1>11. HibernateMemory' /\ TamossMemory' /\ Holding'
  BY <1>1, HibernateFrame, TamossFrame, StatusFrame, StatusReflexive, Zenon DEF Preserved
<1> QED
  BY <1>1, <1>8, <1>9, <1>10, <1>11, Zenon DEF Preserved

LEMMA NoClusterFields ==
    /\ NoCluster \in ClusterObject /\ NoCluster.ready = FALSE /\ NoCluster.deleting = FALSE
    /\ NoCluster.gen = 0
  BY Zenon DEF NoCluster, ClusterObject, Refs

\* A Cluster that goes leaves the artifact of the operation that deleted it.
LEMMA ClusterGoneStep ==
    ASSUME Preserved, ClusterIsGone
    PROVE  Preserved'
<1>1. /\ UNCHANGED <<tam, op, backup, store, manifest, gens, replicas, pods, dest, tamC, opC,
                     t, h, hdirty, acked, toggles, faults>>
      /\ tdirty' = TRUE
  BY Zenon DEF ClusterIsGone, caches, hibernatePass, ghosts
<1>2. cluster # NoCluster /\ cluster.deleting /\ cluster' = NoCluster
  BY NoClusterFields, Zenon DEF ClusterIsGone
<1>3. TypeOK'
  BY <1>1, <1>2, NoClusterFields, Zenon DEF Preserved, TypeOK
<1>4. \A o \in Ops : Operation(o)'
  <2> SUFFICES ASSUME NEW o \in Ops PROVE Operation(o)'
    BY Zenon
  <2>1. Capturing(o)' <=> Capturing(o)
    BY <1>1, Zenon DEF Capturing, hibernationOperationTerminal
  <2>2. Held(o)' <=> Held(o)
    BY <1>1, Zenon DEF Held
  <2>3. Quiet(o)'
    BY <1>1, <1>2, <2>1, <2>2, Zenon DEF Preserved, Operation, Quiet
  <2> QED
    BY <1>1, <2>3, Zenon DEF Preserved, Operation, hibernationOperationTerminal
<1>5. PICK o \in Ops : Kept(o)
  BY <1>2, Zenon DEF Preserved, Database
<1>6. Kept(o)'
  BY <1>1, <1>2, <1>5, Zenon DEF Kept
<1>7. tam.phase # "Hibernated"
  BY <1>2, Zenon DEF Preserved, Database
<1>8. Database'
  BY <1>1, <1>2, <1>6, <1>7, NoClusterFields, Zenon DEF Database
<1>9. HibernateMemory' /\ TamossMemory' /\ Holding'
  BY <1>1, HibernateFrame, TamossFrame, StatusFrame, StatusReflexive, Zenon DEF Preserved
<1> QED
  BY <1>1, <1>3, <1>4, <1>8, <1>9, Zenon DEF Preserved

\* A Backup that completes captures a database that nothing writes to.
LEMMA BackupCompletesStep ==
    ASSUME Preserved, NEW b \in Ops, BackupCompletes(b)
    PROVE  Preserved'
<1>1. UNCHANGED <<tam, op, manifest, cluster, gens, replicas, pods, dest, tamC, opC,
                  t, tdirty, h, hdirty, acked, toggles, faults>>
  BY Zenon DEF BackupCompletes, caches, tamossPass, hibernatePass, ghosts
<1>2. /\ cluster # NoCluster /\ cluster.ready /\ ~cluster.deleting /\ cluster.data = acked
      /\ cluster \in ClusterObject /\ backup[b] = "running"
  BY NoClusterFields, Zenon DEF BackupCompletes, Preserved, Database, TypeOK
<1>3. backup' \in [Ops -> {"none", "running", "completed", "failed", "foreign"}]
  BY Zenon DEF BackupCompletes, Preserved, TypeOK
<1>4. [gen |-> cluster.gen, data |-> cluster.data] \in Capture
  BY <1>2, Zenon DEF ClusterObject, Capture
<1>5. store' \in [Ops -> Capture]
  BY <1>4, Zenon DEF BackupCompletes, Preserved, TypeOK
<1>6. TypeOK'
  BY <1>1, <1>3, <1>5, Zenon DEF Preserved, TypeOK
<1>7. /\ backup'[b] = "completed" /\ store'[b].gen = cluster.gen /\ store'[b].data = acked
      /\ \A o \in Ops \ {b} : backup'[o] = backup[o] /\ store'[o] = store[o]
  BY <1>2, Zenon DEF BackupCompletes, Preserved, TypeOK
<1>8. \A o \in Ops : Operation(o)'
  <2> SUFFICES ASSUME NEW o \in Ops PROVE Operation(o)'
    BY Zenon
  <2>1. Capturing(o)' <=> Capturing(o)
    BY <1>1, <1>2, <1>7, Zenon DEF Capturing, hibernationOperationTerminal
  <2>2. Held(o)' <=> Held(o)
    BY <1>1, Zenon DEF Held
  <2>3. Quiet(o)'
    BY <1>1, <1>7, <2>1, <2>2, Zenon DEF Preserved, Operation, Quiet
  <2> QED
    BY <1>1, <1>2, <1>7, <2>3, ZenonT(40) DEF Preserved, Operation, hibernationOperationTerminal
<1>9. Database'
  BY <1>1, <1>2, Zenon DEF Preserved, Database
<1>10. HibernateMemory'
  <2>1. h # Idle => h.op \in Ops
    BY Zenon DEF Preserved, TypeOK, HibernatePasses
  <2>2. h # Idle /\ h.pc = "status" => Reports(h.op)'
    BY <1>1, <1>2, <1>7, <2>1, Zenon DEF Preserved, HibernateMemory, Reports
  <2> QED
    BY <1>1, <2>2, Zenon DEF Preserved, HibernateMemory, SameStatus, hibernationOperationTerminal
<1>11. TamossMemory' /\ Holding'
  BY <1>1, TamossFrame, StatusFrame, StatusReflexive, Zenon DEF Preserved
<1> QED
  BY <1>1, <1>6, <1>8, <1>9, <1>10, <1>11, Zenon DEF Preserved

LEMMA BackupFailsStep ==
    ASSUME Preserved, NEW b \in Ops, BackupFails(b)
    PROVE  Preserved'
<1>1. /\ UNCHANGED <<tam, op, store, manifest, cluster, gens, replicas, pods, dest, tamC, opC,
                     t, tdirty, h, hdirty, acked, toggles>>
      /\ faults' \in Nat
  BY DEF BackupFails, caches, tamossPass, hibernatePass, Fault, Preserved, TypeOK
<1>2. backup' \in [Ops -> {"none", "running", "completed", "failed", "foreign"}]
  BY Zenon DEF BackupFails, Preserved, TypeOK
<1>3. TypeOK'
  BY <1>1, <1>2, Zenon DEF Preserved, TypeOK
<1>4. /\ backup[b] = "running" /\ backup'[b] = "failed"
      /\ \A o \in Ops \ {b} : backup'[o] = backup[o]
  BY Zenon DEF BackupFails, Preserved, TypeOK
<1>5. \A o \in Ops : Operation(o)'
  <2> SUFFICES ASSUME NEW o \in Ops PROVE Operation(o)'
    BY Zenon
  <2>1. Capturing(o)' => Capturing(o) /\ backup'[o] = backup[o]
    BY <1>1, <1>4, Zenon DEF Capturing, hibernationOperationTerminal
  <2>2. Held(o)' <=> Held(o)
    BY <1>1, Zenon DEF Held
  <2>3. Quiet(o)'
    BY <1>1, <2>1, <2>2, Zenon DEF Preserved, Operation, Quiet
  <2> QED
    BY <1>1, <1>4, <2>3, Zenon DEF Preserved, Operation, hibernationOperationTerminal
<1>6. Database'
  BY <1>1, DatabaseFrame, Zenon DEF Preserved
<1>7. HibernateMemory'
  <2>1. h # Idle => h.op \in Ops
    BY Zenon DEF Preserved, TypeOK, HibernatePasses
  <2>2. h # Idle /\ h.pc = "status" => Reports(h.op)'
    BY <1>1, <1>4, <2>1, Zenon DEF Preserved, HibernateMemory, Reports
  <2> QED
    BY <1>1, <2>2, Zenon DEF Preserved, HibernateMemory, SameStatus, hibernationOperationTerminal
<1>8. TamossMemory' /\ Holding'
  BY <1>1, TamossFrame, StatusFrame, StatusReflexive, Zenon DEF Preserved
<1> QED
  BY <1>1, <1>3, <1>5, <1>6, <1>7, <1>8, Zenon DEF Preserved

LEMMA PodsStep ==
    ASSUME Preserved, PodsFollow
    PROVE  Preserved'
<1>1. /\ UNCHANGED <<tam, op, backup, store, manifest, cluster, gens, replicas, dest, tamC, opC,
                     t, h, hdirty, acked, toggles, faults>>
      /\ tdirty' = TRUE /\ pods' = (replicas = 1)
  BY Zenon DEF PodsFollow, caches, hibernatePass, ghosts
<1>2. TypeOK'
  BY <1>1, Zenon DEF Preserved, TypeOK
<1>3. replicas = 0 => ~pods'
  <2>1. replicas = 0 => ~(replicas = 1)
    OBVIOUS
  <2> QED
    BY <1>1, <2>1, Zenon
<1>4. \A o \in Ops : Operation(o)'
  <2> SUFFICES ASSUME NEW o \in Ops PROVE Operation(o)'
    BY Zenon
  <2>1. Capturing(o)' <=> Capturing(o)
    BY <1>1, Zenon DEF Capturing, hibernationOperationTerminal
  <2>2. Held(o)' <=> Held(o)
    BY <1>1, Zenon DEF Held
  <2>3. Quiet(o)'
    BY <1>1, <1>3, <2>1, <2>2, Zenon DEF Preserved, Operation, Quiet
  <2> QED
    BY <1>1, <2>3, Zenon DEF Preserved, Operation, hibernationOperationTerminal
<1>5. Database'
  <2>1. \A o \in Ops : (Restoring(o) => Restoring(o)') /\ (Kept(o) => Kept(o)')
    BY <1>1, Zenon DEF Restoring, Kept
  <2> QED
    BY <1>1, <1>3, <2>1, Zenon DEF Preserved, Database, Restoring
<1>6. HibernateMemory'
  <2>1. h # Idle /\ h.pc = "status" => Reports(h.op)'
    BY <1>1, Zenon DEF Preserved, HibernateMemory, Reports
  <2> QED
    BY <1>1, <1>3, <2>1, Zenon DEF Preserved, HibernateMemory, SameStatus,
       hibernationOperationTerminal
<1>7. TamossMemory' /\ Holding'
  BY <1>1, TamossFrame, StatusFrame, StatusReflexive, Zenon DEF Preserved
<1> QED
  BY <1>1, <1>2, <1>4, <1>5, <1>6, <1>7, Zenon DEF Preserved

\* A write is acknowledged only while no operation captures.
LEMMA WriteStep ==
    ASSUME Preserved, Write
    PROVE  Preserved'
<1>1. /\ UNCHANGED <<tam, op, backup, store, manifest, gens, replicas, pods, dest, tamC, opC,
                     t, tdirty, h, hdirty, toggles, faults>>
      /\ acked' = acked + 1 /\ pods /\ cluster.ready /\ ~cluster.deleting
  BY Zenon DEF Write, caches, tamossPass, hibernatePass
<1>2. cluster \in ClusterObject /\ cluster.data = acked /\ acked \in Nat
  BY <1>1, Zenon DEF Preserved, TypeOK, Database
<1>3. cluster' = [cluster EXCEPT !.data = @ + 1]
  BY Zenon DEF Write
<1>4. /\ cluster' \in ClusterObject /\ cluster'.data = acked' /\ cluster'.ready
      /\ cluster'.deleting = FALSE
  BY <1>1, <1>2, <1>3 DEF ClusterObject
<1>5. TypeOK'
  BY <1>1, <1>2, <1>4 DEF Preserved, TypeOK
<1>6. \A o \in Ops : Operation(o)'
  <2> SUFFICES ASSUME NEW o \in Ops PROVE Operation(o)'
    BY Zenon
  <2>1. ~Capturing(o)
    BY <1>1, Zenon DEF Preserved, Operation, Quiet
  <2>2. ~Capturing(o)'
    BY <1>1, <2>1, Zenon DEF Capturing, hibernationOperationTerminal
  <2> QED
    BY <1>1, <2>2, Zenon DEF Preserved, Operation, Quiet, hibernationOperationTerminal
<1>7. Database'
  <2>1. cluster' # NoCluster /\ cluster # NoCluster
    BY <1>1, <1>4, NoClusterFields, Zenon
  <2>2. tam'.phase # "Hibernated"
    BY <1>1, <2>1, Zenon DEF Preserved, Database
  <2> QED
    BY <1>4, <2>1, <2>2, Zenon DEF Database
<1>8. HibernateMemory' /\ TamossMemory' /\ Holding'
  BY <1>1, HibernateFrame, TamossFrame, StatusFrame, StatusReflexive, Zenon DEF Preserved
<1> QED
  BY <1>1, <1>5, <1>6, <1>7, <1>8, Zenon DEF Preserved

\* A new operation has neither a Backup nor the lifecycle.
LEMMA CreateOpStep ==
    ASSUME Preserved, NEW c \in Ops, CreateOp(c)
    PROVE  Preserved'
<1>1. UNCHANGED <<tam, backup, store, manifest, cluster, gens, replicas, pods, dest, tamC, opC,
                  t, tdirty, h, hdirty, acked, toggles, faults>>
  BY Zenon DEF CreateOp, envFrame, caches, tamossPass, hibernatePass
<1>2. /\ op' \in [Ops -> HibernateObject]
      /\ ~op[c].exists /\ op'[c] = NewHibernate /\ \A o \in Ops \ {c} : op'[o] = op[o]
      /\ c \notin {tam.active, tam.last}
  BY NewFields, Zenon DEF CreateOp, Preserved, TypeOK
<1>3. TypeOK'
  BY <1>1, <1>2, Zenon DEF Preserved, TypeOK
<1>4. op[c] = NoHibernate /\ backup[c] \in {"none", "foreign"}
  BY <1>2, Zenon DEF Preserved, Operation
<1>5. \A o \in Ops : Operation(o)'
  <2>1. ~Capturing(c)'
    BY <1>1, <1>4, Zenon DEF Capturing
  <2>2. Operation(c)'
    BY <1>1, <1>2, <1>4, <2>1, NewFields, Zenon DEF Operation, Quiet
  <2> QED
    BY <1>1, <1>2, <2>2, OneOperation, Zenon DEF Preserved
<1>6. Database'
  BY <1>1, <1>2, <1>4, NewFields, OneOperationKept, Zenon DEF Preserved
<1>7. HibernateMemory'
  <2>1. h # Idle => h.op \in Ops /\ h.op # c
    BY <1>2, Zenon DEF Preserved, TypeOK, HibernatePasses, HibernateMemory
  <2>2. h # Idle => op'[h.op] = op[h.op]
    BY <1>2, <2>1, Zenon
  <2>3. h # Idle /\ h.pc = "status" => Reports(h.op)'
    BY <1>1, Zenon DEF Preserved, HibernateMemory, Reports
  <2> QED
    BY <1>1, <2>2, <2>3, Zenon DEF Preserved, HibernateMemory, SameStatus,
       hibernationOperationTerminal
<1>8. TamossMemory' /\ Holding'
  BY <1>1, TamossFrame, StatusFrame, StatusReflexive, Zenon DEF Preserved
<1> QED
  BY <1>1, <1>3, <1>5, <1>6, <1>7, <1>8, Zenon DEF Preserved

\* The retry annotation alone changes nothing.
LEMMA RetryOpStep ==
    ASSUME Preserved, NEW c \in Ops, RetryOp(c)
    PROVE  Preserved'
<1>1. /\ UNCHANGED <<tam, backup, store, manifest, cluster, gens, replicas, pods, dest, tamC, opC,
                     t, tdirty, h, hdirty, acked, toggles>>
      /\ faults' = faults + 1
  BY Zenon DEF RetryOp, Fault, envFrame, caches, tamossPass, hibernatePass
<1>2. op[c] \in HibernateObject
  BY Zenon DEF Preserved, TypeOK
<1> DEFINE n == [op[c] EXCEPT !.retry = TRUE]
<1>3. op' = [op EXCEPT ![c] = n]
  BY Zenon DEF RetryOp
<1>4. /\ n \in HibernateObject /\ n.exists = op[c].exists /\ n.phase = op[c].phase
      /\ n.finalizer = op[c].finalizer /\ n.deleting = op[c].deleting
      /\ n.committed = op[c].committed
  BY <1>2, RetryFields, Zenon
<1> HIDE DEF n
<1>5. /\ op' \in [Ops -> HibernateObject]
      /\ op'[c] = n /\ \A o \in Ops \ {c} : op'[o] = op[o]
  BY <1>3, <1>4, OpUpdate, Zenon DEF Preserved
<1>6. /\ op[c].exists
      /\ \A o \in Ops : /\ op'[o].exists = op[o].exists /\ op'[o].phase = op[o].phase
                        /\ op'[o].finalizer = op[o].finalizer /\ op'[o].deleting = op[o].deleting
                        /\ op'[o].committed = op[o].committed
  BY <1>4, <1>5, NewFields, Zenon DEF RetryOp, Preserved, Operation
<1>7. TypeOK'
  BY <1>1, <1>5 DEF Preserved, TypeOK
<1>8. \A o \in Ops : Operation(o)'
  <2>1. Quiet(c)'
    BY <1>1, <1>6, ZenonT(40) DEF Preserved, Operation, Quiet, Capturing, Held,
       hibernationOperationTerminal
  <2>2. Operation(c)'
    BY <1>1, <1>6, <2>1, ZenonT(40) DEF Preserved, Operation, hibernationOperationTerminal
  <2> QED
    BY <1>1, <1>5, <2>2, OneOperation, ZenonT(40) DEF Preserved
<1>9. Database'
  BY <1>1, <1>5, <1>6, OneOperationKept, ZenonT(40) DEF Preserved
<1>10. HibernateMemory'
  <2>1. h # Idle => h.op \in Ops
    BY Zenon DEF Preserved, TypeOK, HibernatePasses
  <2>2. h # Idle /\ h.pc = "status" => Reports(h.op)'
    BY <1>1, Zenon DEF Preserved, HibernateMemory, Reports
  <2> QED
    BY <1>1, <1>6, <2>1, <2>2, Zenon DEF Preserved, HibernateMemory, SameStatus,
       hibernationOperationTerminal
<1>11. TamossMemory' /\ Holding'
  BY <1>1, TamossFrame, StatusFrame, StatusReflexive, Zenon DEF Preserved
<1> QED
  BY <1>1, <1>7, <1>8, <1>9, <1>10, <1>11, Zenon DEF Preserved

\* The API server's deletion: what holds the lifecycle has a finalizer and is only marked.
LEMMA DeletedStep ==
    ASSUME Preserved, NEW c \in Ops, op[c].exists, Deleted(c),
           UNCHANGED <<tam, store, manifest, cluster, replicas, pods, acked>>
    PROVE  /\ op' \in [Ops -> HibernateObject]
           /\ backup' \in [Ops -> {"none", "running", "completed", "failed", "foreign"}]
           /\ \A o \in Ops : Operation(o)'
           /\ Database'
           /\ h' = h => HibernateMemory'
<1> DEFINE n == [op[c] EXCEPT !.deleting = TRUE]
<1>1. op[c] \in HibernateObject
  BY Zenon DEF Preserved, TypeOK
<1>2. /\ n \in HibernateObject /\ n.exists = op[c].exists /\ n.phase = op[c].phase
      /\ n.finalizer = op[c].finalizer /\ n.deleting = TRUE
      /\ n.committed = op[c].committed
  BY <1>1, DeletingFields, Zenon
<1>3. h # Idle => h.op \in Ops
  BY Zenon DEF Preserved, TypeOK, HibernatePasses
<1>4. CASE op[c].finalizer
  <2>1. op' = [op EXCEPT ![c] = n] /\ backup' = backup
    BY <1>4, Zenon DEF Deleted
  <2> HIDE DEF n
  <2>2. op' \in [Ops -> HibernateObject] /\ op'[c] = n /\ \A o \in Ops \ {c} : op'[o] = op[o]
    BY <1>2, <2>1, OpUpdate, Zenon DEF Preserved
  <2>3. Quiet(c)'
    BY <1>2, <2>1, <2>2, ZenonT(40) DEF Preserved, Operation, Quiet, Capturing, Held,
       hibernationOperationTerminal
  <2>4. Operation(c)'
    BY <1>2, <1>4, <2>1, <2>2, <2>3, Zenon DEF Preserved, Operation, hibernationOperationTerminal
  <2>5. \A o \in Ops : Operation(o)'
    BY <2>1, <2>2, <2>4, OneOperation, Zenon DEF Preserved
  <2>6. Database'
    BY <1>2, <2>2, OneOperationKept, Zenon DEF Preserved
  <2>7. ASSUME h' = h PROVE HibernateMemory'
    <3>1. h # Idle => /\ op'[h.op].exists = op[h.op].exists /\ op'[h.op].finalizer = op[h.op].finalizer
                      /\ op'[h.op].phase = op[h.op].phase /\ op'[h.op].committed = op[h.op].committed
                      /\ op[h.op].deleting => op'[h.op].deleting
      BY <1>2, <1>3, <2>2, Zenon
    <3>2. h # Idle /\ h.pc = "status" => Reports(h.op)'
      BY <2>1, <2>7, Zenon DEF Preserved, HibernateMemory, Reports
    <3> QED
      BY <2>7, <3>1, <3>2, Zenon DEF Preserved, HibernateMemory, SameStatus,
         hibernationOperationTerminal
  <2> QED
    BY <2>1, <2>2, <2>5, <2>6, <2>7, Zenon DEF Preserved, TypeOK
<1>5. CASE ~op[c].finalizer
  <2>1. /\ op' = [op EXCEPT ![c] = NoHibernate]
        /\ backup' = [backup EXCEPT ![c] = IF @ = "foreign" THEN @ ELSE "none"]
    BY <1>5, Zenon DEF Deleted
  <2>2. /\ op' \in [Ops -> HibernateObject]
        /\ op'[c] = NoHibernate /\ \A o \in Ops \ {c} : op'[o] = op[o]
    BY <2>1, OpUpdate, NewFields, Zenon DEF Preserved
  <2>3. /\ backup' \in [Ops -> {"none", "running", "completed", "failed", "foreign"}]
        /\ backup'[c] \in {"none", "foreign"} /\ \A o \in Ops \ {c} : backup'[o] = backup[o]
    BY <2>1, Zenon DEF Preserved, TypeOK
  <2>4. tam.active # c /\ op[c].phase = ""
    BY <1>5, Zenon DEF Preserved, Operation
  <2>5. ~Capturing(c)'
    BY <2>3, Zenon DEF Capturing
  <2>6. Operation(c)'
    BY <2>2, <2>3, <2>4, <2>5, NewFields, Zenon DEF Operation, Quiet
  <2>7. \A o \in Ops : Operation(o)'
    BY <2>2, <2>3, <2>6, OneOperation, Zenon DEF Preserved
  <2>8. Database'
    BY <2>2, <2>4, NewFields, OneOperationKept, Zenon DEF Preserved
  <2>9. ASSUME h' = h PROVE HibernateMemory'
    <3>1. h # Idle => h.op # c
      BY <1>5, Zenon DEF Preserved, HibernateMemory
    <3>2. h # Idle => op'[h.op] = op[h.op] /\ backup'[h.op] = backup[h.op]
      BY <1>3, <2>2, <2>3, <3>1, Zenon
    <3>3. h # Idle /\ h.pc = "status" => Reports(h.op)'
      BY <2>9, <3>2, Zenon DEF Preserved, HibernateMemory, Reports
    <3> QED
      BY <2>9, <3>2, <3>3, Zenon DEF Preserved, HibernateMemory, SameStatus,
         hibernationOperationTerminal
  <2> QED
    BY <2>2, <2>3, <2>7, <2>8, <2>9, Zenon
<1> QED
  BY <1>4, <1>5, Zenon

LEMMA DeleteOpStep ==
    ASSUME Preserved, NEW c \in Ops, DeleteOp(c)
    PROVE  Preserved'
<1>1. /\ UNCHANGED <<tam, store, manifest, cluster, gens, replicas, pods, dest, tamC, opC,
                     t, tdirty, h, hdirty, acked, toggles>>
      /\ faults' = faults + 1
      /\ op[c].exists /\ Deleted(c)
  BY Zenon DEF DeleteOp, Fault, envFrame, caches, tamossPass, hibernatePass
<1>2. /\ op' \in [Ops -> HibernateObject]
      /\ backup' \in [Ops -> {"none", "running", "completed", "failed", "foreign"}]
      /\ \A o \in Ops : Operation(o)'
      /\ Database' /\ HibernateMemory'
  BY <1>1, DeletedStep, Zenon
<1>3. TypeOK'
  BY <1>1, <1>2 DEF Preserved, TypeOK
<1>4. TamossMemory' /\ Holding'
  BY <1>1, TamossFrame, StatusFrame, StatusReflexive, Zenon DEF Preserved
<1> QED
  BY <1>1, <1>2, <1>3, <1>4, Zenon DEF Preserved

\* A restart only loses the passes.
LEMMA RestartStep ==
    ASSUME Preserved, Restart
    PROVE  Preserved'
<1>1. /\ UNCHANGED <<tam, op, backup, store, manifest, cluster, gens, replicas, pods, dest,
                     acked, toggles>>
      /\ faults' = faults + 1 /\ t' = Idle /\ h' = Idle /\ tdirty' = TRUE
      /\ hdirty' \subseteq Ops /\ tamC' = tam /\ opC' = op
  BY Zenon DEF Restart, Fault, objects
<1>2. TypeOK'
  BY <1>1 DEF Preserved, TypeOK
<1>3. TamossMemory' /\ HibernateMemory'
  BY <1>1, Zenon DEF TamossMemory, HibernateMemory
<1> QED
  BY <1>1, <1>2, <1>3, PassEnds, Zenon

-----------------------------------------------------------------------------
(* Steps of the TamossReconciler.                                          *)

\* When a Tamoss pass starts its caches are current and no hibernate pass runs.
LEMMA BeginsCurrent ==
    ASSUME Orderly, BeginTamoss
    PROVE  t = Idle /\ h = Idle /\ tamC = tam /\ opC = op
  BY Zenon DEF Orderly, BeginTamoss, TamossCachesCurrent

\* A step of a pass.
LEMMA InTamossPass ==
    ASSUME Preserved, t.pc \in TamossPlaces
    PROVE  t # Idle /\ t \in TamossPasses /\ h = Idle /\ t.mem \in TamossObject /\ SameStatus(t.mem, tam)
<1>1. t # Idle
  BY DEF Idle, TamossPlaces
<1> QED
  BY <1>1, Zenon DEF Preserved, TypeOK, TamossMemory, TamossPasses

\* Past the gate a step need only keep the database.
LEMMA GateStep ==
    ASSUME Preserved, TypeOK', h = Idle, UNCHANGED <<op, backup, dest, h>>,
           tam.phase \notin {"Hibernating", "Hibernated"},
           tam'.phase \notin {"Hibernating", "Hibernated"}, tam'.active = NoRef,
           TamossMemory', Database'
    PROVE  Preserved'
<1>1. \A o \in Ops : ~Capturing(o) /\ op[o].phase # "DeprovisioningSource"
  BY NothingCaptures, Zenon DEF Preserved
<1>2. \A o \in Ops : Operation(o)'
  BY <1>1, OperationGate, Zenon DEF Preserved
<1>3. Holding' /\ HibernateMemory'
  BY Zenon DEF Holding, HibernateMemory
<1> QED
  BY <1>2, <1>3, Zenon DEF Preserved

\* The gate lets a pass through only between hibernations.
LEMMA Gate ==
    ASSUME NEW x \in TamossObject, TypeOK, GateOrContinue(x), h = Idle, h' = h,
           tam' \in TamossObject, SameStatus(x, tam')
    PROVE  TamossMemory' /\ t' \in TamossPasses \cup {Idle} /\ tdirty' \in BOOLEAN
<1>1. CASE tamossLifecycleBlocksReconcile(x)
  <2>1. t' = Idle /\ tdirty' \in BOOLEAN
    BY <1>1, Zenon DEF GateOrContinue, ReturnTamoss, QueuedMeanwhile, TypeOK
  <2> QED
    BY <2>1, Zenon DEF TamossMemory
<1>2. CASE ~tamossLifecycleBlocksReconcile(x)
  <2> DEFINE s == x.pending \cup ({y \in {x.restore} : x.cleanup = "Pending"} \ {NoRef})
  <2>1. /\ t' = [pc |-> "retention", mem |-> x, item |-> NoRef, todo |-> s]
        /\ tdirty' \in BOOLEAN
    BY <1>2, Zenon DEF GateOrContinue, QueuedMeanwhile, TypeOK
  <2>2. s \in SUBSET Ops
    BY Zenon DEF TamossObject, Refs
  <2> HIDE DEF s
  <2>3. t' \in TamossPasses
    BY <2>1, <2>2, Zenon DEF TamossPasses, Refs
  <2>4. t'.pc = "retention" /\ t'.mem = x
    BY <2>1, Zenon
  <2>5. tam'.phase \notin {"Hibernating", "Hibernated"}
    BY <1>2, Zenon DEF tamossLifecycleBlocksReconcile, SameStatus
  <2>6. TamossMemory'
    BY <2>4, <2>5, Zenon DEF TamossMemory, PastGate
  <2> QED
    BY <2>1, <2>3, <2>6, Zenon
<1> QED
  BY <1>1, <1>2, Zenon

\* A resolved restore source.
LEMMA ResolvedFields ==
    ASSUME NEW x \in TamossObject, NEW o \in Ops, NEW y, y = Resolved(x, o)
    PROVE  /\ y \in TamossObject
           /\ y.phase = "Resuming" /\ y.active = NoRef /\ y.restore = o /\ y.resumed = FALSE
           /\ o \notin y.pending /\ y.enabled = x.enabled
<1> DEFINE keep(c) == IF x.restore \notin {NoRef, o} /\ x.resumed /\ x.cleanup = c
                      THEN {x.restore} ELSE {}
           p == (x.pending \ {o}) \cup keep("Pending")
           b == (x.blocked \ {o}) \cup keep("Blocked")
           z == setLifecycleOperationState(x, "Resuming", NoRef)
<1>1. p \in SUBSET Ops /\ b \in SUBSET Ops /\ o \notin p
  BY Zenon DEF TamossObject, Refs
<1>2. z \in TamossObject /\ z.phase = "Resuming" /\ z.active = NoRef /\ z.enabled = x.enabled
  <2>1. NoRef \in Refs /\ "Resuming" \in LifecyclePhases
    BY Zenon DEF Refs, LifecyclePhases
  <2> HIDE DEF z
  <2> QED
    BY <2>1, SetState DEF z
<1>3. y = [z EXCEPT !.restore = o, !.resumed = FALSE, !.cleanup = "Pending", !.pending = p, !.blocked = b]
  BY Zenon DEF Resolved
<1> HIDE DEF p, b, z
<1>4. y = [[[[[z EXCEPT !.restore = o] EXCEPT !.resumed = FALSE] EXCEPT !.cleanup = "Pending"]
             EXCEPT !.pending = p] EXCEPT !.blocked = b]
  BY <1>2, <1>3, Zenon DEF TamossObject
<1>5. o \in Refs
  BY Zenon DEF Refs
<1> DEFINE v == [[z EXCEPT !.restore = o] EXCEPT !.resumed = FALSE]
<1>6. /\ v \in TamossObject /\ v.phase = "Resuming" /\ v.active = NoRef
      /\ v.enabled = x.enabled /\ v.restore = o /\ v.resumed = FALSE
  BY <1>2, <1>5, Zenon DEF TamossObject
<1>7. y = [[[v EXCEPT !.cleanup = "Pending"] EXCEPT !.pending = p] EXCEPT !.blocked = b]
  BY <1>4, Zenon
<1> HIDE DEF v
<1> DEFINE w == [[v EXCEPT !.cleanup = "Pending"] EXCEPT !.pending = p]
<1>8. /\ w \in TamossObject /\ w.phase = "Resuming" /\ w.active = NoRef
      /\ w.enabled = x.enabled /\ w.restore = o /\ w.resumed = FALSE /\ w.pending = p
  BY <1>1, <1>6, Zenon DEF TamossObject
<1>9. y = [w EXCEPT !.blocked = b]
  BY <1>7, Zenon
<1> HIDE DEF w
<1> QED
  BY <1>1, <1>8, <1>9, Zenon DEF TamossObject

\* An instance without a database that wakes is Hibernated, and its artifact readable.
LEMMA WakingResolves ==
    ASSUME Preserved, Waking(tam), cluster = NoCluster, opC = op
    PROVE  /\ tam.phase = "Hibernated" /\ tam.last \in Ops /\ Kept(tam.last)
           /\ resolveResumeBootstrapSource(tam.last) # "failure"
<1>1. PICK o \in Ops : Kept(o)
  BY Zenon DEF Preserved, Database
<1>2. tam.active = NoRef
  BY Zenon DEF Waking, Preserved, Holding
<1>3. tam.phase = "Hibernated" /\ tam.last = o
  BY <1>1, <1>2, OpsAssumption, Zenon DEF Kept, Waking
<1>4. op[o].exists /\ hibernationOperationTerminal(op[o]) => op[o].phase = "Completed" /\ op[o].committed
  BY <1>1, <1>2, <1>3, OpsAssumption, Zenon DEF Kept, hibernationOperationTerminal, Preserved,
     Operation
<1>5. o \in manifest /\ dest = "ready"
  BY <1>1, Zenon DEF Kept, Preserved
<1>6. manifestRead(o) = "resolved"
  BY <1>5, Zenon DEF manifestRead
<1>7. resolveResumeBootstrapSource(o) \in {"waiting", "resolved"}
  BY <1>4, <1>5, <1>6, Zenon DEF resolveResumeBootstrapSource
<1> QED
  BY <1>1, <1>3, <1>7, Zenon

\* A pass that starts wakes the instance, passes the gate, or ends.
LEMMA TamossPassStep ==
    ASSUME Orderly, Preserved, TamossPass
    PROVE  Preserved'
<1>1. /\ UNCHANGED <<op, backup, store, manifest, cluster, gens, replicas, pods, dest, tamC, opC,
                     h, hdirty, acked, toggles, faults>>
      /\ h = Idle /\ opC = op /\ reconcileResumeBootstrap(tam)
  BY BeginsCurrent, Zenon DEF TamossPass, caches, hibernatePass, ghosts
<1>2. tam \in TamossObject /\ TypeOK
  BY Zenon DEF Preserved, TypeOK
<1>3. ASSUME GateOrContinue(tam), tam' = tam PROVE Preserved'
  <2>1. TamossMemory' /\ t' \in TamossPasses \cup {Idle} /\ tdirty' \in BOOLEAN
    BY <1>1, <1>2, <1>3, Gate, StatusReflexive, Zenon
  <2>2. TypeOK'
    BY <1>1, <1>3, <2>1, Zenon DEF Preserved, TypeOK
  <2>3. HibernateMemory'
    BY <1>1, Zenon DEF HibernateMemory
  <2> QED
    BY <1>1, <1>3, <2>1, <2>2, <2>3, PassEnds, Zenon
<1>4. ASSUME ReturnTamoss(TRUE), tam' = tam PROVE Preserved'
  <2>1. t' = Idle /\ tdirty' \in BOOLEAN
    BY <1>2, <1>4, Zenon DEF ReturnTamoss, QueuedMeanwhile, TypeOK
  <2>2. TypeOK'
    BY <1>1, <1>4, <2>1, Zenon DEF Preserved, TypeOK
  <2>3. HibernateMemory' /\ TamossMemory'
    BY <1>1, <2>1, Zenon DEF HibernateMemory, TamossMemory
  <2> QED
    BY <1>1, <1>4, <2>2, <2>3, PassEnds, Zenon
<1>5. ASSUME Waking(tam), cluster = NoCluster,
             resolveResumeBootstrapSource(tam.last) = "resolved",
             patchTamossLifecycleStatus(tam, Resolved(tam, tam.last), Resolved(tam, tam.last)),
             GateOrContinue(patched(tam, Resolved(tam, tam.last), Resolved(tam, tam.last)))
      PROVE  Preserved'
  <2>1. PICK o \in Ops : o = tam.last /\ tam.phase = "Hibernated" /\ Kept(o)
    BY <1>1, <1>5, WakingResolves, Zenon
  <2>2. PICK r \in TamossObject :
          /\ r = Resolved(tam, o)
          /\ r.phase = "Resuming" /\ r.active = NoRef /\ r.restore = o
          /\ r.resumed = FALSE /\ o \notin r.pending
    BY <1>2, ResolvedFields, Zenon
  <2>3. r # tam
    BY <2>1, <2>2, Zenon
  <2>4. tam' = r /\ GateOrContinue(r)
    BY <1>5, <2>1, <2>2, <2>3, Zenon DEF patchTamossLifecycleStatus, patched
  <2>5. TamossMemory' /\ t' \in TamossPasses \cup {Idle} /\ tdirty' \in BOOLEAN
    <3>1. SameStatus(r, tam')
      BY <2>4, Zenon DEF SameStatus
    <3> QED
      BY <1>1, <1>2, <2>2, <2>4, <3>1, Gate, Zenon
  <2>6. TypeOK'
    BY <1>1, <2>2, <2>4, <2>5, Zenon DEF Preserved, TypeOK
  <2>7. tam.active = NoRef
    BY <2>1, Zenon DEF Preserved, Holding
  <2>8. op[o].exists /\ op[o].phase \in {"Completed", "Failed"}
    BY <1>1, <1>5, <2>1, Zenon DEF resolveResumeBootstrapSource, hibernationOperationTerminal
  <2>9. \A q \in Ops : ~Capturing(q)
    <3> SUFFICES ASSUME NEW q \in Ops, Capturing(q) PROVE FALSE
      BY Zenon
    <3>1. q = o
      BY <2>1, <2>7, OpsAssumption, Zenon DEF Preserved, Operation, Quiet, Held
    <3> QED
      BY <2>8, <3>1, Zenon DEF Capturing, hibernationOperationTerminal
  <2>10. \A q \in Ops : op[q].phase # "DeprovisioningSource"
    BY <2>9, NewFields, Zenon DEF Preserved, Operation, Capturing, hibernationOperationTerminal
  <2>11. \A q \in Ops : Operation(q)'
    BY <1>1, <2>2, <2>4, <2>9, <2>10, OperationGate, Zenon DEF Preserved
  <2>12. Database'
    <3>1. Kept(o)'
      BY <1>1, <1>5, <2>1, <2>2, <2>4, Zenon DEF Kept, Restoring
    <3> QED
      BY <1>1, <1>5, <2>2, <2>4, <3>1, NoClusterFields, Zenon DEF Database
  <2>13. Holding' /\ HibernateMemory'
    BY <1>1, <2>2, <2>4, Zenon DEF Holding, HibernateMemory
  <2> QED
    BY <1>1, <2>5, <2>6, <2>11, <2>12, <2>13, Zenon DEF Preserved
<1>6. CASE ~(Waking(tam) /\ cluster = NoCluster)
  BY <1>1, <1>3, <1>6, Zenon DEF reconcileResumeBootstrap
<1>7. CASE Waking(tam) /\ cluster = NoCluster
  <2>1. resolveResumeBootstrapSource(tam.last) # "failure"
    BY <1>1, <1>7, WakingResolves, Zenon
  <2> QED
    BY <1>1, <1>4, <1>5, <1>7, <2>1, Zenon DEF reconcileResumeBootstrap
<1> QED
  BY <1>6, <1>7, Zenon

\* A pass that has started a cycle finds the lifecycle Running and nothing to wake.
LEMMA ContinueDrivenStep ==
    ASSUME Preserved, ContinueDriven
    PROVE  Preserved'
<1>1. /\ UNCHANGED <<op, backup, store, manifest, cluster, gens, replicas, pods, dest, tamC, opC,
                     h, hdirty, acked, toggles, faults>>
      /\ t.pc = "driven" /\ reconcileResumeBootstrap(t.mem)
  BY Zenon DEF ContinueDriven, caches, hibernatePass, ghosts
<1>2. /\ t # Idle /\ t \in TamossPasses /\ h = Idle
      /\ t.mem \in TamossObject /\ SameStatus(t.mem, tam)
  BY <1>1, InTamossPass, Zenon DEF TamossPlaces
<1>3. ~Waking(t.mem)
  BY <1>1, <1>2, Zenon DEF Preserved, TamossMemory, SameStatus, Waking
<1>4. GateOrContinue(t.mem) /\ tam' = tam
  BY <1>1, <1>3, Zenon DEF reconcileResumeBootstrap
<1>5. TypeOK /\ tam \in TamossObject
  BY Zenon DEF Preserved, TypeOK
<1>6. TamossMemory' /\ t' \in TamossPasses \cup {Idle} /\ tdirty' \in BOOLEAN
  <2>1. SameStatus(t.mem, tam') /\ tam' \in TamossObject
    BY <1>2, <1>4, <1>5, Zenon
  <2>2. PICK x \in TamossObject : GateOrContinue(x) /\ SameStatus(x, tam')
    BY <1>2, <1>4, <2>1, Zenon
  <2> QED
    BY <1>1, <1>2, <1>5, <2>1, <2>2, Gate, Zenon
<1>7. TypeOK'
  BY <1>1, <1>4, <1>6, Zenon DEF Preserved, TypeOK
<1>8. HibernateMemory'
  BY <1>1, <1>2, Zenon DEF HibernateMemory
<1> QED
  BY <1>1, <1>4, <1>6, <1>7, <1>8, PassEnds, Zenon

\* The next cycle's operation is new, or was created before a restart.
LEMMA EnsureCycleStep ==
    ASSUME Orderly, Preserved, ensureHibernationCycleOperation
    PROVE  Preserved'
<1>1. /\ UNCHANGED <<tam, backup, store, manifest, cluster, gens, replicas, pods, dest, tamC, opC,
                     h, hdirty, acked, toggles, faults>>
      /\ h = Idle /\ tam.phase = "Running" /\ tamC = tam /\ tdirty' = FALSE
  BY BeginsCurrent, Zenon DEF ensureHibernationCycleOperation, caches, hibernatePass, ghosts
<1>2. PICK c \in CycleOps :
        /\ op' = IF op[c].exists THEN op ELSE [op EXCEPT ![c] = NewHibernate]
        /\ t' = [pc |-> "created", mem |-> tam, todo |-> {}, item |-> c]
  BY <1>1, Zenon DEF ensureHibernationCycleOperation
<1>3. c \in Ops /\ c \in Refs /\ tam \in TamossObject
  BY Zenon DEF Ops, Refs, Preserved, TypeOK
<1>4. t' \in TamossPasses /\ t'.pc = "created" /\ t'.mem = tam /\ t'.item = c
  BY <1>2, <1>3, Zenon DEF TamossPasses
<1>5. TamossMemory'
  BY <1>1, <1>4, Zenon DEF TamossMemory, PastGate, SameStatus
<1>6. HibernateMemory'
  BY <1>1, Zenon DEF HibernateMemory
<1>7. CASE op[c].exists
  <2>1. op' = op
    BY <1>2, <1>7, Zenon
  <2>2. TypeOK'
    BY <1>1, <1>4, <2>1, Zenon DEF Preserved, TypeOK
  <2> QED
    BY <1>1, <1>5, <1>6, <2>1, <2>2, PassEnds, Zenon
<1>8. CASE ~op[c].exists
  <2>1. op' \in [Ops -> HibernateObject] /\ op'[c] = NewHibernate /\ \A o \in Ops \ {c} : op'[o] = op[o]
    BY <1>2, <1>3, <1>8, NewFields, OpUpdate, Zenon DEF Preserved
  <2>2. op[c] = NoHibernate /\ backup[c] \in {"none", "foreign"} /\ tam.active # c
    BY <1>3, <1>8, Zenon DEF Preserved, Operation
  <2>3. TypeOK'
    BY <1>1, <1>4, <2>1, Zenon DEF Preserved, TypeOK
  <2>4. ~Capturing(c)'
    BY <1>1, <2>2, Zenon DEF Capturing
  <2>5. Operation(c)'
    BY <1>1, <2>1, <2>2, <2>4, NewFields, Zenon DEF Operation, Quiet
  <2>6. \A o \in Ops : Operation(o)'
    BY <1>1, <1>3, <2>1, <2>5, OneOperation, Zenon DEF Preserved
  <2>7. Database'
    BY <1>1, <1>3, <2>1, <2>2, NewFields, OneOperationKept, Zenon DEF Preserved
  <2>8. Holding'
    BY <1>1, Zenon DEF Preserved, Holding
  <2> QED
    BY <1>1, <1>5, <1>6, <2>3, <2>6, <2>7, <2>8, Zenon DEF Preserved
<1> QED
  BY <1>7, <1>8, Zenon

\* What a lifecycle patch leaves in memory and in the API server, when the two
\* mutated copies agree up to the switch.
LEMMA PatchedAgrees ==
    ASSUME NEW mem, NEW new, NEW live, patchTamossLifecycleStatus(mem, new, live), SameStatus(mem, tam)
    PROVE  /\ SameStatus(patched(mem, new, live), tam')
           /\ new # mem => tam' = live /\ patched(mem, new, live) = live
           /\ new = mem => tam' = tam /\ patched(mem, new, live) = mem
<1>1. CASE new = mem
  BY <1>1, Zenon DEF patchTamossLifecycleStatus, patched
<1>2. CASE new # mem
  BY <1>2, Zenon DEF patchTamossLifecycleStatus, patched, SameStatus
<1> QED
  BY <1>1, <1>2, Zenon

LEMMA RecordCycleStep ==
    ASSUME Preserved, recordHibernationCycle
    PROVE  Preserved'
<1> DEFINE n == RecordedCycle(t.mem, t.item)
           l == RecordedCycle(tam, t.item)
           m == patched(t.mem, n, l)
<1>1. /\ UNCHANGED <<op, backup, store, manifest, cluster, gens, replicas, pods, dest, tamC, opC,
                     tdirty, h, hdirty, acked, toggles, faults>>
      /\ t.pc = "created" /\ patchTamossLifecycleStatus(t.mem, n, l)
      /\ t' = [t EXCEPT !.pc = "driven", !.mem = m, !.item = NoRef]
  BY Zenon DEF recordHibernationCycle, caches, hibernatePass, ghosts
<1>2. /\ t # Idle /\ t \in TamossPasses /\ h = Idle
      /\ t.mem \in TamossObject /\ SameStatus(t.mem, tam)
  BY <1>1, InTamossPass, Zenon DEF TamossPlaces
<1>3. t.item \in CycleOps /\ tam.phase = "Running" /\ tam \in TamossObject
  BY <1>1, <1>2, Zenon DEF Preserved, TypeOK, TamossMemory
<1>4. /\ l \in TamossObject
      /\ l.phase = tam.phase /\ l.active = tam.active /\ l.last = tam.last /\ SameArtifacts(l, tam)
  BY <1>3, SetCycle
<1> HIDE DEF n, l, m
<1>5. SameStatus(m, tam') /\ ((tam' = l /\ m = l) \/ (tam' = tam /\ m = t.mem))
  BY <1>1, <1>2, PatchedAgrees, ZenonT(40) DEF m
<1>6. m \in TamossObject /\ tam' \in TamossObject
  BY <1>2, <1>3, <1>4, <1>5, Zenon
<1>7. /\ tam'.phase = "Running" /\ tam'.active = tam.active /\ tam'.last = tam.last
      /\ tam'.restore = tam.restore /\ tam'.resumed = tam.resumed
      /\ tam'.pending \subseteq tam.pending
  BY <1>3, <1>4, <1>5, Zenon DEF SameArtifacts
<1>8. t' \in TamossPasses /\ t'.pc = "driven" /\ t'.mem = m
  <2>1. t' = [[[t EXCEPT !.pc = "driven"] EXCEPT !.mem = m] EXCEPT !.item = NoRef]
    BY <1>1, <1>2, Zenon DEF TamossPasses
  <2> QED
    BY <1>2, <1>6, <2>1, Zenon DEF TamossPasses, Refs
<1>9. TypeOK'
  BY <1>1, <1>6, <1>8, Zenon DEF Preserved, TypeOK
<1>10. TamossMemory' /\ HibernateMemory'
  BY <1>1, <1>2, <1>5, <1>7, <1>8, Zenon DEF TamossMemory, HibernateMemory, PastGate
<1>11. \A o \in Ops : Operation(o)'
  BY <1>1, <1>3, <1>7, OperationFrame, Zenon DEF Preserved
<1>12. Database'
  BY <1>1, <1>3, <1>7, DatabaseFrame, Zenon DEF Preserved
<1>13. Holding'
  BY <1>3, <1>7, Zenon DEF Preserved, Holding
<1> QED
  BY <1>1, <1>9, <1>10, <1>11, <1>12, <1>13, Zenon DEF Preserved

\* The operation that is aborted holds the lifecycle, so that it is only marked.
LEMMA AbortStep ==
    ASSUME Orderly, Preserved, abortSpecHibernation
    PROVE  Preserved'
<1>1. /\ UNCHANGED <<tam, store, manifest, cluster, gens, replicas, pods, dest, tamC, opC,
                     h, hdirty, acked, toggles, faults>>
      /\ h = Idle /\ tamC = tam /\ ReturnTamoss(FALSE)
  BY BeginsCurrent, Zenon DEF abortSpecHibernation, caches, hibernatePass, ghosts
<1>2. t' = Idle /\ tdirty' \in BOOLEAN
  BY <1>1, Zenon DEF ReturnTamoss, QueuedMeanwhile, Preserved, TypeOK
<1>3. TamossMemory' /\ HibernateMemory'
  BY <1>1, <1>2, Zenon DEF TamossMemory, HibernateMemory
<1>4. CASE UNCHANGED <<op, backup>>
  <2>1. TypeOK'
    BY <1>1, <1>2, <1>4, Zenon DEF Preserved, TypeOK
  <2> QED
    BY <1>1, <1>3, <1>4, <2>1, PassEnds, Zenon
<1>5. CASE tam.active \in CycleOps /\ op[tam.active].exists /\ Deleted(tam.active)
  <2>1. PICK c \in Ops : op[c].exists /\ Deleted(c)
    BY <1>5, Zenon DEF Ops
  <2>2. /\ op' \in [Ops -> HibernateObject]
        /\ backup' \in [Ops -> {"none", "running", "completed", "failed", "foreign"}]
        /\ \A o \in Ops : Operation(o)'
        /\ Database'
    BY <1>1, <2>1, DeletedStep, Zenon
  <2>3. TypeOK'
    BY <1>1, <1>2, <2>2, Zenon DEF Preserved, TypeOK
  <2>4. Holding'
    BY <1>1, Zenon DEF Preserved, Holding
  <2> QED
    BY <1>1, <1>3, <2>2, <2>3, <2>4, Zenon DEF Preserved
<1> QED
  BY <1>1, <1>4, <1>5, Zenon DEF abortSpecHibernation

\* The end of a restore.
ResumeOf(x) ==
    IF x.restore = NoRef THEN x
    ELSE IF x.phase = "Resuming"
         THEN [setLifecycleOperationState(x, "Running", NoRef) EXCEPT !.resumed = TRUE]
         ELSE [x EXCEPT !.resumed = TRUE]

LEMMA ResumeFields ==
    ASSUME NEW x \in TamossObject, x.restore # NoRef, x.active = NoRef,
           x.phase \notin {"Hibernating", "Hibernated"}, NEW y, y = ResumeOf(x)
    PROVE  /\ y \in TamossObject /\ y.resumed = TRUE /\ y.active = NoRef
           /\ y.phase \notin {"Hibernating", "Hibernated"}
<1>1. CASE x.phase = "Resuming"
  <2>1. NoRef \in Refs /\ "Running" \in LifecyclePhases
    BY Zenon DEF Refs, LifecyclePhases
  <2>2. PICK z \in TamossObject : z = setLifecycleOperationState(x, "Running", NoRef)
                                  /\ z.phase = "Running" /\ z.active = NoRef
    BY <2>1, SetState
  <2>3. y = [z EXCEPT !.resumed = TRUE]
    BY <1>1, <2>2, Zenon DEF ResumeOf
  <2> QED
    BY <2>2, <2>3, Zenon DEF TamossObject
<1>2. CASE x.phase # "Resuming"
  <2>1. y = [x EXCEPT !.resumed = TRUE]
    BY <1>2, Zenon DEF ResumeOf
  <2> QED
    BY <2>1, Zenon DEF TamossObject
<1> QED
  BY <1>1, <1>2, Zenon

\* A pass past the gate.
LEMMA InRetention ==
    ASSUME Preserved, t.pc \in {"retention", "deleted", "unready", "workloads", "ready"}
    PROVE  /\ t # Idle /\ t \in TamossPasses /\ h = Idle /\ t.mem \in TamossObject
           /\ SameStatus(t.mem, tam) /\ tam \in TamossObject
           /\ tam.phase \notin {"Hibernating", "Hibernated"} /\ tam.active = NoRef
           /\ ~(cluster # NoCluster /\ cluster.deleting)
           /\ cluster = NoCluster => tam.phase = "Resuming" /\ \E o \in Ops : Restoring(o)
<1>1. /\ t # Idle /\ t \in TamossPasses /\ h = Idle /\ t.mem \in TamossObject
      /\ SameStatus(t.mem, tam)
  BY InTamossPass, Zenon DEF TamossPlaces
<1>2. tam.phase \notin {"Hibernating", "Hibernated"} /\ tam \in TamossObject
  BY <1>1, Zenon DEF Preserved, TamossMemory, PastGate, TypeOK
<1> QED
  BY <1>1, <1>2, NothingCaptures, Zenon DEF Preserved

\* The end of a restore is recorded when the database is ready.
LEMMA RecordResumedStep ==
    ASSUME Preserved, NEW o \in Ops, recordResumed(o)
    PROVE  Preserved'
<1> DEFINE n == ResumeOf(t.mem)
           l == ResumeOf(tam)
           m == patched(t.mem, n, l)
<1>1. /\ UNCHANGED <<op, backup, store, manifest, cluster, gens, replicas, pods, dest, tamC, opC,
                     tdirty, h, hdirty, acked, toggles, faults>>
      /\ t.pc = "retention" /\ o = t.mem.restore /\ ~t.mem.resumed
  BY Zenon DEF recordResumed, NextArtifact, retentionFrame, caches, hibernatePass, ghosts
<1>2. /\ t # Idle /\ t \in TamossPasses /\ h = Idle /\ t.mem \in TamossObject
      /\ SameStatus(t.mem, tam) /\ tam \in TamossObject
      /\ tam.phase \notin {"Hibernating", "Hibernated"} /\ tam.active = NoRef
      /\ ~(cluster # NoCluster /\ cluster.deleting)
  BY <1>1, InRetention, Zenon
<1>3. t.todo \ {o} \in SUBSET Ops
  BY <1>2, Zenon DEF TamossPasses
<1>4. CASE cluster.ready
  <2>1. /\ patchTamossLifecycleStatus(t.mem, n, l)
        /\ t' = [t EXCEPT !.todo = @ \ {o}, !.mem = m]
    BY <1>4, Zenon DEF recordResumed, ResumeOf
  <2>2. t.mem.restore # NoRef /\ tam.restore # NoRef
    BY <1>1, <1>2, OpsAssumption, Zenon DEF SameStatus
  <2>3. n # t.mem
    <3>1. n.resumed = TRUE
      BY <1>2, <2>2, ResumeFields, Zenon DEF SameStatus
    <3> QED
      BY <1>1, <3>1, Zenon
  <2>4. /\ l \in TamossObject /\ l.active = NoRef
        /\ l.phase \notin {"Hibernating", "Hibernated"}
    BY <1>2, <2>2, ResumeFields, Zenon
  <2> HIDE DEF n, l, m
  <2>5. SameStatus(m, tam') /\ tam' = l /\ m = l
    BY <1>2, <2>1, <2>3, PatchedAgrees DEF m
  <2>6. t' \in TamossPasses /\ t'.pc = "retention" /\ t'.mem = m
    <3>1. t' = [[t EXCEPT !.todo = t.todo \ {o}] EXCEPT !.mem = m]
      BY <1>2, <2>1, Zenon DEF TamossPasses
    <3> QED
      BY <1>1, <1>2, <1>3, <2>4, <2>5, <3>1, Zenon DEF TamossPasses
  <2>7. TypeOK'
    BY <1>1, <2>4, <2>5, <2>6, Zenon DEF Preserved, TypeOK
  <2>8. TamossMemory'
    BY <1>1, <1>2, <2>4, <2>5, <2>6, Zenon DEF TamossMemory, PastGate
  <2>9. Database'
    BY <1>1, <1>2, <1>4, <2>4, <2>5, NoClusterFields, Zenon DEF Preserved, Database
  <2> QED
    BY <1>1, <1>2, <2>4, <2>5, <2>7, <2>8, <2>9, GateStep, Zenon
<1>5. CASE ~cluster.ready
  <2>1. t' = [t EXCEPT !.todo = t.todo \ {o}] /\ tam' = tam
    BY <1>5, Zenon DEF recordResumed
  <2>2. t' \in TamossPasses /\ t'.pc = "retention" /\ t'.mem = t.mem
    BY <1>1, <1>2, <1>3, <2>1, Zenon DEF TamossPasses
  <2>3. TypeOK'
    BY <1>1, <2>1, <2>2, Zenon DEF Preserved, TypeOK
  <2>4. TamossMemory' /\ HibernateMemory'
    BY <1>1, <1>2, <2>1, <2>2, Zenon DEF TamossMemory, HibernateMemory, PastGate
  <2> QED
    BY <1>1, <2>1, <2>3, <2>4, PassEnds, Zenon
<1> QED
  BY <1>4, <1>5, Zenon

\* recordArtifactCleanup changes only what is still to clean up.
LEMMA CleanupFields ==
    ASSUME NEW x \in TamossObject, NEW o \in Ops, NEW c \in {"Finished", "Blocked"},
           NEW y, y = RecordedCleanup(x, o, c)
    PROVE  /\ y \in TamossObject
           /\ y.phase = x.phase /\ y.active = x.active /\ y.last = x.last
           /\ y.restore = x.restore /\ y.resumed = x.resumed /\ y.pending \subseteq x.pending
<1>1. CASE x.restore = o
  <2>1. y = [x EXCEPT !.cleanup = c]
    BY <1>1, Zenon DEF RecordedCleanup
  <2> QED
    BY <2>1, Zenon DEF TamossObject
<1>2. CASE x.restore # o /\ o \in x.pending
  <2> DEFINE p == x.pending \ {o}
             b == IF c = "Blocked" THEN x.blocked \cup {o} ELSE x.blocked
  <2>1. y = [x EXCEPT !.pending = p, !.blocked = b]
    BY <1>2, Zenon DEF RecordedCleanup
  <2>2. p \in SUBSET Ops /\ b \in SUBSET Ops /\ p \subseteq x.pending
    BY Zenon DEF TamossObject
  <2> HIDE DEF p, b
  <2>3. y = [[x EXCEPT !.pending = p] EXCEPT !.blocked = b]
    BY <2>1, Zenon DEF TamossObject
  <2> QED
    BY <2>2, <2>3, Zenon DEF TamossObject
<1>3. CASE x.restore # o /\ o \notin x.pending
  BY <1>3, Zenon DEF RecordedCleanup
<1> QED
  BY <1>1, <1>2, <1>3, Zenon

LEMMA RecordCleanupStep ==
    ASSUME Preserved, NEW o \in Ops, recordArtifactCleanup(o)
    PROVE  Preserved'
<1>1. /\ UNCHANGED <<op, backup, store, manifest, cluster, gens, replicas, pods, dest, tamC, opC,
                     tdirty, h, hdirty, acked, toggles, faults>>
      /\ t.pc \in {"retention", "deleted"}
  BY Zenon DEF recordArtifactCleanup, NextArtifact, retentionFrame, caches, hibernatePass, ghosts
<1>2. /\ t # Idle /\ t \in TamossPasses /\ h = Idle /\ t.mem \in TamossObject
      /\ SameStatus(t.mem, tam) /\ tam \in TamossObject
      /\ tam.phase \notin {"Hibernating", "Hibernated"} /\ tam.active = NoRef
  BY <1>1, InRetention, Zenon
<1>3. PICK c \in {"Finished", "Blocked"} :
        LET n == RecordedCleanup(t.mem, o, c)
            l == RecordedCleanup(tam, o, c)
        IN  /\ patchTamossLifecycleStatus(t.mem, n, l)
            /\ t' = [t EXCEPT !.pc = "retention", !.item = NoRef, !.todo = @ \ {o},
                              !.mem = patched(t.mem, n, l)]
  BY Zenon DEF recordArtifactCleanup
<1> DEFINE n == RecordedCleanup(t.mem, o, c)
           l == RecordedCleanup(tam, o, c)
           m == patched(t.mem, n, l)
<1>4. /\ l \in TamossObject
      /\ l.phase = tam.phase /\ l.active = tam.active /\ l.last = tam.last
      /\ l.restore = tam.restore /\ l.resumed = tam.resumed /\ l.pending \subseteq tam.pending
  BY <1>2, CleanupFields, Zenon
<1>5. /\ patchTamossLifecycleStatus(t.mem, n, l)
      /\ t' = [t EXCEPT !.pc = "retention", !.item = NoRef, !.todo = @ \ {o}, !.mem = m]
  BY <1>3, Zenon
<1> HIDE DEF n, l, m
<1>6. SameStatus(m, tam') /\ ((tam' = l /\ m = l) \/ (tam' = tam /\ m = t.mem))
  BY <1>2, <1>5, PatchedAgrees DEF m
<1>7. m \in TamossObject /\ tam' \in TamossObject
  BY <1>2, <1>4, <1>6, Zenon
<1>8. /\ tam'.phase = tam.phase /\ tam'.active = tam.active /\ tam'.last = tam.last
      /\ tam'.restore = tam.restore /\ tam'.resumed = tam.resumed
      /\ tam'.pending \subseteq tam.pending
  BY <1>4, <1>6, Zenon
<1>9. t' \in TamossPasses /\ t'.pc = "retention" /\ t'.mem = m
  <2>1. t.todo \ {o} \in SUBSET Ops /\ NoRef \in Refs
    BY <1>2, Zenon DEF TamossPasses, Refs
  <2>2. t' = [[[[t EXCEPT !.pc = "retention"] EXCEPT !.item = NoRef] EXCEPT !.todo = t.todo \ {o}]
              EXCEPT !.mem = m]
    BY <1>2, <1>5, Zenon DEF TamossPasses
  <2> DEFINE u == [[t EXCEPT !.pc = "retention"] EXCEPT !.item = NoRef]
  <2>3. u \in TamossPasses /\ u.pc = "retention"
    BY <1>2, <2>1, Zenon DEF TamossPasses
  <2>4. t' = [[u EXCEPT !.todo = t.todo \ {o}] EXCEPT !.mem = m]
    BY <2>2, Zenon
  <2> HIDE DEF u
  <2> QED
    BY <1>7, <2>1, <2>3, <2>4, Zenon DEF TamossPasses
<1>10. TypeOK'
  BY <1>1, <1>7, <1>9, Zenon DEF Preserved, TypeOK
<1>11. TamossMemory'
  BY <1>1, <1>2, <1>6, <1>8, <1>9, Zenon DEF TamossMemory, PastGate
<1>12. Database'
  BY <1>1, <1>8, DatabaseFrame, Zenon DEF Preserved
<1> QED
  BY <1>1, <1>2, <1>8, <1>10, <1>11, <1>12, GateStep, Zenon

\* Steps of a pass that leave everything but the pass alone.
LEMMA DeferStep ==
    ASSUME Preserved, NEW o \in Ops, DeferCleanup(o)
    PROVE  Preserved'
<1>1. /\ UNCHANGED <<tam, op, backup, store, manifest, cluster, gens, replicas, pods, dest, tamC,
                     opC, tdirty, h, hdirty, acked, toggles, faults>>
      /\ t.pc = "retention" /\ t' = [t EXCEPT !.todo = t.todo \ {o}]
  BY Zenon DEF DeferCleanup, NextArtifact, retentionFrame, caches, hibernatePass, ghosts
<1>2. /\ t # Idle /\ t \in TamossPasses /\ h = Idle /\ SameStatus(t.mem, tam)
      /\ tam.phase \notin {"Hibernating", "Hibernated"}
  BY <1>1, InRetention, Zenon
<1>3. t' \in TamossPasses /\ t'.pc = "retention" /\ t'.mem = t.mem
  <2>1. t.todo \ {o} \in SUBSET Ops
    BY <1>2, Zenon DEF TamossPasses
  <2> QED
    BY <1>1, <1>2, <2>1, Zenon DEF TamossPasses
<1>4. TypeOK'
  BY <1>1, <1>3, Zenon DEF Preserved, TypeOK
<1>5. TamossMemory' /\ HibernateMemory'
  BY <1>1, <1>2, <1>3, Zenon DEF TamossMemory, HibernateMemory, PastGate
<1> QED
  BY <1>1, <1>4, <1>5, PassEnds, Zenon

LEMMA TamossConflictStep ==
    ASSUME Preserved, TamossConflict
    PROVE  Preserved'
<1>1. /\ UNCHANGED <<tam, op, backup, store, manifest, cluster, gens, replicas, pods, dest, tamC,
                     opC, h, hdirty, acked, toggles, faults>>
      /\ t # Idle /\ ReturnTamoss(TRUE)
  BY Zenon DEF TamossConflict, objects, caches, hibernatePass, ghosts
<1>2. t' = Idle /\ tdirty' \in BOOLEAN
  BY <1>1, Zenon DEF ReturnTamoss, QueuedMeanwhile, Preserved, TypeOK
<1>3. TypeOK'
  BY <1>1, <1>2, Zenon DEF Preserved, TypeOK
<1>4. TamossMemory' /\ HibernateMemory'
  BY <1>1, <1>2, Zenon DEF Preserved, TamossMemory, HibernateMemory
<1> QED
  BY <1>1, <1>3, <1>4, PassEnds, Zenon

\* The artifact that retention deletes is not the one being restored.
LEMMA DeleteArtifactStep ==
    ASSUME Preserved, NEW o \in Ops, deleteResumeArtifact(o)
    PROVE  Preserved'
<1>1. /\ UNCHANGED <<tam, op, backup, cluster, gens, replicas, pods, dest, tamC, opC,
                     tdirty, h, hdirty, acked, toggles, faults>>
      /\ t.pc = "retention" /\ Resumed(o)
      /\ manifest' = manifest \ {o} /\ store' = [store EXCEPT ![o] = NoCapture]
      /\ t' = [t EXCEPT !.pc = "deleted", !.item = o]
  BY Zenon DEF deleteResumeArtifact, NextArtifact, caches, hibernatePass, ghosts
<1>2. /\ t # Idle /\ t \in TamossPasses /\ h = Idle /\ SameStatus(t.mem, tam)
      /\ tam.phase \notin {"Hibernating", "Hibernated"} /\ tam.active = NoRef
      /\ ~(cluster # NoCluster /\ cluster.deleting)
      /\ cluster = NoCluster => tam.phase = "Resuming" /\ \E s \in Ops : Restoring(s)
  BY <1>1, InRetention, Zenon
<1>3. t' \in TamossPasses /\ t'.pc = "deleted" /\ t'.mem = t.mem
  <2>1. t' = [[t EXCEPT !.pc = "deleted"] EXCEPT !.item = o]
    BY <1>1, <1>2, Zenon DEF TamossPasses
  <2> QED
    BY <1>2, <2>1, Zenon DEF TamossPasses, Refs
<1>4. store' \in [Ops -> Capture] /\ \A s \in Ops \ {o} : store'[s] = store[s]
  BY <1>1, Zenon DEF Preserved, TypeOK, NoCapture, Capture
<1>5. TypeOK'
  BY <1>1, <1>3, <1>4, Zenon DEF Preserved, TypeOK
<1>6. TamossMemory'
  BY <1>1, <1>2, <1>3, Zenon DEF TamossMemory, PastGate
<1>7. \A s \in Ops : Restoring(s) => Restoring(s)'
  <2> SUFFICES ASSUME NEW s \in Ops, Restoring(s) PROVE Restoring(s)'
    BY Zenon
  <2>1. s # o
    BY <1>1, <1>2, Zenon DEF Restoring, Resumed, SameStatus
  <2> QED
    BY <1>1, <1>4, <2>1, Zenon DEF Restoring
<1>8. Database'
  <2>1. cluster = NoCluster => \E s \in Ops : Kept(s)'
    <3> SUFFICES ASSUME cluster = NoCluster PROVE \E s \in Ops : Kept(s)'
      BY Zenon
    <3>1. PICK s \in Ops : Restoring(s)
      BY <1>2, Zenon
    <3>2. Restoring(s)' /\ tam'.phase = "Resuming" /\ cluster' = NoCluster
      BY <1>1, <1>2, <1>7, <3>1, Zenon
    <3>3. Kept(s)'
      BY <3>2, Zenon DEF Kept, Restoring
    <3> QED
      BY <3>3, Zenon
  <2>2. cluster # NoCluster /\ ~cluster.ready => cluster.source \in Ops /\ Restoring(cluster.source)
    BY Zenon DEF Preserved, Database
  <2>3. (cluster # NoCluster /\ ~cluster.ready => cluster.source \in Ops /\ Restoring(cluster.source))'
    BY <1>1, <1>7, <2>2, Zenon
  <2> QED
    BY <1>1, <1>2, <2>1, <2>3, Zenon DEF Preserved, Database
<1> QED
  BY <1>1, <1>2, <1>5, <1>6, <1>8, GateStep, Zenon

\* A missing Cluster is created from the artifact being restored.
LEMMA ReconcileCNPGStep ==
    ASSUME Preserved, reconcileCNPG
    PROVE  Preserved'
<1>1. /\ UNCHANGED <<tam, op, backup, store, manifest, replicas, pods, dest, tamC, opC,
                     tdirty, h, hdirty, acked, toggles, faults>>
      /\ t.pc = "retention"
      /\ t' = [t EXCEPT !.pc = IF cluster.ready THEN "workloads" ELSE "unready"]
  BY Zenon DEF reconcileCNPG, caches, hibernatePass, ghosts
<1>2. /\ t # Idle /\ t \in TamossPasses /\ h = Idle /\ SameStatus(t.mem, tam)
      /\ tam.phase \notin {"Hibernating", "Hibernated"} /\ tam.active = NoRef
      /\ cluster = NoCluster => tam.phase = "Resuming" /\ \E s \in Ops : Restoring(s)
  BY <1>1, InRetention, Zenon
<1>3. t' \in TamossPasses /\ t'.pc \in {"workloads", "unready"} /\ t'.mem = t.mem
  BY <1>1, <1>2, Zenon DEF TamossPasses
<1>4. TamossMemory'
  BY <1>1, <1>2, <1>3, Zenon DEF TamossMemory, PastGate
<1>5. CASE cluster # NoCluster
  <2>1. cluster' = cluster /\ gens' = gens
    BY <1>5, Zenon DEF reconcileCNPG
  <2>2. TypeOK'
    BY <1>1, <1>3, <2>1, Zenon DEF Preserved, TypeOK
  <2>3. Database'
    BY <1>1, <2>1, DatabaseFrame, Zenon DEF Preserved
  <2> QED
    BY <1>1, <1>2, <1>4, <2>2, <2>3, GateStep, Zenon
<1>6. CASE cluster = NoCluster
  <2>1. PICK s \in Ops : Restoring(s)
    BY <1>2, <1>6, Zenon
  <2>2. /\ cluster' = [gen |-> gens + 1, ready |-> FALSE, deleting |-> FALSE, source |-> s, data |-> 0]
        /\ gens' = gens + 1
    BY <1>2, <1>6, <2>1, Zenon DEF reconcileCNPG, Restoring, SameStatus
  <2>3. gens \in Nat /\ s \in Refs
    BY Zenon DEF Preserved, TypeOK, Refs
  <2>4. /\ cluster' \in ClusterObject /\ ~cluster'.ready /\ ~cluster'.deleting
        /\ cluster'.source = s /\ cluster'.gen = gens + 1
    BY <2>2, <2>3 DEF ClusterObject
  <2>5. cluster' # NoCluster
    BY <2>3, <2>4, NoClusterFields
  <2>6. TypeOK'
    BY <1>1, <1>3, <2>2, <2>3, <2>4 DEF Preserved, TypeOK
  <2>7. Restoring(s)'
    BY <1>1, <2>1, Zenon DEF Restoring
  <2>8. (cluster # NoCluster /\ ~cluster.ready => cluster.source \in Ops /\ Restoring(cluster.source))'
    BY <2>4, <2>7, Zenon
  <2>9. Database'
    BY <1>1, <1>2, <2>4, <2>5, <2>8, Zenon DEF Database
  <2> QED
    BY <1>1, <1>2, <1>4, <2>6, <2>9, GateStep, Zenon
<1> QED
  BY <1>5, <1>6, Zenon

LEMMA ApplyStep ==
    ASSUME Preserved, applyTamossDesiredObjects
    PROVE  Preserved'
<1>1. /\ UNCHANGED <<tam, op, backup, store, manifest, cluster, gens, pods, dest, tamC, opC,
                     tdirty, h, hdirty, acked, toggles, faults>>
      /\ t.pc = "workloads" /\ replicas' = 1 /\ t' = [t EXCEPT !.pc = "ready"]
  BY Zenon DEF applyTamossDesiredObjects, caches, hibernatePass, ghosts
<1>2. /\ t # Idle /\ t \in TamossPasses /\ h = Idle /\ SameStatus(t.mem, tam)
      /\ tam.phase \notin {"Hibernating", "Hibernated"} /\ tam.active = NoRef
  BY <1>1, InRetention, Zenon
<1>3. t' \in TamossPasses /\ t'.pc = "ready" /\ t'.mem = t.mem
  BY <1>1, <1>2, Zenon DEF TamossPasses
<1>4. TypeOK'
  BY <1>1, <1>3, Zenon DEF Preserved, TypeOK
<1>5. TamossMemory'
  BY <1>1, <1>2, <1>3, Zenon DEF TamossMemory, PastGate
<1>6. Database'
  <2>1. \A s \in Ops : (Restoring(s) => Restoring(s)') /\ (Kept(s) => Kept(s)')
    BY <1>1, Zenon DEF Restoring, Kept
  <2>2. cluster # NoCluster /\ ~cluster.ready => cluster.source \in Ops /\ Restoring(cluster.source)
    BY Zenon DEF Preserved, Database
  <2>3. (cluster # NoCluster /\ ~cluster.ready => cluster.source \in Ops /\ Restoring(cluster.source))'
    BY <1>1, <2>1, <2>2, Zenon
  <2> QED
    BY <1>1, <1>2, <2>1, <2>3, Zenon DEF Preserved, Database
<1> QED
  BY <1>1, <1>2, <1>4, <1>5, <1>6, GateStep, Zenon

\* The status of a finished pass: a restore under way stays Resuming.
LEMMA PatchStatusStep ==
    ASSUME Preserved, patchTamossStatus
    PROVE  Preserved'
<1>1. /\ UNCHANGED <<op, backup, store, manifest, cluster, gens, replicas, pods, dest, tamC, opC,
                     h, hdirty, acked, toggles, faults>>
      /\ t.pc \in {"unready", "ready"} /\ ReturnTamoss(TRUE)
  BY Zenon DEF patchTamossStatus, caches, hibernatePass, ghosts
<1>2. /\ h = Idle /\ tam \in TamossObject
      /\ tam.phase \notin {"Hibernating", "Hibernated"} /\ tam.active = NoRef
      /\ ~(cluster # NoCluster /\ cluster.deleting)
      /\ cluster = NoCluster => tam.phase = "Resuming" /\ \E s \in Ops : Restoring(s)
  BY <1>1, InRetention, Zenon
<1>3. t' = Idle /\ tdirty' \in BOOLEAN
  BY <1>1, Zenon DEF ReturnTamoss, QueuedMeanwhile, Preserved, TypeOK
<1>4. TamossMemory' /\ HibernateMemory'
  BY <1>1, <1>2, <1>3, Zenon DEF TamossMemory, HibernateMemory
<1>5. CASE t.mem # tam
  <2>1. tam' = tam
    BY <1>5, Zenon DEF patchTamossStatus
  <2>2. TypeOK'
    BY <1>1, <1>3, <2>1, Zenon DEF Preserved, TypeOK
  <2> QED
    BY <1>1, <1>4, <2>1, <2>2, PassEnds, Zenon
<1>6. CASE t.mem = tam
  <2> DEFINE p == IF tam.active = NoRef /\ ~tam.enabled /\ ~lifecycleRestoreInProgress(tam)
                  THEN "Running" ELSE tam.phase
  <2>1. PICK b \in BOOLEAN : tam' = [tam EXCEPT !.schema = b, !.phase = p]
    BY <1>6, Zenon DEF patchTamossStatus, applyTamossStatusObservation
  <2>2. p \in LifecyclePhases /\ p \notin {"Hibernating", "Hibernated"}
    BY <1>2, Zenon DEF TamossObject, LifecyclePhases
  <2>3. lifecycleRestoreInProgress(tam) => p = tam.phase
    BY Zenon
  <2> HIDE DEF p
  <2>4. tam' = [[tam EXCEPT !.schema = b] EXCEPT !.phase = p]
    BY <1>2, <2>1, Zenon DEF TamossObject
  <2>5. /\ tam' \in TamossObject /\ tam'.phase = p /\ tam'.active = NoRef
        /\ tam'.restore = tam.restore /\ tam'.resumed = tam.resumed /\ tam'.pending = tam.pending
    BY <1>2, <2>2, <2>4, Zenon DEF TamossObject
  <2>6. TypeOK'
    BY <1>1, <1>3, <2>5, Zenon DEF Preserved, TypeOK
  <2>7. \A s \in Ops : Restoring(s) => Restoring(s)'
    BY <1>1, <2>5, Zenon DEF Restoring
  <2>8. cluster = NoCluster => \E s \in Ops : Kept(s)'
    <3> SUFFICES ASSUME cluster = NoCluster PROVE \E s \in Ops : Kept(s)'
      BY Zenon
    <3>1. PICK s \in Ops : Restoring(s)
      BY <1>2, Zenon
    <3>2. lifecycleRestoreInProgress(tam)
      BY <1>2, <3>1, OpsAssumption, Zenon DEF lifecycleRestoreInProgress, Restoring
    <3>3. Restoring(s)' /\ tam'.phase = "Resuming" /\ cluster' = NoCluster
      BY <1>1, <1>2, <2>3, <2>5, <2>7, <3>1, <3>2, Zenon
    <3>4. Kept(s)'
      BY <3>3, Zenon DEF Kept, Restoring
    <3> QED
      BY <3>4, Zenon
  <2>9. cluster # NoCluster /\ ~cluster.ready => cluster.source \in Ops /\ Restoring(cluster.source)
    BY Zenon DEF Preserved, Database
  <2>10. (cluster # NoCluster /\ ~cluster.ready => cluster.source \in Ops /\ Restoring(cluster.source))'
    BY <1>1, <2>7, <2>9, Zenon
  <2>11. Database'
    BY <1>1, <1>2, <2>2, <2>5, <2>8, <2>10, Zenon DEF Preserved, Database
  <2> QED
    BY <1>1, <1>2, <1>4, <2>2, <2>5, <2>6, <2>11, GateStep, Zenon
<1> QED
  BY <1>5, <1>6, Zenon

-----------------------------------------------------------------------------
(* Steps of the TamossHibernateReconciler.                                 *)

\* When a hibernate pass starts its caches are current and no Tamoss pass runs.
LEMMA BeginsHibernate ==
    ASSUME Orderly, NEW o \in Ops, BeginHibernate(o)
    PROVE  h = Idle /\ t = Idle /\ tamC = tam /\ opC = op
  BY Zenon DEF Orderly, BeginHibernate, TamossCachesCurrent

\* A step of a pass.
LEMMA InHibernatePass ==
    ASSUME Preserved, h.pc \in HibernatePlaces
    PROVE  /\ h # Idle /\ h \in HibernatePasses /\ t = Idle
           /\ h.op \in Ops /\ h.mem \in HibernateObject /\ h.to \in HibernateObject
           /\ h.tmem \in TamossObject /\ op[h.op] \in HibernateObject
<1>1. h # Idle
  BY DEF Idle, HibernatePlaces
<1>2. h \in HibernatePasses
  BY <1>1, Zenon DEF Preserved, TypeOK
<1> QED
  BY <1>1, <1>2, Zenon DEF Preserved, TypeOK, TamossMemory, HibernatePasses

\* A pass over o that ends.
LEMMA Returned ==
    ASSUME TypeOK, t = Idle, NEW o \in Ops, NEW r \in BOOLEAN, ReturnHibernate(o, r),
           UNCHANGED tamossPass
    PROVE  /\ h' = Idle /\ hdirty' \subseteq Ops /\ HibernateMemory' /\ TamossMemory'
           /\ t' = t /\ tdirty' = tdirty
  BY Zenon DEF ReturnHibernate, TypeOK, HibernateMemory, TamossMemory, tamossPass

\* Passes that find nothing to do.
LEMMA NothingToDoStep ==
    ASSUME Orderly, Preserved, NEW o \in Ops, HibernateNotFound(o) \/ HibernateTerminal(o)
    PROVE  Preserved'
<1>1. /\ UNCHANGED <<tam, op, backup, store, manifest, cluster, gens, replicas, pods, dest, tamC,
                     opC, tamossPass, acked, toggles, faults>>
      /\ t = Idle /\ ReturnHibernate(o, FALSE)
  BY BeginsHibernate, Zenon DEF HibernateNotFound, HibernateTerminal, hibernateFrame, caches,
     ghosts
<1>2. /\ h' = Idle /\ hdirty' \subseteq Ops /\ HibernateMemory' /\ TamossMemory'
      /\ t' = t /\ tdirty' = tdirty
  BY <1>1, Returned, Zenon DEF Preserved
<1>3. TypeOK'
  BY <1>1, <1>2, Zenon DEF Preserved, TypeOK
<1> QED
  BY <1>1, <1>2, <1>3, PassEnds, Zenon

\* A step that writes one operation and nothing else.
LEMMA OpStep ==
    ASSUME Preserved, NEW c \in Ops, NEW n \in HibernateObject,
           op' = [op EXCEPT ![c] = n],
           UNCHANGED <<tam, backup, store, manifest, cluster, gens, replicas, pods, dest, tamC,
                       opC, tdirty, acked, toggles, faults, t>>,
           h' \in HibernatePasses \cup {Idle}, hdirty' \subseteq Ops, HibernateMemory', TamossMemory',
           Operation(c)',
           tam.active = c /\ op[c].phase = "DeprovisioningSource" => n.phase = "DeprovisioningSource",
           tam.phase = "Hibernated" /\ tam.last = c
              /\ (op[c].exists => op[c].phase \in {"DeprovisioningSource", "Completed"})
              => (n.exists => n.phase \in {"DeprovisioningSource", "Completed"})
    PROVE  Preserved'
<1>1. op' \in [Ops -> HibernateObject] /\ op'[c] = n /\ \A o \in Ops \ {c} : op'[o] = op[o]
  BY OpUpdate, Zenon DEF Preserved
<1>2. TypeOK'
  BY <1>1, Zenon DEF Preserved, TypeOK
<1>3. \A o \in Ops : Operation(o)'
  BY <1>1, OneOperation, Zenon DEF Preserved
<1>4. Database'
  BY <1>1, OneOperationKept, Zenon DEF Preserved
<1>5. Holding'
  BY Zenon DEF Preserved, Holding
<1> QED
  BY <1>2, <1>3, <1>4, <1>5, Zenon DEF Preserved

LEMMA AddFinalizerStep ==
    ASSUME Orderly, Preserved, NEW c \in Ops, addFinalizer(c)
    PROVE  Preserved'
<1>1. /\ UNCHANGED <<tam, backup, store, manifest, cluster, gens, replicas, pods, dest, tamC, opC,
                     tamossPass, acked, toggles, faults>>
      /\ t = Idle /\ ReturnHibernate(c, FALSE)
      /\ op[c].exists /\ ~op[c].deleting
  BY BeginsHibernate, Zenon DEF addFinalizer, hibernateFrame, caches, ghosts
<1>2. /\ h' = Idle /\ hdirty' \subseteq Ops /\ HibernateMemory' /\ TamossMemory'
      /\ t' = t /\ tdirty' = tdirty
  BY <1>1, Returned, Zenon DEF Preserved
<1>3. op[c] \in HibernateObject
  BY Zenon DEF Preserved, TypeOK
<1> DEFINE n == [op[c] EXCEPT !.finalizer = TRUE]
<1>4. op' = [op EXCEPT ![c] = n]
  BY <1>1, Zenon DEF addFinalizer
<1>5. /\ n \in HibernateObject /\ n.finalizer = TRUE /\ n.phase = op[c].phase
      /\ n.exists = op[c].exists /\ n.deleting = op[c].deleting /\ n.committed = op[c].committed
  BY <1>3, FinalizerFields, Zenon
<1> HIDE DEF n
<1>6. op'[c] = n
  BY <1>4, <1>5, OpUpdate, Zenon DEF Preserved
<1>7. Quiet(c)'
  BY <1>1, <1>5, <1>6, Zenon DEF Preserved, Operation, Quiet, Capturing, Held,
     hibernationOperationTerminal
<1>8. Operation(c)'
  BY <1>1, <1>5, <1>6, <1>7, Zenon DEF Preserved, Operation, hibernationOperationTerminal
<1> QED
  BY <1>1, <1>2, <1>4, <1>5, <1>8, OpStep, Zenon

\* What updateHibernateStatus does to an operation: the write, or nothing.
LEMMA StatusWritten ==
    ASSUME TypeOK, t = Idle, NEW o \in Ops, NEW mem \in HibernateObject, NEW n \in HibernateObject,
           updateHibernateStatus(o, mem, n), UNCHANGED tamossPass
    PROVE  /\ h' = Idle /\ hdirty' \subseteq Ops /\ HibernateMemory' /\ TamossMemory'
           /\ t' = t /\ tdirty' = tdirty
           /\ \/ mem = op[o] /\ op' = [op EXCEPT ![o] = n]
              \/ mem # op[o] /\ op' = op
<1> DEFINE r == (n # mem /\ mem # op[o]) \/ ~hibernationOperationTerminal(n)
<1>1. r \in BOOLEAN /\ ReturnHibernate(o, r)
  BY Zenon DEF updateHibernateStatus
<1> HIDE DEF r
<1>2. /\ h' = Idle /\ hdirty' \subseteq Ops /\ HibernateMemory' /\ TamossMemory'
      /\ t' = t /\ tdirty' = tdirty
  BY <1>1, Returned, Zenon
<1> QED
  BY <1>2, Zenon DEF updateHibernateStatus

\* A retried operation has failed: it holds neither the lifecycle nor a usable Backup.
LEMMA RetryAcceptedStep ==
    ASSUME Orderly, Preserved, NEW c \in Ops, acceptOperationRetry(c)
    PROVE  Preserved'
<1>1. /\ UNCHANGED <<tam, store, manifest, cluster, gens, replicas, pods, dest, tamC, opC,
                     tamossPass, acked, toggles, faults>>
      /\ t = Idle /\ opC = op
      /\ op[c].exists /\ ~op[c].deleting /\ op[c].finalizer /\ op[c].phase = "Failed"
  BY BeginsHibernate, Zenon DEF acceptOperationRetry, Reconcilable, hibernateFrame, caches, ghosts
<1>2. op[c] \in HibernateObject
  BY Zenon DEF Preserved, TypeOK
<1>3. tam.active # c /\ backup[c] \notin {"running", "completed"}
  BY <1>1, Zenon DEF Preserved, Operation, hibernationOperationTerminal
<1>4. CASE backup[c] = "failed"
  <2>1. backup' = [backup EXCEPT ![c] = "none"] /\ ReturnHibernate(c, TRUE) /\ op' = op
    BY <1>4, Zenon DEF acceptOperationRetry
  <2>2. /\ h' = Idle /\ hdirty' \subseteq Ops /\ HibernateMemory' /\ TamossMemory'
        /\ t' = t /\ tdirty' = tdirty
    BY <1>1, <2>1, Returned, Zenon DEF Preserved
  <2>3. /\ backup' \in [Ops -> {"none", "running", "completed", "failed", "foreign"}]
        /\ backup'[c] = "none" /\ \A o \in Ops \ {c} : backup'[o] = backup[o]
    BY <2>1, Zenon DEF Preserved, TypeOK
  <2>4. TypeOK'
    BY <1>1, <2>1, <2>2, <2>3, Zenon DEF Preserved, TypeOK
  <2>5. ~Capturing(c)'
    BY <2>3, Zenon DEF Capturing
  <2>6. Operation(c)'
    BY <1>1, <1>3, <2>1, <2>3, <2>5, Zenon DEF Preserved, Operation, Quiet
  <2>7. \A o \in Ops : Operation(o)'
    BY <1>1, <2>1, <2>3, <2>6, OneOperation, Zenon DEF Preserved
  <2>8. Database'
    BY <1>1, <2>1, DatabaseFrame, Zenon DEF Preserved
  <2>9. Holding'
    BY <1>1, Zenon DEF Preserved, Holding
  <2> QED
    BY <1>1, <2>2, <2>4, <2>7, <2>8, <2>9, Zenon DEF Preserved
<1>5. CASE backup[c] # "failed"
  <2> DEFINE n == [op[c] EXCEPT !.phase = "", !.retry = FALSE]
  <2>1. updateHibernateStatus(c, op[c], n) /\ backup' = backup
    BY <1>1, <1>5, Zenon DEF acceptOperationRetry
  <2>2. /\ n \in HibernateObject /\ n.phase = "" /\ n.exists = op[c].exists
        /\ n.finalizer = op[c].finalizer /\ n.deleting = op[c].deleting
    BY <1>2, RetriedFields, Zenon
  <2> HIDE DEF n
  <2>3. /\ h' = Idle /\ hdirty' \subseteq Ops /\ HibernateMemory' /\ TamossMemory'
        /\ t' = t /\ tdirty' = tdirty /\ op' = [op EXCEPT ![c] = n]
    BY <1>1, <1>2, <2>1, <2>2, StatusWritten, Zenon DEF Preserved
  <2>4. op'[c] = n
    BY <2>2, <2>3, OpUpdate, Zenon DEF Preserved
  <2>5. ~Capturing(c)'
    BY <1>3, <2>1, Zenon DEF Capturing
  <2>6. Operation(c)'
    BY <1>1, <1>3, <2>1, <2>2, <2>4, <2>5, Zenon DEF Operation, Quiet
  <2> QED
    BY <1>1, <1>3, <2>1, <2>2, <2>3, <2>6, OpStep, Zenon
<1> QED
  BY <1>4, <1>5, Zenon

\* An operation that is deterred has no Backup that it may commit.
LEMMA DeterredStep ==
    ASSUME Orderly, Preserved, NEW c \in Ops, HibernateDeterred(c)
    PROVE  Preserved'
<1>1. /\ UNCHANGED <<tam, backup, store, manifest, cluster, gens, replicas, pods, dest, tamC, opC,
                     tamossPass, acked, toggles, faults>>
      /\ t = Idle /\ opC = op /\ tamC = tam /\ dest = "ready"
      /\ op[c].exists /\ ~op[c].deleting /\ op[c].finalizer /\ ~hibernationOperationTerminal(op[c])
      /\ Deterrent(c) # "none"
      /\ updateHibernateStatus(c, op[c], AtNew(op[c], Deterrent(c)))
  BY BeginsHibernate, Zenon DEF HibernateDeterred, Runs, Reconcilable, hibernateFrame, caches,
     ghosts, Preserved
<1>2. op[c] \in HibernateObject
  BY Zenon DEF Preserved, TypeOK
<1>3. PICK p \in {"ResolvingSource", "PreparingTarget", "Failed"} : p = Deterrent(c)
  BY <1>1, Zenon DEF Deterrent
<1>4. p = "Failed" => tam.active # c
  BY <1>1, <1>3, OpsAssumption, Zenon DEF Deterrent, Preserved, Holding
<1>5. ~Capturing(c)
  <2> SUFFICES ASSUME Capturing(c) PROVE FALSE
    BY Zenon
  <2>1. Held(c)
    BY Zenon DEF Preserved, Operation, Quiet
  <2>2. tam.phase = "Hibernated" => tam.active = NoRef
    BY Zenon DEF Preserved, Holding
  <2>3. hibernateLifecycleOwnedBy(tam, c)
    BY <2>1, Zenon DEF Held, hibernateLifecycleOwnedBy
  <2>4. op[c].phase # "DeprovisioningSource" /\ cluster = NoCluster
    BY <1>1, <2>1, <2>2, <2>3, OpsAssumption, Zenon DEF Deterrent, Held
  <2>5. PICK q \in Ops : Kept(q)
    BY <2>4, Zenon DEF Preserved, Database
  <2>6. tam.active = c \/ tam.phase = "Hibernated"
    BY <2>1, Zenon DEF Held
  <2>7. tam.active # NoRef => tam.phase = "Hibernating"
    BY Zenon DEF Preserved, Holding
  <2>8. q = c
    BY <2>1, <2>2, <2>5, <2>6, <2>7, OpsAssumption DEF Held, Kept
  <2> QED
    BY <1>1, <2>2, <2>4, <2>5, <2>6, <2>7, <2>8, OpsAssumption, Zenon DEF Kept,
       hibernationOperationTerminal
<1>6. backup[c] \notin {"running", "completed"}
  BY <1>1, <1>5, Zenon DEF Capturing
<1>7. op[c].phase # "DeprovisioningSource"
  BY <1>6, Zenon DEF Preserved, Operation
<1> DEFINE n == AtNew(op[c], p)
<1>8. /\ n \in HibernateObject /\ n.phase = p /\ n.exists = op[c].exists
      /\ n.finalizer = op[c].finalizer /\ n.deleting = op[c].deleting
  <2>1. p \in OperationPhases
    BY Zenon DEF OperationPhases
  <2> QED
    BY <1>2, <2>1, AtNewFields, Zenon
<1>9. updateHibernateStatus(c, op[c], n)
  BY <1>1, <1>3, Zenon
<1> HIDE DEF n
<1>10. /\ h' = Idle /\ hdirty' \subseteq Ops /\ HibernateMemory' /\ TamossMemory'
       /\ t' = t /\ tdirty' = tdirty /\ op' = [op EXCEPT ![c] = n]
  BY <1>1, <1>2, <1>8, <1>9, StatusWritten, Zenon DEF Preserved
<1>11. op'[c] = n
  BY <1>8, <1>10, OpUpdate, Zenon DEF Preserved
<1>12. ~Capturing(c)'
  BY <1>1, <1>6, Zenon DEF Capturing
<1>13. Operation(c)'
  BY <1>1, <1>4, <1>6, <1>8, <1>11, <1>12, Zenon DEF Operation, Quiet,
     hibernationOperationTerminal
<1>14. op[c].phase \notin {"DeprovisioningSource", "Completed"} /\ op[c].exists
  BY <1>1, <1>7, Zenon DEF hibernationOperationTerminal
<1> QED
  BY <1>1, <1>8, <1>10, <1>13, <1>14, OpStep, Zenon

\* An operation acquires a lifecycle that nobody else holds.
LEMMA AcquireStep ==
    ASSUME Orderly, Preserved, NEW c \in Ops, acquireHibernateLifecycle(c)
    PROVE  Preserved'
<1>1. /\ UNCHANGED <<op, backup, store, manifest, cluster, gens, replicas, pods, dest, tamC, opC,
                     tamossPass, acked, toggles, faults>>
      /\ t = Idle /\ opC = op /\ tamC = tam /\ dest = "ready" /\ hdirty' = hdirty \ {c}
      /\ op[c].exists /\ ~op[c].deleting /\ op[c].finalizer /\ ~hibernationOperationTerminal(op[c])
      /\ Deterrent(c) = "none" /\ op[c].phase # "DeprovisioningSource"
  BY BeginsHibernate, Zenon DEF acquireHibernateLifecycle, Runs, Reconcilable, hibernateFrame,
     caches, ghosts, Preserved
<1>2. op[c] \in HibernateObject /\ tam \in TamossObject
  BY Zenon DEF Preserved, TypeOK
<1>3. cluster # NoCluster /\ tam.active \in {NoRef, c}
  BY <1>1, Zenon DEF Deterrent
<1>4. tam.phase # "Hibernated"
  BY <1>3, Zenon DEF Preserved, Database
<1> DEFINE a == setLifecycleOperationState(tam, "Hibernating", c)
<1>5. /\ patchTamossLifecycleStatus(tam, a, a)
      /\ h' = InPass(c, "quiesce", patched(tam, a, a), op[c])
  BY <1>1, <1>4, Zenon DEF acquireHibernateLifecycle
<1>6. /\ a \in TamossObject /\ a.phase = "Hibernating" /\ a.active = c
      /\ a.last = tam.last /\ SameArtifacts(a, tam)
  <2>1. "Hibernating" \in LifecyclePhases /\ c \in Refs
    BY Zenon DEF LifecyclePhases, Refs
  <2> QED
    BY <1>2, <2>1, SetState
<1> HIDE DEF a
<1>7. tam' = a /\ patched(tam, a, a) = a
  BY <1>5, Zenon DEF patchTamossLifecycleStatus, patched
<1>8. h' = [pc |-> "quiesce", op |-> c, mem |-> op[c], tmem |-> a, to |-> op[c]]
  BY <1>1, <1>5, <1>7, Zenon DEF InPass
<1>9. /\ h' \in HibernatePasses /\ h'.pc = "quiesce" /\ h'.op = c /\ h'.mem = op[c] /\ h'.tmem = a
  BY <1>2, <1>6, <1>8, Zenon DEF HibernatePasses
<1>10. HibernateMemory'
  <2>1. SameStatus(a, a)
    BY Zenon DEF SameStatus
  <2> QED
    BY <1>1, <1>6, <1>7, <1>9, <2>1, Zenon DEF HibernateMemory, hibernationOperationTerminal
<1>11. TypeOK' /\ TamossMemory' /\ Holding'
  <2>1. TypeOK'
    BY <1>1, <1>6, <1>7, <1>9, Zenon DEF Preserved, TypeOK, tamossPass
  <2>2. TamossMemory'
    BY <1>1, Zenon DEF TamossMemory, tamossPass
  <2>3. Holding'
    BY <1>6, <1>7, OpsAssumption, Zenon DEF Holding
  <2> QED
    BY <2>1, <2>2, <2>3, Zenon
<1>12. \A o \in Ops : Operation(o)'
  <2> SUFFICES ASSUME NEW o \in Ops PROVE Operation(o)'
    BY Zenon
  <2>1. Capturing(o)' <=> Capturing(o)
    BY <1>1, Zenon DEF Capturing, hibernationOperationTerminal
  <2>2. Capturing(o) => o = c
    BY <1>3, <1>4, OpsAssumption, Zenon DEF Preserved, Operation, Quiet, Held
  <2>3. Held(c)'
    BY <1>6, <1>7, Zenon DEF Held
  <2>4. Quiet(o)'
    BY <1>1, <2>1, <2>2, <2>3, Zenon DEF Preserved, Operation, Quiet
  <2> QED
    BY <1>1, <1>6, <1>7, <2>4, Zenon DEF Preserved, Operation, hibernationOperationTerminal
<1>13. Database'
  <2>1. \A o \in Ops : Restoring(o) => Restoring(o)'
    BY <1>1, <1>6, <1>7, Zenon DEF Restoring, SameArtifacts
  <2>2. cluster # NoCluster /\ ~cluster.ready => cluster.source \in Ops /\ Restoring(cluster.source)
    BY Zenon DEF Preserved, Database
  <2>3. (cluster # NoCluster /\ ~cluster.ready => cluster.source \in Ops /\ Restoring(cluster.source))'
    BY <1>1, <2>1, <2>2, Zenon
  <2>4. cluster.deleting => \E o \in Ops : Kept(o)'
    <3> SUFFICES ASSUME cluster.deleting PROVE \E o \in Ops : Kept(o)'
      BY Zenon
    <3>1. PICK o \in Ops : Kept(o)
      BY Zenon DEF Preserved, Database
    <3>2. o = c
      BY <1>3, <1>4, <3>1, OpsAssumption, Zenon DEF Kept
    <3> QED
      BY <1>1, <1>3, <1>4, <1>6, <1>7, <3>1, <3>2, Zenon DEF Kept
  <2> QED
    BY <1>1, <1>3, <1>6, <1>7, <2>3, <2>4, Zenon DEF Preserved, Database
<1> QED
  BY <1>1, <1>10, <1>11, <1>12, <1>13, Zenon DEF Preserved

\* Before the Backup the operation of the pass holds the lifecycle.
LEMMA InCapture ==
    ASSUME Preserved, h.pc \in {"quiesce", "capture"}
    PROVE  /\ h # Idle /\ h \in HibernatePasses /\ t = Idle
           /\ h.op \in Ops /\ h.mem \in HibernateObject /\ h.tmem \in TamossObject
           /\ tam.active = h.op /\ SameStatus(h.tmem, tam)
           /\ h.mem.phase # "DeprovisioningSource"
           /\ op[h.op].phase # "DeprovisioningSource"
           /\ op[h.op].exists /\ ~hibernationOperationTerminal(op[h.op])
           /\ h.pc = "capture" => replicas = 0 /\ ~pods
<1>1. /\ h # Idle /\ h \in HibernatePasses /\ t = Idle
      /\ h.op \in Ops /\ h.mem \in HibernateObject /\ h.tmem \in TamossObject
  BY InHibernatePass, Zenon DEF HibernatePlaces
<1> QED
  BY <1>1, Zenon DEF Preserved, HibernateMemory, hibernationOperationTerminal

\* A pass that goes on to report phase p.
LEMMA ReportFields ==
    ASSUME Preserved, h.pc \in {"quiesce", "capture"},
           NEW p \in {"Quiescing", "CapturingDatabase", "WritingManifest", "Failed"},
           h' = [h EXCEPT !.pc = "status", !.to = AtNew(h.mem, p)]
    PROVE  /\ h' \in HibernatePasses /\ h'.pc = "status" /\ h'.op = h.op /\ h'.mem = h.mem
           /\ h'.to = AtNew(h.mem, p)
<1>1. h \in HibernatePasses /\ h.mem \in HibernateObject
  BY InCapture, Zenon
<1>2. p \in OperationPhases
  BY Zenon DEF OperationPhases
<1>3. AtNew(h.mem, p) \in HibernateObject
  BY <1>1, <1>2, AtNewFields, Zenon
<1>4. h' = [[h EXCEPT !.pc = "status"] EXCEPT !.to = AtNew(h.mem, p)]
  BY <1>1, Zenon DEF HibernatePasses
<1> QED
  BY <1>1, <1>3, <1>4, Zenon DEF HibernatePasses

\* The report keeps what the pass knows of its operation.
LEMMA ReportMemory ==
    ASSUME Preserved, h.pc \in {"quiesce", "capture"}, op' = op,
           h' \in HibernatePasses, h'.pc = "status", h'.op = h.op, h'.mem = h.mem, Reports(h.op)'
    PROVE  HibernateMemory'
<1>1. h # Idle
  BY InCapture, Zenon
<1>2. (h.op)' = h.op
  BY Zenon
<1> QED
  BY <1>1, Zenon DEF Preserved, HibernateMemory, hibernationOperationTerminal

LEMMA QuiesceStep ==
    ASSUME Preserved, quiesceTamossWorkloads
    PROVE  Preserved'
<1>1. /\ UNCHANGED <<tam, op, backup, store, manifest, cluster, gens, pods, dest, tamC, opC,
                     t, tdirty, tamossPass, acked, toggles, faults>>
      /\ h.pc = "quiesce"
  BY Zenon DEF quiesceTamossWorkloads, caches, tamossPass, ghosts
<1>2. /\ h # Idle /\ h \in HibernatePasses /\ t = Idle
      /\ h.op \in Ops /\ h.mem \in HibernateObject /\ h.tmem \in TamossObject
      /\ tam.active = h.op /\ SameStatus(h.tmem, tam)
      /\ h.mem.phase # "DeprovisioningSource"
  BY <1>1, InCapture, Zenon
<1>3. CASE cluster = NoCluster
  <2>1. ReturnHibernate(h.op, TRUE) /\ replicas' = replicas
    BY <1>3, Zenon DEF quiesceTamossWorkloads
  <2>2. /\ h' = Idle /\ hdirty' \subseteq Ops /\ HibernateMemory' /\ TamossMemory'
        /\ t' = t /\ tdirty' = tdirty
    BY <1>1, <1>2, <2>1, Returned, Zenon DEF Preserved
  <2>3. TypeOK'
    BY <1>1, <2>1, <2>2, Zenon DEF Preserved, TypeOK
  <2> QED
    BY <1>1, <2>1, <2>2, <2>3, PassEnds, Zenon
<1>4. CASE cluster # NoCluster
  <2>1. replicas' = 0 /\ hdirty' = hdirty
    BY <1>4, Zenon DEF quiesceTamossWorkloads
  <2>2. h' \in HibernatePasses /\ HibernateMemory'
    <3>1. CASE replicas = 0 /\ ~pods
      <4>1. h' = [h EXCEPT !.pc = "capture"]
        BY <1>4, <3>1, Zenon DEF quiesceTamossWorkloads
      <4>2. /\ h' \in HibernatePasses /\ h'.pc = "capture" /\ h'.op = h.op /\ h'.mem = h.mem
            /\ h'.tmem = h.tmem
        BY <1>2, <4>1, Zenon DEF HibernatePasses
      <4> QED
        BY <1>1, <1>2, <2>1, <3>1, <4>2, ZenonT(40) DEF Preserved, HibernateMemory,
           hibernationOperationTerminal
    <3>2. CASE ~(replicas = 0 /\ ~pods)
      <4>1. h' = [h EXCEPT !.pc = "status", !.to = AtNew(h.mem, "Quiescing")]
        BY <1>4, <3>2, Zenon DEF quiesceTamossWorkloads
      <4>2. /\ h' \in HibernatePasses /\ h'.pc = "status" /\ h'.op = h.op /\ h'.mem = h.mem
            /\ h'.to = AtNew(h.mem, "Quiescing")
        BY <1>1, <4>1, ReportFields, Zenon
      <4>3. Reports(h.op)'
        BY <1>2, <4>2, Zenon DEF Reports
      <4> QED
        BY <1>1, <4>2, <4>3, ReportMemory, Zenon
    <3> QED
      BY <3>1, <3>2, Zenon
  <2>3. TypeOK'
    BY <1>1, <2>1, <2>2, Zenon DEF Preserved, TypeOK
  <2>4. TamossMemory' /\ Holding'
    BY <1>1, <1>2, Zenon DEF Preserved, TamossMemory, Holding
  <2>5. \A o \in Ops : Operation(o)'
    <3> SUFFICES ASSUME NEW o \in Ops PROVE Operation(o)'
      BY Zenon
    <3>1. Capturing(o)' <=> Capturing(o)
      BY <1>1, Zenon DEF Capturing, hibernationOperationTerminal
    <3>2. Held(o)' <=> Held(o)
      BY <1>1, Zenon DEF Held
    <3>3. Quiet(o)'
      BY <1>1, <2>1, <3>1, <3>2, ZenonT(40) DEF Preserved, Operation, Quiet
    <3> QED
      BY <1>1, <3>3, Zenon DEF Preserved, Operation, hibernationOperationTerminal
  <2>6. Database'
    <3>1. \A s \in Ops : (Restoring(s) => Restoring(s)') /\ (Kept(s) => Kept(s)')
      BY <1>1, Zenon DEF Restoring, Kept
    <3>2. cluster # NoCluster /\ ~cluster.ready => cluster.source \in Ops /\ Restoring(cluster.source)
      BY Zenon DEF Preserved, Database
    <3>3. (cluster # NoCluster /\ ~cluster.ready => cluster.source \in Ops /\ Restoring(cluster.source))'
      BY <1>1, <3>1, <3>2, Zenon
    <3> QED
      BY <1>1, <2>1, <3>1, <3>3, Zenon DEF Preserved, Database
  <2> QED
    BY <1>1, <2>2, <2>3, <2>4, <2>5, <2>6, Zenon DEF Preserved
<1> QED
  BY <1>3, <1>4, Zenon

\* The Backup is begun by the holder of the lifecycle, with the workloads gone.
LEMMA CaptureStep ==
    ASSUME Preserved, captureDatabase
    PROVE  Preserved'
<1>1. /\ UNCHANGED <<tam, op, store, manifest, cluster, gens, replicas, pods, dest, tamC, opC,
                     t, tdirty, hdirty, acked, toggles, faults>>
      /\ h.pc = "capture" /\ backup[h.op] \in {"none", "running"}
      /\ backup' = [backup EXCEPT ![h.op] = IF @ = "none" THEN "running" ELSE @]
      /\ h' = [h EXCEPT !.pc = "status", !.to = AtNew(h.mem, "CapturingDatabase")]
  BY Zenon DEF captureDatabase, captureFrame, Report, ensureHibernateCNPGBackup, caches,
     tamossPass, ghosts
<1>2. /\ h # Idle /\ h \in HibernatePasses /\ t = Idle
      /\ h.op \in Ops /\ tam.active = h.op /\ h.mem.phase # "DeprovisioningSource"
      /\ op[h.op].phase # "DeprovisioningSource"
      /\ op[h.op].exists /\ ~hibernationOperationTerminal(op[h.op])
      /\ replicas = 0 /\ ~pods
  BY <1>1, InCapture, Zenon
<1>3. /\ h' \in HibernatePasses /\ h'.pc = "status" /\ h'.op = h.op /\ h'.mem = h.mem
      /\ h'.to = AtNew(h.mem, "CapturingDatabase")
  BY <1>1, ReportFields, Zenon
<1>4. HibernateMemory'
  <2>1. Reports(h.op)'
    BY <1>2, <1>3, Zenon DEF Reports
  <2> QED
    BY <1>1, <1>3, <2>1, ReportMemory, Zenon
<1>5. PICK c \in Ops : c = h.op
  BY <1>2, Zenon
<1>6. /\ backup' \in [Ops -> {"none", "running", "completed", "failed", "foreign"}]
      /\ backup'[c] = "running" /\ \A o \in Ops \ {c} : backup'[o] = backup[o]
  BY <1>1, <1>5, Zenon DEF Preserved, TypeOK
<1>7. TypeOK'
  BY <1>1, <1>3, <1>6, Zenon DEF Preserved, TypeOK
<1>8. TamossMemory' /\ Holding'
  BY <1>1, <1>2, Zenon DEF Preserved, TamossMemory, Holding
<1>9. Quiet(c)'
  BY <1>1, <1>2, <1>5, <1>6, Zenon DEF Quiet, Held
<1>10. Operation(c)'
  BY <1>1, <1>2, <1>5, <1>6, <1>9, ZenonT(40) DEF Preserved, Operation,
     hibernationOperationTerminal
<1>11. \A o \in Ops : Operation(o)'
  BY <1>1, <1>6, <1>10, OneOperation, Zenon DEF Preserved
<1>12. Database'
  BY <1>1, DatabaseFrame, Zenon DEF Preserved
<1> QED
  BY <1>1, <1>4, <1>7, <1>8, <1>11, <1>12, Zenon DEF Preserved

\* A manifest more does not hurt.
LEMMA ManifestStep ==
    ASSUME Preserved, writeHibernateManifest
    PROVE  Preserved'
<1>1. /\ UNCHANGED <<tam, op, backup, store, cluster, gens, replicas, pods, dest, tamC, opC,
                     t, tdirty, hdirty, acked, toggles, faults>>
      /\ h.pc = "capture" /\ backup[h.op] = "completed" /\ manifest' = manifest \cup {h.op}
      /\ h' = [h EXCEPT !.pc = "status",
                        !.to = [At(h.mem, "DeprovisioningSource") EXCEPT !.committed = TRUE]]
  BY Zenon DEF writeHibernateManifest, captureFrame, caches, tamossPass, ghosts
<1>2. /\ h # Idle /\ h \in HibernatePasses /\ t = Idle /\ h.mem \in HibernateObject
      /\ h.op \in Ops /\ h.mem.phase # "DeprovisioningSource"
  BY <1>1, InCapture, Zenon
<1> DEFINE n == [At(h.mem, "DeprovisioningSource") EXCEPT !.committed = TRUE]
<1>3. n \in HibernateObject
  BY <1>2, Zenon DEF HibernateObject, At, OperationPhases
<1>4. /\ h' \in HibernatePasses /\ h'.pc = "status" /\ h'.op = h.op /\ h'.mem = h.mem
      /\ h'.to = n
  <2>1. h' = [h EXCEPT !.pc = "status", !.to = n]
    BY <1>1, Zenon
  <2> HIDE DEF n
  <2>2. h' = [[h EXCEPT !.pc = "status"] EXCEPT !.to = n]
    BY <1>2, <2>1, Zenon DEF HibernatePasses
  <2> QED
    BY <1>2, <1>3, <2>2, Zenon DEF HibernatePasses
<1>5. HibernateMemory'
  <2>1. Reports(h.op)'
    BY <1>1, <1>2, <1>4 DEF Reports
  <2> QED
    BY <1>1, <1>4, <2>1, ReportMemory, Zenon
<1>6. TypeOK'
  BY <1>1, <1>2, <1>4, Zenon DEF Preserved, TypeOK
<1>7. TamossMemory' /\ Holding'
  BY <1>1, <1>2, Zenon DEF Preserved, TamossMemory, Holding
<1>8. \A o \in Ops : Operation(o)'
  BY <1>1, OperationFrame, Zenon DEF Preserved
<1>9. Database'
  <2>1. \A s \in Ops : (Restoring(s) => Restoring(s)') /\ (Kept(s) => Kept(s)')
    BY <1>1, Zenon DEF Restoring, Kept
  <2>2. cluster # NoCluster /\ ~cluster.ready => cluster.source \in Ops /\ Restoring(cluster.source)
    BY Zenon DEF Preserved, Database
  <2>3. (cluster # NoCluster /\ ~cluster.ready => cluster.source \in Ops /\ Restoring(cluster.source))'
    BY <1>1, <2>1, <2>2, Zenon
  <2> QED
    BY <1>1, <2>1, <2>3, Zenon DEF Preserved, Database
<1> QED
  BY <1>1, <1>5, <1>6, <1>7, <1>8, <1>9, Zenon DEF Preserved

LEMMA UploadFailsStep ==
    ASSUME Preserved, uploadFails
    PROVE  Preserved'
<1>1. /\ UNCHANGED <<tam, op, backup, store, manifest, cluster, gens, replicas, pods, dest, tamC,
                     opC, t, tdirty, hdirty, acked, toggles>>
      /\ faults' = faults + 1 /\ h.pc = "capture"
      /\ h' = [h EXCEPT !.pc = "status", !.to = AtNew(h.mem, "WritingManifest")]
  BY Zenon DEF uploadFails, Report, caches, tamossPass
<1>2. /\ h # Idle /\ t = Idle /\ h.mem.phase # "DeprovisioningSource"
  BY <1>1, InCapture, Zenon
<1>3. /\ h' \in HibernatePasses /\ h'.pc = "status" /\ h'.op = h.op /\ h'.mem = h.mem
      /\ h'.to = AtNew(h.mem, "WritingManifest")
  BY <1>1, ReportFields, Zenon
<1>4. HibernateMemory'
  <2>1. Reports(h.op)'
    BY <1>2, <1>3, Zenon DEF Reports
  <2> QED
    BY <1>1, <1>3, <2>1, ReportMemory, Zenon
<1>5. TypeOK'
  BY <1>1, <1>3 DEF Preserved, TypeOK
<1>6. TamossMemory'
  BY <1>1, <1>2, Zenon DEF TamossMemory
<1> QED
  BY <1>1, <1>4, <1>5, <1>6, PassEnds, Zenon

\* Releasing a lifecycle that c holds without anything to restore from it.
LEMMA ReleasedStep ==
    ASSUME Preserved, TypeOK', NEW c \in Ops, tam.active = c, ~Capturing(c),
           op[c].phase # "DeprovisioningSource",
           UNCHANGED <<op, backup, store, manifest, cluster, replicas, pods, dest, acked>>,
           tam' = LifecycleFailed(tam, c), HibernateMemory', TamossMemory'
    PROVE  Preserved'
<1>1. tam \in TamossObject
  BY Zenon DEF Preserved, TypeOK
<1>2. /\ tam'.phase = "Failed" /\ tam'.active = NoRef /\ SameArtifacts(tam', tam)
  BY <1>1, FailedFields, Zenon
<1>3. tam.phase = "Hibernating" /\ c # NoRef
  BY OpsAssumption, Zenon DEF Preserved, Holding
<1>4. \A o \in Ops : ~Capturing(o)
  BY <1>3, OpsAssumption, Zenon DEF Preserved, Operation, Quiet, Held
<1>5. \A o \in Ops : op[o].phase # "DeprovisioningSource"
  BY <1>4, NewFields, Zenon DEF Preserved, Operation, Capturing, hibernationOperationTerminal
<1>6. \A o \in Ops : Operation(o)'
  BY <1>2, <1>4, <1>5, OperationGate, Zenon DEF Preserved
<1>7. ~(cluster = NoCluster \/ cluster.deleting)
  BY <1>3, <1>5, Zenon DEF Preserved, Database, Kept
<1>8. Database'
  <2>1. \A s \in Ops : Restoring(s) => Restoring(s)'
    BY <1>2, Zenon DEF Restoring, SameArtifacts
  <2>2. cluster # NoCluster /\ ~cluster.ready => cluster.source \in Ops /\ Restoring(cluster.source)
    BY Zenon DEF Preserved, Database
  <2>3. (cluster # NoCluster /\ ~cluster.ready => cluster.source \in Ops /\ Restoring(cluster.source))'
    BY <2>1, <2>2, Zenon
  <2> QED
    BY <1>2, <1>7, <2>3, Zenon DEF Preserved, Database
<1>9. Holding'
  BY <1>2, Zenon DEF Holding
<1> QED
  BY <1>6, <1>8, <1>9, Zenon DEF Preserved

\* A Backup that failed releases the lifecycle.
LEMMA SetFailedStep ==
    ASSUME Preserved, setHibernateLifecycleFailed
    PROVE  Preserved'
<1>1. /\ UNCHANGED <<op, backup, store, manifest, cluster, gens, replicas, pods, dest, tamC,
                     opC, t, tdirty, hdirty, acked, toggles, faults>>
      /\ h.pc = "capture" /\ backup[h.op] \in {"failed", "foreign"}
      /\ patchTamossLifecycleStatus(h.tmem, LifecycleFailed(h.tmem, h.op), LifecycleFailed(tam, h.op))
      /\ h' = [h EXCEPT !.pc = "status", !.to = AtNew(h.mem, "Failed")]
  BY Zenon DEF setHibernateLifecycleFailed, captureFrame, Report, caches, tamossPass, ghosts
<1>2. /\ h # Idle /\ h \in HibernatePasses /\ t = Idle /\ h.tmem \in TamossObject
      /\ h.op \in Ops /\ tam.active = h.op /\ SameStatus(h.tmem, tam)
      /\ h.mem.phase # "DeprovisioningSource" /\ op[h.op].phase # "DeprovisioningSource"
  BY <1>1, InCapture, Zenon
<1>3. PICK c \in Ops : c = h.op
  BY <1>2, Zenon
<1>4. tam \in TamossObject
  BY Zenon DEF Preserved, TypeOK
<1> DEFINE n == LifecycleFailed(h.tmem, c)
           l == LifecycleFailed(tam, c)
<1>5. n.active = NoRef
  BY <1>2, FailedFields, Zenon
<1>6. n # h.tmem
  BY <1>2, <1>3, <1>5, OpsAssumption, Zenon DEF SameStatus
<1>7. l \in TamossObject /\ l.active = NoRef
  BY <1>4, FailedFields, Zenon
<1>8. tam' = l
  BY <1>1, <1>3, <1>6, Zenon DEF patchTamossLifecycleStatus
<1> HIDE DEF n
<1>9. /\ h' \in HibernatePasses /\ h'.pc = "status" /\ h'.op = h.op /\ h'.mem = h.mem
      /\ h'.to = AtNew(h.mem, "Failed")
  BY <1>1, ReportFields, Zenon
<1>10. HibernateMemory'
  <2>1. tam'.active = NoRef /\ NoRef # h.op
    BY <1>2, <1>7, <1>8, OpsAssumption, Zenon
  <2> HIDE DEF l
  <2>2. Reports(h.op)'
    BY <1>1, <1>2, <1>9, <2>1, Zenon DEF Reports
  <2> QED
    BY <1>1, <1>9, <2>2, ReportMemory, Zenon
<1>11. TypeOK'
  BY <1>1, <1>7, <1>8, <1>9, ZenonT(40) DEF Preserved, TypeOK
<1>12. TamossMemory'
  BY <1>1, <1>2, Zenon DEF TamossMemory
<1>13. ~Capturing(c)
  BY <1>1, <1>3, Zenon DEF Capturing
<1> QED
  BY <1>1, <1>2, <1>3, <1>8, <1>10, <1>11, <1>12, <1>13, ReleasedStep, Zenon

\* The report is written, unless a user has touched the operation meanwhile.
LEMMA ReportStatusStep ==
    ASSUME Preserved, ReportStatus
    PROVE  Preserved'
<1>1. /\ UNCHANGED <<tam, backup, store, manifest, cluster, gens, replicas, pods, dest, tamC,
                     opC, tamossPass, acked, toggles, faults>>
      /\ h.pc = "status" /\ updateHibernateStatus(h.op, h.mem, h.to)
  BY Zenon DEF ReportStatus, hibernateFrame, caches, ghosts
<1>2. /\ h # Idle /\ t = Idle /\ h.op \in Ops /\ h.mem \in HibernateObject /\ h.to \in HibernateObject
  BY <1>1, InHibernatePass, Zenon DEF HibernatePlaces
<1>3. PICK c \in Ops : c = h.op
  BY <1>2, Zenon
<1>4. /\ h' = Idle /\ hdirty' \subseteq Ops /\ HibernateMemory' /\ TamossMemory'
      /\ t' = t /\ tdirty' = tdirty
      /\ \/ h.mem = op[c] /\ op' = [op EXCEPT ![c] = h.to]
         \/ op' = op
  BY <1>1, <1>2, <1>3, StatusWritten DEF Preserved
<1>5. CASE op' = op
  <2>1. TypeOK'
    BY <1>1, <1>4, <1>5, Zenon DEF Preserved, TypeOK
  <2> QED
    BY <1>1, <1>4, <1>5, <2>1, PassEnds, Zenon
<1>6. CASE h.mem = op[c] /\ op' = [op EXCEPT ![c] = h.to]
  <2>1. /\ op[c].exists /\ op[c].finalizer /\ ~op[c].deleting /\ ~hibernationOperationTerminal(op[c])
        /\ Reports(c)
    BY <1>1, <1>2, <1>3, <1>6, ZenonT(40) DEF Preserved, HibernateMemory
  <2>2. op'[c] = h.to
    BY <1>2, <1>6, OpUpdate, Zenon DEF Preserved
  <2>3. CASE \E p \in {"Quiescing", "CapturingDatabase", "WritingManifest"} :
                op[c].phase # "DeprovisioningSource" /\ h.to = AtNew(op[c], p)
    <3>1. /\ h.to.phase \in {"Quiescing", "CapturingDatabase", "WritingManifest"}
          /\ h.to.exists = op[c].exists /\ h.to.finalizer = op[c].finalizer
          /\ h.to.deleting = op[c].deleting
      <4>1. PICK p \in {"Quiescing", "CapturingDatabase", "WritingManifest"} : h.to = AtNew(op[c], p)
        BY <2>3, Zenon
      <4>2. p \in OperationPhases
        BY Zenon DEF OperationPhases
      <4> QED
        BY <1>2, <1>6, <4>1, <4>2, AtNewFields
    <3>2. Quiet(c)'
      BY <1>1, <2>1, <2>2, <3>1, ZenonT(40) DEF Preserved, Operation, Quiet, Capturing, Held,
         hibernationOperationTerminal
    <3>3. Operation(c)'
      BY <1>1, <2>1, <2>2, <3>1, <3>2, Zenon DEF Operation, hibernationOperationTerminal
    <3>4. op[c].phase \notin {"DeprovisioningSource", "Completed"}
      BY <2>1, <2>3, Zenon DEF hibernationOperationTerminal
    <3> QED
      BY <1>1, <1>2, <1>4, <1>6, <2>1, <3>3, <3>4, OpStep, Zenon DEF tamossPass
  <2>4. CASE /\ op[c].phase # "DeprovisioningSource" /\ h.to = AtNew(op[c], "Failed")
             /\ backup[c] \in {"failed", "foreign"} /\ tam.active # c
    <3>1. /\ h.to.phase = "Failed"
          /\ h.to.exists = op[c].exists /\ h.to.finalizer = op[c].finalizer
          /\ h.to.deleting = op[c].deleting
      <4>1. "Failed" \in OperationPhases
        BY Zenon DEF OperationPhases
      <4> QED
        BY <1>2, <1>6, <2>4, <4>1, AtNewFields
    <3>2. ~Capturing(c)'
      BY <1>1, <2>4, Zenon DEF Capturing
    <3>3. Operation(c)'
      BY <1>1, <2>1, <2>2, <2>4, <3>1, <3>2, Zenon DEF Operation, Quiet
    <3>4. op[c].phase \notin {"DeprovisioningSource", "Completed"}
      BY <2>1, <2>4, Zenon DEF hibernationOperationTerminal
    <3> QED
      BY <1>1, <1>2, <1>4, <1>6, <2>1, <3>3, <3>4, OpStep, Zenon DEF tamossPass
  <2>5. CASE /\ op[c].phase # "DeprovisioningSource"
             /\ h.to = [At(op[c], "DeprovisioningSource") EXCEPT !.committed = TRUE]
             /\ backup[c] = "completed" /\ c \in manifest
    <3>1. /\ h.to.phase = "DeprovisioningSource" /\ h.to.committed
          /\ h.to.exists = op[c].exists /\ h.to.finalizer = op[c].finalizer
          /\ h.to.deleting = op[c].deleting
      BY <1>2, <1>6, <2>5, Zenon DEF HibernateObject, At, OperationPhases
    <3>2. Capturing(c)
      BY <2>1, <2>5, Zenon DEF Capturing
    <3>3. Quiet(c)'
      BY <1>1, <3>2, Zenon DEF Preserved, Operation, Quiet, Held
    <3>4. Operation(c)'
      BY <1>1, <2>1, <2>2, <2>5, <3>1, <3>3, Zenon DEF Operation, hibernationOperationTerminal
    <3>5. op[c].phase \notin {"DeprovisioningSource", "Completed"}
      BY <2>1, <2>5, Zenon DEF hibernationOperationTerminal
    <3> QED
      BY <1>1, <1>2, <1>4, <1>6, <2>1, <3>4, <3>5, OpStep, Zenon DEF tamossPass
  <2>6. CASE /\ op[c].phase = "DeprovisioningSource"
             /\ h.to = At(op[c], "Completed") /\ tam.phase = "Hibernated" /\ tam.last = c
    <3>1. /\ h.to.phase = "Completed" /\ h.to.committed = op[c].committed
          /\ h.to.exists = op[c].exists /\ h.to.finalizer = op[c].finalizer
          /\ h.to.deleting = op[c].deleting
      <4>1. "Completed" \in OperationPhases
        BY Zenon DEF OperationPhases
      <4> QED
        BY <1>2, <1>6, <2>6, <4>1, AtFields
    <3>2. ~Capturing(c)'
      BY <2>2, <3>1, Zenon DEF Capturing, hibernationOperationTerminal
    <3>3. tam.active # c /\ op[c].committed
      BY <2>6, OpsAssumption, Zenon DEF Preserved, Holding, Operation
    <3>4. Operation(c)'
      BY <1>1, <2>1, <2>2, <3>1, <3>2, <3>3, Zenon DEF Operation, Quiet
    <3> QED
      BY <1>1, <1>2, <1>4, <1>6, <3>1, <3>3, <3>4, OpStep, Zenon DEF tamossPass
  <2> QED
    BY <1>6, <2>1, <2>3, <2>4, <2>5, <2>6 DEF Reports
<1> QED
  BY <1>4, <1>5, <1>6, Zenon

\* Deleting the Cluster leaves the artifact of the operation that holds the lifecycle.
LEMMA DeprovisionStep ==
    ASSUME Preserved, NEW c \in Ops, t = Idle, Capturing(c), op[c].phase = "DeprovisioningSource",
           deprovisionHibernateSource(c)
    PROVE  Preserved'
<1>1. /\ UNCHANGED <<tam, op, backup, store, manifest, gens, replicas, pods, dest, tamC, opC,
                     tamossPass, acked, toggles, faults>>
      /\ cluster # NoCluster /\ cluster' = [cluster EXCEPT !.deleting = TRUE]
      /\ ReturnHibernate(c, TRUE)
  BY Zenon DEF deprovisionHibernateSource, caches, ghosts
<1>2. /\ h' = Idle /\ hdirty' \subseteq Ops /\ HibernateMemory' /\ TamossMemory'
      /\ t' = t /\ tdirty' = tdirty
  BY <1>1, Returned, Zenon DEF Preserved
<1>3. cluster \in ClusterObject
  BY Zenon DEF Preserved, TypeOK
<1>4. /\ cluster' \in ClusterObject /\ cluster'.deleting = TRUE /\ cluster'.gen = cluster.gen
      /\ cluster'.ready = cluster.ready /\ cluster'.data = cluster.data
      /\ cluster'.source = cluster.source
  BY <1>1, <1>3, Zenon DEF ClusterObject
<1>5. cluster' # NoCluster
  BY <1>4, NoClusterFields, Zenon
<1>6. TypeOK'
  BY <1>1, <1>2, <1>4, ZenonT(40) DEF Preserved, TypeOK
<1>7. \A o \in Ops : Operation(o)'
  <2> SUFFICES ASSUME NEW o \in Ops PROVE Operation(o)'
    BY Zenon
  <2>1. Capturing(o)' <=> Capturing(o)
    BY <1>1, Zenon DEF Capturing, hibernationOperationTerminal
  <2>2. Held(o)' <=> Held(o)
    BY <1>1, Zenon DEF Held
  <2>3. Quiet(o)'
    BY <1>1, <1>4, <2>1, <2>2, ZenonT(40) DEF Preserved, Operation, Quiet
  <2> QED
    BY <1>1, <2>3, Zenon DEF Preserved, Operation, hibernationOperationTerminal
<1>8. Database'
  <2>1. Held(c) /\ c \in manifest /\ store[c].data = acked
    BY Zenon DEF Preserved, Operation, Quiet
  <2>2. tam.phase # "Hibernated"
    BY <1>1, Zenon DEF Preserved, Database
  <2>3. Kept(c)'
    BY <1>1, <2>1, <2>2, Zenon DEF Kept, Held
  <2>4. \A s \in Ops : Restoring(s) => Restoring(s)'
    BY <1>1, Zenon DEF Restoring
  <2>5. ~cluster.ready => cluster.source \in Ops /\ Restoring(cluster.source)
    BY <1>1, Zenon DEF Preserved, Database
  <2>6. (~cluster.ready => cluster.source \in Ops /\ Restoring(cluster.source))'
    BY <1>4, <2>4, <2>5, Zenon
  <2> QED
    BY <1>1, <1>4, <2>2, <2>3, <2>6, ZenonT(40) DEF Preserved, Database
<1>9. Holding'
  BY <1>1, Zenon DEF Preserved, Holding
<1> QED
  BY <1>1, <1>2, <1>6, <1>7, <1>8, <1>9, Zenon DEF Preserved

\* Once the Cluster is gone the artifact is what the instance wakes from.
LEMMA CompleteStep ==
    ASSUME Preserved, NEW c \in Ops, NEW next \in {"status", "unfinalize"}, NEW to \in HibernateObject,
           t = Idle, opC = op, tamC = tam, Capturing(c), op[c].phase = "DeprovisioningSource",
           op[c].finalizer,
           next = "status" => to = At(op[c], "Completed") /\ ~op[c].deleting,
           next = "unfinalize" => op[c].deleting,
           completeHibernateLifecycle(c, next, to)
    PROVE  Preserved'
<1> DEFINE l == LifecycleHibernated(tam, c)
<1>1. /\ UNCHANGED <<op, backup, store, manifest, cluster, gens, replicas, pods, dest, tamC, opC,
                     tamossPass, acked, toggles, faults>>
      /\ cluster = NoCluster /\ hdirty' = hdirty \ {c}
      /\ patchTamossLifecycleStatus(tam, l, l)
      /\ h' = InPass(c, next, patched(tam, l, l), to)
  BY Zenon DEF completeHibernateLifecycle, hibernateFrame, caches, ghosts
<1>2. op[c] \in HibernateObject /\ tam \in TamossObject
  BY Zenon DEF Preserved, TypeOK
<1>3. /\ l \in TamossObject /\ l.phase = "Hibernated" /\ l.active = NoRef /\ l.last = c
      /\ SameArtifacts(l, tam)
  BY <1>2, HibernatedFields, Zenon
<1> HIDE DEF l
<1>4. tam' = l /\ patched(tam, l, l) = l
  BY <1>1, Zenon DEF patchTamossLifecycleStatus, patched
<1>5. h' = [pc |-> next, op |-> c, mem |-> op[c], tmem |-> l, to |-> to]
  BY <1>1, <1>4, Zenon DEF InPass
<1>6. /\ h' \in HibernatePasses /\ h'.pc = next /\ h'.op = c /\ h'.mem = op[c] /\ h'.to = to
  BY <1>2, <1>3, <1>5, Zenon DEF HibernatePasses
<1>7. op[c].exists /\ ~hibernationOperationTerminal(op[c]) /\ c # NoRef
  BY OpsAssumption, Zenon DEF Capturing
<1>8. HibernateMemory'
  <2>1. CASE next = "status"
    <3>1. Reports(c)'
      BY <1>3, <1>4, <1>6, <2>1, Zenon DEF Reports
    <3> QED
      BY <1>1, <1>6, <1>7, <2>1, <3>1, Zenon DEF HibernateMemory, hibernationOperationTerminal
  <2>2. CASE next = "unfinalize"
    BY <1>1, <1>3, <1>4, <1>6, <1>7, <2>2, Zenon DEF HibernateMemory
  <2> QED
    BY <2>1, <2>2, Zenon
<1>9. TypeOK'
  BY <1>1, <1>3, <1>4, <1>6, ZenonT(40) DEF Preserved, TypeOK, tamossPass
<1>10. TamossMemory' /\ Holding'
  BY <1>1, <1>3, <1>4, Zenon DEF TamossMemory, Holding, tamossPass
<1>11. Held(c) /\ replicas = 0 /\ ~pods /\ c \in manifest /\ store[c].data = acked
  BY Zenon DEF Preserved, Operation, Quiet
<1>12. \A o \in Ops : Capturing(o) => o = c
  <2> SUFFICES ASSUME NEW o \in Ops, Capturing(o) PROVE o = c
    BY Zenon
  <2>1. Held(o)
    BY Zenon DEF Preserved, Operation, Quiet
  <2>2. o # NoRef
    BY OpsAssumption, Zenon
  <2>3. tam.active # NoRef <=> tam.phase = "Hibernating"
    BY Zenon DEF Preserved, Holding
  <2> QED
    BY <1>7, <1>11, <2>1, <2>2, <2>3, Zenon DEF Held
<1>13. \A o \in Ops : Operation(o)'
  <2> SUFFICES ASSUME NEW o \in Ops PROVE Operation(o)'
    BY Zenon
  <2>1. Capturing(o)' <=> Capturing(o)
    BY <1>1, Zenon DEF Capturing, hibernationOperationTerminal
  <2>2. Held(c)'
    BY <1>3, <1>4, Zenon DEF Held
  <2>3. Quiet(o)'
    BY <1>1, <1>12, <2>1, <2>2, ZenonT(40) DEF Preserved, Operation, Quiet
  <2>4. tam'.active # o
    BY <1>3, <1>4, OpsAssumption, Zenon
  <2> QED
    BY <1>1, <2>3, <2>4, Zenon DEF Preserved, Operation
<1>14. Database'
  <2>1. Kept(c)'
    BY <1>1, <1>3, <1>4, <1>11, Zenon DEF Kept
  <2> QED
    BY <1>1, <1>3, <1>4, <1>11, <2>1, NoClusterFields, Zenon DEF Database
<1> QED
  BY <1>1, <1>8, <1>9, <1>10, <1>13, <1>14, Zenon DEF Preserved

LEMMA DeprovisioningStep ==
    ASSUME Orderly, Preserved, NEW c \in Ops, reconcileHibernateSourceDeprovisioning(c)
    PROVE  Preserved'
<1>1. /\ t = Idle /\ opC = op /\ tamC = tam
      /\ op[c].exists /\ ~op[c].deleting /\ op[c].finalizer
      /\ op[c].phase = "DeprovisioningSource" /\ ~hibernationOperationTerminal(op[c])
  BY BeginsHibernate, Zenon DEF reconcileHibernateSourceDeprovisioning, Runs, Reconcilable
<1>2. backup[c] = "completed" /\ op[c] \in HibernateObject
  BY <1>1, Zenon DEF Preserved, Operation, TypeOK
<1>3. Capturing(c)
  BY <1>1, <1>2, Zenon DEF Capturing
<1>4. CASE deprovisionHibernateSource(c)
  BY <1>1, <1>3, <1>4, DeprovisionStep, Zenon
<1>5. CASE completeHibernateLifecycle(c, "status", At(op[c], "Completed"))
  <2>1. At(op[c], "Completed") \in HibernateObject
    BY <1>2, Zenon DEF At, HibernateObject, OperationPhases
  <2> QED
    BY <1>1, <1>3, <1>5, <2>1, CompleteStep, Zenon
<1> QED
  BY <1>1, <1>4, <1>5, Zenon DEF reconcileHibernateSourceDeprovisioning

LEMMA FinalizeCommittedStep ==
    ASSUME Orderly, Preserved, NEW c \in Ops, finalizeCommitted(c)
    PROVE  Preserved'
<1>1. /\ t = Idle /\ opC = op /\ tamC = tam
      /\ op[c].exists /\ op[c].deleting
      /\ op[c].phase = "DeprovisioningSource"
  BY BeginsHibernate, Zenon DEF finalizeCommitted, Finalizing, Committed
<1>2. backup[c] = "completed" /\ op[c] \in HibernateObject /\ op[c].finalizer
  BY <1>1, Zenon DEF Preserved, Operation, TypeOK
<1>3. Capturing(c)
  BY <1>1, <1>2, Zenon DEF Capturing, hibernationOperationTerminal
<1>4. CASE deprovisionHibernateSource(c)
  BY <1>1, <1>3, <1>4, DeprovisionStep, Zenon
<1>5. CASE completeHibernateLifecycle(c, "unfinalize", op[c])
  BY <1>1, <1>2, <1>3, <1>5, CompleteStep, Zenon
<1>6. CASE ReturnHibernate(c, TRUE) /\ UNCHANGED <<tam, op, backup>> /\ hibernateFrame
  <2>1. UNCHANGED <<tam, op, backup, store, manifest, cluster, gens, replicas, pods, dest, tamC,
                    opC, tamossPass, acked, toggles, faults>>
    BY <1>6, Zenon DEF hibernateFrame, caches, ghosts
  <2>2. /\ h' = Idle /\ hdirty' \subseteq Ops /\ HibernateMemory' /\ TamossMemory'
        /\ t' = t /\ tdirty' = tdirty
    BY <1>1, <1>6, <2>1, Returned, Zenon DEF Preserved
  <2>3. TypeOK'
    BY <2>1, <2>2, Zenon DEF Preserved, TypeOK
  <2> QED
    BY <2>1, <2>2, <2>3, PassEnds, Zenon
<1> QED
  BY <1>1, <1>4, <1>5, <1>6, Zenon DEF finalizeCommitted

\* A deleted operation that had not committed is reported as failed.
LEMMA FailDeletedStep ==
    ASSUME Preserved, FailDeleted
    PROVE  Preserved'
<1>1. /\ UNCHANGED <<tam, backup, store, manifest, cluster, gens, replicas, pods, dest, tamC,
                     opC, tamossPass, acked, toggles, faults>>
      /\ h.pc = "failing"
  BY Zenon DEF FailDeleted, hibernateFrame, caches, ghosts
<1>2. /\ h # Idle /\ h \in HibernatePasses /\ t = Idle /\ h.op \in Ops
      /\ h.mem \in HibernateObject /\ h.to \in HibernateObject
  BY <1>1, InHibernatePass, Zenon DEF HibernatePlaces
<1>3. PICK c \in Ops : c = h.op
  BY <1>2, Zenon
<1>4. /\ op[c].exists /\ op[c].finalizer /\ op[c].deleting /\ h.mem.exists /\ h.mem.finalizer
      /\ h.mem.deleting /\ op[c].phase = h.mem.phase /\ tam.active # c
      /\ h.to = At(h.mem, "Failed") /\ h.mem.phase \notin {"DeprovisioningSource", "Completed"}
  BY <1>1, <1>2, <1>3, ZenonT(40) DEF Preserved, HibernateMemory
<1>5. /\ h.to.phase = "Failed" /\ h.to.exists = h.mem.exists
      /\ h.to.finalizer = h.mem.finalizer /\ h.to.deleting = h.mem.deleting
  <2>1. "Failed" \in OperationPhases
    BY Zenon DEF OperationPhases
  <2>2. ASSUME NEW m \in HibernateObject
        PROVE  LET z == At(m, "Failed")
               IN  z.phase = "Failed" /\ z.exists = m.exists /\ z.finalizer = m.finalizer
                   /\ z.deleting = m.deleting
    BY <2>1, AtFields, Zenon
  <2> QED
    BY <1>2, <1>4, <2>2, Zenon
<1>6. TamossMemory' /\ t' = t /\ tdirty' = tdirty
  BY <1>1, <1>2, Zenon DEF TamossMemory, tamossPass
<1>7. CASE h.mem = op[c] \/ h.mem = h.to
  <2>1. h' = [h EXCEPT !.pc = "unfinalize"] /\ hdirty' = hdirty
    BY <1>3, <1>7, Zenon DEF FailDeleted
  <2>2. /\ h' \in HibernatePasses /\ h' # Idle /\ h'.pc = "unfinalize" /\ h'.op = c
        /\ h'.mem = h.mem
    BY <1>2, <1>3, <2>1, Zenon DEF HibernatePasses, Idle
  <2>3. CASE h.mem = h.to
    <3>1. op' = op
      BY <1>3, <2>3, Zenon DEF FailDeleted
    <3>2. HibernateMemory'
      BY <1>1, <1>4, <1>5, <2>2, <2>3, <3>1, Zenon DEF HibernateMemory
    <3>3. TypeOK'
      BY <1>1, <1>6, <2>1, <2>2, <3>1, ZenonT(40) DEF Preserved, TypeOK
    <3> QED
      BY <1>1, <1>6, <3>1, <3>2, <3>3, PassEnds, Zenon
  <2>4. CASE h.mem # h.to
    <3>1. op' = [op EXCEPT ![c] = h.to]
      BY <1>3, <1>7, <2>4, Zenon DEF FailDeleted
    <3>2. op'[c] = h.to
      BY <1>2, <3>1, OpUpdate, Zenon DEF Preserved
    <3>3. HibernateMemory'
      BY <1>1, <1>4, <1>5, <2>2, <3>2, Zenon DEF HibernateMemory
    <3>4. ~Capturing(c)'
      BY <1>5, <3>2, Zenon DEF Capturing, hibernationOperationTerminal
    <3>5. Operation(c)'
      BY <1>1, <1>4, <1>5, <3>2, <3>4, Zenon DEF Operation, Quiet
    <3>6. hdirty' \subseteq Ops
      BY <2>1, Zenon DEF Preserved, TypeOK
    <3> QED
      BY <1>1, <1>2, <1>4, <1>6, <2>2, <3>1, <3>3, <3>5, <3>6, OpStep, Zenon
  <2> QED
    BY <2>3, <2>4, Zenon
<1>8. CASE ~(h.mem = op[c] \/ h.mem = h.to)
  <2>1. ReturnHibernate(c, TRUE) /\ op' = op
    BY <1>3, <1>8, Zenon DEF FailDeleted
  <2>2. h' = Idle /\ hdirty' \subseteq Ops /\ HibernateMemory'
    BY <1>1, <1>2, <2>1, Returned, Zenon DEF Preserved
  <2>3. TypeOK'
    BY <1>1, <1>6, <2>1, <2>2, ZenonT(40) DEF Preserved, TypeOK
  <2> QED
    BY <1>1, <1>6, <2>1, <2>2, <2>3, PassEnds, Zenon
<1> QED
  BY <1>7, <1>8, Zenon

\* The operation disappears, and nothing refers to it any longer.
LEMMA RemoveFinalizerStep ==
    ASSUME Preserved, removeFinalizer
    PROVE  Preserved'
<1>1. /\ UNCHANGED <<tam, store, manifest, cluster, gens, replicas, pods, dest, tamC,
                     opC, tamossPass, acked, toggles, faults>>
      /\ h.pc = "unfinalize"
  BY Zenon DEF removeFinalizer, hibernateFrame, caches, ghosts
<1>2. h # Idle /\ t = Idle /\ h.op \in Ops
  BY <1>1, InHibernatePass, Zenon DEF HibernatePlaces
<1>3. PICK c \in Ops : c = h.op
  BY <1>2, Zenon
<1>4. tam.active # c
  BY <1>1, <1>2, <1>3, ZenonT(40) DEF Preserved, HibernateMemory
<1>5. /\ op' = [op EXCEPT ![c] = NoHibernate] /\ ReturnHibernate(c, FALSE)
      /\ backup' = [backup EXCEPT ![c] = IF @ = "foreign" THEN @ ELSE "none"]
  BY <1>3, Zenon DEF removeFinalizer
<1>6. /\ h' = Idle /\ hdirty' \subseteq Ops /\ HibernateMemory' /\ TamossMemory'
      /\ t' = t /\ tdirty' = tdirty
  BY <1>1, <1>2, <1>5, Returned, Zenon DEF Preserved
<1>7. /\ op' \in [Ops -> HibernateObject] /\ op'[c] = NoHibernate
      /\ \A o \in Ops \ {c} : op'[o] = op[o]
  BY <1>5, NewFields, OpUpdate, Zenon DEF Preserved
<1>8. /\ backup' \in [Ops -> {"none", "running", "completed", "failed", "foreign"}]
      /\ backup'[c] \in {"none", "foreign"} /\ \A o \in Ops \ {c} : backup'[o] = backup[o]
  BY <1>5, Zenon DEF Preserved, TypeOK
<1>9. TypeOK'
  BY <1>1, <1>6, <1>7, <1>8, ZenonT(40) DEF Preserved, TypeOK
<1>10. Operation(c)'
  BY <1>1, <1>4, <1>7, <1>8, NewFields, Zenon DEF Operation, Quiet, Capturing
<1>11. \A o \in Ops : Operation(o)'
  BY <1>1, <1>7, <1>8, <1>10, OneOperation, Zenon DEF Preserved
<1>12. Database'
  BY <1>1, <1>4, <1>7, NewFields, OneOperationKept, Zenon DEF Preserved
<1>13. Holding'
  BY <1>1, Zenon DEF Preserved, Holding
<1> QED
  BY <1>1, <1>6, <1>9, <1>11, <1>12, <1>13, Zenon DEF Preserved

LEMMA HibernateConflictStep ==
    ASSUME Preserved, HibernateConflict
    PROVE  Preserved'
<1>1. /\ UNCHANGED <<tam, op, backup, store, manifest, cluster, gens, replicas, pods, dest, tamC,
                     opC, tamossPass, acked, toggles, faults>>
      /\ h.pc = "capture" /\ ReturnHibernate(h.op, TRUE)
  BY Zenon DEF HibernateConflict, objects, caches, ghosts
<1>2. h # Idle /\ t = Idle /\ h.op \in Ops
  BY <1>1, InHibernatePass, Zenon DEF HibernatePlaces
<1>3. /\ h' = Idle /\ hdirty' \subseteq Ops /\ HibernateMemory' /\ TamossMemory'
      /\ t' = t /\ tdirty' = tdirty
  BY <1>1, <1>2, Returned, Zenon DEF Preserved
<1>4. TypeOK'
  BY <1>1, <1>3, Zenon DEF Preserved, TypeOK
<1> QED
  BY <1>1, <1>3, <1>4, PassEnds, Zenon

\* An operation deleted before its commit gives the lifecycle back.
LEMMA FinalizeAbortedStep ==
    ASSUME Orderly, Preserved, NEW c \in Ops, finalizeAborted(c)
    PROVE  Preserved'
<1>1. /\ UNCHANGED <<op, backup, store, manifest, cluster, gens, replicas, pods, dest, tamC,
                     opC, tamossPass, acked, toggles, faults>>
      /\ t = Idle /\ opC = op /\ tamC = tam /\ hdirty' = hdirty \ {c}
      /\ op[c].exists /\ op[c].deleting
      /\ ~(op[c].phase = "DeprovisioningSource" /\ op[c].committed)
  BY BeginsHibernate, Zenon DEF finalizeAborted, Finalizing, Committed, hibernateFrame, caches,
     ghosts
<1>2. op[c] \in HibernateObject /\ tam \in TamossObject
  BY Zenon DEF Preserved, TypeOK
<1>3. op[c].finalizer /\ op[c].phase # "DeprovisioningSource"
  BY <1>1, Zenon DEF Preserved, Operation
<1>4. ~Capturing(c)
  BY <1>1, <1>3, Zenon DEF Capturing
<1>5. hdirty' \subseteq Ops
  BY <1>1, Zenon DEF Preserved, TypeOK
<1>6. TamossMemory'
  BY <1>1, Zenon DEF TamossMemory, tamossPass
<1>7. CASE op[c].phase = "Completed"
  <2>1. h' = InPass(c, "unfinalize", tam, op[c]) /\ tam' = tam
    BY <1>1, <1>7, Zenon DEF finalizeAborted
  <2>2. h' = [pc |-> "unfinalize", op |-> c, mem |-> op[c], tmem |-> tam, to |-> op[c]]
    BY <1>1, <2>1, Zenon DEF InPass
  <2>3. h' \in HibernatePasses /\ h'.pc = "unfinalize" /\ h'.op = c /\ h'.mem = op[c]
    BY <1>2, <2>2, Zenon DEF HibernatePasses
  <2>4. tam.active # c
    BY <1>7, Zenon DEF Preserved, Operation, hibernationOperationTerminal
  <2>5. HibernateMemory'
    BY <1>1, <1>3, <1>7, <2>1, <2>3, <2>4, Zenon DEF HibernateMemory
  <2>6. TypeOK'
    BY <1>1, <1>5, <2>1, <2>3, Zenon DEF Preserved, TypeOK, tamossPass
  <2> QED
    BY <1>1, <1>6, <2>1, <2>5, <2>6, PassEnds, Zenon
<1>8. CASE op[c].phase # "Completed"
  <2> DEFINE f == IF tam.active = c THEN LifecycleFailed(tam, c) ELSE tam
             z == At(op[c], "Failed")
  <2>1. /\ patchTamossLifecycleStatus(tam, f, f)
        /\ h' = InPass(c, "failing", patched(tam, f, f), z)
    BY <1>1, <1>8, Zenon DEF finalizeAborted
  <2>2. f \in TamossObject /\ f.active # c
    BY <1>2, FailedFields, OpsAssumption, ZenonT(40)
  <2>3. z \in HibernateObject
    <3>1. "Failed" \in OperationPhases
      BY Zenon DEF OperationPhases
    <3> QED
      BY <1>2, <3>1, AtFields, Zenon
  <2> HIDE DEF f, z
  <2>4. tam' = f /\ patched(tam, f, f) = f
    BY <2>1, Zenon DEF patchTamossLifecycleStatus, patched
  <2>5. h' = [pc |-> "failing", op |-> c, mem |-> op[c], tmem |-> f, to |-> z]
    BY <1>1, <2>1, <2>4, Zenon DEF InPass
  <2>6. h' \in HibernatePasses /\ h'.pc = "failing" /\ h'.op = c /\ h'.mem = op[c] /\ h'.to = z
    BY <1>2, <2>2, <2>3, <2>5, Zenon DEF HibernatePasses
  <2>7. HibernateMemory'
    BY <1>1, <1>3, <1>8, <2>2, <2>4, <2>6, Zenon DEF HibernateMemory, z
  <2>8. TypeOK'
    BY <1>1, <1>5, <2>2, <2>4, <2>6, ZenonT(40) DEF Preserved, TypeOK, tamossPass
  <2>9. CASE tam.active = c
    BY <1>1, <1>3, <1>4, <1>6, <2>4, <2>7, <2>8, <2>9, ReleasedStep, Zenon DEF f
  <2>10. CASE tam.active # c
    BY <1>1, <1>6, <2>4, <2>7, <2>8, <2>10, PassEnds, Zenon DEF f
  <2> QED
    BY <2>9, <2>10, Zenon
<1> QED
  BY <1>7, <1>8, Zenon

-----------------------------------------------------------------------------
(* The invariant.                                                          *)

LEMMA Starts == Init => Preserved
<1> SUFFICES ASSUME Init PROVE Preserved
  BY Zenon
<1>1. NewTamoss \in TamossObject /\ NewTamoss.active = NoRef /\ NewTamoss.phase = "Running"
  <2>1. NoRef \in Refs /\ "Running" \in LifecyclePhases /\ {} \in SUBSET Ops /\ 0 \in 0..MaxCycles
    BY OpsAssumption DEF Refs, LifecyclePhases
  <2> QED
    BY <2>1, Zenon DEF NewTamoss, TamossObject
<1>2. /\ cluster \in ClusterObject /\ cluster.ready = TRUE /\ cluster.data = 0
      /\ cluster.deleting = FALSE /\ cluster.gen = 1
  BY Zenon DEF Init, ClusterObject, Refs
<1>3. NoCapture \in Capture
  BY Zenon DEF NoCapture, Capture
<1>4. op \in [Ops -> HibernateObject] /\ \A o \in Ops : op[o] = NoHibernate
  BY NewFields, Zenon DEF Init
<1>5. /\ backup \in [Ops -> {"none", "running", "completed", "failed", "foreign"}]
      /\ \A o \in Ops : backup[o] \in {"none", "foreign"}
  BY Zenon DEF Init
<1>6. TypeOK
  BY <1>1, <1>2, <1>3, <1>4, <1>5, Zenon DEF Init, TypeOK
<1>7. cluster # NoCluster
  BY <1>2, NoClusterFields, Zenon
<1>8. TamossMemory /\ HibernateMemory
  BY Zenon DEF Init, TamossMemory, HibernateMemory
<1>9. \A o \in Ops : Operation(o)
  <2> SUFFICES ASSUME NEW o \in Ops PROVE Operation(o)
    BY Zenon
  <2>1. tam.active # o
    BY <1>1, OpsAssumption, Zenon DEF Init
  <2> QED
    BY <1>4, <1>5, <2>1, NewFields, Zenon DEF Operation, Quiet, Capturing
<1>10. Holding /\ Database
  BY <1>1, <1>2, <1>7, Zenon DEF Init, Holding, Database
<1> QED
  BY <1>6, <1>8, <1>9, <1>10, Zenon DEF Preserved, Init

LEMMA TamossSteps ==
    ASSUME Orderly, Preserved, TamossStep
    PROVE  Preserved'
<1>1. CASE TamossPass \/ ensureHibernationCycleOperation \/ abortSpecHibernation
  BY <1>1, TamossPassStep, EnsureCycleStep, AbortStep, Zenon
<1>2. CASE recordHibernationCycle \/ ContinueDriven
  BY <1>2, RecordCycleStep, ContinueDrivenStep, Zenon
<1>3. ASSUME NEW o \in Ops, recordResumed(o) \/ recordArtifactCleanup(o) \/ deleteResumeArtifact(o)
      PROVE  Preserved'
  BY <1>3, RecordResumedStep, RecordCleanupStep, DeleteArtifactStep, Zenon
<1>4. CASE reconcileCNPG \/ applyTamossDesiredObjects \/ patchTamossStatus \/ TamossConflict
  BY <1>4, ReconcileCNPGStep, ApplyStep, PatchStatusStep, TamossConflictStep, Zenon
<1> QED
  BY <1>1, <1>2, <1>3, <1>4, Zenon DEF TamossStep

LEMMA HibernateSteps ==
    ASSUME Orderly, Preserved, NEW o \in Ops, HibernateStep(o)
    PROVE  Preserved'
<1>1. CASE HibernateNotFound(o) \/ HibernateTerminal(o) \/ addFinalizer(o)
  BY <1>1, NothingToDoStep, AddFinalizerStep, Zenon
<1>2. CASE acceptOperationRetry(o) \/ HibernateDeterred(o) \/ acquireHibernateLifecycle(o)
  BY <1>2, RetryAcceptedStep, DeterredStep, AcquireStep, Zenon
<1>3. CASE reconcileHibernateSourceDeprovisioning(o) \/ finalizeCommitted(o) \/ finalizeAborted(o)
  BY <1>3, DeprovisioningStep, FinalizeCommittedStep, FinalizeAbortedStep, Zenon
<1> QED
  BY <1>1, <1>2, <1>3, Zenon DEF HibernateStep

LEMMA HibernatePassSteps ==
    ASSUME Preserved, HibernateContinues
    PROVE  Preserved'
<1>1. CASE quiesceTamossWorkloads \/ captureDatabase \/ writeHibernateManifest
  BY <1>1, QuiesceStep, CaptureStep, ManifestStep, Zenon
<1>2. CASE setHibernateLifecycleFailed \/ ReportStatus \/ FailDeleted
  BY <1>2, SetFailedStep, ReportStatusStep, FailDeletedStep, Zenon
<1>3. CASE removeFinalizer \/ HibernateConflict
  BY <1>3, RemoveFinalizerStep, HibernateConflictStep, Zenon
<1> QED
  BY <1>1, <1>2, <1>3, Zenon DEF HibernateContinues

LEMMA OuterSteps ==
    ASSUME Orderly, Preserved, Cnpg \/ Environment \/ PodsFollow \/ DestinationRecovers
    PROVE  Preserved'
<1>1. CASE ClusterBecomesReady \/ ClusterIsGone \/ PodsFollow
  BY <1>1, ClusterReadyStep, ClusterGoneStep, PodsStep, Zenon
<1>2. ASSUME NEW o \in Ops, BackupCompletes(o) \/ BackupFails(o)
      PROVE  Preserved'
  BY <1>2, BackupCompletesStep, BackupFailsStep, Zenon
<1>3. ASSUME NEW o \in Ops, CreateOp(o) \/ DeleteOp(o) \/ RetryOp(o) \/ DeferCleanup(o)
      PROVE  Preserved'
  BY <1>3, CreateOpStep, DeleteOpStep, RetryOpStep, DeferStep, Zenon
<1>4. CASE Write \/ Enable \/ Disable \/ uploadFails \/ Restart
  BY <1>4, WriteStep, ToggleStep, UploadFailsStep, RestartStep, Zenon
<1>5. CASE DestinationChanges \/ DestinationRecovers
  BY <1>5, DestinationStep, Zenon
<1> QED
  BY <1>1, <1>2, <1>3, <1>4, <1>5, Zenon DEF Cnpg, Environment

LEMMA Stays == Orderly /\ Preserved /\ [Next]_vars => Preserved'
<1> SUFFICES ASSUME Orderly, Preserved, [Next]_vars PROVE Preserved'
  BY Zenon
<1>1. CASE TamossStep
  BY <1>1, TamossSteps, Zenon
<1>2. ASSUME NEW o \in Ops, HibernateStep(o) PROVE Preserved'
  BY <1>2, HibernateSteps, Zenon
<1>3. CASE SyncTamoss \/ \E o \in Ops : SyncOp(o)
  BY <1>3, SyncStep, Zenon
<1>4. CASE HibernateContinues
  BY <1>4, HibernatePassSteps, Zenon
<1>5. CASE Cnpg \/ Environment \/ PodsFollow \/ DestinationRecovers
  BY <1>5, OuterSteps, Zenon
<1>6. CASE UNCHANGED vars
  <2>1. /\ UNCHANGED <<tam, op, backup, store, manifest, cluster, gens, replicas, pods, dest, tamC,
                       opC, t, tdirty, h, hdirty, acked, toggles, faults>>
    BY <1>6, Zenon DEF vars, objects, caches, tamossPass, hibernatePass, ghosts
  <2>2. TypeOK'
    BY <2>1, Zenon DEF Preserved, TypeOK
  <2> QED
    BY <2>1, <2>2, StatusReflexive, OuterFrame, Zenon
<1> QED
  BY <1>1, <1>2, <1>3, <1>4, <1>5, <1>6, Zenon DEF Next

LEMMA AlwaysPreserved == ASSUME Orderly PROVE Spec => []Preserved
<1>1. Init => Preserved
  BY Starts, Zenon
<1>2. Preserved /\ [Next]_vars => Preserved'
  BY Stays, Zenon
<1> QED
  BY <1>1, <1>2, PTL DEF Spec

-----------------------------------------------------------------------------
(* What the invariant shows.                                               *)

\* The database that serves holds every acknowledged write, through any number of
\* hibernations, resumes, retries, aborts and operator restarts.
THEOREM NoLostWritesTheorem == ASSUME Orderly PROVE Spec => []NoLostWrites
<1>1. Preserved => NoLostWrites
  BY Zenon DEF Preserved, Database, NoLostWrites
<1> QED
  BY <1>1, AlwaysPreserved, PTL

\* While there is no database its only copy stays in the bucket: retention deletes
\* an artifact only after the database restored from it has become ready.
THEOREM OnlyCopyTheorem == ASSUME Orderly PROVE Spec => []OnlyCopyKept
<1>1. Preserved => OnlyCopyKept
  BY Zenon DEF Preserved, Database, Kept, Restoring, OnlyCopyKept
<1> QED
  BY <1>1, AlwaysPreserved, PTL

\* A hibernated instance runs no workload.
THEOREM QuiescedTheorem == ASSUME Orderly PROVE Spec => []QuiescedWhileHibernated
<1>1. Preserved => QuiescedWhileHibernated
  BY Zenon DEF Preserved, Database, QuiescedWhileHibernated
<1> QED
  BY <1>1, AlwaysPreserved, PTL

\* The lifecycle is never held by an operation that is gone.
THEOREM ActiveTheorem == ASSUME Orderly PROVE Spec => []ActiveOperationExists
<1>1. Preserved => ActiveOperationExists
  <2>1. Preserved => tam.active \in Ops \cup {NoRef}
    BY Zenon DEF Preserved, TypeOK, TamossObject, Refs
  <2> QED
    BY <2>1, Zenon DEF Preserved, Operation, ActiveOperationExists
<1> QED
  BY <1>1, AlwaysPreserved, PTL

\* Only a hibernate pass marks the Cluster for deletion.
LEMMA MarksCluster ==
    ASSUME Preserved, Next, ~cluster.deleting, cluster'.deleting
    PROVE  \E o \in Ops : reconcileHibernateSourceDeprovisioning(o) \/ finalizeCommitted(o)
<1>1. cluster' # cluster
  BY Zenon
<1> USE DEF caches, tamossPass, hibernatePass, ghosts, objects
<1>2. ASSUME TamossStep PROVE FALSE
  <2>1. CASE reconcileCNPG
    <3>1. CASE cluster # NoCluster
      BY <1>1, <2>1, <3>1, Zenon DEF reconcileCNPG
    <3>2. CASE cluster = NoCluster
      <4>1. cluster' = [gen |-> gens + 1, ready |-> FALSE, deleting |-> FALSE,
                        source |-> t.mem.restore, data |-> 0]
        BY <2>1, <3>2, Zenon DEF reconcileCNPG
      <4>2. cluster'.deleting = FALSE
        BY <4>1, Zenon
      <4> QED
        BY <4>2, Zenon
    <3> QED
      BY <3>1, <3>2, Zenon
  <2>2. CASE TamossPass \/ ContinueDriven \/ ensureHibernationCycleOperation
    BY <1>1, <2>2, Zenon DEF TamossPass, ContinueDriven, ensureHibernationCycleOperation
  <2>3. CASE recordHibernationCycle \/ abortSpecHibernation \/ TamossConflict
    BY <1>1, <2>3, Zenon DEF recordHibernationCycle, abortSpecHibernation, TamossConflict
  <2>4. CASE applyTamossDesiredObjects \/ patchTamossStatus
    BY <1>1, <2>4, Zenon DEF applyTamossDesiredObjects, patchTamossStatus
  <2>5. CASE \E o \in Ops : recordResumed(o) \/ recordArtifactCleanup(o) \/ deleteResumeArtifact(o)
    BY <1>1, <2>5, Zenon DEF recordResumed, recordArtifactCleanup, deleteResumeArtifact,
       retentionFrame
  <2> QED
    BY <1>2, <2>1, <2>2, <2>3, <2>4, <2>5, Zenon DEF TamossStep
<1>3. ASSUME HibernateContinues PROVE FALSE
  <2>1. CASE quiesceTamossWorkloads \/ HibernateConflict
    BY <1>1, <2>1, Zenon DEF quiesceTamossWorkloads, HibernateConflict
  <2>2. CASE captureDatabase \/ writeHibernateManifest \/ setHibernateLifecycleFailed
    BY <1>1, <2>2, Zenon DEF captureDatabase, writeHibernateManifest,
       setHibernateLifecycleFailed, captureFrame
  <2>3. CASE ReportStatus \/ FailDeleted \/ removeFinalizer
    BY <1>1, <2>3, Zenon DEF ReportStatus, FailDeleted, removeFinalizer, hibernateFrame
  <2> QED
    BY <1>3, <2>1, <2>2, <2>3, Zenon DEF HibernateContinues
<1>4. ASSUME NEW o \in Ops, HibernateStep(o)
      PROVE  reconcileHibernateSourceDeprovisioning(o) \/ finalizeCommitted(o)
  <2>1. CASE HibernateNotFound(o) \/ addFinalizer(o) \/ acceptOperationRetry(o) \/ HibernateTerminal(o)
    BY <1>1, <2>1, Zenon DEF HibernateNotFound, addFinalizer, acceptOperationRetry,
       HibernateTerminal, hibernateFrame
  <2>2. CASE HibernateDeterred(o) \/ acquireHibernateLifecycle(o) \/ finalizeAborted(o)
    BY <1>1, <2>2, Zenon DEF HibernateDeterred, acquireHibernateLifecycle, finalizeAborted,
       hibernateFrame
  <2> QED
    BY <1>4, <2>1, <2>2, Zenon DEF HibernateStep
<1>5. ASSUME Cnpg PROVE FALSE
  <2>1. CASE ClusterBecomesReady
    <3>1. cluster' = [cluster EXCEPT !.ready = TRUE,
                      !.data = IF cluster.source = NoRef THEN 0 ELSE store[cluster.source].data]
      BY <2>1, Zenon DEF ClusterBecomesReady
    <3>2. cluster \in ClusterObject
      BY Zenon DEF Preserved, TypeOK
    <3>3. cluster'.deleting = cluster.deleting
      BY <3>1, <3>2, Zenon DEF ClusterObject
    <3> QED
      BY <3>3, Zenon
  <2>2. CASE ClusterIsGone
    BY <2>2, Zenon DEF ClusterIsGone
  <2>3. CASE \E o \in Ops : BackupCompletes(o)
    BY <1>1, <2>3, Zenon DEF BackupCompletes
  <2> QED
    BY <1>5, <2>1, <2>2, <2>3, Zenon DEF Cnpg
<1>6. ASSUME Environment PROVE FALSE
  <2>1. CASE Write
    <3>1. cluster' = [cluster EXCEPT !.data = @ + 1]
      BY <2>1, Zenon DEF Write
    <3>2. cluster \in ClusterObject
      BY Zenon DEF Preserved, TypeOK
    <3>3. cluster'.deleting = cluster.deleting
      BY <3>1, <3>2, Zenon DEF ClusterObject
    <3> QED
      BY <3>3, Zenon
  <2>2. CASE Enable \/ Disable \/ DestinationChanges \/ uploadFails \/ Restart
    BY <1>1, <2>2, Zenon DEF Enable, Disable, DestinationChanges, uploadFails, Restart, envFrame
  <2>3. CASE \E o \in Ops : BackupFails(o) \/ DeferCleanup(o)
    BY <1>1, <2>3, Zenon DEF BackupFails, DeferCleanup, retentionFrame
  <2>4. CASE \E o \in Ops : CreateOp(o) \/ DeleteOp(o) \/ RetryOp(o)
    BY <1>1, <2>4, Zenon DEF CreateOp, DeleteOp, RetryOp, envFrame
  <2> QED
    BY <1>6, <2>1, <2>2, <2>3, <2>4, Zenon DEF Environment
<1>7. ASSUME SyncTamoss \/ PodsFollow \/ DestinationRecovers \/ \E o \in Ops : SyncOp(o) PROVE FALSE
  BY <1>1, <1>7, Zenon DEF SyncTamoss, PodsFollow, DestinationRecovers, SyncOp, envFrame
<1> QED
  BY <1>2, <1>3, <1>4, <1>5, <1>6, <1>7, Zenon DEF Next

\* The Cluster that is deleted is the one that the committed artifact was captured from.
THEOREM DeletesTheorem == ASSUME Orderly PROVE Spec => DeletesOnlyCaptured
<1>1. Preserved /\ [Next]_vars
      => [~cluster.deleting /\ cluster'.deleting
          => \E o \in manifest : op[o].committed /\ store[o].gen = cluster.gen]_vars
  <2> SUFFICES ASSUME Preserved, Next, ~cluster.deleting, cluster'.deleting
               PROVE  \E o \in manifest : op[o].committed /\ store[o].gen = cluster.gen
    BY Zenon DEF vars, objects
  <2>1. PICK c \in Ops : reconcileHibernateSourceDeprovisioning(c) \/ finalizeCommitted(c)
    BY MarksCluster, Zenon
  <2>2. opC = op
    BY <2>1, BeginsHibernate, Zenon
       DEF reconcileHibernateSourceDeprovisioning, Runs, finalizeCommitted, Finalizing
  <2>3. op[c].phase = "DeprovisioningSource" /\ op[c].exists
    BY <2>1, <2>2, Zenon
       DEF reconcileHibernateSourceDeprovisioning, Runs, Reconcilable, finalizeCommitted, Finalizing, Committed
  <2>4. Capturing(c) /\ backup[c] = "completed" /\ c \in manifest /\ op[c].committed
    BY <2>3, Zenon DEF Preserved, Operation, Capturing, hibernationOperationTerminal
  <2>5. CASE cluster = NoCluster
    <3>1. cluster' = cluster
      BY <2>1, <2>5, Zenon DEF reconcileHibernateSourceDeprovisioning, finalizeCommitted,
         hibernateFrame,
                        deprovisionHibernateSource, completeHibernateLifecycle
    <3> QED
      BY <3>1, Zenon
  <2>6. CASE cluster # NoCluster
    BY <2>4, <2>6, Zenon DEF Preserved, Operation, Quiet
  <2> QED
    BY <2>5, <2>6, Zenon
<1> QED
  BY <1>1, AlwaysPreserved, PTL DEF Spec, DeletesOnlyCaptured
=============================================================================
