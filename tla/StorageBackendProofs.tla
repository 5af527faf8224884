------------------------ MODULE StorageBackendProofs ------------------------
(***************************************************************************)
(* For every set of backends, every provider and every bound: the table    *)
(* never has two default rows, whatever the caches show; when the          *)
(* StorageBackend cache is current, the bucket of a live backend is kept   *)
(* and the Tamoss outlives its default backend; and, when the state        *)
(* ConfigMaps are current too, a finalized backend leaves nothing behind.  *)
(***************************************************************************)
EXTENDS StorageBackend, TLAPS

-----------------------------------------------------------------------------
(* One default row.                                                        *)

\* Rows have the flag, and at most one has it set.
Defaults ==
    /\ rows = [b \in Backends |-> rows[b]]
    /\ \A b \in Backends : "dflt" \in DOMAIN rows[b]
    /\ \A b, c \in Backends : rows[b].dflt /\ rows[c].dflt => b = c

\* The registration transaction keeps a single default row.
LEMMA RegistrationKeepsDefaults ==
    ASSUME Defaults, NEW b \in Backends, NEW rev, rows' = storageBackendRegistrationSQL(b, rev)
    PROVE  Defaults'
<1>1. \A c \in Backends : c # b =>
         rows'[c] = IF IsDefault(b, rev) THEN [rows[c] EXCEPT !.dflt = FALSE] ELSE rows[c]
  BY Zenon DEF storageBackendRegistrationSQL
<1>2. rows'[b] = [rev |-> rev, dflt |-> IsDefault(b, rev)]
  BY Zenon DEF storageBackendRegistrationSQL
<1>3. rows' = [c \in Backends |-> rows'[c]]
  BY Zenon DEF storageBackendRegistrationSQL
<1>4. \A c \in Backends : "dflt" \in DOMAIN rows'[c]
  <2>1. "dflt" \in DOMAIN rows'[b]
    BY <1>2, Zenon
  <2>2. \A c \in Backends : c # b => DOMAIN rows'[c] = DOMAIN rows[c]
    BY <1>1, Zenon
  <2> QED
    BY <2>1, <2>2, Zenon DEF Defaults
<1>5. rows'[b].dflt => IsDefault(b, rev)
  BY <1>2
<1>6. \A c \in Backends : c # b /\ rows'[c].dflt => ~IsDefault(b, rev) /\ rows[c].dflt
  BY <1>1, Zenon DEF Defaults
<1> QED
  BY <1>3, <1>4, <1>5, <1>6, Zenon DEF Defaults

LEMMA DeregistrationKeepsDefaults ==
    ASSUME Defaults, NEW b \in Backends, rows' = storageBackendDeregistrationSQL(b)
    PROVE  Defaults'
<1>1. /\ rows' = [c \in Backends |-> rows'[c]] /\ rows'[b] = NoRow
      /\ \A c \in Backends : c # b => rows'[c] = rows[c]
  BY Zenon DEF storageBackendDeregistrationSQL, Defaults
<1>2. "dflt" \in DOMAIN NoRow /\ ~NoRow.dflt
  BY Zenon DEF NoRow
<1> QED
  BY <1>1, <1>2, Zenon DEF Defaults

LEMMA DefaultsStep == Defaults /\ [Next]_vars => Defaults'
<1> SUFFICES ASSUME Defaults, [Next]_vars PROVE Defaults'
  BY Zenon
<1>1. ASSUME NEW b \in Backends, NEW k \in {"reg", "dereg"}, Committed(b, k)
      PROVE  Defaults'
  BY <1>1, RegistrationKeepsDefaults, DeregistrationKeepsDefaults, Zenon DEF Committed
<1>2. CASE UNCHANGED rows
  BY <1>2, Zenon DEF Defaults
<1>3. CASE CollectTamoss
  <2>1. rows' = [b \in Backends |-> NoRow]
    BY <1>3, Zenon DEF CollectTamoss
  <2>2. "dflt" \in DOMAIN NoRow /\ ~NoRow.dflt
    BY Zenon DEF NoRow
  <2> QED
    BY <2>1, <2>2, Zenon DEF Defaults
<1>4. CASE \E b \in Backends, k \in {"reg", "dereg"} : RunScript(b, k) \/ JobFail(b, k)
  <2>1. PICK b \in Backends, k \in {"reg", "dereg"} : Committed(b, k) \/ UNCHANGED rows
    BY <1>4, Zenon DEF RunScript, JobFail
  <2> QED
    BY <2>1, <1>1, <1>2, Zenon
<1>5. ASSUME Work \/ TamossWork \/ Users \/ CallFails \/ Restart
             \/ (\E b \in Backends : Take(b)) \/ (\E k \in Lagging : Sync(k))
      PROVE  UNCHANGED rows
  <2>1. CASE Work
    BY <2>1, Zenon DEF Work, world, reconcileStorageBackendCredentialsStage, EnsureBucket,
          storageBackendBucketStateConfigMap, reconcileStorageBackendDatabase,
          storageBackendDBStateConfigMap, reconcileRuntimeCredentialsSecret,
          updateStorageBackendStatus, reconcileStorageBackendBucketDeletion,
          reconcileStorageBackendDatabaseDeletion, deleteStorageBackendCleanupObjects,
          DropCredentials, RemoveFinalizer
  <2>2. CASE TamossWork
    BY <2>2, Zenon DEF TamossWork, world, finalizeTamoss, ensureDefaultStorageBackend,
          applyTamossDesiredObjects, TamossGone
  <2>3. CASE Users
    BY <2>3, Zenon DEF Users, world, CreateBackend, DeleteBackend, EditBackend, DeleteTamoss,
          EditOrigins, BeginUpgrade, LoseSecret, RestoreSecret
  <2>4. CASE CallFails \/ Restart \/ (\E b \in Backends : Take(b)) \/ (\E k \in Lagging : Sync(k))
    BY <2>4, Zenon DEF CallFails, Restart, Take, Skip, AddFinalizer, Start, Sync, world
  <2> QED
    BY <1>5, <2>1, <2>2, <2>3, <2>4, Zenon
<1>6. CASE Cluster
  <2>1. CASE \/ SchemaReady \/ (\E b \in Owned : EnsureCreds(b))
             \/ (\E b \in Backends, k \in {"reg", "dereg"} : CollectJob(b, k))
             \/ (\E b \in Backends : CollectOrphans(b))
    <3>1. UNCHANGED rows
      BY <2>1, Zenon DEF SchemaReady, EnsureCreds, CollectJob, CollectOrphans, world
    <3> QED
      BY <3>1, <1>2, Zenon
  <2> QED
    BY <1>6, <2>1, <1>3, <1>4, Zenon DEF Cluster
<1>7. CASE UNCHANGED vars
  BY <1>7, <1>2, Zenon DEF vars, world
<1> QED
  BY <1>2, <1>5, <1>6, <1>7, Zenon DEF Next

\* However registrations, deregistrations, retries of failed Jobs and the
\* removal of the Tamoss interleave, and whatever the caches show, the
\* tamoss_storage_backends table never holds two default rows.
THEOREM OneDefaultTheorem == Spec => []OneDefault
<1>1. Init => Defaults
  <2> SUFFICES ASSUME Init PROVE Defaults
    BY Zenon
  <2>1. rows = [b \in Backends |-> NoRow]
    BY Zenon DEF Init
  <2>2. "dflt" \in DOMAIN NoRow /\ ~NoRow.dflt
    BY Zenon DEF NoRow
  <2> QED
    BY <2>1, <2>2, Zenon DEF Defaults
<1>2. Defaults => OneDefault
  BY Zenon DEF Defaults, OneDefault
<1> QED
  BY <1>1, <1>2, DefaultsStep, PTL DEF Spec

-----------------------------------------------------------------------------
(* The finalizers.  These results need the StorageBackend informer to show    *)
(* what the API server holds; Jobs and ConfigMaps may lag.                    *)

ObjectFields == {"exists", "uid", "deleting", "fin", "phase"}

\* An object whose finalizer still has to run.
Doomed(s) == s.exists /\ s.deleting /\ s.fin

Objects == /\ sb = [b \in Backends |-> sb[b]]
           /\ \A b \in Backends : ObjectFields \subseteq DOMAIN sb[b]

TheTamoss == /\ {"exists", "deleting", "cors"} \subseteq DOMAIN tamoss
             /\ tamoss.cors \in Nat \ {0}

Worker == /\ {"at", "b", "t"} \subseteq DOMAIN pass
          /\ pass.at = "ensure" => pass.t.cors # 0
          /\ pass.at = "deleteBucket" => pass.b \in Backends /\ Doomed(sb[pass.b])

Seen == "sb" \in DOMAIN cache /\ cache.sb = sb

\* A pass that is about to delete a bucket works for an object that is still
\* there, still terminating and still held by its finalizer.
Guarded == Objects /\ TheTamoss /\ Worker /\ Seen

LEMMA ObserveShows ==
    ASSUME "sb" \notin Lagging, Observe
    PROVE  Seen'
BY Zenon DEF Observe, Seen

\* Deleting an object keeps its fields, and keeps it while its finalizer is on.
LEMMA DeletedFacts ==
    ASSUME NEW s, ObjectFields \subseteq DOMAIN s
    PROVE  /\ ObjectFields \subseteq DOMAIN Deleted(s)
           /\ Doomed(s) => Doomed(Deleted(s))
BY Zenon DEF ObjectFields, Deleted, Doomed, NoSB

LEMMA UnfinalizedFacts ==
    ASSUME NEW s, ObjectFields \subseteq DOMAIN s
    PROVE  ObjectFields \subseteq DOMAIN Unfinalized(s)
BY Zenon DEF ObjectFields, Unfinalized, NoSB

LEMMA CreatedFacts ==
    ASSUME NEW b
    PROVE  ObjectFields \subseteq DOMAIN Created(b)
BY Zenon DEF ObjectFields, Created, NoSB

\* The worker's promise survives a step that ends the pass or moves it on, and
\* a step elsewhere that keeps the doomed objects doomed.
LEMMA WorkerMoves ==
    ASSUME Worker, {"at", "b", "t"} \subseteq DOMAIN pass',
           pass'.at \notin {"ensure", "deleteBucket"}
    PROVE  Worker'
BY Zenon DEF Worker

LEMMA WorkerWaits ==
    ASSUME Worker, UNCHANGED pass,
           \A b \in Backends : Doomed(sb[b]) => Doomed(sb'[b])
    PROVE  Worker'
BY Zenon DEF Worker, Doomed

LEMMA GuardedTake ==
    ASSUME Guarded, "sb" \notin Lagging, NEW b \in Backends, Take(b)
    PROVE  Guarded'
<1>1. Seen'
  BY ObserveShows, Zenon DEF Take, Skip, AddFinalizer, Start, Then
<1>2. TheTamoss'
  BY Zenon DEF Guarded, TheTamoss, Take, Skip, AddFinalizer, Start, world
<1>3. CASE Skip(b)
  <2>1. UNCHANGED <<sb, pass>>
    BY <1>3, Zenon DEF Skip
  <2>2. Objects' /\ Worker'
    BY <2>1, Zenon DEF Guarded, Objects, Worker, Doomed
  <2> QED
    BY <1>1, <1>2, <2>2, Zenon DEF Guarded
<1>4. CASE AddFinalizer(b)
  <2>1. UNCHANGED pass /\ (UNCHANGED sb \/ sb' = [sb EXCEPT ![b].fin = TRUE])
    BY <1>4, Zenon DEF AddFinalizer
  <2>2. /\ Objects'
        /\ \A c \in Backends : Doomed(sb[c]) => Doomed(sb'[c])
    BY <2>1 DEF Guarded, Objects, ObjectFields, Doomed
  <2>3. Worker'
    BY <2>1, <2>2, WorkerWaits, Zenon DEF Guarded
  <2> QED
    BY <1>1, <1>2, <2>2, <2>3, Zenon DEF Guarded
<1>5. CASE Start(b)
  <2> DEFINE s == cache.sb[b]
             stage == IF Finalizing(s) THEN FirstFinalStage(b) ELSE FirstStage(b, s.rev)
             out == Outcome(stage)
  <2>1. /\ UNCHANGED sb /\ Finalized(s)
        /\ pass' = IF stage = "wait" THEN Idle
                   ELSE [at |-> IF out = NoOut THEN stage ELSE "status",
                         b |-> b, s |-> s, t |-> tamoss, out |-> out]
    BY <1>5, Zenon DEF Start
  <2>2. Objects'
    BY <2>1, Zenon DEF Guarded, Objects
  <2>3. stage = "deleteBucket" => Doomed(sb[b])
    <3>1. FirstStage(b, s.rev) # "deleteBucket"
      BY Zenon DEF FirstStage, BucketStage
    <3>2. stage = "deleteBucket" => Finalizing(s)
      BY <3>1, Zenon
    <3> QED
      BY <2>1, <3>2, Zenon DEF Guarded, Seen, Finalizing, Finalized, Doomed
  <2>4. Worker'
    <3>1. CASE stage = "wait"
      <4>1. pass' = Idle
        BY <2>1, <3>1, Zenon
      <4> QED
        BY <4>1, WorkerMoves, Zenon DEF Guarded, Idle
    <3>2. CASE stage # "wait"
      <4> HIDE DEF s, stage, out
      <4>1. pass' = [at |-> IF out = NoOut THEN stage ELSE "status",
                     b |-> b, s |-> s, t |-> tamoss, out |-> out]
        BY <2>1, <3>2, Zenon
      <4>2. /\ {"at", "b", "t"} \subseteq DOMAIN pass'
            /\ pass'.b = b /\ pass'.t = tamoss
            /\ pass'.at = "status" \/ pass'.at = stage
        BY <4>1, Zenon
      <4>3. pass'.at = "ensure" => pass'.t.cors # 0
        BY <4>2, Zenon DEF Guarded, TheTamoss
      <4>4. pass'.at = "deleteBucket" => pass'.b \in Backends /\ Doomed(sb'[pass'.b])
        BY <4>2, <2>3, <2>1, Zenon
      <4> QED
        BY <4>2, <4>3, <4>4, Zenon DEF Worker, Doomed
    <3> QED
      BY <3>1, <3>2, Zenon
  <2> QED
    BY <1>1, <1>2, <2>2, <2>4, Zenon DEF Guarded
<1> QED
  BY <1>3, <1>4, <1>5, Zenon DEF Take

LEMMA GuardedWork ==
    ASSUME Guarded, "sb" \notin Lagging, Work
    PROVE  Guarded'
<1> USE DEF Guarded
<1>1. Seen'
  <2>1. Observe
    BY Zenon DEF Work, Then, Again, reconcileStorageBackendCredentialsStage, EnsureBucket,
          storageBackendBucketStateConfigMap, reconcileStorageBackendDatabase,
          storageBackendDBStateConfigMap, reconcileRuntimeCredentialsSecret,
          updateStorageBackendStatus, reconcileStorageBackendBucketDeletion,
          reconcileStorageBackendDatabaseDeletion, deleteStorageBackendCleanupObjects,
          DropCredentials, RemoveFinalizer
  <2> QED
    BY <2>1, ObserveShows, Zenon
<1>2. TheTamoss'
  <2>1. UNCHANGED tamoss
    BY Zenon DEF Work, world, reconcileStorageBackendCredentialsStage, EnsureBucket,
          storageBackendBucketStateConfigMap, reconcileStorageBackendDatabase,
          storageBackendDBStateConfigMap, reconcileRuntimeCredentialsSecret,
          updateStorageBackendStatus, reconcileStorageBackendBucketDeletion,
          reconcileStorageBackendDatabaseDeletion, deleteStorageBackendCleanupObjects,
          DropCredentials, RemoveFinalizer
  <2> QED
    BY <2>1, Zenon DEF TheTamoss
<1>3. Worker'
  <2>1. ASSUME NEW x, Report(x, TRUE) \/ Report(x, FALSE) PROVE Worker'
    <3>1. {"at", "b", "t"} \subseteq DOMAIN pass' /\ pass'.at = "status"
      BY <2>1, Zenon DEF Report, Worker
    <3> QED
      BY <3>1, WorkerMoves, Zenon
  <2>2. ASSUME NEW x, x \notin {"ensure", "deleteBucket"}, Go(x) PROVE Worker'
    <3>1. {"at", "b", "t"} \subseteq DOMAIN pass' /\ pass'.at = x
      BY <2>2, Zenon DEF Go, Worker
    <3> QED
      BY <3>1, <2>2, WorkerMoves, Zenon
  <2>3. ASSUME pass' = Idle PROVE Worker'
    BY <2>3, WorkerMoves, Zenon DEF Idle
  <2>4. \/ pass' = Idle \/ (\E x : Report(x, TRUE) \/ Report(x, FALSE))
        \/ \E x : x \notin {"ensure", "deleteBucket"} /\ Go(x)
    <3>1. CASE reconcileStorageBackendCredentialsStage \/ reconcileRuntimeCredentialsSecret
      BY <3>1, Zenon DEF reconcileStorageBackendCredentialsStage,
         reconcileRuntimeCredentialsSecret
    <3>2. CASE EnsureBucket
      BY <3>2, Zenon DEF EnsureBucket, Again
    <3>3. CASE storageBackendBucketStateConfigMap \/ storageBackendDBStateConfigMap
      BY <3>3, Zenon DEF storageBackendBucketStateConfigMap, storageBackendDBStateConfigMap
    <3>4. CASE reconcileStorageBackendDatabase
      BY <3>4, Zenon DEF reconcileStorageBackendDatabase, Again
    <3>5. CASE updateStorageBackendStatus \/ RemoveFinalizer
      BY <3>5, Zenon DEF updateStorageBackendStatus, RemoveFinalizer
    <3>6. CASE reconcileStorageBackendBucketDeletion
      BY <3>6, Zenon DEF reconcileStorageBackendBucketDeletion, Again
    <3>7. CASE reconcileStorageBackendDatabaseDeletion
      BY <3>7, Zenon DEF reconcileStorageBackendDatabaseDeletion, Again
    <3>8. CASE deleteStorageBackendCleanupObjects \/ DropCredentials
      BY <3>8, Zenon DEF deleteStorageBackendCleanupObjects, DropCredentials
    <3> QED
      BY <3>1, <3>2, <3>3, <3>4, <3>5, <3>6, <3>7, <3>8, Zenon DEF Work
  <2> QED
    BY <2>1, <2>2, <2>3, <2>4, Zenon
<1>4. Objects'
  <2>1. CASE UNCHANGED sb
    BY <2>1, Zenon DEF Objects
  <2>2. CASE updateStorageBackendStatus
    <3>1. UNCHANGED sb \/ (sb[pass.b] = pass.s /\ sb' = [sb EXCEPT ![pass.b] = StatusOf(pass.s)])
      BY <2>2, Zenon DEF updateStorageBackendStatus
    <3>2. DOMAIN pass.s \subseteq DOMAIN StatusOf(pass.s)
      BY Zenon DEF StatusOf
    <3> QED
      BY <2>1, <3>1, <3>2, Zenon DEF Objects
  <2>3. CASE RemoveFinalizer
    <3>1. UNCHANGED sb \/ sb' = [sb EXCEPT ![pass.b] = Unfinalized(sb[pass.b])]
      BY <2>3, Zenon DEF RemoveFinalizer
    <3> QED
      BY <2>1, <3>1, UnfinalizedFacts, Zenon DEF Objects
  <2> QED
    BY <2>1, <2>2, <2>3, Zenon
       DEF Work, reconcileStorageBackendCredentialsStage, EnsureBucket,
          storageBackendBucketStateConfigMap, reconcileStorageBackendDatabase,
          storageBackendDBStateConfigMap, reconcileRuntimeCredentialsSecret,
          reconcileStorageBackendBucketDeletion, reconcileStorageBackendDatabaseDeletion,
          deleteStorageBackendCleanupObjects, DropCredentials
<1> QED
  BY <1>1, <1>2, <1>3, <1>4, Zenon

LEMMA GuardedElsewhere ==
    ASSUME Guarded, "sb" \notin Lagging,
           TamossWork \/ Cluster \/ Users
    PROVE  Guarded'
<1> USE DEF Guarded
<1>1. Observe /\ UNCHANGED pass
  BY Zenon DEF TamossWork, Cluster, Users, TThen, Elsewhere, finalizeTamoss,
        ensureDefaultStorageBackend, applyTamossDesiredObjects, TamossGone, SchemaReady,
        CollectTamoss, EnsureCreds, RunScript, JobFail, CollectJob, CollectOrphans,
        CreateBackend, DeleteBackend, EditBackend, DeleteTamoss, EditOrigins,
        BeginUpgrade, LoseSecret, RestoreSecret
<1>2. TheTamoss'
  <2>1. \/ UNCHANGED tamoss \/ tamoss' = [tamoss EXCEPT !.exists = FALSE]
        \/ tamoss' = [tamoss EXCEPT !.schema = tamoss.version]
        \/ tamoss' = [tamoss EXCEPT !.deleting = TRUE]
        \/ tamoss' = [tamoss EXCEPT !.cors = @ + 1]
        \/ tamoss' = [tamoss EXCEPT !.version = @ + 1]
    BY Zenon DEF TamossWork, Cluster, Users, world, finalizeTamoss,
          ensureDefaultStorageBackend, applyTamossDesiredObjects, TamossGone, SchemaReady,
          CollectTamoss, EnsureCreds, RunScript, JobFail, CollectJob, CollectOrphans,
          CreateBackend, DeleteBackend, EditBackend, DeleteTamoss, EditOrigins,
          BeginUpgrade, LoseSecret, RestoreSecret
  <2> QED
    BY <2>1 DEF TheTamoss
<1>3. Objects' /\ \A b \in Backends : Doomed(sb[b]) => Doomed(sb'[b])
  <2>1. CASE UNCHANGED sb
    BY <2>1, Zenon DEF Objects
  <2>2. ASSUME NEW S, sb' = [b \in Backends |-> IF b \in S THEN Deleted(sb[b]) ELSE sb[b]]
        PROVE  Objects' /\ \A b \in Backends : Doomed(sb[b]) => Doomed(sb'[b])
    BY <2>2, DeletedFacts, Zenon DEF Objects
  <2>3. ASSUME NEW b \in Backends, sb' = [sb EXCEPT ![b] = Deleted(@)]
        PROVE  Objects' /\ \A c \in Backends : Doomed(sb[c]) => Doomed(sb'[c])
    BY <2>3, DeletedFacts, Zenon DEF Objects
  <2>4. CASE ensureDefaultStorageBackend
    <3>1. \A b \in Backends : sb'[b] = sb[b] \/ (~sb[b].exists /\ sb'[b] = Created(b))
      BY <2>4, Zenon DEF ensureDefaultStorageBackend
    <3>2. sb' = [b \in Backends |-> sb'[b]]
      BY <2>4, Zenon DEF ensureDefaultStorageBackend
    <3> QED
      BY <3>1, <3>2, CreatedFacts, Zenon DEF Objects, Doomed
  <2>5. ASSUME NEW b \in Backends, CreateBackend(b)
        PROVE  Objects' /\ \A c \in Backends : Doomed(sb[c]) => Doomed(sb'[c])
    <3>1. ~sb[b].exists /\ sb' = [sb EXCEPT ![b] = Created(b)]
      BY <2>5, Zenon DEF CreateBackend
    <3> QED
      BY <3>1, CreatedFacts, Zenon DEF Objects, Doomed
  <2>6. ASSUME NEW b \in Backends, NEW rev \in Revs, EditBackend(b, rev)
        PROVE  Objects' /\ \A c \in Backends : Doomed(sb[c]) => Doomed(sb'[c])
    <3>1. sb' = [sb EXCEPT ![b].rev = rev, ![b].gen = @ + 1]
      BY <2>6, Zenon DEF EditBackend
    <3> QED
      BY <3>1, Zenon DEF Objects, ObjectFields, Doomed
  <2>7. CASE TamossWork
    BY <2>7, <2>1, <2>2, <2>4, Zenon DEF TamossWork, finalizeTamoss, applyTamossDesiredObjects,
       TamossGone
  <2>8. CASE Cluster
    BY <2>8, <2>1, <2>2, Zenon DEF Cluster, SchemaReady, CollectTamoss, EnsureCreds, RunScript,
          JobFail, CollectJob, CollectOrphans
  <2>9. CASE Users
    BY <2>9, <2>1, <2>3, <2>5, <2>6, Zenon DEF Users, DeleteBackend, DeleteTamoss, EditOrigins,
          BeginUpgrade, LoseSecret, RestoreSecret
  <2> QED
    BY <2>7, <2>8, <2>9, Zenon
<1> QED
  BY <1>1, <1>2, <1>3, ObserveShows, WorkerWaits, Zenon

LEMMA GuardedStep ==
    ASSUME "sb" \notin Lagging, Guarded, [Next]_vars
    PROVE  Guarded'
<1>1. CASE CallFails
  <2>1. UNCHANGED <<sb, tamoss>> /\ pass' = Idle /\ Observe
    BY <1>1, Zenon DEF CallFails, Again, Then, world
  <2>2. Worker'
    BY <2>1, WorkerMoves, Zenon DEF Guarded, Idle
  <2> QED
    BY <2>1, <2>2, ObserveShows, Zenon DEF Guarded, Objects, TheTamoss
<1>2. CASE Restart
  <2>1. UNCHANGED <<sb, tamoss>> /\ pass' = Idle /\ cache' = live
    BY <1>2, Zenon DEF Restart, world
  <2>2. Worker'
    BY <2>1, WorkerMoves, Zenon DEF Guarded, Idle
  <2> QED
    BY <2>1, <2>2, Zenon DEF Guarded, Objects, TheTamoss, Seen, live
<1>3. ASSUME NEW k \in Lagging, Sync(k) PROVE Guarded'
  <2>1. UNCHANGED <<sb, tamoss, pass>> /\ cache' = [cache EXCEPT ![k] = live[k]]
    BY <1>3, Zenon DEF Sync, world
  <2>2. k # "sb"
    BY Zenon
  <2>3. Seen'
    BY <2>1, <2>2, Zenon DEF Guarded, Seen
  <2> QED
    BY <2>1, <2>3, Zenon DEF Guarded, Objects, TheTamoss, Worker, Doomed
<1>4. CASE UNCHANGED vars
  BY <1>4, Zenon DEF vars, world, Guarded, Objects, TheTamoss, Worker, Doomed, Seen
<1> QED
  BY <1>1, <1>2, <1>3, <1>4, GuardedTake, GuardedWork, GuardedElsewhere, Zenon DEF Next

LEMMA GuardedInvariant ==
    ASSUME "sb" \notin Lagging
    PROVE  Spec => []Guarded
<1>1. Init => Guarded
  BY DEF Init, Guarded, Objects, ObjectFields, TheTamoss, Worker, Doomed, Seen, live,
        Idle, NoSB
<1> QED
  BY <1>1, GuardedStep, PTL DEF Spec

\* With a current StorageBackend informer, and whatever Jobs, ConfigMaps,
\* faults and users do, the one S3 call that empties a bucket is made only for
\* a backend that is being deleted: reconcileStorageBackendBucketDeletion never
\* runs for a backend that is alive, or for the next bearer of its name.
THEOREM LiveBucketTheorem ==
    ASSUME "sb" \notin Lagging
    PROVE  Spec => LiveBucketKept
<1>1. ASSUME Guarded, [Next]_vars
      PROVE  [\A b \in Backends : (bucket[b] # 0 /\ bucket'[b] = 0 /\ infra')
                 => sb[b].exists /\ sb[b].deleting]_vars
  <2> SUFFICES ASSUME NEW b \in Backends, bucket[b] # 0, bucket'[b] = 0, infra'
               PROVE  sb[b].exists /\ sb[b].deleting
    BY Zenon
  <2>1. ~UNCHANGED bucket
    BY Zenon
  <2>2. \/ EnsureBucket /\ bucket' = [bucket EXCEPT ![pass.b] = pass.t.cors]
        \/ reconcileStorageBackendBucketDeletion /\ bucket' = [bucket EXCEPT ![pass.b] = 0]
    <3>1. CASE Work
      BY <2>1, <3>1, Zenon DEF Work, world, reconcileStorageBackendCredentialsStage, EnsureBucket,
            storageBackendBucketStateConfigMap, reconcileStorageBackendDatabase,
            storageBackendDBStateConfigMap, reconcileRuntimeCredentialsSecret,
            updateStorageBackendStatus, reconcileStorageBackendBucketDeletion,
            reconcileStorageBackendDatabaseDeletion, deleteStorageBackendCleanupObjects,
            DropCredentials, RemoveFinalizer, Ensure, Delete
    <3>2. CASE TamossWork \/ Cluster \/ Users
      BY <2>1, <3>2, Zenon DEF TamossWork, Cluster, Users, world, finalizeTamoss,
            ensureDefaultStorageBackend, applyTamossDesiredObjects, TamossGone, SchemaReady,
            CollectTamoss, EnsureCreds, RunScript, JobFail, CollectJob, CollectOrphans,
            CreateBackend, DeleteBackend, EditBackend, DeleteTamoss, EditOrigins,
            BeginUpgrade, LoseSecret, RestoreSecret
    <3>3. CASE \/ (\E c \in Backends : Take(c)) \/ CallFails \/ Restart
               \/ (\E k \in Lagging : Sync(k)) \/ UNCHANGED vars
      BY <2>1, <3>3, Zenon DEF Take, Skip, AddFinalizer, Start, CallFails, Restart, Sync, vars,
         world
    <3> QED
      BY <1>1, <3>1, <3>2, <3>3, Zenon DEF Next
  <2>3. CASE EnsureBucket /\ bucket' = [bucket EXCEPT ![pass.b] = pass.t.cors]
    <3>1. pass.t.cors # 0
      BY <1>1, <2>3, Zenon DEF EnsureBucket, In, Guarded, Worker
    <3> QED
      BY <2>3, <3>1
  <2>4. CASE reconcileStorageBackendBucketDeletion /\ bucket' = [bucket EXCEPT ![pass.b] = 0]
    <3>1. b = pass.b
      BY <2>4
    <3> QED
      BY <1>1, <2>4, <3>1, Zenon DEF reconcileStorageBackendBucketDeletion, In, Guarded, Worker,
         Doomed
  <2> QED
    BY <2>2, <2>3, <2>4, Zenon
<1> QED
  BY <1>1, GuardedInvariant, PTL DEF Spec, LiveBucketKept

\* With a current StorageBackend informer finalizeTamoss releases the Tamoss
\* only when no backend it owns is left, so that their finalizers ran while
\* the database, the object store and the Secrets were there.
THEOREM TamossLastTheorem ==
    ASSUME "sb" \notin Lagging
    PROVE  Spec => TamossLast
<1>1. ASSUME Guarded, [Next]_vars
      PROVE  [(tamoss.exists /\ ~tamoss'.exists) => \A b \in Owned : ~sb[b].exists]_vars
  <2> SUFFICES ASSUME tamoss.exists, ~tamoss'.exists
               PROVE  \A b \in Owned : ~sb[b].exists
    BY Zenon
  <2>1. tamoss' # tamoss
    BY Zenon
  <2>2. finalizeTamoss \/ tamoss'.exists = tamoss.exists
    <3>1. CASE Work
      BY <2>1, <3>1, Zenon DEF Work, world, reconcileStorageBackendCredentialsStage, EnsureBucket,
            storageBackendBucketStateConfigMap, reconcileStorageBackendDatabase,
            storageBackendDBStateConfigMap, reconcileRuntimeCredentialsSecret,
            updateStorageBackendStatus, reconcileStorageBackendBucketDeletion,
            reconcileStorageBackendDatabaseDeletion, deleteStorageBackendCleanupObjects,
            DropCredentials, RemoveFinalizer
    <3>2. CASE TamossWork \/ Cluster \/ Users
      BY <1>1, <2>1, <3>2, Zenon DEF TamossWork, Cluster, Users, world, Guarded, TheTamoss,
            ensureDefaultStorageBackend, applyTamossDesiredObjects, TamossGone, SchemaReady,
            CollectTamoss, EnsureCreds, RunScript, JobFail, CollectJob, CollectOrphans,
            CreateBackend, DeleteBackend, EditBackend, DeleteTamoss, EditOrigins,
            BeginUpgrade, LoseSecret, RestoreSecret
    <3>3. CASE \/ (\E c \in Backends : Take(c)) \/ CallFails \/ Restart
               \/ (\E k \in Lagging : Sync(k)) \/ UNCHANGED vars
      BY <2>1, <3>3, Zenon DEF Take, Skip, AddFinalizer, Start, CallFails, Restart, Sync, vars,
         world
    <3> QED
      BY <1>1, <3>1, <3>2, <3>3, Zenon DEF Next
  <2>3. CASE finalizeTamoss
    <3>1. OwnedStorageBackends = {}
      BY <2>1, <2>3, Zenon DEF finalizeTamoss
    <3> QED
      BY <1>1, <3>1, Zenon DEF OwnedStorageBackends, Guarded, Seen
  <2> QED
    BY <2>2, <2>3, Zenon
<1> QED
  BY <1>1, GuardedInvariant, PTL DEF Spec, TamossLast

-----------------------------------------------------------------------------
(* What a clean-up leaves.  These results also need current state           *)
(* ConfigMaps, and names that are used again only once the children of       *)
(* their last bearer are gone; Jobs may lag.                                 *)

Kinds == {"reg", "dereg"}

\* The variables are tables over the backends.
Jobs == /\ job = [b \in Backends |-> job[b]]
        /\ \A b \in Backends : /\ Kinds \subseteq DOMAIN job[b]
                               /\ \A k \in Kinds : "phase" \in DOMAIN job[b][k]

States == /\ state = [b \in Backends |-> state[b]]
          /\ \A b \in Backends : {"bucket", "db"} \subseteq DOMAIN state[b]

Buckets == bucket = [b \in Backends |-> bucket[b]]

PassFields == {"at", "b", "s", "t", "out"}

LEMMA JobsWork == ASSUME Jobs, Work PROVE Jobs'
<1>1. "phase" \in DOMAIN NoJob
  BY Zenon DEF NoJob
<1>2. \A h, o : "phase" \in DOMAIN storageBackendJob(h, o)
  BY Zenon DEF storageBackendJob
<1>3. CASE UNCHANGED job
  BY <1>3, Zenon DEF Jobs
<1>4. ASSUME NEW b, NEW k \in Kinds, NEW j, "phase" \in DOMAIN j, job' = [job EXCEPT ![b][k] = j]
      PROVE  Jobs'
  BY <1>4, Zenon DEF Jobs, Kinds
<1>5. CASE reconcileStorageBackendDatabase
  <2>1. \/ UNCHANGED job
        \/ \E h, o : job' = [job EXCEPT ![pass.b]["reg"] = storageBackendJob(h, o)]
        \/ job' = [job EXCEPT ![pass.b]["reg"] = NoJob]
    BY <1>5, Zenon DEF reconcileStorageBackendDatabase, Applied
  <2> QED
    BY <2>1, <1>1, <1>2, <1>3, <1>4, Zenon DEF Kinds
<1>6. CASE reconcileStorageBackendDatabaseDeletion
  <2>1. \/ UNCHANGED job
        \/ job' = [job EXCEPT ![pass.b]["dereg"] = storageBackendJob(1, 0)]
        \/ job' = [job EXCEPT ![pass.b]["dereg"] = NoJob]
    BY <1>6, Zenon DEF reconcileStorageBackendDatabaseDeletion, Applied
  <2> QED
    BY <2>1, <1>1, <1>2, <1>3, <1>4, Zenon DEF Kinds
<1>7. CASE deleteStorageBackendCleanupObjects
  <2> DEFINE T(k) == IF cache.job[pass.b][k] = NoJob \/ job[pass.b][k] = NoJob THEN job[pass.b][k]
                     ELSE [job[pass.b][k] EXCEPT !.term = TRUE]
             r == [reg |-> T("reg"), dereg |-> T("dereg")]
  <2>1. job' = [job EXCEPT ![pass.b] = r]
    BY <1>7, Zenon DEF deleteStorageBackendCleanupObjects
  <2>2. /\ Kinds \subseteq DOMAIN r
        /\ r["reg"] = T("reg") /\ r["dereg"] = T("dereg")
    BY Zenon DEF Kinds
  <2>3. pass.b \in Backends => \A k \in Kinds : "phase" \in DOMAIN T(k)
    BY Zenon DEF Jobs
  <2> HIDE DEF T, r
  <2>4. \A b \in Backends : job'[b] = job[b] \/ (b = pass.b /\ job'[b] = r)
    BY <2>1, Zenon DEF Jobs
  <2>5. job' = [b \in Backends |-> job'[b]]
    BY <2>1, Zenon DEF Jobs
  <2>6. pass.b \in Backends => \A k \in Kinds : "phase" \in DOMAIN r[k]
    BY <2>2, <2>3, Zenon DEF Kinds
  <2> QED
    BY <2>2, <2>4, <2>5, <2>6, Zenon DEF Jobs
<1> QED
  BY <1>3, <1>5, <1>6, <1>7, Zenon
     DEF Work, reconcileStorageBackendCredentialsStage, EnsureBucket,
         storageBackendBucketStateConfigMap, storageBackendDBStateConfigMap,
         reconcileRuntimeCredentialsSecret, updateStorageBackendStatus,
         reconcileStorageBackendBucketDeletion, DropCredentials, RemoveFinalizer

LEMMA JobsCluster == ASSUME Jobs, Cluster PROVE Jobs'
<1>1. CASE UNCHANGED job
  BY <1>1, Zenon DEF Jobs
<1>2. ASSUME NEW b \in Backends, NEW k \in Kinds, NEW j, "phase" \in DOMAIN j,
             job' = [job EXCEPT ![b][k] = j]
      PROVE  Jobs'
  BY <1>2, Zenon DEF Jobs, Kinds
<1>3. ASSUME NEW b \in Backends, NEW k \in Kinds, RunScript(b, k) \/ JobFail(b, k) PROVE Jobs'
  <2>1. PICK p : job' = [job EXCEPT ![b][k].phase = p]
    BY <1>3, Zenon DEF RunScript, JobFail
  <2>2. job' = [job EXCEPT ![b][k] = [job[b][k] EXCEPT !.phase = p]]
    BY <2>1, Zenon
  <2>3. "phase" \in DOMAIN [job[b][k] EXCEPT !.phase = p]
    BY Zenon DEF Jobs
  <2> QED
    BY <2>2, <2>3, <1>2, Zenon
<1>4. ASSUME NEW b \in Backends, NEW k \in Kinds, CollectJob(b, k) PROVE Jobs'
  <2>1. "phase" \in DOMAIN NoJob
    BY Zenon DEF NoJob
  <2> QED
    BY <1>4, <2>1, <1>2, Zenon DEF CollectJob
<1>5. ASSUME NEW b \in Backends, CollectOrphans(b) PROVE Jobs'
  <2> DEFINE r == [k \in DOMAIN job[b] |-> IF Orphan(b, job[b][k].owner) THEN NoJob ELSE job[b][k]]
  <2>1. job' = [job EXCEPT ![b] = r]
    BY <1>5, Zenon DEF CollectOrphans
  <2>2. Kinds \subseteq DOMAIN r /\ \A k \in Kinds : r[k] = NoJob \/ r[k] = job[b][k]
    BY Zenon DEF Jobs
  <2> HIDE DEF r
  <2>3. "phase" \in DOMAIN NoJob
    BY Zenon DEF NoJob
  <2>4. /\ job' = [c \in Backends |-> job'[c]] /\ job'[b] = r
        /\ \A c \in Backends : c # b => job'[c] = job[c]
    BY <2>1, Zenon DEF Jobs
  <2> QED
    BY <2>2, <2>3, <2>4, Zenon DEF Jobs
<1> QED
  BY <1>1, <1>3, <1>4, <1>5, Zenon
     DEF Cluster, Kinds, SchemaReady, CollectTamoss, EnsureCreds

\* The informers of StorageBackends and ConfigMaps are current; that of Jobs
\* shows what it showed, or what there is.
Shown == {"sb", "job", "state"} \subseteq DOMAIN cache /\ cache.sb = sb /\ cache.state = state

LEMMA ObserveShowsAll ==
    ASSUME "sb" \notin Lagging, "state" \notin Lagging, Observe
    PROVE  Shown' /\ (cache'.job = cache.job \/ cache'.job = job')
BY Zenon DEF Observe, Shown

Tables == /\ Jobs /\ States /\ Buckets /\ Shown
          /\ PassFields \subseteq DOMAIN pass

LEMMA TablesWork ==
    ASSUME "sb" \notin Lagging, "state" \notin Lagging, Tables, Work
    PROVE  Tables' /\ (cache'.job = cache.job \/ cache'.job = job')
<1>1. Shown' /\ (cache'.job = cache.job \/ cache'.job = job')
  <2>1. Observe
    BY Zenon DEF Work, Then, Again, reconcileStorageBackendCredentialsStage, EnsureBucket,
          storageBackendBucketStateConfigMap, reconcileStorageBackendDatabase,
          storageBackendDBStateConfigMap, reconcileRuntimeCredentialsSecret,
          updateStorageBackendStatus, reconcileStorageBackendBucketDeletion,
          reconcileStorageBackendDatabaseDeletion, deleteStorageBackendCleanupObjects,
          DropCredentials, RemoveFinalizer
  <2> QED
    BY <2>1, ObserveShowsAll, Zenon
<1>2. States'
  <2>1. CASE UNCHANGED state
    BY <2>1, Zenon DEF Tables, States
  <2>2. CASE \E x : state' = [state EXCEPT ![pass.b].bucket = x]
    BY <2>2, Zenon DEF Tables, States
  <2>3. CASE \E x : state' = [state EXCEPT ![pass.b].db = x]
    BY <2>3, Zenon DEF Tables, States
  <2>4. CASE state' = [state EXCEPT ![pass.b] = NoStates]
    BY <2>4, Zenon DEF Tables, States, NoStates
  <2>5. CASE storageBackendBucketStateConfigMap
    BY <2>5, <2>2, Zenon DEF storageBackendBucketStateConfigMap
  <2>6. CASE storageBackendDBStateConfigMap
    BY <2>6, <2>3, Zenon DEF storageBackendDBStateConfigMap
  <2> QED
    BY <2>1, <2>4, <2>5, <2>6, Zenon
       DEF Work, reconcileStorageBackendCredentialsStage, EnsureBucket,
          reconcileStorageBackendDatabase, reconcileRuntimeCredentialsSecret,
          updateStorageBackendStatus, reconcileStorageBackendBucketDeletion,
          reconcileStorageBackendDatabaseDeletion, deleteStorageBackendCleanupObjects,
          DropCredentials, RemoveFinalizer
<1>3. Buckets'
  <2>1. UNCHANGED bucket \/ \E x : bucket' = [bucket EXCEPT ![pass.b] = x]
    BY Zenon DEF Work, world, reconcileStorageBackendCredentialsStage, EnsureBucket,
          storageBackendBucketStateConfigMap, reconcileStorageBackendDatabase,
          storageBackendDBStateConfigMap, reconcileRuntimeCredentialsSecret,
          updateStorageBackendStatus, reconcileStorageBackendBucketDeletion,
          reconcileStorageBackendDatabaseDeletion, deleteStorageBackendCleanupObjects,
          DropCredentials, RemoveFinalizer, Ensure, Delete
  <2> QED
    BY <2>1, Zenon DEF Tables, Buckets
<1>4. PassFields \subseteq DOMAIN pass'
  <2>1. PassFields \subseteq DOMAIN Idle
    BY Zenon DEF PassFields, Idle
  <2>2. \/ pass' = Idle \/ (\E x, y : Report(x, y)) \/ (\E x : Go(x))
    BY Zenon DEF Work, Again, reconcileStorageBackendCredentialsStage, EnsureBucket,
          storageBackendBucketStateConfigMap, reconcileStorageBackendDatabase,
          storageBackendDBStateConfigMap, reconcileRuntimeCredentialsSecret,
          updateStorageBackendStatus, reconcileStorageBackendBucketDeletion,
          reconcileStorageBackendDatabaseDeletion, deleteStorageBackendCleanupObjects,
          DropCredentials, RemoveFinalizer
  <2> QED
    BY <2>1, <2>2, Zenon DEF Tables, Report, Go
<1> QED
  BY <1>1, <1>2, <1>3, <1>4, JobsWork, Zenon DEF Tables

LEMMA TablesElsewhere ==
    ASSUME "sb" \notin Lagging, "state" \notin Lagging, Tables,
           TamossWork \/ Cluster \/ Users
    PROVE  Tables' /\ (cache'.job = cache.job \/ cache'.job = job')
<1>1. Observe /\ UNCHANGED pass
  BY Zenon DEF TamossWork, Cluster, Users, TThen, Elsewhere, finalizeTamoss,
        ensureDefaultStorageBackend, applyTamossDesiredObjects, TamossGone, SchemaReady,
        CollectTamoss, EnsureCreds, RunScript, JobFail, CollectJob, CollectOrphans,
        CreateBackend, DeleteBackend, EditBackend, DeleteTamoss, EditOrigins,
        BeginUpgrade, LoseSecret, RestoreSecret
<1>2. Jobs'
  <2>1. CASE UNCHANGED job
    BY <2>1, Zenon DEF Tables, Jobs
  <2>2. TamossWork \/ Users => UNCHANGED job
    BY Zenon DEF TamossWork, Users, finalizeTamoss, ensureDefaultStorageBackend,
          applyTamossDesiredObjects, TamossGone, CreateBackend, DeleteBackend, EditBackend,
          DeleteTamoss, EditOrigins, BeginUpgrade, LoseSecret, RestoreSecret
  <2> QED
    BY <2>1, <2>2, JobsCluster, Zenon DEF Tables
<1>3. States'
  <2>1. CASE UNCHANGED state
    BY <2>1, Zenon DEF Tables, States
  <2>2. ASSUME NEW b \in Backends, CollectOrphans(b) PROVE States'
    <3> DEFINE r == [k \in DOMAIN state[b] |-> IF Orphan(b, state[b][k].owner) THEN NoState ELSE state[b][k]]
    <3>1. state' = [state EXCEPT ![b] = r]
      BY <2>2, Zenon DEF CollectOrphans
    <3>2. DOMAIN r = DOMAIN state[b]
      BY Zenon
    <3> HIDE DEF r
    <3> QED
      BY <3>1, <3>2, Zenon DEF Tables, States
  <2> QED
    BY <2>1, <2>2, Zenon DEF TamossWork, Cluster, Users, finalizeTamoss,
        ensureDefaultStorageBackend, applyTamossDesiredObjects, TamossGone, SchemaReady,
        CollectTamoss, EnsureCreds, RunScript, JobFail, CollectJob,
        CreateBackend, DeleteBackend, EditBackend, DeleteTamoss, EditOrigins,
        BeginUpgrade, LoseSecret, RestoreSecret
<1>4. Buckets'
  <2>1. UNCHANGED bucket \/ bucket' = [b \in Backends |-> 0]
    BY Zenon DEF TamossWork, Cluster, Users, world, finalizeTamoss,
          ensureDefaultStorageBackend, applyTamossDesiredObjects, TamossGone, SchemaReady,
          CollectTamoss, EnsureCreds, RunScript, JobFail, CollectJob, CollectOrphans,
          CreateBackend, DeleteBackend, EditBackend, DeleteTamoss, EditOrigins,
          BeginUpgrade, LoseSecret, RestoreSecret
  <2> QED
    BY <2>1, Zenon DEF Tables, Buckets
<1> QED
  BY <1>1, <1>2, <1>3, <1>4, ObserveShowsAll, Zenon DEF Tables

LEMMA TablesTake ==
    ASSUME "sb" \notin Lagging, "state" \notin Lagging, Tables, NEW b \in Backends, Take(b)
    PROVE  Tables' /\ (cache'.job = cache.job \/ cache'.job = job')
<1>1. Observe /\ UNCHANGED <<job, state, bucket>>
  BY Zenon DEF Take, Skip, AddFinalizer, Start, Then, world
<1>2. PassFields \subseteq DOMAIN pass'
  <2>1. CASE UNCHANGED pass \/ pass' = Idle
    BY <2>1, Zenon DEF Tables, PassFields, Idle
  <2>2. CASE \E a, s, o : pass' = [at |-> a, b |-> b, s |-> s, t |-> tamoss, out |-> o]
    BY <2>2, Zenon DEF PassFields
  <2> QED
    BY <2>1, <2>2, Zenon DEF Take, Skip, AddFinalizer, Start
<1> QED
  BY <1>1, <1>2, ObserveShowsAll, Zenon DEF Tables, Jobs, States, Buckets

-----------------------------------------------------------------------------
Managed(b) == Provider[b] = "rustfs"
Recorded(b) == state[b].bucket.hash # 0
Emptied(b) == bucket[b] = 0 \/ b \in excused
Rowless(b) == rows[b] = NoRow \/ b \in excused
IsReady(b) == sb[b].exists /\ sb[b].phase = "Ready"

\* A deregistration Job that somebody sees is one of the deletion in progress,
\* and has removed the row if it has succeeded.
Deregisters(b, j) ==
    sb[b].exists /\ j # NoJob => sb[b].deleting /\ (jobSucceeded(j) => Rowless(b))

\* Nothing is forgotten about a backend: a Ready one with a bucket has it on
\* record, until its finalization has emptied it; and what is gone has left
\* neither a bucket nor a row.
Kept(b) ==
    /\ sb[b].exists /\ ~sb[b].fin => sb[b].phase # "Ready"
    /\ sb[b].exists => state[b].bucket.owner \in {0, sb[b].uid}
    /\ ~Managed(b) => bucket[b] = 0
    /\ Managed(b) /\ IsReady(b) => Recorded(b) \/ (sb[b].deleting /\ Emptied(b))
    /\ IsHibernateDestination(b) => rows[b] = NoRow /\ job[b].reg = NoJob
    /\ Deregisters(b, job[b].dereg) /\ Deregisters(b, cache.job[b].dereg)
    /\ ~sb[b].exists /\ sb[b].phase = "Ready" =>
          Emptied(b) /\ (tamoss.exists => Rowless(b))

Building == {"missing", "ensure", "bucketState", "database", "dbState", "credentials", "status"}
Emptying == {"deregister", "cleanup", "dropCredentials", "release"}

\* What the worker relies on about the object it works for, whatever it does ...
Attending ==
    /\ pass.b \in Backends /\ sb[pass.b].exists /\ sb[pass.b].fin
    /\ sb[pass.b].uid = pass.s.uid /\ pass.t.cors # 0
    /\ ~pass.t.exists => ~tamoss.exists

\* ... and what it has established so far.
Established ==
    /\ pass.at \in Building \cup Emptying \cup {"deleteBucket"}
    /\ pass.at \notin Building => sb[pass.b].deleting
    /\ pass.at = "ensure" => Managed(pass.b)
    /\ pass.at \in {"database", "dbState", "credentials"} => ~IsHibernateDestination(pass.b)
    /\ pass.at \in Building /\ Managed(pass.b) /\ IsReady(pass.b) => Recorded(pass.b)
    /\ pass.at \in {"database", "dbState", "credentials"} /\ Managed(pass.b) => Recorded(pass.b)
    /\ pass.at = "status" /\ pass.out.phase = "Ready" /\ Managed(pass.b) => Recorded(pass.b)
    /\ pass.at \in Emptying /\ IsReady(pass.b) => Emptied(pass.b)
    /\ pass.at \in Emptying \ {"deregister"} /\ tamoss.exists => Rowless(pass.b)

Disposal == /\ \A b \in Backends : Kept(b)
            /\ pass.at # "idle" => Attending /\ Established

\* An object s that becomes r is neither created nor released from a finalizer
\* that holds it, and keeps its phase.
Soft(s, r) ==
    /\ r.phase = s.phase /\ r.uid = s.uid
    /\ r.exists => s.exists /\ (s.deleting => r.deleting) /\ (s.fin => r.fin)
    /\ s.exists /\ s.fin => r.exists

\* What a step may do to a backend without putting its disposal at risk:
\* everything but filling its bucket, forgetting its record, launching its
\* deregistration, changing its phase, and creating or releasing it.
Mild(b) ==
    /\ bucket'[b] = bucket[b] \/ bucket'[b] = 0
    /\ b \in excused => b \in excused'
    /\ (~sb[b].exists \/ sb[b].deleting) /\ rows[b] = NoRow => rows'[b] = NoRow \/ b \in excused'
    /\ sb[b].exists => state'[b].bucket = state[b].bucket
    /\ IsHibernateDestination(b) /\ rows[b] = NoRow /\ job[b].reg = NoJob
          => rows'[b] = NoRow /\ job'[b].reg = NoJob
    /\ \/ job'[b].dereg \in {job[b].dereg, NoJob}
       \/ job[b].dereg # NoJob /\ (jobSucceeded(job'[b].dereg) => rows'[b] = NoRow)
    /\ tamoss'.exists => tamoss.exists

Tame(b) == Soft(sb[b], sb'[b]) /\ Mild(b)

LEMMA TameDeregisters ==
    ASSUME NEW b, Tame(b), NEW j, Deregisters(b, j)
    PROVE  sb'[b].exists /\ j # NoJob => sb'[b].deleting /\ (jobSucceeded(j) => Rowless(b)')
<1> SUFFICES ASSUME sb'[b].exists, j # NoJob
             PROVE  sb'[b].deleting /\ (jobSucceeded(j) => Rowless(b)')
  BY Zenon
<1>1. sb[b].exists
  BY Zenon DEF Tame, Soft, Mild
<1>2. sb[b].deleting /\ (jobSucceeded(j) => Rowless(b))
  BY <1>1, Zenon DEF Deregisters
<1>3. sb'[b].deleting
  BY <1>2, Zenon DEF Tame, Soft, Mild
<1>4. Rowless(b) => Rowless(b)'
  BY <1>2, Zenon DEF Tame, Soft, Mild, Rowless
<1> QED
  BY <1>2, <1>3, <1>4, Zenon

LEMMA TameKeeps ==
    ASSUME NEW b \in Backends, Tame(b), Kept(b),
           cache'.job = cache.job \/ cache'.job = job'
    PROVE  Kept(b)'
<1>1. sb'[b].exists /\ ~sb'[b].fin => sb'[b].phase # "Ready"
  BY Zenon DEF Tame, Soft, Mild, Kept
<1>2. sb'[b].exists => state'[b].bucket.owner \in {0, sb'[b].uid}
  BY Zenon DEF Tame, Soft, Mild, Kept
<1>3. ~Managed(b) => bucket'[b] = 0
  BY Zenon DEF Tame, Soft, Mild, Kept
<1>4. Emptied(b) => Emptied(b)'
  BY Zenon DEF Tame, Soft, Mild, Emptied
<1>5. Managed(b) /\ IsReady(b)' => Recorded(b)' \/ (sb'[b].deleting /\ Emptied(b)')
  <2>1. IsReady(b)' => IsReady(b)
    BY Zenon DEF Tame, Soft, Mild, IsReady
  <2>2. IsReady(b) => (Recorded(b) => Recorded(b)')
    BY Zenon DEF Tame, Soft, Mild, IsReady, Recorded
  <2>3. IsReady(b)' /\ sb[b].deleting => sb'[b].deleting
    BY Zenon DEF Tame, Soft, Mild, IsReady
  <2> QED
    BY <2>1, <2>2, <2>3, <1>4, Zenon DEF Kept
<1>6. IsHibernateDestination(b) => rows'[b] = NoRow /\ job'[b].reg = NoJob
  BY Zenon DEF Tame, Soft, Mild, Kept
<1>7. Deregisters(b, job[b].dereg)'
  <2>1. CASE job'[b].dereg = NoJob
    BY <2>1, Zenon DEF Deregisters
  <2>2. CASE job'[b].dereg = job[b].dereg
    BY <2>2, TameDeregisters, Zenon DEF Kept, Deregisters
  <2>3. CASE job[b].dereg # NoJob /\ (jobSucceeded(job'[b].dereg) => rows'[b] = NoRow)
    <3>1. sb'[b].exists => sb'[b].deleting
      BY <2>3, Zenon DEF Tame, Soft, Mild, Kept, Deregisters
    <3> QED
      BY <2>3, <3>1, Zenon DEF Deregisters, Rowless, jobSucceeded
  <2> QED
    BY <2>1, <2>2, <2>3, Zenon DEF Tame, Soft, Mild
<1>8. Deregisters(b, cache.job[b].dereg)'
  <2>1. CASE cache'.job = job'
    BY <2>1, <1>7, Zenon DEF Deregisters
  <2>2. CASE cache'.job = cache.job
    BY <2>2, TameDeregisters, Zenon DEF Kept, Deregisters
  <2> QED
    BY <2>1, <2>2, Zenon
<1>9. ~sb'[b].exists /\ sb'[b].phase = "Ready" => Emptied(b)' /\ (tamoss'.exists => Rowless(b)')
  <2> SUFFICES ASSUME ~sb'[b].exists, sb'[b].phase = "Ready"
               PROVE  Emptied(b)' /\ (tamoss'.exists => Rowless(b)')
    BY Zenon
  <2>1. ~sb[b].exists /\ sb[b].phase = "Ready"
    BY Zenon DEF Tame, Soft, Mild, Kept
  <2>2. Rowless(b) => Rowless(b)'
    BY <2>1, Zenon DEF Tame, Soft, Mild, Rowless
  <2>3. tamoss'.exists => tamoss.exists
    BY Zenon DEF Tame, Soft, Mild
  <2> QED
    BY <2>1, <2>2, <2>3, <1>4, Zenon DEF Kept
<1> QED
  BY <1>1, <1>2, <1>3, <1>5, <1>6, <1>7, <1>8, <1>9, Zenon
     DEF Kept, Managed, IsHibernateDestination

\* What the worker relies on survives such steps.
LEMMA TameAttending ==
    ASSUME Attending, Tame(pass.b), pass'.b = pass.b, pass'.s = pass.s, pass'.t = pass.t
    PROVE  Attending'
BY Zenon DEF Attending, Tame, Soft, Mild

LEMMA TameEstablished ==
    ASSUME Attending, Established, Tame(pass.b), UNCHANGED pass
    PROVE  Established'
<1>1. PICK b \in Backends : b = pass.b /\ b = pass'.b
  BY Zenon DEF Attending
<1>2. sb[b].exists /\ Tame(b)
  BY <1>1, Zenon DEF Attending
<1>3. IsReady(b)' => IsReady(b)
  BY <1>2, Zenon DEF Tame, Soft, Mild, IsReady
<1>4. Recorded(b) => Recorded(b)'
  BY <1>2, Zenon DEF Tame, Soft, Mild, Recorded
<1>5. Emptied(b) => Emptied(b)'
  BY <1>2, Zenon DEF Tame, Soft, Mild, Emptied
<1>6. sb[b].deleting => sb'[b].deleting /\ (Rowless(b) => Rowless(b)')
  <2>1. sb'[b].exists
    BY <1>1, <1>2, Zenon DEF Attending, Tame, Soft, Mild
  <2> QED
    BY <2>1, <1>2, Zenon DEF Tame, Soft, Mild, Rowless
<1>7. tamoss'.exists => tamoss.exists
  BY <1>2, Zenon DEF Tame, Soft, Mild
<1>8. pass.at \in Emptying => pass.at \notin Building
  BY Zenon DEF Emptying, Building
<1>9. pass'.at = pass.at /\ pass'.out = pass.out
  BY Zenon
<1> QED
  BY <1>1, <1>3, <1>4, <1>5, <1>6, <1>7, <1>8, <1>9, Zenon
     DEF Established, Managed, IsHibernateDestination

-----------------------------------------------------------------------------
LEMMA SoftFacts ==
    ASSUME NEW s, ObjectFields \subseteq DOMAIN s
    PROVE  Soft(s, s) /\ Soft(s, Deleted(s)) /\ Soft(s, [s EXCEPT !.fin = TRUE])
<1>1. Soft(s, s)
  BY Zenon DEF Soft
<1>2. Soft(s, Deleted(s))
  <2>1. CASE ~s.exists
    BY <2>1, <1>1, Zenon DEF Deleted
  <2>2. CASE s.exists /\ s.fin
    <3>1. Deleted(s) = [s EXCEPT !.deleting = TRUE]
      BY <2>2, Zenon DEF Deleted
    <3> QED
      BY <3>1, <2>2, Zenon DEF Soft, ObjectFields
  <2>3. CASE s.exists /\ ~s.fin
    <3>1. Deleted(s) = [NoSB EXCEPT !.uid = s.uid, !.phase = s.phase]
      BY <2>3, Zenon DEF Deleted
    <3> QED
      BY <3>1, <2>3, Zenon DEF Soft, NoSB
  <2> QED
    BY <2>1, <2>2, <2>3, Zenon
<1>3. Soft(s, [s EXCEPT !.fin = TRUE])
  BY Zenon DEF Soft, ObjectFields
<1> QED
  BY <1>1, <1>2, <1>3, Zenon

LEMMA SoftElsewhere ==
    ASSUME Objects, TamossWork \/ Cluster \/ Users, NEW c \in Backends
    PROVE  \/ Soft(sb[c], sb'[c])
           \/ /\ ~sb[c].exists /\ Vacant(c) /\ sb'[c] = Created(c)
              /\ ensureDefaultStorageBackend \/ CreateBackend(c)
<1>1. ObjectFields \subseteq DOMAIN sb[c]
  BY Zenon DEF Objects
<1>2. CASE UNCHANGED sb
  BY <1>1, <1>2, SoftFacts, Zenon
<1>3. ASSUME NEW S, sb' = [b \in Backends |-> IF b \in S THEN Deleted(sb[b]) ELSE sb[b]]
      PROVE  Soft(sb[c], sb'[c])
  BY <1>1, <1>3, SoftFacts, Zenon
<1>4. ASSUME NEW b \in Backends, sb' = [sb EXCEPT ![b] = Deleted(@)]
      PROVE  Soft(sb[c], sb'[c])
  <2>1. sb'[c] = sb[c] \/ sb'[c] = Deleted(sb[c])
    BY <1>4, Zenon DEF Objects
  <2> QED
    BY <1>1, <2>1, SoftFacts, Zenon
<1>5. CASE ensureDefaultStorageBackend
  <2>1. sb'[c] = sb[c] \/ (~sb[c].exists /\ Vacant(c) /\ sb'[c] = Created(c))
    BY <1>5, Zenon DEF ensureDefaultStorageBackend
  <2> QED
    BY <1>1, <1>5, <2>1, SoftFacts, Zenon
<1>6. ASSUME NEW b \in Backends, CreateBackend(b)
      PROVE  \/ Soft(sb[c], sb'[c])
             \/ ~sb[c].exists /\ Vacant(c) /\ sb'[c] = Created(c) /\ CreateBackend(c)
  <2>1. ~sb[b].exists /\ Vacant(b) /\ sb' = [sb EXCEPT ![b] = Created(b)]
    BY <1>6, Zenon DEF CreateBackend
  <2>2. sb'[c] = sb[c] \/ (c = b /\ sb'[c] = Created(c))
    BY <2>1, Zenon DEF Objects
  <2> QED
    BY <1>1, <1>6, <2>1, <2>2, SoftFacts, Zenon
<1>7. ASSUME NEW b \in Backends, NEW rev \in Revs, EditBackend(b, rev)
      PROVE  Soft(sb[c], sb'[c])
  <2>1. PICK g : sb' = [sb EXCEPT ![b].rev = rev, ![b].gen = g]
    BY <1>7, Zenon DEF EditBackend
  <2>2. sb'[c] = sb[c] \/ sb'[c] = [sb[c] EXCEPT !.rev = rev, !.gen = g]
    BY <2>1, Zenon DEF Objects
  <2>3. Soft(sb[c], [sb[c] EXCEPT !.rev = rev, !.gen = g])
    BY <1>1, Zenon DEF Soft, ObjectFields
  <2> QED
    BY <1>1, <2>2, <2>3, SoftFacts, Zenon
<1>8. CASE TamossWork
  BY <1>8, <1>2, <1>3, <1>5, Zenon DEF TamossWork, finalizeTamoss, applyTamossDesiredObjects,
     TamossGone
<1>9. CASE Cluster
  BY <1>9, <1>2, <1>3, Zenon DEF Cluster, SchemaReady, CollectTamoss, EnsureCreds, RunScript,
        JobFail, CollectJob, CollectOrphans
<1>10. CASE Users
  BY <1>10, <1>2, <1>4, <1>6, <1>7, Zenon DEF Users, DeleteBackend, DeleteTamoss, EditOrigins,
        BeginUpgrade, LoseSecret, RestoreSecret
<1> QED
  BY <1>8, <1>9, <1>10, Zenon

LEMMA SameField ==
    ASSUME NEW r, NEW d
    PROVE  [[rev |-> r, dflt |-> d] EXCEPT !.dflt = d] = [rev |-> r, dflt |-> d]
BY SMT

LEMMA CommitFacts ==
    ASSUME Defaults, NEW b \in Backends, NEW k \in Kinds, Committed(b, k), NEW c \in Backends
    PROVE  /\ c # b /\ rows[c] = NoRow => rows'[c] = NoRow
           /\ k = "dereg" => rows'[b] = NoRow
           /\ k = "reg" /\ (~sb[b].exists \/ sb[b].deleting) => b \in excused'
           /\ c \in excused => c \in excused'
<1>1. [NoRow EXCEPT !.dflt = FALSE] = NoRow
  BY SameField, Zenon DEF NoRow
<1>2. c \in excused => c \in excused'
  BY Zenon DEF Committed
<1>3. CASE k = "reg"
  <2>1. rows' = storageBackendRegistrationSQL(b, job[b][k].hash)
    BY <1>3, Zenon DEF Committed
  <2>2. c # b => rows'[c] = rows[c] \/ rows'[c] = [rows[c] EXCEPT !.dflt = FALSE]
    BY <2>1, Zenon DEF storageBackendRegistrationSQL
  <2>3. (~sb[b].exists \/ sb[b].deleting) => b \in excused'
    BY <1>3, Zenon DEF Committed
  <2> QED
    BY <1>1, <1>2, <1>3, <2>2, <2>3, Zenon
<1>4. CASE k = "dereg"
  <2>1. rows' = [rows EXCEPT ![b] = NoRow]
    BY <1>4, Zenon DEF Committed, storageBackendDeregistrationSQL
  <2>2. rows'[b] = NoRow /\ (c # b => rows'[c] = rows[c])
    BY <2>1, Zenon DEF Defaults
  <2> QED
    BY <1>2, <1>4, <2>2, Zenon
<1> QED
  BY <1>3, <1>4, Zenon DEF Kinds

\* Jobs, the garbage collector, the Tamoss controller and users.
LEMMA MildJobs ==
    ASSUME Tables, Defaults, NEW c \in Backends, Kept(c), NEW b \in Backends, NEW k \in Kinds,
           RunScript(b, k) \/ JobFail(b, k)
    PROVE  Mild(c)
<1>1. UNCHANGED <<state, bucket, tamoss, sb>>
  BY Zenon DEF RunScript, JobFail
<1>2. PICK p : job' = [job EXCEPT ![b][k].phase = p] /\ job[b][k].phase = "active"
               /\ (Committed(b, k) \/ UNCHANGED <<rows, excused>>)
               /\ (p = "succeeded" => Committed(b, k))
  <2>1. CASE RunScript(b, k)
    BY <2>1, Zenon DEF RunScript
  <2>2. CASE JobFail(b, k)
    <3>1. /\ job' = [job EXCEPT ![b][k].phase = "failed"] /\ job[b][k].phase = "active"
          /\ Committed(b, k) \/ UNCHANGED <<rows, excused>>
      BY <2>2, Zenon DEF JobFail
    <3>2. "failed" # "succeeded"
      BY Zenon
    <3> QED
      BY <3>1, <3>2, Zenon
  <2> QED
    BY <2>1, <2>2, Zenon
<1>3. /\ c # b => job'[c] = job[c]
      /\ k = "reg" => job'[b].dereg = job[b].dereg
      /\ k = "dereg" => job'[b].reg = job[b].reg
      /\ k = "dereg" => job'[b].dereg.phase = p
  BY <1>2, Zenon DEF Tables, Jobs, Kinds
<1>4. NoJob.phase = "none"
  BY Zenon DEF NoJob
<1>5. c \in excused => c \in excused'
  BY <1>2, CommitFacts, Zenon
<1>6. CASE c # b
  <2>1. rows[c] = NoRow => rows'[c] = NoRow
    BY <1>2, <1>6, CommitFacts, Zenon
  <2> QED
    BY <1>1, <1>3, <1>5, <1>6, <2>1, Zenon DEF Mild
<1>7. CASE c = b /\ k = "reg"
  <2>1. job[b].reg # NoJob
    BY <1>2, <1>4, <1>7, Zenon
  <2>2. ~IsHibernateDestination(b)
    BY <2>1, <1>7, Zenon DEF Kept
  <2>3. (~sb[b].exists \/ sb[b].deleting) /\ rows[b] = NoRow => rows'[b] = NoRow \/ b \in excused'
    BY <1>2, <1>7, CommitFacts, Zenon
  <2> QED
    BY <1>1, <1>3, <1>5, <1>7, <2>2, <2>3, Zenon DEF Mild
<1>8. CASE c = b /\ k = "dereg"
  <2>1. rows[b] = NoRow \/ p = "succeeded" => rows'[b] = NoRow
    BY <1>2, <1>8, CommitFacts, Zenon
  <2>2. job[b].dereg # NoJob
    BY <1>2, <1>4, <1>8, Zenon
  <2>3. jobSucceeded(job'[b].dereg) => rows'[b] = NoRow
    BY <1>3, <1>8, <2>1, Zenon DEF jobSucceeded
  <2> QED
    BY <1>1, <1>3, <1>5, <1>8, <2>1, <2>2, <2>3, Zenon DEF Mild
<1> QED
  BY <1>6, <1>7, <1>8, Zenon DEF Kinds

LEMMA MildElsewhere ==
    ASSUME Tables, Defaults, TheTamoss, NEW c \in Backends, Kept(c),
           TamossWork \/ Cluster \/ Users, ~CreateBackend(c)
    PROVE  Mild(c)
<1>1. tamoss'.exists => tamoss.exists
  <2>1. \/ UNCHANGED tamoss \/ tamoss' = [tamoss EXCEPT !.exists = FALSE]
        \/ tamoss' = [tamoss EXCEPT !.schema = tamoss.version]
        \/ tamoss' = [tamoss EXCEPT !.deleting = TRUE]
        \/ (\E x : tamoss' = [tamoss EXCEPT !.cors = x])
        \/ (\E x : tamoss' = [tamoss EXCEPT !.version = x])
    BY Zenon DEF TamossWork, Cluster, Users, world, finalizeTamoss,
          ensureDefaultStorageBackend, applyTamossDesiredObjects, TamossGone, SchemaReady,
          CollectTamoss, EnsureCreds, RunScript, JobFail, CollectJob, CollectOrphans,
          CreateBackend, DeleteBackend, EditBackend, DeleteTamoss, EditOrigins,
          BeginUpgrade, LoseSecret, RestoreSecret
  <2> QED
    BY <2>1, Zenon DEF TheTamoss
<1>2. CASE UNCHANGED <<job, state, bucket, rows>> /\ (c \in excused => c \in excused')
  BY <1>1, <1>2, Zenon DEF Mild
<1>3. CASE TamossWork
  BY <1>3, <1>2, Zenon DEF TamossWork, world, finalizeTamoss, ensureDefaultStorageBackend,
     applyTamossDesiredObjects, TamossGone
<1>4. CASE Users
  <2>1. c \in excused => c \in excused'
    BY <1>4, Zenon DEF Users, CreateBackend, DeleteBackend, EditBackend, DeleteTamoss,
       EditOrigins, BeginUpgrade, LoseSecret, RestoreSecret
  <2>2. UNCHANGED <<job, state, bucket, rows>>
    BY <1>4, Zenon DEF Users, world, CreateBackend, DeleteBackend, EditBackend, DeleteTamoss,
       EditOrigins, BeginUpgrade, LoseSecret, RestoreSecret
  <2> QED
    BY <1>2, <2>1, <2>2, Zenon
<1>5. CASE CollectTamoss
  <2>1. bucket'[c] = 0 /\ rows'[c] = NoRow /\ UNCHANGED <<job, state, excused>>
    BY <1>5, Zenon DEF CollectTamoss
  <2> QED
    BY <1>1, <2>1, Zenon DEF Mild
<1>6. ASSUME NEW b \in Backends, NEW k \in Kinds, CollectJob(b, k) PROVE Mild(c)
  <2>1. UNCHANGED <<state, bucket, rows, excused>> /\ job' = [job EXCEPT ![b][k] = NoJob]
    BY <1>6, Zenon DEF CollectJob, world
  <2>2. job'[c].reg \in {job[c].reg, NoJob} /\ job'[c].dereg \in {job[c].dereg, NoJob}
    BY <2>1, Zenon DEF Tables, Jobs, Kinds
  <2> QED
    BY <1>1, <2>1, <2>2, Zenon DEF Mild
<1>7. ASSUME NEW b \in Backends, CollectOrphans(b) PROVE Mild(c)
  <2> DEFINE r == [k \in DOMAIN job[b] |-> IF Orphan(b, job[b][k].owner) THEN NoJob ELSE job[b][k]]
             q == [k \in DOMAIN state[b] |-> IF Orphan(b, state[b][k].owner) THEN NoState ELSE state[b][k]]
  <2>1. /\ UNCHANGED <<bucket, rows, excused>>
        /\ job' = [job EXCEPT ![b] = r] /\ state' = [state EXCEPT ![b] = q]
    BY <1>7, Zenon DEF CollectOrphans, world
  <2>2. r["reg"] \in {job[b].reg, NoJob} /\ r["dereg"] \in {job[b].dereg, NoJob}
    BY Zenon DEF Tables, Jobs, Kinds
  <2>3. q["bucket"] = IF Orphan(b, state[b].bucket.owner) THEN NoState ELSE state[b].bucket
    BY Zenon DEF Tables, States
  <2> HIDE DEF r, q
  <2>4. job'[c].reg \in {job[c].reg, NoJob} /\ job'[c].dereg \in {job[c].dereg, NoJob}
    BY <2>1, <2>2, Zenon DEF Tables, Jobs
  <2>5. sb[c].exists => ~Orphan(c, state[c].bucket.owner)
    BY Zenon DEF Kept, Orphan
  <2>6. sb[c].exists => state'[c].bucket = state[c].bucket
    BY <2>1, <2>3, <2>5, Zenon DEF Tables, States
  <2> QED
    BY <1>1, <2>1, <2>4, <2>6, Zenon DEF Mild
<1>8. CASE SchemaReady \/ \E b \in Owned : EnsureCreds(b)
  BY <1>2, <1>8, Zenon DEF SchemaReady, EnsureCreds
<1> QED
  BY <1>3, <1>4, <1>5, <1>6, <1>7, <1>8, MildJobs, Zenon DEF Cluster, Kinds

-----------------------------------------------------------------------------
\* The steps of the worker leave the other backends alone.
LEMMA TameApart ==
    ASSUME Objects, Tables, Work, NEW c \in Backends, c # pass.b
    PROVE  Tame(c)
<1>1. sb'[c] = sb[c]
  <2>1. UNCHANGED sb \/ \E x : sb' = [sb EXCEPT ![pass.b] = x]
    BY Zenon DEF Work, reconcileStorageBackendCredentialsStage, EnsureBucket,
          storageBackendBucketStateConfigMap, reconcileStorageBackendDatabase,
          storageBackendDBStateConfigMap, reconcileRuntimeCredentialsSecret,
          updateStorageBackendStatus, reconcileStorageBackendBucketDeletion,
          reconcileStorageBackendDatabaseDeletion, deleteStorageBackendCleanupObjects,
          DropCredentials, RemoveFinalizer
  <2> QED
    BY <2>1, Zenon DEF Objects
<1>2. job'[c] = job[c]
  <2>1. \/ UNCHANGED job \/ (\E x : job' = [job EXCEPT ![pass.b] = x])
        \/ (\E x : job' = [job EXCEPT ![pass.b].reg = x])
        \/ (\E x : job' = [job EXCEPT ![pass.b].dereg = x])
    BY Zenon DEF Work, reconcileStorageBackendCredentialsStage, EnsureBucket,
          storageBackendBucketStateConfigMap, reconcileStorageBackendDatabase,
          storageBackendDBStateConfigMap, reconcileRuntimeCredentialsSecret,
          updateStorageBackendStatus, reconcileStorageBackendBucketDeletion,
          reconcileStorageBackendDatabaseDeletion, deleteStorageBackendCleanupObjects,
          DropCredentials, RemoveFinalizer, Applied
  <2> QED
    BY <2>1, Zenon DEF Tables, Jobs
<1>3. state'[c] = state[c]
  <2>1. \/ UNCHANGED state \/ (\E x : state' = [state EXCEPT ![pass.b] = x])
        \/ (\E x : state' = [state EXCEPT ![pass.b].bucket = x])
        \/ (\E x : state' = [state EXCEPT ![pass.b].db = x])
    BY Zenon DEF Work, reconcileStorageBackendCredentialsStage, EnsureBucket,
          storageBackendBucketStateConfigMap, reconcileStorageBackendDatabase,
          storageBackendDBStateConfigMap, reconcileRuntimeCredentialsSecret,
          updateStorageBackendStatus, reconcileStorageBackendBucketDeletion,
          reconcileStorageBackendDatabaseDeletion, deleteStorageBackendCleanupObjects,
          DropCredentials, RemoveFinalizer
  <2> QED
    BY <2>1, Zenon DEF Tables, States
<1>4. bucket'[c] = bucket[c]
  <2>1. UNCHANGED bucket \/ \E x : bucket' = [bucket EXCEPT ![pass.b] = x]
    BY Zenon DEF Work, world, reconcileStorageBackendCredentialsStage, EnsureBucket,
          storageBackendBucketStateConfigMap, reconcileStorageBackendDatabase,
          storageBackendDBStateConfigMap, reconcileRuntimeCredentialsSecret,
          updateStorageBackendStatus, reconcileStorageBackendBucketDeletion,
          reconcileStorageBackendDatabaseDeletion, deleteStorageBackendCleanupObjects,
          DropCredentials, RemoveFinalizer, Ensure, Delete
  <2> QED
    BY <2>1, Zenon DEF Tables, Buckets
<1>5. UNCHANGED <<rows, tamoss>> /\ (c \in excused => c \in excused')
  BY Zenon DEF Work, world, reconcileStorageBackendCredentialsStage, EnsureBucket,
        storageBackendBucketStateConfigMap, reconcileStorageBackendDatabase,
        storageBackendDBStateConfigMap, reconcileRuntimeCredentialsSecret,
        updateStorageBackendStatus, reconcileStorageBackendBucketDeletion,
        reconcileStorageBackendDatabaseDeletion, deleteStorageBackendCleanupObjects,
        DropCredentials, RemoveFinalizer
<1> QED
  BY <1>1, <1>2, <1>3, <1>4, <1>5, Zenon DEF Tame, Soft, Mild

\* A step that touches neither the backend nor what belongs to it.
LEMMA TameStill ==
    ASSUME NEW c, sb'[c] = sb[c], job'[c].dereg = job[c].dereg,
           job'[c].reg = job[c].reg \/ ~IsHibernateDestination(c),
           state'[c].bucket = state[c].bucket, bucket'[c] = bucket[c] \/ bucket'[c] = 0,
           UNCHANGED <<rows, tamoss>>, c \in excused => c \in excused'
    PROVE  Tame(c)
BY Zenon DEF Tame, Soft, Mild

\* A pass that ends, and one that moves on or reports.
LEMMA ReportMoves ==
    ASSUME PassFields \subseteq DOMAIN pass, NEW x, NEW y, Report(x, y)
    PROVE  /\ pass'.at = "status" /\ pass'.out.phase = x
           /\ pass'.b = pass.b /\ pass'.s = pass.s /\ pass'.t = pass.t
<1> DEFINE o == [phase |-> x, bucketReady |-> y]
<1>1. pass' = [pass EXCEPT !.at = "status", !.out = o]
  BY Zenon DEF Report
<1>2. o.phase = x
  BY Zenon
<1> HIDE DEF o
<1> QED
  BY <1>1, <1>2, Zenon DEF PassFields

LEMMA GoMoves ==
    ASSUME PassFields \subseteq DOMAIN pass, NEW x, Go(x)
    PROVE  /\ pass'.at = x /\ pass'.out = pass.out
           /\ pass'.b = pass.b /\ pass'.s = pass.s /\ pass'.t = pass.t
BY Zenon DEF Go, PassFields

\* The pass of an object that is not deleted goes on or reports its outcome.
LEMMA BuildingGoesOn ==
    ASSUME NEW b \in Backends, b = pass.b, pass'.b = b,
           pass'.at \in Building, pass'.at # "ensure",
           Managed(b) /\ IsReady(b)' => Recorded(b)',
           pass'.at \in {"database", "dbState", "credentials"} =>
               ~IsHibernateDestination(b) /\ (Managed(b) => Recorded(b)'),
           pass'.at = "status" /\ pass'.out.phase = "Ready" /\ Managed(b) => Recorded(b)'
    PROVE  Established'
<1>1. pass'.at \notin Emptying
  BY Zenon DEF Building, Emptying
<1> QED
  BY <1>1, Zenon DEF Established, Managed, IsHibernateDestination

LEMMA EmptyingGoesOn ==
    ASSUME NEW b \in Backends, b = pass.b, pass'.b = b,
           pass'.at \in Emptying, sb'[b].deleting,
           IsReady(b)' => Emptied(b)',
           pass'.at # "deregister" /\ tamoss'.exists => Rowless(b)'
    PROVE  Established'
<1>1. /\ pass'.at \notin Building /\ pass'.at # "ensure" /\ pass'.at # "status"
      /\ pass'.at \notin {"database", "dbState", "credentials"}
  BY Zenon DEF Building, Emptying
<1> QED
  BY <1>1, Zenon DEF Established

\* Attending depends on the object, on the Tamoss and on what the pass has read.
LEMMA AttendingStays ==
    ASSUME Attending, UNCHANGED tamoss, pass'.b = pass.b, pass'.s = pass.s, pass'.t = pass.t,
           sb'[pass.b] = sb[pass.b]
    PROVE  Attending'
BY Zenon DEF Attending

\* Stages that only report, or go on without touching the bucket or its record.
LEMMA BuildingTame ==
    ASSUME Tables, NEW b \in Backends, b = pass.b, Kept(b), Attending, Established,
           cache'.job = cache.job \/ cache'.job = job',
           Tame(b), pass.at \in Building,
           \/ pass' = Idle
           \/ \E x, y : Report(x, y) /\ (x = "Ready" /\ Managed(b) => Recorded(b))
           \/ \E x \in {"dbState", "credentials"} : Go(x) /\ pass.at \in {"database", "dbState"}
    PROVE  Kept(b)' /\ (pass'.at # "idle" => Attending' /\ Established')
<1>1. Kept(b)'
  BY TameKeeps, Zenon
<1>2. CASE pass' = Idle
  BY <1>1, <1>2, Zenon DEF Idle
<1>3. /\ Recorded(b) => Recorded(b)'
      /\ IsReady(b)' => IsReady(b)
  BY Zenon DEF Tame, Soft, Mild, Recorded, IsReady, Attending
<1>4. Managed(b) /\ IsReady(b)' => Recorded(b)'
  BY <1>3, Zenon DEF Established
<1>5. CASE \E x, y : Report(x, y) /\ (x = "Ready" /\ Managed(b) => Recorded(b))
  <2>1. PICK x, y : Report(x, y) /\ (x = "Ready" /\ Managed(b) => Recorded(b))
    BY <1>5, Zenon
  <2>2. /\ pass'.at = "status" /\ pass'.out.phase = x
        /\ pass'.b = pass.b /\ pass'.s = pass.s /\ pass'.t = pass.t
    BY <2>1, ReportMoves, Zenon DEF Tables
  <2>3. Attending'
    BY <2>2, TameAttending, Zenon
  <2>4. pass'.at \in Building /\ pass'.at \notin {"database", "dbState", "credentials", "ensure"}
    BY <2>2, Zenon DEF Building
  <2>5. Established'
    BY <2>1, <2>2, <2>4, <1>3, <1>4, BuildingGoesOn, Zenon
  <2> QED
    BY <1>1, <2>3, <2>5, Zenon
<1>6. CASE \E x \in {"dbState", "credentials"} : Go(x) /\ pass.at \in {"database", "dbState"}
  <2>1. PICK x \in {"dbState", "credentials"} : Go(x) /\ pass.at \in {"database", "dbState"}
    BY <1>6, Zenon
  <2>2. pass'.at = x /\ pass'.b = pass.b /\ pass'.s = pass.s /\ pass'.t = pass.t
    BY <2>1, GoMoves, Zenon DEF Tables
  <2>3. Attending'
    BY <2>2, TameAttending, Zenon
  <2>4. pass'.at \in Building /\ pass'.at # "ensure" /\ pass'.at # "status"
    BY <2>2, Zenon DEF Building
  <2>5. ~IsHibernateDestination(b) /\ (Managed(b) => Recorded(b)')
    BY <2>1, <1>3, Zenon DEF Established
  <2>6. Established'
    BY <2>2, <2>4, <2>5, <1>4, BuildingGoesOn, Zenon
  <2> QED
    BY <1>1, <2>3, <2>6, Zenon
<1> QED
  BY <1>2, <1>5, <1>6, Zenon

LEMMA OtherField ==
    ASSUME NEW f, f = [c \in Backends |-> f[c]], NEW b \in Backends, NEW k, NEW v,
           NEW l, l \in DOMAIN f[b], l # k, NEW g, g = [f EXCEPT ![b][k] = v]
    PROVE  g[b][l] = f[b][l]
BY Zenon

LEMMA CredentialsSecured ==
    ASSUME Tables, NEW b \in Backends, b = pass.b, Kept(b), Attending, Established,
           cache'.job = cache.job \/ cache'.job = job',
           \/ reconcileStorageBackendCredentialsStage \/ reconcileRuntimeCredentialsSecret
           \/ storageBackendDBStateConfigMap
    PROVE  Kept(b)' /\ (pass'.at # "idle" => Attending' /\ Established')
<1>1. UNCHANGED <<sb, job, bucket, rows, tamoss, excused>>
  BY Zenon DEF reconcileStorageBackendCredentialsStage, reconcileRuntimeCredentialsSecret,
     storageBackendDBStateConfigMap, world
<1>2. state'[b].bucket = state[b].bucket
  <2>1. UNCHANGED state \/ \E x : state' = [state EXCEPT ![b]["db"] = x]
    BY Zenon DEF reconcileStorageBackendCredentialsStage, reconcileRuntimeCredentialsSecret,
       storageBackendDBStateConfigMap
  <2>2. /\ state = [c \in Backends |-> state[c]]
        /\ "bucket" \in DOMAIN state[b] /\ "bucket" # "db"
    BY Zenon DEF Tables, States
  <2>3. state'[b]["bucket"] = state[b]["bucket"]
    BY <2>1, <2>2, OtherField, ZenonT(40)
  <2> QED
    BY <2>3, Zenon
<1>3. Tame(b)
  BY <1>1, <1>2, TameStill, Zenon
<1>4. pass.at \in Building
  BY Zenon DEF reconcileStorageBackendCredentialsStage, reconcileRuntimeCredentialsSecret,
     storageBackendDBStateConfigMap, In, Building
<1>5. CASE reconcileStorageBackendCredentialsStage
  <2>1. Report("Progressing", FALSE)
    BY <1>5, Zenon DEF reconcileStorageBackendCredentialsStage
  <2>2. "Progressing" # "Ready"
    BY Zenon
  <2> QED
    BY <2>1, <2>2, <1>3, <1>4, BuildingTame, Zenon
<1>6. CASE reconcileRuntimeCredentialsSecret
  <2>1. Report("Ready", TRUE) /\ pass.at = "credentials"
    BY <1>6, Zenon DEF reconcileRuntimeCredentialsSecret, In
  <2>2. Managed(b) => Recorded(b)
    BY <2>1, Zenon DEF Established
  <2> QED
    BY <2>1, <2>2, <1>3, <1>4, BuildingTame, Zenon
<1>7. CASE storageBackendDBStateConfigMap
  <2>1. Go("credentials") /\ pass.at = "dbState"
    BY <1>7, Zenon DEF storageBackendDBStateConfigMap, In
  <2> QED
    BY <2>1, <1>3, <1>4, BuildingTame, Zenon
<1> QED
  BY <1>5, <1>6, <1>7, Zenon

LEMMA DatabaseSecured ==
    ASSUME Tables, NEW b \in Backends, b = pass.b, Kept(b), Attending, Established,
           cache'.job = cache.job \/ cache'.job = job',
           reconcileStorageBackendDatabase
    PROVE  Kept(b)' /\ (pass'.at # "idle" => Attending' /\ Established')
<1>1. UNCHANGED <<sb, state, bucket, rows, tamoss, excused>> /\ pass.at = "database"
  BY Zenon DEF reconcileStorageBackendDatabase, world, In
<1>2. job'[b].dereg = job[b].dereg
  <2>1. UNCHANGED job \/ \E x : job' = [job EXCEPT ![b]["reg"] = x]
    BY Zenon DEF reconcileStorageBackendDatabase, Applied
  <2>2. /\ job = [c \in Backends |-> job[c]]
        /\ "dereg" \in DOMAIN job[b] /\ "dereg" # "reg"
    BY Zenon DEF Tables, Jobs, Kinds
  <2>3. job'[b]["dereg"] = job[b]["dereg"]
    BY <2>1, <2>2, OtherField, ZenonT(40)
  <2> QED
    BY <2>3, Zenon
<1>3. ~IsHibernateDestination(b)
  BY <1>1, Zenon DEF Established
<1>4. Tame(b)
  BY <1>1, <1>2, <1>3, TameStill, Zenon
<1>5. pass.at \in Building
  BY <1>1, Zenon DEF Building
<1>6. pass' = Idle \/ Report("Progressing", TRUE) \/ Go("credentials") \/ Go("dbState")
  BY Zenon DEF reconcileStorageBackendDatabase, Again
<1>7. "Progressing" # "Ready"
  BY Zenon
<1> QED
  BY <1>1, <1>4, <1>5, <1>6, <1>7, BuildingTame, Zenon

\* What has to be shown of a step that changes the bucket, its record or the
\* phase of a backend that stays.
LEMMA KeptWhileThere ==
    ASSUME NEW b \in Backends, Kept(b), cache'.job = cache.job \/ cache'.job = job',
           sb[b].exists, sb'[b].exists, sb'[b].deleting = sb[b].deleting, sb'[b].fin,
           UNCHANGED rows, job'[b] = job[b], b \in excused => b \in excused',
           state'[b].bucket.owner \in {0, sb'[b].uid},
           ~Managed(b) => bucket'[b] = 0,
           Managed(b) /\ IsReady(b)' => Recorded(b)' \/ (sb'[b].deleting /\ Emptied(b)')
    PROVE  Kept(b)'
<1>1. Rowless(b) => Rowless(b)'
  BY Zenon DEF Rowless
<1>2. \A j : Deregisters(b, j) =>
         (j # NoJob => sb'[b].deleting /\ (jobSucceeded(j) => Rowless(b)'))
  BY <1>1, Zenon DEF Deregisters
<1>3. Deregisters(b, job[b].dereg)'
  BY <1>2, Zenon DEF Kept, Deregisters
<1>4. Deregisters(b, cache.job[b].dereg)'
  <2>1. CASE cache'.job = job'
    BY <2>1, <1>3, Zenon DEF Deregisters
  <2>2. CASE cache'.job = cache.job
    BY <2>2, <1>2, Zenon DEF Kept, Deregisters
  <2> QED
    BY <2>1, <2>2, Zenon
<1> QED
  BY <1>3, <1>4, Zenon DEF Kept, Managed, IsHibernateDestination

LEMMA EnsureSecured ==
    ASSUME Tables, NEW b \in Backends, b = pass.b, Kept(b), Attending, Established,
           cache'.job = cache.job \/ cache'.job = job',
           EnsureBucket
    PROVE  Kept(b)' /\ (pass'.at # "idle" => Attending' /\ Established')
<1>1. UNCHANGED <<sb, job, state, rows, tamoss, excused>> /\ pass.at = "ensure"
  BY Zenon DEF EnsureBucket, In
<1>2. pass.at \in Building
  BY <1>1, Zenon DEF Building
<1>3. CASE UNCHANGED bucket /\ (pass' = Idle \/ Report("Progressing", FALSE))
  <2>1. Tame(b)
    BY <1>1, <1>3, TameStill, Zenon
  <2>2. "Progressing" # "Ready"
    BY Zenon
  <2> QED
    BY <2>1, <2>2, <1>2, <1>3, BuildingTame, Zenon
<1>4. CASE Go("bucketState")
  <2>1. Managed(b) /\ (IsReady(b) => Recorded(b))
    BY <1>1, <1>2, Zenon DEF Established
  <2>2. Managed(b) /\ IsReady(b)' => Recorded(b)'
    BY <2>1, <1>1, Zenon DEF IsReady, Recorded
  <2>3. sb[b].exists /\ sb[b].fin /\ state[b].bucket.owner \in {0, sb[b].uid}
    BY Zenon DEF Attending, Kept
  <2>4. Kept(b)'
    BY <2>1, <2>2, <2>3, <1>1, KeptWhileThere, Zenon
  <2>5. pass'.at = "bucketState" /\ pass'.b = pass.b /\ pass'.s = pass.s /\ pass'.t = pass.t
    BY <1>4, GoMoves, Zenon DEF Tables
  <2>6. Attending'
    BY <1>1, <2>5, AttendingStays, Zenon
  <2>7. /\ pass'.at \in Building /\ pass'.at # "ensure" /\ pass'.at # "status"
        /\ pass'.at \notin {"database", "dbState", "credentials"}
    BY <2>5, Zenon DEF Building
  <2>8. Established'
    BY <2>2, <2>5, <2>7, BuildingGoesOn, Zenon
  <2> QED
    BY <2>4, <2>6, <2>8, Zenon
<1> QED
  BY <1>3, <1>4, Zenon DEF EnsureBucket, Again

LEMMA BucketStateSecured ==
    ASSUME Tables, NEW b \in Backends, b = pass.b, Kept(b), Attending, Established,
           cache'.job = cache.job \/ cache'.job = job',
           storageBackendBucketStateConfigMap
    PROVE  Kept(b)' /\ (pass'.at # "idle" => Attending' /\ Established')
<1>1. UNCHANGED <<sb, job, bucket, rows, tamoss, excused>> /\ pass.at = "bucketState"
  BY Zenon DEF storageBackendBucketStateConfigMap, world, In
<1> DEFINE r == [owner |-> pass.s.uid, hash |-> storageBackendBucketHash(b, pass.t.cors)]
<1>2. state' = [state EXCEPT ![b]["bucket"] = r]
  BY Zenon DEF storageBackendBucketStateConfigMap
<1>3. r.owner = pass.s.uid /\ r.hash = storageBackendBucketHash(b, pass.t.cors)
  BY Zenon
<1> HIDE DEF r
<1>4. state'[b].bucket = r
  <2>1. state = [c \in Backends |-> state[c]] /\ "bucket" \in DOMAIN state[b]
    BY Zenon DEF Tables, States
  <2> QED
    BY <1>2, <2>1, Zenon
<1>5. Managed(b) => Recorded(b)'
  BY <1>3, <1>4, Zenon DEF Managed, Recorded, storageBackendBucketHash, Attending
<1>6. /\ sb[b].exists /\ sb[b].fin /\ state'[b].bucket.owner = sb[b].uid
      /\ ~Managed(b) => bucket[b] = 0
  BY <1>3, <1>4, Zenon DEF Attending, Kept
<1>7. Kept(b)'
  BY <1>1, <1>5, <1>6, KeptWhileThere, Zenon
<1>8. CASE IsHibernateDestination(b) /\ Report("Ready", TRUE)
  <2>1. /\ pass'.at = "status" /\ pass'.b = pass.b /\ pass'.s = pass.s /\ pass'.t = pass.t
    BY <1>8, ReportMoves, Zenon DEF Tables
  <2>2. Attending'
    BY <1>1, <2>1, AttendingStays, Zenon
  <2>3. /\ pass'.at \in Building /\ pass'.at # "ensure"
        /\ pass'.at \notin {"database", "dbState", "credentials"}
    BY <2>1, Zenon DEF Building
  <2>4. Established'
    BY <2>1, <2>3, <1>5, BuildingGoesOn, Zenon
  <2> QED
    BY <1>7, <2>2, <2>4, Zenon
<1>9. CASE ~IsHibernateDestination(b) /\ Go("database")
  <2>1. /\ pass'.at = "database" /\ pass'.b = pass.b /\ pass'.s = pass.s /\ pass'.t = pass.t
    BY <1>9, GoMoves, Zenon DEF Tables
  <2>2. Attending'
    BY <1>1, <2>1, AttendingStays, Zenon
  <2>3. pass'.at \in Building /\ pass'.at # "ensure" /\ pass'.at # "status"
    BY <2>1, Zenon DEF Building
  <2>4. Established'
    BY <2>1, <2>3, <1>5, <1>9, BuildingGoesOn, Zenon
  <2> QED
    BY <1>7, <2>2, <2>4, Zenon
<1> QED
  BY <1>8, <1>9, Zenon DEF storageBackendBucketStateConfigMap

LEMMA StatusSecured ==
    ASSUME Objects, Tables, NEW b \in Backends, b = pass.b, Kept(b), Attending, Established,
           cache'.job = cache.job \/ cache'.job = job',
           updateStorageBackendStatus
    PROVE  Kept(b)' /\ (pass'.at # "idle" => Attending' /\ Established')
<1>1. /\ UNCHANGED <<job, state, bucket, rows, tamoss, excused>>
      /\ pass.at = "status" /\ pass' = Idle
  BY Zenon DEF updateStorageBackendStatus, world, In
<1>2. pass'.at = "idle"
  BY <1>1, Zenon DEF Idle
<1>3. CASE UNCHANGED sb
  <2>1. Tame(b)
    BY <1>1, <1>3, TameStill, Zenon
  <2> QED
    BY <2>1, <1>2, TameKeeps, Zenon
<1>4. CASE sb[b] = pass.s /\ sb' = [sb EXCEPT ![b] = StatusOf(pass.s)]
  <2>1. sb'[b] = StatusOf(sb[b])
    BY <1>4, Zenon DEF Objects
  <2>2. ObjectFields \subseteq DOMAIN sb[b]
    BY Zenon DEF Objects
  <2>3. /\ sb'[b].exists = sb[b].exists /\ sb'[b].deleting = sb[b].deleting
        /\ sb'[b].fin = sb[b].fin /\ sb'[b].uid = sb[b].uid /\ sb'[b].phase = pass.out.phase
    BY <2>1, <2>2, Zenon DEF StatusOf, ObjectFields
  <2>4. /\ sb[b].exists /\ sb[b].fin /\ state[b].bucket.owner \in {0, sb[b].uid}
        /\ ~Managed(b) => bucket[b] = 0
    BY Zenon DEF Attending, Kept
  <2>5. Managed(b) /\ IsReady(b)' => Recorded(b)'
    BY <1>1, <2>3, Zenon DEF IsReady, Recorded, Established
  <2> QED
    BY <1>1, <1>2, <2>3, <2>4, <2>5, KeptWhileThere, Zenon
<1> QED
  BY <1>3, <1>4, Zenon DEF updateStorageBackendStatus

\* The finalization of an object goes on, or is put off.
LEMMA EmptyingTame ==
    ASSUME Tables, NEW b \in Backends, b = pass.b, Kept(b), Attending, Established,
           cache'.job = cache.job \/ cache'.job = job',
           Tame(b), pass.at \notin Building,
           \/ pass' = Idle
           \/ \E x \in Emptying : /\ Go(x) /\ (IsReady(b)' => Emptied(b)')
                                  /\ x # "deregister" /\ tamoss'.exists => Rowless(b)'
    PROVE  Kept(b)' /\ (pass'.at # "idle" => Attending' /\ Established')
<1>1. Kept(b)'
  BY TameKeeps, Zenon
<1>2. CASE pass' = Idle
  BY <1>1, <1>2, Zenon DEF Idle
<1>3. CASE \E x \in Emptying : /\ Go(x) /\ (IsReady(b)' => Emptied(b)')
                               /\ x # "deregister" /\ tamoss'.exists => Rowless(b)'
  <2>1. PICK x \in Emptying : /\ Go(x) /\ (IsReady(b)' => Emptied(b)')
                              /\ x # "deregister" /\ tamoss'.exists => Rowless(b)'
    BY <1>3, Zenon
  <2>2. pass'.at = x /\ pass'.b = pass.b /\ pass'.s = pass.s /\ pass'.t = pass.t
    BY <2>1, GoMoves, Zenon DEF Tables
  <2>3. Attending'
    BY <2>2, TameAttending, Zenon
  <2>4. sb'[b].deleting
    BY Zenon DEF Established, Attending, Tame, Soft
  <2>5. Established'
    BY <2>1, <2>2, <2>4, EmptyingGoesOn, Zenon
  <2> QED
    BY <1>1, <2>3, <2>5, Zenon
<1> QED
  BY <1>2, <1>3, Zenon

LEMMA DeletionSecured ==
    ASSUME Tables, NEW b \in Backends, b = pass.b, Kept(b), Attending, Established,
           cache'.job = cache.job \/ cache'.job = job',
           reconcileStorageBackendBucketDeletion \/ DropCredentials
    PROVE  Kept(b)' /\ (pass'.at # "idle" => Attending' /\ Established')
<1>1. UNCHANGED <<sb, job, state, rows, tamoss, excused>>
  BY Zenon DEF reconcileStorageBackendBucketDeletion, DropCredentials, world
<1>2. CASE reconcileStorageBackendBucketDeletion
  <2>1. UNCHANGED bucket \/ bucket'[b] = 0
    BY <1>2, Zenon DEF reconcileStorageBackendBucketDeletion, Delete, Tables, Buckets
  <2>2. Tame(b)
    BY <1>1, <2>1, TameStill, Zenon
  <2>3. pass.at \notin Building
    BY <1>2, Zenon DEF reconcileStorageBackendBucketDeletion, In, Building
  <2>4. pass' = Idle \/ (Go("deregister") /\ bucket'[b] = 0)
    BY <1>2, Zenon DEF reconcileStorageBackendBucketDeletion, Again, Delete, Tables, Buckets
  <2>5. bucket'[b] = 0 => Emptied(b)'
    BY Zenon DEF Emptied
  <2>6. "deregister" \in Emptying
    BY Zenon DEF Emptying
  <2> QED
    BY <2>2, <2>3, <2>4, <2>5, <2>6, EmptyingTame, Zenon
<1>3. CASE DropCredentials
  <2>1. UNCHANGED bucket /\ pass.at = "dropCredentials" /\ Go("release")
    BY <1>3, Zenon DEF DropCredentials, world, In
  <2>2. Tame(b)
    BY <1>1, <2>1, TameStill, Zenon
  <2>3. /\ pass.at \notin Building /\ pass.at \in Emptying \ {"deregister"}
        /\ "release" \in Emptying
    BY <2>1, Zenon DEF Building, Emptying
  <2>4. (IsReady(b)' => Emptied(b)') /\ (tamoss'.exists => Rowless(b)')
    BY <1>1, <2>1, <2>3, Zenon DEF Established, IsReady, Emptied, Rowless
  <2> QED
    BY <2>1, <2>2, <2>3, <2>4, EmptyingTame, Zenon
<1> QED
  BY <1>2, <1>3, Zenon

LEMMA DeregistrationSecured ==
    ASSUME Tables, NEW b \in Backends, b = pass.b, Kept(b), Attending, Established,
           cache'.job = cache.job \/ cache'.job = job',
           reconcileStorageBackendDatabaseDeletion
    PROVE  Kept(b)' /\ (pass'.at # "idle" => Attending' /\ Established')
<1>1. /\ UNCHANGED <<sb, state, bucket, rows, tamoss>> /\ (b \in excused => b \in excused')
      /\ pass.at = "deregister"
  BY Zenon DEF reconcileStorageBackendDatabaseDeletion, world, In
<1>2. /\ pass.at \notin Building /\ pass.at \in Emptying
      /\ "cleanup" \in Emptying /\ "cleanup" # "deregister"
  BY <1>1, Zenon DEF Building, Emptying
<1>3. sb[b].deleting /\ sb[b].exists /\ sb[b].fin
  BY <1>2, Zenon DEF Established, Attending
<1>4. NoJob.phase = "none"
  BY Zenon DEF NoJob
<1>5. CASE UNCHANGED job /\ pass' = Idle
  <2>1. Tame(b)
    BY <1>1, <1>5, TameStill, Zenon
  <2> QED
    BY <2>1, <1>2, <1>5, EmptyingTame, Zenon
<1>6. CASE /\ UNCHANGED job /\ Go("cleanup")
           /\ \/ jobSucceeded(cache.job[b].dereg) \/ IsHibernateDestination(b)
              \/ ~pass.t.exists \/ b \in excused'
  <2>1. Tame(b)
    BY <1>1, <1>6, TameStill, Zenon
  <2>2. IsReady(b)' => Emptied(b)'
    BY <1>1, <1>2, Zenon DEF Established, IsReady, Emptied
  <2>3. jobSucceeded(cache.job[b].dereg) => Rowless(b)
    BY <1>3, <1>4, Zenon DEF Kept, Deregisters, jobSucceeded
  <2>4. IsHibernateDestination(b) => Rowless(b)
    BY Zenon DEF Kept, Rowless
  <2>5. ~pass.t.exists => ~tamoss.exists
    BY Zenon DEF Attending
  <2>6. Rowless(b) \/ b \in excused' => Rowless(b)'
    BY <1>1, Zenon DEF Rowless
  <2>7. tamoss'.exists => Rowless(b)'
    BY <1>1, <1>6, <2>3, <2>4, <2>5, <2>6, Zenon
  <2> QED
    BY <2>1, <2>2, <2>7, <1>2, <1>6, EmptyingTame, Zenon
<1>7. CASE job' = [job EXCEPT ![b]["dereg"] = NoJob] /\ pass' = Idle
  <2>1. /\ job = [c \in Backends |-> job[c]] /\ "reg" \in DOMAIN job[b]
        /\ "dereg" \in DOMAIN job[b] /\ "reg" # "dereg"
    BY Zenon DEF Tables, Jobs, Kinds
  <2>2. job'[b]["reg"] = job[b]["reg"]
    BY <1>7, <2>1, OtherField, Zenon
  <2>3. job'[b]["dereg"] = NoJob
    BY <1>7, <2>1, Zenon
  <2>4. Tame(b)
    BY <1>1, <2>2, <2>3, Zenon DEF Tame, Soft, Mild
  <2> QED
    BY <2>4, <1>2, <1>7, EmptyingTame, Zenon
<1>8. CASE job' = [job EXCEPT ![b]["dereg"] = storageBackendJob(1, 0)] /\ pass' = Idle
  <2> DEFINE j == storageBackendJob(1, 0)
  <2>1. /\ job = [c \in Backends |-> job[c]] /\ "reg" \in DOMAIN job[b]
        /\ "dereg" \in DOMAIN job[b] /\ "reg" # "dereg"
    BY Zenon DEF Tables, Jobs, Kinds
  <2>2. ~jobSucceeded(j)
    BY Zenon DEF storageBackendJob, jobSucceeded
  <2> HIDE DEF j
  <2>3. job' = [job EXCEPT ![b]["dereg"] = j]
    BY <1>8, Zenon DEF j
  <2>4. job'[b]["reg"] = job[b]["reg"]
    BY <2>3, <2>1, OtherField, Zenon
  <2>5. job'[b]["dereg"] = j
    BY <2>3, <2>1, Zenon
  <2>6. Deregisters(b, job[b].dereg)'
    BY <1>1, <1>3, <2>2, <2>5, Zenon DEF Deregisters
  <2>7. Deregisters(b, cache.job[b].dereg)'
    <3>1. CASE cache'.job = job'
      BY <3>1, <2>6, Zenon DEF Deregisters
    <3>2. Rowless(b) => Rowless(b)'
      BY <1>1, Zenon DEF Rowless
    <3>3. CASE cache'.job = cache.job
      BY <3>2, <3>3, <1>1, Zenon DEF Kept, Deregisters
    <3> QED
      BY <3>1, <3>3, Zenon
  <2>8. /\ Emptied(b) => Emptied(b)'
        /\ IsReady(b)' = IsReady(b) /\ Recorded(b)' = Recorded(b)
    BY <1>1, Zenon DEF Emptied, IsReady, Recorded
  <2>9. Kept(b)'
    BY <1>1, <1>3, <2>4, <2>6, <2>7, <2>8, Zenon DEF Kept, Managed, IsHibernateDestination
  <2> QED
    BY <1>8, <2>9, Zenon DEF Idle
<1>9. \/ UNCHANGED job /\ pass' = Idle
      \/ /\ UNCHANGED job /\ Go("cleanup")
         /\ \/ jobSucceeded(cache.job[b].dereg) \/ IsHibernateDestination(b)
            \/ ~pass.t.exists \/ b \in excused'
      \/ job' = [job EXCEPT ![b]["dereg"] = NoJob] /\ pass' = Idle
      \/ job' = [job EXCEPT ![b]["dereg"] = storageBackendJob(1, 0)] /\ pass' = Idle
  BY Zenon DEF reconcileStorageBackendDatabaseDeletion, Again, Applied
<1> QED
  BY <1>5, <1>6, <1>7, <1>8, <1>9, Zenon

LEMMA NoStatesPlain == NoStates.bucket.owner = 0
<1>1. NoStates.bucket = NoState
  BY Zenon DEF NoStates
<1>2. NoState.owner = 0
  BY Zenon DEF NoState
<1> QED
  BY <1>1, <1>2, Zenon

LEMMA CleanupSecured ==
    ASSUME Tables, NEW b \in Backends, b = pass.b, Kept(b), Attending, Established,
           cache'.job = cache.job \/ cache'.job = job',
           deleteStorageBackendCleanupObjects
    PROVE  Kept(b)' /\ (pass'.at # "idle" => Attending' /\ Established')
<1> DEFINE T(k) == IF cache.job[b][k] = NoJob \/ job[b][k] = NoJob THEN job[b][k]
                   ELSE [job[b][k] EXCEPT !.term = TRUE]
           r == [reg |-> T("reg"), dereg |-> T("dereg")]
<1>1. /\ UNCHANGED <<sb, bucket, rows, tamoss, excused>> /\ pass.at = "cleanup"
      /\ job' = [job EXCEPT ![b] = r] /\ state' = [state EXCEPT ![b] = NoStates]
      /\ Go("dropCredentials") \/ Go("release")
  BY Zenon DEF deleteStorageBackendCleanupObjects, world, In
<1>2. r.reg = T("reg") /\ r.dereg = T("dereg")
  BY Zenon
<1>3. /\ job[b].reg = NoJob => T("reg") = NoJob
      /\ T("dereg") # NoJob => job[b].dereg # NoJob
  BY Zenon
<1>4. T("dereg").phase = job[b].dereg.phase
  <2>1. "phase" \in DOMAIN job[b]["dereg"] /\ "phase" # "term"
    BY Zenon DEF Tables, Jobs, Kinds
  <2> QED
    BY <2>1, Zenon
<1> HIDE DEF T, r
<1>5. job'[b] = r /\ state'[b] = NoStates
  BY <1>1, Zenon DEF Tables, Jobs, States
<1>6. state'[b].bucket.owner = 0
  BY <1>5, NoStatesPlain, Zenon
<1>7. /\ pass.at \notin Building /\ pass.at \in Emptying \ {"deregister"}
      /\ "dropCredentials" \in Emptying /\ "release" \in Emptying
      /\ "dropCredentials" # "deregister" /\ "release" # "deregister"
  BY <1>1, Zenon DEF Building, Emptying
<1>8. /\ sb[b].deleting /\ sb[b].exists /\ sb[b].fin
      /\ IsReady(b) => Emptied(b)
      /\ tamoss.exists => Rowless(b)
  BY <1>7, Zenon DEF Established, Attending
<1>9. (IsReady(b)' => Emptied(b)') /\ (tamoss'.exists => Rowless(b)')
  BY <1>1, <1>8, Zenon DEF IsReady, Emptied, Rowless
<1>10. Rowless(b) => Rowless(b)'
  BY <1>1, Zenon DEF Rowless
<1>11. Deregisters(b, job[b].dereg)'
  <2>1. job'[b].dereg = T("dereg")
    BY <1>2, <1>5, Zenon
  <2>2. jobSucceeded(T("dereg")) => jobSucceeded(job[b].dereg)
    BY <1>4, Zenon DEF jobSucceeded
  <2>3. T("dereg") # NoJob => sb[b].deleting /\ (jobSucceeded(T("dereg")) => Rowless(b))
    BY <1>3, <1>8, <2>2, Zenon DEF Kept, Deregisters
  <2> QED
    BY <1>1, <1>10, <2>1, <2>3, Zenon DEF Deregisters
<1>12. Deregisters(b, cache.job[b].dereg)'
  <2>1. CASE cache'.job = job'
    BY <2>1, <1>11, Zenon DEF Deregisters
  <2>2. CASE cache'.job = cache.job
    BY <2>2, <1>1, <1>10, Zenon DEF Kept, Deregisters
  <2> QED
    BY <2>1, <2>2, Zenon
<1>13. IsHibernateDestination(b) => rows'[b] = NoRow /\ job'[b].reg = NoJob
  BY <1>1, <1>2, <1>3, <1>5, Zenon DEF Kept
<1>14. Kept(b)'
  BY <1>1, <1>6, <1>8, <1>9, <1>11, <1>12, <1>13, Zenon
     DEF Kept, Managed, IsHibernateDestination
<1>15. /\ pass'.at \in Emptying /\ pass'.at # "deregister"
       /\ pass'.b = pass.b /\ pass'.s = pass.s /\ pass'.t = pass.t
  BY <1>1, <1>7, GoMoves, Zenon DEF Tables
<1>16. Attending'
  BY <1>1, <1>15, AttendingStays, Zenon
<1>17. Established'
  BY <1>1, <1>8, <1>9, <1>15, EmptyingGoesOn, Zenon
<1> QED
  BY <1>14, <1>16, <1>17, Zenon

LEMMA ReleaseSecured ==
    ASSUME Objects, Tables, NEW b \in Backends, b = pass.b, Kept(b), Attending, Established,
           cache'.job = cache.job \/ cache'.job = job',
           RemoveFinalizer
    PROVE  Kept(b)' /\ (pass'.at # "idle" => Attending' /\ Established')
<1>1. /\ UNCHANGED <<job, state, bucket, rows, tamoss, excused>> /\ pass.at = "release"
      /\ pass' = Idle
  BY Zenon DEF RemoveFinalizer, world, In
<1>2. pass.at \notin Building /\ pass.at \in Emptying \ {"deregister"}
  BY <1>1, Zenon DEF Building, Emptying
<1>3. /\ sb[b].deleting /\ sb[b].exists
      /\ IsReady(b) => Emptied(b)
      /\ tamoss.exists => Rowless(b)
  BY <1>2, Zenon DEF Established, Attending
<1>4. sb'[b] = [NoSB EXCEPT !.uid = sb[b].uid, !.phase = sb[b].phase]
  <2>1. sb' = [sb EXCEPT ![b] = Unfinalized(sb[b])]
    BY <1>3, Zenon DEF RemoveFinalizer
  <2>2. sb'[b] = Unfinalized(sb[b])
    BY <2>1, Zenon DEF Objects
  <2> QED
    BY <2>2, <1>3, Zenon DEF Unfinalized
<1>5. ~sb'[b].exists /\ sb'[b].phase = sb[b].phase
  BY <1>4, Zenon DEF NoSB
<1>6. sb'[b].phase = "Ready" => Emptied(b)' /\ (tamoss'.exists => Rowless(b)')
  BY <1>1, <1>3, <1>5, Zenon DEF IsReady, Emptied, Rowless
<1>7. Kept(b)'
  BY <1>1, <1>5, <1>6, Zenon DEF Kept, Deregisters, IsReady, Managed, IsHibernateDestination
<1> QED
  BY <1>1, <1>7, Zenon DEF Idle

-----------------------------------------------------------------------------
\* What a pass has established when it begins.
LEMMA StageFacts ==
    ASSUME TheTamoss, Tables, NEW b \in Backends, NEW rev, NEW stage, stage = FirstStage(b, rev)
    PROVE  \/ stage = "degraded" \/ stage = "noTamoss" \/ stage = "missing"
           \/ (stage = "ensure" /\ Managed(b)) \/ stage = "bucketState"
           \/ stage = "ready" /\ ~Managed(b)
           \/ stage = "database" /\ ~IsHibernateDestination(b) /\ (Managed(b) => Recorded(b))
<1>1. BucketStage(b) = "bucketState" \/ (BucketStage(b) = "ensure" /\ Managed(b))
  BY Zenon DEF BucketStage, Managed
<1>2. IsHibernateDestination(b) => ~Managed(b)
  BY Zenon DEF IsHibernateDestination, Managed
<1>3. storageBackendBucketReady(b, tamoss.cors) /\ Managed(b) => Recorded(b)
  <2>1. tamoss.cors # 0
    BY Zenon DEF TheTamoss
  <2> QED
    BY <2>1, Zenon DEF Tables, Shown, storageBackendBucketReady, storageBackendBucketHash,
       Managed, Recorded
<1> QED
  BY <1>1, <1>2, <1>3, Zenon DEF FirstStage

LEMMA OutcomeFacts ==
    /\ Outcome("degraded").phase = "Degraded" /\ Outcome("degraded") # NoOut
    /\ Outcome("noTamoss").phase = "Progressing" /\ Outcome("noTamoss") # NoOut
    /\ Outcome("ready") # NoOut
    /\ \A stage \in {"missing", "ensure", "bucketState", "database", "deleteBucket", "deregister"} :
          Outcome(stage) = NoOut
<1>1. Outcome("degraded") = [phase |-> "Degraded", bucketReady |-> FALSE]
  BY Zenon DEF Outcome
<1>2. Outcome("noTamoss") = [phase |-> "Progressing", bucketReady |-> FALSE]
  BY Zenon DEF Outcome
<1>3. Outcome("ready") = [phase |-> "Ready", bucketReady |-> TRUE]
  BY Zenon DEF Outcome
<1>4. Outcome("degraded").phase = "Degraded"
  BY <1>1, SMT
<1>5. Outcome("noTamoss").phase = "Progressing"
  BY <1>2, SMT
<1>6. Outcome("ready").phase = "Ready"
  BY <1>3, SMT
<1>7. NoOut.phase = "none"
  BY Zenon DEF NoOut
<1>8. \A stage \in {"missing", "ensure", "bucketState", "database", "deleteBucket", "deregister"} :
         Outcome(stage) = NoOut
  BY Zenon DEF Outcome
<1> QED
  BY <1>4, <1>5, <1>6, <1>7, <1>8, Zenon

LEMMA StartSecured ==
    ASSUME Guarded, Tables, NEW b \in Backends, Kept(b), Start(b)
    PROVE  pass'.at # "idle" => Attending' /\ Established'
<1> DEFINE s == cache.sb[b]
           stage == IF Finalizing(s) THEN FirstFinalStage(b) ELSE FirstStage(b, s.rev)
           out == Outcome(stage)
<1>1. /\ UNCHANGED <<sb, state, bucket, rows, tamoss>> /\ s = sb[b]
      /\ sb[b].exists /\ sb[b].fin
      /\ (b \in excused => b \in excused')
  BY Zenon DEF Start, world, Finalized, Guarded, Seen
<1>2. pass' = IF stage = "wait" THEN Idle
              ELSE [at |-> IF out = NoOut THEN stage ELSE "status",
                    b |-> b, s |-> s, t |-> tamoss, out |-> out]
  BY Zenon DEF Start
<1>3. /\ sb[b].deleting /\ stage = "deregister" /\ storageBackendBucketDeletionRequired(b)
      => b \in excused'
  BY <1>1, Zenon DEF Start
<1>4. sb[b].deleting => stage = FirstFinalStage(b)
  BY <1>1, Zenon DEF Finalizing
<1>5. ~sb[b].deleting => stage = FirstStage(b, s.rev)
  BY <1>1, Zenon DEF Finalizing
<1> HIDE DEF s, stage, out
<1>6. CASE stage = "wait"
  BY <1>2, <1>6, Zenon DEF Idle
<1>7. CASE stage # "wait"
  <2>1. pass' = [at |-> IF out = NoOut THEN stage ELSE "status",
                 b |-> b, s |-> s, t |-> tamoss, out |-> out]
    BY <1>2, <1>7, Zenon
  <2>2. /\ pass'.at = (IF out = NoOut THEN stage ELSE "status")
        /\ pass'.b = b /\ pass'.s = s /\ pass'.t = tamoss /\ pass'.out = out
    BY <2>1, Zenon
  <2>3. Attending'
    BY <1>1, <2>2, Zenon DEF Attending, Guarded, TheTamoss
  <2>4. out = Outcome(stage)
    BY Zenon DEF out
  <2>5. CASE sb[b].deleting
    <3>1. stage = "deleteBucket" \/ (stage = "deregister" /\ ~(storageBackendBucketDeletionRequired(b) /\ storageBackendCredentials(b)))
      BY <1>4, <1>7, <2>5, Zenon DEF FirstFinalStage
    <3>2. pass'.at = stage
      BY <2>2, <2>4, <3>1, OutcomeFacts, Zenon
    <3>3. CASE stage = "deleteBucket"
      <4>1. pass'.at \notin Building /\ pass'.at \notin Emptying
        BY <3>2, <3>3, Zenon DEF Building, Emptying
      <4> QED
        BY <1>1, <2>2, <2>3, <2>5, <3>2, <3>3, <4>1, Zenon DEF Established
    <3>4. CASE stage = "deregister"
      <4>1. storageBackendBucketDeletionRequired(b) => b \in excused'
        BY <1>3, <2>5, <3>4, Zenon
      <4>2. ~storageBackendBucketDeletionRequired(b) => ~Managed(b) \/ ~Recorded(b)
        BY Zenon DEF storageBackendBucketDeletionRequired, storageBackendManagedBucketReady,
           Managed, Recorded, Tables, Shown
      <4>3. (~Managed(b) \/ ~Recorded(b)) /\ IsReady(b) => Emptied(b)
        BY Zenon DEF Kept, Emptied
      <4>4. IsReady(b)' => IsReady(b)
        BY <1>1, Zenon DEF IsReady
      <4>5. Emptied(b) \/ b \in excused' => Emptied(b)'
        BY <1>1, Zenon DEF Emptied
      <4>6. IsReady(b)' => Emptied(b)'
        BY <4>1, <4>2, <4>3, <4>4, <4>5, Zenon
      <4>7. /\ pass'.at \notin Building /\ pass'.at \in Emptying
            /\ pass'.at # "ensure" /\ pass'.at # "status"
            /\ pass'.at \notin {"database", "dbState", "credentials"}
        BY <3>2, <3>4, Zenon DEF Building, Emptying
      <4> QED
        BY <1>1, <2>2, <2>3, <2>5, <3>2, <3>4, <4>6, <4>7, Zenon DEF Established
    <3> QED
      BY <3>1, <3>3, <3>4, Zenon
  <2>6. CASE ~sb[b].deleting
    <3>1. \/ stage = "degraded" \/ stage = "noTamoss" \/ stage = "missing"
          \/ (stage = "ensure" /\ Managed(b)) \/ stage = "bucketState"
          \/ stage = "ready" /\ ~Managed(b)
          \/ stage = "database" /\ ~IsHibernateDestination(b) /\ (Managed(b) => Recorded(b))
      BY <1>5, <2>6, StageFacts, Zenon DEF Guarded
    <3>2. /\ stage \in {"degraded", "noTamoss", "ready"} => pass'.at = "status"
          /\ stage \notin {"degraded", "noTamoss", "ready"} => pass'.at = stage
          /\ stage \in {"degraded", "noTamoss"} => pass'.out.phase # "Ready"
      BY <2>2, <2>4, <3>1, OutcomeFacts, Zenon
    <3>3. Managed(b) /\ IsReady(b)' => Recorded(b)'
      BY <1>1, <2>6, Zenon DEF Kept, IsReady, Recorded
    <3>4. Recorded(b) => Recorded(b)'
      BY <1>1, Zenon DEF Recorded
    <3>5. /\ pass'.at \in Building /\ pass'.at \notin Emptying
          /\ pass'.at = "ensure" => Managed(b)
          /\ pass'.at \in {"database", "dbState", "credentials"} =>
                ~IsHibernateDestination(b) /\ (Managed(b) => Recorded(b)')
          /\ pass'.at = "status" /\ pass'.out.phase = "Ready" => ~Managed(b)
      <4>1. CASE stage \in {"degraded", "noTamoss"}
        BY <4>1, <3>2, Zenon DEF Building, Emptying
      <4>2. CASE stage = "ready" /\ ~Managed(b)
        BY <4>2, <3>2, Zenon DEF Building, Emptying
      <4>3. CASE stage = "missing" \/ stage = "bucketState"
        <5>1. pass'.at = stage
          BY <4>3, <3>2, Zenon
        <5> QED
          BY <4>3, <5>1, Zenon DEF Building, Emptying
      <4>4. CASE stage = "ensure" /\ Managed(b)
        BY <4>4, <3>2, Zenon DEF Building, Emptying
      <4>5. CASE stage = "database" /\ ~IsHibernateDestination(b) /\ (Managed(b) => Recorded(b))
        BY <4>5, <3>2, <3>4, Zenon DEF Building, Emptying
      <4> QED
        BY <3>1, <4>1, <4>2, <4>3, <4>4, <4>5, Zenon
    <3> QED
      BY <2>2, <2>3, <3>3, <3>5, Zenon DEF Established, Managed, IsHibernateDestination
  <2> QED
    BY <2>5, <2>6, Zenon
<1> QED
  BY <1>6, <1>7, Zenon

\* A new object finds neither Jobs nor state of the last bearer of its name.
LEMMA BornKept ==
    ASSUME Patient, NEW b \in Backends, Kept(b), cache'.job = cache.job \/ cache'.job = job',
           Vacant(b), sb'[b] = Created(b),
           UNCHANGED <<job, state, bucket, rows>>
    PROVE  Kept(b)'
<1>1. sb'[b].exists /\ sb'[b].phase = "Pending"
  <2>1. "exists" # "uid" /\ "phase" # "uid"
    BY Zenon
  <2> QED
    BY <2>1, Zenon DEF Created, NoSB
<1> DEFINE none == [reg |-> NoJob, dereg |-> NoJob]
<1>2. /\ cache.job[b] = job[b] /\ job[b] = none
      /\ state[b] = NoStates
  BY Zenon DEF Vacant
<1>0. none.dereg = NoJob
  BY Zenon
<1> HIDE DEF none
<1>3. cache.job[b].dereg = NoJob /\ job[b].dereg = NoJob
  BY <1>0, <1>2, Zenon
<1>4. cache'.job[b].dereg = NoJob /\ job'[b].dereg = NoJob
  BY <1>3, Zenon
<1>5. state'[b].bucket.owner = 0
  BY <1>2, NoStatesPlain, Zenon
<1>6. ~IsReady(b)'
  BY <1>1, Zenon DEF IsReady
<1> QED
  BY <1>1, <1>4, <1>5, <1>6, Zenon
     DEF Kept, Deregisters, Managed, IsHibernateDestination

\* The invariant: nothing is forgotten, and the worker knows what it does.
Diligent == Guarded /\ Tables /\ Defaults /\ Disposal

LEMMA DisposalTame ==
    ASSUME Disposal, UNCHANGED pass, \A c \in Backends : Tame(c),
           cache'.job = cache.job \/ cache'.job = job'
    PROVE  Disposal'
<1>1. \A c \in Backends : Kept(c)'
  BY TameKeeps, Zenon DEF Disposal
<1>2. pass'.at # "idle" => Attending' /\ Established'
  <2> SUFFICES ASSUME pass'.at # "idle" PROVE Attending' /\ Established'
    BY Zenon
  <2>1. Attending /\ Established
    BY Zenon DEF Disposal
  <2>2. Tame(pass.b)
    BY <2>1, Zenon DEF Attending
  <2> QED
    BY <2>1, <2>2, TameAttending, TameEstablished, Zenon
<1> QED
  BY <1>1, <1>2, Zenon DEF Disposal

LEMMA DisposalElsewhere ==
    ASSUME Patient, "sb" \notin Lagging, "state" \notin Lagging, Diligent,
           TamossWork \/ Cluster \/ Users
    PROVE  Disposal'
<1>1. UNCHANGED pass /\ (cache'.job = cache.job \/ cache'.job = job')
  BY TablesElsewhere, ZenonT(40) DEF Diligent, TamossWork, Cluster, Users, finalizeTamoss,
        ensureDefaultStorageBackend, applyTamossDesiredObjects, TamossGone, SchemaReady,
        CollectTamoss, EnsureCreds, RunScript, JobFail, CollectJob, CollectOrphans,
        CreateBackend, DeleteBackend, EditBackend, DeleteTamoss, EditOrigins,
        BeginUpgrade, LoseSecret, RestoreSecret
<1>2. ASSUME NEW c \in Backends
      PROVE  Kept(c)' /\ (sb[c].exists => Tame(c))
  <2>1. Kept(c)
    BY Zenon DEF Diligent, Disposal
  <2>2. CASE Soft(sb[c], sb'[c]) /\ ~CreateBackend(c)
    <3>1. Tame(c)
      BY <2>1, <2>2, MildElsewhere, Zenon DEF Diligent, Guarded, Tame
    <3> QED
      BY <3>1, <2>1, <1>1, TameKeeps, Zenon
  <2>3. CASE ensureDefaultStorageBackend /\ ~sb[c].exists /\ Vacant(c) /\ sb'[c] = Created(c)
    <3>1. UNCHANGED <<job, state, bucket, rows>>
      BY <2>3, Zenon DEF ensureDefaultStorageBackend, world
    <3> QED
      BY <2>1, <2>3, <3>1, <1>1, BornKept, Zenon
  <2>4. CASE CreateBackend(c)
    <3>1. UNCHANGED <<job, state, bucket, rows>> /\ Vacant(c) /\ ~sb[c].exists
      BY <2>4, Zenon DEF CreateBackend, world
    <3>2. sb'[c] = Created(c)
      BY <2>4, Zenon DEF CreateBackend, Diligent, Guarded, Objects
    <3> QED
      BY <2>1, <3>1, <3>2, <1>1, BornKept, Zenon
  <2> QED
    BY <2>2, <2>3, <2>4, SoftElsewhere, Zenon DEF Diligent, Guarded
<1>3. pass'.at # "idle" => Attending' /\ Established'
  <2> SUFFICES ASSUME pass'.at # "idle" PROVE Attending' /\ Established'
    BY Zenon
  <2>1. Attending /\ Established
    BY <1>1, Zenon DEF Diligent, Disposal
  <2>2. Tame(pass.b)
    BY <1>2, <2>1, Zenon DEF Attending
  <2> QED
    BY <1>1, <2>1, <2>2, TameAttending, TameEstablished, Zenon
<1> QED
  BY <1>2, <1>3, Zenon DEF Disposal

LEMMA DisposalWork ==
    ASSUME "sb" \notin Lagging, "state" \notin Lagging, Diligent, Work
    PROVE  Disposal'
<1>1. cache'.job = cache.job \/ cache'.job = job'
  BY TablesWork, Zenon DEF Diligent
<1>2. pass.at # "idle"
  BY Zenon DEF Work, In, reconcileStorageBackendCredentialsStage, EnsureBucket,
        storageBackendBucketStateConfigMap, reconcileStorageBackendDatabase,
        storageBackendDBStateConfigMap, reconcileRuntimeCredentialsSecret,
        updateStorageBackendStatus, reconcileStorageBackendBucketDeletion,
        reconcileStorageBackendDatabaseDeletion, deleteStorageBackendCleanupObjects,
        DropCredentials, RemoveFinalizer
<1>3. Attending /\ Established /\ Tables /\ Objects
  BY <1>2, Zenon DEF Diligent, Disposal, Guarded
<1>4. PICK b \in Backends : b = pass.b /\ Kept(b)
  BY <1>3, Zenon DEF Attending, Diligent, Disposal
<1>5. \A c \in Backends : c # b => Kept(c)'
  BY <1>1, <1>3, <1>4, TameApart, TameKeeps, Zenon DEF Diligent, Disposal
<1>6. Kept(b)' /\ (pass'.at # "idle" => Attending' /\ Established')
  <2>1. CASE \/ reconcileStorageBackendCredentialsStage \/ reconcileRuntimeCredentialsSecret
             \/ storageBackendDBStateConfigMap
    BY <2>1, <1>1, <1>3, <1>4, CredentialsSecured, Zenon
  <2>2. CASE reconcileStorageBackendDatabase
    BY <2>2, <1>1, <1>3, <1>4, DatabaseSecured, Zenon
  <2>3. CASE EnsureBucket
    BY <2>3, <1>1, <1>3, <1>4, EnsureSecured, Zenon
  <2>4. CASE storageBackendBucketStateConfigMap
    BY <2>4, <1>1, <1>3, <1>4, BucketStateSecured, Zenon
  <2>5. CASE updateStorageBackendStatus
    BY <2>5, <1>1, <1>3, <1>4, StatusSecured, Zenon
  <2>6. CASE reconcileStorageBackendBucketDeletion \/ DropCredentials
    BY <2>6, <1>1, <1>3, <1>4, DeletionSecured, Zenon
  <2>7. CASE reconcileStorageBackendDatabaseDeletion
    BY <2>7, <1>1, <1>3, <1>4, DeregistrationSecured, Zenon
  <2>8. CASE deleteStorageBackendCleanupObjects
    BY <2>8, <1>1, <1>3, <1>4, CleanupSecured, Zenon
  <2>9. CASE RemoveFinalizer
    BY <2>9, <1>1, <1>3, <1>4, ReleaseSecured, Zenon
  <2> QED
    BY <2>1, <2>2, <2>3, <2>4, <2>5, <2>6, <2>7, <2>8, <2>9, Zenon DEF Work
<1> QED
  BY <1>4, <1>5, <1>6, Zenon DEF Disposal

LEMMA DiligentStep ==
    ASSUME Patient, "sb" \notin Lagging, "state" \notin Lagging, Diligent, [Next]_vars
    PROVE  Diligent'
<1>1. Guarded' /\ Defaults'
  BY GuardedStep, DefaultsStep, Zenon DEF Diligent
<1>2. ASSUME UNCHANGED <<sb, job, state, bucket, rows, tamoss, excused>>, NEW c \in Backends
      PROVE  Tame(c)
  BY <1>2, TameStill, Zenon
<1>3. CASE Work
  BY <1>1, <1>3, TablesWork, DisposalWork, Zenon DEF Diligent
<1>4. CASE TamossWork \/ Cluster \/ Users
  BY <1>1, <1>4, TablesElsewhere, DisposalElsewhere, Zenon DEF Diligent
<1>5. ASSUME NEW b \in Backends, Take(b) PROVE Diligent'
  <2>1. Tables' /\ (cache'.job = cache.job \/ cache'.job = job')
    BY <1>5, TablesTake, Zenon DEF Diligent
  <2>2. UNCHANGED <<job, state, bucket, rows, tamoss>>
    BY <1>5, Zenon DEF Take, Skip, AddFinalizer, Start, world
  <2>3. CASE Skip(b)
    <3>1. UNCHANGED <<sb, job, state, bucket, rows, tamoss, excused>> /\ UNCHANGED pass
      BY <2>3, Zenon DEF Skip, world
    <3>2. Disposal'
      BY <3>1, <1>2, <2>1, DisposalTame, Zenon DEF Diligent
    <3> QED
      BY <1>1, <2>1, <3>2, Zenon DEF Diligent
  <2>4. CASE AddFinalizer(b)
    <3>1. UNCHANGED pass /\ UNCHANGED excused
          /\ (UNCHANGED sb \/ sb' = [sb EXCEPT ![b].fin = TRUE])
      BY <2>4, Zenon DEF AddFinalizer
    <3>2. ASSUME NEW c \in Backends PROVE Tame(c)
      <4>1. ObjectFields \subseteq DOMAIN sb[c]
        BY Zenon DEF Diligent, Guarded, Objects
      <4>2. sb'[c] = sb[c] \/ sb'[c] = [sb[c] EXCEPT !.fin = TRUE]
        BY <3>1, Zenon DEF Diligent, Guarded, Objects
      <4>3. Soft(sb[c], sb'[c])
        BY <4>1, <4>2, SoftFacts, Zenon
      <4> QED
        BY <4>3, <2>2, <3>1, Zenon DEF Tame, Mild
    <3>3. Disposal'
      BY <3>1, <3>2, <2>1, DisposalTame, Zenon DEF Diligent
    <3> QED
      BY <1>1, <2>1, <3>3, Zenon DEF Diligent
  <2>5. CASE Start(b)
    <3>1. \A c \in Backends : Kept(c)
      BY Zenon DEF Diligent, Disposal
    <3>2. UNCHANGED sb /\ \A c \in Backends : c \in excused => c \in excused'
      BY <2>5, Zenon DEF Start
    <3>3. \A c \in Backends : Tame(c)
      BY <3>2, <2>2, TameStill, Zenon
    <3>4. \A c \in Backends : Kept(c)'
      BY <3>1, <3>3, <2>1, TameKeeps, Zenon
    <3>5. pass'.at # "idle" => Attending' /\ Established'
      BY <2>5, <3>1, StartSecured, Zenon DEF Diligent
    <3> QED
      BY <1>1, <2>1, <3>4, <3>5, Zenon DEF Diligent, Disposal
  <2> QED
    BY <1>5, <2>3, <2>4, <2>5, Zenon DEF Take
<1>6. ASSUME UNCHANGED <<sb, job, state, bucket, rows, tamoss, excused>>,
             pass' = Idle \/ UNCHANGED pass, Shown',
             cache'.job = cache.job \/ cache'.job = job'
      PROVE  Diligent'
  <2>1. PassFields \subseteq DOMAIN pass'
    BY <1>6, Zenon DEF Diligent, Tables, PassFields, Idle
  <2>2. Tables'
    BY <1>6, <2>1, Zenon DEF Diligent, Tables, Jobs, States, Buckets
  <2>3. \A c \in Backends : Tame(c)
    BY <1>2, <1>6, Zenon
  <2>4. CASE UNCHANGED pass
    BY <1>1, <1>6, <2>2, <2>3, <2>4, DisposalTame, Zenon DEF Diligent
  <2>5. CASE pass' = Idle
    <3>1. \A c \in Backends : Kept(c)'
      BY <1>6, <2>3, TameKeeps, Zenon DEF Diligent, Disposal
    <3>2. pass'.at = "idle"
      BY <2>5, Zenon DEF Idle
    <3> QED
      BY <1>1, <2>2, <3>1, <3>2, Zenon DEF Diligent, Disposal
  <2> QED
    BY <1>6, <2>4, <2>5, Zenon
<1>7. CASE CallFails
  <2>1. UNCHANGED <<sb, job, state, bucket, rows, tamoss, excused>> /\ pass' = Idle /\ Observe
    BY <1>7, Zenon DEF CallFails, Again, Then, world
  <2> QED
    BY <2>1, <1>6, ObserveShowsAll, Zenon
<1>8. CASE Restart
  <2>1. UNCHANGED <<sb, job, state, bucket, rows, tamoss, excused>> /\ pass' = Idle /\ cache' = live
    BY <1>8, Zenon DEF Restart, world
  <2>2. Shown' /\ cache'.job = job
    BY <2>1, Zenon DEF Shown, live
  <2> QED
    BY <2>1, <2>2, <1>6, Zenon
<1>9. ASSUME NEW k \in Lagging, Sync(k) PROVE Diligent'
  <2>1. /\ UNCHANGED <<sb, job, state, bucket, rows, tamoss, excused>> /\ UNCHANGED pass
        /\ cache' = [cache EXCEPT ![k] = live[k]]
    BY <1>9, Zenon DEF Sync, world
  <2>2. k # "sb" /\ k # "state"
    BY Zenon
  <2>3. Shown
    BY Zenon DEF Diligent, Tables
  <2>4. Shown'
    BY <2>1, <2>2, <2>3, Zenon DEF Shown
  <2>5. live.job = job
    BY Zenon DEF live
  <2>6. cache'.job = cache.job \/ cache'.job = job'
    <3>1. CASE k = "job"
      BY <3>1, <2>1, <2>3, <2>5, Zenon DEF Shown
    <3>2. CASE k # "job"
      BY <3>2, <2>1, <2>3, Zenon DEF Shown
    <3> QED
      BY <3>1, <3>2, Zenon
  <2> QED
    BY <2>1, <2>4, <2>6, <1>6, Zenon
<1>10. CASE UNCHANGED vars
  <2>1. UNCHANGED <<sb, job, state, bucket, rows, tamoss, excused>> /\ UNCHANGED pass /\ UNCHANGED cache
    BY <1>10, Zenon DEF vars, world
  <2>2. Shown'
    BY <2>1, Zenon DEF Diligent, Tables, Shown
  <2> QED
    BY <2>1, <2>2, <1>6, Zenon
<1> QED
  BY <1>3, <1>4, <1>5, <1>7, <1>8, <1>9, <1>10, Zenon DEF Next

LEMMA DiligentInit == Init => Diligent
<1> SUFFICES ASSUME Init PROVE Diligent
  BY Zenon
<1>1. Guarded
  BY DEF Init, Guarded, Objects, ObjectFields, TheTamoss, Worker, Doomed, Seen, live,
        Idle, NoSB
<1>2. Defaults
  <2>1. rows = [b \in Backends |-> NoRow]
    BY Zenon DEF Init
  <2>2. "dflt" \in DOMAIN NoRow /\ ~NoRow.dflt
    BY Zenon DEF NoRow
  <2> QED
    BY <2>1, <2>2, Zenon DEF Defaults
<1> DEFINE none == [reg |-> NoJob, dereg |-> NoJob]
<1>3. /\ job = [b \in Backends |-> none] /\ state = [b \in Backends |-> NoStates]
      /\ bucket = [b \in Backends |-> 0] /\ sb = [b \in Backends |-> NoSB]
      /\ rows = [b \in Backends |-> NoRow] /\ cache = live /\ pass = Idle
  BY Zenon DEF Init
<1>4. /\ Kinds \subseteq DOMAIN none /\ none["reg"] = NoJob /\ none["dereg"] = NoJob
      /\ "phase" \in DOMAIN NoJob
  BY Zenon DEF Kinds, NoJob
<1> HIDE DEF none
<1>5. Jobs
  BY <1>3, <1>4, Zenon DEF Jobs, Kinds
<1>6. States /\ Buckets
  BY <1>3, Zenon DEF States, Buckets, NoStates
<1>7. Shown /\ cache.job = job
  BY <1>3, Zenon DEF Shown, live
<1>8. PassFields \subseteq DOMAIN pass /\ pass.at = "idle"
  BY <1>3, Zenon DEF Idle, PassFields
<1>9. ~NoSB.exists /\ NoSB.phase = "Pending"
  BY Zenon DEF NoSB
<1>10. ASSUME NEW b \in Backends PROVE Kept(b)
  <2>1. ~sb[b].exists /\ sb[b].phase # "Ready"
    BY <1>3, <1>9, Zenon
  <2>2. bucket[b] = 0 /\ rows[b] = NoRow /\ job[b].reg = NoJob
    BY <1>3, <1>4, Zenon
  <2> QED
    BY <2>1, <2>2, Zenon DEF Kept, IsReady, Deregisters
<1> QED
  BY <1>1, <1>2, <1>5, <1>6, <1>7, <1>8, <1>10, Zenon DEF Diligent, Tables, Disposal

\* With current StorageBackends and state ConfigMaps, however late the Job cache
\* is, and when a name waits for the children of its last bearer to be
\* collected: once finalizeStorageBackend has released a backend that was Ready,
\* its bucket and, while the Tamoss is there, its row are gone, through every
\* restart, failed call, failed Job and edit.  Excepted (excused) are a
\* registration that commits after the deletion was asked for, credentials that
\* were gone, and a schema that was not ready for the deregistration.
THEOREM NothingLeftBehindTheorem ==
    ASSUME Patient, "sb" \notin Lagging, "state" \notin Lagging
    PROVE  Spec => []NothingLeftBehind
<1>1. Diligent => NothingLeftBehind
  BY Zenon DEF Diligent, Disposal, Kept, Emptied, Rowless, NothingLeftBehind
<1> QED
  BY <1>1, DiligentInit, DiligentStep, PTL DEF Spec
=============================================================================
