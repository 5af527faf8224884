--------------------------- MODULE StorageBackend ---------------------------
(***************************************************************************)
(* The StorageBackend controller, its finalizer, and the part of the       *)
(* Tamoss controller that owns the default backend: it creates it, holds   *)
(* its own finalizer until the backend is gone, and writes the same        *)
(* runtime credentials Secret.                                             *)
(*                                                                         *)
(* A pass of a controller is a sequence of steps, one per effect outside   *)
(* the process (an S3 call, a write to the API server).  Reads go to       *)
(* `cache`, which trails the API server for the kinds in Lagging.  The     *)
(* database rows are written by the Pods of two Jobs per backend, which    *)
(* run on their own once the Job exists.                                   *)
(***************************************************************************)
EXTENDS Integers

CONSTANTS
    Backends,    \* names of the StorageBackends of one Tamoss
    Owned,       \* the default backend the Tamoss controller creates
    Provider,    \* [Backends -> {"rustfs", "external", "hibernate"}]
    Revs,        \* contents a spec can have (label, tags, endpoints, default)
    DefaultRevs, \* the contents that set spec.defaultStorage
    WebIdentity, \* backends that use a workload identity instead of a Secret
    BadRevs,     \* the contents resolveStorageBackendSpec rejects
    Lagging,     \* kinds whose cached copy may trail the API server
    Patient,     \* a name is reused only once its old children are collected
    MaxGen,      \* spec generations of one backend object
    MaxUid,      \* objects created under one name
    MaxCors,     \* revisions of the Tamoss' browser origins
    MaxVersion,  \* releases of the Tamoss
    MaxDisturbances \* user operations and faults in one behaviour

VARIABLES
    sb,      \* the StorageBackend objects
    job,     \* their db-register and db-deregister Jobs
    state,   \* their bucket-state and db-state ConfigMaps
    cache,   \* what the manager's informers hold of the three kinds above
    bucket,  \* the managed buckets: 0 is absent, else the CORS revision set
    rows,    \* the tamoss_storage_backends table
    creds,   \* backends listed in the runtime credentials Secret
    secret,  \* backends whose credentials Secret exists
    tamoss,  \* the Tamoss: its release and the one its schema-state records
    infra,   \* the database and the object store of the Tamoss are running
    pass,    \* the StorageBackend controller's worker
    tpass,   \* the Tamoss controller's worker
    dirty,   \* backends in the StorageBackend work queue
    tdirty,  \* the Tamoss is in its work queue
    disturbed, \* user operations and faults so far
    excused  \* backends whose clean-up was overtaken or skipped (history)

world == <<bucket, rows, secret, tamoss, infra>>
vars == <<sb, job, state, cache, world, creds, pass, tpass, dirty, tdirty,
          disturbed, excused>>

NoSB == [exists |-> FALSE, uid |-> 0, gen |-> 0, rev |-> 0,
         deleting |-> FALSE, fin |-> FALSE, phase |-> "Pending", ogen |-> 0,
         bucketReady |-> FALSE]
NoJob == [phase |-> "none", hash |-> 0, owner |-> 0,
          term |-> FALSE]
NoState == [owner |-> 0, hash |-> 0]
NoStates == [bucket |-> NoState, db |-> NoState]
NoRow == [rev |-> 0, dflt |-> FALSE]

\* A worker between passes, and one in a pass: the backend, the object and the
\* Tamoss as they were read, and the outcome to report.
NoOut == [phase |-> "none", bucketReady |-> FALSE]
NoTamoss == [exists |-> FALSE, deleting |-> FALSE, version |-> 0, schema |-> 0,
             cors |-> 0]
Idle == [at |-> "idle", b |-> "none", s |-> NoSB, t |-> NoTamoss, out |-> NoOut]
TIdle == [at |-> "idle", list |-> {}]

live == [sb |-> sb, job |-> job, state |-> state]

-----------------------------------------------------------------------------
(* Watches.  Every step delivers the changes of the kinds that do not lag; *)
(* the others are delivered by Sync.                                       *)

\* storageBackendPrimaryPredicate: status writes do not enqueue.
storageBackendPrimary(s) == <<s.exists, s.uid, s.gen, s.deleting, s.fin>>

tamossPrimary(t) == <<t.exists, t.deleting, t.cors>>

\* Of a backend's Jobs only db-register has the controller reference that
\* Owns(&batchv1.Job{}) follows.
StorageBackendEvents(b) ==
    \/ storageBackendPrimary(cache.sb[b]) # storageBackendPrimary(cache'.sb[b])
    \/ cache.job[b].reg # cache'.job[b].reg
    \/ cache.state[b] # cache'.state[b]
    \/ tamossPrimary(tamoss) # tamossPrimary(tamoss')
    \/ (b \in secret) # (b \in secret')

TamossEvents ==
    \/ cache.sb # cache'.sb
    \/ creds # creds'
    \/ tamossPrimary(tamoss) # tamossPrimary(tamoss')

Enqueue(taken, again, ttaken, tagain) ==
    /\ dirty' = (dirty \ taken) \cup again
                    \cup {b \in Backends : StorageBackendEvents(b)}
    /\ tdirty' = ((tdirty /\ ~ttaken) \/ tagain \/ TamossEvents)

Observe ==
    cache' = [sb |-> IF "sb" \in Lagging THEN cache.sb ELSE sb',
              job |-> IF "job" \in Lagging THEN cache.job ELSE job',
              state |-> IF "state" \in Lagging THEN cache.state ELSE state']

\* The end of a step of the StorageBackend worker, of the Tamoss worker, and
\* of anything else.
Then(taken, again) == Observe /\ Enqueue(taken, again, FALSE, FALSE)
TThen(ttaken, tagain) == Observe /\ Enqueue({}, {}, ttaken, tagain)
Elsewhere == Observe /\ Enqueue({}, {}, FALSE, FALSE)

Sync(k) ==
    /\ cache[k] # live[k]
    /\ cache' = [cache EXCEPT ![k] = live[k]]
    /\ UNCHANGED <<sb, job, state, world, creds, pass, tpass, disturbed, excused>>
    /\ Enqueue({}, {}, FALSE, FALSE)

-----------------------------------------------------------------------------
(* What the code computes from a spec and from what it reads.              *)

IsHibernateDestination(b) == Provider[b] = "hibernate"

IsDefault(b, rev) == b \in Owned \/ rev \in DefaultRevs

\* The bucket hash of a managed bucket covers the browser origins of the
\* Tamoss; that of an external one only fields this model does not edit.
storageBackendBucketHash(b, cors) == IF Provider[b] = "rustfs" THEN cors ELSE 1

storageBackendBucketReady(b, cors) ==
    cache.state[b].bucket.hash = storageBackendBucketHash(b, cors)

storageBackendManagedBucketReady(b) == cache.state[b].bucket.hash # 0

storageBackendBucketDeletionRequired_MutantCurrent(b) ==
    Provider[b] = "rustfs" /\ storageBackendBucketReady(b, tamoss.cors)

storageBackendBucketDeletionRequired(b) ==
    Provider[b] = "rustfs" /\ storageBackendManagedBucketReady(b)

storageBackendRegistrationHash(s) == s.rev

storageBackendDBRegistered(b, s) ==
    cache.state[b].db.hash = storageBackendRegistrationHash(s)

\* schemaStateMatchesTarget: the recorded schema is that of the release of the
\* Tamoss t the pass has read.
schemaStateReady(t) == t.exists /\ tamoss.schema = t.version

storageBackendCredentials(b) == b \in secret \/ b \in WebIdentity

storageBackendRuntimeCredentials ==
    {b \in Backends : /\ cache.sb[b].exists
                      /\ ~cache.sb[b].deleting
                      /\ ~IsHibernateDestination(b) /\ b \notin WebIdentity
                      /\ b \in secret}

\* An unsupported provider, a missing field or bad tags degrade the backend.
resolveStorageBackendSpec(rev) == rev \notin BadRevs

jobSucceeded(j) == j.phase = "succeeded"
jobFailed(j) == j.phase = "failed"

storageBackendJob(hash, owner) ==
    [phase |-> "active", hash |-> hash, owner |-> owner,
     term |-> FALSE]

-----------------------------------------------------------------------------
(* The StorageBackend worker.                                              *)

In(stage) == pass.at = stage
Go(stage) == pass' = [pass EXCEPT !.at = stage]

\* The pass ends by writing the outcome to status.
Report(phase, bucketReady) ==
    pass' = [pass EXCEPT !.at = "status",
                         !.out = [phase |-> phase, bucketReady |-> bucketReady]]

\* An API error, or a result that asks for it, puts the request back.
Again == pass' = Idle /\ Then({}, {pass.b})

\* Reconcile, prepareStorageBackendLifecycle: nothing to do for an object
\* that is gone or whose finalizer is off.
Skip(b) ==
    /\ In("idle") /\ b \in dirty
    /\ ~cache.sb[b].exists \/ (cache.sb[b].deleting /\ ~cache.sb[b].fin)
    /\ UNCHANGED <<sb, job, state, world, creds, pass, tpass, disturbed, excused>>
    /\ Then({b}, {})

\* The finalizer is put on with a merge patch that carries no resource
\* version; a patch of an object that is gone fails.
AddFinalizer(b) ==
    /\ In("idle") /\ b \in dirty
    /\ cache.sb[b].exists /\ ~cache.sb[b].deleting /\ ~cache.sb[b].fin
    /\ sb' = IF sb[b].exists THEN [sb EXCEPT ![b].fin = TRUE] ELSE sb
    /\ UNCHANGED <<job, state, world, creds, pass, tpass, disturbed, excused>>
    /\ Then({b}, IF sb[b].exists THEN {} ELSE {b})

\* Only a managed bucket is created; for an external one its state is recorded
\* at once.
BucketStage_MutantRecordOnly(b) == "bucketState"

BucketStage(b) == IF Provider[b] = "rustfs" THEN "ensure" ELSE "bucketState"

\* What a pass on an object that is not deleted does first: everything it
\* reads before it has an effect.
FirstStage(b, rev) ==
    IF ~resolveStorageBackendSpec(rev) THEN "degraded"
    ELSE IF ~tamoss.exists THEN "noTamoss"
    ELSE IF ~storageBackendCredentials(b) THEN "missing"
    ELSE IF ~storageBackendBucketReady(b, tamoss.cors) THEN BucketStage(b)
    ELSE IF IsHibernateDestination(b) THEN "ready" ELSE "database"

\* finalizeStorageBackend up to its first effect.  A live Tamoss without a
\* current schema holds the finalizer back; a bucket is deleted only if
\* bucket-state records it and its credentials Secret is there.
FirstFinalStage(b) ==
    CASE tamoss.exists /\ ~tamoss.deleting /\ ~IsHibernateDestination(b)
            /\ ~schemaStateReady(tamoss) -> "wait"
      [] storageBackendBucketDeletionRequired(b) /\ storageBackendCredentials(b) -> "deleteBucket"
      [] OTHER -> "deregister"

\* The stages that only report an outcome.
Outcome(stage) ==
    CASE stage = "degraded" -> [phase |-> "Degraded", bucketReady |-> FALSE]
      [] stage = "noTamoss" -> [phase |-> "Progressing", bucketReady |-> FALSE]
      [] stage = "ready" -> [phase |-> "Ready", bucketReady |-> TRUE]
      [] OTHER -> NoOut

\* A pass works on an object with its finalizer on, and finalizes it once its
\* deletion was asked for.
Finalized(s) == s.exists /\ s.fin

Finalizing_MutantWithTamoss(s) == s.deleting \/ tamoss.deleting

Finalizing(s) == s.deleting

Start(b) ==
    LET s == cache.sb[b]
        stage == IF Finalizing(s) THEN FirstFinalStage(b) ELSE FirstStage(b, s.rev)
        out == Outcome(stage)
    IN  /\ In("idle") /\ b \in dirty
        /\ Finalized(s)
        /\ pass' = IF stage = "wait" THEN Idle
                   ELSE [at |-> IF out = NoOut THEN stage ELSE "status",
                         b |-> b, s |-> s, t |-> tamoss, out |-> out]
        /\ excused' = IF /\ s.deleting /\ stage = "deregister"
                         /\ storageBackendBucketDeletionRequired(b)
                      THEN excused \cup {b} ELSE excused
        /\ UNCHANGED <<sb, job, state, world, creds, tpass, disturbed>>
        /\ Then({b}, IF stage = "wait" THEN {b} ELSE {})

\* Without usable credentials the backend is dropped from the runtime Secret
\* before the pass reports it.
reconcileStorageBackendCredentialsStage ==
    /\ In("missing")
    /\ creds' = IF tamoss.exists THEN storageBackendRuntimeCredentials ELSE creds
    /\ Report("Progressing", FALSE)
    /\ UNCHANGED <<sb, job, state, world, tpass, disturbed, excused>>
    /\ Then({}, {})

\* S3BucketClient: Ensure creates the bucket if it is absent and sets its CORS
\* rules; Delete removes its objects, then the bucket, and accepts that it is
\* gone already.
Ensure(b, cors) == [bucket EXCEPT ![b] = cors]
Delete(b) == [bucket EXCEPT ![b] = 0]

\* reconcileStorageBackendBucket, the call to the object store.
EnsureBucket ==
    /\ In("ensure")
    /\ UNCHANGED <<sb, job, state, rows, secret, tamoss, infra, creds, tpass,
                   disturbed, excused>>
    /\ \/ /\ storageBackendCredentials(pass.b) /\ infra
          /\ bucket' = Ensure(pass.b, pass.t.cors)
          /\ Go("bucketState")
          /\ Then({}, {})
       \/ /\ storageBackendCredentials(pass.b) /\ ~infra
          /\ Report("Progressing", FALSE)
          /\ UNCHANGED bucket
          /\ Then({}, {})
       \/ /\ ~storageBackendCredentials(pass.b)
          /\ UNCHANGED bucket
          /\ Again

\* The state of a bucket is recorded after the bucket exists; a hibernation
\* destination is then done.
storageBackendBucketStateConfigMap ==
    /\ In("bucketState")
    /\ state' = [state EXCEPT ![pass.b].bucket =
                    [owner |-> pass.s.uid,
                     hash |-> storageBackendBucketHash(pass.b, pass.t.cors)]]
    /\ IF IsHibernateDestination(pass.b) THEN Report("Ready", TRUE)
                                        ELSE Go("database")
    /\ UNCHANGED <<sb, job, world, creds, tpass, disturbed, excused>>
    /\ Then({}, {})

\* Applying a Job that exists changes nothing when it is the same Job, and is
\* refused when it differs: a Job's template is immutable.
Refused(b, kind, desired) ==
    job[b][kind] # NoJob /\ job[b][kind].hash # desired.hash

Applied(b, kind, desired) ==
    IF job[b][kind] = NoJob THEN [job EXCEPT ![b][kind] = desired] ELSE job

\* reconcileStorageBackendDatabase up to its first write.
reconcileStorageBackendDatabase ==
    LET b == pass.b
        j == cache.job[b].reg
        hash == storageBackendRegistrationHash(pass.s)
        desired == storageBackendJob(hash, pass.s.uid)
        ready == schemaStateReady(pass.t)
        register == ready /\ ~storageBackendDBRegistered(b, pass.s)
    IN  /\ In("database")
        /\ UNCHANGED <<sb, state, world, creds, tpass, disturbed, excused>>
        /\ \/ /\ ~ready
              /\ Report("Progressing", TRUE)
              /\ UNCHANGED job
              /\ Then({}, {})
           \/ /\ ready /\ storageBackendDBRegistered(b, pass.s)
              /\ Go("credentials")
              /\ UNCHANGED job
              /\ Then({}, {})
           \/ /\ register /\ j = NoJob
              /\ job' = Applied(b, "reg", desired)
              /\ IF Refused(b, "reg", desired) THEN Again
                 ELSE Report("Progressing", TRUE) /\ Then({}, {})
           \/ /\ register /\ (jobFailed(j) \/ (jobSucceeded(j) /\ j.hash # hash))
              /\ job' = [job EXCEPT ![b].reg = NoJob]
              /\ Report("Progressing", TRUE)
              /\ Then({}, {})
           \/ /\ register /\ j.phase = "active"
              /\ Report("Progressing", TRUE)
              /\ UNCHANGED job
              /\ Then({}, {})
           \/ /\ register /\ jobSucceeded(j) /\ j.hash = hash
              /\ Go("dbState")
              /\ UNCHANGED job
              /\ Then({}, {})

storageBackendDBStateConfigMap ==
    /\ In("dbState")
    /\ state' = [state EXCEPT ![pass.b].db =
                    [owner |-> pass.s.uid,
                     hash |-> storageBackendRegistrationHash(pass.s)]]
    /\ Go("credentials")
    /\ UNCHANGED <<sb, job, world, creds, tpass, disturbed, excused>>
    /\ Then({}, {})

reconcileRuntimeCredentialsSecret ==
    /\ In("credentials")
    /\ creds' = IF tamoss.exists THEN storageBackendRuntimeCredentials ELSE creds
    /\ Report("Ready", TRUE)
    /\ UNCHANGED <<sb, job, state, world, tpass, disturbed, excused>>
    /\ Then({}, {})

StatusOf(s) == [s EXCEPT !.phase = pass.out.phase, !.ogen = pass.s.gen,
                         !.bucketReady = pass.out.bucketReady]

Requeues(phase) == phase = "Progressing"

\* updateStorageBackendStatus: an unchanged status is not written, a changed
\* one is patched under the resource version that was read.  Ready and
\* Degraded end the pass, Progressing asks for another.
updateStorageBackendStatus ==
    LET b == pass.b
        conflict == StatusOf(pass.s) # pass.s /\ sb[b] # pass.s
    IN  /\ In("status")
        /\ sb' = IF StatusOf(pass.s) = pass.s \/ conflict THEN sb
                 ELSE [sb EXCEPT ![b] = StatusOf(pass.s)]
        /\ pass' = Idle
        /\ UNCHANGED <<job, state, world, creds, tpass, disturbed, excused>>
        /\ Then({}, IF conflict \/ Requeues(pass.out.phase) THEN {b} ELSE {})

-----------------------------------------------------------------------------
(* finalizeStorageBackend.                                                 *)

reconcileStorageBackendBucketDeletion ==
    /\ In("deleteBucket")
    /\ UNCHANGED <<sb, job, state, rows, secret, tamoss, infra, creds, tpass,
                   disturbed, excused>>
    /\ IF infra THEN /\ bucket' = Delete(pass.b)
                     /\ Go("deregister")
                     /\ Then({}, {})
                ELSE UNCHANGED bucket /\ Again

\* reconcileStorageBackendCleanupJob.  The deregistration hash covers only
\* immutable fields, so a finished Job of this name always matches.
reconcileStorageBackendDatabaseDeletion ==
    LET b == pass.b
        j == cache.job[b].dereg
        needed == ~IsHibernateDestination(b) /\ schemaStateReady(pass.t)
    IN  /\ In("deregister")
        /\ excused' = IF ~needed /\ pass.t.exists /\ ~IsHibernateDestination(b)
                      THEN excused \cup {b} ELSE excused
        /\ UNCHANGED <<sb, state, world, creds, tpass, disturbed>>
        /\ \/ /\ ~needed \/ jobSucceeded(j)
              /\ Go("cleanup")
              /\ UNCHANGED job
              /\ Then({}, {})
           \/ /\ needed /\ j = NoJob
              /\ job' = Applied(b, "dereg", storageBackendJob(1, 0))
              /\ Again
           \/ /\ needed /\ jobFailed(j)
              /\ job' = [job EXCEPT ![b].dereg = NoJob]
              /\ Again
           \/ /\ needed /\ j.phase = "active"
              /\ UNCHANGED job
              /\ Again

\* The Jobs the cache lists and the two ConfigMaps.  Foreground deletion
\* leaves a Job in place until its Pods are gone.
deleteStorageBackendCleanupObjects ==
    LET b == pass.b
        Terminated(k) == IF cache.job[b][k] = NoJob \/ job[b][k] = NoJob THEN job[b][k]
                         ELSE [job[b][k] EXCEPT !.term = TRUE]
    IN  /\ In("cleanup")
        /\ job' = [job EXCEPT ![b] = [reg |-> Terminated("reg"),
                                      dereg |-> Terminated("dereg")]]
        /\ state' = [state EXCEPT ![b] = NoStates]
        /\ Go(IF pass.t.exists /\ ~pass.t.deleting /\ ~IsHibernateDestination(b)
              THEN "dropCredentials" ELSE "release")
        /\ UNCHANGED <<sb, world, creds, tpass, disturbed, excused>>
        /\ Then({}, {})

\* The credentials of the backends that remain.
DropCredentials ==
    /\ In("dropCredentials")
    /\ creds' = IF tamoss.exists THEN storageBackendRuntimeCredentials ELSE creds
    /\ Go("release")
    /\ UNCHANGED <<sb, job, state, world, tpass, disturbed, excused>>
    /\ Then({}, {})

\* An object that is being deleted disappears with its last finalizer.
Unfinalized(s) == IF s.deleting THEN [NoSB EXCEPT !.uid = s.uid, !.phase = s.phase]
                                ELSE [s EXCEPT !.fin = FALSE]

RemoveFinalizer ==
    /\ In("release")
    /\ sb' = IF sb[pass.b].exists THEN [sb EXCEPT ![pass.b] = Unfinalized(@)] ELSE sb
    /\ pass' = Idle
    /\ UNCHANGED <<job, state, world, creds, tpass, disturbed, excused>>
    /\ Then({}, IF sb[pass.b].exists THEN {} ELSE {pass.b})

-----------------------------------------------------------------------------
(* The Tamoss worker, as far as it concerns StorageBackends.               *)

Created(b) == [NoSB EXCEPT !.exists = TRUE, !.uid = sb[b].uid + 1, !.gen = 1,
                           !.rev = 1]

\* Whether a name may be used again before the Jobs of its last bearer, which
\* were deleted in the foreground, are gone and known to be.
Vacant(b) == Patient => /\ cache.job[b] = job[b] /\ cache.state[b] = state[b]
                        /\ job[b] = [reg |-> NoJob, dereg |-> NoJob]
                        /\ state[b] = NoStates

\* Delete a live object: at once, or when its finalizer is removed.
Deleted(s) == IF ~s.exists THEN s
              ELSE IF s.fin THEN [s EXCEPT !.deleting = TRUE]
              ELSE [NoSB EXCEPT !.uid = s.uid, !.phase = s.phase]

\* The backends listTamossOwnedStorageBackends finds.
OwnedStorageBackends_MutantNotDeleting ==
    {b \in Owned : cache.sb[b].exists /\ ~cache.sb[b].deleting}

OwnedStorageBackends == {b \in Owned : cache.sb[b].exists}

\* finalizeTamoss and deleteOwnedStorageBackends: the owned backends in the
\* cached list are deleted, and only an empty list releases the Tamoss.
finalizeTamoss ==
    LET owned == OwnedStorageBackends
    IN  /\ tpass.at = "idle" /\ tdirty
        /\ tamoss.exists /\ tamoss.deleting
        /\ sb' = [b \in Backends |-> IF b \in owned THEN Deleted(sb[b]) ELSE sb[b]]
        /\ tamoss' = IF owned = {} THEN [tamoss EXCEPT !.exists = FALSE] ELSE tamoss
        /\ UNCHANGED <<job, state, bucket, rows, secret, infra, creds, pass,
                       tpass, disturbed, excused>>
        /\ TThen(TRUE, owned # {})

\* The default backend is applied.  Past the gates on its bucket, on the
\* schema and on its registration the runtime credentials are rendered, to be
\* applied with the other objects of the pass.
checkDefaultStorageBackendReady ==
    \A b \in Owned : cache.sb[b].bucketReady /\ cache.sb[b].phase = "Ready"

ensureDefaultStorageBackend ==
    LET ready == checkDefaultStorageBackendReady /\ schemaStateReady(tamoss)
    IN  /\ tpass.at = "idle" /\ tdirty
        /\ tamoss.exists /\ ~tamoss.deleting
        /\ sb' = [b \in Backends |-> IF b \in Owned /\ ~sb[b].exists /\ Vacant(b)
                                     THEN Created(b) ELSE sb[b]]
        /\ tpass' = IF ready THEN [at |-> "apply", list |-> storageBackendRuntimeCredentials]
                             ELSE TIdle
        /\ UNCHANGED <<job, state, world, creds, pass, disturbed, excused>>
        /\ TThen(TRUE, ~ready)

\* CredsSecretManager.Ensure: the Tamoss pass generates the Secret of the
\* default backend when it is missing.
EnsureCreds(b) ==
    /\ b \in Owned \ secret /\ tamoss.exists /\ ~tamoss.deleting
    /\ secret' = secret \cup {b}
    /\ UNCHANGED <<sb, job, state, bucket, rows, tamoss, infra, creds, pass,
                   tpass, disturbed, excused>>
    /\ Elsewhere

\* reconcileSchema: the migration runs once the default bucket is ready.
SchemaReady ==
    /\ tamoss.exists /\ ~tamoss.deleting /\ ~schemaStateReady(tamoss)
    /\ \A b \in Owned : cache.sb[b].bucketReady
    /\ tamoss' = [tamoss EXCEPT !.schema = tamoss.version]
    /\ UNCHANGED <<sb, job, state, bucket, rows, secret, infra, creds, pass,
                   tpass, disturbed, excused>>
    /\ Elsewhere

applyTamossDesiredObjects ==
    /\ tpass.at = "apply"
    /\ creds' = IF tamoss.exists THEN tpass.list ELSE creds
    /\ tpass' = TIdle
    /\ UNCHANGED <<sb, job, state, world, pass, disturbed, excused>>
    /\ TThen(FALSE, FALSE)

TamossGone ==
    /\ tpass.at = "idle" /\ tdirty /\ ~tamoss.exists
    /\ UNCHANGED <<sb, job, state, world, creds, pass, tpass, disturbed, excused>>
    /\ TThen(TRUE, FALSE)

-----------------------------------------------------------------------------
(* Jobs, the database and the garbage collector.                           *)

\* storageBackendRegistrationSQL: one transaction clears the default flag of
\* the other rows when this one is the default, and upserts this row.
storageBackendRegistrationSQL_MutantUpsertOnly(b, rev) ==
    [rows EXCEPT ![b] = [rev |-> rev, dflt |-> IsDefault(b, rev)]]

storageBackendRegistrationSQL(b, rev) ==
    [c \in Backends |->
        IF c = b THEN [rev |-> rev, dflt |-> IsDefault(b, rev)]
        ELSE IF IsDefault(b, rev) THEN [rows[c] EXCEPT !.dflt = FALSE]
        ELSE rows[c]]

storageBackendDeregistrationSQL(b) == [rows EXCEPT ![b] = NoRow]

\* A Pod of an active Job runs its script to the end; a Job that is being
\* deleted may still have one.  A registration that commits after its
\* backend's deletion was asked for is remembered.
Committed(b, k) ==
    /\ rows' = IF k = "reg" THEN storageBackendRegistrationSQL(b, job[b][k].hash)
                            ELSE storageBackendDeregistrationSQL(b)
    /\ excused' = IF k = "reg" /\ ~(sb[b].exists /\ ~sb[b].deleting)
                  THEN excused \cup {b} ELSE excused

RunScript(b, k) ==
    /\ job[b][k].phase = "active" /\ infra
    /\ Committed(b, k)
    /\ job' = [job EXCEPT ![b][k].phase = "succeeded"]
    /\ UNCHANGED <<sb, state, bucket, secret, tamoss, infra, creds, pass, tpass,
                   disturbed>>
    /\ Elsewhere

\* The Pods of a Job use up its backoff limit, before or after the commit;
\* without the database they always do.
JobFail(b, k) ==
    /\ job[b][k].phase = "active"
    /\ disturbed < MaxDisturbances \/ ~infra
    /\ UNCHANGED <<rows, excused>> \/ (infra /\ Committed(b, k))
    /\ job' = [job EXCEPT ![b][k].phase = "failed"]
    /\ disturbed' = IF infra THEN disturbed + 1 ELSE disturbed
    /\ UNCHANGED <<sb, state, bucket, secret, tamoss, infra, creds, pass, tpass>>
    /\ Elsewhere

Orphan(b, owner) == owner # 0 /\ ~(sb[b].exists /\ sb[b].uid = owner)

\* Jobs leave once deleted in the foreground; what a backend owns leaves once
\* the backend is gone.
CollectJob(b, k) ==
    /\ job[b][k].term
    /\ job' = [job EXCEPT ![b][k] = NoJob]
    /\ UNCHANGED <<sb, state, world, creds, pass, tpass, disturbed, excused>>
    /\ Elsewhere

CollectOrphans(b) ==
    /\ \/ \E k \in DOMAIN job[b] : Orphan(b, job[b][k].owner)
       \/ \E k \in DOMAIN state[b] : Orphan(b, state[b][k].owner)
    /\ job' = [job EXCEPT ![b] = [k \in DOMAIN @ |->
                    IF Orphan(b, @[k].owner) THEN NoJob ELSE @[k]]]
    /\ state' = [state EXCEPT ![b] = [k \in DOMAIN @ |->
                    IF Orphan(b, @[k].owner) THEN NoState ELSE @[k]]]
    /\ UNCHANGED <<sb, world, creds, pass, tpass, disturbed, excused>>
    /\ Elsewhere

\* With the Tamoss go its database, its object store, the Secrets it owns and
\* what is left of its default backend.
CollectTamoss ==
    /\ ~tamoss.exists /\ infra
    /\ infra' = FALSE
    /\ bucket' = [b \in Backends |-> 0]
    /\ rows' = [b \in Backends |-> NoRow]
    /\ creds' = {}
    /\ secret' = secret \ Owned
    /\ sb' = [b \in Backends |-> IF b \in Owned THEN Deleted(sb[b]) ELSE sb[b]]
    /\ UNCHANGED <<job, state, tamoss, pass, tpass, disturbed, excused>>
    /\ Elsewhere

-----------------------------------------------------------------------------
(* Users, and faults.                                                     *)

\* Users and faults share one budget.
Disturb == disturbed < MaxDisturbances /\ disturbed' = disturbed + 1

CreateBackend(b) ==
    /\ Disturb
    /\ b \notin Owned /\ ~sb[b].exists /\ sb[b].uid < MaxUid
    /\ Vacant(b)
    /\ sb' = [sb EXCEPT ![b] = Created(b)]
    /\ excused' = excused \ {b}
    /\ UNCHANGED <<job, state, world, creds, pass, tpass>>
    /\ Elsewhere

EditBackend(b, rev) ==
    /\ Disturb
    /\ b \notin Owned /\ sb[b].exists /\ ~sb[b].deleting
    /\ sb[b].gen < MaxGen /\ rev # sb[b].rev
    /\ sb' = [sb EXCEPT ![b].rev = rev, ![b].gen = @ + 1]
    /\ UNCHANGED <<job, state, world, creds, pass, tpass, excused>>
    /\ Elsewhere

\* With the confirmation the admission webhook asks for.  The default backend
\* comes back with the next pass of its Tamoss.
DeleteBackend(b) ==
    /\ Disturb
    /\ sb[b].exists /\ ~sb[b].deleting
    /\ b \in Owned => sb[b].uid < MaxUid
    /\ sb' = [sb EXCEPT ![b] = Deleted(@)]
    /\ UNCHANGED <<job, state, world, creds, pass, tpass, excused>>
    /\ Elsewhere

DeleteTamoss ==
    /\ Disturb
    /\ tamoss.exists /\ ~tamoss.deleting
    /\ tamoss' = [tamoss EXCEPT !.deleting = TRUE]
    /\ UNCHANGED <<sb, job, state, bucket, rows, secret, infra, creds, pass,
                   tpass, excused>>
    /\ Elsewhere

EditOrigins ==
    /\ Disturb
    /\ tamoss.exists /\ ~tamoss.deleting /\ tamoss.cors < MaxCors
    /\ tamoss' = [tamoss EXCEPT !.cors = @ + 1]
    /\ UNCHANGED <<sb, job, state, bucket, rows, secret, infra, creds, pass,
                   tpass, excused>>
    /\ Elsewhere

\* An upgrade: schema-state is that of the release before until it is migrated.
BeginUpgrade ==
    /\ Disturb
    /\ tamoss.exists /\ ~tamoss.deleting
    /\ tamoss.version < MaxVersion /\ schemaStateReady(tamoss)
    /\ tamoss' = [tamoss EXCEPT !.version = @ + 1]
    /\ UNCHANGED <<sb, job, state, bucket, rows, secret, infra, creds, pass,
                   tpass, excused>>
    /\ Elsewhere

\* Someone removes a credentials Secret, and puts it back.
LoseSecret(b) ==
    /\ Disturb /\ b \in secret
    /\ secret' = secret \ {b}
    /\ UNCHANGED <<sb, job, state, bucket, rows, tamoss, infra, creds, pass,
                   tpass, excused>>
    /\ Elsewhere

RestoreSecret(b) ==
    /\ b \notin secret /\ b \notin Owned
    /\ secret' = secret \cup {b}
    /\ UNCHANGED <<sb, job, state, bucket, rows, tamoss, infra, creds, pass,
                   tpass, disturbed, excused>>
    /\ Elsewhere

\* An API call of the StorageBackend pass fails before it has an effect.
CallFails ==
    /\ Disturb /\ pass.at # "idle"
    /\ UNCHANGED <<sb, job, state, world, creds, tpass, excused>>
    /\ Again

\* The manager restarts: both passes are lost, the caches are filled again
\* and every object is enqueued.
Restart ==
    /\ Disturb
    /\ pass # Idle \/ tpass # TIdle
    /\ pass' = Idle /\ tpass' = TIdle
    /\ cache' = live
    /\ dirty' = Backends /\ tdirty' = TRUE
    /\ UNCHANGED <<sb, job, state, world, creds, excused>>

-----------------------------------------------------------------------------
Init ==
    /\ sb = [b \in Backends |-> NoSB]
    /\ job = [b \in Backends |-> [reg |-> NoJob, dereg |-> NoJob]]
    /\ state = [b \in Backends |-> NoStates]
    /\ cache = live
    /\ bucket = [b \in Backends |-> 0]
    /\ rows = [b \in Backends |-> NoRow]
    /\ creds = {}
    /\ secret = Backends
    /\ tamoss = [exists |-> TRUE, deleting |-> FALSE, version |-> 1, schema |-> 0,
                 cors |-> 1]
    /\ infra = TRUE
    /\ pass = Idle /\ tpass = TIdle
    /\ dirty = {} /\ tdirty = TRUE
    /\ disturbed = 0 /\ excused = {}

Take(b) == Skip(b) \/ AddFinalizer(b) \/ Start(b)

Work ==
    \/ reconcileStorageBackendCredentialsStage \/ EnsureBucket
    \/ storageBackendBucketStateConfigMap \/ reconcileStorageBackendDatabase
    \/ storageBackendDBStateConfigMap \/ reconcileRuntimeCredentialsSecret
    \/ updateStorageBackendStatus \/ reconcileStorageBackendBucketDeletion
    \/ reconcileStorageBackendDatabaseDeletion
    \/ deleteStorageBackendCleanupObjects \/ DropCredentials \/ RemoveFinalizer

TamossWork ==
    \/ finalizeTamoss \/ ensureDefaultStorageBackend
    \/ applyTamossDesiredObjects \/ TamossGone

Cluster ==
    \/ SchemaReady \/ CollectTamoss \/ (\E b \in Owned : EnsureCreds(b))
    \/ \E b \in Backends : \E k \in {"reg", "dereg"} :
          RunScript(b, k) \/ JobFail(b, k) \/ CollectJob(b, k)
    \/ \E b \in Backends : CollectOrphans(b)

Users ==
    \/ \E b \in Backends : CreateBackend(b) \/ DeleteBackend(b)
    \/ \E b \in Backends, rev \in Revs : EditBackend(b, rev)
    \/ DeleteTamoss \/ EditOrigins \/ BeginUpgrade
    \/ \E b \in Backends : LoseSecret(b) \/ RestoreSecret(b)

Next ==
    \/ \E b \in Backends : Take(b)
    \/ Work \/ TamossWork \/ Cluster \/ Users \/ CallFails \/ Restart
    \/ \E k \in Lagging : Sync(k)

Spec == Init /\ [][Next]_vars

\* The two controllers keep working through their queues, the cluster runs
\* Jobs and collects garbage, and informers catch up.  One worker serves all
\* backends, so each one's turn needs strong fairness.  Nothing is assumed of
\* users or of faults.
FairSpec ==
    /\ Spec
    /\ \A b \in Backends : SF_vars(Take(b))
    /\ WF_vars(Work) /\ SF_vars(TamossWork)
    /\ WF_vars(SchemaReady) /\ WF_vars(CollectTamoss)
    /\ \A b \in Owned : WF_vars(EnsureCreds(b))
    /\ \A b \in Backends : \A k \in {"reg", "dereg"} :
          /\ WF_vars(RunScript(b, k))
          /\ WF_vars(CollectJob(b, k))
    /\ \A b \in Backends : WF_vars(CollectOrphans(b))
    /\ \A k \in Lagging : WF_vars(Sync(k))

-----------------------------------------------------------------------------
(* Properties.                                                             *)

SBType == [exists : BOOLEAN, uid : 0..MaxUid, gen : 0..MaxGen,
           rev : Revs \cup {0}, deleting : BOOLEAN, fin : BOOLEAN,
           phase : {"Pending", "Progressing", "Ready", "Degraded"},
           ogen : 0..MaxGen, bucketReady : BOOLEAN]
JobType == [phase : {"none", "active", "succeeded", "failed"},
            hash : Revs \cup {0}, owner : 0..MaxUid, term : BOOLEAN]
StateType == [owner : 0..MaxUid, hash : Revs \cup (0..MaxCors)]

\* The variables have their types, and a worker that is in a pass works for a
\* backend on an object it has read with its finalizer on.
TypeOK ==
    /\ sb \in [Backends -> SBType]
    /\ job \in [Backends -> [reg : JobType, dereg : JobType]]
    /\ state \in [Backends -> [bucket : StateType, db : StateType]]
    /\ bucket \in [Backends -> 0..MaxCors]
    /\ rows \in [Backends -> [rev : Revs \cup {0}, dflt : BOOLEAN]]
    /\ creds \subseteq Backends /\ secret \subseteq Backends
    /\ pass # Idle => pass.b \in Backends /\ pass.s.exists /\ pass.s.fin
    /\ dirty \subseteq Backends /\ disturbed \in 0..MaxDisturbances

Reported(b) == /\ sb[b].exists /\ ~sb[b].deleting
               /\ sb[b].phase = "Ready" /\ sb[b].ogen = sb[b].gen

\* A backend that reports Ready for its current generation has the row that
\* its spec asks for in the database: DatabaseReady is never ahead of the
\* registration transaction (the default flag aside, see OneDefault).
ReadyIsRegistered ==
    \A b \in Backends : (Reported(b) /\ ~IsHibernateDestination(b) /\ infra)
                            => rows[b].rev = sb[b].rev

\* A managed backend that reports Ready has its bucket.
ReadyHasBucket ==
    \A b \in Backends : (Reported(b) /\ Provider[b] = "rustfs" /\ infra)
                            => bucket[b] # 0

\* status.phase Ready means what it says to the users of the backend: both its
\* row and its bucket are there.
ReadyIsTrue == ReadyIsRegistered /\ ReadyHasBucket

\* However registrations of several default backends interleave, the table
\* never holds two default rows.
OneDefault == \A b, c \in Backends : rows[b].dflt /\ rows[c].dflt => b = c

\* The finalizer of a backend that was Ready leaves neither its row nor its
\* bucket behind, unless a registration Job was still running when the
\* deletion was asked for, the credentials Secret was gone, or the schema moved
\* on between the two checks of schemaStateReady or with the Tamoss' deletion.
NothingLeftBehind ==
    \A b \in Backends :
        (~sb[b].exists /\ sb[b].phase = "Ready" /\ b \notin excused)
            => bucket[b] = 0 /\ (tamoss.exists => rows[b] = NoRow)

\* The bucket of a backend that nobody deleted is never deleted under it, even
\* when a stale cache makes an old finalization run again.
LiveBucketKept ==
    [][\A b \in Backends : (bucket[b] # 0 /\ bucket'[b] = 0 /\ infra')
            => sb[b].exists /\ sb[b].deleting]_vars

\* The Tamoss holds its finalizer until its default backend has run its own,
\* while the database, the object store and the Secrets are still there.
TamossLast ==
    [][(tamoss.exists /\ ~tamoss'.exists) => \A b \in Owned : ~sb[b].exists]_vars

\* What the controllers bring about once nobody interferes: no backend is left
\* terminating, every acceptable one with its Secret is Ready with the bucket
\* CORS of the day, and the runtime Secret lists the usable backends.
Settled ==
    /\ \A b \in Backends : ~sb[b].deleting
    /\ tamoss.exists => ~tamoss.deleting
    /\ tamoss.exists =>
          /\ \A b \in Backends :
                (sb[b].exists /\ storageBackendCredentials(b) /\ sb[b].rev \notin BadRevs) =>
                   /\ Reported(b)
                   /\ Provider[b] = "rustfs" => bucket[b] = tamoss.cors
          /\ creds = {b \in secret \ WebIdentity : sb[b].exists /\ ~IsHibernateDestination(b)}

\* The one way to wait forever: the finalizer of a default backend waits for
\* the schema, and the schema for the bucket of that backend.
Entangled ==
    /\ tamoss.exists /\ ~tamoss.deleting /\ ~schemaStateReady(tamoss)
    /\ \E b \in Owned : sb[b].deleting /\ ~sb[b].bucketReady

\* Registration, deregistration, bucket creation and the two writers of the
\* runtime credentials converge, through lost passes, failed Jobs and
\* upgrades, unless the default backend is deleted before it has a bucket.
EventuallySettled == <>[](Settled \/ Entangled)
=============================================================================
