--------------------------- MODULE UpgradeProofs ---------------------------
(***************************************************************************)
(* Proofs about Upgrade.tla, for every catalogue of releases and every     *)
(* bound.                                                                  *)
(*                                                                         *)
(* First, for every set of kinds whose informer cache lags: neither the    *)
(* schema-state ConfigMap nor the workloads run ahead of the database.     *)
(* Both facts travel through copies: a Job's success is read from a cache, *)
(* carried through the pass, written to the ConfigMap, and read again.     *)
(* The invariant says that each copy is covered by what the database       *)
(* carries; it is preserved because the database's schema never decreases. *)
(*                                                                         *)
(* Second, the release lock in the status of a Tamoss: what the lock, the  *)
(* schema-state, the database and the migrations know of each other.  The  *)
(* lock follows from nothing but the status patches being refused when the *)
(* Tamoss has changed, so the cached Tamoss, Jobs and Deployments may be   *)
(* arbitrarily stale.  The schema-state ConfigMap and the migration Pods   *)
(* must be read current.                                                   *)
(*                                                                         *)
(* Third, what follows from the lock: one migration at a time, fixtures    *)
(* only on a fresh database, the stamp, Ready, the completion of a         *)
(* release, and that Upgrade implements Release.                           *)
(***************************************************************************)
EXTENDS Upgrade, TLAPS

\* A schema-state, and the Jobs, that claim nothing the database lacks.
StateCovered(st) == "applied" \in DOMAIN st /\ st.applied \in Nat /\ st.applied <= db
JobsCovered(js) ==
    /\ js = [s \in Schemas |-> js[s]]
    /\ \A s \in Schemas : /\ {"status", "uid", "deleting"} \subseteq DOMAIN js[s]
                          /\ js[s].status = "complete" => s <= db

\* A pass works towards a release of the catalogue, and believes in a schema
\* only when the database carries it.
PassCovered ==
    /\ "at" \in DOMAIN pass
    /\ pass.at # "idle" => /\ {"mem"} \subseteq DOMAIN pass
                           /\ pass.mem.version \in Releases
    /\ pass.at = "reset" => StateCovered(pass.state)
    /\ pass.at \in {"apply", "prune", "report"} =>
          "ready" \in DOMAIN pass /\ (pass.ready => SchemaOf[pass.mem.version] <= db)

Shapes ==
    /\ db \in Nat
    /\ "version" \in DOMAIN tam
    /\ cache = [k \in Kinds |-> cache[k]] /\ "version" \in DOMAIN cache["tamoss"]
    /\ \A p \in pods : "schema" \in DOMAIN p /\ p.schema \in Schemas
    /\ "release" \in DOMAIN deploy
    /\ deploy = NoDeploy \/ deploy.release \in Releases

Covered ==
    /\ Shapes
    /\ StateCovered(state) /\ StateCovered(cache["state"])
    /\ JobsCovered(jobs) /\ JobsCovered(cache["job"])
    /\ PassCovered
    /\ ServingNeedsSchema

LEMMA SchemaNumbers == /\ \A v \in Releases : SchemaOf[v] \in Nat /\ SchemaOf[v] \in Schemas
                       /\ \A s \in Schemas : s \in Nat
BY CatalogueAssumption, Zenon DEF Schemas

LEMMA CoveredInit == Init => Covered
<1> SUFFICES ASSUME Init PROVE Covered
  BY Zenon
<1>0. /\ db \in {0} \cup Schemas
      /\ state = IF db = 0 THEN NoState ELSE Recorded(db, 0)
      /\ jobs = [s \in Schemas |-> NoJob] /\ pods = {} /\ deploy = NoDeploy
      /\ cache = Live /\ pass = NoPass
  BY Zenon DEF Init
<1>1. db \in Nat
  BY <1>0, SchemaNumbers
<1>2. StateCovered(state)
  <2>1. CASE db = 0
    BY <1>0, <2>1 DEF StateCovered, NoState
  <2>2. CASE db # 0
    BY <1>0, <1>1, <2>2 DEF StateCovered, Recorded
  <2> QED
    BY <2>1, <2>2, Zenon
<1>3. JobsCovered(jobs)
  BY <1>0, Zenon DEF JobsCovered, NoJob
<1>4. /\ cache["state"] = state /\ cache["job"] = jobs /\ cache["tamoss"] = tam
      /\ cache = [k \in Kinds |-> cache[k]]
  BY <1>0, Zenon DEF Live, Kinds
<1>5. "version" \in DOMAIN tam
  <2>1. PICK v \in Releases : tam = NewTamoss(v)
    BY Zenon DEF Init
  <2> QED
    BY <2>1, Zenon DEF NewTamoss
<1>6. PassCovered
  <2>1. "at" \in DOMAIN pass /\ pass.at = "idle"
    BY <1>0, Zenon DEF NoPass
  <2> QED
    BY <2>1, Zenon DEF PassCovered
<1>7. ServingNeedsSchema /\ "release" \in DOMAIN deploy
  BY <1>0, Zenon DEF ServingNeedsSchema, NoDeploy
<1>9. Shapes
  BY <1>0, <1>1, <1>4, <1>5, <1>7, Zenon DEF Shapes
<1> QED
  BY <1>2, <1>3, <1>4, <1>6, <1>7, <1>9, Zenon DEF Covered

-----------------------------------------------------------------------------
(* What the parts of a step do to the copies.                              *)

\* Ending a pass patches only the status of the Tamoss.
LEMMA FinishFacts ==
    ASSUME NEW mem, NEW new, NEW requeue, FinishWith(mem, new, requeue),
           "version" \in DOMAIN tam
    PROVE  "version" \in DOMAIN tam' /\ PassCovered'
<1>1. tam' = tam \/ tam' = [tam EXCEPT !.status = new]
  BY Zenon DEF FinishWith, patchTamossStatus
<1>2. "version" \in DOMAIN tam'
  BY <1>1, Zenon
<1>3. pass' = NoPass
  BY Zenon DEF FinishWith
<1>4. "at" \in DOMAIN pass' /\ pass'.at = "idle"
  BY <1>3, Zenon DEF NoPass
<1> QED
  BY <1>2, <1>4, Zenon DEF PassCovered

LEMMA StopFacts ==
    ASSUME NEW g, StopAt(g), "version" \in DOMAIN tam
    PROVE  "version" \in DOMAIN tam' /\ PassCovered'
<1>1. CASE g = "dependencyUnknown"
  <2>1. pass' = NoPass /\ tam' = tam
    BY <1>1, Zenon DEF StopAt
  <2>2. "at" \in DOMAIN pass' /\ pass'.at = "idle"
    BY <2>1, Zenon DEF NoPass
  <2> QED
    BY <2>1, <2>2, Zenon DEF PassCovered
<1>2. CASE g # "dependencyUnknown"
  BY <1>2, FinishFacts, Zenon DEF StopAt
<1> QED
  BY <1>1, <1>2, Zenon

\* The result of the schema stage is covered when it is not Ready, or when the
\* database carries the target.
LEMMA ConcludeFacts ==
    ASSUME PassCovered, pass.at # "idle", UNCHANGED db,
           NEW ready, NEW degraded, NEW keepJobs, NEW keepState, NEW requeue,
           Conclude(ready, degraded, keepJobs, keepState, requeue),
           ready => Target <= db
    PROVE  PassCovered'
<1>1. /\ {"at", "mem", "ready"} \subseteq DOMAIN pass'
      /\ pass'.at = "apply" /\ pass'.mem = pass.mem /\ pass'.ready = ready
  BY Zenon DEF Conclude
<1>2. pass.mem.version \in Releases
  BY Zenon DEF PassCovered
<1>3. ready => SchemaOf[pass'.mem.version] <= db'
  BY <1>1, Zenon DEF Target
<1> QED
  BY <1>1, <1>2, <1>3, Zenon DEF PassCovered

LEMMA ForegroundFacts ==
    ASSUME JobsCovered(jobs), UNCHANGED db, NEW js, jobs' = Foreground(js)
    PROVE  JobsCovered(jobs)'
<1> SUFFICES ASSUME NEW s \in Schemas
             PROVE  /\ {"status", "uid", "deleting"} \subseteq DOMAIN jobs'[s]
                    /\ jobs'[s].status = "complete" => s <= db
  BY Zenon DEF JobsCovered, Foreground
<1>1. jobs'[s] = jobs[s] \/ jobs'[s] = [jobs[s] EXCEPT !.deleting = TRUE]
  BY Zenon DEF Foreground
<1>2. DOMAIN jobs'[s] = DOMAIN jobs[s] /\ jobs'[s].status = jobs[s].status
  BY <1>1, Zenon DEF JobsCovered
<1> QED
  BY <1>2, Zenon DEF JobsCovered

\* Removing Jobs, or putting new ones in place, claims nothing.
LEMMA ReplacedFacts ==
    ASSUME JobsCovered(jobs), UNCHANGED db, jobs' = [s \in Schemas |-> jobs'[s]],
           \A s \in Schemas : \/ jobs'[s] = jobs[s]
                              \/ /\ {"status", "uid", "deleting"} \subseteq DOMAIN jobs'[s]
                                 /\ jobs'[s].status # "complete"
    PROVE  JobsCovered(jobs)'
BY Zenon DEF JobsCovered

LEMMA NoJobFacts == /\ {"status", "uid", "deleting"} \subseteq DOMAIN NoJob
                    /\ NoJob.status # "complete"
BY Zenon DEF NoJob

\* A step that leaves Jobs, database and ConfigMap alone.
LEMMA OtherwiseKept ==
    ASSUME Covered, UNCHANGED <<state, jobs, pods, deploy, cache, db>>,
           "version" \in DOMAIN tam', PassCovered'
    PROVE  Covered'
BY Zenon DEF Covered, Shapes, StateCovered, JobsCovered, ServingNeedsSchema, NoDeploy

-----------------------------------------------------------------------------
(* The steps of a pass.                                                    *)

LEMMA CoveredStart == ASSUME Covered, StartPass PROVE Covered'
<1> DEFINE mem == cache.tamoss
           begun == beginRelease(mem)
<1>1. UNCHANGED <<state, jobs, pods, deploy, cache, db>>
  BY Zenon DEF StartPass, world
<1>2. "version" \in DOMAIN tam /\ "version" \in DOMAIN mem
  BY Zenon DEF Covered, Shapes
<1>3. \/ \E new : FinishWith(mem, new, FALSE)
      \/ pass' = NoPass /\ UNCHANGED tam
      \/ /\ validateReleaseState(mem, cache.state) /\ patchTamossStatus(mem, begun)
         /\ pass' = [at |-> "schema", mem |-> [mem EXCEPT !.status = begun]]
  BY Zenon DEF StartPass
<1>4. CASE \E new : FinishWith(mem, new, FALSE)
  <2>1. "version" \in DOMAIN tam' /\ PassCovered'
    BY <1>2, <1>4, FinishFacts, Zenon
  <2> QED
    BY <1>1, <2>1, OtherwiseKept, Zenon
<1>5. CASE pass' = NoPass /\ UNCHANGED tam
  <2>1. "at" \in DOMAIN pass' /\ pass'.at = "idle"
    BY <1>5, Zenon DEF NoPass
  <2>2. PassCovered'
    BY <2>1, Zenon DEF PassCovered
  <2> QED
    BY <1>1, <1>2, <1>5, <2>2, OtherwiseKept, Zenon
<1>6. CASE /\ validateReleaseState(mem, cache.state) /\ patchTamossStatus(mem, begun)
           /\ pass' = [at |-> "schema", mem |-> [mem EXCEPT !.status = begun]]
  <2>1. tam' = tam \/ tam' = [tam EXCEPT !.status = begun]
    BY <1>6, Zenon DEF patchTamossStatus
  <2>2. "version" \in DOMAIN tam'
    BY <1>2, <2>1, Zenon
  <2>3. mem.version \in Releases
    BY <1>6, Zenon DEF validateReleaseState, Select
  <2>4. {"at", "mem"} \subseteq DOMAIN pass' /\ pass'.at = "schema"
    BY <1>6, Zenon
  <2>5. pass'.mem.version = mem.version
    BY <1>2, <1>6, Zenon
  <2>6. PassCovered'
    BY <2>3, <2>4, <2>5, Zenon DEF PassCovered
  <2> QED
    BY <1>1, <2>2, <2>6, OtherwiseKept, Zenon
<1> QED
  BY <1>3, <1>4, <1>5, <1>6, Zenon

LEMMA CoveredFinish ==
    ASSUME Covered, StopBeforeSchema \/ StopAfterSchema \/ updateStatus
    PROVE  Covered'
<1>1. UNCHANGED <<state, jobs, pods, deploy, cache, db>>
  BY Zenon DEF StopBeforeSchema, StopAfterSchema, updateStatus, world
<1>2. "version" \in DOMAIN tam
  BY Zenon DEF Covered, Shapes
<1>3. "version" \in DOMAIN tam' /\ PassCovered'
  <2>1. CASE StopBeforeSchema \/ StopAfterSchema
    BY <1>2, <2>1, StopFacts, Zenon DEF StopBeforeSchema, StopAfterSchema
  <2>2. CASE updateStatus
    BY <1>2, <2>2, FinishFacts, Zenon DEF updateStatus
  <2> QED
    BY <2>1, <2>2, Zenon
<1> QED
  BY <1>1, <1>3, OtherwiseKept, Zenon

\* What a pass in the schema stage can rely on.
LEMMA SchemaStageFacts ==
    ASSUME Covered, pass.at \in {"schema", "reset"}
    PROVE  /\ Target \in Schemas /\ Target \in Nat
           /\ StateCovered(CState) /\ JobsCovered(jobs) /\ PassCovered
           /\ CState.applied = Target => Target <= db
           /\ jobSucceeded(CJob) => Target <= db
<1>1. pass.mem.version \in Releases
  BY Zenon DEF Covered, PassCovered
<1>2. Target \in Schemas /\ Target \in Nat
  BY <1>1, SchemaNumbers, Zenon DEF Target
<1>3. StateCovered(CState)
  BY Zenon DEF Covered, CState
<1>4. jobSucceeded(CJob) => Target <= db
  BY <1>2, Zenon DEF Covered, JobsCovered, CJob, jobSucceeded
<1> QED
  BY <1>2, <1>3, <1>4, Zenon DEF Covered, StateCovered

LEMMA CoveredObserved == ASSUME Covered, SchemaObserved PROVE Covered'
<1>1. UNCHANGED <<tam, state, jobs, pods, deploy, cache, db>>
  BY Zenon DEF SchemaObserved, world
<1>2. pass.at = "schema"
  BY Zenon DEF SchemaObserved, SchemaStep
<1>3. Target \in Nat /\ PassCovered /\ (CState.applied = Target => Target <= db)
  BY <1>2, SchemaStageFacts, Zenon
<1>4. PICK ready, degraded, keepJobs, keepState, requeue :
         /\ ready \in BOOLEAN
         /\ Conclude(ready, degraded, keepJobs, keepState, requeue)
         /\ ready => SchemaStep("atVersion")
  BY Zenon DEF SchemaObserved
<1>5. SchemaStep("atVersion") => CState.applied = Target
  BY Zenon DEF SchemaStep, schemaStage
<1>6. ready => Target <= db
  BY <1>3, <1>4, <1>5, Zenon
<1>7. pass.at # "idle"
  BY <1>2, Zenon
<1>8. PassCovered'
  BY <1>1, <1>3, <1>4, <1>6, <1>7, ConcludeFacts, Zenon
<1>9. "version" \in DOMAIN tam'
  BY <1>1, Zenon DEF Covered, Shapes
<1> QED
  BY <1>1, <1>8, <1>9, OtherwiseKept, Zenon

\* A step that changes Jobs and removes Pods, and one that writes the ConfigMap.
LEMMA JobsChanged ==
    ASSUME Covered, UNCHANGED <<tam, state, deploy, cache, db>>, pods' \subseteq pods,
           JobsCovered(jobs)', PassCovered'
    PROVE  Covered'
BY Zenon DEF Covered, Shapes, StateCovered, JobsCovered, ServingNeedsSchema, NoDeploy

LEMMA StateChanged ==
    ASSUME Covered, UNCHANGED <<tam, jobs, pods, deploy, cache, db>>,
           StateCovered(state)', PassCovered'
    PROVE  Covered'
BY Zenon DEF Covered, Shapes, StateCovered, JobsCovered, ServingNeedsSchema, NoDeploy

LEMMA CoveredReplaces ==
    ASSUME Covered, reconcileObsoleteSchemaJobs \/ reconcileStaleSchemaJob
    PROVE  Covered'
<1>1. UNCHANGED <<tam, state, pods, deploy, cache, db>> /\ pass.at = "schema"
  BY Zenon DEF reconcileObsoleteSchemaJobs, reconcileStaleSchemaJob, world, SchemaStep
<1>2. JobsCovered(jobs) /\ PassCovered /\ pass.at # "idle"
  BY <1>1, Zenon DEF Covered
<1>3. JobsCovered(jobs)'
  <2>1. PICK js : jobs' = Foreground(js)
    BY Zenon DEF reconcileObsoleteSchemaJobs, reconcileStaleSchemaJob
  <2> QED
    BY <1>1, <1>2, <2>1, ForegroundFacts, Zenon
<1>4. PassCovered'
  <2>1. PICK keepJobs, keepState, requeue : Conclude(FALSE, FALSE, keepJobs, keepState, requeue)
    BY Zenon DEF reconcileObsoleteSchemaJobs, reconcileStaleSchemaJob
  <2> QED
    BY <1>1, <1>2, <2>1, ConcludeFacts, Zenon
<1> QED
  BY <1>1, <1>3, <1>4, JobsChanged, Zenon

LEMMA CoveredRetry == ASSUME Covered, acceptSchemaRetry PROVE Covered'
<1>1. UNCHANGED <<tam, state, deploy, cache, db>> /\ pass.at = "schema"
  BY Zenon DEF acceptSchemaRetry, world, SchemaStep
<1>2. Target \in Schemas /\ StateCovered(CState) /\ JobsCovered(jobs) /\ PassCovered
  BY <1>1, SchemaStageFacts, Zenon
<1>3. /\ pods' \subseteq pods
      /\ jobs' = jobs \/ jobs' = [jobs EXCEPT ![Target] = NoJob]
  BY Zenon DEF acceptSchemaRetry
<1>4. JobsCovered(jobs)'
  <2>1. /\ jobs' = [s \in Schemas |-> jobs'[s]]
        /\ \A s \in Schemas : jobs'[s] = jobs[s] \/ jobs'[s] = NoJob
    BY <1>2, <1>3, Zenon DEF JobsCovered
  <2> QED
    BY <1>1, <1>2, <2>1, NoJobFacts, ReplacedFacts, Zenon
<1>5. PassCovered'
  <2>1. pass' = [at |-> "reset", mem |-> pass.mem, state |-> Recorded(CState.applied, pass.mem.retry)]
    BY Zenon DEF acceptSchemaRetry, schemaRetryStateConfigMap
  <2>2. /\ {"at", "mem"} \subseteq DOMAIN pass' /\ pass'.at = "reset" /\ pass'.mem = pass.mem
        /\ pass'.state = Recorded(CState.applied, pass.mem.retry)
    BY <2>1, Zenon
  <2>3. StateCovered(pass.state)'
    BY <1>1, <1>2, <2>2 DEF StateCovered, Recorded
  <2>4. pass.mem.version \in Releases
    BY <1>1, <1>2, Zenon DEF PassCovered
  <2> QED
    BY <2>2, <2>3, <2>4, Zenon DEF PassCovered
<1> QED
  BY <1>1, <1>3, <1>4, <1>5, JobsChanged, Zenon

LEMMA CoveredStamps ==
    ASSUME Covered,
           resetSchemaState \/ reconcileSucceededSchemaJob \/ reconcileFailedSchemaJob
    PROVE  Covered'
<1>1. /\ UNCHANGED <<tam, jobs, pods, deploy, cache, db>>
      /\ pass.at \in {"schema", "reset"}
  BY Zenon DEF resetSchemaState, reconcileSucceededSchemaJob, reconcileFailedSchemaJob, world,
     SchemaStep
<1>2. /\ Target \in Nat /\ StateCovered(CState) /\ PassCovered
      /\ jobSucceeded(CJob) => Target <= db
  BY <1>1, SchemaStageFacts, Zenon
<1>3. pass.at # "idle"
  BY <1>1, Zenon
<1>4. CASE resetSchemaState
  <2>1. state' = pass.state /\ pass.at = "reset" /\ Conclude(FALSE, FALSE, {Target}, TRUE, FALSE)
    BY <1>4, Zenon DEF resetSchemaState
  <2>2. StateCovered(pass.state)
    BY <1>2, <2>1, Zenon DEF PassCovered
  <2>3. StateCovered(state)'
    BY <1>1, <2>1, <2>2, Zenon DEF StateCovered
  <2>4. PassCovered'
    BY <1>1, <1>2, <1>3, <2>1, ConcludeFacts, Zenon
  <2> QED
    BY <1>1, <2>3, <2>4, StateChanged, Zenon
<1>5. CASE reconcileSucceededSchemaJob
  <2>1. /\ state' = Recorded(Target, CState.consumed)
        /\ Conclude(TRUE, FALSE, {Target}, TRUE, FALSE)
    BY <1>5, Zenon DEF reconcileSucceededSchemaJob, schemaStateConfigMap
  <2>2. jobSucceeded(CJob)
    BY <1>5, Zenon DEF reconcileSucceededSchemaJob, SchemaStep, schemaStage
  <2>3. Target <= db
    BY <1>2, <2>2, Zenon
  <2>4. StateCovered(state)'
    BY <1>1, <1>2, <2>1, <2>3, Zenon DEF StateCovered, Recorded
  <2>5. PassCovered'
    BY <1>1, <1>2, <1>3, <2>1, <2>3, ConcludeFacts, Zenon
  <2> QED
    BY <1>1, <2>4, <2>5, StateChanged, Zenon
<1>6. CASE reconcileFailedSchemaJob
  <2>1. StateCovered(state)'
    <3>1. UNCHANGED state \/ \E count : state' = schemaFailureStateConfigMap(CState, count)
      BY <1>6, Zenon DEF reconcileFailedSchemaJob
    <3>2. CASE UNCHANGED state
      BY <1>1, <3>2, Zenon DEF Covered, StateCovered
    <3>3. CASE \E count : state' = schemaFailureStateConfigMap(CState, count)
      BY <1>1, <1>2, <3>3 DEF StateCovered, schemaFailureStateConfigMap
    <3> QED
      BY <3>1, <3>2, <3>3, Zenon
  <2>2. PassCovered'
    <3>1. PICK degraded, keepJobs, keepState, requeue :
             Conclude(FALSE, degraded, keepJobs, keepState, requeue)
      BY <1>6, Zenon DEF reconcileFailedSchemaJob
    <3> QED
      BY <1>1, <1>2, <1>3, <3>1, ConcludeFacts, Zenon
  <2> QED
    BY <1>1, <2>1, <2>2, StateChanged, Zenon
<1> QED
  BY <1>4, <1>5, <1>6, Zenon

LEMMA CoveredLaunch == ASSUME Covered, launchSchemaJob PROVE Covered'
<1>1. UNCHANGED <<tam, state, pods, deploy, cache, db>> /\ pass.at = "schema"
  BY Zenon DEF launchSchemaJob, world, SchemaStep
<1>2. Target \in Schemas /\ JobsCovered(jobs) /\ PassCovered
  BY <1>1, SchemaStageFacts, Zenon
<1>3. JobsCovered(jobs)'
  <2>1. jobs' = jobs \/ jobs' = [jobs EXCEPT ![Target] = schemaMigrationJob(made + 1)]
    BY Zenon DEF launchSchemaJob
  <2>2. /\ {"status", "uid", "deleting"} \subseteq DOMAIN schemaMigrationJob(made + 1)
        /\ schemaMigrationJob(made + 1).status # "complete"
    BY Zenon DEF schemaMigrationJob
  <2>3. /\ jobs' = [s \in Schemas |-> jobs'[s]]
        /\ \A s \in Schemas : jobs'[s] = jobs[s] \/ jobs'[s] = schemaMigrationJob(made + 1)
    BY <1>2, <2>1, Zenon DEF JobsCovered
  <2> QED
    BY <1>1, <1>2, <2>2, <2>3, ReplacedFacts, Zenon
<1>4. PassCovered'
  <2>1. CASE pass' = NoPass
    <3>1. "at" \in DOMAIN pass' /\ pass'.at = "idle"
      BY <2>1, Zenon DEF NoPass
    <3> QED
      BY <3>1, Zenon DEF PassCovered
  <2>2. CASE Conclude(FALSE, FALSE, {Target}, CState.present, FALSE)
    <3>1. pass.at # "idle"
      BY <1>1, Zenon
    <3> QED
      BY <1>1, <1>2, <2>2, <3>1, ConcludeFacts, Zenon
  <2> QED
    BY <2>1, <2>2, Zenon DEF launchSchemaJob
<1> QED
  BY <1>1, <1>3, <1>4, JobsChanged, Zenon

\* A pass that moves on within its second half keeps what it believes.
LEMMA AdvanceFacts ==
    ASSUME PassCovered, pass.at \in {"apply", "prune"}, UNCHANGED db,
           NEW x \in {"prune", "report"}, pass' = [pass EXCEPT !.at = x]
    PROVE  PassCovered'
<1>1. /\ DOMAIN pass' = DOMAIN pass /\ pass'.at = x
      /\ "mem" \in DOMAIN pass => pass'.mem = pass.mem
      /\ "ready" \in DOMAIN pass => pass'.ready = pass.ready
  BY Zenon DEF PassCovered
<1>2. /\ {"at", "mem", "ready"} \subseteq DOMAIN pass /\ pass.mem.version \in Releases
      /\ pass.ready => SchemaOf[pass.mem.version] <= db
  BY Zenon DEF PassCovered
<1> QED
  BY <1>1, <1>2, Zenon DEF PassCovered

LEMMA CoveredApply == ASSUME Covered, applyTamossDesiredObjects PROVE Covered'
<1>1. /\ UNCHANGED <<tam, state, jobs, pods, cache, db>> /\ pass.at = "apply"
      /\ pass' = [pass EXCEPT !.at = "prune"]
  BY Zenon DEF applyTamossDesiredObjects, world
<1>2. PassCovered'
  BY <1>1, AdvanceFacts, Zenon DEF Covered
<1>3. /\ ServingNeedsSchema' /\ "release" \in DOMAIN deploy'
      /\ deploy' = NoDeploy \/ deploy'.release \in Releases
  <2>1. CASE deploy' = deploy
    BY <1>1, <2>1, Zenon DEF Covered, Shapes, ServingNeedsSchema, NoDeploy
  <2>2. CASE deploy' # deploy
    <3>1. /\ pass.ready /\ "release" \in DOMAIN deploy' /\ deploy'.release = pass.mem.version
      BY <2>2, Zenon DEF applyTamossDesiredObjects, gateSchemaDependentWorkloads
    <3>2. /\ SchemaOf[pass.mem.version] <= db /\ SchemaOf[pass.mem.version] \in Nat /\ db \in Nat
          /\ pass.mem.version \in Releases
      BY <1>1, <3>1, SchemaNumbers, Zenon DEF Covered, PassCovered, Shapes
    <3> QED
      BY <1>1, <3>1, <3>2, Zenon DEF ServingNeedsSchema
  <2> QED
    BY <2>1, <2>2, Zenon
<1>4. Shapes'
  BY <1>1, <1>3, Zenon DEF Covered, Shapes, NoDeploy
<1> QED
  BY <1>1, <1>2, <1>3, <1>4, Zenon DEF Covered, StateCovered, JobsCovered

LEMMA CoveredPrune == ASSUME Covered, pruneOwnedObjects PROVE Covered'
<1>1. /\ UNCHANGED <<tam, pods, cache, db>> /\ pass.at = "prune"
      /\ pass' = [pass EXCEPT !.at = "report"]
      /\ deploy' = deploy \/ deploy' = NoDeploy
      /\ state' = state \/ state' = NoState
      /\ jobs' = [s \in Schemas |-> jobs'[s]]
      /\ \A s \in Schemas : jobs'[s] = jobs[s] \/ jobs'[s] = NoJob
  BY Zenon DEF pruneOwnedObjects, world
<1>2. PassCovered'
  BY <1>1, AdvanceFacts, Zenon DEF Covered
<1>3. JobsCovered(jobs)'
  BY <1>1, NoJobFacts, ReplacedFacts, Zenon DEF Covered
<1>4. StateCovered(state)'
  <2>1. "applied" \in DOMAIN NoState /\ NoState.applied = 0
    BY Zenon DEF NoState
  <2> QED
    BY <1>1, <2>1 DEF Covered, Shapes, StateCovered
<1>5. /\ ServingNeedsSchema' /\ "release" \in DOMAIN deploy'
      /\ deploy' = NoDeploy \/ deploy'.release \in Releases
  <2>1. "release" \in DOMAIN NoDeploy
    BY Zenon DEF NoDeploy
  <2>2. NoDeploy' = NoDeploy
    BY Zenon DEF NoDeploy
  <2> QED
    BY <1>1, <2>1, <2>2, Zenon DEF Covered, Shapes, ServingNeedsSchema
<1>6. Shapes'
  BY <1>1, <1>5, Zenon DEF Covered, Shapes, NoDeploy
<1> QED
  BY <1>1, <1>2, <1>3, <1>4, <1>5, <1>6, Zenon DEF Covered, StateCovered, JobsCovered

-----------------------------------------------------------------------------
(* The cluster, users and faults.                                          *)

\* The database only moves forward, which keeps every copy covered.
LEMMA CoveredGrows ==
    ASSUME Covered, UNCHANGED <<tam, state, deploy, cache, pass>>, db' \in Nat, db <= db',
           JobsCovered(jobs)', \A p \in pods' : "schema" \in DOMAIN p /\ p.schema \in Schemas
    PROVE  Covered'
<1>1. db \in Nat
  BY Zenon DEF Covered, Shapes
<1>2. Shapes'
  BY Zenon DEF Covered, Shapes, NoDeploy
<1>3. StateCovered(state)' /\ StateCovered(cache["state"])'
  BY <1>1 DEF Covered, StateCovered
<1>4. JobsCovered(cache["job"])'
  BY <1>1, SchemaNumbers DEF Covered, JobsCovered
<1>5. PassCovered'
  <2>1. pass.at = "reset" => StateCovered(pass.state)'
    BY <1>1 DEF Covered, PassCovered, StateCovered
  <2>2. pass.at # "idle" => SchemaOf[pass.mem.version] \in Nat
    BY SchemaNumbers, Zenon DEF Covered, PassCovered
  <2>3. pass.at \in {"apply", "prune", "report"} =>
          "ready" \in DOMAIN pass /\ (pass.ready => SchemaOf[pass.mem.version] <= db')
    BY <1>1, <2>2 DEF Covered, PassCovered
  <2> QED
    BY <2>1, <2>3, Zenon DEF Covered, PassCovered
<1>6. ServingNeedsSchema'
  <2>1. CASE deploy = NoDeploy
    BY <2>1, Zenon DEF ServingNeedsSchema, NoDeploy
  <2>2. CASE deploy # NoDeploy
    <3>1. /\ db >= SchemaOf[deploy.release] /\ SchemaOf[deploy.release] \in Nat
      BY <2>2, SchemaNumbers, Zenon DEF Covered, Shapes, ServingNeedsSchema
    <3> QED
      BY <1>1, <3>1 DEF ServingNeedsSchema
  <2> QED
    BY <2>1, <2>2, Zenon
<1> QED
  BY <1>2, <1>3, <1>4, <1>5, <1>6, Zenon DEF Covered

\* A Pod of a migration ends: a Job is complete only with its schema in place.
LEMMA PodEndsFacts ==
    ASSUME Covered, NEW p \in pods, NEW outcome, PodEnds(p, outcome),
           db' \in {db, Committed(p)}, outcome = "complete" => db' = Committed(p)
    PROVE  /\ db' \in Nat /\ db <= db' /\ JobsCovered(jobs)'
           /\ \A q \in pods' : "schema" \in DOMAIN q /\ q.schema \in Schemas
<1>1. db \in Nat /\ "schema" \in DOMAIN p /\ p.schema \in Schemas /\ p.schema \in Nat
  BY SchemaNumbers, Zenon DEF Covered, Shapes
<1>2. Committed(p) \in Nat /\ db <= Committed(p) /\ p.schema <= Committed(p)
  BY <1>1 DEF Committed
<1>3. db' \in Nat /\ db <= db' /\ (outcome = "complete" => p.schema <= db')
  BY <1>1, <1>2
<1>4. /\ jobs' = [s \in Schemas |-> jobs'[s]]
      /\ \A s \in Schemas : s # p.schema => jobs'[s] = jobs[s]
      /\ \/ jobs'[p.schema] = jobs[p.schema]
         \/ jobs'[p.schema] = [jobs[p.schema] EXCEPT !.status = outcome]
  BY <1>1, Zenon DEF PodEnds, Covered, JobsCovered
<1>5. JobsCovered(jobs)'
  <2> SUFFICES ASSUME NEW s \in Schemas
               PROVE  /\ {"status", "uid", "deleting"} \subseteq DOMAIN jobs'[s]
                      /\ jobs'[s].status = "complete" => s <= db'
    BY <1>4, Zenon DEF JobsCovered
  <2>1. /\ {"status", "uid", "deleting"} \subseteq DOMAIN jobs[s] /\ s \in Nat
        /\ jobs[s].status = "complete" => s <= db'
    BY <1>1, <1>3, SchemaNumbers DEF Covered, JobsCovered
  <2>2. CASE jobs'[s] = jobs[s]
    BY <2>1, <2>2, Zenon
  <2>3. CASE s = p.schema /\ jobs'[s] = [jobs[s] EXCEPT !.status = outcome]
    BY <1>3, <2>1, <2>3, Zenon
  <2> QED
    BY <1>4, <2>2, <2>3, Zenon
<1>6. \A q \in pods' : "schema" \in DOMAIN q /\ q.schema \in Schemas
  <2>1. pods' = (pods \ {p}) \cup {[p EXCEPT !.running = FALSE]}
    BY Zenon DEF PodEnds
  <2>2. /\ "schema" \in DOMAIN [p EXCEPT !.running = FALSE]
        /\ [p EXCEPT !.running = FALSE].schema = p.schema
    BY <1>1, Zenon
  <2> QED
    BY <1>1, <2>1, <2>2, Zenon DEF Covered, Shapes
<1> QED
  BY <1>3, <1>5, <1>6, Zenon

LEMMA CoveredPods == ASSUME Covered, PodSucceeds \/ PodFails PROVE Covered'
<1>1. UNCHANGED <<tam, state, deploy, cache, pass>>
  BY Zenon DEF PodSucceeds, PodFails
<1>2. PICK p \in pods : \E outcome :
         /\ PodEnds(p, outcome) /\ db' \in {db, Committed(p)}
         /\ outcome = "complete" => db' = Committed(p)
  BY Zenon DEF PodSucceeds, PodFails
<1>3. /\ db' \in Nat /\ db <= db' /\ JobsCovered(jobs)'
      /\ \A q \in pods' : "schema" \in DOMAIN q /\ q.schema \in Schemas
  BY <1>2, PodEndsFacts, Zenon
<1> QED
  BY <1>1, <1>3, CoveredGrows, Zenon

LEMMA CoveredJobs ==
    ASSUME Covered, (\E s \in Schemas : StartPod(s)) \/ CollectPod \/ CollectJob \/ DeleteJob
    PROVE  Covered'
<1>1. UNCHANGED <<tam, state, deploy, cache, pass, db>>
  BY Zenon DEF StartPod, CollectPod, CollectJob, DeleteJob, world
<1>2. db \in Nat /\ db' \in Nat /\ db <= db' /\ JobsCovered(jobs)
  BY <1>1 DEF Covered, Shapes
<1>3. \A p \in pods' : "schema" \in DOMAIN p /\ p.schema \in Schemas
  BY DEF Covered, Shapes, StartPod, CollectPod, CollectJob, DeleteJob
<1>4. JobsCovered(jobs)'
  <2>1. ASSUME NEW s \in Schemas, StartPod(s) PROVE JobsCovered(jobs)'
    <3>1. jobs' = [jobs EXCEPT ![s].status = "active"]
      BY <2>1, Zenon DEF StartPod
    <3>2. /\ jobs' = [t \in Schemas |-> jobs'[t]]
          /\ \A t \in Schemas : t # s => jobs'[t] = jobs[t]
          /\ jobs'[s] = [jobs[s] EXCEPT !.status = "active"]
      BY <1>2, <3>1, Zenon DEF JobsCovered
    <3>3. {"status", "uid", "deleting"} \subseteq DOMAIN jobs'[s] /\ jobs'[s].status # "complete"
      BY <1>2, <3>2, Zenon DEF JobsCovered
    <3> QED
      BY <1>1, <1>2, <3>2, <3>3, ReplacedFacts, Zenon
  <2>2. CASE jobs' = jobs
    BY <1>1, <1>2, <2>2, Zenon DEF JobsCovered
  <2>3. ASSUME NEW s \in Schemas, jobs' = [jobs EXCEPT ![s] = NoJob] PROVE JobsCovered(jobs)'
    <3>1. /\ jobs' = [t \in Schemas |-> jobs'[t]]
          /\ \A t \in Schemas : jobs'[t] = jobs[t] \/ jobs'[t] = NoJob
      BY <1>2, <2>3, Zenon DEF JobsCovered
    <3> QED
      BY <1>1, <1>2, <3>1, NoJobFacts, ReplacedFacts, Zenon
  <2> QED
    BY <2>1, <2>2, <2>3, Zenon DEF CollectPod, CollectJob, DeleteJob
<1> QED
  BY <1>1, <1>2, <1>3, <1>4, CoveredGrows, Zenon

LEMMA CoveredRollout == ASSUME Covered, RolloutFinishes PROVE Covered'
<1>1. /\ UNCHANGED <<tam, state, jobs, pods, cache, pass, db>>
      /\ deploy # NoDeploy /\ deploy' = [deploy EXCEPT !.rolled = TRUE]
  BY Zenon DEF RolloutFinishes, world
<1>2. "release" \in DOMAIN deploy' /\ deploy'.release = deploy.release
  BY <1>1, Zenon DEF Covered, Shapes
<1>3. Shapes' /\ ServingNeedsSchema'
  BY <1>1, <1>2, Zenon DEF Covered, Shapes, ServingNeedsSchema, NoDeploy
<1>4. PassCovered'
  BY <1>1, Zenon DEF Covered, PassCovered, StateCovered
<1> QED
  BY <1>1, <1>3, <1>4, Zenon DEF Covered, StateCovered, JobsCovered

\* Users and obstacles change the Tamoss, and a failed pass starts again.
LEMMA CoveredUsers ==
    ASSUME Covered, Users \/ AbortPass \/ ObstacleAppears \/ ObstacleGoes
    PROVE  Covered'
<1>1. UNCHANGED <<state, jobs, pods, deploy, cache, db>>
  BY Zenon DEF Users, SelectVersion, OverrideImage, TogglePaused, EditSpec, AnnotateRetry,
     AbortPass,
        ObstacleAppears, ObstacleGoes, SetGate, world
<1>2. "version" \in DOMAIN tam'
  <2> USE DEF Covered, Shapes
  <2>1. CASE SelectVersion
    <3>1. PICK v : tam' = [[tam EXCEPT !.version = v] EXCEPT !.gen = @ + 1]
      BY <2>1, Zenon DEF SelectVersion, EditSpec
    <3> QED
      BY <3>1, Zenon
  <2>2. CASE OverrideImage
    <3>1. PICK x : tam' = [[tam EXCEPT !.override = x] EXCEPT !.gen = @ + 1]
      BY <2>2, Zenon DEF OverrideImage, EditSpec
    <3> QED
      BY <3>1, Zenon
  <2>3. CASE TogglePaused
    <3>1. PICK x : tam' = [[tam EXCEPT !.paused = x] EXCEPT !.gen = @ + 1]
      BY <2>3, Zenon DEF TogglePaused, EditSpec
    <3> QED
      BY <3>1, Zenon
  <2>4. CASE AnnotateRetry
    BY <2>4, Zenon DEF AnnotateRetry
  <2>5. CASE AbortPass
    BY <2>5, Zenon DEF AbortPass
  <2>6. CASE ObstacleAppears \/ ObstacleGoes
    BY <2>6, Zenon DEF ObstacleAppears, ObstacleGoes, SetGate
  <2> QED
    BY <2>1, <2>2, <2>3, <2>4, <2>5, <2>6, Zenon DEF Users
<1>3. PassCovered'
  <2>1. pass' = pass \/ pass' = NoPass
    BY Zenon DEF Users, SelectVersion, OverrideImage, TogglePaused, EditSpec, AnnotateRetry,
       AbortPass,
          ObstacleAppears, ObstacleGoes, SetGate
  <2>2. CASE pass' = pass
    BY <1>1, <2>2, Zenon DEF Covered, PassCovered, StateCovered
  <2>3. CASE pass' = NoPass
    <3>1. "at" \in DOMAIN pass' /\ pass'.at = "idle"
      BY <2>3, Zenon DEF NoPass
    <3> QED
      BY <3>1, Zenon DEF PassCovered
  <2> QED
    BY <2>1, <2>2, <2>3, Zenon
<1> QED
  BY <1>1, <1>2, <1>3, OtherwiseKept, Zenon

\* An informer delivers the copy of its kind, which is covered like the original.
LEMMA CoveredSync == ASSUME Covered, NEW k \in Kinds, Sync(k) PROVE Covered'
<1>1. /\ UNCHANGED <<tam, state, jobs, pods, deploy, pass, db>>
      /\ cache' = [cache EXCEPT ![k] = Live[k]]
  BY Zenon DEF Sync, world
<1>2. /\ cache' = [j \in Kinds |-> cache'[j]]
      /\ cache'["tamoss"] = cache["tamoss"] \/ cache'["tamoss"] = Live["tamoss"]
      /\ cache'["state"] = cache["state"] \/ cache'["state"] = Live["state"]
      /\ cache'["job"] = cache["job"] \/ cache'["job"] = Live["job"]
  <2>1. /\ cache' = [j \in Kinds |-> cache'[j]]
        /\ \A j \in Kinds : cache'[j] = cache[j] \/ cache'[j] = Live[j]
    BY <1>1, Zenon DEF Covered, Shapes
  <2>2. {"tamoss", "state", "job"} \subseteq Kinds
    BY Zenon DEF Kinds
  <2> QED
    BY <2>1, <2>2, Zenon
<1>3. Live["tamoss"] = tam /\ Live["state"] = state /\ Live["job"] = jobs
  BY Zenon DEF Live
<1>4. Shapes'
  BY <1>1, <1>2, <1>3, Zenon DEF Covered, Shapes, NoDeploy
<1>5. StateCovered(cache["state"])' /\ JobsCovered(cache["job"])'
  BY <1>1, <1>2, <1>3, Zenon DEF Covered, StateCovered, JobsCovered
<1>6. StateCovered(state)' /\ JobsCovered(jobs)'
  BY <1>1, Zenon DEF Covered, StateCovered, JobsCovered
<1>7. PassCovered'
  BY <1>1, Zenon DEF Covered, PassCovered, StateCovered
<1>8. ServingNeedsSchema'
  BY <1>1, Zenon DEF Covered, ServingNeedsSchema, NoDeploy
<1> QED
  BY <1>4, <1>5, <1>6, <1>7, <1>8, Zenon DEF Covered

LEMMA CoveredStep == Covered /\ [Next]_vars => Covered'
<1> SUFFICES ASSUME Covered, [Next]_vars PROVE Covered'
  BY Zenon
<1>1. CASE Controller
  BY <1>1, CoveredStart, CoveredFinish, CoveredObserved, CoveredReplaces, CoveredRetry,
     CoveredStamps, CoveredLaunch, CoveredApply, CoveredPrune, Zenon DEF Controller
<1>2. CASE Cluster
  BY <1>2, CoveredPods, CoveredJobs, CoveredRollout, Zenon DEF Cluster
<1>3. CASE Users
  BY <1>3, CoveredUsers, Zenon
<1>4. CASE Faults
  BY <1>4, CoveredPods, CoveredJobs, CoveredUsers, Zenon DEF Faults
<1>5. CASE UNCHANGED vars
  <2>1. UNCHANGED <<state, jobs, pods, deploy, cache, db, tam, pass>>
    BY <1>5, Zenon DEF vars, world
  <2>2. "version" \in DOMAIN tam' /\ PassCovered'
    BY <2>1, Zenon DEF Covered, Shapes, PassCovered, StateCovered
  <2> QED
    BY <2>1, <2>2, OtherwiseKept, Zenon
<1> QED
  BY <1>1, <1>2, <1>3, <1>4, <1>5, CoveredSync, Zenon DEF Next

LEMMA CoveredInvariant == Spec => []Covered
BY CoveredInit, CoveredStep, PTL DEF Spec

\* For every catalogue and however stale the caches are, the schema-state
\* ConfigMap that SchemaController writes never records a schema the database
\* does not carry: retries, replaced Jobs, pruning and lost passes included.
THEOREM StampTheorem == Spec => []StampTrue
<1>1. Covered => StampTrue
  BY Zenon DEF Covered, StateCovered, StampTrue
<1> QED
  BY <1>1, CoveredInvariant, PTL

\* For every catalogue and however stale the caches are, the API and worker
\* Deployments that applyTamossDesiredObjects leaves in place are those of a
\* release whose schema the database has reached.
THEOREM ServingTheorem == Spec => []ServingNeedsSchema
<1>1. Covered => ServingNeedsSchema
  BY Zenon DEF Covered
<1> QED
  BY <1>1, CoveredInvariant, PTL

-----------------------------------------------------------------------------
current == tam.status.current
pending == tam.status.pending

\* The fields the proofs follow are there.
StatusFields == {"current", "pending", "phase", "ready", "degraded", "schema", "upgrade"}
TamShape(t) ==
    /\ {"version", "status"} \subseteq DOMAIN t
    /\ StatusFields \subseteq DOMAIN t.status

\* The cached Tamoss is the live one as far as the lock is concerned, or it lacks
\* only what the last pass wrote: the beginning of an upgrade to its version, the
\* completion of the one it shows, or both.
CacheFollows ==
    LET c == cache["tamoss"] IN
    \/ c.status.pending = pending /\ c.status.current = current
    \/ c.status.pending # NoVersion /\ pending = NoVersion /\ current = c.status.pending
    \/ /\ c.status.pending = NoVersion /\ c.version # c.status.current
       /\ \/ pending = c.version /\ current = c.status.current
          \/ pending = NoVersion /\ current = c.version

\* A pass works towards the release that the lock names, or, without a lock, the
\* one that is reported.
PassFollows ==
    pass.at # "idle" =>
        /\ TamShape(pass.mem)
        /\ pending = pass.mem.version \/ (pending = NoVersion /\ current = pass.mem.version)

Lock ==
    /\ TamShape(tam) /\ TamShape(cache["tamoss"])
    /\ {current, pending} \subseteq Releases \cup {NoVersion}
    /\ CacheFollows
    /\ PassFollows

\* The stamp and the database: equal without an upgrade under way, and otherwise
\* the database is at the stamp or at the schema of the upgrade.
Stamped ==
    /\ "present" \in DOMAIN state
    /\ ~state.present => state.applied = 0
    /\ pending = NoVersion => /\ db = state.applied
                              /\ current # NoVersion => db = SchemaOf[current]
    /\ pending # NoVersion => db <= SchemaOf[pending]

\* What the pass in progress knows of the stamp and of the Deployments.
PassStamped ==
    /\ pass.at = "reset" => /\ "present" \in DOMAIN pass.state
                            /\ pass.state.present /\ pass.state.applied = state.applied
    /\ pass.at \in {"apply", "prune", "report"} =>
          /\ {"keepState", "degraded", "requeue", "keepJobs"} \subseteq DOMAIN pass
          /\ state.present => pass.keepState
          /\ pass.ready => state.applied = SchemaOf[pass.mem.version]

\* A Pod that runs, and a Job that may still start one.
Running(p) == p \in pods /\ p.running
Startable(s) == jobs[s].status = "new" /\ ~jobs[s].deleting

\* Migrations run one at a time, for the upgrade under way, before its stamp and
\* before its Job is seen complete.
Migrations ==
    /\ \A p \in pods : {"running", "uid", "fixtures"} \subseteq DOMAIN p
    /\ \A s \in Schemas : "fixtures" \in DOMAIN jobs[s]
    /\ \A p \in pods : p.running =>
          /\ pending # NoVersion /\ p.schema = SchemaOf[pending] /\ state.applied # p.schema
          /\ jobs[p.schema].status # "complete" /\ cache["job"][p.schema].status # "complete"
          /\ p.fixtures => state.applied = 0
    /\ \A s \in Schemas : Startable(s) =>
          /\ pending # NoVersion /\ s = SchemaOf[pending] /\ state.applied # s
          /\ cache["job"][s].status # "complete"
          /\ jobs[s].fixtures => state.applied = 0
          /\ \A p \in pods : ~p.running
    /\ \A p, q \in pods : p.running /\ q.running => p = q

\* What a step does to the lock: nothing, take it, or release it.
Keeps == tam'.status.current = current /\ tam'.status.pending = pending

Begins ==
    /\ pass = NoPass /\ cache["tamoss"] = tam /\ validateReleaseState(tam, cache["state"])
    /\ pending = NoVersion /\ current # tam.version
    /\ tam'.status.current = current /\ tam'.status.pending = tam.version

Completes ==
    /\ pass.at = "report" /\ pass.ready /\ pass.mem = tam /\ workloadRolloutsReady(tam)
    /\ tam'.status.current = tam.version /\ tam'.status.pending = NoVersion

-----------------------------------------------------------------------------
(* The lock.                                                               *)

LEMMA NoPassIdle == NoPass.at = "idle"
BY Zenon DEF NoPass

\* Ending a pass writes nothing, or a status over the Tamoss that the pass read.
LEMMA FinishCases ==
    ASSUME NEW mem, NEW new, NEW requeue, FinishWith(mem, new, requeue)
    PROVE  /\ pass' = NoPass
           /\ tam' = tam \/ (mem = tam /\ tam' = [tam EXCEPT !.status = new])
BY Zenon DEF FinishWith, patchTamossStatus, Conflict

\* applyTamossStatusObservation, field by field.
LEMMA ObservedFields ==
    ASSUME NEW mem, TamShape(mem), NEW o
    PROVE  LET new == applyTamossStatusObservation(mem, o)
               done == o.ready = "True" /\ o.schema = "True"
           IN /\ StatusFields \subseteq DOMAIN new
              /\ new.current = IF done THEN mem.version ELSE mem.status.current
              /\ new.pending = IF done THEN NoVersion ELSE mem.status.pending
              /\ new.phase = o.phase /\ new.ready = o.ready /\ new.degraded = o.degraded
              /\ new.schema = o.schema /\ new.upgrade = setUpgradeStatusFromSchema(o)
<1> DEFINE st == mem.status
           b == IF o.backends = "" THEN st.backends ELSE o.backends
           u == setUpgradeStatusFromSchema(o)
           known == [st EXCEPT !.phase = o.phase, !.ready = o.ready, !.degraded = o.degraded,
                               !.schema = o.schema, !.backends = b, !.upgrade = u,
                               !.observed = mem.gen]
           new == applyTamossStatusObservation(mem, o)
           done == o.ready = "True" /\ o.schema = "True"
<1>1. StatusFields \subseteq DOMAIN st
  BY Zenon DEF TamShape
<1>2. new = IF done THEN [known EXCEPT !.current = mem.version, !.pending = NoVersion] ELSE known
  BY Zenon DEF applyTamossStatusObservation
<1> HIDE DEF u, b, new
<1>3. /\ DOMAIN known = DOMAIN st
      /\ known.current = st.current /\ known.pending = st.pending /\ known.phase = o.phase
      /\ known.ready = o.ready /\ known.degraded = o.degraded /\ known.schema = o.schema
      /\ known.upgrade = u
  BY <1>1, Zenon DEF StatusFields
<1> HIDE DEF known
<1>4. CASE done
  BY <1>1, <1>2, <1>3, <1>4, Zenon DEF StatusFields, u, new
<1>5. CASE ~done
  BY <1>1, <1>2, <1>3, <1>5, Zenon DEF StatusFields, u, new
<1> QED
  BY <1>4, <1>5, Zenon

\* A status written over the Tamoss is what the Tamoss then carries.
LEMMA WrittenFields ==
    ASSUME TamShape(tam), NEW new, StatusFields \subseteq DOMAIN new,
           tam' = [tam EXCEPT !.status = new]
    PROVE  TamShape(tam)' /\ tam'.version = tam.version /\ tam'.status = new
BY Zenon DEF TamShape

LEMMA BlockedFields ==
    ASSUME NEW mem, TamShape(mem)
    PROVE  LET new == blockedStatus(mem)
           IN /\ StatusFields \subseteq DOMAIN new
              /\ new.current = mem.status.current /\ new.pending = mem.status.pending
              /\ new.ready = "False"
BY Zenon DEF TamShape, StatusFields, blockedStatus

\* Obstacles never report Ready.
LEMMA GateNotReady == \A g : gateObservation(g).ready = "False"
<1> SUFFICES ASSUME NEW g PROVE gateObservation(g).ready = "False"
  BY Zenon
<1>1. /\ updateHTTPRouteInputStatus.ready = "False" /\ updateBlockedBackendStatus.ready = "False"
      /\ updateIdentityBlockedStatus.ready = "False"
      /\ \A d, sch : updateProviderBackendStatus(d, sch).ready = "False"
      /\ \A d : updateAuthentikApplyFailureStatus(d).ready = "False"
  BY Zenon DEF updateHTTPRouteInputStatus, updateBlockedBackendStatus,
     updateIdentityBlockedStatus,
         updateProviderBackendStatus, updateAuthentikApplyFailureStatus, Observation
<1> QED
  BY <1>1 DEF gateObservation

\* A step that keeps the lock, moves the pass on or ends it, and at most brings
\* the cached Tamoss up to date.
LEMMA LockKept ==
    ASSUME Lock, TamShape(tam)', Keeps,
           \/ cache'["tamoss"] = cache["tamoss"]
           \/ cache'["tamoss"] = tam /\ tam' = tam,
           pass'.at = "idle" \/ (pass.at # "idle" /\ pass'.mem = pass.mem)
    PROVE  Lock'
<1>1. current' = current /\ pending' = pending
  BY Zenon DEF Keeps, current, pending
<1>2. CacheFollows'
  <2>1. CASE cache'["tamoss"] = cache["tamoss"]
    BY <1>1, <2>1, Zenon DEF Lock, CacheFollows
  <2>2. CASE cache'["tamoss"] = tam /\ tam' = tam
    BY <2>2, Zenon DEF CacheFollows, current, pending
  <2> QED
    BY <2>1, <2>2, Zenon
<1>3. PassFollows'
  BY <1>1, Zenon DEF Lock, PassFollows, TamShape
<1>4. TamShape(cache["tamoss"])'
  BY Zenon DEF Lock, TamShape
<1> QED
  BY <1>1, <1>2, <1>3, <1>4, Zenon DEF Lock

LEMMA LockStart == ASSUME Covered, Lock, StartPass PROVE Lock' /\ (Keeps \/ Begins)
<1> DEFINE mem == cache["tamoss"]
           begun == beginRelease(mem)
<1>1. /\ pass = NoPass /\ cache' = cache
      /\ TamShape(tam) /\ TamShape(mem)
  BY Zenon DEF StartPass, Lock
<1>2. \/ FinishWith(mem, blockedStatus(mem), FALSE)
      \/ FinishWith(mem, applyTamossStatusObservation(mem, updatePausedStatus), FALSE)
      \/ pass' = NoPass /\ UNCHANGED tam
      \/ /\ validateReleaseState(mem, cache["state"]) /\ patchTamossStatus(mem, begun)
         /\ pass' = [at |-> "schema", mem |-> [mem EXCEPT !.status = begun]]
  BY Zenon DEF StartPass
<1>3. ASSUME NEW new, StatusFields \subseteq DOMAIN new, FinishWith(mem, new, FALSE),
             new.current = mem.status.current, new.pending = mem.status.pending
      PROVE  Lock' /\ Keeps
  <2>1. pass' = NoPass /\ (tam' = tam \/ (mem = tam /\ tam' = [tam EXCEPT !.status = new]))
    BY <1>3, FinishCases, Zenon
  <2>2. TamShape(tam)' /\ Keeps
    <3>1. CASE tam' = tam
      BY <1>1, <3>1, Zenon DEF Keeps, TamShape, current, pending
    <3>2. CASE mem = tam /\ tam' = [tam EXCEPT !.status = new]
      BY <1>1, <1>3, <3>2, WrittenFields, Zenon DEF Keeps, current, pending
    <3> QED
      BY <2>1, <3>1, <3>2, Zenon
  <2> QED
    BY <1>1, <2>1, <2>2, LockKept, NoPassIdle, Zenon
<1>4. CASE FinishWith(mem, blockedStatus(mem), FALSE)
  BY <1>1, <1>3, <1>4, BlockedFields, Zenon
<1>5. CASE FinishWith(mem, applyTamossStatusObservation(mem, updatePausedStatus), FALSE)
  <2>1. updatePausedStatus.ready # "True"
    BY Zenon DEF updatePausedStatus, Observation
  <2>2. LET new == applyTamossStatusObservation(mem, updatePausedStatus)
        IN /\ StatusFields \subseteq DOMAIN new
           /\ new.current = mem.status.current /\ new.pending = mem.status.pending
    BY <1>1, <2>1, ObservedFields
  <2> QED
    BY <1>3, <1>5, <2>2, Zenon
<1>6. CASE pass' = NoPass /\ UNCHANGED tam
  <2>1. TamShape(tam)' /\ Keeps
    BY <1>1, <1>6, Zenon DEF Keeps, TamShape, current, pending
  <2> QED
    BY <1>1, <1>6, <2>1, LockKept, NoPassIdle, Zenon
<1>7. CASE /\ validateReleaseState(mem, cache["state"]) /\ patchTamossStatus(mem, begun)
           /\ pass' = [at |-> "schema", mem |-> [mem EXCEPT !.status = begun]]
  <2>1. /\ mem.version \in Releases /\ mem.version # NoVersion
        /\ mem.status.pending \in {NoVersion, mem.version}
    BY <1>7, CatalogueAssumption, Zenon DEF validateReleaseState, Select
  <2>2. StatusFields \subseteq DOMAIN begun
    BY <1>1, Zenon DEF beginRelease, TamShape
  <2>3. pass'.mem.version = mem.version /\ TamShape(pass'.mem)
    BY <1>1, <1>7, <2>2, Zenon DEF TamShape
  <2>4. CASE mem.status.current = mem.version \/ mem.status.pending # NoVersion
    <3>1. tam' = tam
      BY <1>7, <2>4, Zenon DEF beginRelease, patchTamossStatus
    <3>2. Keeps /\ current' = current /\ pending' = pending
      BY <3>1, Zenon DEF Keeps, current, pending
    <3>3. pending = mem.version \/ (pending = NoVersion /\ current = mem.version)
      BY <2>1, <2>4, Zenon DEF Lock, CacheFollows
    <3>4. PassFollows'
      BY <2>3, <3>2, <3>3, Zenon DEF PassFollows, TamShape
    <3>5. CacheFollows'
      BY <1>1, <3>2, Zenon DEF Lock, CacheFollows
    <3> QED
      BY <1>1, <3>1, <3>2, <3>4, <3>5, Zenon DEF Lock, TamShape
  <2>5. CASE mem.status.current # mem.version /\ mem.status.pending = NoVersion
    <3>1. begun = [mem.status EXCEPT !.pending = mem.version, !.ready = "False"]
      BY <2>5, Zenon DEF beginRelease
    <3>2. begun.pending = mem.version /\ begun.current = mem.status.current
      BY <1>1, <3>1, Zenon DEF TamShape, StatusFields
    <3>3. begun # mem.status
      BY <2>1, <2>5, <3>2, Zenon
    <3>4. mem = tam /\ tam' = [tam EXCEPT !.status = begun]
      BY <1>7, <3>3, Zenon DEF patchTamossStatus
    <3>5. TamShape(tam)' /\ tam'.version = tam.version /\ tam'.status = begun
      BY <1>1, <2>2, <3>4, WrittenFields, Zenon
    <3>6. current' = current /\ pending' = mem.version
      BY <3>2, <3>4, <3>5, Zenon DEF current, pending
    <3>7. Begins
      BY <1>1, <1>7, <2>5, <3>2, <3>4, <3>5, Zenon DEF Begins, current, pending
    <3>8. PassFollows' /\ CacheFollows'
      BY <1>1, <2>3, <2>5, <3>4, <3>6, Zenon DEF PassFollows, CacheFollows, TamShape, current,
         pending
    <3>9. {current, pending}' \subseteq Releases \cup {NoVersion}
      BY <2>1, <3>6, Zenon DEF Lock
    <3> QED
      BY <1>1, <3>5, <3>7, <3>8, <3>9, Zenon DEF Lock, TamShape
  <2> QED
    BY <2>4, <2>5, Zenon
<1> QED
  BY <1>2, <1>4, <1>5, <1>6, <1>7, Zenon

\* The end of a pass keeps the lock unless it reports Ready.
LEMMA LockFinish ==
    ASSUME Covered, Lock, StopBeforeSchema \/ StopAfterSchema \/ updateStatus
    PROVE  Lock' /\ (Keeps \/ (Completes /\ updateStatus))
<1>1. /\ pass.at # "idle" /\ cache' = cache /\ TamShape(tam) /\ TamShape(pass.mem)
      /\ pass.mem.version \in Releases /\ pass.mem.version # NoVersion
  BY CatalogueAssumption, Zenon
  DEF StopBeforeSchema, StopAfterSchema, updateStatus, Lock, PassFollows, Covered, PassCovered
<1>2. ASSUME NEW o, NEW requeue, o.ready # "True" \/ o.schema # "True",
             FinishWith(pass.mem, applyTamossStatusObservation(pass.mem, o), requeue)
      PROVE  Lock' /\ Keeps
  <2> DEFINE new == applyTamossStatusObservation(pass.mem, o)
  <2>1. /\ StatusFields \subseteq DOMAIN new
        /\ new.current = pass.mem.status.current /\ new.pending = pass.mem.status.pending
    BY <1>1, <1>2, ObservedFields, ZenonT(40)
  <2> HIDE DEF new
  <2>2. /\ pass' = NoPass
        /\ tam' = tam \/ (pass.mem = tam /\ tam' = [tam EXCEPT !.status = new])
    BY <1>2, FinishCases, Zenon DEF new
  <2>3. TamShape(tam)' /\ Keeps
    <3>1. CASE tam' = tam
      BY <1>1, <3>1, Zenon DEF Keeps, TamShape, current, pending
    <3>2. CASE pass.mem = tam /\ tam' = [tam EXCEPT !.status = new]
      BY <1>1, <2>1, <3>2, WrittenFields, Zenon DEF Keeps, current, pending
    <3> QED
      BY <2>2, <3>1, <3>2, Zenon
  <2> QED
    BY <1>1, <2>2, <2>3, LockKept, NoPassIdle, Zenon
<1>3. CASE StopBeforeSchema \/ StopAfterSchema
  <2>1. StopAt(gate)
    BY <1>3, Zenon DEF StopBeforeSchema, StopAfterSchema
  <2>2. CASE gate = "dependencyUnknown"
    <3>1. pass' = NoPass /\ tam' = tam
      BY <2>1, <2>2, Zenon DEF StopAt
    <3>2. TamShape(tam)' /\ Keeps
      BY <1>1, <3>1, Zenon DEF Keeps, TamShape, current, pending
    <3> QED
      BY <1>1, <3>1, <3>2, LockKept, NoPassIdle, Zenon
  <2>3. CASE gate # "dependencyUnknown"
    <3>1. PICK requeue :
             FinishWith(pass.mem, applyTamossStatusObservation(pass.mem, gateObservation(gate)), requeue)
      BY <2>1, <2>3, Zenon DEF StopAt
    <3>2. gateObservation(gate).ready # "True"
      BY GateNotReady, Zenon
    <3> QED
      BY <1>2, <3>1, <3>2, Zenon
  <2> QED
    BY <2>2, <2>3, Zenon
<1>4. CASE updateStatus
  <2> DEFINE ready == /\ ~pass.degraded
                      /\ pass.ready
                      /\ workloadRolloutsReady(pass.mem)
                      /\ gate \notin ReportGates
             phase == IF pass.degraded THEN "Degraded" ELSE IF ready THEN "Ready" ELSE "Progressing"
             bool(b) == IF b THEN "True" ELSE "False"
             o == Observation(phase, bool(ready), bool(pass.degraded), bool(pass.ready), "True")
             new == applyTamossStatusObservation(pass.mem, o)
  <2>1. PICK requeue : FinishWith(pass.mem, new, requeue)
    BY <1>4, Zenon DEF updateStatus
  <2>2. o.ready = bool(ready) /\ o.schema = bool(pass.ready)
    BY Zenon DEF Observation
  <2>3. CASE ~ready
    BY <1>2, <2>1, <2>2, <2>3, Zenon
  <2>4. CASE ready
    <3>1. o.ready = "True" /\ o.schema = "True"
      BY <2>2, <2>4, Zenon
    <3> HIDE DEF o
    <3>2. StatusFields \subseteq DOMAIN new /\ new.current = pass.mem.version /\ new.pending = NoVersion
      BY <1>1, <3>1, ObservedFields
    <3> HIDE DEF new
    <3>3. /\ pass' = NoPass
          /\ tam' = tam \/ (pass.mem = tam /\ tam' = [tam EXCEPT !.status = new])
      BY <2>1, FinishCases, Zenon
    <3>4. CASE tam' = tam
      <4>1. TamShape(tam)' /\ Keeps
        BY <1>1, <3>4, Zenon DEF Keeps, TamShape, current, pending
      <4> QED
        BY <1>1, <3>3, <4>1, LockKept, NoPassIdle, Zenon
    <3>5. CASE pass.mem = tam /\ tam' = [tam EXCEPT !.status = new]
      <4>1. TamShape(tam)' /\ tam'.version = tam.version /\ tam'.status = new
        BY <1>1, <3>2, <3>5, WrittenFields, Zenon
      <4>2. current' = tam.version /\ pending' = NoVersion
        BY <3>2, <3>5, <4>1, Zenon DEF current, pending
      <4>3. Completes
        BY <1>4, <2>4, <3>2, <3>5, <4>1, Zenon DEF Completes, updateStatus
      <4>4. pending = tam.version \/ (pending = NoVersion /\ current = tam.version)
        BY <1>1, <3>5, Zenon DEF Lock, PassFollows
      <4>5. CacheFollows'
        BY <1>1, <3>5, <4>2, <4>4, Zenon DEF Lock, CacheFollows
      <4>6. PassFollows'
        BY <3>3, NoPassIdle, Zenon DEF PassFollows
      <4> QED
        BY <1>1, <1>4, <3>5, <4>1, <4>2, <4>3, <4>5, <4>6, Zenon DEF Lock, TamShape
    <3> QED
      BY <3>3, <3>4, <3>5, Zenon
  <2> QED
    BY <2>3, <2>4, Zenon
<1> QED
  BY <1>3, <1>4, Zenon

\* The other steps of a pass leave the Tamoss alone.
LEMMA LockPass ==
    ASSUME Covered, Lock,
           \/ SchemaObserved \/ reconcileObsoleteSchemaJobs \/ reconcileStaleSchemaJob
           \/ acceptSchemaRetry \/ resetSchemaState \/ reconcileSucceededSchemaJob
           \/ reconcileFailedSchemaJob \/ launchSchemaJob
           \/ applyTamossDesiredObjects \/ pruneOwnedObjects
    PROVE  Lock' /\ Keeps
<1>1. UNCHANGED <<tam, cache>>
  BY Zenon DEF SchemaObserved, reconcileObsoleteSchemaJobs, reconcileStaleSchemaJob,
     acceptSchemaRetry,
         resetSchemaState, reconcileSucceededSchemaJob, reconcileFailedSchemaJob, launchSchemaJob,
         applyTamossDesiredObjects, pruneOwnedObjects
<1>2. pass.at # "idle"
  BY Zenon DEF SchemaObserved, reconcileObsoleteSchemaJobs, reconcileStaleSchemaJob,
     acceptSchemaRetry,
         resetSchemaState, reconcileSucceededSchemaJob, reconcileFailedSchemaJob, launchSchemaJob,
         applyTamossDesiredObjects, pruneOwnedObjects, SchemaStep
<1>3. pass'.at = "idle" \/ pass'.mem = pass.mem
  <2>1. CASE \/ SchemaObserved \/ reconcileObsoleteSchemaJobs \/ reconcileStaleSchemaJob
             \/ resetSchemaState \/ reconcileSucceededSchemaJob
             \/ reconcileFailedSchemaJob \/ launchSchemaJob
    <3>1. \/ pass' = NoPass
          \/ \E r, d, kj, ks, q : Conclude(r, d, kj, ks, q)
      BY <2>1, Zenon DEF SchemaObserved, reconcileObsoleteSchemaJobs, reconcileStaleSchemaJob,
         resetSchemaState, reconcileSucceededSchemaJob, reconcileFailedSchemaJob, launchSchemaJob
    <3> QED
      BY <3>1, NoPassIdle DEF Conclude
  <2>2. CASE acceptSchemaRetry
    BY <2>2, Zenon DEF acceptSchemaRetry
  <2>3. CASE applyTamossDesiredObjects \/ pruneOwnedObjects
    BY <1>2, <2>3, Zenon DEF applyTamossDesiredObjects, pruneOwnedObjects, Covered, PassCovered
  <2> QED
    BY <2>1, <2>2, <2>3, Zenon
<1>4. TamShape(tam)' /\ Keeps
  BY <1>1, Zenon DEF Lock, TamShape, Keeps, current, pending
<1> QED
  BY <1>1, <1>2, <1>3, <1>4, LockKept, Zenon

\* Users edit the spec, never the status.
LEMMA LockUsers ==
    ASSUME Lock, Users \/ ObstacleAppears \/ ObstacleGoes
    PROVE  Lock' /\ Keeps /\ tam'.status = tam.status
<1>1. TamShape(tam) /\ UNCHANGED <<cache, pass>>
  BY Zenon DEF Users, SelectVersion, OverrideImage, TogglePaused, EditSpec, AnnotateRetry,
        ObstacleAppears, ObstacleGoes, SetGate, Lock
<1>2. {"version", "status"} \subseteq DOMAIN tam' /\ tam'.status = tam.status
  <2> USE DEF TamShape
  <2>1. CASE SelectVersion
    <3>1. PICK v : tam' = [[tam EXCEPT !.version = v] EXCEPT !.gen = @ + 1]
      BY <2>1, Zenon DEF SelectVersion, EditSpec
    <3> QED
      BY <1>1, <3>1, Zenon
  <2>2. CASE OverrideImage
    <3>1. PICK x : tam' = [[tam EXCEPT !.override = x] EXCEPT !.gen = @ + 1]
      BY <2>2, Zenon DEF OverrideImage, EditSpec
    <3> QED
      BY <1>1, <3>1, Zenon
  <2>3. CASE TogglePaused
    <3>1. PICK x : tam' = [[tam EXCEPT !.paused = x] EXCEPT !.gen = @ + 1]
      BY <2>3, Zenon DEF TogglePaused, EditSpec
    <3> QED
      BY <1>1, <3>1, Zenon
  <2>4. CASE AnnotateRetry
    BY <1>1, <2>4, Zenon DEF AnnotateRetry
  <2>5. CASE ObstacleAppears \/ ObstacleGoes
    BY <1>1, <2>5, Zenon DEF ObstacleAppears, ObstacleGoes, SetGate
  <2> QED
    BY <2>1, <2>2, <2>3, <2>4, <2>5, Zenon DEF Users
<1>3. TamShape(tam)' /\ Keeps
  BY <1>1, <1>2, Zenon DEF TamShape, Keeps, current, pending
<1> QED
  BY <1>1, <1>2, <1>3, LockKept, Zenon

\* Steps that leave the Tamoss and its cached copy alone, or deliver it.
LEMMA LockCluster ==
    ASSUME Covered, Lock,
           Cluster \/ PodFails \/ AbortPass \/ DeleteJob \/ (\E k \in Kinds : Sync(k)) \/ UNCHANGED vars
    PROVE  Lock' /\ Keeps
<1>1. tam' = tam
  BY Zenon DEF Cluster, StartPod, PodSucceeds, CollectPod, CollectJob, RolloutFinishes, PodFails,
         AbortPass, DeleteJob, Sync, vars
<1>2. pass' = pass \/ pass' = NoPass
  BY Zenon DEF Cluster, StartPod, PodSucceeds, CollectPod, CollectJob, RolloutFinishes, PodFails,
         AbortPass, DeleteJob, Sync, vars
<1>3. cache'["tamoss"] = cache["tamoss"] \/ cache'["tamoss"] = tam
  <2>1. CASE cache' = cache
    BY <2>1, Zenon
  <2>2. ASSUME NEW k \in Kinds, Sync(k) PROVE cache'["tamoss"] = cache["tamoss"] \/ cache'["tamoss"] = tam
    <3>1. Live["tamoss"] = tam
      BY Zenon DEF Live
    <3>2. cache' = [cache EXCEPT ![k] = Live[k]]
      BY <2>2, Zenon DEF Sync
    <3>3. cache = [j \in Kinds |-> cache[j]] /\ "tamoss" \in Kinds
      BY Zenon DEF Covered, Shapes, Kinds
    <3> QED
      BY <3>1, <3>2, <3>3, Zenon
  <2> QED
    BY <2>1, <2>2, Zenon DEF Cluster, StartPod, PodSucceeds, CollectPod, CollectJob,
       RolloutFinishes,
         PodFails, AbortPass, DeleteJob, vars
<1>4. TamShape(tam)' /\ Keeps
  BY <1>1, Zenon DEF Lock, TamShape, Keeps, current, pending
<1> QED
  BY <1>1, <1>2, <1>3, <1>4, LockKept, NoPassIdle, Zenon

LEMMA LockStep ==
    ASSUME Covered, Lock, [Next]_vars
    PROVE  /\ Lock'
           /\ Keeps \/ (StartPass /\ Fresh /\ Begins) \/ (updateStatus /\ Fresh /\ Completes)
<1>1. CASE Controller
  BY <1>1, LockStart, LockFinish, LockPass, Zenon DEF Controller
<1>2. CASE Faults
  BY <1>2, LockCluster, LockUsers, Zenon DEF Faults
<1>3. CASE Users
  BY <1>3, LockUsers, Zenon
<1>4. CASE Cluster \/ (\E k \in Kinds : Sync(k)) \/ UNCHANGED vars
  BY <1>4, LockCluster, Zenon
<1> QED
  BY <1>1, <1>2, <1>3, <1>4, Zenon DEF Next

-----------------------------------------------------------------------------
(* The stamp and the database.                                             *)

LEMMA FreshState == ASSUME Fresh, "state" \notin Lagging PROVE cache["state"] = state
<1>1. "state" \in Kinds \ Lagging /\ Live["state"] = state
  BY Zenon DEF Kinds, Live
<1> QED
  BY <1>1, Zenon DEF Fresh

\* With no upgrade under way a pass finds the schema at its version.
LEMMA NoLockNoWork ==
    ASSUME Covered, Lock, Stamped, cache["state"] = state, pass.at = "schema", pending = NoVersion
    PROVE  schemaStage = "atVersion"
<1>1. pass.mem.version \in Releases /\ pass.mem.version # NoVersion
  BY CatalogueAssumption, Zenon DEF Covered, PassCovered
<1>2. current = pass.mem.version /\ current # NoVersion
  BY <1>1, Zenon DEF Lock, PassFollows
<1>3. state.applied = Target /\ Target # 0
  BY <1>1, <1>2, CatalogueAssumption, Zenon DEF Stamped, Target
<1>4. state.present
  BY <1>3, Zenon DEF Stamped
<1>5. Supports(pass.mem.version, CState.applied)
  BY <1>3, Zenon DEF Supports, CState, Target
<1> QED
  BY <1>3, <1>4, <1>5, Zenon DEF schemaStage, CState

\* What a pass that is working on the schema can rely on.
LEMMA WorkFacts ==
    ASSUME Covered, Lock, Stamped, cache["state"] = state, pass.at = "schema",
           schemaStage # "atVersion"
    PROVE  /\ pending # NoVersion /\ pending = pass.mem.version /\ pending \in Releases
           /\ Target = SchemaOf[pending] /\ Target \in Nat /\ state.applied <= Target
<1>1. pass.mem.version \in Releases
  BY Zenon DEF Covered, PassCovered
<1>2. pending # NoVersion
  BY NoLockNoWork, Zenon
<1>3. pending = pass.mem.version
  BY <1>2, Zenon DEF Lock, PassFollows
<1>4. Target = SchemaOf[pending] /\ Target \in Nat
  BY <1>1, <1>3, SchemaNumbers, Zenon DEF Target
<1>5. state.applied \in Nat /\ db \in Nat /\ state.applied <= db /\ db <= SchemaOf[pending]
  BY <1>2, Zenon DEF Covered, Shapes, StateCovered, Stamped
<1> QED
  BY <1>1, <1>2, <1>3, <1>4, <1>5

LEMMA StampKeeps == ASSUME Stamped, Keeps, UNCHANGED <<state, db>> PROVE Stamped'
<1>1. current' = current /\ pending' = pending
  BY Zenon DEF Keeps, current, pending
<1> QED
  BY <1>1, Zenon DEF Stamped

LEMMA StampIdle == ASSUME pass' = NoPass PROVE PassStamped'
<1>1. pass'.at = "idle"
  BY NoPassIdle, Zenon
<1> QED
  BY <1>1, Zenon DEF PassStamped

LEMMA StampConclude ==
    ASSUME NEW r, NEW d, NEW kj, NEW ks, NEW q, Conclude(r, d, kj, ks, q),
           state'.present => ks, r => state'.applied = Target
    PROVE  PassStamped'
<1>1. /\ {"keepState", "degraded", "requeue", "keepJobs"} \subseteq DOMAIN pass'
      /\ pass'.at = "apply" /\ pass'.mem = pass.mem /\ pass'.keepState = ks /\ pass'.ready = r
  BY Zenon DEF Conclude
<1> QED
  BY <1>1, Zenon DEF PassStamped, Target

\* Taking the lock: the catalogue admits only a database at or below the schema
\* of the release.
LEMMA StampBegins ==
    ASSUME Covered, Stamped, Begins, cache["state"] = state, UNCHANGED <<state, db>>
    PROVE  Stamped'
<1>1. /\ pending' = tam.version /\ current' = current /\ tam.version \in Releases
      /\ pending = NoVersion /\ db = state.applied
  BY Zenon DEF Begins, current, pending, validateReleaseState, Select, Stamped
<1>2. /\ SchemaOf[tam.version] \in Nat /\ PreviousSchema[tam.version] < SchemaOf[tam.version]
      /\ db \in Nat /\ tam.version # NoVersion
  BY <1>1, CatalogueAssumption, Zenon DEF Covered, Shapes
<1>3. ~state.present => db = 0
  BY <1>1, Zenon DEF Stamped
<1>4. state.present => Supports(tam.version, db)
  BY <1>1, Zenon DEF Begins, validateReleaseState
<1>5. PreviousSchema[tam.version] \in Nat
  BY <1>1, CatalogueAssumption, Zenon
<1>6. db <= SchemaOf[tam.version]
  BY <1>2, <1>3, <1>4, <1>5 DEF Supports
<1> QED
  BY <1>1, <1>2, <1>6, Zenon DEF Stamped

\* Releasing it: the stamp, and with it the database, is at the schema.
LEMMA StampCompletes ==
    ASSUME Covered, Lock, Stamped, PassStamped, Completes, UNCHANGED <<state, db>>
    PROVE  Stamped' /\ state.applied = SchemaOf[tam.version] /\ db = state.applied
<1>1. /\ pending' = NoVersion /\ current' = tam.version
      /\ pass.at = "report" /\ pass.mem = tam /\ pass.ready
  BY Zenon DEF Completes, current, pending
<1>2. tam.version \in Releases /\ tam.version # NoVersion /\ SchemaOf[tam.version] \in Nat
  BY <1>1, CatalogueAssumption, Zenon DEF Covered, PassCovered
<1>3. state.applied = SchemaOf[tam.version]
  BY <1>1, Zenon DEF PassStamped
<1>4. state.applied <= db /\ db \in Nat
  BY Zenon DEF Covered, StateCovered, Shapes
<1>5. db = state.applied
  <2>1. CASE pending = NoVersion
    BY <2>1, Zenon DEF Stamped
  <2>2. CASE pending # NoVersion
    <3>1. pending = tam.version
      BY <1>1, <2>2, Zenon DEF Lock, PassFollows
    <3> QED
      BY <1>2, <1>3, <1>4, <2>2, <3>1 DEF Stamped
  <2> QED
    BY <2>1, <2>2, Zenon
<1> QED
  BY <1>1, <1>2, <1>3, <1>5, Zenon DEF Stamped

\* The first and the last steps of a pass write only the Tamoss.
LEMMA StampEnds ==
    ASSUME Covered, Lock, Stamped, PassStamped, cache["state"] = state,
           Keeps \/ Begins \/ Completes,
           StartPass \/ StopBeforeSchema \/ StopAfterSchema \/ updateStatus
    PROVE  Stamped' /\ PassStamped' /\ state' = state
<1>1. UNCHANGED <<state, db>>
  BY Zenon DEF StartPass, StopBeforeSchema, StopAfterSchema, updateStatus, world
<1>2. Stamped'
  BY <1>1, StampKeeps, StampBegins, StampCompletes, Zenon
<1>3. pass' = NoPass \/ pass'.at = "schema"
  <2>1. CASE StartPass
    <3>1. \/ \E new : FinishWith(cache["tamoss"], new, FALSE)
          \/ pass' = NoPass
          \/ \E m : pass' = [at |-> "schema", mem |-> m]
      BY <2>1, Zenon DEF StartPass
    <3> QED
      BY <3>1 DEF FinishWith
  <2>2. CASE StopBeforeSchema \/ StopAfterSchema \/ updateStatus
    BY <2>2, Zenon DEF StopBeforeSchema, StopAfterSchema, updateStatus, StopAt, FinishWith
  <2> QED
    BY <2>1, <2>2, Zenon
<1>4. PassStamped'
  <2>1. CASE pass'.at = "schema"
    BY <2>1, Zenon DEF PassStamped
  <2> QED
    BY <1>3, <2>1, StampIdle, Zenon
<1> QED
  BY <1>1, <1>2, <1>4, Zenon

\* The schema stage without a write of the ConfigMap.
LEMMA StampObserves ==
    ASSUME Covered, Lock, Stamped, cache["state"] = state, Keeps,
           \/ SchemaObserved \/ reconcileObsoleteSchemaJobs \/ reconcileStaleSchemaJob
           \/ launchSchemaJob \/ acceptSchemaRetry
    PROVE  Stamped' /\ PassStamped' /\ state' = state
<1>1. UNCHANGED <<state, db>>
  BY Zenon DEF SchemaObserved, reconcileObsoleteSchemaJobs, reconcileStaleSchemaJob,
     launchSchemaJob,
         acceptSchemaRetry, world
<1>2. Stamped'
  BY <1>1, StampKeeps, Zenon
<1>3. CASE acceptSchemaRetry
  <2>1. pass' = [at |-> "reset", mem |-> pass.mem, state |-> Recorded(state.applied, pass.mem.retry)]
    BY <1>3, Zenon DEF acceptSchemaRetry, schemaRetryStateConfigMap, CState
  <2>2. pass'.at = "reset" /\ pass'.state = Recorded(state.applied, pass.mem.retry)
    BY <2>1, Zenon
  <2>3. /\ "present" \in DOMAIN Recorded(state.applied, pass.mem.retry)
        /\ Recorded(state.applied, pass.mem.retry).present
        /\ Recorded(state.applied, pass.mem.retry).applied = state.applied
    BY Zenon DEF Recorded
  <2> QED
    BY <1>1, <1>2, <2>2, <2>3, Zenon DEF PassStamped
<1>4. CASE \/ SchemaObserved \/ reconcileObsoleteSchemaJobs \/ reconcileStaleSchemaJob
           \/ launchSchemaJob
  <2>1. \/ pass' = NoPass
        \/ SchemaStep("atVersion") /\ Conclude(TRUE, FALSE, {}, TRUE, FALSE)
        \/ \E d, kj, q : Conclude(FALSE, d, kj, TRUE, q)
        \/ \E d, kj, q : Conclude(FALSE, d, kj, state.present, q)
    BY <1>4, Zenon DEF SchemaObserved, reconcileObsoleteSchemaJobs, reconcileStaleSchemaJob,
                launchSchemaJob, CState
  <2>2. SchemaStep("atVersion") => state.applied = Target
    BY Zenon DEF SchemaStep, schemaStage, CState
  <2>3. CASE SchemaStep("atVersion") /\ Conclude(TRUE, FALSE, {}, TRUE, FALSE)
    <3>1. state'.applied = Target
      BY <1>1, <2>2, <2>3, Zenon
    <3>2. PassStamped'
      BY <2>3, <3>1, StampConclude, Zenon
    <3> QED
      BY <1>1, <1>2, <3>2, Zenon
  <2>4. ASSUME NEW d, NEW kj, NEW q, Conclude(FALSE, d, kj, TRUE, q) PROVE PassStamped'
    BY <2>4, StampConclude, Zenon
  <2>5. ASSUME NEW d, NEW kj, NEW q, Conclude(FALSE, d, kj, state.present, q) PROVE PassStamped'
    <3>1. state'.present => state.present
      BY <1>1, Zenon
    <3> QED
      BY <2>5, <3>1, StampConclude, Zenon
  <2> QED
    BY <1>1, <1>2, <2>1, <2>3, <2>4, <2>5, StampIdle, Zenon
<1> QED
  BY <1>3, <1>4, Zenon

\* The schema stage writes the ConfigMap: the stamp stays, or is the target.
LEMMA StampWrites ==
    ASSUME Covered, Lock, Stamped, PassStamped, cache["state"] = state, Keeps,
           resetSchemaState \/ reconcileSucceededSchemaJob \/ reconcileFailedSchemaJob
    PROVE  /\ Stamped' /\ PassStamped'
           /\ state.applied \in Nat /\ state'.applied \in Nat /\ state.applied <= state'.applied
           /\ ~reconcileSucceededSchemaJob => state'.applied = state.applied
<1>1. /\ db' = db /\ current' = current /\ pending' = pending
      /\ state.applied \in Nat
  BY Zenon DEF resetSchemaState, reconcileSucceededSchemaJob, reconcileFailedSchemaJob, world,
         Keeps, current, pending, Covered, StateCovered
<1>2. ASSUME "present" \in DOMAIN state', state'.present, state'.applied = state.applied
      PROVE  Stamped'
  BY <1>1, <1>2, Zenon DEF Stamped
<1>3. CASE resetSchemaState
  <2>1. state' = pass.state /\ pass.at = "reset" /\ Conclude(FALSE, FALSE, {Target}, TRUE, FALSE)
    BY <1>3, Zenon DEF resetSchemaState
  <2>2. "present" \in DOMAIN state' /\ state'.present /\ state'.applied = state.applied
    BY <2>1, Zenon DEF PassStamped
  <2>3. PassStamped'
    BY <2>1, StampConclude, Zenon
  <2> QED
    BY <1>1, <1>2, <2>2, <2>3
<1>4. CASE reconcileFailedSchemaJob
  <2>1. /\ UNCHANGED state \/ \E count : state' = schemaFailureStateConfigMap(state, count)
        /\ \E d : Conclude(FALSE, d, {Target}, TRUE, FALSE)
    BY <1>4, Zenon DEF reconcileFailedSchemaJob, CState
  <2>2. PassStamped'
    BY <2>1, StampConclude, Zenon
  <2>3. Stamped' /\ state'.applied = state.applied
    <3>1. CASE UNCHANGED state
      BY <1>1, <3>1, Zenon DEF Stamped
    <3>2. ASSUME NEW count, state' = schemaFailureStateConfigMap(state, count)
          PROVE  "present" \in DOMAIN state' /\ state'.present /\ state'.applied = state.applied
      BY <3>2, Zenon DEF schemaFailureStateConfigMap
    <3> QED
      BY <1>2, <2>1, <3>1, <3>2, Zenon
  <2> QED
    BY <1>1, <2>2, <2>3
<1>5. CASE reconcileSucceededSchemaJob
  <2>1. /\ state' = Recorded(Target, CState.consumed) /\ pass.at = "schema"
        /\ schemaStage = "succeeded" /\ Conclude(TRUE, FALSE, {Target}, TRUE, FALSE)
    BY <1>5, Zenon DEF reconcileSucceededSchemaJob, schemaStateConfigMap, SchemaStep
  <2>2. /\ pending # NoVersion /\ Target \in Nat /\ state.applied <= Target
    BY <2>1, WorkFacts, Zenon
  <2>3. "present" \in DOMAIN state' /\ state'.present /\ state'.applied = Target
    BY <2>1, Zenon DEF Recorded
  <2>4. PassStamped'
    BY <2>1, <2>3, StampConclude, Zenon
  <2>5. Stamped'
    BY <1>1, <2>2, <2>3, Zenon DEF Stamped
  <2> QED
    BY <1>1, <1>5, <2>2, <2>3, <2>4, <2>5, Zenon
<1> QED
  BY <1>3, <1>4, <1>5, Zenon

\* The rest of the pass: the pruner spares the ConfigMap.
LEMMA StampApplies ==
    ASSUME Covered, Stamped, PassStamped, cache["state"] = state, Keeps,
           applyTamossDesiredObjects \/ pruneOwnedObjects
    PROVE  Stamped' /\ PassStamped' /\ state' = state
<1>1. /\ db' = db /\ pass.at \in {"apply", "prune"}
      /\ pass' = [pass EXCEPT !.at = "prune"] \/ pass' = [pass EXCEPT !.at = "report"]
  BY Zenon DEF applyTamossDesiredObjects, pruneOwnedObjects, world
<1>2. /\ {"keepState", "degraded", "requeue", "keepJobs", "mem", "ready", "at"} \subseteq DOMAIN pass
      /\ state.present => pass.keepState
      /\ pass.ready => state.applied = SchemaOf[pass.mem.version]
  BY <1>1, Zenon DEF PassStamped, Covered, PassCovered
<1>3. state' = state
  <2>1. CASE applyTamossDesiredObjects
    BY <2>1, Zenon DEF applyTamossDesiredObjects
  <2>2. CASE pruneOwnedObjects
    <3>1. ~pruneLoadedList.state
      BY <1>2, Zenon DEF pruneLoadedList
    <3> QED
      BY <2>2, <3>1, Zenon DEF pruneOwnedObjects
  <2> QED
    BY <2>1, <2>2, Zenon
<1>4. /\ DOMAIN pass' = DOMAIN pass /\ pass'.mem = pass.mem /\ pass'.at \in {"prune", "report"}
      /\ pass'.keepState = pass.keepState /\ pass'.ready = pass.ready
  BY <1>1, <1>2, Zenon
<1>5. PassStamped'
  BY <1>2, <1>3, <1>4, Zenon DEF PassStamped
<1> QED
  BY <1>1, <1>3, <1>5, StampKeeps, Zenon

\* A migration that ends moves the database to the schema of the upgrade, or
\* leaves it.
LEMMA PodOutcome ==
    ASSUME Covered, Lock, Stamped, Migrations, PodSucceeds \/ PodFails
    PROVE  \/ db' = db
           \/ pending # NoVersion /\ db < SchemaOf[pending] /\ db' = SchemaOf[pending]
<1>1. PICK p \in pods : p.running /\ db' \in {db, Committed(p)}
  BY Zenon DEF PodSucceeds, PodFails, PodEnds
<1>2. pending # NoVersion /\ p.schema = SchemaOf[pending]
  BY <1>1, Zenon DEF Migrations
<1>3. db \in Nat /\ p.schema \in Nat
  BY SchemaNumbers, Zenon DEF Covered, Shapes
<1> QED
  BY <1>1, <1>2, <1>3, Zenon DEF Committed

LEMMA StampCluster ==
    ASSUME Covered, Lock, Stamped, PassStamped, Migrations, Keeps,
           Cluster \/ Users \/ Faults \/ (\E k \in Kinds : Sync(k)) \/ UNCHANGED vars
    PROVE  Stamped' /\ PassStamped' /\ state' = state
<1>1. state' = state /\ (pass' = pass \/ pass' = NoPass)
  BY Zenon DEF Cluster, StartPod, PodSucceeds, CollectPod, CollectJob, RolloutFinishes, Faults,
     PodFails,
         AbortPass, DeleteJob, Sync, vars, Users, SelectVersion, OverrideImage, TogglePaused,
         EditSpec, AnnotateRetry, ObstacleAppears, ObstacleGoes, SetGate
<1>2. PassStamped'
  <2>1. CASE pass' = pass
    BY <1>1, <2>1, Zenon DEF PassStamped
  <2> QED
    BY <1>1, <2>1, StampIdle, Zenon
<1>3. Stamped'
  <2>1. CASE PodSucceeds \/ PodFails
    <3>1. current' = current /\ pending' = pending
      BY Zenon DEF Keeps, current, pending
    <3>2. \/ db' = db
          \/ pending # NoVersion /\ db < SchemaOf[pending] /\ db' = SchemaOf[pending]
      BY <2>1, PodOutcome, Zenon
    <3>3. CASE db' = db
      BY <1>1, <3>1, <3>3, Zenon DEF Stamped
    <3>4. CASE pending # NoVersion /\ db' = SchemaOf[pending]
      <4>1. SchemaOf[pending] \in Nat
        BY <3>4, SchemaNumbers, Zenon DEF Lock
      <4> QED
        BY <1>1, <3>1, <3>4, <4>1 DEF Stamped
    <3> QED
      BY <3>2, <3>3, <3>4, Zenon
  <2>2. CASE ~(PodSucceeds \/ PodFails)
    <3>1. db' = db
      BY <2>2, Zenon DEF Cluster, StartPod, CollectPod, CollectJob, RolloutFinishes, Faults,
         AbortPass, DeleteJob, Sync, vars, Users, SelectVersion, OverrideImage, TogglePaused,
         EditSpec, AnnotateRetry, ObstacleAppears, ObstacleGoes, SetGate, world
    <3> QED
      BY <1>1, <3>1, StampKeeps, Zenon
  <2> QED
    BY <2>1, <2>2, Zenon
<1> QED
  BY <1>1, <1>2, <1>3, Zenon

LEMMA StampStep ==
    ASSUME "state" \notin Lagging, Covered, Lock, Stamped, PassStamped, Migrations, [Next]_vars
    PROVE  Stamped' /\ PassStamped' /\ state.applied <= state'.applied
<1>1. Keeps \/ Begins \/ Completes
  BY LockStep, Zenon
<1>2. state' = state => state.applied <= state'.applied
  BY DEF Covered, StateCovered
<1>3. CASE Controller
  <2>1. Fresh
    BY <1>3, Zenon DEF Controller
  <2>2. cache["state"] = state
    BY <2>1, FreshState, Zenon
  <2>3. CASE StartPass \/ StopBeforeSchema \/ StopAfterSchema \/ updateStatus
    BY <1>1, <1>2, <2>2, <2>3, StampEnds, Zenon
  <2>4. CASE ~(StartPass \/ StopBeforeSchema \/ StopAfterSchema \/ updateStatus)
    <3>1. Keeps
      BY <1>3, <2>4, LockPass, Zenon DEF Controller
    <3> QED
      BY <1>2, <1>3, <2>2, <2>4, <3>1, StampObserves, StampWrites, StampApplies, Zenon
         DEF Controller
  <2> QED
    BY <2>3, <2>4, Zenon
<1>4. CASE Cluster \/ Users \/ Faults \/ (\E k \in Kinds : Sync(k)) \/ UNCHANGED vars
  <2>1. Keeps
    BY <1>4, LockCluster, LockUsers, SMTT(20) DEF Faults
  <2> QED
    BY <1>2, <1>4, <2>1, StampCluster, Zenon
<1> QED
  BY <1>3, <1>4, Zenon DEF Next

-----------------------------------------------------------------------------
(* Migrations.                                                             *)

\* Pods and Jobs only go away, or stop, and the lock and the stamp stay.
LEMMA MigrationsShrink ==
    ASSUME Covered, Migrations, Keeps, state'.applied = state.applied,
           \A p \in pods' : /\ {"running", "uid", "fixtures"} \subseteq DOMAIN p
                            /\ p.running => p \in pods,
           \A s \in Schemas :
              /\ "fixtures" \in DOMAIN jobs'[s]
              /\ jobs'[s].status = "complete" => jobs[s].status = "complete"
              /\ Startable(s)' => Startable(s) /\ (jobs'[s].fixtures => jobs[s].fixtures),
           cache'["job"] = cache["job"] \/ cache'["job"] = jobs
    PROVE  Migrations'
<1>1. pending' = pending
  BY Zenon DEF Keeps, pending
<1>2. \A s \in Schemas : cache'["job"][s].status = "complete" =>
                            cache["job"][s].status = "complete" \/ jobs[s].status = "complete"
  BY SMTT(20)
<1>3. ASSUME NEW p \in pods', p.running
      PROVE  /\ pending' # NoVersion /\ p.schema = SchemaOf[pending'] /\ state'.applied # p.schema
             /\ jobs'[p.schema].status # "complete" /\ cache'["job"][p.schema].status # "complete"
             /\ p.fixtures => state'.applied = 0
  <2>1. p \in pods /\ p.schema \in Schemas
    BY <1>3, SMTT(20) DEF Covered, Shapes
  <2> QED
    BY <1>1, <1>2, <1>3, <2>1, Zenon DEF Migrations
<1>4. ASSUME NEW s \in Schemas, Startable(s)'
      PROVE  /\ pending' # NoVersion /\ s = SchemaOf[pending'] /\ state'.applied # s
             /\ cache'["job"][s].status # "complete"
             /\ jobs'[s].fixtures => state'.applied = 0
             /\ \A p \in pods' : ~p.running
  <2>1. Startable(s) /\ (jobs'[s].fixtures => jobs[s].fixtures) /\ jobs[s].status # "complete"
    BY <1>4, Zenon DEF Startable
  <2> QED
    BY <1>1, <1>2, <1>4, <2>1, SMTT(20) DEF Migrations
<1>5. \A p, q \in pods' : p.running /\ q.running => p = q
  BY SMTT(20) DEF Migrations
<1> QED
  BY <1>3, <1>4, <1>5, Zenon DEF Migrations

\* Nothing runs and nothing can start.
LEMMA MigrationsNone ==
    ASSUME \A p \in pods' : {"running", "uid", "fixtures"} \subseteq DOMAIN p /\ ~p.running,
           \A s \in Schemas : "fixtures" \in DOMAIN jobs'[s] /\ ~Startable(s)'
    PROVE  Migrations'
BY Zenon DEF Migrations

LEMMA MigrationsUntouched ==
    ASSUME Covered, Migrations, Keeps, state'.applied = state.applied, UNCHANGED <<pods, jobs>>,
           cache'["job"] = cache["job"] \/ cache'["job"] = jobs
    PROVE  Migrations'
<1>1. \A p \in pods' : {"running", "uid", "fixtures"} \subseteq DOMAIN p /\ (p.running => p \in pods)
  BY Zenon DEF Migrations
<1>2. \A s \in Schemas :
         /\ "fixtures" \in DOMAIN jobs'[s]
         /\ jobs'[s].status = "complete" => jobs[s].status = "complete"
         /\ Startable(s)' => Startable(s) /\ (jobs'[s].fixtures => jobs[s].fixtures)
  BY Zenon DEF Migrations, Startable
<1> QED
  BY <1>1, <1>2, MigrationsShrink, Zenon

\* Jobs are deleted, in the foreground or at once.
LEMMA MigrationsDelete ==
    ASSUME Covered, Migrations, Keeps, state'.applied = state.applied,
           cache'["job"] = cache["job"], pods' \subseteq pods,
           \A s \in Schemas : \/ jobs'[s] = jobs[s]
                              \/ jobs'[s] = NoJob
                              \/ jobs'[s] = [jobs[s] EXCEPT !.deleting = TRUE]
    PROVE  Migrations'
<1>1. \A p \in pods' : {"running", "uid", "fixtures"} \subseteq DOMAIN p /\ (p.running => p \in pods)
  BY Zenon DEF Migrations
<1>2. ASSUME NEW s \in Schemas
      PROVE  /\ "fixtures" \in DOMAIN jobs'[s]
             /\ jobs'[s].status = "complete" => jobs[s].status = "complete"
             /\ Startable(s)' => Startable(s) /\ (jobs'[s].fixtures => jobs[s].fixtures)
  <2>1. {"status", "uid", "deleting", "fixtures"} \subseteq DOMAIN jobs[s]
    BY Zenon DEF Covered, JobsCovered, Migrations
  <2>2. CASE jobs'[s] = jobs[s]
    BY <2>1, <2>2, Zenon DEF Startable
  <2>3. CASE jobs'[s] = NoJob
    <3>1. "fixtures" \in DOMAIN NoJob /\ NoJob.status = "absent"
      BY Zenon DEF NoJob
    <3> QED
      BY <2>3, <3>1, Zenon DEF Startable
  <2>4. CASE jobs'[s] = [jobs[s] EXCEPT !.deleting = TRUE]
    <3>1. /\ "fixtures" \in DOMAIN jobs'[s] /\ jobs'[s].deleting
          /\ jobs'[s].status = jobs[s].status
      BY <2>1, <2>4, SMTT(20)
    <3> QED
      BY <3>1, Zenon DEF Startable
  <2> QED
    BY <2>2, <2>3, <2>4, Zenon
<1> QED
  BY <1>1, <1>2, MigrationsShrink, Zenon

\* The steps that take or release the lock: then no migration is there.
LEMMA MigrationsUnlocked ==
    ASSUME Covered, Lock, PassStamped, Migrations, Begins \/ Completes, UNCHANGED <<pods, jobs>>
    PROVE  Migrations'
<1>1. ASSUME pending # NoVersion
      PROVE  pending = pass.mem.version /\ state.applied = SchemaOf[pending]
  <2>1. Completes
    BY <1>1, Zenon DEF Begins
  <2>2. pass.at = "report" /\ pass.ready
    BY <2>1, Zenon DEF Completes
  <2> QED
    BY <1>1, <2>2, Zenon DEF Lock, PassFollows, PassStamped
<1>2. \A p \in pods : ~p.running
  BY <1>1, Zenon DEF Migrations
<1>3. \A s \in Schemas : ~Startable(s)
  BY <1>1, SMTT(20) DEF Migrations
<1> QED
  BY <1>2, <1>3, MigrationsNone, Zenon DEF Migrations, Startable

\* The stamp of a Job that is seen complete: its migration is over.
LEMMA MigrationsStamp ==
    ASSUME Covered, Lock, Stamped, Migrations, Keeps, cache["state"] = state,
           reconcileSucceededSchemaJob
    PROVE  Migrations'
<1>1. /\ UNCHANGED <<pods, jobs>> /\ pass.at = "schema" /\ schemaStage = "succeeded"
  BY Zenon DEF reconcileSucceededSchemaJob, SchemaStep
<1>2. cache["job"][Target].status = "complete"
  BY <1>1, Zenon DEF schemaStage, jobSucceeded, CJob
<1>3. Target = SchemaOf[pending]
  BY <1>1, WorkFacts, SMTT(20)
<1>4. \A p \in pods : ~p.running
  BY <1>2, <1>3, Zenon DEF Migrations
<1>5. \A s \in Schemas : ~Startable(s)
  BY <1>2, <1>3, Zenon DEF Migrations
<1> QED
  BY <1>1, <1>4, <1>5, MigrationsNone, Zenon DEF Migrations, Startable

\* A Job is created only when no Pod and no Job is left.
LEMMA MigrationsLaunch ==
    ASSUME Covered, Lock, Stamped, Migrations, Keeps,
           cache["state"] = state, cache["pod"] = pods, launchSchemaJob
    PROVE  Migrations'
<1>1. /\ UNCHANGED <<tam, state, pods, cache>> /\ pass.at = "schema" /\ schemaStage = "launch"
      /\ jobs' = jobs \/ jobs' = [jobs EXCEPT ![Target] = schemaMigrationJob(made + 1)]
  BY Zenon DEF launchSchemaJob, SchemaStep
<1>2. CASE jobs' = jobs
  BY <1>1, <1>2, MigrationsUntouched, SMTT(20)
<1>3. CASE jobs' = [jobs EXCEPT ![Target] = schemaMigrationJob(made + 1)]
  <2>1. /\ pods = {} /\ cache["job"][Target].status = "absent"
        /\ ~(state.present /\ state.applied = Target)
    BY <1>1, Zenon DEF schemaStage, schemaJobPods, CJob, CState
  <2>2. /\ pending # NoVersion /\ pending \in Releases /\ Target = SchemaOf[pending]
    BY <1>1, WorkFacts, Zenon
  <2>3. Target \in Schemas /\ Target # 0
    BY <2>2, SchemaNumbers, CatalogueAssumption, Zenon
  <2>4. state.applied # Target
    BY <2>1, <2>3, Zenon DEF Stamped
  <2>5. /\ "fixtures" \in DOMAIN schemaMigrationJob(made + 1)
        /\ schemaMigrationJob(made + 1).fixtures => state.applied = 0
    BY Zenon DEF schemaMigrationJob, includeFixtures, CState
  <2>6. /\ \A s \in Schemas : s # Target => jobs'[s] = jobs[s]
        /\ jobs'[Target] = schemaMigrationJob(made + 1)
    BY <1>3, <2>3, SMTT(20) DEF Covered, JobsCovered
  <2>7. ASSUME NEW s \in Schemas, Startable(s)'
        PROVE  /\ pending' # NoVersion /\ s = SchemaOf[pending'] /\ state'.applied # s
               /\ cache'["job"][s].status # "complete"
               /\ jobs'[s].fixtures => state'.applied = 0
    <3>1. CASE s = Target
      BY <1>1, <2>1, <2>2, <2>4, <2>5, <2>6, <3>1, SMTT(20) DEF pending
    <3>2. CASE s # Target
      <4>1. Startable(s)
        BY <2>6, <2>7, <3>2, Zenon DEF Startable
      <4> QED
        BY <2>2, <3>2, <4>1, Zenon DEF Migrations
    <3> QED
      BY <3>1, <3>2, SMTT(20)
  <2>8. pods' = {}
    BY <1>1, <2>1, Zenon
  <2>9. \A s \in Schemas : "fixtures" \in DOMAIN jobs'[s]
    BY <2>5, <2>6, SMTT(20) DEF Migrations
  <2> QED
    BY <2>7, <2>8, <2>9, Zenon DEF Migrations
<1> QED
  BY <1>1, <1>2, <1>3, Zenon

\* The Job controller starts the only Pod.
LEMMA MigrationsStart ==
    ASSUME Covered, Migrations, Keeps, NEW s \in Schemas, StartPod(s)
    PROVE  Migrations'
<1> DEFINE new == [uid |-> jobs[s].uid, schema |-> s, running |-> TRUE, fixtures |-> jobs[s].fixtures]
<1>1. /\ Startable(s) /\ UNCHANGED <<tam, state, cache>> /\ pods' = pods \cup {new}
      /\ jobs' = [jobs EXCEPT ![s].status = "active"]
  BY Zenon DEF StartPod, Startable
<1>2. /\ {"status", "uid", "deleting", "fixtures"} \subseteq DOMAIN jobs[s]
      /\ jobs = [t \in Schemas |-> jobs[t]]
  BY Zenon DEF Covered, JobsCovered, Migrations
<1>3. /\ \A t \in Schemas : t # s => jobs'[t] = jobs[t]
      /\ jobs'[s] = [jobs[s] EXCEPT !.status = "active"]
  BY <1>1, <1>2, Zenon
<1>4. "fixtures" \in DOMAIN jobs'[s] /\ jobs'[s].status = "active"
  BY <1>2, <1>3, Zenon
<1>5. /\ pending # NoVersion /\ s = SchemaOf[pending] /\ state.applied # s
      /\ cache["job"][s].status # "complete" /\ (jobs[s].fixtures => state.applied = 0)
      /\ \A p \in pods : ~p.running
  BY <1>1, Zenon DEF Migrations
<1>6. \A t \in Schemas : ~Startable(t)'
  <2> SUFFICES ASSUME NEW t \in Schemas, Startable(t)' PROVE FALSE
    BY Zenon
  <2>1. t # s
    BY <1>4, Zenon DEF Startable
  <2>2. Startable(t)
    BY <1>3, <2>1, Zenon DEF Startable
  <2> QED
    BY <1>5, <2>1, <2>2, Zenon DEF Migrations
<1>7. /\ {"running", "uid", "fixtures"} \subseteq DOMAIN new /\ new.schema = s
      /\ new.fixtures => jobs[s].fixtures
  BY Zenon
<1>8. pending' = pending /\ state' = state /\ cache' = cache
  BY <1>1, Zenon DEF pending
<1> HIDE DEF new
<1>9. \A p \in pods' : p.running => p = new
  BY <1>1, <1>5, SMTT(20)
<1>10. \A p \in pods' : p.running =>
          /\ pending' # NoVersion /\ p.schema = SchemaOf[pending'] /\ state'.applied # p.schema
          /\ jobs'[p.schema].status # "complete" /\ cache'["job"][p.schema].status # "complete"
          /\ p.fixtures => state'.applied = 0
  BY <1>4, <1>5, <1>7, <1>8, <1>9, Zenon
<1>11. \A p \in pods' : {"running", "uid", "fixtures"} \subseteq DOMAIN p
  BY <1>1, <1>7, Zenon DEF Migrations
<1>12. \A t \in Schemas : "fixtures" \in DOMAIN jobs'[t]
  BY <1>3, <1>4, Zenon DEF Migrations
<1> QED
  BY <1>6, <1>9, <1>10, <1>11, <1>12, Zenon DEF Migrations

\* The only Pod ends.
LEMMA MigrationsEnd ==
    ASSUME Covered, Migrations, PodSucceeds \/ PodFails
    PROVE  Migrations'
<1>1. PICK p \in pods : \E outcome \in {"complete", "failed"} : PodEnds(p, outcome)
  BY Zenon DEF PodSucceeds, PodFails
<1>2. PICK outcome \in {"complete", "failed"} : PodEnds(p, outcome)
  BY <1>1, Zenon
<1>3. p.running /\ p.schema \in Schemas /\ {"running", "uid", "fixtures"} \subseteq DOMAIN p
  BY <1>2, Zenon DEF PodEnds, Migrations, Covered, Shapes
<1>4. \A s \in Schemas : /\ {"status", "uid", "deleting", "fixtures"} \subseteq DOMAIN jobs[s]
                         /\ ~Startable(s)
  BY <1>3, Zenon DEF Covered, JobsCovered, Migrations
<1>5. ASSUME NEW q \in pods'
      PROVE  {"running", "uid", "fixtures"} \subseteq DOMAIN q /\ ~q.running
  <2>1. pods' = (pods \ {p}) \cup {[p EXCEPT !.running = FALSE]}
    BY <1>2, Zenon DEF PodEnds
  <2>2. /\ {"running", "uid", "fixtures"} \subseteq DOMAIN [p EXCEPT !.running = FALSE]
        /\ ~[p EXCEPT !.running = FALSE].running
    BY <1>3, Zenon
  <2> QED
    BY <1>3, <2>1, <2>2, Zenon DEF Migrations
<1>6. ASSUME NEW s \in Schemas
      PROVE  "fixtures" \in DOMAIN jobs'[s] /\ ~Startable(s)'
  <2>1. jobs'[s] = jobs[s] \/ jobs'[s] = [jobs[s] EXCEPT !.status = outcome]
    BY <1>2, <1>3, Zenon DEF PodEnds, Covered, JobsCovered
  <2>2. CASE jobs'[s] = jobs[s]
    BY <1>4, <2>2, Zenon DEF Startable
  <2>3. CASE jobs'[s] = [jobs[s] EXCEPT !.status = outcome]
    <3>1. "fixtures" \in DOMAIN jobs'[s] /\ jobs'[s].status = outcome
      BY <1>4, <2>3, Zenon
    <3> QED
      BY <3>1, Zenon DEF Startable
  <2> QED
    BY <2>1, <2>2, <2>3, Zenon
<1> QED
  BY <1>5, <1>6, MigrationsNone, Zenon

LEMMA FreshPods == ASSUME Fresh, "pod" \notin Lagging PROVE cache["pod"] = pods
<1>1. "pod" \in Kinds \ Lagging /\ Live["pod"] = pods
  BY Zenon DEF Kinds, Live
<1> QED
  BY <1>1, Zenon DEF Fresh

LEMMA MigrationsController ==
    ASSUME {"state", "pod"} \cap Lagging = {},
           Covered, Lock, Stamped, PassStamped, Migrations, Controller
    PROVE  Migrations'
<1>1. cache["state"] = state /\ cache["pod"] = pods
  BY FreshState, FreshPods, Zenon DEF Controller
<1>2. cache' = cache
  BY Zenon DEF Controller, StartPass, StopBeforeSchema, StopAfterSchema, updateStatus,
         SchemaObserved, reconcileObsoleteSchemaJobs, reconcileStaleSchemaJob, acceptSchemaRetry,
         resetSchemaState, reconcileSucceededSchemaJob, reconcileFailedSchemaJob, launchSchemaJob,
         applyTamossDesiredObjects, pruneOwnedObjects
<1>3. CASE StartPass \/ StopBeforeSchema \/ StopAfterSchema \/ updateStatus
  <2>1. Keeps \/ Begins \/ Completes
    BY <1>3, LockStart, LockFinish, Zenon
  <2>2. UNCHANGED <<pods, jobs, state>>
    BY <1>3, Zenon DEF StartPass, StopBeforeSchema, StopAfterSchema, updateStatus
  <2> QED
    BY <1>2, <2>1, <2>2, MigrationsUnlocked, MigrationsUntouched, Zenon
<1>4. CASE launchSchemaJob
  BY <1>1, <1>4, LockPass, MigrationsLaunch, Zenon
<1>5. CASE reconcileSucceededSchemaJob
  BY <1>1, <1>5, LockPass, MigrationsStamp, Zenon
<1>6. CASE SchemaObserved \/ resetSchemaState \/ reconcileFailedSchemaJob \/ applyTamossDesiredObjects
  <2>1. Keeps
    BY <1>6, LockPass, Zenon
  <2>2. UNCHANGED <<pods, jobs>>
    BY <1>6, Zenon DEF SchemaObserved, resetSchemaState, reconcileFailedSchemaJob,
       applyTamossDesiredObjects
  <2>3. state'.applied = state.applied
    <3>1. CASE resetSchemaState
      BY <3>1, Zenon DEF resetSchemaState, PassStamped
    <3>2. CASE reconcileFailedSchemaJob
      <4>1. UNCHANGED state \/ \E count : state' = schemaFailureStateConfigMap(state, count)
        BY <1>1, <3>2, Zenon DEF reconcileFailedSchemaJob, CState
      <4>2. \A count : schemaFailureStateConfigMap(state, count).applied = state.applied
        BY Zenon DEF schemaFailureStateConfigMap
      <4> QED
        BY <4>1, <4>2, Zenon
    <3>3. CASE SchemaObserved \/ applyTamossDesiredObjects
      BY <3>3, Zenon DEF SchemaObserved, applyTamossDesiredObjects
    <3> QED
      BY <1>6, <3>1, <3>2, <3>3, Zenon
  <2> QED
    BY <1>2, <2>1, <2>2, <2>3, MigrationsUntouched, Zenon
<1>7. CASE \/ reconcileObsoleteSchemaJobs \/ reconcileStaleSchemaJob
           \/ acceptSchemaRetry \/ pruneOwnedObjects
  <2>1. Keeps
    BY <1>7, LockPass, Zenon
  <2>2. pods' \subseteq pods
    BY <1>7, Zenon DEF reconcileObsoleteSchemaJobs, reconcileStaleSchemaJob, acceptSchemaRetry,
                pruneOwnedObjects
  <2>3. state' = state
    BY <1>1, <1>7, <2>1, StampApplies, Zenon DEF reconcileObsoleteSchemaJobs,
       reconcileStaleSchemaJob,
                acceptSchemaRetry
  <2>4. ASSUME NEW s \in Schemas
        PROVE  \/ jobs'[s] = jobs[s]
               \/ jobs'[s] = NoJob
               \/ jobs'[s] = [jobs[s] EXCEPT !.deleting = TRUE]
    <3>1. CASE reconcileObsoleteSchemaJobs \/ reconcileStaleSchemaJob
      BY <3>1, Zenon DEF reconcileObsoleteSchemaJobs, reconcileStaleSchemaJob, Foreground
    <3>2. CASE acceptSchemaRetry
      BY <3>2, Zenon DEF acceptSchemaRetry, Covered, JobsCovered
    <3>3. CASE pruneOwnedObjects
      BY <3>3, Zenon DEF pruneOwnedObjects
    <3> QED
      BY <1>7, <3>1, <3>2, <3>3, Zenon
  <2> QED
    BY <1>2, <2>1, <2>2, <2>3, <2>4, MigrationsDelete, Zenon
<1> QED
  BY <1>3, <1>4, <1>5, <1>6, <1>7, Zenon DEF Controller

LEMMA MigrationsStep ==
    ASSUME {"state", "pod"} \cap Lagging = {},
           Covered, Lock, Stamped, PassStamped, Migrations, [Next]_vars
    PROVE  Migrations'
<1>1. CASE Controller
  BY <1>1, MigrationsController, Zenon
<1>2. CASE ~Controller
  <2>1. Keeps
    BY <1>2, LockCluster, LockUsers, Zenon DEF Next, Faults
  <2>2. CASE PodSucceeds \/ PodFails
    BY <2>2, MigrationsEnd, Zenon
  <2>3. ASSUME NEW s \in Schemas, StartPod(s) PROVE Migrations'
    BY <2>1, <2>3, MigrationsStart, Zenon
  <2>4. CASE CollectPod \/ CollectJob \/ DeleteJob
    <3>1. UNCHANGED <<state, cache>> /\ pods' \subseteq pods
      BY <2>4, Zenon DEF CollectPod, CollectJob, DeleteJob
    <3>2. \A s \in Schemas : jobs'[s] = jobs[s] \/ jobs'[s] = NoJob
      BY <2>4, Zenon DEF CollectPod, CollectJob, DeleteJob, Covered, JobsCovered
    <3> QED
      BY <2>1, <3>1, <3>2, MigrationsDelete, Zenon
  <2>5. CASE RolloutFinishes \/ Users \/ AbortPass \/ ObstacleAppears \/ ObstacleGoes \/ UNCHANGED vars
    <3>1. UNCHANGED <<state, pods, jobs, cache>>
      BY <2>5, Zenon DEF RolloutFinishes, AbortPass, vars, Users, SelectVersion, OverrideImage,
         TogglePaused, EditSpec, AnnotateRetry, ObstacleAppears, ObstacleGoes, SetGate
    <3> QED
      BY <2>1, <3>1, MigrationsUntouched, Zenon
  <2>6. ASSUME NEW k \in Kinds, Sync(k) PROVE Migrations'
    <3>1. UNCHANGED <<state, pods, jobs>> /\ cache' = [cache EXCEPT ![k] = Live[k]]
      BY <2>6, Zenon DEF Sync
    <3>2. Live["job"] = jobs /\ "job" \in Kinds /\ cache = [j \in Kinds |-> cache[j]]
      BY Zenon DEF Live, Kinds, Covered, Shapes
    <3>3. cache'["job"] = cache["job"] \/ cache'["job"] = jobs
      BY <3>1, <3>2, Zenon
    <3> QED
      BY <2>1, <3>1, <3>3, MigrationsUntouched, Zenon
  <2> QED
    BY <1>2, <2>2, <2>3, <2>4, <2>5, <2>6, Zenon DEF Next, Cluster, Faults
<1> QED
  BY <1>1, <1>2, Zenon

-----------------------------------------------------------------------------
-----------------------------------------------------------------------------
(* The inductive invariant.                                                *)

Released == Covered /\ Lock /\ Stamped /\ PassStamped /\ Migrations

LEMMA ReleasedInit == Init => Released
<1> SUFFICES ASSUME Init PROVE Released
  BY Zenon
<1>1. Covered
  BY CoveredInit, Zenon
<1>2. PICK v \in Releases : tam = NewTamoss(v)
  BY Zenon DEF Init
<1>3. TamShape(tam) /\ current = NoVersion /\ pending = NoVersion
  BY <1>2, Zenon DEF NewTamoss, NewStatus, TamShape, StatusFields, current, pending
<1>4. cache["tamoss"] = tam /\ pass.at = "idle" /\ pods = {} /\ jobs = [s \in Schemas |-> NoJob]
  BY NoPassIdle, Zenon DEF Init, Live
<1>5. Lock
  BY <1>3, <1>4, Zenon DEF Lock, CacheFollows, PassFollows, TamShape, current, pending
<1>6. Stamped
  <2>1. CASE db = 0
    <3>1. "present" \in DOMAIN NoState /\ NoState.applied = 0
      BY Zenon DEF NoState
    <3> QED
      BY <1>3, <2>1, <3>1, Zenon DEF Init, Stamped
  <2>2. CASE db # 0
    <3>1. "present" \in DOMAIN Recorded(db, 0) /\ Recorded(db, 0).present /\ Recorded(db, 0).applied = db
      BY Zenon DEF Recorded
    <3> QED
      BY <1>3, <2>2, <3>1, Zenon DEF Init, Stamped
  <2> QED
    BY <2>1, <2>2, Zenon
<1>7. PassStamped
  BY <1>4, Zenon DEF PassStamped
<1>8. Migrations
  <2>1. "fixtures" \in DOMAIN NoJob /\ NoJob.status = "absent"
    BY Zenon DEF NoJob
  <2> QED
    BY <1>4, <2>1, Zenon DEF Migrations, Startable
<1> QED
  BY <1>1, <1>5, <1>6, <1>7, <1>8, Zenon DEF Released

LEMMA ReleasedStep ==
    ASSUME {"state", "pod"} \cap Lagging = {}
    PROVE  Released /\ [Next]_vars => Released'
<1> SUFFICES ASSUME Released, [Next]_vars PROVE Released'
  BY Zenon
<1>1. Covered /\ Lock /\ Stamped /\ PassStamped /\ Migrations /\ "state" \notin Lagging
  BY Zenon DEF Released
<1>2. Covered'
  BY <1>1, CoveredStep, Zenon
<1>3. Lock'
  BY <1>1, LockStep, Zenon
<1>4. Stamped' /\ PassStamped'
  BY <1>1, StampStep, Zenon
<1>5. Migrations'
  BY <1>1, MigrationsStep, Zenon
<1> QED
  BY <1>2, <1>3, <1>4, <1>5, Zenon DEF Released

LEMMA ReleasedInvariant ==
    ASSUME {"state", "pod"} \cap Lagging = {} PROVE Spec => []Released
<1>1. Released /\ [Next]_vars => Released'
  BY ReleasedStep, Zenon
<1> QED
  BY <1>1, ReleasedInit, PTL DEF Spec

\* For every catalogue, and however stale the cached Tamoss, Jobs and Deployments
\* are: SchemaController never has two migrations running against the database at
\* once, and the one that runs is the one the release lock in status.upgrade names.
\* The schema-state ConfigMap and the Pods are read current: the code lists the
\* Pods of its migration Jobs before it launches another.
THEOREM OneMigrationTheorem ==
    ASSUME {"state", "pod"} \cap Lagging = {} PROVE Spec => []OneMigration
<1>1. Released => OneMigration
  <2> SUFFICES ASSUME Released PROVE OneMigration
    BY Zenon
  <2>1. Migrations
    BY Zenon DEF Released
  <2> QED
    BY <2>1, Zenon DEF OneMigration, Migrations, MigrationIsPending, pending
<1> QED
  BY <1>1, ReleasedInvariant, PTL

\* Under the same hypotheses a migration that applies fixtures runs only while no
\* schema version has been recorded: includeFixtures is decided when the Job is
\* rendered, and no stamp can be written between that and the end of its Pod.
THEOREM FixturesTheorem ==
    ASSUME {"state", "pod"} \cap Lagging = {} PROVE Spec => []FixturesOnlyOnInstall
<1>1. Released => FixturesOnlyOnInstall
  BY Zenon DEF Released, Migrations, FixturesOnlyOnInstall
<1> QED
  BY <1>1, ReleasedInvariant, PTL

\* Under the same hypotheses no step takes a recorded schema version back: not a
\* retry, a recorded failure, the stamp of a late Job, or the pruner.
THEOREM StampKeptTheorem ==
    ASSUME {"state", "pod"} \cap Lagging = {} PROVE Spec => StampKept
<1>1. Released /\ [Next]_vars => [state.applied <= state'.applied]_vars
  <2>1. "state" \notin Lagging
    BY Zenon
  <2> QED
    BY <2>1, StampStep, Zenon DEF Released
<1> QED
  BY <1>1, ReleasedInvariant, PTL DEF Spec, StampKept

-----------------------------------------------------------------------------
(* What Ready stands for.                                                  *)

ReadyStatus(st) ==
    st.ready = "True" =>
        /\ st.phase = "Ready" /\ st.degraded = "False" /\ st.schema = "True"
        /\ st.upgrade = "Upgradeable" /\ st.pending = NoVersion /\ st.current # NoVersion

LEMMA ReadyFinish ==
    ASSUME NEW mem, NEW new, NEW requeue, FinishWith(mem, new, requeue), TamShape(tam),
           StatusFields \subseteq DOMAIN new, ReadyStatus(new), ReadyStatus(tam.status)
    PROVE  ReadyStatus(tam.status)'
<1>1. tam' = tam \/ tam' = [tam EXCEPT !.status = new]
  BY FinishCases, Zenon
<1>2. tam'.status = tam.status \/ tam'.status = new
  BY <1>1, WrittenFields, Zenon
<1> QED
  BY <1>2, Zenon DEF ReadyStatus

LEMMA ReadyObserved ==
    ASSUME NEW mem, TamShape(mem), NEW o, mem.version # NoVersion,
           o.ready = "True" => o.phase = "Ready" /\ o.degraded = "False" /\ o.schema = "True"
    PROVE  LET new == applyTamossStatusObservation(mem, o)
           IN  StatusFields \subseteq DOMAIN new /\ ReadyStatus(new)
<1> DEFINE new == applyTamossStatusObservation(mem, o)
<1>1. o.ready # "True" \/ setUpgradeStatusFromSchema(o) = "Upgradeable"
  BY Zenon DEF setUpgradeStatusFromSchema
<1>2. StatusFields \subseteq DOMAIN new /\ new.ready = o.ready
  BY ObservedFields
<1>3. CASE o.ready # "True"
  BY <1>2, <1>3, Zenon DEF ReadyStatus
<1>4. CASE o.ready = "True"
  BY <1>1, <1>2, <1>4, ObservedFields DEF ReadyStatus
<1> QED
  BY <1>2, <1>3, <1>4, Zenon

LEMMA ReadyUpdate ==
    ASSUME Covered, Lock, ReadyStatus(tam.status), updateStatus
    PROVE  ReadyStatus(tam.status)'
<1> DEFINE ready == /\ ~pass.degraded
                    /\ pass.ready
                    /\ workloadRolloutsReady(pass.mem)
                    /\ gate \notin ReportGates
           phase == IF pass.degraded THEN "Degraded" ELSE IF ready THEN "Ready" ELSE "Progressing"
           bool(b) == IF b THEN "True" ELSE "False"
           o == Observation(phase, bool(ready), bool(pass.degraded), bool(pass.ready), "True")
           new == applyTamossStatusObservation(pass.mem, o)
<1>1. PICK requeue : FinishWith(pass.mem, new, requeue)
  BY Zenon DEF updateStatus
<1>2. /\ TamShape(tam) /\ TamShape(pass.mem) /\ pass.mem.version # NoVersion
  BY CatalogueAssumption, Zenon DEF updateStatus, Lock, PassFollows, Covered, PassCovered
<1>3. /\ o.ready = bool(ready) /\ o.schema = bool(pass.ready) /\ o.phase = phase
      /\ o.degraded = bool(pass.degraded)
  BY Zenon DEF Observation
<1>4. o.ready = "True" => o.phase = "Ready" /\ o.degraded = "False" /\ o.schema = "True"
  BY <1>3, Zenon
<1> HIDE DEF o
<1>5. StatusFields \subseteq DOMAIN new /\ ReadyStatus(new)
  BY <1>2, <1>4, ReadyObserved, Zenon
<1> HIDE DEF new
<1> QED
  BY <1>1, <1>2, <1>5, ReadyFinish, Zenon

LEMMA ReadyStart ==
    ASSUME Lock, ReadyStatus(tam.status), StartPass
    PROVE  ReadyStatus(tam.status)'
<1> DEFINE mem == cache["tamoss"]
           begun == beginRelease(mem)
<1>1. TamShape(tam) /\ TamShape(mem)
  BY Zenon DEF Lock
<1>2. \/ FinishWith(mem, blockedStatus(mem), FALSE)
      \/ FinishWith(mem, applyTamossStatusObservation(mem, updatePausedStatus), FALSE)
      \/ tam' = tam
      \/ patchTamossStatus(mem, begun)
  BY Zenon DEF StartPass
<1>3. CASE FinishWith(mem, blockedStatus(mem), FALSE)
  <2>1. StatusFields \subseteq DOMAIN blockedStatus(mem) /\ ReadyStatus(blockedStatus(mem))
    BY <1>1, BlockedFields, Zenon DEF ReadyStatus
  <2> QED
    BY <1>1, <1>3, <2>1, ReadyFinish, Zenon
<1>4. CASE FinishWith(mem, applyTamossStatusObservation(mem, updatePausedStatus), FALSE)
  <2>1. updatePausedStatus.ready = "False"
    BY Zenon DEF updatePausedStatus, Observation
  <2>2. LET new == applyTamossStatusObservation(mem, updatePausedStatus)
        IN  StatusFields \subseteq DOMAIN new /\ ReadyStatus(new)
    BY <1>1, <2>1, ObservedFields DEF ReadyStatus
  <2> QED
    BY <1>1, <1>4, <2>2, ReadyFinish, Zenon
<1>5. CASE tam' = tam
  BY <1>5, Zenon DEF ReadyStatus
<1>6. CASE patchTamossStatus(mem, begun)
  <2>1. CASE begun = mem.status
    BY <1>6, <2>1, Zenon DEF patchTamossStatus, ReadyStatus
  <2>2. CASE begun # mem.status
    <3>1. begun = [mem.status EXCEPT !.pending = mem.version, !.ready = "False"]
      BY <2>2, Zenon DEF beginRelease
    <3>2. StatusFields \subseteq DOMAIN begun /\ begun.ready = "False"
      BY <1>1, <3>1, Zenon DEF TamShape, StatusFields
    <3>3. tam' = [tam EXCEPT !.status = begun]
      BY <1>6, <2>2, Zenon DEF patchTamossStatus
    <3>4. tam'.status = begun
      BY <1>1, <3>2, <3>3, WrittenFields, Zenon
    <3> QED
      BY <3>2, <3>4, Zenon DEF ReadyStatus
  <2> QED
    BY <2>1, <2>2, Zenon
<1> QED
  BY <1>2, <1>3, <1>4, <1>5, <1>6, Zenon

LEMMA ReadyStop ==
    ASSUME Lock, ReadyStatus(tam.status), StopBeforeSchema \/ StopAfterSchema
    PROVE  ReadyStatus(tam.status)'
<1>1. TamShape(tam) /\ TamShape(pass.mem) /\ StopAt(gate)
  BY Zenon DEF Lock, PassFollows, StopBeforeSchema, StopAfterSchema
<1>2. CASE tam' = tam
  BY <1>2, Zenon DEF ReadyStatus
<1>3. CASE \E requeue :
             FinishWith(pass.mem, applyTamossStatusObservation(pass.mem, gateObservation(gate)), requeue)
  <2> DEFINE o == gateObservation(gate)
             new == applyTamossStatusObservation(pass.mem, o)
  <2>1. o.ready = "False"
    BY GateNotReady, Zenon
  <2> HIDE DEF o
  <2>2. StatusFields \subseteq DOMAIN new /\ new.ready = o.ready
    BY <1>1, ObservedFields, Zenon
  <2>3. PICK requeue : FinishWith(pass.mem, new, requeue)
    BY <1>3, Zenon DEF o
  <2> HIDE DEF new
  <2>4. ReadyStatus(new)
    BY <2>1, <2>2, Zenon DEF ReadyStatus
  <2> QED
    BY <1>1, <2>2, <2>3, <2>4, ReadyFinish, Zenon
<1> QED
  BY <1>1, <1>2, <1>3, Zenon DEF StopAt

\* Every other step leaves the status alone.
LEMMA StatusUntouched ==
    ASSUME Lock, [Next]_vars,
           ~(StartPass \/ StopBeforeSchema \/ StopAfterSchema \/ updateStatus)
    PROVE  tam'.status = tam.status
<1>1. CASE Users \/ ObstacleAppears \/ ObstacleGoes
  BY <1>1, LockUsers, Zenon
<1>2. CASE ~(Users \/ ObstacleAppears \/ ObstacleGoes)
  <2>1. tam' = tam
    BY <1>2, Zenon DEF Next, Controller, SchemaObserved, reconcileObsoleteSchemaJobs,
         reconcileStaleSchemaJob, acceptSchemaRetry, resetSchemaState,
         reconcileSucceededSchemaJob, reconcileFailedSchemaJob, launchSchemaJob,
         applyTamossDesiredObjects, pruneOwnedObjects, Cluster, StartPod, PodSucceeds,
         CollectPod, CollectJob, RolloutFinishes, Faults, PodFails, AbortPass, DeleteJob, Sync, vars
  <2> QED
    BY <2>1, Zenon
<1> QED
  BY <1>1, <1>2, Zenon

LEMMA ReadyStep ==
    ASSUME Covered, Lock, ReadyStatus(tam.status), [Next]_vars
    PROVE  ReadyStatus(tam.status)'
<1>1. CASE ~(StartPass \/ StopBeforeSchema \/ StopAfterSchema \/ updateStatus)
  <2>1. tam'.status = tam.status
    BY <1>1, StatusUntouched, Zenon
  <2> QED
    BY <2>1, Zenon DEF ReadyStatus
<1> QED
  BY <1>1, ReadyStart, ReadyStop, ReadyUpdate, Zenon

\* Under the same hypotheses Ready=True is reported only of a completed release:
\* the lock is free, nothing is degraded, and the database carries exactly the
\* schema of status.currentVersion.
THEOREM ReadyTheorem ==
    ASSUME {"state", "pod"} \cap Lagging = {} PROVE Spec => []ReadyMeansReleased
<1> DEFINE Inv == Released /\ ReadyStatus(tam.status)
<1>1. Init => Inv
  <2> SUFFICES ASSUME Init PROVE Inv
    BY Zenon
  <2>1. PICK v \in Releases : tam = NewTamoss(v)
    BY Zenon DEF Init
  <2>2. tam.status.ready = "Unknown"
    BY <2>1, Zenon DEF NewTamoss, NewStatus
  <2> QED
    BY <2>2, ReleasedInit, Zenon DEF ReadyStatus
<1>2. Inv /\ [Next]_vars => Inv'
  <2> SUFFICES ASSUME Inv, [Next]_vars PROVE Inv'
    BY Zenon
  <2>1. Released'
    BY ReleasedStep, Zenon
  <2>2. ReadyStatus(tam.status)'
    BY ReadyStep, Zenon DEF Released
  <2> QED
    BY <2>1, <2>2, Zenon
<1>3. Inv => ReadyMeansReleased
  <2> SUFFICES ASSUME Inv, tam.status.ready = "True" PROVE ReadyMeansReleased
    BY Zenon DEF ReadyMeansReleased
  <2>1. pending = NoVersion /\ current # NoVersion
    BY Zenon DEF ReadyStatus, pending, current
  <2>2. db = SchemaOf[current]
    BY <2>1, Zenon DEF Released, Stamped
  <2> QED
    BY <2>2, Zenon DEF ReadyMeansReleased, ReadyStatus, current
<1> HIDE DEF Inv
<1> QED
  BY <1>1, <1>2, <1>3, PTL DEF Spec

-----------------------------------------------------------------------------
(* Completing a release.                                                   *)

\* A pass that found the schema ready deploys its release, and nothing but a
\* later pass takes it away.
Rolled == pass.at \in {"prune", "report"} /\ pass.ready => deploy.release = pass.mem.version

LEMMA RolledStep == ASSUME Covered, Rolled, [Next]_vars PROVE Rolled'
<1>1. CASE pass' = NoPass
  <2>1. pass'.at = "idle"
    BY <1>1, NoPassIdle, Zenon
  <2> QED
    BY <2>1, Zenon DEF Rolled
<1>2. CASE pass' = pass /\ (deploy' = deploy \/ RolloutFinishes)
  <2>1. deploy'.release = deploy.release
    BY <1>2, Zenon DEF RolloutFinishes, Covered, Shapes
  <2> QED
    BY <1>2, <2>1, Zenon DEF Rolled
<1>3. CASE pass'.at \in {"schema", "reset", "apply"}
  BY <1>3, Zenon DEF Rolled
<1>4. CASE applyTamossDesiredObjects
  <2>1. /\ {"at", "mem", "ready"} \subseteq DOMAIN pass
        /\ pass' = [pass EXCEPT !.at = "prune"]
    BY <1>4, Zenon DEF applyTamossDesiredObjects, Covered, PassCovered
  <2>2. pass'.mem = pass.mem /\ pass'.ready = pass.ready
    BY <2>1, Zenon
  <2>3. pass.ready => deploy'.release = pass.mem.version
    BY <1>4, Zenon DEF applyTamossDesiredObjects, gateSchemaDependentWorkloads
  <2> QED
    BY <2>2, <2>3, Zenon DEF Rolled
<1>5. CASE pruneOwnedObjects
  <2>1. /\ {"at", "mem", "ready"} \subseteq DOMAIN pass /\ pass.at = "prune"
        /\ pass' = [pass EXCEPT !.at = "report"]
    BY <1>5, Zenon DEF pruneOwnedObjects, Covered, PassCovered
  <2>2. pass'.mem = pass.mem /\ pass'.ready = pass.ready
    BY <2>1, Zenon
  <2>3. pass.ready => deploy' = deploy
    <3>1. pass.ready => ~pruneLoadedList.deploy
      BY Zenon DEF pruneLoadedList, gateSchemaDependentWorkloads
    <3> QED
      BY <1>5, <3>1, Zenon DEF pruneOwnedObjects
  <2> QED
    BY <2>1, <2>2, <2>3, Zenon DEF Rolled
<1>6. CASE ~applyTamossDesiredObjects /\ ~pruneOwnedObjects
  <2>1. CASE Controller
    <3>1. \/ \E mem, new, q : FinishWith(mem, new, q)
          \/ pass' = NoPass
          \/ \E m : pass' = [at |-> "schema", mem |-> m]
          \/ \E m, st : pass' = [at |-> "reset", mem |-> m, state |-> st]
          \/ \E r, d, kj, ks, q : Conclude(r, d, kj, ks, q)
      <4>1. CASE StartPass
        BY <4>1, Zenon DEF StartPass
      <4>2. CASE StopBeforeSchema \/ StopAfterSchema \/ updateStatus
        BY <4>2, Zenon DEF StopBeforeSchema, StopAfterSchema, updateStatus, StopAt
      <4>3. CASE acceptSchemaRetry
        BY <4>3, Zenon DEF acceptSchemaRetry
      <4>4. CASE \/ SchemaObserved \/ reconcileObsoleteSchemaJobs \/ reconcileStaleSchemaJob
                 \/ resetSchemaState \/ reconcileSucceededSchemaJob
                 \/ reconcileFailedSchemaJob \/ launchSchemaJob
        BY <4>4, Zenon DEF SchemaObserved, reconcileObsoleteSchemaJobs, reconcileStaleSchemaJob,
           resetSchemaState, reconcileSucceededSchemaJob, reconcileFailedSchemaJob, launchSchemaJob
      <4> QED
        BY <1>6, <2>1, <4>1, <4>2, <4>3, <4>4, Zenon DEF Controller
    <3>2. ASSUME NEW m, pass' = [at |-> "schema", mem |-> m] PROVE Rolled'
      BY <1>3, <3>2, Zenon
    <3>3. ASSUME NEW m, NEW st, pass' = [at |-> "reset", mem |-> m, state |-> st] PROVE Rolled'
      BY <1>3, <3>3, Zenon
    <3>4. ASSUME NEW r, NEW d, NEW kj, NEW ks, NEW q, Conclude(r, d, kj, ks, q) PROVE Rolled'
      BY <1>3, <3>4, Zenon DEF Conclude
    <3>5. ASSUME NEW mem, NEW new, NEW q, FinishWith(mem, new, q) PROVE Rolled'
      BY <1>1, <3>5, Zenon DEF FinishWith
    <3> QED
      BY <1>1, <3>1, <3>2, <3>3, <3>4, <3>5, Zenon
  <2>2. CASE ~Controller
    <3>1. CASE RolloutFinishes
      BY <1>2, <3>1, Zenon DEF RolloutFinishes
    <3>2. CASE ~RolloutFinishes
      <4>1. pass' = NoPass \/ (pass' = pass /\ deploy' = deploy)
        BY <2>2, <3>2, Zenon DEF Next, Cluster, StartPod, PodSucceeds, CollectPod, CollectJob,
           Faults,
           PodFails, AbortPass, DeleteJob, Sync, vars, Users, SelectVersion, OverrideImage,
           TogglePaused, EditSpec, AnnotateRetry, ObstacleAppears, ObstacleGoes, SetGate
      <4> QED
        BY <1>1, <1>2, <4>1, Zenon
    <3> QED
      BY <3>1, <3>2, Zenon
  <2> QED
    BY <2>1, <2>2, Zenon
<1> QED
  BY <1>4, <1>5, <1>6, Zenon

\* With the Deployments read current too, status.currentVersion changes only to the
\* release of the lock, when its schema is stamped and its API and worker are
\* deployed and rolled out: updateStatus is the last step of an upgrade.
THEOREM CurrentTheorem ==
    ASSUME {"state", "pod", "deployment"} \cap Lagging = {} PROVE Spec => CurrentAdvancesLast
<1> DEFINE Inv == Released /\ Rolled
<1>0. {"state", "pod"} \cap Lagging = {}
  BY Zenon
<1>1. Init => Inv
  <2>1. Init => pass.at = "idle"
    BY NoPassIdle, Zenon DEF Init
  <2> QED
    BY <2>1, ReleasedInit, Zenon DEF Rolled
<1>2. Inv /\ [Next]_vars => Inv'
  <2> SUFFICES ASSUME Inv, [Next]_vars PROVE Inv'
    BY Zenon
  <2>1. Released'
    BY <1>0, ReleasedStep, Zenon
  <2>2. Rolled'
    BY RolledStep, Zenon DEF Released
  <2> QED
    BY <2>1, <2>2, Zenon
<1>3. Inv /\ [Next]_vars =>
         [tam'.status.current # tam.status.current =>
             /\ tam.status.pending = tam'.status.current
             /\ state.applied = SchemaOf[tam'.status.current]
             /\ deploy.release = tam'.status.current
             /\ deploy.rolled]_vars
  <2> SUFFICES ASSUME Inv, [Next]_vars, tam'.status.current # current
               PROVE  /\ pending = tam'.status.current
                      /\ state.applied = SchemaOf[tam'.status.current]
                      /\ deploy.release = tam'.status.current
                      /\ deploy.rolled
    BY Zenon DEF current, pending
  <2>1. Covered /\ Lock /\ Stamped /\ PassStamped
    BY Zenon DEF Released
  <2>2. updateStatus /\ Fresh /\ Completes
    BY <2>1, LockStep, Zenon DEF Keeps, Begins
  <2>3. /\ pass.at = "report" /\ pass.ready /\ pass.mem = tam /\ workloadRolloutsReady(tam)
        /\ tam'.status.current = tam.version
    BY <2>2, Zenon DEF Completes
  <2>4. UNCHANGED <<state, db>>
    BY <2>2, Zenon DEF updateStatus, world
  <2>5. state.applied = SchemaOf[tam.version]
    BY <2>1, <2>2, <2>4, StampCompletes, Zenon
  <2>6. pending = tam.version
    BY <2>1, <2>3, Zenon DEF Lock, PassFollows
  <2>7. deploy.release = tam.version
    BY <2>3, Zenon DEF Rolled
  <2>8. cache["deployment"] = deploy
    <3>1. "deployment" \in Kinds \ Lagging /\ Live["deployment"] = deploy
      BY Zenon DEF Kinds, Live
    <3> QED
      BY <2>2, <3>1, Zenon DEF Fresh
  <2>9. deploy.rolled
    BY <2>3, <2>8, Zenon DEF workloadRolloutsReady
  <2> QED
    BY <2>3, <2>5, <2>6, <2>7, <2>9, SMTT(20)
<1> HIDE DEF Inv
<1> QED
  BY <1>1, <1>2, <1>3, PTL DEF Spec, CurrentAdvancesLast

-----------------------------------------------------------------------------
(* Upgrade implements Release.                                             *)

\* For every catalogue and however stale the cached Tamoss, Jobs and Deployments
\* are, the reconciler keeps the promise of Release: upgrades one at a time along
\* the paths of the catalogue, the database moving only to the schema of the
\* upgrade under way, and a release reported only once the database carries it.
THEOREM RefinementTheorem ==
    ASSUME {"state", "pod"} \cap Lagging = {} PROVE Spec => ImplementsRelease
<1>1. Init => R!Init
  <2> SUFFICES ASSUME Init PROVE R!Init
    BY Zenon
  <2>1. PICK v \in Releases : tam = NewTamoss(v)
    BY Zenon DEF Init
  <2>2. tam.status.current = NoVersion /\ tam.status.pending = NoVersion
    BY <2>1, Zenon DEF NewTamoss, NewStatus
  <2> QED
    BY <2>2, Zenon DEF Init, R!Init, Schemas
<1>2. Released /\ [Next]_vars => [R!Next]_(R!vars)
  <2> SUFFICES ASSUME Released, [Next]_vars PROVE [R!Next]_(R!vars)
    BY Zenon
  <2>1. Covered /\ Lock /\ Stamped /\ PassStamped /\ Migrations
    BY Zenon DEF Released
  <2>2. CASE PodSucceeds \/ PodFails
    <3>1. tam' = tam
      BY <2>2, Zenon DEF PodSucceeds, PodFails
    <3>2. \/ db' = db
          \/ pending # NoVersion /\ db < SchemaOf[pending] /\ db' = SchemaOf[pending]
      BY <2>1, <2>2, PodOutcome, Zenon
    <3> QED
      BY <3>1, <3>2, Zenon DEF R!Next, R!Migrate, R!vars, pending
  <2>3. CASE ~(PodSucceeds \/ PodFails)
    <3>1. db' = db
      BY <2>3, ZenonT(40) DEF Next, Controller, StartPass, StopBeforeSchema, StopAfterSchema,
         updateStatus,
         SchemaObserved, reconcileObsoleteSchemaJobs, reconcileStaleSchemaJob, acceptSchemaRetry,
         resetSchemaState, reconcileSucceededSchemaJob, reconcileFailedSchemaJob, launchSchemaJob,
         applyTamossDesiredObjects, pruneOwnedObjects, Cluster, StartPod, CollectPod, CollectJob,
         RolloutFinishes, Faults, AbortPass, DeleteJob, Sync, vars, Users, SelectVersion,
         OverrideImage, TogglePaused, EditSpec, AnnotateRetry, ObstacleAppears, ObstacleGoes,
         SetGate, world
    <3>2. CASE Keeps
      BY <3>1, <3>2, Zenon DEF Keeps, R!vars, current, pending
    <3>3. CASE Begins
      <4>1. /\ tam.version \in Releases /\ pending = NoVersion /\ current # tam.version
            /\ current = NoVersion \/ current \in UpgradeFrom[tam.version]
            /\ tam'.status.pending = tam.version /\ tam'.status.current = current
        BY <3>3, Zenon DEF Begins, validateReleaseState, Select, current
      <4>2. R!Begin(tam.version)
        BY <3>1, <4>1, Zenon DEF R!Begin, current, pending
      <4> QED
        BY <4>1, <4>2, Zenon DEF R!Next
    <3>4. CASE updateStatus /\ Completes
      <4>1. UNCHANGED <<state, db>>
        BY <3>4, Zenon DEF updateStatus, world
      <4>2. db = SchemaOf[tam.version]
        BY <2>1, <3>4, <4>1, StampCompletes, Zenon
      <4>3. /\ pass.at = "report" /\ pass.mem = tam
            /\ tam'.status.current = tam.version /\ tam'.status.pending = NoVersion
        BY <3>4, Zenon DEF Completes
      <4>4. pending = tam.version \/ (pending = NoVersion /\ current = tam.version)
        BY <2>1, <4>3, Zenon DEF Lock, PassFollows
      <4>5. tam.version # NoVersion
        BY <2>1, <4>3, CatalogueAssumption, Zenon DEF Covered, PassCovered
      <4>6. CASE pending = tam.version
        BY <3>1, <4>2, <4>3, <4>5, <4>6, SMTT(20) DEF R!Next, R!Complete, pending
      <4>7. CASE pending = NoVersion /\ current = tam.version
        BY <3>1, <4>3, <4>7, Zenon DEF R!vars, current, pending
      <4> QED
        BY <4>4, <4>6, <4>7, Zenon
    <3> QED
      BY <2>1, <3>2, <3>3, <3>4, LockStep, SMTT(20)
  <2> QED
    BY <2>2, <2>3, Zenon
<1> QED
  BY <1>1, <1>2, ReleasedInvariant, PTL DEF Spec, ImplementsRelease, R!Spec

=============================================================================
