---------------------------- MODULE FlowProfile ----------------------------
(***************************************************************************)
(* The FlowProfile controller and its finaliser.  Several FlowProfiles may *)
(* claim the UUID of one TAMS Profile; the oldest claim that is not being  *)
(* deleted owns it.  The Profile itself, `row`, is written by the Pods of  *)
(* two Jobs per resource, which run `tamoss-profile ensure` and            *)
(* `tamoss-profile delete-if-unused` against the database.                 *)
(*                                                                         *)
(* A pass is a sequence of steps, one per effect on the API server.  Reads *)
(* go to `cache`, which trails the API server for the kinds in Lagging.    *)
(***************************************************************************)
EXTENDS Integers

CONSTANTS
    Profiles,    \* names of the FlowProfiles that claim one UUID
    Rank,        \* [Profiles -> Nat]: the order of their names
    Docs,        \* documents a spec can have
    BadDocs,     \* the ones resolveFlowProfile rejects
    RejectedDocs,\* the ones only `tamoss-profile ensure` rejects
    Ties,        \* two resources may have the same creation time
    Lagging,     \* kinds whose cached copy may trail the API server
    MaxUid,      \* resources created, over all names
    MaxGen,      \* generations of one resource
    MaxVersion,  \* releases of the Tamoss
    MaxTamoss,   \* Tamoss objects created under the name
    MaxDisturbances \* user operations and faults in one behaviour

ASSUME RankAssumption == Rank \in [Profiles -> Nat]
ASSUME DocsAssumption ==
    0 \notin Docs /\ BadDocs \subseteq Docs /\ RejectedDocs \subseteq Docs
ASSUME CachesAssumption == Ties \in BOOLEAN /\ Lagging \subseteq {"prof", "job", "state"}
ASSUME BoundsAssumption ==
    MaxUid \in Nat /\ MaxGen \in Nat /\ MaxVersion \in Nat /\ MaxTamoss \in Nat
    /\ MaxDisturbances \in Nat

VARIABLES
    prof,     \* the FlowProfile objects
    job,      \* their register and delete Jobs
    state,    \* their state ConfigMaps
    document, \* their document ConfigMaps: a document, 0 for none
    cache,    \* what the informers hold of prof, job and state
    row,      \* the TAMS Profile: its document, 0 for none
    used,     \* a Flow references the TAMS Profile
    tamoss,   \* the Tamoss: its release and the one its schema-state records
    pass,     \* the controller's worker
    dirty,    \* FlowProfiles in the work queue
    born,     \* resources created so far
    disturbed,\* user operations and faults so far
    bereft,   \* live claims whose row went with another claim or the Tamoss (history)
    recorded  \* resources with a recorded registration of this row (history)

world == <<row, used, tamoss>>
history == <<bereft, recorded>>
vars == <<prof, job, state, document, cache, world, pass, dirty, born,
          disturbed, history>>

NoProf == [exists |-> FALSE, uid |-> 0, time |-> 0, gen |-> 0, doc |-> 0,
           deleting |-> FALSE, fin |-> FALSE, phase |-> "none", ogen |-> 0]
NoJob == [phase |-> "none", code |-> 0, doc |-> 0, version |-> 0, owner |-> 0,
          term |-> FALSE]
NoState == [owner |-> 0, doc |-> 0]

\* flowProfileExitInvalid, flowProfileExitConflict and flowProfileExitInUse;
\* any other failure is a crash, or a Pod that is gone before it is read.
ExitInvalid == 2
ExitConflict == 3
ExitInUse == 4
Crashed == 1

Idle == [at |-> "idle", p |-> "none", s |-> NoProf, out |-> "none"]

live == [prof |-> prof, job |-> job, state |-> state]

-----------------------------------------------------------------------------
(* Watches.                                                                *)

\* primaryResourcePredicate: status writes do not enqueue.
primaryResource(s) == <<s.exists, s.uid, s.gen, s.deleting, s.fin>>

\* A FlowProfile is enqueued for its own changes, for those of the objects it
\* owns and for any change of the Tamoss, never for those of a rival claim.
Events(p) ==
    \/ primaryResource(cache.prof[p]) # primaryResource(cache'.prof[p])
    \/ cache.job[p] # cache'.job[p]
    \/ cache.state[p] # cache'.state[p]
    \/ document[p] # document'[p]
    \/ tamoss # tamoss' /\ cache'.prof[p].exists

Enqueue(taken, again) ==
    dirty' = (dirty \ taken) \cup again \cup {p \in Profiles : Events(p)}

Observe ==
    cache' = [prof |-> IF "prof" \in Lagging THEN cache.prof ELSE prof',
              job |-> IF "job" \in Lagging THEN cache.job ELSE job',
              state |-> IF "state" \in Lagging THEN cache.state ELSE state']

Then(taken, again) == Observe /\ Enqueue(taken, again)
Elsewhere == Then({}, {})

Sync(k) ==
    /\ cache[k] # live[k]
    /\ cache' = [cache EXCEPT ![k] = live[k]]
    /\ UNCHANGED <<prof, job, state, document, world, pass, born, disturbed, history>>
    /\ Enqueue({}, {})

-----------------------------------------------------------------------------
(* What the code computes from what it reads.                              *)

resolveFlowProfile(doc) == doc \notin BadDocs

flowProfileSchemaReady(version) == tamoss.schema = version

Older(a, b) ==
    LET s == cache.prof[a]
        t == cache.prof[b]
    IN  s.time < t.time \/ (s.time = t.time /\ Rank[a] < Rank[b])

\* A claim counts while its resource is not being deleted; the resource of the
\* pass always counts.
flowProfileIDCandidates_MutantSelf(p) == {q \in {p} : cache.prof[q].exists}

flowProfileIDCandidates(p) ==
    {q \in Profiles : cache.prof[q].exists /\ (~cache.prof[q].deleting \/ q = p)}

flowProfileIDWinner(p) ==
    LET claims == flowProfileIDCandidates(p)
    IN  IF claims = {} THEN p
        ELSE CHOOSE q \in claims : \A o \in claims \ {q} : Older(q, o)

flowProfileRegistered_MutantAny(p, s) == cache.state[p].doc # 0

flowProfileRegistered(p, s) == cache.state[p].doc = s.doc

jobSucceeded(j) == j.phase = "succeeded"
jobFailed(j) == j.phase = "failed"

flowProfileJob(s, version) ==
    [phase |-> "active", code |-> 0, doc |-> s.doc, version |-> version,
     owner |-> s.uid, term |-> FALSE]

\* The Job hash covers the document and the runtime image of the release.
flowProfileJobInputHash(j) == <<j.doc, j.version>>

flowProfileJobDrifted(j, desired) ==
    flowProfileJobInputHash(j) # flowProfileJobInputHash(desired)

\* Foreground deletion: the Job stays until its Pod has stopped.
Terminated(j) == IF j = NoJob THEN j ELSE [j EXCEPT !.term = TRUE]

\* Applying a Job that exists changes nothing when it is the same Job, and is
\* refused when its template or its controller differs.
Refused(p, kind, desired) ==
    /\ job[p][kind] # NoJob
    /\ \/ flowProfileJobDrifted(job[p][kind], desired)
       \/ job[p][kind].owner # desired.owner

Applied(p, kind, desired) ==
    IF job[p][kind] = NoJob THEN [job EXCEPT ![p][kind] = desired] ELSE job

-----------------------------------------------------------------------------
(* The worker.                                                             *)

In(stage) == pass.at = stage

\* The pass ends by writing the outcome to status.
Report(p, s, out) ==
    pass' = [at |-> "status", p |-> p, s |-> s, out |-> out]

\* An API error, or a result that asks for it, puts the request back.
Retry(p) == pass' = Idle /\ Then({}, {p})

\* Nothing to do for an object that is gone or whose finalizer is off.
Skip(p) ==
    /\ In("idle") /\ p \in dirty
    /\ ~cache.prof[p].exists \/ (cache.prof[p].deleting /\ ~cache.prof[p].fin)
    /\ UNCHANGED <<prof, job, state, document, world, pass, born, disturbed, history>>
    /\ Then({p}, {})

\* The finalizer is put on with an update that carries the resource version.
AddFinalizer(p) ==
    LET s == cache.prof[p]
    IN  /\ In("idle") /\ p \in dirty
        /\ s.exists /\ ~s.deleting /\ ~s.fin
        /\ prof' = IF prof[p] = s THEN [prof EXCEPT ![p].fin = TRUE] ELSE prof
        /\ UNCHANGED <<job, state, document, world, pass, born, disturbed, history>>
        /\ Then({p}, IF prof[p] = s THEN {} ELSE {p})

\* Reconcile of a resource that is not deleted, up to its first effect.
Verdict(p, s) ==
    CASE ~resolveFlowProfile(s.doc) -> "Degraded"
      [] resolveFlowProfile(s.doc)
            /\ (~tamoss.exists \/ ~flowProfileSchemaReady(tamoss.version)) -> "Pending"
      [] resolveFlowProfile(s.doc) /\ tamoss.exists
            /\ flowProfileSchemaReady(tamoss.version)
            /\ flowProfileIDWinner(p) # p -> "duplicate"
      [] OTHER -> IF flowProfileRegistered(p, s) THEN "Ready" ELSE "register"

Working(p, s) == In("idle") /\ p \in dirty /\ s.exists /\ s.fin

\* Passes that have nothing to do but to report.
Judge(p) ==
    LET s == cache.prof[p]
    IN  /\ Working(p, s) /\ ~s.deleting
        /\ Verdict(p, s) \in {"Degraded", "Pending", "Ready"}
        /\ Report(p, s, Verdict(p, s))
        /\ UNCHANGED <<prof, job, state, document, world, born, disturbed, history>>
        /\ Then({p}, {})

\* clearFlowProfileRegistrationState: a duplicate gives up its record and its
\* register Job, then reports that another resource owns the UUID.
Supersede(p) ==
    LET s == cache.prof[p]
    IN  /\ Working(p, s) /\ ~s.deleting /\ Verdict(p, s) = "duplicate"
        /\ state' = [state EXCEPT ![p] = NoState]
        /\ job' = [job EXCEPT ![p].reg = Terminated(@)]
        /\ recorded' = recorded \ {s.uid}
        /\ Report(p, s, "Degraded")
        /\ UNCHANGED <<prof, document, world, born, disturbed, bereft>>
        /\ Then({p}, {})

\* A rejection by the application is final; any other failure is retried.
terminalFailure(j) == j.code \in {ExitInvalid, ExitConflict}

\* A step of the pass that registers p: the document is applied, then the
\* register Job is launched, replaced, retried, waited for or recorded.  Only
\* the Job's Pod reads the document, so that the two writes are one step.
Registering(p) ==
    /\ Working(p, cache.prof[p]) /\ ~cache.prof[p].deleting
    /\ Verdict(p, cache.prof[p]) = "register"
    /\ document' = [document EXCEPT ![p] = cache.prof[p].doc]
    /\ UNCHANGED <<prof, world, born, disturbed, bereft>>

LaunchRegister(p) ==
    LET s == cache.prof[p]
        desired == flowProfileJob(s, tamoss.version)
    IN  /\ Registering(p) /\ cache.job[p].reg = NoJob
        /\ job' = Applied(p, "reg", desired)
        /\ UNCHANGED <<state, recorded>>
        /\ IF Refused(p, "reg", desired) THEN Retry(p)
           ELSE Report(p, s, "Progressing") /\ Then({p}, {})

ObserveRegister(p) ==
    LET s == cache.prof[p]
        j == cache.job[p].reg
        drifted == flowProfileJobDrifted(j, flowProfileJob(s, tamoss.version))
        retry == jobFailed(j) /\ ~terminalFailure(j)
    IN  /\ Registering(p) /\ j # NoJob
        /\ \/ /\ drifted \/ retry
              /\ job' = [job EXCEPT ![p].reg = Terminated(@)]
              /\ Report(p, s, "Progressing")
              /\ UNCHANGED <<state, recorded>>
           \/ /\ ~drifted /\ ~retry /\ ~jobSucceeded(j)
              /\ Report(p, s, IF jobFailed(j) THEN "Degraded" ELSE "Progressing")
              /\ UNCHANGED <<job, state, recorded>>
           \/ /\ ~drifted /\ jobSucceeded(j)
              /\ state' = [state EXCEPT ![p] = [owner |-> s.uid, doc |-> s.doc]]
              /\ recorded' = recorded \cup {s.uid}
              /\ Report(p, s, "Ready")
              /\ UNCHANGED job
        /\ Then({p}, {})

\* The phases updateFlowProfileStatus is asked to requeue after.
Requeues(out) == out \in {"Pending", "Progressing", "Deleting", "Blocked"}

\* updateFlowProfileStatus carries the resource version the pass has read.
updateFlowProfileStatus ==
    /\ In("status")
    /\ pass' = Idle
    /\ UNCHANGED <<job, state, document, world, born, disturbed, history>>
    /\ \/ /\ prof[pass.p] = pass.s
          /\ prof' = [prof EXCEPT ![pass.p].phase = pass.out,
                                  ![pass.p].ogen = pass.s.gen]
          /\ Then({}, IF Requeues(pass.out) THEN {pass.p} ELSE {})
       \/ /\ prof[pass.p] # pass.s
          /\ UNCHANGED prof
          /\ Then({}, {pass.p})

-----------------------------------------------------------------------------
(* finaliseFlowProfile.                                                    *)

\* While the target is live, the register Job of this very resource decides
\* whether there is anything to undo that no state records.
ownRegistration(p, s) ==
    IF cache.job[p].reg.owner = s.uid THEN cache.job[p].reg ELSE NoJob

registeredForDeletion_MutantStatus(p, s) == s.phase = "Ready"

registeredForDeletion(p, s) ==
    flowProfileRegistered(p, s) \/ jobSucceeded(ownRegistration(p, s))

\* What finaliseFlowProfile decides from what it reads.
FinalStage(p, s) ==
    LET target == tamoss.exists /\ ~tamoss.deleting
    IN  IF ~resolveFlowProfile(s.doc) THEN "release"
        ELSE IF flowProfileIDWinner(p) # p THEN "children"
        ELSE IF \E q \in flowProfileIDCandidates(p) : q # p THEN "blocked"
        ELSE IF ~target THEN "children"
        ELSE IF /\ ~flowProfileRegistered(p, s)
                /\ ownRegistration(p, s).phase = "active" THEN "wait"
        ELSE IF ~registeredForDeletion(p, s) THEN "children"
        ELSE IF ~flowProfileSchemaReady(tamoss.version) THEN "blocked"
        ELSE IF cache.job[p].del = NoJob THEN "launch"
        ELSE IF flowProfileJobDrifted(cache.job[p].del, flowProfileJob(s, tamoss.version))
                \/ jobFailed(cache.job[p].del) THEN "replace"
        ELSE IF jobSucceeded(cache.job[p].del) THEN "children" ELSE "wait"

Finalising(p, stages) ==
    /\ Working(p, cache.prof[p]) /\ cache.prof[p].deleting
    /\ FinalStage(p, cache.prof[p]) \in stages

\* A live rival claim or an unfinished migration blocks the deletion; a running
\* Job is polled.
Hold(p) ==
    /\ Finalising(p, {"blocked", "wait"})
    /\ UNCHANGED <<prof, job, state, document, world, born, disturbed, history>>
    /\ IF FinalStage(p, cache.prof[p]) = "wait" THEN Retry(p)
       ELSE Report(p, cache.prof[p], "Blocked") /\ Then({p}, {})

LaunchDelete(p) ==
    LET s == cache.prof[p]
        desired == flowProfileJob(s, tamoss.version)
    IN  /\ Finalising(p, {"launch"})
        /\ job' = Applied(p, "del", desired)
        /\ UNCHANGED <<prof, state, document, world, born, disturbed, history>>
        /\ IF Refused(p, "del", desired) THEN Retry(p)
           ELSE Report(p, s, "Deleting") /\ Then({p}, {})

\* A delete Job of other inputs is replaced, a failed one retried; one that
\* found the Profile in use also blocks the deletion for a while.
ReplaceDelete(p) ==
    LET s == cache.prof[p]
        j == cache.job[p].del
        drifted == flowProfileJobDrifted(j, flowProfileJob(s, tamoss.version))
    IN  /\ Finalising(p, {"replace"})
        /\ job' = [job EXCEPT ![p].del = Terminated(@)]
        /\ UNCHANGED <<prof, state, document, world, born, disturbed, history>>
        /\ IF ~drifted /\ j.code = ExitInUse
           THEN Report(p, s, "Blocked") /\ Then({p}, {})
           ELSE Retry(p)

\* deleteFlowProfileChildren: the ConfigMaps go by name, the Jobs as far as
\* they are listed.  A resource that never resolved has none.
deleteFlowProfileChildren(p) ==
    LET listed(kind) == cache.job[p][kind] # NoJob
        keep == FinalStage(p, cache.prof[p]) = "release"
    IN  /\ Finalising(p, {"children", "release"})
        /\ document' = IF keep THEN document ELSE [document EXCEPT ![p] = 0]
        /\ state' = IF keep THEN state ELSE [state EXCEPT ![p] = NoState]
        /\ job' = IF keep THEN job ELSE [job EXCEPT ![p] =
                    [reg |-> IF listed("reg") THEN Terminated(@.reg) ELSE @.reg,
                     del |-> IF listed("del") THEN Terminated(@.del) ELSE @.del]]
        /\ pass' = [Idle EXCEPT !.at = "release", !.p = p]
        /\ UNCHANGED <<prof, world, born, disturbed, history>>
        /\ Then({p}, {})

\* A merge patch without a resource version; the object goes with its last
\* finalizer.
removeFlowProfileFinalizer ==
    LET p == pass.p
    IN  /\ In("release")
        /\ prof' = IF prof[p].deleting THEN [prof EXCEPT ![p] = NoProf]
                   ELSE IF prof[p].exists THEN [prof EXCEPT ![p].fin = FALSE]
                   ELSE prof
        /\ UNCHANGED <<job, state, document, world, born, disturbed, history>>
        /\ IF prof[p].exists THEN pass' = Idle /\ Then({}, {}) ELSE Retry(p)

-----------------------------------------------------------------------------
(* The Jobs' Pods, the garbage collector and the application.              *)

Finish(p, kind, phase, code) ==
    job' = [job EXCEPT ![p][kind].phase = phase, ![p][kind].code = code]

Running(p, kind) == job[p][kind].phase = "active" /\ tamoss.exists

\* tamoss-profile ensure: creates the Profile or adopts an identical one, and
\* replaces none.  It reads the document that is mounted when its Pod starts.
ensure(doc) == IF row = 0 \/ row = doc THEN {doc} ELSE {}

RunRegister(p) ==
    LET doc == document[p]
    IN  /\ Running(p, "reg") /\ doc # 0
        /\ IF doc \in RejectedDocs
           THEN Finish(p, "reg", "failed", ExitInvalid) /\ UNCHANGED row
           ELSE IF ensure(doc) = {}
           THEN Finish(p, "reg", "failed", ExitConflict) /\ UNCHANGED row
           ELSE Finish(p, "reg", "succeeded", 0) /\ row' \in ensure(doc)
        /\ bereft' = IF row' = doc THEN bereft \ {job[p].reg.owner} ELSE bereft
        /\ recorded' = IF row = row' THEN recorded ELSE recorded \cap {job[p].reg.owner}
        /\ UNCHANGED <<prof, state, document, used, tamoss, pass, born, disturbed>>
        /\ Elsewhere

LiveClaims == {prof[q].uid : q \in {q \in Profiles : prof[q].exists /\ ~prof[q].deleting}}

\* tamoss-profile delete-if-unused: a Profile a Flow references stays.
RunDelete(p) ==
    /\ Running(p, "del")
    /\ IF row # 0 /\ used
       THEN Finish(p, "del", "failed", ExitInUse) /\ UNCHANGED <<row, bereft>>
       ELSE /\ Finish(p, "del", "succeeded", 0) /\ row' = 0
            /\ bereft' = bereft \cup LiveClaims
    /\ UNCHANGED <<prof, state, document, used, tamoss, pass, born, disturbed, recorded>>
    /\ Elsewhere

\* The Pod crashes, or its Job runs out of its deadline because the database
\* or the mounted document is gone.
JobFail(p, kind) ==
    LET starved == ~tamoss.exists \/ (kind = "reg" /\ document[p] = 0)
    IN  /\ job[p][kind].phase = "active"
        /\ starved \/ disturbed < MaxDisturbances
        /\ disturbed' = IF starved THEN disturbed ELSE disturbed + 1
        /\ Finish(p, kind, "failed", Crashed)
        /\ UNCHANGED <<prof, state, document, world, pass, born, history>>
        /\ Elsewhere

\* A terminating Job goes once its Pod has stopped.
JobGone(p, kind) ==
    /\ job[p][kind].term
    /\ job' = [job EXCEPT ![p][kind] = NoJob]
    /\ UNCHANGED <<prof, state, document, world, pass, born, disturbed, history>>
    /\ Elsewhere

\* The garbage collector removes what the gone resource still owned.
Collect(p) ==
    LET orphan(j) == j.owner # 0 /\ j.owner # prof[p].uid
    IN  /\ orphan(job[p].reg) \/ orphan(job[p].del) \/ orphan(state[p])
           \/ (~prof[p].exists /\ document[p] # 0)
        /\ job' = [job EXCEPT ![p] =
                    [reg |-> IF orphan(@.reg) THEN NoJob ELSE @.reg,
                     del |-> IF orphan(@.del) THEN NoJob ELSE @.del]]
        /\ state' = IF orphan(state[p]) THEN [state EXCEPT ![p] = NoState] ELSE state
        /\ document' = IF prof[p].exists THEN document
                       ELSE [document EXCEPT ![p] = 0]
        /\ UNCHANGED <<prof, world, pass, born, disturbed, history>>
        /\ Elsewhere

LinkFlow ==
    /\ row # 0 /\ ~used /\ disturbed < MaxDisturbances
    /\ used' = TRUE /\ disturbed' = disturbed + 1
    /\ UNCHANGED <<prof, job, state, document, row, tamoss, pass, born, history>>
    /\ Elsewhere

UnlinkFlow ==
    /\ used /\ used' = FALSE
    /\ UNCHANGED <<prof, job, state, document, row, tamoss, pass, born, disturbed, history>>
    /\ Elsewhere

-----------------------------------------------------------------------------
(* Users, the Tamoss and faults.                                           *)

\* A name is taken again once its old objects are gone from the API server and
\* from the caches.
Vacant(p) ==
    /\ ~prof[p].exists /\ cache.prof[p] = NoProf
    /\ job[p] = [reg |-> NoJob, del |-> NoJob] /\ cache.job[p] = job[p]
    /\ state[p] = NoState /\ cache.state[p] = NoState
    /\ document[p] = 0

CreateProfile(p, doc) ==
    /\ Vacant(p) /\ born < MaxUid
    /\ born' = born + 1
    /\ \E time \in {born + 1} \cup (IF Ties /\ born > 0 THEN {born} ELSE {}) :
            prof' = [prof EXCEPT ![p] = [NoProf EXCEPT
                        !.exists = TRUE, !.uid = born + 1, !.time = time,
                        !.gen = 1, !.doc = doc]]
    /\ UNCHANGED <<job, state, document, world, pass, disturbed, history>>
    /\ Elsewhere

\* The admission rules hold id, tamossRef, label and description constant, not
\* flowMetadata or tags.
EditProfile(p, doc) ==
    /\ prof[p].exists /\ prof[p].gen < MaxGen /\ prof[p].doc # doc
    /\ disturbed < MaxDisturbances /\ disturbed' = disturbed + 1
    /\ prof' = [prof EXCEPT ![p].doc = doc, ![p].gen = @ + 1]
    /\ UNCHANGED <<job, state, document, world, pass, born, history>>
    /\ Elsewhere

DeleteProfile(p) ==
    /\ prof[p].exists /\ ~prof[p].deleting
    /\ disturbed < MaxDisturbances /\ disturbed' = disturbed + 1
    /\ prof' = IF prof[p].fin THEN [prof EXCEPT ![p].deleting = TRUE]
                              ELSE [prof EXCEPT ![p] = NoProf]
    /\ UNCHANGED <<job, state, document, world, pass, born, history>>
    /\ Elsewhere

Upgrade ==
    /\ tamoss.exists /\ ~tamoss.deleting /\ tamoss.version < MaxVersion
    /\ disturbed < MaxDisturbances /\ disturbed' = disturbed + 1
    /\ tamoss' = [tamoss EXCEPT !.version = @ + 1]
    /\ UNCHANGED <<prof, job, state, document, row, used, pass, born, history>>
    /\ Elsewhere

SchemaReady ==
    /\ tamoss.exists /\ ~tamoss.deleting /\ tamoss.schema # tamoss.version
    /\ tamoss' = [tamoss EXCEPT !.schema = tamoss.version]
    /\ UNCHANGED <<prof, job, state, document, row, used, pass, born, disturbed, history>>
    /\ Elsewhere

DeleteTamoss ==
    /\ tamoss.exists /\ ~tamoss.deleting
    /\ disturbed < MaxDisturbances /\ disturbed' = disturbed + 1
    /\ tamoss' = [tamoss EXCEPT !.deleting = TRUE]
    /\ UNCHANGED <<prof, job, state, document, row, used, pass, born, history>>
    /\ Elsewhere

\* The database goes with the Tamoss.
TamossGone ==
    /\ tamoss.deleting
    /\ tamoss' = [tamoss EXCEPT !.exists = FALSE, !.deleting = FALSE, !.schema = 0]
    /\ row' = 0 /\ used' = FALSE
    /\ bereft' = bereft \cup LiveClaims
    /\ UNCHANGED <<prof, job, state, document, pass, born, disturbed, recorded>>
    /\ Elsewhere

CreateTamoss ==
    /\ ~tamoss.exists /\ tamoss.uid < MaxTamoss
    /\ tamoss' = [tamoss EXCEPT !.exists = TRUE, !.uid = @ + 1]
    /\ UNCHANGED <<prof, job, state, document, row, used, pass, born, disturbed, history>>
    /\ Elsewhere

\* The operator restarts: the pass is lost and every resource is listed again.
Crash ==
    /\ ~In("idle") /\ disturbed < MaxDisturbances
    /\ disturbed' = disturbed + 1
    /\ pass' = Idle
    /\ UNCHANGED <<prof, job, state, document, world, born, history>>
    /\ Then({}, Profiles)

-----------------------------------------------------------------------------
Init ==
    /\ prof = [p \in Profiles |-> NoProf]
    /\ job = [p \in Profiles |-> [reg |-> NoJob, del |-> NoJob]]
    /\ state = [p \in Profiles |-> NoState]
    /\ document = [p \in Profiles |-> 0]
    /\ cache = live
    /\ row = 0 /\ used = FALSE
    /\ tamoss = [exists |-> TRUE, deleting |-> FALSE, uid |-> 1, version |-> 1,
                 schema |-> 1]
    /\ pass = Idle /\ dirty = {} /\ born = 0 /\ disturbed = 0
    /\ bereft = {} /\ recorded = {}

Serve(p) ==
    \/ Skip(p) \/ AddFinalizer(p) \/ Judge(p) \/ Supersede(p)
    \/ LaunchRegister(p) \/ ObserveRegister(p)
    \/ Hold(p) \/ LaunchDelete(p) \/ ReplaceDelete(p) \/ deleteFlowProfileChildren(p)

Worker ==
    \/ \E p \in Profiles : Serve(p)
    \/ updateFlowProfileStatus \/ removeFlowProfileFinalizer

JobKinds == {"reg", "del"}

Cluster ==
    \/ \E p \in Profiles : RunRegister(p) \/ RunDelete(p) \/ Collect(p)
    \/ \E p \in Profiles, kind \in JobKinds : JobGone(p, kind)
    \/ SchemaReady

Environment ==
    \/ \E p \in Profiles : DeleteProfile(p)
    \/ \E p \in Profiles, doc \in Docs : CreateProfile(p, doc) \/ EditProfile(p, doc)
    \/ \E p \in Profiles, kind \in JobKinds : JobFail(p, kind)
    \/ LinkFlow \/ UnlinkFlow \/ Upgrade \/ DeleteTamoss \/ TamossGone
    \/ CreateTamoss \/ Crash

Next == Worker \/ Cluster \/ Environment \/ \E k \in Lagging : Sync(k)

Spec == Init /\ [][Next]_vars

\* A request in the queue is eventually taken although the worker is shared,
\* and a pass runs to its end; the Jobs' Pods, the garbage collector and the
\* schema migration make progress.  Users owe nothing.
Starved(p, kind) ==
    (~tamoss.exists \/ (kind = "reg" /\ document[p] = 0)) /\ JobFail(p, kind)

Fairness ==
    /\ WF_vars(updateFlowProfileStatus) /\ WF_vars(removeFlowProfileFinalizer)
    /\ \A p \in Profiles : /\ SF_vars(Serve(p))
                           /\ WF_vars(RunRegister(p)) /\ WF_vars(RunDelete(p))
                           /\ WF_vars(Collect(p))
    /\ \A p \in Profiles, kind \in JobKinds :
            WF_vars(JobGone(p, kind)) /\ WF_vars(Starved(p, kind))
    /\ \A k \in Lagging : WF_vars(Sync(k))
    /\ WF_vars(SchemaReady) /\ WF_vars(TamossGone)

FairSpec == Spec /\ Fairness

-----------------------------------------------------------------------------
(* Properties.                                                             *)

ProfType ==
    [exists : BOOLEAN, uid : 0..MaxUid, time : 0..MaxUid, gen : 0..MaxGen,
     doc : Docs \cup {0}, deleting : BOOLEAN, fin : BOOLEAN,
     phase : {"none", "Pending", "Progressing", "Ready", "Degraded",
              "Deleting", "Blocked"},
     ogen : 0..MaxGen]
JobType ==
    [phase : {"none", "active", "succeeded", "failed"},
     code : {0, Crashed, ExitInvalid, ExitConflict, ExitInUse},
     doc : Docs \cup {0}, version : 0..MaxVersion, owner : 0..MaxUid,
     term : BOOLEAN]
Accepted == Docs \ (BadDocs \cup RejectedDocs)
StateType == [owner : 0..MaxUid, doc : Accepted \cup {0}]

\* The types, and what Kubernetes and the controller rely on: a deleted object
\* stays only for its finalizer, and no document that fails resolveFlowProfile
\* or `tamoss-profile ensure` is ever a TAMS Profile or recorded as one.
TypeOK ==
    /\ prof \in [Profiles -> ProfType]
    /\ job \in [Profiles -> [reg : JobType, del : JobType]]
    /\ state \in [Profiles -> StateType]
    /\ document \in [Profiles -> Docs \cup {0}]
    /\ row \in Accepted \cup {0}
    /\ used \in BOOLEAN
    /\ dirty \subseteq Profiles
    /\ disturbed \in 0..MaxDisturbances
    /\ \A p \in Profiles : prof[p].deleting => prof[p].exists /\ prof[p].fin

Claims(p) == prof[p].exists /\ ~prof[p].deleting
ReportsReady(p) == Claims(p) /\ prof[p].phase = "Ready" /\ prof[p].ogen = prof[p].gen

\* flowProfileReady is true only while the TAMS Profile exists with exactly the
\* document of the spec ("Ready=True means that the exact desired definition
\* has been created or adopted"), unless the delete Job of an earlier claim
\* removed it afterwards or the database went with its Tamoss.
ReadyIsRegistered ==
    \A p \in Profiles :
        ReportsReady(p) /\ prof[p].uid \notin bereft /\ tamoss.exists
            => row = prof[p].doc

\* Of several resources that claim one UUID at most one is Ready: the others
\* lose to it in flowProfileIDWinner and report DuplicateProfileID.
OneOwner ==
    \A p, q \in Profiles : ReportsReady(p) /\ ReportsReady(q) => p = q

\* A delete Job removes the Profile only for a claim older than every live one:
\* deleting a losing duplicate never touches the shared Profile.
OnlyOwnerDeletes ==
    [][row # 0 /\ row' = 0 /\ tamoss' = tamoss =>
        \E p \in Profiles :
            /\ job[p].del.phase = "active"
            /\ \A q \in Profiles : Claims(q) => job[p].del.owner < prof[q].uid]_vars

\* finaliseFlowProfile releases the last claim, never edited, whose registration
\* it had recorded only after the Profile is gone from the database of a live Tamoss.
UndoneBeforeRelease ==
    [][\A p \in Profiles :
        (/\ prof[p].exists /\ ~prof'[p].exists /\ prof[p].uid \in recorded
         /\ prof[p].gen = 1 /\ \A q \in Profiles \ {p} : ~prof[q].exists
         /\ tamoss.exists /\ ~tamoss.deleting)
            => row = 0]_vars

\* While another resource is Ready with the Profile, no delete Job removes it
\* ("preventing one Kubernetes owner from removing another owner's Profile").
SharedRowKept ==
    [][row # 0 /\ row' = 0 /\ tamoss' = tamoss =>
        \A q \in Profiles : ~ReportsReady(q)]_vars

\* Nothing is left to do for p: a deleted resource is gone unless a Flow, a
\* rival claim or the schema holds it back, and a live one has a verdict.
Settled(p) ==
    \/ ~prof[p].exists
    \/ prof[p].deleting /\ (used \/ \E q \in Profiles \ {p} : Claims(q))
    \/ Claims(p) /\ prof[p].phase \in {"Ready", "Degraded"}
    \/ Claims(p) /\ ~tamoss.exists /\ prof[p].phase = "Pending"

\* Every resource keeps coming to rest: no lost event or missing requeue leaves
\* it Pending or Progressing, or terminating with nothing in its way.
EventuallySettled == \A p \in Profiles : []<>Settled(p)

=============================================================================
