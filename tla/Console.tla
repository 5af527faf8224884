------------------------------ MODULE Console ------------------------------
(***************************************************************************)
(* The runtime view of the instance console (operator/internal/consoleapi, *)
(* snapshot.go, monitor.go and the event stream of server.go).             *)
(*                                                                         *)
(* A Snapshotter reads the instance and the objects it owns from informer  *)
(* caches, and the IngestRuns its Jobs refer to by live GETs with a small  *)
(* validated cache in between.  A Monitor refreshes one latest snapshot on *)
(* a ticker and hands every change to the subscribed event streams through *)
(* channels of capacity one.                                               *)
(*                                                                         *)
(* Names are reused: the instance and every run name have incarnations,    *)
(* numbered from 1, and an owner reference names one incarnation.  A       *)
(* Deployment stands for the chain Deployment, ReplicaSet, Pod below it.   *)
(* Jobs are the ones that carry this instance's label; the operator gives  *)
(* it to the Jobs of exactly the runs whose tamossRef is this instance.    *)
(***************************************************************************)
EXTENDS Integers, FiniteSets, Sequences

CONSTANTS
    Names,            \* names of IngestRuns
    Clients,          \* event streams a browser may open
    MaxRoots,         \* maxIngestRunRootReads
    MaxJobs,          \* maxJobs of the projection
    MaxInst,          \* bound: incarnations of the instance
    MaxGen,           \* bound: incarnations of a run name
    MaxChanges,       \* bound: changes of the cluster
    MaxDisturbances   \* bound: failed reads, lost streams, restarts

ASSUME ConsoleAssumption ==
    /\ MaxRoots \in Nat \ {0} /\ MaxJobs \in Nat
    /\ MaxInst \in Nat /\ MaxGen \in Nat
    /\ MaxChanges \in Nat /\ MaxDisturbances \in Nat

VARIABLES
    inst,      \* live incarnation of the Tamoss, 0 when there is none
    deps,      \* incarnations that still have a Deployment
    live,      \* live incarnation of each run name, 0 when there is none
    made,      \* incarnations of the instance and of each run name so far
    jobs,      \* Jobs, the most recently observed (jobLastObserved) first
    seen,      \* the informer caches: instance, Deployments, Jobs
    cache,     \* ingestRunCache: validated run incarnations
    expired,   \* those of them older than ingestRunValidationTTL
    pass,      \* the refresh under way
    current,   \* Monitor.current
    ready,     \* Monitor.ready
    sequence,  \* Monitor.sequence
    pub,       \* publishLocked: subscribers not served yet, and its place
    stream,    \* each event stream: off, on, or closing
    buf,       \* the channel of each subscriber
    last,      \* the last event each stream has written
    changed,   \* changes of the cluster so far
    disturbed  \* disturbances so far

cluster == <<inst, deps, live, made, jobs, changed>>
snapshotter == <<cache, expired>>
monitor == <<current, ready, sequence, pub>>
streams == <<stream, buf, last>>
vars == <<cluster, seen, snapshotter, pass, monitor, streams, disturbed>>

RunId == [name : Names, gen : 1..MaxGen]
JobStates == {"pending", "active", "finished"}
Job == [run : RunId, state : JobStates]
None == [none |-> TRUE]
Content == [inst : 1..MaxInst, deps : SUBSET (1..MaxInst),
            jobs : Seq(Job), truncated : BOOLEAN]
Snapshots == [content : Content, stale : BOOLEAN]
Updates == [id : Nat, snapshot : Snapshots]

Idle == [at |-> "idle", inst |-> 0, deps |-> {}, jobs |-> <<>>,
         todo |-> {}, roots |-> {}, truncated |-> FALSE]
Serving(cs) == [todo |-> cs, drain |-> {}, send |-> {}]

\* Type correctness; in particular a channel never holds more than its one
\* element and the cache of validated runs stays within maxIngestRunRootReads.
TypeOK ==
    /\ inst \in 0..MaxInst /\ deps \subseteq 1..MaxInst
    /\ live \in [Names -> 0..MaxGen]
    /\ made.inst \in 0..MaxInst /\ made.runs \in [Names -> 0..MaxGen]
    /\ jobs \in Seq(Job)
    /\ seen.inst \in 0..MaxInst /\ seen.deps \subseteq 1..MaxInst /\ seen.jobs \in Seq(Job)
    /\ expired \subseteq cache /\ cache \subseteq RunId /\ Cardinality(cache) <= MaxRoots
    /\ pass.at \in {"idle", "resolve", "publish"}
    /\ pass.inst \in 0..MaxInst /\ pass.deps \subseteq 1..MaxInst /\ pass.jobs \in Seq(Job)
    /\ pass.todo \subseteq Names /\ pass.roots \subseteq RunId /\ pass.truncated \in BOOLEAN
    /\ current \in Snapshots \cup {None} /\ ready \in BOOLEAN /\ sequence \in Nat
    /\ pub \in [todo : SUBSET Clients, drain : SUBSET Clients, send : SUBSET Clients]
    /\ stream \in [Clients -> {"off", "on", "closing"}]
    /\ \A c \in Clients : buf[c] \in Seq(Updates) /\ Len(buf[c]) <= 1
    /\ last \in [Clients -> Updates \cup {None}]
    /\ changed \in 0..MaxChanges /\ disturbed \in 0..MaxDisturbances

Init ==
    /\ inst = 1 /\ deps = {1}
    /\ live = [n \in Names |-> 0]
    /\ made = [inst |-> 1, runs |-> [n \in Names |-> 0]]
    /\ jobs = <<>>
    /\ seen = [inst |-> 1, deps |-> {1}, jobs |-> <<>>]
    /\ cache = {} /\ expired = {}
    /\ pass = Idle
    /\ current = None /\ ready = FALSE /\ sequence = 0 /\ pub = Serving({})
    /\ stream = [c \in Clients |-> "off"]
    /\ buf = [c \in Clients |-> <<>>]
    /\ last = [c \in Clients |-> None]
    /\ changed = 0 /\ disturbed = 0

Disturb ==
    /\ disturbed < MaxDisturbances
    /\ disturbed' = disturbed + 1

(***************************************************************************)
(* The cluster.                                                            *)
(***************************************************************************)
Changes ==
    /\ changed < MaxChanges /\ changed' = changed + 1
    /\ UNCHANGED <<seen, snapshotter, pass, monitor, streams, disturbed>>

DeleteInstance ==
    /\ inst # 0 /\ inst' = 0
    /\ UNCHANGED <<deps, live, made, jobs>> /\ Changes

CreateInstance ==
    /\ inst = 0 /\ made.inst < MaxInst
    /\ inst' = made.inst + 1 /\ made' = [made EXCEPT !.inst = @ + 1]
    /\ UNCHANGED <<deps, live, jobs>> /\ Changes

Deploy ==
    /\ inst # 0 /\ inst \notin deps
    /\ deps' = deps \cup {inst}
    /\ UNCHANGED <<inst, live, made, jobs>> /\ Changes

\* Garbage collection of a Deployment, or of a Job, whose owner is gone.
CollectDeployment(i) ==
    /\ i \in deps /\ i # inst
    /\ deps' = deps \ {i}
    /\ UNCHANGED <<inst, live, made, jobs>> /\ Changes

CollectJob(j) ==
    /\ live[j.run.name] # j.run.gen
    /\ jobs' = SelectSeq(jobs, LAMBDA x : x # j)
    /\ UNCHANGED <<inst, deps, live, made>> /\ Changes

\* A run is created and the operator launches its Job.
CreateRun(n) ==
    /\ inst # 0 /\ live[n] = 0 /\ made.runs[n] < MaxGen
    /\ LET g == made.runs[n] + 1
       IN /\ live' = [live EXCEPT ![n] = g]
          /\ made' = [made EXCEPT !.runs[n] = g]
          /\ jobs' = <<[run |-> [name |-> n, gen |-> g], state |-> "pending"]>> \o jobs
    /\ UNCHANGED <<inst, deps>> /\ Changes

DeleteRun(n) ==
    /\ live[n] # 0 /\ live' = [live EXCEPT ![n] = 0]
    /\ UNCHANGED <<inst, deps, made, jobs>> /\ Changes

\* The Job controller.  A start, and a completion, is a later observation
\* (jobLastObserved); a Job that fails has no completion time and keeps its
\* place.
Latest(j, state) ==
    <<[j EXCEPT !.state = state]>> \o SelectSeq(jobs, LAMBDA x : x # j)

StartJob(j) ==
    /\ j.state = "pending"
    /\ jobs' = Latest(j, "active")
    /\ UNCHANGED <<inst, deps, live, made>> /\ Changes

FinishJob(j) ==
    /\ j.state = "active"
    /\ \/ jobs' = Latest(j, "finished")
       \/ jobs' = [i \in DOMAIN jobs |->
                      IF jobs[i] = j THEN [j EXCEPT !.state = "finished"] ELSE jobs[i]]
    /\ UNCHANGED <<inst, deps, live, made>> /\ Changes

\* The informers deliver, each kind on its own.
Sync ==
    /\ \/ seen' = [seen EXCEPT !.inst = inst]
       \/ seen' = [seen EXCEPT !.deps = deps]
       \/ seen' = [seen EXCEPT !.jobs = jobs]
    /\ seen' # seen
    /\ UNCHANGED <<cluster, snapshotter, pass, monitor, streams, disturbed>>

\* A validated run grows older than ingestRunValidationTTL.
Expire(r) ==
    /\ r \in cache \ expired
    /\ expired' = expired \cup {r}
    /\ UNCHANGED <<cluster, seen, cache, pass, monitor, streams, disturbed>>

(***************************************************************************)
(* Snapshotter.                                                            *)
(***************************************************************************)
\* ingestJobOperationalPriority: running Jobs first, finished ones last; the
\* most recently observed first within a class.
Candidates(js) ==
    SelectSeq(js, LAMBDA j : j.state = "active")
        \o SelectSeq(js, LAMBDA j : j.state = "pending")
        \o SelectSeq(js, LAMBDA j : j.state = "finished")

NamesOf(js) == {js[i].run.name : i \in DOMAIN js}

Precedes(js, m, n) ==
    \E i \in DOMAIN js : js[i].run.name = m /\ \A k \in 1..i : js[k].run.name # n

\* resolveReferencedIngestRuns: the run names that are read, at most
\* maxIngestRunRootReads; a name left out sets the truncated flag.
chosen(js) ==
    LET cs == Candidates(js)
    IN {n \in NamesOf(cs) : Cardinality({m \in NamesOf(cs) : Precedes(cs, m, n)}) < MaxRoots}

referencedUIDs(js, n) == {js[i].run.gen : i \in {k \in DOMAIN js : js[k].run.name = n}}

\* The time of validation is not looked at.
loadCachedIngestRuns_MutantNoTTL(js) ==
    {r \in cache : r.name \in chosen(js) /\ referencedUIDs(js, r.name) = {r.gen}}

\* loadCachedIngestRuns: the entries that still answer; all others are dropped.
loadCachedIngestRuns(js) ==
    {r \in cache \ expired : r.name \in chosen(js) /\ referencedUIDs(js, r.name) = {r.gen}}

\* storeCachedIngestRun replaces the name's entry.  Its eviction of the oldest
\* entry never applies: what loadCachedIngestRuns left are entries of other
\* chosen names, fewer than maxIngestRunRootReads.
storeCachedIngestRun(r) == {x \in cache : x.name # r.name} \cup {r}

\* Objects are kept by the name of their owner.
retainControllerOwned_MutantByName(js, roots) ==
    SelectSeq(js, LAMBDA j : \E r \in roots : r.name = j.run.name)

\* hasExactControllerOwner: the one controller reference, UID included.
hasExactControllerOwner(j, roots) == j.run \in roots

\* retainControllerOwned: only Jobs whose owner is retained.
retainControllerOwned(js, roots) ==
    SelectSeq(js, LAMBDA j : hasExactControllerOwner(j, roots))

\* jobsFromKubernetes: the maxJobs most recently observed.
jobsFromKubernetes(js) == SubSeq(js, 1, IF Len(js) < MaxJobs THEN Len(js) ELSE MaxJobs)

\* Deployments, with the ReplicaSets and Pods below them, of the instance read.
workloadsOf(i, ds) == ds \cap {i}

\* What Snapshot returns: all its parts are projected from one pass's reads.
Projected ==
    [inst |-> pass.inst,
     deps |-> workloadsOf(pass.inst, pass.deps),
     jobs |-> jobsFromKubernetes(retainControllerOwned(pass.jobs, pass.roots)),
     truncated |-> pass.truncated]

\* The instance and the lists are read from the informer caches, the validated
\* runs looked up.
Snapshot ==
    /\ pass.at = "idle" /\ seen.inst # 0
    /\ LET known == loadCachedIngestRuns(seen.jobs)
       IN /\ cache' = known /\ expired' = expired \cap known
          /\ pass' = [at |-> "resolve", inst |-> seen.inst, deps |-> seen.deps,
                      jobs |-> seen.jobs, roots |-> known,
                      todo |-> chosen(seen.jobs) \ {r.name : r \in known},
                      truncated |-> chosen(seen.jobs) # NamesOf(seen.jobs)]
    /\ UNCHANGED <<cluster, seen, monitor, streams, disturbed>>

\* One live GET: a run that is gone, or whose UID no listed Job refers to, is
\* skipped; the others are validated.
resolveReferencedIngestRuns(n) ==
    /\ pass.at = "resolve" /\ n \in pass.todo
    /\ IF live[n] \in referencedUIDs(pass.jobs, n)
       THEN LET r == [name |-> n, gen |-> live[n]]
            IN /\ cache' = storeCachedIngestRun(r) /\ expired' = expired \cap cache'
               /\ pass' = [pass EXCEPT !.todo = @ \ {n}, !.roots = @ \cup {r}]
       ELSE /\ pass' = [pass EXCEPT !.todo = @ \ {n}]
            /\ UNCHANGED snapshotter
    /\ UNCHANGED <<cluster, seen, monitor, streams, disturbed>>

(***************************************************************************)
(* Monitor.                                                                *)
(***************************************************************************)
Subscribers == {c \in Clients : stream[c] # "off"}
Locked == pass.at = "publish"

\* What is sent: the number and a copy of the current snapshot.
RuntimeUpdate == [id |-> sequence, snapshot |-> current]

\* The lock is taken and publishLocked begins, when there is somebody to serve.
publishLocked ==
    /\ sequence' = sequence + 1
    /\ pub' = Serving(Subscribers)
    /\ pass' = IF Subscribers = {} THEN Idle ELSE [Idle EXCEPT !.at = "publish"]

Unpublished == pass' = Idle /\ UNCHANGED <<sequence, pub>>

\* Refresh's comparison by snapshotContentHash, which leaves ObservedAt out.
Changed(content) == current = None \/ current.content # content \/ current.stale

Refresh ==
    /\ pass.at = "resolve" /\ pass.todo = {}
    /\ current' = [content |-> Projected, stale |-> FALSE]
    /\ ready' = TRUE
    /\ IF Changed(Projected) THEN publishLocked ELSE Unpublished
    /\ UNCHANGED <<cluster, seen, snapshotter, streams, disturbed>>

\* markStale: the last snapshot is kept, flagged and published once.
markStale ==
    /\ ready' = FALSE
    /\ IF current # None /\ ~current.stale
       THEN /\ current' = [current EXCEPT !.stale = TRUE]
            /\ publishLocked
       ELSE Unpublished /\ UNCHANGED current
    /\ UNCHANGED <<cluster, seen, snapshotter, streams>>

\* The readiness endpoint.
readiness == ready /\ current # None

InstanceNotFound ==
    /\ pass.at = "idle" /\ seen.inst = 0
    /\ markStale
    /\ UNCHANGED disturbed

\* A list or a live GET fails, or the time for the live GETs runs out.
ReadFails ==
    /\ pass.at = "idle" \/ (pass.at = "resolve" /\ pass.todo # {})
    /\ Disturb
    /\ markStale

\* One subscriber of publishLocked: a non-blocking send; if the channel is
\* full, a non-blocking receive and then a send that would wait for room.
Delivered(c) ==
    /\ pub' = Serving(pub.todo \ {c})
    /\ pass' = IF pub.todo = {c} THEN Idle ELSE pass
    /\ buf' = [buf EXCEPT ![c] = Append(@, RuntimeUpdate)]
    /\ UNCHANGED <<cluster, seen, snapshotter, current, ready, sequence, stream, last, disturbed>>

serveFrame == UNCHANGED <<cluster, seen, snapshotter, pass, current, ready, sequence,
                          stream, last, disturbed>>

Trying(c) == Locked /\ c \in pub.todo /\ pub.drain = {} /\ pub.send = {}

TrySend(c) ==
    /\ Trying(c) /\ buf[c] = <<>>
    /\ Delivered(c)

\* A full channel is skipped: its subscriber keeps the older update.
SendRefused_MutantSkip(c) ==
    /\ Trying(c) /\ buf[c] # <<>>
    /\ pub' = Serving(pub.todo \ {c})
    /\ pass' = IF pub.todo = {c} THEN Idle ELSE pass
    /\ UNCHANGED <<cluster, seen, snapshotter, current, ready, sequence, streams, disturbed>>

SendRefused(c) ==
    /\ Trying(c) /\ buf[c] # <<>>
    /\ pub' = [pub EXCEPT !.drain = {c}]
    /\ UNCHANGED buf /\ serveFrame

\* The older update is dropped, unless the stream has taken it in between.
Drain(c) ==
    /\ c \in pub.drain
    /\ pub' = [pub EXCEPT !.drain = {}, !.send = {c}]
    /\ buf' = [buf EXCEPT ![c] = <<>>]
    /\ serveFrame

Send(c) ==
    /\ c \in pub.send /\ buf[c] = <<>>
    /\ Delivered(c)

(***************************************************************************)
(* Event streams: runtimeEvents.                                           *)
(***************************************************************************)
streamFrame == UNCHANGED <<cluster, seen, snapshotter, pass, monitor>>

\* Subscribe: a new channel, preloaded with the current snapshot.
Subscribe(c) ==
    /\ stream[c] = "off" /\ ~Locked
    /\ stream' = [stream EXCEPT ![c] = "on"]
    /\ buf' = [buf EXCEPT ![c] = IF current = None THEN <<>> ELSE <<RuntimeUpdate>>]
    /\ UNCHANGED <<last, disturbed>> /\ streamFrame

\* An update is taken from the channel and written.
WriteRuntimeEvent(c) ==
    /\ stream[c] = "on" /\ buf[c] # <<>>
    /\ last' = [last EXCEPT ![c] = Head(buf[c])]
    /\ buf' = [buf EXCEPT ![c] = Tail(@)]
    /\ UNCHANGED <<stream, disturbed>> /\ streamFrame

\* The browser leaves, the stream's lifetime ends, or a write fails with the
\* update already taken.
EndStream(c) ==
    /\ stream[c] = "on"
    /\ stream' = [stream EXCEPT ![c] = "closing"]
    /\ buf' \in {buf, [buf EXCEPT ![c] = <<>>]}
    /\ Disturb
    /\ UNCHANGED last /\ streamFrame

\* Its cancel function needs the Monitor's lock.
Cancel(c) ==
    /\ stream[c] = "closing" /\ ~Locked
    /\ stream' = [stream EXCEPT ![c] = "off"]
    /\ buf' = [buf EXCEPT ![c] = <<>>]
    /\ last' = [last EXCEPT ![c] = None]
    /\ UNCHANGED disturbed /\ streamFrame

\* The console's process is replaced: numbering and caches start afresh.
Restart ==
    /\ cache' = {} /\ expired' = {} /\ pass' = Idle
    /\ current' = None /\ ready' = FALSE /\ sequence' = 0 /\ pub' = Serving({})
    /\ stream' = [c \in Clients |-> "off"]
    /\ buf' = [c \in Clients |-> <<>>]
    /\ last' = [c \in Clients |-> None]
    /\ seen' = [inst |-> inst, deps |-> deps, jobs |-> jobs]
    /\ Disturb
    /\ UNCHANGED cluster

Jobs == {jobs[i] : i \in DOMAIN jobs}

World ==
    \/ DeleteInstance \/ CreateInstance \/ Deploy
    \/ \E i \in deps : CollectDeployment(i)
    \/ \E n \in Names : CreateRun(n) \/ DeleteRun(n)
    \/ \E j \in Jobs : StartJob(j) \/ FinishJob(j) \/ CollectJob(j)

Ticks == Snapshot \/ InstanceNotFound \/ Refresh
    \/ \E n \in Names : resolveReferencedIngestRuns(n)

Publishing == \E c \in Clients : TrySend(c) \/ SendRefused(c) \/ Drain(c) \/ Send(c)

Streaming(c) == Subscribe(c) \/ WriteRuntimeEvent(c) \/ EndStream(c) \/ Cancel(c)

Next ==
    \/ World \/ Sync \/ \E r \in cache : Expire(r)
    \/ Ticks \/ ReadFails \/ Publishing
    \/ \E c \in Clients : Streaming(c)
    \/ Restart

Spec == Init /\ [][Next]_vars

\* The ticker refreshes again and again and the lock's holder runs on; the
\* informers deliver and time passes; a handler serves its channel.  A browser
\* need not come back, and garbage collection need not happen.
FairSpec ==
    /\ Spec
    /\ WF_vars(Ticks) /\ WF_vars(Publishing)
    /\ WF_vars(Sync) /\ WF_vars(\E r \in cache : Expire(r))
    /\ \A c \in Clients : WF_vars(WriteRuntimeEvent(c)) /\ WF_vars(Cancel(c))

(***************************************************************************)
(* Properties.                                                             *)
(***************************************************************************)

\* publishLocked never waits while it holds the Monitor's lock: when it comes
\* to its second send the channel has room, whatever the stream did meanwhile.
NeverBlocks == \A c \in pub.send : buf[c] = <<>>

\* Whenever the lock is free, what a subscriber reads next, or has read last if
\* nothing waits, is the current snapshot under the current number: a slow
\* stream loses intermediate updates, never the latest one.
LatestHeld ==
    ~Locked => \A c \in Clients :
        stream[c] = "on" =>
            IF buf[c] # <<>> THEN buf[c] = <<RuntimeUpdate>>
            ELSE IF current = None THEN last[c] = None ELSE last[c] = RuntimeUpdate

\* The readiness endpoint answers ready exactly while the state served is the
\* result of the last refresh: a served snapshot is flagged stale otherwise.
ReadyIsFresh == readiness <=> (current # None /\ ~current.stale)

\* A snapshot shows workloads of the very incarnation of the instance it shows,
\* and at most one incarnation of every run name, although the caches it is
\* read from lag independently and names are reused.
OneIncarnation ==
    current # None =>
        LET shown == current.content
        IN /\ shown.deps \subseteq {shown.inst}
           /\ \A i, k \in DOMAIN shown.jobs :
                 shown.jobs[i].run.name = shown.jobs[k].run.name => i = k

\* A Job among the maxJobs latest of the list whose run is there is part of the
\* snapshot about to be published, unless the snapshot says it is truncated.
NothingHidden ==
    pass.at = "resolve" /\ pass.todo = {} /\ ~pass.truncated =>
        \A i \in DOMAIN pass.jobs :
            i <= MaxJobs /\ live[pass.jobs[i].run.name] = pass.jobs[i].run.gen
                => pass.jobs[i] \in {Projected.jobs[k] : k \in DOMAIN Projected.jobs}

\* When run names must be left out, a name with a running Job is not left out
\* for one without: as long as running Jobs fit, all of them are resolved.
RunningFirst ==
    pass.at = "resolve" /\ pass.todo = {} =>
        LET running == {pass.jobs[i].run : i \in {k \in DOMAIN pass.jobs : pass.jobs[k].state = "active"}}
        IN Cardinality({r.name : r \in running}) <= MaxRoots =>
              \A r \in running : live[r.name] = r.gen => r \in pass.roots

\* The snapshot mixes no two incarnations, hides no Job it could show and lists
\* what runs first, whatever the interleaving of its reads with the cluster.
SnapshotSound == OneIncarnation /\ NothingHidden /\ RunningFirst

\* Within one subscription the numbers of the events written strictly increase.
IdsIncrease ==
    [][\A c \in Clients :
          stream[c] = "on" /\ last'[c] # last[c] /\ last'[c] # None
              => last[c] = None \/ last'[c].id > last[c].id]_vars

\* What an open stream shows once the cluster rests: nothing but a stale copy
\* when the instance is gone; else the instance, its workloads and the latest
\* Jobs of the runs that are there.
Shows(c) ==
    IF inst = 0 THEN last[c] = None \/ last[c].snapshot.stale
    ELSE /\ last[c] # None /\ ~last[c].snapshot.stale
         /\ LET shown == last[c].snapshot.content
                roots == {r \in RunId : live[r.name] = r.gen /\ r.name \in chosen(jobs)}
            IN /\ shown.inst = inst /\ shown.deps = deps \cap {inst}
               /\ shown.truncated = (chosen(jobs) # NamesOf(jobs))
               /\ shown.jobs = jobsFromKubernetes(retainControllerOwned(jobs, roots))

\* After finitely many disturbances every stream that stays open settles on the
\* true state of the cluster, a run deleted while it was validated included.
EventuallyShown == \A c \in Clients : <>[](stream[c] = "on" => Shows(c))

=============================================================================
