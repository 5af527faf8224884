-------------------------- MODULE FlowProfileProofs --------------------------
(***************************************************************************)
(* For every set of FlowProfiles that claim one UUID, every set of         *)
(* documents and every bound, if FlowProfiles are read up to date: one of  *)
(* them is Ready at most, no delete Job outlives its right to the Profile, *)
(* and the last claim goes only after the Profile it registered.           *)
(***************************************************************************)
EXTENDS FlowProfile, WellFoundedInduction, TLAPS

-----------------------------------------------------------------------------
(* Types, without the bounds.                                              *)

Document == Docs \cup {0}
Outcome == {"none", "Pending", "Progressing", "Ready", "Degraded", "Deleting", "Blocked"}
JobPhase == {"none", "active", "succeeded", "failed"}
Resource ==
    [exists : BOOLEAN, uid : Nat, time : Nat, gen : Nat, doc : Document,
     deleting : BOOLEAN, fin : BOOLEAN, phase : Outcome, ogen : Nat]
JobObject ==
    [phase : JobPhase, code : Nat, doc : Document, version : Nat, owner : Nat,
     term : BOOLEAN]
JobPair == [reg : JobObject, del : JobObject]
StateObject == [owner : Nat, doc : Document]
Cached ==
    [prof : [Profiles -> Resource], job : [Profiles -> JobPair],
     state : [Profiles -> StateObject]]
Target == [exists : BOOLEAN, deleting : BOOLEAN, uid : Nat, version : Nat, schema : Nat]
Pass == [at : {"idle", "status", "release"}, p : Profiles \cup {"none"}, s : Resource,
         out : Outcome]

Objects ==
    /\ prof \in [Profiles -> Resource]
    /\ job \in [Profiles -> JobPair]
    /\ state \in [Profiles -> StateObject]
    /\ document \in [Profiles -> Document]

Shape ==
    /\ Objects
    /\ cache \in Cached
    /\ row \in Document
    /\ tamoss \in Target
    /\ pass \in Pass /\ (pass.at # "idle" => pass.p \in Profiles)
    /\ (pass.at = "status" => pass.s.exists)
    /\ born \in Nat

LEMMA Constants ==
    /\ NoProf \in Resource /\ NoJob \in JobObject /\ NoState \in StateObject
    /\ Idle \in Pass /\ Idle.at = "idle" /\ Idle.out = "none"
<1>1. 0 \in Document
  BY Zenon DEF Document
<1>2. NoProf \in Resource
  BY <1>1, Zenon DEF NoProf, Resource, Outcome
<1> QED
  BY <1>1, <1>2, Zenon DEF NoJob, NoState, Idle, JobObject, StateObject, Pass, Outcome,
       JobPhase

\* The caches have the objects' types, whichever of them trail.
LEMMA ObserveShape ==
    ASSUME Shape, Objects', Observe
    PROVE  cache' \in Cached
<1>1. /\ cache.prof \in [Profiles -> Resource] /\ cache.job \in [Profiles -> JobPair]
      /\ cache.state \in [Profiles -> StateObject]
  BY Zenon DEF Shape, Cached
<1>2. /\ prof' \in [Profiles -> Resource] /\ job' \in [Profiles -> JobPair]
      /\ state' \in [Profiles -> StateObject]
  BY Zenon DEF Objects
<1> QED
  BY <1>1, <1>2, Zenon DEF Observe, Cached

\* The Job a pass wants.
LEMMA JobShape ==
    ASSUME NEW s \in Resource, Shape
    PROVE  flowProfileJob(s, tamoss.version) \in JobObject
  BY Zenon DEF flowProfileJob, Shape, Target, Resource, JobObject, JobPhase

\* The finalizer and the deletion mark of one resource are set or cleared.
LEMMA MarkShape ==
    ASSUME prof \in [Profiles -> Resource], NEW p \in Profiles
    PROVE  /\ [prof EXCEPT ![p].fin = TRUE] \in [Profiles -> Resource]
           /\ [prof EXCEPT ![p].fin = FALSE] \in [Profiles -> Resource]
           /\ [prof EXCEPT ![p].deleting = TRUE] \in [Profiles -> Resource]
<1>1. [prof[p] EXCEPT !.fin = TRUE] \in Resource
  BY Zenon DEF Resource
<1>2. [prof[p] EXCEPT !.fin = FALSE] \in Resource
  BY Zenon DEF Resource
<1>3. [prof[p] EXCEPT !.deleting = TRUE] \in Resource
  BY Zenon DEF Resource
<1> QED
  BY <1>1, <1>2, <1>3, Zenon

\* The Tamoss goes, and its database with it.
LEMMA GoneShape ==
    ASSUME tamoss \in Target
    PROVE  [tamoss EXCEPT !.exists = FALSE, !.deleting = FALSE, !.schema = 0] \in Target
<1>1. [tamoss EXCEPT !.exists = FALSE, !.deleting = FALSE] \in Target
  BY Zenon DEF Target
<1>2. [[tamoss EXCEPT !.exists = FALSE, !.deleting = FALSE] EXCEPT !.schema = 0] \in Target
  BY <1>1, Zenon DEF Target
<1>3. [tamoss EXCEPT !.exists = FALSE, !.deleting = FALSE, !.schema = 0] =
         [[tamoss EXCEPT !.exists = FALSE, !.deleting = FALSE] EXCEPT !.schema = 0]
  BY Zenon DEF Target
<1> QED
  BY <1>2, <1>3, Zenon

LEMMA ReturnShape ==
    ASSUME tamoss \in Target
    PROVE  [tamoss EXCEPT !.exists = TRUE, !.uid = @ + 1] \in Target
<1>1. tamoss.uid + 1 \in Nat
  BY DEF Target
<1>2. [tamoss EXCEPT !.exists = TRUE, !.uid = tamoss.uid + 1] \in Target
  BY <1>1, Zenon DEF Target
<1> QED
  BY <1>2, Zenon

LEMMA TerminatedShape ==
    ASSUME NEW j \in JobObject
    PROVE  /\ Terminated(j) \in JobObject
           /\ Terminated(j).phase = j.phase /\ Terminated(j).owner = j.owner
           /\ (Terminated(j) = NoJob <=> j = NoJob)
<1>1. CASE j = NoJob
  BY <1>1, Zenon DEF Terminated
<1>2. CASE j # NoJob
  <2>1. Terminated(j) = [j EXCEPT !.term = TRUE]
    BY <1>2, Zenon DEF Terminated
  <2>2. Terminated(j).term = TRUE /\ NoJob.term = FALSE
    BY <2>1, Zenon DEF NoJob, JobObject
  <2> QED
    BY <1>2, <2>1, <2>2, Zenon DEF JobObject
<1> QED
  BY <1>1, <1>2, Zenon

-----------------------------------------------------------------------------
(* Typing of the steps.                                                    *)

LEMMA ServeShape ==
    ASSUME Shape, NEW p \in Profiles, Serve(p)
    PROVE  Shape'
<1> DEFINE s == cache.prof[p]
<1>1. s \in Resource
  BY Zenon DEF Shape, Cached
<1>2. cache.job[p] \in JobPair /\ job[p] \in JobPair /\ state[p] \in StateObject
  BY Zenon DEF Shape, Cached, Objects
<1>3. flowProfileJob(s, tamoss.version) \in JobObject
  BY <1>1, JobShape, Zenon
<1>4. Terminated(job[p].reg) \in JobObject /\ Terminated(job[p].del) \in JobObject
  BY <1>2, TerminatedShape, SMTT(20) DEF JobPair
<1>5. /\ UNCHANGED <<row, tamoss, born>> /\ Observe
  BY Zenon DEF Serve, Skip, AddFinalizer, Judge, Supersede, LaunchRegister, ObserveRegister,
         Registering, Hold, LaunchDelete, ReplaceDelete, deleteFlowProfileChildren, Retry,
         Then, world
<1>6. ASSUME NEW out \in Outcome, Report(p, s, out)
      PROVE  pass' \in Pass /\ pass'.at = "status" /\ pass'.p = p /\ pass'.s = s
  BY <1>1, <1>6, Zenon DEF Report, Pass
<1> HIDE DEF s
<1>7. /\ pass' \in Pass /\ (pass'.at # "idle" => pass'.p \in Profiles)
      /\ (pass'.at = "status" => pass'.s.exists)
  <2>1. CASE Skip(p) \/ AddFinalizer(p)
    BY <2>1, Zenon DEF Skip, AddFinalizer, Shape
  <2>2. CASE Judge(p)
    BY <2>2, <1>6, Zenon DEF Judge, Working, Outcome, s
  <2>3. CASE Supersede(p)
    BY <2>3, <1>6, Zenon DEF Supersede, Working, Outcome, s
  <2>4. CASE LaunchRegister(p)
    BY <2>4, <1>6, Constants, Zenon DEF LaunchRegister, Registering, Working, Retry, Outcome, s
  <2>5. CASE ObserveRegister(p)
    BY <2>5, <1>6, Zenon DEF ObserveRegister, Registering, Working, Outcome, s
  <2>6. CASE Hold(p)
    BY <2>6, <1>6, Constants, Zenon DEF Hold, Finalising, Working, Retry, Outcome, s
  <2>7. CASE LaunchDelete(p)
    BY <2>7, <1>6, Constants, Zenon DEF LaunchDelete, Finalising, Working, Retry, Outcome, s
  <2>8. CASE ReplaceDelete(p)
    BY <2>8, <1>6, Constants, Zenon DEF ReplaceDelete, Finalising, Working, Retry, Outcome, s
  <2>9. CASE deleteFlowProfileChildren(p)
    <3>1. pass' = [Idle EXCEPT !.at = "release", !.p = p]
      BY <2>9, Zenon DEF deleteFlowProfileChildren
    <3> QED
      BY <3>1, Constants, Zenon DEF Pass
  <2> QED
    BY <2>1, <2>2, <2>3, <2>4, <2>5, <2>6, <2>7, <2>8, <2>9, Zenon DEF Serve
<1>8. prof' \in [Profiles -> Resource]
  <2>1. prof' = prof \/ prof' = [prof EXCEPT ![p].fin = TRUE]
    BY Zenon DEF Serve, Skip, AddFinalizer, Judge, Supersede, LaunchRegister, ObserveRegister,
           Registering, Hold, LaunchDelete, ReplaceDelete, deleteFlowProfileChildren
  <2> QED
    BY <2>1, MarkShape, ZenonT(40) DEF Shape, Objects
<1>9. job' \in [Profiles -> JobPair]
  <2>1. \/ job' = job
        \/ job' = [job EXCEPT ![p].reg = Terminated(@)]
        \/ job' = [job EXCEPT ![p].del = Terminated(@)]
        \/ job' = [job EXCEPT ![p]["reg"] = flowProfileJob(s, tamoss.version)]
        \/ job' = [job EXCEPT ![p]["del"] = flowProfileJob(s, tamoss.version)]
        \/ \E r, d \in JobObject : job' = [job EXCEPT ![p] = [reg |-> r, del |-> d]]
    <3>1. CASE Skip(p) \/ AddFinalizer(p) \/ Judge(p) \/ Hold(p)
      BY <3>1, Zenon DEF Skip, AddFinalizer, Judge, Hold
    <3>2. CASE Supersede(p) \/ ObserveRegister(p)
      BY <3>2, Zenon DEF Supersede, ObserveRegister
    <3>3. CASE LaunchRegister(p)
      BY <3>3, Zenon DEF LaunchRegister, Applied, s
    <3>4. CASE LaunchDelete(p)
      BY <3>4, Zenon DEF LaunchDelete, Applied, s
    <3>5. CASE ReplaceDelete(p)
      BY <3>5, Zenon DEF ReplaceDelete
    <3>6. CASE deleteFlowProfileChildren(p)
      BY <3>6, <1>2, <1>4, Zenon DEF deleteFlowProfileChildren, JobPair, Shape, Objects
    <3> QED
      BY <3>1, <3>2, <3>3, <3>4, <3>5, <3>6, Zenon DEF Serve
  <2>2. job \in [Profiles -> JobPair]
    BY Zenon DEF Shape, Objects
  <2> QED
    BY <2>1, <2>2, <1>2, <1>3, <1>4 DEF JobPair
<1>10. state' \in [Profiles -> StateObject]
  <2>1. \E x \in StateObject : state' = state \/ state' = [state EXCEPT ![p] = x]
    <3>1. [owner |-> s.uid, doc |-> s.doc] \in StateObject
      BY <1>1, Zenon DEF Resource, StateObject
    <3> QED
      BY <3>1, Constants, Zenon DEF Serve, Skip, AddFinalizer, Judge, Supersede, LaunchRegister,
           ObserveRegister, Hold, LaunchDelete, ReplaceDelete, deleteFlowProfileChildren, s
  <2> QED
    BY <2>1, Zenon DEF Shape, Objects
<1>11. document' \in [Profiles -> Document]
  <2>1. \E x \in Document : document' = document \/ document' = [document EXCEPT ![p] = x]
    <3>1. s.doc \in Document /\ 0 \in Document
      BY <1>1, Zenon DEF Resource, Document
    <3> QED
      BY <3>1, Zenon DEF Serve, Skip, AddFinalizer, Judge, Supersede, LaunchRegister, Registering,
           ObserveRegister, Hold, LaunchDelete, ReplaceDelete, deleteFlowProfileChildren, s
  <2> QED
    BY <2>1, ZenonT(30) DEF Shape, Objects
<1>12. Objects'
  BY <1>8, <1>9, <1>10, <1>11, Zenon DEF Objects
<1> QED
  BY <1>5, <1>7, <1>12, ObserveShape, Zenon DEF Shape

\* A finished Pod changes the phase and the exit code of one Job.
LEMMA FinishShape ==
    ASSUME Shape, NEW p \in Profiles, NEW k \in JobKinds, NEW f \in JobPhase, NEW c \in Nat,
           Finish(p, k, f, c)
    PROVE  /\ job' \in [Profiles -> JobPair]
           /\ job'[p][k].phase = f /\ job'[p][k].owner = job[p][k].owner
           /\ \A q \in Profiles, l \in JobKinds :
                q # p \/ l # k => job'[q][l] = job[q][l]
<1> DEFINE x == job[p][k]
           y == [[x EXCEPT !.phase = f] EXCEPT !.code = c]
<1>1. job \in [Profiles -> JobPair] /\ x \in JobObject
  BY Zenon DEF Shape, Objects, JobPair, JobKinds
<1>2. y \in JobObject /\ y.phase = f /\ y.owner = x.owner
  BY <1>1, Zenon DEF JobObject
<1>3. job' = [job EXCEPT ![p] = [job[p] EXCEPT ![k] = y]]
  BY <1>1, Zenon DEF Finish, JobObject, JobPair, JobKinds
<1> HIDE DEF x, y
<1>4. CASE k = "reg"
  BY <1>1, <1>2, <1>3, <1>4 DEF JobPair, JobKinds, x
<1>5. CASE k = "del"
  BY <1>1, <1>2, <1>3, <1>5 DEF JobPair, JobKinds, x
<1> QED
  BY <1>4, <1>5, Zenon DEF JobKinds

LEMMA ClusterShape ==
    ASSUME Shape, Cluster
    PROVE  Shape'
<1>1. job \in [Profiles -> JobPair]
  BY Zenon DEF Shape, Objects
<1>2. /\ UNCHANGED <<prof, pass, born>> /\ Observe
  BY Zenon DEF Cluster, RunRegister, RunDelete, Collect, JobGone, SchemaReady, Elsewhere, Then
<1>3. job' \in [Profiles -> JobPair]
  <2>1. ASSUME NEW p \in Profiles, RunRegister(p)
        PROVE  job' \in [Profiles -> JobPair]
    <3>1. \E f \in JobPhase, c \in Nat : Finish(p, "reg", f, c)
      BY <2>1, Zenon DEF RunRegister, ExitInvalid, ExitConflict, JobPhase
    <3> QED
      BY <3>1, FinishShape, Zenon DEF JobKinds
  <2>2. ASSUME NEW p \in Profiles, RunDelete(p)
        PROVE  job' \in [Profiles -> JobPair]
    <3>1. \E f \in JobPhase, c \in Nat : Finish(p, "del", f, c)
      BY <2>2, Zenon DEF RunDelete, ExitInUse, JobPhase
    <3> QED
      BY <3>1, FinishShape, Zenon DEF JobKinds
  <2>3. ASSUME NEW p \in Profiles, Collect(p)
        PROVE  job' \in [Profiles -> JobPair]
    <3>1. \E r, d \in JobObject : job' = [job EXCEPT ![p] = [reg |-> r, del |-> d]]
      BY <2>3, <1>1, Constants, Zenon DEF Collect, JobPair
    <3> QED
      BY <3>1, <1>1 DEF JobPair
  <2>4. ASSUME NEW p \in Profiles, NEW k \in JobKinds, JobGone(p, k)
        PROVE  job' \in [Profiles -> JobPair]
    BY <2>4, <1>1, Constants, Zenon DEF JobGone, JobKinds, JobPair
  <2>5. CASE SchemaReady
    BY <2>5, <1>1, Zenon DEF SchemaReady
  <2> QED
    BY <2>1, <2>2, <2>3, <2>4, <2>5, Zenon DEF Cluster
<1>4. state' \in [Profiles -> StateObject] /\ document' \in [Profiles -> Document]
  <2>1. CASE UNCHANGED <<state, document>>
    BY <2>1, Zenon DEF Shape, Objects
  <2>2. ASSUME NEW p \in Profiles, Collect(p)
        PROVE  state' \in [Profiles -> StateObject] /\ document' \in [Profiles -> Document]
    <3>1. \/ state' = state \/ state' = [state EXCEPT ![p] = NoState]
      BY <2>2, Zenon DEF Collect
    <3>2. \/ document' = document \/ document' = [document EXCEPT ![p] = 0]
      BY <2>2, Zenon DEF Collect
    <3> QED
      BY <3>1, <3>2, Constants, Zenon DEF Shape, Objects, Document
  <2> QED
    BY <2>1, <2>2, Zenon DEF Cluster, RunRegister, RunDelete, JobGone, SchemaReady
<1>5. row' \in Document
  <2>1. ASSUME NEW p \in Profiles, RunRegister(p)
        PROVE  row' \in Document
    <3>1. row' = row \/ row' = document[p]
      BY <2>1, Zenon DEF RunRegister, ensure
    <3> QED
      BY <3>1, Zenon DEF Shape, Objects
  <2>2. ASSUME NEW p \in Profiles, RunDelete(p)
        PROVE  row' \in Document
    BY <2>2, Zenon DEF RunDelete, Document, Shape
  <2>3. CASE UNCHANGED row
    BY <2>3, Zenon DEF Shape
  <2> QED
    BY <2>1, <2>2, <2>3, Zenon DEF Cluster, Collect, JobGone, SchemaReady, world
<1>6. tamoss' \in Target
  <2>1. CASE SchemaReady
    BY <2>1, Zenon DEF SchemaReady, Shape, Target
  <2>2. CASE UNCHANGED tamoss
    BY <2>2, Zenon DEF Shape
  <2> QED
    BY <2>1, <2>2, Zenon DEF Cluster, RunRegister, RunDelete, Collect, JobGone, world
<1>7. Objects'
  BY <1>2, <1>3, <1>4, Zenon DEF Objects, Shape
<1> QED
  BY <1>2, <1>5, <1>6, <1>7, ObserveShape, Zenon DEF Shape

LEMMA EnvironmentShape ==
    ASSUME Shape, Environment
    PROVE  Shape'
<1>1. prof \in [Profiles -> Resource] /\ tamoss \in Target /\ born \in Nat
  BY Zenon DEF Shape, Objects
<1>2. UNCHANGED <<state, document>> /\ Observe
  BY Zenon DEF Environment, DeleteProfile, CreateProfile, EditProfile, JobFail, LinkFlow,
         UnlinkFlow, Upgrade, DeleteTamoss, TamossGone, CreateTamoss, Crash, Elsewhere, Then
<1>3. prof' \in [Profiles -> Resource] /\ born' \in Nat
  <2>1. ASSUME NEW p \in Profiles, DeleteProfile(p)
        PROVE  prof' \in [Profiles -> Resource] /\ born' \in Nat
    <3>1. prof' = [prof EXCEPT ![p].deleting = TRUE] \/ prof' = [prof EXCEPT ![p] = NoProf]
      BY <2>1, Zenon DEF DeleteProfile
    <3>2. born' = born
      BY <2>1, Zenon DEF DeleteProfile
    <3> QED
      BY <3>1, <3>2, <1>1, MarkShape, Constants, Zenon
  <2>2. ASSUME NEW p \in Profiles, NEW doc \in Docs, CreateProfile(p, doc)
        PROVE  prof' \in [Profiles -> Resource] /\ born' \in Nat
    <3>1. PICK time \in {born, born + 1} :
             prof' = [prof EXCEPT ![p] = [NoProf EXCEPT !.exists = TRUE, !.uid = born + 1,
                        !.time = time, !.gen = 1, !.doc = doc]]
      BY <2>2, Zenon DEF CreateProfile
    <3>2. [NoProf EXCEPT !.exists = TRUE, !.uid = born + 1, !.time = time, !.gen = 1,
             !.doc = doc] \in Resource
      <4>1. born + 1 \in Nat /\ time \in Nat /\ doc \in Document /\ "none" \in Outcome
        BY <1>1 DEF Document, Outcome
      <4> QED
        BY <4>1, Zenon DEF Resource, NoProf
    <3>3. born' = born + 1
      BY <2>2, Zenon DEF CreateProfile
    <3> QED
      BY <3>1, <3>2, <3>3, <1>1
  <2>3. ASSUME NEW p \in Profiles, NEW doc \in Docs, EditProfile(p, doc)
        PROVE  prof' \in [Profiles -> Resource] /\ born' \in Nat
    BY <2>3, <1>1 DEF EditProfile, Resource, Document
  <2>4. CASE UNCHANGED <<prof, born>>
    BY <2>4, <1>1, Zenon
  <2> QED
    BY <2>1, <2>2, <2>3, <2>4, Zenon DEF Environment, JobFail, LinkFlow, UnlinkFlow, Upgrade,
         DeleteTamoss, TamossGone, CreateTamoss, Crash
<1>4. job' \in [Profiles -> JobPair]
  <2>1. ASSUME NEW p \in Profiles, NEW k \in JobKinds, JobFail(p, k)
        PROVE  job' \in [Profiles -> JobPair]
    <3>1. Finish(p, k, "failed", Crashed) /\ Crashed \in Nat
      BY <2>1, Zenon DEF JobFail, Crashed
    <3> QED
      BY <3>1, FinishShape, Zenon DEF JobPhase
  <2>2. CASE UNCHANGED job
    BY <2>2, Zenon DEF Shape, Objects
  <2> QED
    BY <2>1, <2>2, Zenon DEF Environment, DeleteProfile, CreateProfile, EditProfile, LinkFlow,
         UnlinkFlow, Upgrade, DeleteTamoss, TamossGone, CreateTamoss, Crash
<1>5. tamoss' \in Target /\ row' \in Document
  <2>1. row' = row \/ row' = 0
    BY Zenon DEF Environment, DeleteProfile, CreateProfile, EditProfile, JobFail, LinkFlow,
           UnlinkFlow, Upgrade, DeleteTamoss, TamossGone, CreateTamoss, Crash, world
  <2>2. CASE Upgrade \/ DeleteTamoss \/ TamossGone \/ CreateTamoss
    <3>1. tamoss' \in Target
      <4>1. CASE Upgrade
        BY <4>1, <1>1 DEF Upgrade, Target
      <4>2. CASE DeleteTamoss
        BY <4>2, <1>1, Zenon DEF DeleteTamoss, Target
      <4>3. CASE TamossGone
        BY <4>3, <1>1, GoneShape, Zenon DEF TamossGone
      <4>4. CASE CreateTamoss
        BY <4>4, <1>1, ReturnShape, Zenon DEF CreateTamoss
      <4> QED
        BY <2>2, <4>1, <4>2, <4>3, <4>4, Zenon
    <3> QED
      BY <2>1, <3>1, Zenon DEF Shape, Document
  <2>3. CASE UNCHANGED tamoss
    BY <2>1, <2>3, <1>1, Zenon DEF Shape, Document
  <2> QED
    BY <2>2, <2>3, Zenon DEF Environment, DeleteProfile, CreateProfile, EditProfile, JobFail,
         LinkFlow, UnlinkFlow, Crash, world
<1>6. pass' = pass \/ pass' = Idle
  BY Zenon DEF Environment, DeleteProfile, CreateProfile, EditProfile, JobFail, LinkFlow,
         UnlinkFlow, Upgrade, DeleteTamoss, TamossGone, CreateTamoss, Crash
<1>7. Objects'
  BY <1>2, <1>3, <1>4, Zenon DEF Objects, Shape
<1> QED
  BY <1>2, <1>3, <1>5, <1>6, <1>7, ObserveShape, Constants, Zenon DEF Shape

LEMMA ShapeStep == Shape /\ [Next]_vars => Shape'
<1> SUFFICES ASSUME Shape, [Next]_vars PROVE Shape'
  BY Zenon
<1>1. ASSUME NEW p \in Profiles, Serve(p) PROVE Shape'
  BY <1>1, ServeShape, Zenon
<1>2. CASE updateFlowProfileStatus
  <2>1. pass' = Idle /\ UNCHANGED <<job, state, document, row, tamoss, born>> /\ Observe
    BY <1>2, Zenon DEF updateFlowProfileStatus, Then, world
  <2>2. prof' \in [Profiles -> Resource]
    BY <1>2 DEF updateFlowProfileStatus, Shape, Objects, Resource, Pass, In
  <2>3. Objects'
    BY <2>1, <2>2, Zenon DEF Objects, Shape
  <2> QED
    BY <2>1, <2>3, ObserveShape, Constants, Zenon DEF Shape
<1>3. CASE removeFlowProfileFinalizer
  <2>1. pass' = Idle /\ UNCHANGED <<job, state, document, row, tamoss, born>> /\ Observe
    BY <1>3, Zenon DEF removeFlowProfileFinalizer, Then, Retry, world
  <2>2. prof' \in [Profiles -> Resource]
    <3>1. \/ prof' = prof \/ prof' = [prof EXCEPT ![pass.p] = NoProf]
          \/ prof' = [prof EXCEPT ![pass.p].fin = FALSE]
      BY <1>3, Zenon DEF removeFlowProfileFinalizer
    <3>2. pass.p \in Profiles
      BY <1>3, Zenon DEF removeFlowProfileFinalizer, In, Shape
    <3> QED
      BY <3>1, <3>2, MarkShape, Constants, ZenonT(40) DEF Shape, Objects
  <2>3. Objects'
    BY <2>1, <2>2, Zenon DEF Objects, Shape
  <2> QED
    BY <2>1, <2>3, ObserveShape, Constants, Zenon DEF Shape
<1>4. ASSUME NEW k \in Lagging, Sync(k) PROVE Shape'
  <2>1. UNCHANGED <<prof, job, state, document, row, tamoss, pass, born>>
    BY <1>4, Zenon DEF Sync, world
  <2>2. k \in {"prof", "job", "state"}
    BY CachesAssumption, Zenon
  <2>3. live[k] = IF k = "prof" THEN prof ELSE IF k = "job" THEN job ELSE state
    BY <2>2 DEF live
  <2>4. cache' = [cache EXCEPT ![k] = live[k]]
    BY <1>4, Zenon DEF Sync
  <2>5. cache' \in Cached
    BY <2>2, <2>3, <2>4, Zenon DEF Cached, Shape, Objects
  <2> QED
    BY <2>1, <2>5, Zenon DEF Shape, Objects
<1>5. CASE UNCHANGED vars
  BY <1>5, Zenon DEF vars, Shape, Objects, world
<1> QED
  BY <1>1, <1>2, <1>3, <1>4, <1>5, ClusterShape, EnvironmentShape, Zenon DEF Next, Worker

LEMMA ShapeInit == Init => Shape
<1> SUFFICES ASSUME Init PROVE Shape
  BY Zenon
<1>1. Objects /\ row \in Document
  BY Constants, Zenon DEF Init, Objects, JobPair, Document
<1>2. cache \in Cached
  BY <1>1, Zenon DEF Init, live, Cached, Objects
<1>3. tamoss \in Target /\ pass \in Pass /\ pass.at = "idle" /\ born \in Nat
  BY Constants, Zenon DEF Init, Target
<1> QED
  BY <1>1, <1>2, <1>3, Zenon DEF Shape

-----------------------------------------------------------------------------
(* Claims are numbered.                                                    *)

Numbered ==
    /\ \A p \in Profiles : prof[p].exists =>
          0 < prof[p].uid /\ prof[p].uid <= born /\ 0 < prof[p].gen
    /\ \A p \in Profiles : ~prof[p].exists => prof[p] = NoProf
    /\ \A p, q \in Profiles :
          prof[p].exists /\ prof[q].exists /\ prof[p].uid = prof[q].uid => p = q

\* Without ties a resource's creation time is its number, so that the older of
\* two claims has the smaller one.
Dated == \A p \in Profiles : prof[p].exists => prof[p].time = prof[p].uid

\* Every live claim but p's is younger than number u.
Oldest(u, p) == \A q \in Profiles \ {p} : Claims(q) => u < prof[q].uid

\* What a step does to the resources: one is created, or loses its place, or
\* keeps its name, number and age.
Created(p) ==
    /\ ~prof[p].exists /\ born' = born + 1
    /\ prof'[p].exists /\ prof'[p].uid = born + 1
    /\ (~Ties => prof'[p].time = born + 1)
    /\ ~prof'[p].deleting /\ ~prof'[p].fin /\ prof'[p].phase = "none" /\ prof'[p].gen = 1
    /\ \A q \in Profiles \ {p} : prof'[q] = prof[q]
    /\ UNCHANGED <<job, recorded, pass>> /\ job[p].del = NoJob /\ cache.job[p].del = NoJob

\* The finalizer goes with the release, the phase with the status of the pass.
Releasing(q) == In("release") /\ q = pass.p /\ pass' = Idle

Kept(q) ==
    /\ prof'[q].exists = prof[q].exists /\ prof'[q].uid = prof[q].uid
    /\ prof'[q].time = prof[q].time
    /\ (prof[q].deleting => prof'[q].deleting)
    /\ (~prof[q].exists => prof'[q] = prof[q])
    /\ (prof[q].fin => prof'[q].fin \/ (Releasing(q) /\ ~prof[q].deleting))
    /\ \/ prof'[q].gen = prof[q].gen + 1
       \/ prof'[q].gen = prof[q].gen /\ prof'[q].doc = prof[q].doc
    /\ \/ prof'[q].phase = prof[q].phase
       \/ In("status") /\ q = pass.p /\ prof[q] = pass.s /\ prof'[q].phase = pass.out

Dropped(q) ==
    /\ prof'[q] = NoProf
    /\ ~prof[q].fin \/ (Releasing(q) /\ prof[q].deleting)

Continues == born' = born /\ \A q \in Profiles : Kept(q) \/ Dropped(q)

\* Every step creates one resource or continues the ones there are.
LEMMA ProfEffect ==
    ASSUME Shape, [Next]_vars
    PROVE  Continues \/ \E p \in Profiles : Created(p)
<1> USE DEF Shape, Objects
<1>1. ASSUME UNCHANGED <<prof, born>> PROVE Continues
  BY <1>1, Zenon DEF Continues, Kept
<1>2. ASSUME NEW p \in Profiles, AddFinalizer(p) PROVE Continues
  <2>1. prof' = prof \/ (prof' = [prof EXCEPT ![p].fin = TRUE] /\ prof[p].exists)
    BY <1>2, Zenon DEF AddFinalizer
  <2>2. born' = born
    BY <1>2, Zenon DEF AddFinalizer
  <2> QED
    BY <2>1, <2>2 DEF Continues, Kept, Dropped, Releasing, Resource
<1>3. CASE updateFlowProfileStatus
  <2>1. \/ prof' = prof
        \/ /\ prof' = [prof EXCEPT ![pass.p].phase = pass.out, ![pass.p].ogen = pass.s.gen]
           /\ prof[pass.p] = pass.s /\ pass.p \in Profiles /\ In("status")
           /\ prof[pass.p].exists
    BY <1>3, Zenon DEF updateFlowProfileStatus, In
  <2>2. born' = born
    BY <1>3, Zenon DEF updateFlowProfileStatus
  <2> QED
    BY <2>1, <2>2 DEF Continues, Kept, Dropped, Releasing, Resource
<1>4. CASE removeFlowProfileFinalizer
  <2>1. \/ prof' = prof
        \/ prof' = [prof EXCEPT ![pass.p] = NoProf] /\ prof[pass.p].deleting
        \/ /\ prof' = [prof EXCEPT ![pass.p].fin = FALSE]
           /\ prof[pass.p].exists /\ ~prof[pass.p].deleting
    BY <1>4, Zenon DEF removeFlowProfileFinalizer
  <2>2. born' = born /\ pass.p \in Profiles /\ Releasing(pass.p)
    BY <1>4, Zenon DEF removeFlowProfileFinalizer, In, Retry, Releasing
  <2>3. Kept(pass.p) \/ Dropped(pass.p)
    BY <2>1, <2>2 DEF Kept, Dropped, Resource
  <2>4. \A q \in Profiles : q # pass.p => Kept(q)
    BY <2>1, <2>2, Zenon DEF Kept
  <2> QED
    BY <2>2, <2>3, <2>4, Zenon DEF Continues
<1>5. ASSUME NEW p \in Profiles, NEW doc \in Docs, CreateProfile(p, doc) PROVE Created(p)
  <2>1. PICK time \in {born, born + 1} :
           /\ prof' = [prof EXCEPT ![p] = [NoProf EXCEPT !.exists = TRUE, !.uid = born + 1,
                        !.time = time, !.gen = 1, !.doc = doc]]
           /\ (~Ties => time = born + 1)
    BY <1>5, Zenon DEF CreateProfile
  <2>2. /\ born' = born + 1 /\ ~prof[p].exists /\ UNCHANGED <<job, recorded, pass>>
        /\ job[p].del = NoJob /\ cache.job[p].del = NoJob
    BY <1>5 DEF CreateProfile, Vacant, history
  <2> QED
    BY <2>1, <2>2, Zenon DEF Created, NoProf
<1>6. ASSUME NEW p \in Profiles, NEW doc \in Docs, EditProfile(p, doc) PROVE Continues
  <2>1. prof' = [prof EXCEPT ![p].doc = doc, ![p].gen = @ + 1] /\ prof[p].exists
    BY <1>6, Zenon DEF EditProfile
  <2>2. born' = born
    BY <1>6, Zenon DEF EditProfile
  <2> QED
    BY <2>1, <2>2, Zenon DEF Continues, Kept, Dropped, Releasing, Resource
<1>7. ASSUME NEW p \in Profiles, DeleteProfile(p) PROVE Continues
  <2>1. /\ \/ prof' = [prof EXCEPT ![p].deleting = TRUE]
           \/ prof' = [prof EXCEPT ![p] = NoProf] /\ ~prof[p].fin
        /\ prof[p].exists
    BY <1>7, Zenon DEF DeleteProfile
  <2>2. born' = born
    BY <1>7, Zenon DEF DeleteProfile
  <2> QED
    BY <2>1, <2>2 DEF Continues, Kept, Dropped, Releasing, Resource
<1>8. CASE UNCHANGED vars
  BY <1>8, <1>1, Zenon DEF vars
<1>9. ASSUME NEW p \in Profiles, Serve(p) PROVE Continues
  <2>1. AddFinalizer(p) \/ UNCHANGED <<prof, born>>
    BY <1>9, Zenon DEF Serve, Skip, Judge, Supersede, LaunchRegister, ObserveRegister,
       Registering,
         Hold, LaunchDelete, ReplaceDelete, deleteFlowProfileChildren
  <2> QED
    BY <2>1, <1>1, <1>2, Zenon
<1>10. CASE Cluster
  <2>1. UNCHANGED <<prof, born>>
    BY <1>10, Zenon DEF Cluster, RunRegister, RunDelete, Collect, JobGone, SchemaReady
  <2> QED
    BY <2>1, <1>1, Zenon
<1>11. CASE Environment
  <2>1. \/ UNCHANGED <<prof, born>>
        \/ \E p \in Profiles : DeleteProfile(p)
        \/ \E p \in Profiles, doc \in Docs : CreateProfile(p, doc) \/ EditProfile(p, doc)
    BY <1>11, Zenon DEF Environment, JobFail, LinkFlow, UnlinkFlow, Upgrade, DeleteTamoss,
         TamossGone, CreateTamoss, Crash
  <2> QED
    BY <2>1, <1>1, <1>5, <1>6, <1>7, Zenon
<1>12. ASSUME NEW k \in Lagging, Sync(k) PROVE Continues
  BY <1>12, <1>1, Zenon DEF Sync
<1> QED
  BY <1>3, <1>4, <1>8, <1>9, <1>10, <1>11, <1>12, Zenon DEF Next, Worker

LEMMA NumberedStep ==
    ASSUME Shape, Numbered, [Next]_vars
    PROVE  Numbered'
<1>1. CASE Continues
  <2>1. NoProf.exists = FALSE /\ \A q \in Profiles : prof[q].gen \in Nat
    BY Zenon DEF NoProf, Shape, Objects, Resource
  <2> QED
    BY <1>1, <2>1 DEF Continues, Kept, Dropped, Numbered
<1>2. ASSUME NEW p \in Profiles, Created(p) PROVE Numbered'
  <2>1. born \in Nat /\ \A q \in Profiles : prof[q].uid \in Nat /\ prof[q].gen \in Nat
    BY Zenon DEF Shape, Objects, Resource
  <2> QED
    BY <1>2, <2>1 DEF Created, Numbered
<1> QED
  BY <1>1, <1>2, ProfEffect, Zenon

LEMMA DatedStep ==
    ASSUME ~Ties, Shape, Dated, [Next]_vars
    PROVE  Dated'
<1>1. NoProf.exists = FALSE
  BY Zenon DEF NoProf
<1> QED
  BY <1>1, ProfEffect, ZenonT(40) DEF Continues, Kept, Dropped, Created, Dated

\* Once older than every other claim, a number stays so: new claims are younger.
LEMMA OldestStays ==
    ASSUME Shape, [Next]_vars, NEW u \in Nat, u <= born, NEW p, Oldest(u, p)
    PROVE  \A q \in Profiles \ {p} : Claims(q)' => u < prof'[q].uid
<1>1. born \in Nat
  BY Zenon DEF Shape
<1>2. CASE Continues
  <2>1. \A q \in Profiles : Claims(q)' => Claims(q) /\ prof'[q].uid = prof[q].uid
    BY <1>2 DEF Continues, Kept, Dropped, Claims, NoProf
  <2> QED
    BY <2>1, Zenon DEF Oldest
<1>3. ASSUME NEW c \in Profiles, Created(c)
      PROVE  \A q \in Profiles \ {p} : Claims(q)' => u < prof'[q].uid
  BY <1>1, <1>3 DEF Created, Oldest, Claims
<1> QED
  BY <1>2, <1>3, ProfEffect, Zenon

\* A non-empty set of numbers has a least one.
LEMMA LeastNumber ==
    ASSUME NEW T, T \subseteq Nat, T # {}
    PROVE  \E m \in T : \A n \in T : m <= n
<1>1. \E m \in T : \A n \in T : ~(<<n, m>> \in OpToRel(<, Nat))
  BY NatLessThanWellFounded, WFMin, Zenon
<1>2. PICK m \in T : \A n \in T : ~(<<n, m>> \in OpToRel(<, Nat))
  BY <1>1, Zenon
<1>3. ASSUME NEW n \in T PROVE m <= n
  <2>1. ~(<<n, m>> \in OpToRel(<, Nat))
    BY <1>2, Zenon
  <2>2. n < m => <<n, m>> \in OpToRel(<, Nat)
    BY Zenon DEF OpToRel
  <2>3. ~(n < m)
    BY <2>1, <2>2, Zenon
  <2>4. m \in Nat /\ n \in Nat
    BY Zenon
  <2> QED
    BY <2>3, <2>4
<1> QED
  BY <1>3, Zenon

\* flowProfileIDWinner: without ties the winner is the oldest claim.
LEMMA WinnerIsOldest ==
    ASSUME Shape, Numbered, Dated, cache.prof = prof, NEW p \in Profiles, prof[p].exists,
           flowProfileIDWinner(p) = p
    PROVE  Oldest(prof[p].uid, p)
<1> DEFINE C == flowProfileIDCandidates(p)
           Best(q) == \A o \in C \ {q} : Older(q, o)
<1>1. C \subseteq Profiles /\ p \in C /\ \A q \in C : prof[q].exists
  BY Zenon DEF flowProfileIDCandidates
<1>2. \A q \in Profiles \ {p} : Claims(q) => q \in C
  BY Zenon DEF flowProfileIDCandidates, Claims
<1>3. \A q, o \in C : q # o => (Older(q, o) <=> prof[q].uid < prof[o].uid)
  <2>1. \A q \in C : prof[q].time = prof[q].uid /\ prof[q].uid \in Nat
    BY <1>1, Zenon DEF Dated, Shape, Objects, Resource
  <2>2. \A q, o \in C : q # o => prof[q].uid # prof[o].uid
    BY <1>1, Zenon DEF Numbered
  <2> QED
    BY <2>1, <2>2 DEF Older
<1>4. \E q \in C : Best(q)
  <2> DEFINE T == {prof[q].uid : q \in C}
  <2>1. T \subseteq Nat /\ T # {}
    BY <1>1 DEF Shape, Objects, Resource
  <2>2. PICK m \in T : \A n \in T : m <= n
    BY <2>1, LeastNumber, Zenon
  <2>3. PICK q \in C : prof[q].uid = m
    BY <2>2, Zenon
  <2>4. \A o \in C \ {q} : prof[q].uid < prof[o].uid
    <3>1. \A o \in C \ {q} : m <= prof[o].uid /\ prof[o].uid \in Nat /\ m \in Nat
      BY <2>1, <2>2, Zenon
    <3>2. \A o \in C \ {q} : prof[o].uid # m
      BY <1>1, <2>3, Zenon DEF Numbered
    <3> QED
      BY <3>1, <3>2, <2>3
  <2>5. Best(q)
    BY <2>4, <1>3, Zenon
  <2> QED
    BY <2>5, Zenon
<1>5. p = CHOOSE q \in C : Best(q)
  BY <1>1, Zenon DEF flowProfileIDWinner
<1>6. Best(p)
  BY <1>4, <1>5, Zenon
<1> QED
  BY <1>1, <1>2, <1>3, <1>6, Zenon DEF Oldest

\* A pass that registers the Profile, or finds it registered, is the winner's.
LEMMA VerdictOfWinner ==
    ASSUME NEW p, NEW s, Verdict(p, s) \in {"Ready", "register"}
    PROVE  flowProfileIDWinner(p) = p /\ s.doc \notin BadDocs
  BY Zenon DEF Verdict, resolveFlowProfile

LEMMA VerdictReady ==
    ASSUME NEW p, NEW s, Verdict(p, s) = "register"
    PROVE  cache.state[p].doc # s.doc
  BY Zenon DEF Verdict, flowProfileRegistered

LEMMA VerdictType ==
    \A p, s : Verdict(p, s) \in {"Degraded", "Pending", "duplicate", "Ready", "register"}
  BY Zenon DEF Verdict

-----------------------------------------------------------------------------
(* One owner.                                                              *)

\* A claim that is Ready, or about to be, is the oldest.
Owners ==
    /\ cache.prof = prof
    /\ \A p \in Profiles : Claims(p) /\ prof[p].phase = "Ready" => Oldest(prof[p].uid, p)
    /\ pass.at = "status" => pass.s.uid <= born
    /\ pass.at = "status" /\ pass.out = "Ready" => Oldest(pass.s.uid, pass.p)

\* Every step either keeps the caches of the kinds that do not lag current, or
\* delivers one that lags, or changes nothing.
LEMMA CacheEffect ==
    ASSUME [Next]_vars
    PROVE  Observe \/ (\E k \in Lagging : Sync(k)) \/ UNCHANGED vars
<1>1. CASE Worker
  BY <1>1, ZenonT(40) DEF Worker, Serve, Skip, AddFinalizer, Judge, Supersede, LaunchRegister,
       ObserveRegister, Registering, Hold, LaunchDelete, ReplaceDelete,
       deleteFlowProfileChildren, updateFlowProfileStatus, removeFlowProfileFinalizer,
       Retry, Then
<1>2. CASE Cluster
  BY <1>2, Zenon DEF Cluster, RunRegister, RunDelete, Collect, JobGone, SchemaReady,
       Elsewhere, Then
<1>3. CASE Environment
  BY <1>3, Zenon DEF Environment, DeleteProfile, CreateProfile, EditProfile, JobFail,
       LinkFlow, UnlinkFlow, Upgrade, DeleteTamoss, TamossGone, CreateTamoss, Crash,
       Elsewhere, Then
<1> QED
  BY <1>1, <1>2, <1>3, Zenon DEF Next

\* The cache of a kind that is read up to date follows every step.
LEMMA CurrentStep ==
    ASSUME Shape, [Next]_vars
    PROVE  /\ ("prof" \notin Lagging /\ cache.prof = prof => cache'.prof = prof')
           /\ ("state" \notin Lagging /\ cache.state = state => cache'.state = state')
<1>1. CASE Observe
  BY <1>1, Zenon DEF Observe
<1>2. ASSUME NEW k \in Lagging, Sync(k)
      PROVE  /\ ("prof" \notin Lagging /\ cache.prof = prof => cache'.prof = prof')
             /\ ("state" \notin Lagging /\ cache.state = state => cache'.state = state')
  <2>1. cache' = [cache EXCEPT ![k] = live[k]] /\ prof' = prof /\ state' = state
    BY <1>2, Zenon DEF Sync
  <2> QED
    BY <1>2, <2>1, Zenon DEF Shape, Cached
<1>3. CASE UNCHANGED vars
  BY <1>3, Zenon DEF vars
<1> QED
  BY <1>1, <1>2, <1>3, CacheEffect, Zenon

\* What a step does to the pass: it goes on, ends, or a new one reports.
LEMMA PassEffect ==
    ASSUME Shape, [Next]_vars
    PROVE  \/ pass' = pass
           \/ pass'.at # "status"
           \/ \E p \in Profiles, out \in Outcome :
                /\ pass' = [at |-> "status", p |-> p, s |-> cache.prof[p], out |-> out]
                /\ cache.prof[p].exists
                /\ UNCHANGED <<prof, born>>
                /\ (out = "Ready" => flowProfileIDWinner(p) = p)
<1>1. CASE pass' = pass \/ pass' = Idle
  BY <1>1, SMTT(20) DEF Idle
<1>2. ASSUME NEW p \in Profiles, Serve(p)
      PROVE  \/ pass' = pass \/ pass'.at # "status"
             \/ \E out \in Outcome :
                  /\ pass' = [at |-> "status", p |-> p, s |-> cache.prof[p], out |-> out]
                  /\ cache.prof[p].exists
                  /\ UNCHANGED <<prof, born>>
                  /\ (out = "Ready" => flowProfileIDWinner(p) = p)
  <2>1. CASE Skip(p) \/ AddFinalizer(p)
    BY <2>1, Zenon DEF Skip, AddFinalizer
  <2>2. CASE Judge(p)
    BY <2>2, VerdictOfWinner, VerdictType DEF Judge, Report, Working, Outcome
  <2>3. CASE Supersede(p)
    BY <2>3, Zenon DEF Supersede, Report, Working, Outcome
  <2>4. CASE LaunchRegister(p)
    BY <2>4 DEF LaunchRegister, Registering, Report, Working, Retry, Idle, Outcome
  <2>5. CASE ObserveRegister(p)
    <3>1. flowProfileIDWinner(p) = p
      BY <2>5, VerdictOfWinner DEF ObserveRegister, Registering
    <3> QED
      BY <2>5, <3>1, Zenon DEF ObserveRegister, Registering, Report, Working, Outcome
  <2>6. CASE Hold(p)
    BY <2>6, SMTT(20) DEF Hold, Finalising, Report, Working, Retry, Idle, Outcome
  <2>7. CASE LaunchDelete(p)
    BY <2>7 DEF LaunchDelete, Finalising, Report, Working, Retry, Idle, Outcome
  <2>8. CASE ReplaceDelete(p)
    BY <2>8 DEF ReplaceDelete, Finalising, Report, Working, Retry, Idle, Outcome
  <2>9. CASE deleteFlowProfileChildren(p)
    <3>1. pass' = [Idle EXCEPT !.at = "release", !.p = p]
      BY <2>9, Zenon DEF deleteFlowProfileChildren
    <3> QED
      BY <3>1, Zenon DEF Idle
  <2> QED
    BY <1>2, <2>1, <2>2, <2>3, <2>4, <2>5, <2>6, <2>7, <2>8, <2>9, ZenonT(40) DEF Serve
<1>3. CASE updateFlowProfileStatus \/ removeFlowProfileFinalizer
  BY <1>3, <1>1, Zenon DEF updateFlowProfileStatus, removeFlowProfileFinalizer, Retry
<1>4. CASE Cluster \/ Environment \/ (\E k \in Lagging : Sync(k)) \/ UNCHANGED vars
  BY <1>4, <1>1, Zenon DEF Cluster, RunRegister, RunDelete, Collect, JobGone, SchemaReady,
       Environment, DeleteProfile, CreateProfile, EditProfile, JobFail, LinkFlow,
       UnlinkFlow, Upgrade, DeleteTamoss, TamossGone, CreateTamoss, Crash, Sync, vars
<1> QED
  BY <1>2, <1>3, <1>4, Zenon DEF Next, Worker

LEMMA OwnersStep ==
    ASSUME "prof" \notin Lagging, Shape, Numbered, Dated, Owners, [Next]_vars
    PROVE  Owners'
<1>1. cache'.prof = prof'
  BY CurrentStep, Zenon DEF Owners
<1>2. ASSUME NEW p \in Profiles, prof[p].exists PROVE prof[p].uid \in Nat /\ prof[p].uid <= born
  BY <1>2, Zenon DEF Numbered, Shape, Objects, Resource
<1>3. ASSUME NEW p \in Profiles, Claims(p)', prof'[p].phase = "Ready"
      PROVE  \A q \in Profiles \ {p} : Claims(q)' => prof'[p].uid < prof'[q].uid
  <2>1. Claims(p) /\ prof'[p].uid = prof[p].uid /\ Kept(p)
    <3>1. CASE Continues
      <4>1. Kept(p)
        BY <3>1, <1>3 DEF Continues, Dropped, Claims, NoProf
      <4> QED
        BY <4>1, <1>3, Zenon DEF Kept, Claims
    <3>2. ASSUME NEW q \in Profiles, Created(q) PROVE p # q /\ prof'[p] = prof[p]
      BY <3>2, <1>3, Zenon DEF Created
    <3> QED
      BY <3>1, <3>2, <1>3, ProfEffect, ZenonT(30) DEF Claims, Kept
  <2>2. Oldest(prof[p].uid, p)
    <3>1. CASE prof[p].phase = "Ready"
      BY <3>1, <2>1, Zenon DEF Owners
    <3>2. CASE prof[p].phase # "Ready"
      BY <3>2, <2>1, <1>3, Zenon DEF Owners, Kept, In
    <3> QED
      BY <3>1, <3>2, Zenon
  <2> QED
    BY <2>1, <2>2, <1>2, OldestStays, Zenon DEF Claims
<1>4. ASSUME pass'.at = "status"
      PROVE  /\ pass'.s.uid <= born'
             /\ (pass'.out = "Ready" => Oldest(pass.s.uid, pass.p)')
  <2>1. CASE pass' = pass
    <3>1. pass.s.uid \in Nat
      BY Zenon DEF Shape, Pass, Resource
    <3>2. pass.s.uid <= born
      BY <2>1, <1>4, Zenon DEF Owners
    <3>3. born' = born \/ born' = born + 1
      BY ProfEffect, Zenon DEF Continues, Created
    <3>4. pass.out = "Ready" => Oldest(pass.s.uid, pass.p)
      BY <2>1, <1>4, Zenon DEF Owners
    <3>5. pass.out = "Ready" =>
             \A q \in Profiles \ {pass.p} : Claims(q)' => pass.s.uid < prof'[q].uid
      BY <3>1, <3>2, <3>4, OldestStays, Zenon
    <3> QED
      BY <2>1, <3>1, <3>2, <3>3, <3>5 DEF Shape, Oldest
  <2>2. CASE pass' # pass
    <3>1. PICK p \in Profiles, out \in Outcome :
             /\ pass' = [at |-> "status", p |-> p, s |-> cache.prof[p], out |-> out]
             /\ cache.prof[p].exists
             /\ UNCHANGED <<prof, born>>
             /\ (out = "Ready" => flowProfileIDWinner(p) = p)
      BY <2>2, <1>4, PassEffect, Zenon
    <3>2. pass'.s = prof[p] /\ prof[p].exists /\ pass'.p = p /\ pass'.out = out
      BY <3>1, Zenon DEF Owners
    <3>3. out = "Ready" => Oldest(prof[p].uid, p)
      BY <3>1, <3>2, WinnerIsOldest, SMTT(20) DEF Owners
    <3>4. \A q \in Profiles : Claims(q)' <=> Claims(q)
      BY <3>1, Zenon DEF Claims
    <3> QED
      BY <3>1, <3>2, <3>3, <3>4, <1>2, Zenon DEF Oldest
  <2> QED
    BY <2>1, <2>2, Zenon
<1>5. \A p \in Profiles : Claims(p)' /\ prof'[p].phase = "Ready" => Oldest(prof[p].uid, p)'
  BY <1>3, Zenon DEF Oldest
<1> QED
  BY <1>1, <1>4, <1>5, Zenon DEF Owners

LEMMA OwnersInit ==
    ASSUME Init
    PROVE  Numbered /\ Dated /\ Owners
<1>1. prof = [p \in Profiles |-> NoProf] /\ cache.prof = prof /\ pass.at = "idle"
  BY Zenon DEF Init, live, Idle
<1>2. ~NoProf.exists
  BY DEF NoProf
<1>3. \A p \in Profiles : ~prof[p].exists
  BY <1>1, <1>2, Zenon
<1> QED
  BY <1>1, <1>3, Zenon DEF Numbered, Dated, Owners, Claims

\* If FlowProfiles are read up to date and no two are created at the same time,
\* at most one of those that claim a UUID is Ready, for every set of them.
THEOREM OneOwnerTheorem ==
    ASSUME "prof" \notin Lagging, ~Ties
    PROVE  Spec => []OneOwner
<1> DEFINE Inv == Shape /\ Numbered /\ Dated /\ Owners
<1>1. Init => Inv
  BY ShapeInit, OwnersInit, Zenon
<1>2. Inv /\ [Next]_vars => Inv'
  BY ShapeStep, NumberedStep, DatedStep, OwnersStep, Zenon
<1>3. Inv => OneOwner
  <2> SUFFICES ASSUME Inv, NEW p \in Profiles, NEW q \in Profiles,
                      ReportsReady(p), ReportsReady(q), p # q
               PROVE  FALSE
    BY Zenon DEF OneOwner
  <2>1. prof[p].uid \in Nat /\ prof[q].uid \in Nat
    BY Zenon DEF Shape, Objects, Resource
  <2>2. prof[p].uid < prof[q].uid /\ prof[q].uid < prof[p].uid
    BY Zenon DEF Owners, ReportsReady, Oldest
  <2> QED
    BY <2>1, <2>2
<1> QED
  BY <1>1, <1>2, <1>3, PTL DEF Spec

-----------------------------------------------------------------------------
(* Who deletes the Profile.                                                *)

\* A delete Job is launched while there is no other claim, and so is older
\* than all that come later, its own successor's included.
Deleters ==
    \A p \in Profiles : job[p].del # NoJob =>
        /\ job[p].del.owner <= born
        /\ \A q \in Profiles : Claims(q) => job[p].del.owner < prof[q].uid

\* A Job keeps its owner, and its phase unless its Pod ends; a delete Job that
\* succeeds leaves no Profile.
Same(p, k) ==
    /\ job[p][k] # NoJob /\ job'[p][k].owner = job[p][k].owner
    /\ \/ job'[p][k].phase = job[p][k].phase
       \/ /\ job[p][k].phase = "active" /\ job'[p][k].phase # "active"
          /\ (k = "del" /\ job'[p][k].phase = "succeeded" => row' = 0)

\* A Job is launched by its own resource, for which the cache shows none.
Launched(p, k) ==
    /\ cache.job[p][k] = NoJob
    /\ job'[p][k].owner = cache.prof[p].uid /\ job'[p][k].phase = "active"
    /\ (k = "reg" => LaunchRegister(p)) /\ (k = "del" => LaunchDelete(p))

LEMMA LaunchEffect ==
    ASSUME Shape, NEW p \in Profiles, NEW q \in Profiles, NEW k \in JobKinds, NEW l \in JobKinds,
           cache.job[q][l] = NoJob,
           (l = "reg" => LaunchRegister(q)), (l = "del" => LaunchDelete(q)),
           job' = Applied(q, l, flowProfileJob(cache.prof[q], tamoss.version))
    PROVE  job'[p][k] = NoJob \/ Same(p, k) \/ Launched(p, k)
<1>1. CASE job' = job
  BY <1>1, Zenon DEF Same
<1>2. CASE job' # job
  <2>1. job' = [job EXCEPT ![q][l] = flowProfileJob(cache.prof[q], tamoss.version)]
    BY <1>2, Zenon DEF Applied
  <2>2. /\ flowProfileJob(cache.prof[q], tamoss.version).owner = cache.prof[q].uid
        /\ flowProfileJob(cache.prof[q], tamoss.version).phase = "active"
    BY Zenon DEF flowProfileJob
  <2>3. CASE p = q /\ k = l
    <3>1. job'[p][k] = flowProfileJob(cache.prof[q], tamoss.version)
      BY <2>1, <2>3, SMTT(20) DEF Shape, Objects, JobPair, JobKinds
    <3> QED
      BY <2>2, <2>3, <3>1, Zenon DEF Launched
  <2>4. CASE ~(p = q /\ k = l)
    <3>1. job'[p][k] = job[p][k]
      BY <2>1, <2>4 DEF Shape, Objects, JobPair, JobKinds
    <3> QED
      BY <3>1, SMTT(20) DEF Same
  <2> QED
    BY <2>3, <2>4, Zenon
<1> QED
  BY <1>1, <1>2, Zenon

LEMMA JobEffect ==
    ASSUME Shape, [Next]_vars, NEW p \in Profiles, NEW k \in JobKinds
    PROVE  job'[p][k] = NoJob \/ Same(p, k) \/ Launched(p, k)
<1> DEFINE Goal == job'[p][k] = NoJob \/ Same(p, k) \/ Launched(p, k)
<1>1. ASSUME job'[p][k] = job[p][k] PROVE Goal
  BY <1>1, Zenon DEF Same
<1>2. job \in [Profiles -> JobPair] /\ job[p][k] \in JobObject
  BY Zenon DEF Shape, Objects, JobPair, JobKinds
<1>3. ASSUME job'[p][k] = Terminated(job[p][k]) PROVE Goal
  BY <1>2, <1>3, TerminatedShape, Zenon DEF Same
<1>4. ASSUME NEW q \in Profiles, Serve(q) PROVE Goal
  <2>1. CASE LaunchRegister(q)
    <3>1. /\ cache.job[q]["reg"] = NoJob
          /\ job' = Applied(q, "reg", flowProfileJob(cache.prof[q], tamoss.version))
      BY <2>1, ZenonT(30) DEF LaunchRegister
    <3> QED
      BY <2>1, <3>1, LaunchEffect, Zenon DEF JobKinds
  <2>2. CASE LaunchDelete(q)
    <3>1. FinalStage(q, cache.prof[q]) = "launch"
      BY <2>2, Zenon DEF LaunchDelete, Finalising
    <3>2. /\ cache.job[q]["del"] = NoJob
          /\ job' = Applied(q, "del", flowProfileJob(cache.prof[q], tamoss.version))
      BY <2>2, <3>1, Zenon DEF LaunchDelete, FinalStage
    <3> QED
      BY <2>2, <3>2, LaunchEffect, Zenon DEF JobKinds
  <2>3. CASE ReplaceDelete(q)
    <3>1. job' = [job EXCEPT ![q].del = Terminated(@)]
      BY <2>3, Zenon DEF ReplaceDelete
    <3>2. job'[p][k] = job[p][k] \/ job'[p][k] = Terminated(job[p][k])
      BY <1>2, <3>1, Zenon DEF JobPair, JobKinds
    <3> QED
      BY <3>2, <1>1, <1>3, Zenon
  <2>4. CASE deleteFlowProfileChildren(q)
    <3>1. \/ job' = job
          \/ \E r \in {job[q].reg, Terminated(job[q].reg)},
                d \in {job[q].del, Terminated(job[q].del)} :
                job' = [job EXCEPT ![q] = [reg |-> r, del |-> d]]
      BY <2>4, <1>2, Zenon DEF deleteFlowProfileChildren
    <3>2. job'[p][k] = job[p][k] \/ job'[p][k] = Terminated(job[p][k])
      BY <1>2, <3>1 DEF JobPair, JobKinds
    <3> QED
      BY <3>2, <1>1, <1>3, Zenon
  <2>5. CASE Skip(q) \/ AddFinalizer(q) \/ Judge(q) \/ Hold(q)
    <3>1. job' = job
      BY <2>5, Zenon DEF Skip, AddFinalizer, Judge, Hold
    <3> QED
      BY <3>1, <1>1, Zenon
  <2>6. CASE Supersede(q) \/ ObserveRegister(q)
    <3>1. job' = job \/ job' = [job EXCEPT ![q].reg = Terminated(@)]
      BY <2>6, Zenon DEF Supersede, ObserveRegister
    <3>2. job'[p][k] = job[p][k] \/ job'[p][k] = Terminated(job[p][k])
      BY <1>2, <3>1 DEF JobPair, JobKinds
    <3> QED
      BY <3>2, <1>1, <1>3, Zenon
  <2> QED
    BY <1>4, <2>1, <2>2, <2>3, <2>4, <2>5, <2>6, Zenon DEF Serve
<1>5. ASSUME NEW q \in Profiles, NEW l \in JobKinds, NEW f \in JobPhase, NEW c \in Nat,
             job[q][l].phase = "active", Finish(q, l, f, c), f # "active",
             l = "del" /\ f = "succeeded" => row' = 0
      PROVE  Goal
  <2>1. job[q][l] # NoJob
    BY <1>5, SMTT(20) DEF NoJob
  <2>2. CASE p = q /\ k = l
    BY <2>1, <2>2, <1>5, FinishShape, ZenonT(40) DEF Same
  <2>3. CASE ~(p = q /\ k = l)
    <3>1. job'[p][k] = job[p][k]
      BY <2>3, <1>5, FinishShape
    <3> QED
      BY <3>1, <1>1, Zenon
  <2> QED
    BY <2>2, <2>3, Zenon
<1>6. CASE Cluster
  <2>1. ASSUME NEW q \in Profiles, RunRegister(q) PROVE Goal
    <3>1. \E f \in {"succeeded", "failed"}, c \in Nat :
             Finish(q, "reg", f, c) /\ job[q]["reg"].phase = "active"
      BY <2>1, Zenon DEF RunRegister, Running, ExitInvalid, ExitConflict
    <3> QED
      BY <3>1, <1>5, Zenon DEF JobKinds, JobPhase
  <2>2. ASSUME NEW q \in Profiles, RunDelete(q) PROVE Goal
    <3>1. \E f \in {"succeeded", "failed"}, c \in Nat :
             /\ Finish(q, "del", f, c) /\ job[q]["del"].phase = "active"
             /\ (f = "succeeded" => row' = 0)
      BY <2>2, Zenon DEF RunDelete, Running, ExitInUse
    <3> QED
      BY <3>1, <1>5, Zenon DEF JobKinds, JobPhase
  <2>3. ASSUME NEW q \in Profiles, Collect(q) PROVE Goal
    <3>1. \E r \in {NoJob, job[q].reg}, d \in {NoJob, job[q].del} :
             job' = [job EXCEPT ![q] = [reg |-> r, del |-> d]]
      BY <2>3, <1>2, Zenon DEF Collect
    <3>2. job'[p][k] = NoJob \/ job'[p][k] = job[p][k]
      BY <3>1, <1>2 DEF JobPair, JobKinds
    <3> QED
      BY <3>2, <1>1, Zenon
  <2>4. ASSUME NEW q \in Profiles, NEW l \in JobKinds, JobGone(q, l) PROVE Goal
    <3>1. job'[p][k] = NoJob \/ job'[p][k] = job[p][k]
      BY <2>4, <1>2, Zenon DEF JobGone, JobKinds, JobPair
    <3> QED
      BY <3>1, <1>1, Zenon
  <2>5. CASE SchemaReady
    BY <2>5, <1>1, Zenon DEF SchemaReady
  <2> QED
    BY <1>6, <2>1, <2>2, <2>3, <2>4, <2>5, Zenon DEF Cluster
<1>7. CASE Environment
  <2>1. ASSUME NEW q \in Profiles, NEW l \in JobKinds, JobFail(q, l) PROVE Goal
    <3>1. Finish(q, l, "failed", Crashed) /\ job[q][l].phase = "active" /\ Crashed \in Nat
      BY <2>1, Zenon DEF JobFail, Crashed
    <3> QED
      BY <3>1, <1>5, Zenon DEF JobPhase
  <2>2. \/ UNCHANGED job
        \/ \E q \in Profiles, l \in JobKinds : JobFail(q, l)
    BY <1>7, Zenon DEF Environment, DeleteProfile, CreateProfile, EditProfile, LinkFlow,
         UnlinkFlow, Upgrade, DeleteTamoss, TamossGone, CreateTamoss, Crash
  <2> QED
    BY <2>1, <2>2, <1>1, Zenon
<1>8. CASE updateFlowProfileStatus \/ removeFlowProfileFinalizer
           \/ (\E l \in Lagging : Sync(l)) \/ UNCHANGED vars
  BY <1>8, <1>1, Zenon DEF updateFlowProfileStatus, removeFlowProfileFinalizer, Sync, vars
<1> QED
  BY <1>4, <1>6, <1>7, <1>8, Zenon DEF Next, Worker

\* finaliseFlowProfile goes on to the delete Job only without a rival claim.
LEMMA SoleClaim ==
    ASSUME NEW p \in Profiles, ~(\E q \in flowProfileIDCandidates(p) : q # p),
           NEW c \in Profiles, cache.prof[c].exists, ~cache.prof[c].deleting
    PROVE  c = p
  BY Zenon DEF flowProfileIDCandidates

LEMMA DeletersStep ==
    ASSUME Shape, Numbered, cache.prof = prof, Deleters, [Next]_vars
    PROVE  Deleters'
<1> SUFFICES ASSUME NEW p \in Profiles, job'[p].del # NoJob
             PROVE  /\ job'[p].del.owner <= born'
                    /\ \A q \in Profiles : Claims(q)' => job'[p].del.owner < prof'[q].uid
  BY SMTT(20) DEF Deleters
<1>1. born \in Nat /\ job[p].del.owner \in Nat
  BY Zenon DEF Shape, Objects, JobPair, JobObject
<1>2. CASE job[p].del # NoJob /\ job'[p].del.owner = job[p].del.owner
  <2>1. /\ job[p].del.owner <= born
        /\ \A q \in Profiles : Claims(q) => job[p].del.owner < prof[q].uid
    BY <1>2, Zenon DEF Deleters
  <2>2. CASE Continues
    <3>1. \A q \in Profiles : Claims(q)' => Claims(q) /\ prof'[q].uid = prof[q].uid
      BY <2>2, SMTT(20) DEF Continues, Kept, Dropped, Claims, NoProf
    <3> QED
      BY <2>1, <2>2, <3>1, <1>2, ZenonT(30) DEF Continues
  <2>3. ASSUME NEW c \in Profiles, Created(c)
        PROVE  /\ job'[p].del.owner <= born'
               /\ \A q \in Profiles : Claims(q)' => job'[p].del.owner < prof'[q].uid
    BY <1>1, <1>2, <2>1, <2>3, SMTT(20) DEF Created, Claims
  <2> QED
    BY <2>2, <2>3, ProfEffect, Zenon
<1>3. CASE LaunchDelete(p) /\ job'[p].del.owner = cache.prof[p].uid
  <2>1. /\ prof' = prof /\ born' = born
        /\ prof[p].exists /\ prof[p].deleting
        /\ FinalStage(p, cache.prof[p]) = "launch"
    BY <1>3, Zenon DEF LaunchDelete, Finalising, Working
  <2>2. ~(\E q \in flowProfileIDCandidates(p) : q # p)
    BY <2>1, Zenon DEF FinalStage
  <2>3. \A q \in Profiles : ~Claims(q)
    BY <2>1, <2>2, SoleClaim, Zenon DEF Claims
  <2>4. \A q \in Profiles : ~Claims(q)'
    BY <2>1, <2>3, Zenon DEF Claims
  <2>5. prof[p].uid <= born
    BY <2>1, Zenon DEF Numbered
  <2> QED
    BY <1>3, <2>1, <2>4, <2>5, ZenonT(30)
<1> QED
  <2>1. \/ job[p].del # NoJob /\ job'[p].del.owner = job[p].del.owner
        \/ LaunchDelete(p) /\ job'[p].del.owner = cache.prof[p].uid
    BY JobEffect, Zenon DEF Same, Launched, JobKinds
  <2> QED
    BY <1>2, <1>3, <2>1, Zenon

\* If FlowProfiles are read up to date, a delete Job removes the Profile only
\* for a resource that is older than every live claim.
THEOREM OnlyOwnerTheorem ==
    ASSUME "prof" \notin Lagging
    PROVE  Spec => OnlyOwnerDeletes
<1> DEFINE Inv == Shape /\ Numbered /\ cache.prof = prof /\ Deleters
<1>1. Init => Inv
  <2> SUFFICES ASSUME Init PROVE Inv
    BY Zenon
  <2>1. \A p \in Profiles : job[p].del = NoJob
    BY Zenon DEF Init
  <2> QED
    BY <2>1, ShapeInit, OwnersInit, Zenon DEF Deleters, Owners
<1>2. Inv /\ [Next]_vars => Inv'
  BY ShapeStep, NumberedStep, CurrentStep, DeletersStep, Zenon
<1>3. Inv /\ [Next]_vars =>
         [row # 0 /\ row' = 0 /\ tamoss' = tamoss =>
            \E p \in Profiles :
                /\ job[p].del.phase = "active"
                /\ \A q \in Profiles : Claims(q) => job[p].del.owner < prof[q].uid]_vars
  <2> SUFFICES ASSUME Inv, [Next]_vars, row # 0, row' = 0, tamoss' = tamoss
               PROVE  \E p \in Profiles :
                        /\ job[p].del.phase = "active"
                        /\ \A q \in Profiles : Claims(q) => job[p].del.owner < prof[q].uid
    BY Zenon
  <2>1. \E p \in Profiles : RunDelete(p)
    <3>1. ASSUME NEW p \in Profiles, RunRegister(p) PROVE FALSE
      <4>1. row' = row \/ row' = document[p]
        BY <3>1, Zenon DEF RunRegister, ensure
      <4>2. document[p] # 0
        BY <3>1, Zenon DEF RunRegister
      <4> QED
        BY <4>1, <4>2, Zenon
    <3>2. ~TamossGone
      BY ZenonT(30) DEF TamossGone, Shape, Target
    <3>3. ASSUME NEW p \in Profiles, Serve(p) PROVE FALSE
      BY <3>3, Zenon DEF Serve, Skip, AddFinalizer, Judge, Supersede, LaunchRegister,
           ObserveRegister, Registering, Hold, LaunchDelete, ReplaceDelete,
           deleteFlowProfileChildren, world
    <3>4. ~Environment
      BY <3>2, Zenon DEF Environment, DeleteProfile, CreateProfile, EditProfile, JobFail,
         LinkFlow,
           UnlinkFlow, Upgrade, DeleteTamoss, CreateTamoss, Crash, world
    <3>5. ~(updateFlowProfileStatus \/ removeFlowProfileFinalizer
            \/ (\E k \in Lagging : Sync(k)) \/ UNCHANGED vars)
      BY Zenon DEF updateFlowProfileStatus, removeFlowProfileFinalizer, Sync, vars, world
    <3> QED
      BY <3>1, <3>3, <3>4, <3>5, ZenonT(40) DEF Next, Worker, Cluster, Collect, JobGone,
         SchemaReady, world
  <2>2. PICK p \in Profiles : RunDelete(p)
    BY <2>1, Zenon
  <2>3. job[p].del.phase = "active" /\ job[p].del # NoJob
    BY <2>2 DEF RunDelete, Running, NoJob
  <2> QED
    BY <2>3, Zenon DEF Deleters
<1> QED
  BY <1>1, <1>2, <1>3, PTL DEF Spec, OnlyOwnerDeletes

-----------------------------------------------------------------------------
(* What is undone before the last claim goes.                              *)

\* The other direction: the oldest claim is the winner.
LEMMA OldestWins ==
    ASSUME Shape, Numbered, Dated, cache.prof = prof, NEW p \in Profiles, prof[p].exists,
           Oldest(prof[p].uid, p)
    PROVE  flowProfileIDWinner(p) = p
<1> DEFINE C == flowProfileIDCandidates(p)
           Best(q) == \A o \in C \ {q} : Older(q, o)
<1>1. p \in C /\ C \subseteq Profiles /\ \A q \in C : prof[q].exists /\ (q # p => Claims(q))
  BY Zenon DEF flowProfileIDCandidates, Claims
<1>2. \A q \in C : prof[q].time = prof[q].uid /\ prof[q].uid \in Nat
  BY <1>1, Zenon DEF Dated, Shape, Objects, Resource
<1>3. \A o \in C \ {p} : prof[p].uid < prof[o].uid
  BY <1>1, Zenon DEF Oldest
<1>4. Best(p)
  BY <1>1, <1>2, <1>3, Zenon DEF Older
<1>5. \A q \in C : Best(q) => q = p
  <2> SUFFICES ASSUME NEW q \in C, Older(q, p), q # p PROVE FALSE
    BY <1>1, Zenon
  <2> QED
    BY <1>1, <1>2, <1>3 DEF Older
<1>6. flowProfileIDWinner(p) = CHOOSE q \in C : Best(q)
  BY <1>1, Zenon DEF flowProfileIDWinner
<1> QED
  BY <1>1, <1>4, <1>5, <1>6, Zenon

\* What holds of the Jobs and of the row, whatever is recorded: a register Job
\* that the cache shows as succeeded is not running again, a live claim has no
\* delete Job, register Jobs belong to the resource of their name, and no row
\* outlives the Tamoss.
Children ==
    /\ cache.state = state
    /\ \A p \in Profiles :
          /\ (cache.job[p].reg.phase = "succeeded" => job[p].reg.phase # "active")
          /\ (Claims(p) => job[p].del = NoJob /\ cache.job[p].del = NoJob)
          /\ job[p].reg.owner <= born
          /\ \A q \in Profiles :
                prof[q].exists /\ job[p].reg.owner = prof[q].uid => q = p
    /\ (~tamoss.exists => row = 0)
    /\ recorded \subseteq 0 .. born

\* The Profile is gone, or goes with the Tamoss.
Undone == row = 0 \/ tamoss.deleting

\* A recorded resource that was never edited is the oldest, its register Job is
\* over, and its record is there until the Profile is not.
Accounted(p) ==
    /\ prof[p].doc \notin BadDocs /\ job[p].reg.phase # "active"
    /\ (job[p].del.phase = "succeeded" \/ cache.job[p].del.phase = "succeeded" => row = 0)
    /\ \/ state[p] = [owner |-> prof[p].uid, doc |-> prof[p].doc]
       \/ prof[p].deleting /\ Undone

Records ==
    /\ \A p \in Profiles : prof[p].exists /\ prof[p].uid \in recorded =>
          prof[p].fin /\ Oldest(prof[p].uid, p) /\ (prof[p].gen = 1 => Accounted(p))
    /\ pass.at = "release" =>
          /\ prof[pass.p].exists /\ prof[pass.p].deleting /\ prof[pass.p].fin
          /\ prof[pass.p].uid \in recorded /\ prof[pass.p].gen = 1 => Undone

\* A pass records the registration of p.
Recording(p) ==
    /\ prof[p].exists /\ ~prof[p].deleting /\ prof[p].fin
    /\ flowProfileIDWinner(p) = p /\ prof[p].doc \notin BadDocs
    /\ cache.job[p].reg.phase = "succeeded"
    /\ recorded' = recorded \cup {prof[p].uid}
    /\ state' = [state EXCEPT ![p] = [owner |-> prof[p].uid, doc |-> prof[p].doc]]
    /\ UNCHANGED <<prof, job, row, tamoss, born>>
    /\ pass'.at = "status"

\* The caches of the Jobs are as they were, or as the Jobs are.
LEMMA CachedJobs ==
    ASSUME Shape, [Next]_vars
    PROVE  \A p \in Profiles : cache'.job[p] = cache.job[p] \/ cache'.job[p] = job'[p]
<1>1. CASE Observe
  BY <1>1, Zenon DEF Observe
<1>2. ASSUME NEW k \in Lagging, Sync(k) PROVE cache'.job = cache.job \/ cache'.job = job'
  <2>1. cache' = [cache EXCEPT ![k] = live[k]] /\ job' = job
    BY <1>2, Zenon DEF Sync
  <2>2. live["job"] = job
    BY Zenon DEF live
  <2> QED
    BY <2>1, <2>2, Zenon DEF Shape, Cached
<1>3. CASE UNCHANGED vars
  BY <1>3, Zenon DEF vars
<1> QED
  BY <1>1, <1>2, <1>3, CacheEffect, Zenon

\* A new Profile is the work of a running register Job, after which only the
\* resource of that Job is recorded; a Tamoss goes only with the Profile.
LEMMA RowEffect ==
    ASSUME Shape, [Next]_vars
    PROVE  /\ \/ row' = row
              \/ row' = 0
              \/ \E q \in Profiles :
                    /\ job[q].reg.phase = "active" /\ tamoss.exists /\ tamoss' = tamoss
                    /\ recorded' = recorded \cap {job[q].reg.owner}
           /\ (tamoss.deleting => tamoss'.deleting \/ row' = 0)
           /\ (tamoss.exists /\ ~tamoss'.exists => row' = 0)
<1> DEFINE Goal ==
           /\ \/ row' = row
              \/ row' = 0
              \/ \E q \in Profiles :
                    /\ job[q].reg.phase = "active" /\ tamoss.exists /\ tamoss' = tamoss
                    /\ recorded' = recorded \cap {job[q].reg.owner}
           /\ (tamoss.deleting => tamoss'.deleting \/ row' = 0)
           /\ (tamoss.exists /\ ~tamoss'.exists => row' = 0)
<1>1. CASE UNCHANGED <<row, tamoss>>
  BY <1>1, Zenon
<1>2. CASE Worker
  <2>1. UNCHANGED <<row, tamoss>>
    BY <1>2, ZenonT(40) DEF Worker, Serve, Skip, AddFinalizer, Judge, Supersede, LaunchRegister,
         ObserveRegister, Registering, Hold, LaunchDelete, ReplaceDelete,
         deleteFlowProfileChildren, updateFlowProfileStatus, removeFlowProfileFinalizer, world
  <2> QED
    BY <2>1, <1>1, Zenon
<1>3. ASSUME NEW q \in Profiles, RunRegister(q) PROVE Goal
  BY <1>3, Zenon DEF RunRegister, Running
<1>4. ASSUME NEW q \in Profiles, RunDelete(q) PROVE Goal
  BY <1>4, Zenon DEF RunDelete
<1>5. CASE SchemaReady \/ Upgrade \/ DeleteTamoss \/ CreateTamoss
  BY <1>5, Zenon DEF SchemaReady, Upgrade, DeleteTamoss, CreateTamoss, Shape, Target
<1>6. CASE TamossGone
  BY <1>6, Zenon DEF TamossGone
<1>7. CASE Cluster
  BY <1>7, <1>1, <1>3, <1>4, <1>5, ZenonT(40) DEF Cluster, Collect, JobGone, world
<1>8. CASE Environment
  BY <1>8, <1>1, <1>5, <1>6, ZenonT(40) DEF Environment, DeleteProfile, CreateProfile,
     EditProfile, JobFail,
       LinkFlow, UnlinkFlow, Crash, world
<1>9. CASE (\E k \in Lagging : Sync(k)) \/ UNCHANGED vars
  BY <1>9, <1>1, Zenon DEF Sync, vars, world
<1> QED
  BY <1>2, <1>7, <1>8, <1>9, Zenon DEF Next

\* What becomes of the record of p.
LEMMA RecordEffect ==
    ASSUME Shape, cache.prof = prof, [Next]_vars
    PROVE  \/ \E q \in Profiles : Recording(q)
           \/ /\ recorded' \subseteq recorded
              /\ \A p \in Profiles :
                    \/ deleteFlowProfileChildren(p)
                    \/ prof[p].uid \notin recorded'
                    \/ state'[p] = state[p] \/ state[p].owner # prof[p].uid
<1> DEFINE Goal ==
           \/ \E q \in Profiles : Recording(q)
           \/ /\ recorded' \subseteq recorded
              /\ \A p \in Profiles :
                    \/ deleteFlowProfileChildren(p)
                    \/ prof[p].uid \notin recorded'
                    \/ state'[p] = state[p] \/ state[p].owner # prof[p].uid
<1> state \in [Profiles -> StateObject]
  BY Zenon DEF Shape, Objects
<1>1. CASE recorded' \subseteq recorded /\ state' = state
  BY <1>1, Zenon
<1>2. ASSUME NEW q \in Profiles, Supersede(q) PROVE Goal
  BY <1>2, Zenon DEF Supersede
<1>3. ASSUME NEW q \in Profiles, ObserveRegister(q) PROVE Goal
  <2>1. CASE UNCHANGED <<state, recorded>>
    BY <2>1, <1>1, Zenon
  <2>2. CASE ~UNCHANGED <<state, recorded>>
    <3>1. /\ prof[q].exists /\ ~prof[q].deleting /\ prof[q].fin
          /\ Verdict(q, prof[q]) = "register"
          /\ UNCHANGED <<prof, row, tamoss, born>>
      BY <1>3, Zenon DEF ObserveRegister, Registering, Working, world
    <3>2. flowProfileIDWinner(q) = q /\ prof[q].doc \notin BadDocs
      BY <3>1, VerdictOfWinner
    <3>3. /\ cache.job[q].reg.phase = "succeeded"
          /\ recorded' = recorded \cup {prof[q].uid}
          /\ state' = [state EXCEPT ![q] = [owner |-> prof[q].uid, doc |-> prof[q].doc]]
          /\ job' = job /\ pass'.at = "status"
      BY <1>3, <2>2 DEF ObserveRegister, jobSucceeded, Report
    <3> QED
      BY <3>1, <3>2, <3>3, Zenon DEF Recording
  <2> QED
    BY <2>1, <2>2, Zenon
<1>4. ASSUME NEW q \in Profiles, deleteFlowProfileChildren(q) PROVE Goal
  BY <1>4, Zenon DEF deleteFlowProfileChildren, history
<1>5. ASSUME NEW q \in Profiles, Collect(q) PROVE Goal
  BY <1>5, Zenon DEF Collect, history
<1>6. ASSUME NEW q \in Profiles, RunRegister(q) PROVE Goal
  BY <1>6, <1>1, Zenon DEF RunRegister
<1>7. ASSUME NEW q \in Profiles, Serve(q) PROVE Goal
  BY <1>7, <1>1, <1>2, <1>3, <1>4, ZenonT(40) DEF Serve, Skip, AddFinalizer, Judge,
     LaunchRegister, Hold,
       LaunchDelete, ReplaceDelete, history
<1>8. CASE updateFlowProfileStatus \/ removeFlowProfileFinalizer
           \/ (\E k \in Lagging : Sync(k)) \/ UNCHANGED vars
  BY <1>8, <1>1, Zenon DEF updateFlowProfileStatus, removeFlowProfileFinalizer, Sync, vars,
     history
<1>9. CASE Cluster
  BY <1>9, <1>1, <1>5, <1>6, Zenon DEF Cluster, RunDelete, JobGone, SchemaReady, history
<1>10. CASE Environment
  BY <1>10, <1>1, Zenon DEF Environment, DeleteProfile, CreateProfile, EditProfile, JobFail,
     LinkFlow,
       UnlinkFlow, Upgrade, DeleteTamoss, TamossGone, CreateTamoss, Crash, history
<1> QED
  BY <1>7, <1>8, <1>9, <1>10, Zenon DEF Next, Worker

\* The release of a resource follows the removal of its children.
LEMMA ReleaseEffect ==
    ASSUME Shape, [Next]_vars, pass'.at = "release"
    PROVE  pass' = pass \/ \E p \in Profiles : deleteFlowProfileChildren(p)
<1>1. pass' # Idle
  BY Constants, ZenonT(40)
<1>2. ASSUME NEW p \in Profiles, Serve(p) PROVE pass' = pass \/ deleteFlowProfileChildren(p)
  BY <1>1, <1>2 DEF Serve, Skip, AddFinalizer, Judge, Supersede, LaunchRegister,
       ObserveRegister, Hold, LaunchDelete, ReplaceDelete, Report, Retry
<1>3. CASE Cluster \/ Environment
  BY <1>1, <1>3, Zenon DEF Cluster, RunRegister, RunDelete, Collect, JobGone, SchemaReady,
       Environment, DeleteProfile, CreateProfile, EditProfile, JobFail, LinkFlow,
       UnlinkFlow, Upgrade, DeleteTamoss, TamossGone, CreateTamoss, Crash
<1>4. CASE updateFlowProfileStatus \/ removeFlowProfileFinalizer
           \/ (\E k \in Lagging : Sync(k)) \/ UNCHANGED vars
  BY <1>1, <1>4, Zenon DEF updateFlowProfileStatus, removeFlowProfileFinalizer, Retry, Sync, vars
<1> QED
  BY <1>2, <1>3, <1>4, Zenon DEF Next, Worker

LEMMA ChildrenStep ==
    ASSUME {"prof", "state"} \cap Lagging = {}, Shape, Numbered, Numbered', Shape',
           cache.prof = prof, Children, [Next]_vars
    PROVE  Children'
<1>1. cache'.state = state'
  BY CurrentStep, Zenon DEF Children
<1>2. NoJob.phase = "none" /\ NoJob.owner = 0
  BY ZenonT(30) DEF NoJob
<1>3. /\ born \in Nat /\ born' \in Nat
      /\ \A p \in Profiles : job[p].reg.owner \in Nat /\ prof[p].uid \in Nat
  BY SMTT(20) DEF Shape, Objects, JobPair, JobObject, Resource
<1>4. born' = born \/ born' = born + 1
  BY ProfEffect, Zenon DEF Continues, Created
<1>5. ASSUME NEW p \in Profiles, cache'.job[p].reg.phase = "succeeded"
      PROVE  job'[p].reg.phase # "active"
  <2>1. CASE cache'.job[p] = job'[p]
    BY <2>1, <1>5, Zenon
  <2>2. CASE cache'.job[p] = cache.job[p]
    <3>1. cache.job[p].reg.phase = "succeeded" /\ job[p].reg.phase # "active"
      BY <2>2, <1>5, Zenon DEF Children
    <3>2. job'[p].reg = NoJob \/ Same(p, "reg")
      BY <3>1, <1>2, JobEffect, Zenon DEF Launched, JobKinds
    <3> QED
      BY <3>1, <3>2, <1>2, Zenon DEF Same
  <2> QED
    BY <2>1, <2>2, CachedJobs, Zenon
<1>6. ASSUME NEW p \in Profiles, Claims(p)'
      PROVE  job'[p].del = NoJob /\ cache'.job[p].del = NoJob
  <2>1. CASE Created(p)
    <3>1. job'[p].del = NoJob /\ cache.job[p].del = NoJob
      BY <2>1, Zenon DEF Created
    <3> QED
      BY <3>1, CachedJobs, Zenon
  <2>2. CASE ~Created(p)
    <3>1. Claims(p)
      BY <2>2, <1>6, ProfEffect, SMTT(20) DEF Continues, Kept, Dropped, Created, Claims, NoProf
    <3>2. job[p].del = NoJob /\ cache.job[p].del = NoJob
      BY <3>1, Zenon DEF Children
    <3>3. ~LaunchDelete(p)
      BY <3>1, Zenon DEF LaunchDelete, Finalising, Claims
    <3>4. job'[p].del = NoJob
      BY <3>2, <3>3, JobEffect, Zenon DEF Same, Launched, JobKinds
    <3> QED
      BY <3>2, <3>4, CachedJobs, SMTT(20)
  <2> QED
    BY <2>1, <2>2, Zenon
<1>7. ASSUME NEW p \in Profiles
      PROVE  /\ job'[p].reg.owner <= born'
             /\ \A q \in Profiles : prof'[q].exists /\ job'[p].reg.owner = prof'[q].uid => q = p
  <2>1. CASE job'[p].reg = NoJob
    BY <2>1, <1>2, <1>3, SMTT(20) DEF Numbered
  <2>2. CASE Same(p, "reg")
    <3>1. job'[p].reg.owner = job[p].reg.owner
      BY <2>2, Zenon DEF Same
    <3>2. /\ job[p].reg.owner <= born
          /\ \A q \in Profiles : prof[q].exists /\ job[p].reg.owner = prof[q].uid => q = p
      BY Zenon DEF Children
    <3>3. \A q \in Profiles : prof'[q].exists =>
             \/ prof[q].exists /\ prof'[q].uid = prof[q].uid
             \/ prof'[q].uid = born + 1
      BY ProfEffect, SMTT(20) DEF Continues, Kept, Dropped, Created, NoProf
    <3> QED
      BY <3>1, <3>2, <3>3, <1>3, <1>4
  <2>3. CASE Launched(p, "reg")
    <3>1. /\ job'[p].reg.owner = prof[p].uid /\ prof' = prof /\ born' = born
          /\ prof[p].exists
      BY <2>3, Zenon DEF Launched, LaunchRegister, Registering, Working
    <3> QED
      BY <3>1, Zenon DEF Numbered
  <2> QED
    BY <2>1, <2>2, <2>3, JobEffect, ZenonT(40) DEF JobKinds
<1>8. ~tamoss'.exists => row' = 0
  BY RowEffect, Zenon DEF Children
<1>9. recorded' \subseteq 0 .. born'
  <2>1. recorded \subseteq 0 .. born'
    BY <1>3, <1>4 DEF Children
  <2>2. ASSUME NEW q \in Profiles, Recording(q) PROVE recorded' \subseteq 0 .. born'
    <3>1. prof[q].uid \in 0 .. born'
      BY <2>2, <1>3 DEF Recording, Numbered
    <3> QED
      BY <2>1, <2>2, <3>1, ZenonT(40) DEF Recording
  <2> QED
    BY <2>1, <2>2, RecordEffect, Zenon
<1> QED
  BY <1>1, <1>5, <1>6, <1>7, <1>8, <1>9, Zenon DEF Children

\* The invariant of the theorem, short of its step.
Held ==
    /\ Shape /\ Numbered /\ Dated /\ cache.prof = prof
    /\ Children /\ Records

\* As long as a resource stays recorded, nobody puts the Profile back.
LEMMA RowStays ==
    ASSUME Held, [Next]_vars, NEW p \in Profiles, prof[p].exists,
           prof[p].uid \in recorded', job[p].reg.phase # "active"
    PROVE  (row' = row \/ row' = 0) /\ (Undone => Undone')
<1>1. row' = row \/ row' = 0
  <2>1. ASSUME NEW q \in Profiles, job[q].reg.phase = "active",
               recorded' = recorded \cap {job[q].reg.owner}
        PROVE  FALSE
    <3>1. job[q].reg.owner = prof[p].uid
      BY <2>1, Zenon
    <3>2. p = q
      BY <3>1, Zenon DEF Held, Children
    <3> QED
      BY <2>1, <3>2, Zenon
  <2> QED
    BY <2>1, RowEffect, Zenon DEF Held
<1> QED
  BY <1>1, RowEffect, Zenon DEF Held, Undone

\* deleteFlowProfileChildren of a recorded resource finds the Profile deleted,
\* or the Tamoss on its way out.
LEMMA ChildrenGone ==
    ASSUME Held, NEW p \in Profiles, deleteFlowProfileChildren(p),
           prof[p].uid \in recorded, prof[p].gen = 1
    PROVE  Undone
<1>1. /\ prof[p].exists /\ prof[p].deleting
      /\ FinalStage(p, prof[p]) \in {"children", "release"}
  BY Zenon DEF deleteFlowProfileChildren, Finalising, Working, Held
<1>2. Oldest(prof[p].uid, p) /\ Accounted(p)
  BY <1>1, Zenon DEF Held, Records
<1>3. flowProfileIDWinner(p) = p
  BY <1>1, <1>2, OldestWins, Zenon DEF Held
<1>4. CASE prof[p].deleting /\ Undone
  BY <1>4, ZenonT(30)
<1>5. CASE state[p] = [owner |-> prof[p].uid, doc |-> prof[p].doc]
  <2>1. flowProfileRegistered(p, prof[p]) /\ registeredForDeletion(p, prof[p])
    BY <1>5 DEF flowProfileRegistered, registeredForDeletion, Held, Children
  <2>2. resolveFlowProfile(prof[p].doc)
    BY <1>2, Zenon DEF resolveFlowProfile, Accounted
  <2>3. \/ ~(tamoss.exists /\ ~tamoss.deleting)
        \/ jobSucceeded(cache.job[p].del)
    BY <1>1, <1>3, <2>1, <2>2, Zenon DEF FinalStage
  <2> QED
    BY <2>3, <1>2, SMTT(20) DEF jobSucceeded, Accounted, Undone, Held, Children
<1> QED
  BY <1>2, <1>4, <1>5, Zenon DEF Accounted

\* What a recorded resource owns stays accounted for.
LEMMA AccountedStep ==
    ASSUME Held, [Next]_vars, NEW p \in Profiles, prof[p].exists, Kept(p),
           prof[p].uid \in recorded, prof[p].uid \in recorded', prof[p].gen = 1,
           prof'[p].gen = 1,
           deleteFlowProfileChildren(p) \/ state'[p] = state[p] \/ state[p].owner # prof[p].uid
    PROVE  Accounted(p)'
<1>1. Accounted(p)
  BY Zenon DEF Held, Records
<1>2. prof'[p].doc = prof[p].doc /\ prof'[p].uid = prof[p].uid
  BY SMTT(20) DEF Kept
<1>3. prof[p].deleting => prof'[p].deleting
  BY Zenon DEF Kept
<1>4. (row' = row \/ row' = 0) /\ (Undone => Undone')
  BY <1>1, RowStays, Zenon DEF Accounted
<1>5. NoJob.phase = "none"
  BY ZenonT(30) DEF NoJob
<1>6. job'[p].reg.phase # "active"
  <2>1. ~LaunchRegister(p)
    <3> SUFFICES ASSUME LaunchRegister(p) PROVE FALSE
      BY Zenon
    <3>1. ~prof[p].deleting /\ Verdict(p, prof[p]) = "register"
      BY Zenon DEF LaunchRegister, Registering, Held
    <3>2. state[p].doc # prof[p].doc
      BY <3>1, VerdictReady, Zenon DEF Held, Children
    <3> QED
      BY <3>1, <3>2, <1>1 DEF Accounted
  <2>2. job'[p].reg = NoJob \/ Same(p, "reg")
    BY <2>1, JobEffect, Zenon DEF Launched, JobKinds, Held
  <2> QED
    BY <2>2, <1>1, <1>5, ZenonT(40) DEF Same, Accounted
<1>7. job'[p].del.phase = "succeeded" => row' = 0
  <2>1. job'[p].del = NoJob \/ Same(p, "del") \/ job'[p].del.phase = "active"
    BY JobEffect, Zenon DEF Launched, JobKinds, Held
  <2> QED
    BY <2>1, <1>1, <1>4, <1>5, Zenon DEF Same, Accounted
<1>8. cache'.job[p].del.phase = "succeeded" => row' = 0
  <2>1. cache'.job[p] = cache.job[p] \/ cache'.job[p] = job'[p]
    BY CachedJobs, Zenon DEF Held
  <2> QED
    BY <2>1, <1>1, <1>4, <1>7, Zenon DEF Accounted
<1>9. \/ state'[p] = [owner |-> prof'[p].uid, doc |-> prof'[p].doc]
      \/ prof'[p].deleting /\ Undone'
  <2>1. CASE prof[p].deleting /\ Undone
    BY <2>1, <1>3, <1>4, ZenonT(30)
  <2>2. CASE deleteFlowProfileChildren(p)
    <3>1. prof[p].deleting
      BY <2>2, ZenonT(40) DEF deleteFlowProfileChildren, Finalising, Held
    <3> QED
      BY <2>1, <2>2, <3>1, ChildrenGone, Zenon
  <2>3. CASE ~(prof[p].deleting /\ Undone) /\ ~deleteFlowProfileChildren(p)
    <3>1. state[p] = [owner |-> prof[p].uid, doc |-> prof[p].doc]
      BY <2>3, <1>1, Zenon DEF Accounted
    <3> QED
      BY <3>1, <2>3, <1>2
  <2> QED
    BY <2>1, <2>2, <2>3, Zenon
<1> QED
  BY <1>1, <1>2, <1>6, <1>7, <1>8, <1>9, ZenonT(40) DEF Accounted

\* A resource that goes was not finalised by the controller, or was released.
LEMMA Stays ==
    ASSUME Held, [Next]_vars, NEW p \in Profiles, prof'[p].exists, prof'[p].uid \in recorded'
    PROVE  prof[p].exists /\ Kept(p)
<1>1. CASE Created(p)
  <2>1. recorded' \subseteq 0 .. born /\ prof'[p].uid = born + 1 /\ born \in Nat
    BY <1>1, Zenon DEF Created, Held, Children, Shape
  <2> QED
    BY <2>1
<1>2. CASE Continues
  <2>1. Kept(p)
    BY <1>2, SMTT(20) DEF Continues, Dropped, NoProf
  <2> QED
    BY <2>1, Zenon DEF Kept
<1>3. ASSUME NEW q \in Profiles, Created(q), q # p PROVE prof[p].exists /\ Kept(p)
  <2>1. prof'[p] = prof[p]
    BY <1>3, Zenon DEF Created
  <2> QED
    BY <2>1, Zenon DEF Kept
<1> QED
  BY <1>1, <1>2, <1>3, ProfEffect, Zenon DEF Held

LEMMA RecordsStep ==
    ASSUME Held, Shape', cache'.prof = prof', [Next]_vars
    PROVE  Records'
<1>1. ASSUME NEW p \in Profiles, prof'[p].exists, prof'[p].uid \in recorded'
      PROVE  /\ prof'[p].fin
             /\ \A q \in Profiles \ {p} : Claims(q)' => prof'[p].uid < prof'[q].uid
             /\ (prof'[p].gen = 1 => Accounted(p)')
  <2>1. prof[p].exists /\ Kept(p) /\ prof'[p].uid = prof[p].uid
    BY <1>1, Stays, Zenon DEF Kept
  <2>2. prof[p].uid \in Nat /\ prof[p].uid <= born /\ prof[p].gen \in Nat /\ 0 < prof[p].gen
    BY <2>1, Zenon DEF Held, Numbered, Shape, Objects, Resource
  <2>3. CASE Recording(p)
    <3>1. Oldest(prof[p].uid, p)
      BY <2>1, <2>3, WinnerIsOldest, Zenon DEF Recording, Held
    <3>2. \A q \in Profiles \ {p} : Claims(q)' => prof[p].uid < prof'[q].uid
      BY <2>2, <3>1, OldestStays, Zenon DEF Held
    <3>3. job'[p].reg.phase # "active"
      BY <2>3, Zenon DEF Recording, Held, Children
    <3>4. job'[p].del = NoJob /\ cache.job[p].del = NoJob
      BY <2>3, Zenon DEF Recording, Held, Children, Claims
    <3>5. cache'.job[p].del = NoJob
      BY <3>4, CachedJobs, Zenon DEF Held
    <3>6. state'[p] = [owner |-> prof'[p].uid, doc |-> prof'[p].doc]
      BY <2>3, Zenon DEF Recording, Held, Shape, Objects
    <3>7. prof'[p].doc \notin BadDocs /\ prof'[p].fin
      BY <2>3, SMTT(20) DEF Recording
    <3>8. Accounted(p)'
      BY <3>3, <3>4, <3>5, <3>6, <3>7 DEF Accounted, NoJob
    <3> QED
      BY <2>1, <3>2, <3>7, <3>8, Zenon
  <2>4. CASE ~Recording(p)
    <3>1. /\ prof[p].uid \in recorded
          /\ \/ deleteFlowProfileChildren(p)
             \/ state'[p] = state[p] \/ state[p].owner # prof[p].uid
      <4>1. ASSUME NEW q \in Profiles, Recording(q)
            PROVE  prof[p].uid \in recorded /\ state'[p] = state[p]
        <5>1. q # p /\ prof[q].uid # prof[p].uid
          BY <4>1, <2>1, <2>4, Zenon DEF Recording, Held, Numbered
        <5> QED
          BY <4>1, <5>1, <1>1, <2>1, Zenon DEF Recording, Held, Shape, Objects
      <4>2. CASE /\ recorded' \subseteq recorded
                 /\ \A o \in Profiles :
                       \/ deleteFlowProfileChildren(o)
                       \/ prof[o].uid \notin recorded'
                       \/ state'[o] = state[o] \/ state[o].owner # prof[o].uid
        BY <4>2, <1>1, <2>1, Zenon
      <4> QED
        BY <4>1, <4>2, RecordEffect, Zenon DEF Held
    <3>2. prof[p].fin /\ Oldest(prof[p].uid, p)
      BY <2>1, <3>1, Zenon DEF Held, Records
    <3>3. prof'[p].fin
      BY <2>1, <3>2, Zenon DEF Kept, Releasing, In, Held, Records
    <3>4. \A q \in Profiles \ {p} : Claims(q)' => prof[p].uid < prof'[q].uid
      BY <2>2, <3>2, OldestStays, Zenon DEF Held
    <3>5. ASSUME prof'[p].gen = 1 PROVE Accounted(p)'
      <4>1. prof[p].gen = 1
        BY <2>1, <2>2, <3>5 DEF Kept
      <4> QED
        BY <1>1, <2>1, <3>1, <3>5, <4>1, AccountedStep, ZenonT(40)
    <3> QED
      BY <2>1, <3>3, <3>4, <3>5, ZenonT(30)
  <2> QED
    BY <2>3, <2>4, Zenon
<1>2. ASSUME pass'.at = "release"
      PROVE  /\ prof'[pass'.p].exists /\ prof'[pass'.p].deleting /\ prof'[pass'.p].fin
             /\ prof'[pass'.p].uid \in recorded' /\ prof'[pass'.p].gen = 1 => Undone'
  <2>1. CASE pass' = pass
    <3> DEFINE p == pass.p
    <3>1. p \in Profiles /\ prof[p].exists /\ prof[p].deleting /\ prof[p].fin
      BY <1>2, <2>1, Zenon DEF Held, Records, Shape
    <3>2. ~Releasing(p)
      BY <1>2, <2>1, Constants, Zenon DEF Releasing
    <3> HIDE DEF p
    <3>3. Kept(p)
      BY <3>1, <3>2, ProfEffect, ZenonT(40) DEF Continues, Dropped, Created, Kept, Held
    <3>4. prof'[p].exists /\ prof'[p].deleting /\ prof'[p].fin /\ prof'[p].uid = prof[p].uid
      BY <3>1, <3>2, <3>3, Zenon DEF Kept
    <3>5. ASSUME prof'[p].uid \in recorded', prof'[p].gen = 1 PROVE Undone'
      <4>1. prof[p].gen = 1
        BY <3>1, <3>3, <3>5 DEF Kept, Held, Numbered, Shape, Objects, Resource
      <4>2. prof[p].uid \in recorded
        <5>1. ASSUME NEW q \in Profiles, Recording(q) PROVE FALSE
          BY <5>1, <1>2, Zenon DEF Recording
        <5> QED
          BY <3>4, <3>5, <5>1, RecordEffect, Zenon DEF Held
      <4>3. Undone /\ job[p].reg.phase # "active"
        BY <1>2, <2>1, <3>1, <4>1, <4>2, Zenon DEF p, Held, Records, Accounted
      <4> QED
        BY <3>1, <3>4, <3>5, <4>3, RowStays, ZenonT(40)
    <3> QED
      BY <2>1, <3>4, <3>5, Zenon DEF p
  <2>2. ASSUME NEW p \in Profiles, deleteFlowProfileChildren(p)
        PROVE  /\ prof'[pass'.p].exists /\ prof'[pass'.p].deleting /\ prof'[pass'.p].fin
               /\ prof'[pass'.p].uid \in recorded' /\ prof'[pass'.p].gen = 1 => Undone'
    <3>1. /\ pass' = [Idle EXCEPT !.at = "release", !.p = p]
          /\ prof[p].exists /\ prof[p].deleting /\ prof[p].fin
          /\ UNCHANGED <<prof, row, tamoss, recorded>>
      BY <2>2, Zenon DEF deleteFlowProfileChildren, Finalising, Working, Held, world, history
    <3>2. pass'.p = p
      BY <3>1, Zenon DEF Idle
    <3>3. prof[p].uid \in recorded /\ prof[p].gen = 1 => Undone
      BY <2>2, ChildrenGone, Zenon
    <3> QED
      BY <3>1, <3>2, <3>3 DEF Undone
  <2>3. pass' = pass \/ \E p \in Profiles : deleteFlowProfileChildren(p)
    BY <1>2, ReleaseEffect, Zenon DEF Held
  <2> QED
    BY <2>1, <2>2, <2>3, Zenon
<1>3. \A p \in Profiles : prof'[p].exists /\ prof'[p].uid \in recorded' =>
         prof'[p].fin /\ Oldest(prof[p].uid, p)' /\ (prof'[p].gen = 1 => Accounted(p)')
  BY <1>1, Zenon DEF Oldest
<1> QED
  BY <1>2, <1>3, Zenon DEF Records

\* If FlowProfiles and their records are read up to date and no two are created
\* at the same time, the last claim, once recorded and never edited, is released
\* only after its Profile is gone, however late the Jobs are seen.
THEOREM UndoneTheorem ==
    ASSUME {"prof", "state"} \cap Lagging = {}, ~Ties
    PROVE  Spec => UndoneBeforeRelease
<1>1. Init => Held
  <2> SUFFICES ASSUME Init PROVE Held
    BY Zenon
  <2>1. /\ \A p \in Profiles :
              /\ prof[p] = NoProf /\ ~prof[p].exists
              /\ job[p].reg = NoJob /\ job[p].del = NoJob /\ cache.job[p] = job[p]
        /\ cache.state = state /\ row = 0 /\ recorded = {} /\ pass.at = "idle" /\ born = 0
    BY Zenon DEF Init, live, NoProf, Idle
  <2>2. Children
    BY <2>1 DEF Children, Claims, NoJob
  <2>3. Records
    BY <2>1, Zenon DEF Records
  <2> QED
    BY <2>2, <2>3, ShapeInit, OwnersInit, Zenon DEF Held, Owners
<1>2. Held /\ [Next]_vars => Held'
  <2> SUFFICES ASSUME Held, [Next]_vars PROVE Held'
    BY Zenon
  <2>1. Shape' /\ Numbered' /\ Dated' /\ cache'.prof = prof'
    BY ShapeStep, NumberedStep, DatedStep, CurrentStep, Zenon DEF Held
  <2>2. Children'
    BY <2>1, ChildrenStep, Zenon DEF Held
  <2>3. Records'
    BY <2>1, RecordsStep, Zenon
  <2> QED
    BY <2>1, <2>2, <2>3, Zenon DEF Held
<1>3. Held /\ [Next]_vars =>
         [\A p \in Profiles :
            (/\ prof[p].exists /\ ~prof'[p].exists /\ prof[p].uid \in recorded
             /\ prof[p].gen = 1 /\ \A q \in Profiles \ {p} : ~prof[q].exists
             /\ tamoss.exists /\ ~tamoss.deleting)
                => row = 0]_vars
  <2> SUFFICES ASSUME Held, [Next]_vars, NEW p \in Profiles,
                      prof[p].exists, ~prof'[p].exists, prof[p].uid \in recorded,
                      prof[p].gen = 1, ~tamoss.deleting
               PROVE  row = 0
    BY Zenon
  <2>1. Dropped(p)
    BY ProfEffect, Zenon DEF Continues, Created, Kept, Held
  <2>2. Releasing(p)
    BY <2>1, Zenon DEF Dropped, Held, Records
  <2> QED
    BY <2>2, Zenon DEF Releasing, In, Held, Records, Undone
<1> QED
  BY <1>1, <1>2, <1>3, PTL DEF Spec, UndoneBeforeRelease

=============================================================================
