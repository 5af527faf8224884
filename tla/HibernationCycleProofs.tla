----------------------- MODULE HibernationCycleProofs -----------------------
(***************************************************************************)
(* Cycles of hibernation start one at a time, whatever the Tamoss cache    *)
(* and the overlap of passes do.                                           *)
(***************************************************************************)
EXTENDS HibernationProofs

\* A pass never means to write an operation into existence.
Reporting ==
    /\ op \in [Ops -> HibernateObject] /\ opC \in [Ops -> HibernateObject]
    /\ h # Idle =>
          /\ h \in [pc: HibernatePlaces, op: Ops, mem: HibernateObject, tmem: {h.tmem},
                    to: HibernateObject]
          /\ h.to.exists = h.mem.exists

\* No operation comes into being.
NoneCreated == op' \in [Ops -> HibernateObject] /\ \A o \in Ops : op'[o].exists => op[o].exists

LEMMA Unwritten == ASSUME Reporting, op' = op PROVE NoneCreated
  BY Zenon DEF Reporting, NoneCreated

LEMMA OneWritten ==
    ASSUME Reporting, NEW c \in Ops, NEW n \in HibernateObject, op' = [op EXCEPT ![c] = n],
           n.exists => op[c].exists
    PROVE  NoneCreated
  BY Zenon DEF Reporting, NoneCreated

LEMMA DeletedCreatesNone ==
    ASSUME Reporting, NEW c \in Ops, Deleted(c)
    PROVE  NoneCreated
<1>1. op[c] \in HibernateObject
  BY Zenon DEF Reporting
<1>2. CASE op[c].finalizer
  <2> DEFINE n == [op[c] EXCEPT !.deleting = TRUE]
  <2>1. n \in HibernateObject /\ n.exists = op[c].exists
    BY <1>1, DeletingFields, Zenon
  <2>2. op' = [op EXCEPT ![c] = n]
    BY <1>2, Zenon DEF Deleted
  <2> HIDE DEF n
  <2> QED
    BY <2>1, <2>2, OneWritten, Zenon
<1>3. CASE ~op[c].finalizer
  <2>1. op' = [op EXCEPT ![c] = NoHibernate]
    BY <1>3, Zenon DEF Deleted
  <2> QED
    BY <2>1, NewFields, OneWritten, Zenon
<1> QED
  BY <1>2, <1>3, Zenon

LEMMA StatusCreatesNone ==
    ASSUME Reporting, NEW o \in Ops, NEW mem, NEW n \in HibernateObject,
           n.exists = mem.exists, updateHibernateStatus(o, mem, n)
    PROVE  NoneCreated /\ h' = Idle
<1>1. CASE mem = op[o]
  <2>1. op' = [op EXCEPT ![o] = n] /\ h' = Idle
    BY <1>1, Zenon DEF updateHibernateStatus, ReturnHibernate
  <2> QED
    BY <1>1, <2>1, OneWritten, Zenon
<1>2. CASE mem # op[o]
  <2>1. op' = op /\ h' = Idle
    BY <1>2, Zenon DEF updateHibernateStatus, ReturnHibernate
  <2> QED
    BY <2>1, Unwritten, Zenon
<1> QED
  BY <1>1, <1>2, Zenon

\* A pass begins with the cached operation.
LEMMA PassBegins ==
    ASSUME NEW o \in Ops, NEW pc \in HibernatePlaces, NEW m, NEW to \in HibernateObject,
           opC \in [Ops -> HibernateObject], to.exists = opC[o].exists,
           h' = InPass(o, pc, m, to)
    PROVE  /\ h' \in [pc: HibernatePlaces, op: Ops, mem: HibernateObject, tmem: {h'.tmem},
                      to: HibernateObject]
           /\ h'.to.exists = h'.mem.exists
<1>1. h' = [pc |-> pc, op |-> o, mem |-> opC[o], tmem |-> m, to |-> to]
  BY Zenon DEF InPass
<1>2. h'.tmem = m /\ h'.to = to /\ h'.mem = opC[o]
  BY <1>1
<1> QED
  BY <1>1, <1>2

\* A pass goes on to report.
LEMMA PassReports ==
    ASSUME Reporting, h # Idle, NEW v \in HibernateObject, v.exists = h.mem.exists,
           h' = [h EXCEPT !.pc = "status", !.to = v]
    PROVE  /\ h' \in [pc: HibernatePlaces, op: Ops, mem: HibernateObject, tmem: {h'.tmem},
                      to: HibernateObject]
           /\ h'.to.exists = h'.mem.exists
<1> DEFINE k == [h EXCEPT !.pc = "status"]
<1>1. /\ k \in [pc: HibernatePlaces, op: Ops, mem: HibernateObject, tmem: {h.tmem},
                to: HibernateObject]
      /\ k.mem = h.mem
  BY Zenon DEF Reporting, HibernatePlaces
<1>2. h' = [k EXCEPT !.to = v]
  BY Zenon DEF Reporting
<1> HIDE DEF k
<1>3. h'.tmem = h.tmem /\ h'.to = v /\ h'.mem = h.mem
  BY <1>1, <1>2, Zenon
<1> QED
  BY <1>1, <1>2, <1>3, Zenon

LEMMA PassMoves ==
    ASSUME Reporting, h # Idle, NEW p \in HibernatePlaces, h' = [h EXCEPT !.pc = p]
    PROVE  /\ h' \in [pc: HibernatePlaces, op: Ops, mem: HibernateObject, tmem: {h'.tmem},
                      to: HibernateObject]
           /\ h'.to.exists = h'.mem.exists
<1>1. h'.tmem = h.tmem /\ h'.to = h.to /\ h'.mem = h.mem
  BY Zenon DEF Reporting
<1> QED
  BY <1>1, Zenon DEF Reporting

LEMMA TamossCreatesNone ==
    ASSUME Reporting, TamossStep, ~ensureHibernationCycleOperation
    PROVE  NoneCreated /\ Reporting'
<1> USE DEF caches, hibernatePass, objects
<1>1. CASE abortSpecHibernation
  <2>1. UNCHANGED <<h, opC>>
    BY <1>1, Zenon DEF abortSpecHibernation
  <2>2. NoneCreated
    <3>1. CASE op' = op
      BY <3>1, Unwritten, Zenon
    <3>2. CASE tamC.active \in CycleOps /\ Deleted(tamC.active)
      <4>1. tamC.active \in Ops
        BY <3>2, Zenon DEF Ops
      <4> QED
        BY <3>2, <4>1, DeletedCreatesNone, Zenon
    <3> QED
      BY <1>1, <3>1, <3>2, Zenon DEF abortSpecHibernation
  <2> QED
    BY <2>1, <2>2, Zenon DEF Reporting, NoneCreated
<1>2. CASE UNCHANGED <<op, opC, h>>
  <2>1. NoneCreated
    BY <1>2, Unwritten, Zenon
  <2> QED
    BY <1>2, <2>1, Zenon DEF Reporting
<1>3. CASE TamossPass \/ ContinueDriven \/ recordHibernationCycle
  BY <1>2, <1>3, Zenon DEF TamossPass, ContinueDriven, recordHibernationCycle
<1>4. CASE reconcileCNPG \/ applyTamossDesiredObjects \/ patchTamossStatus \/ TamossConflict
  BY <1>2, <1>4, Zenon DEF reconcileCNPG, applyTamossDesiredObjects, patchTamossStatus,
     TamossConflict
<1>5. CASE \E o \in Ops : recordResumed(o) \/ recordArtifactCleanup(o) \/ deleteResumeArtifact(o)
  BY <1>2, <1>5, Zenon DEF recordResumed, recordArtifactCleanup, deleteResumeArtifact,
     retentionFrame
<1> QED
  BY <1>1, <1>3, <1>4, <1>5, Zenon DEF TamossStep

LEMMA OuterCreatesNone ==
    ASSUME Reporting, Cnpg \/ Environment \/ PodsFollow \/ DestinationRecovers \/ SyncTamoss
                      \/ \E o \in Ops : SyncOp(o),
           \A o \in UserOps : ~CreateOp(o)
    PROVE  NoneCreated /\ Reporting'
<1> USE DEF caches, hibernatePass, objects
<1>1. CASE UNCHANGED <<op, opC, h>>
  <2>1. NoneCreated
    BY <1>1, Unwritten, Zenon
  <2> QED
    BY <1>1, <2>1, Zenon DEF Reporting
<1>2. CASE ClusterBecomesReady \/ ClusterIsGone \/ PodsFollow \/ DestinationRecovers \/ SyncTamoss
  BY <1>1, <1>2, Zenon DEF ClusterBecomesReady, ClusterIsGone, PodsFollow, DestinationRecovers,
     SyncTamoss, envFrame
<1>3. CASE Write \/ Enable \/ Disable \/ DestinationChanges
  BY <1>1, <1>3, Zenon DEF Write, Enable, Disable, DestinationChanges, envFrame
<1>4. CASE \E o \in Ops : BackupCompletes(o) \/ BackupFails(o) \/ DeferCleanup(o)
  BY <1>1, <1>4, Zenon DEF BackupCompletes, BackupFails, DeferCleanup, retentionFrame
<1>5. ASSUME NEW o \in Ops, SyncOp(o) PROVE NoneCreated /\ Reporting'
  <2>1. UNCHANGED <<op, h>> /\ opC' = [opC EXCEPT ![o] = op[o]]
    BY <1>5, Zenon DEF SyncOp
  <2>2. NoneCreated
    BY <2>1, Unwritten, Zenon
  <2> QED
    BY <2>1, <2>2, Zenon DEF Reporting
<1>6. CASE Restart
  <2>1. op' = op /\ opC' = op /\ h' = Idle
    BY <1>6, Zenon DEF Restart
  <2>2. NoneCreated
    BY <2>1, Unwritten, Zenon
  <2> QED
    BY <2>1, <2>2, Zenon DEF Reporting
<1>7. CASE uploadFails
  <2> DEFINE v == AtNew(h.mem, "WritingManifest")
  <2>1. /\ UNCHANGED <<op, opC>> /\ h # Idle
        /\ h' = [h EXCEPT !.pc = "status", !.to = v]
    BY <1>7 DEF uploadFails, Report, Idle
  <2>2. h.mem \in HibernateObject /\ "WritingManifest" \in OperationPhases
    BY <2>1, Zenon DEF Reporting, OperationPhases
  <2>3. v \in HibernateObject /\ v.exists = h.mem.exists
    BY <2>2, AtNewFields, Zenon
  <2> HIDE DEF v
  <2>4. NoneCreated
    BY <2>1, Unwritten, Zenon
  <2> QED
    BY <2>1, <2>3, <2>4, PassReports, Zenon DEF Reporting
<1>8. ASSUME NEW o \in Ops, DeleteOp(o) PROVE NoneCreated /\ Reporting'
  <2>1. UNCHANGED <<h, opC>> /\ Deleted(o)
    BY <1>8, Zenon DEF DeleteOp, envFrame
  <2>2. NoneCreated
    BY <2>1, DeletedCreatesNone, Zenon
  <2> QED
    BY <2>1, <2>2, Zenon DEF Reporting, NoneCreated
<1>9. ASSUME NEW o \in Ops, RetryOp(o) PROVE NoneCreated /\ Reporting'
  <2> DEFINE n == [op[o] EXCEPT !.retry = TRUE]
  <2>1. UNCHANGED <<h, opC>> /\ op' = [op EXCEPT ![o] = n]
    BY <1>9, Zenon DEF RetryOp, envFrame
  <2>2. op[o] \in HibernateObject
    BY Zenon DEF Reporting
  <2>3. n \in HibernateObject /\ n.exists = op[o].exists
    BY <2>2, Zenon DEF HibernateObject
  <2> HIDE DEF n
  <2>4. NoneCreated
    BY <2>1, <2>3, OneWritten, Zenon
  <2> QED
    BY <2>1, <2>4, Zenon DEF Reporting, NoneCreated
<1>10. ASSUME NEW o \in Ops, CreateOp(o) PROVE FALSE
  BY <1>10, Zenon DEF CreateOp
<1> QED
  BY <1>2, <1>3, <1>4, <1>5, <1>6, <1>7, <1>8, <1>9, <1>10, Zenon DEF Cnpg, Environment

LEMMA HibernateCreatesNone ==
    ASSUME Reporting, NEW c \in Ops, HibernateStep(c)
    PROVE  NoneCreated /\ Reporting'
<1>1. op[c] \in HibernateObject /\ opC[c] \in HibernateObject
  BY Zenon DEF Reporting
<1>2. opC' = opC
  BY Zenon DEF HibernateStep, HibernateNotFound, addFinalizer, acceptOperationRetry,
     HibernateTerminal,
         HibernateDeterred, acquireHibernateLifecycle, reconcileHibernateSourceDeprovisioning,
         finalizeCommitted, finalizeAborted, deprovisionHibernateSource, completeHibernateLifecycle,
         hibernateFrame, caches
<1>3. ASSUME NoneCreated, h' = Idle PROVE NoneCreated /\ Reporting'
  BY <1>2, <1>3, Zenon DEF Reporting, NoneCreated
<1>4. ASSUME op' = op, NEW p \in HibernatePlaces, NEW m, NEW to \in HibernateObject,
             to.exists = opC[c].exists, h' = InPass(c, p, m, to)
      PROVE  NoneCreated /\ Reporting'
  <2>1. NoneCreated
    BY <1>4, Unwritten, Zenon
  <2>2. /\ h' \in [pc: HibernatePlaces, op: Ops, mem: HibernateObject, tmem: {h'.tmem},
                   to: HibernateObject]
        /\ h'.to.exists = h'.mem.exists
    BY <1>4, PassBegins, Zenon DEF Reporting
  <2> QED
    BY <1>2, <2>1, <2>2, Zenon DEF Reporting, NoneCreated
<1>5. CASE HibernateNotFound(c) \/ HibernateTerminal(c)
  <2>1. op' = op /\ h' = Idle
    BY <1>5, Zenon DEF HibernateNotFound, HibernateTerminal, ReturnHibernate
  <2> QED
    BY <1>3, <2>1, Unwritten, Zenon
<1>6. CASE addFinalizer(c)
  <2> DEFINE n == [op[c] EXCEPT !.finalizer = TRUE]
  <2>1. h' = Idle /\ (op' = op \/ op' = [op EXCEPT ![c] = n])
    BY <1>6, Zenon DEF addFinalizer, ReturnHibernate
  <2>2. n \in HibernateObject /\ n.exists = op[c].exists
    BY <1>1, FinalizerFields, Zenon
  <2> HIDE DEF n
  <2> QED
    BY <1>3, <2>1, <2>2, Unwritten, OneWritten, Zenon
<1>7. CASE acceptOperationRetry(c)
  <2> DEFINE n == [opC[c] EXCEPT !.phase = "", !.retry = FALSE]
  <2>1. n \in HibernateObject /\ n.exists = opC[c].exists
    BY <1>1, RetriedFields, Zenon
  <2>2. (op' = op /\ h' = Idle) \/ updateHibernateStatus(c, opC[c], n)
    BY <1>7, Zenon DEF acceptOperationRetry, ReturnHibernate
  <2> HIDE DEF n
  <2> QED
    BY <1>3, <2>1, <2>2, Unwritten, StatusCreatesNone, Zenon
<1>8. CASE HibernateDeterred(c)
  <2>1. PICK p \in {"ResolvingSource", "PreparingTarget", "Failed"} : p = Deterrent(c)
    BY <1>8, Zenon DEF HibernateDeterred, Deterrent
  <2>2. p \in OperationPhases
    BY Zenon DEF OperationPhases
  <2> DEFINE n == IF dest = "ready" THEN AtNew(opC[c], p) ELSE At(opC[c], p)
  <2>3. updateHibernateStatus(c, opC[c], n)
    BY <1>8, <2>1, Zenon DEF HibernateDeterred
  <2>4. n \in HibernateObject /\ n.exists = opC[c].exists
    BY <1>1, <2>2, AtFields, AtNewFields, ZenonT(40)
  <2> HIDE DEF n
  <2> QED
    BY <1>3, <2>3, <2>4, StatusCreatesNone, Zenon
<1>9. ASSUME NEW next \in HibernatePlaces, NEW to \in HibernateObject, to.exists = opC[c].exists,
             completeHibernateLifecycle(c, next, to)
      PROVE  NoneCreated /\ Reporting'
  <2>1. PICK m : m = patched(tamC, LifecycleHibernated(tamC, c), LifecycleHibernated(tam, c))
    BY Zenon
  <2>2. op' = op /\ h' = InPass(c, next, m, to)
    BY <1>9, <2>1, Zenon DEF completeHibernateLifecycle
  <2> QED
    BY <1>4, <1>9, <2>2, Zenon
<1>10. ASSUME deprovisionHibernateSource(c) PROVE NoneCreated /\ Reporting'
  <2>1. op' = op /\ h' = Idle
    BY <1>10, Zenon DEF deprovisionHibernateSource, ReturnHibernate
  <2> QED
    BY <1>3, <2>1, Unwritten, Zenon
<1>11. {"quiesce", "status", "failing", "unfinalize"} \subseteq HibernatePlaces
  BY Zenon DEF HibernatePlaces
<1>12. CASE reconcileHibernateSourceDeprovisioning(c)
  <2>1. "Completed" \in OperationPhases
    BY Zenon DEF OperationPhases
  <2>2. At(opC[c], "Completed") \in HibernateObject /\ At(opC[c], "Completed").exists = opC[c].exists
    BY <1>1, <2>1, AtFields, Zenon
  <2> QED
    BY <1>9, <1>10, <1>11, <1>12, <2>2, Zenon DEF reconcileHibernateSourceDeprovisioning
<1>13. CASE finalizeCommitted(c)
  <2>1. CASE ReturnHibernate(c, TRUE) /\ op' = op
    BY <1>3, <2>1, Unwritten, Zenon DEF ReturnHibernate
  <2> QED
    BY <1>1, <1>9, <1>10, <1>11, <1>13, <2>1, Zenon DEF finalizeCommitted
<1>14. CASE acquireHibernateLifecycle(c)
  <2>1. op' = op /\ \E m : h' = InPass(c, "quiesce", m, opC[c])
    BY <1>14, Zenon DEF acquireHibernateLifecycle
  <2> QED
    BY <1>1, <1>4, <1>11, <2>1, Zenon
<1>15. CASE finalizeAborted(c)
  <2>1. "Failed" \in OperationPhases
    BY Zenon DEF OperationPhases
  <2>2. At(opC[c], "Failed") \in HibernateObject /\ At(opC[c], "Failed").exists = opC[c].exists
    BY <1>1, <2>1, AtFields, Zenon
  <2>3. /\ op' = op
        /\ \/ \E m : h' = InPass(c, "unfinalize", m, opC[c])
           \/ \E m : h' = InPass(c, "failing", m, At(opC[c], "Failed"))
    BY <1>15, Zenon DEF finalizeAborted
  <2> QED
    BY <1>1, <1>4, <1>11, <2>2, <2>3, Zenon
<1> QED
  BY <1>5, <1>6, <1>7, <1>8, <1>12, <1>13, <1>14, <1>15, Zenon DEF HibernateStep

LEMMA PassCreatesNone ==
    ASSUME Reporting, HibernateContinues
    PROVE  NoneCreated /\ Reporting'
<1>1. opC' = opC
  BY Zenon DEF HibernateContinues, quiesceTamossWorkloads, captureDatabase,
     writeHibernateManifest,
         setHibernateLifecycleFailed, ReportStatus, FailDeleted, removeFinalizer, HibernateConflict,
         hibernateFrame, captureFrame, caches
<1>2. h # Idle /\ h.op \in Ops /\ h.mem \in HibernateObject /\ h.to \in HibernateObject
  <2>1. h.pc \in HibernatePlaces
    BY Zenon DEF HibernateContinues, quiesceTamossWorkloads, captureDatabase,
       writeHibernateManifest,
           setHibernateLifecycleFailed, ReportStatus, FailDeleted, removeFinalizer,
           HibernateConflict, HibernatePlaces
  <2>2. h # Idle
    BY <2>1 DEF Idle, HibernatePlaces
  <2> QED
    BY <2>2, Zenon DEF Reporting
<1>3. ASSUME NoneCreated, h' = Idle PROVE NoneCreated /\ Reporting'
  BY <1>1, <1>3, Zenon DEF Reporting, NoneCreated
<1>4. ASSUME op' = op, NEW p \in {"Quiescing", "CapturingDatabase", "Failed"}, Report(p)
      PROVE  NoneCreated /\ Reporting'
  <2>1. PICK v : v = AtNew(h.mem, p)
    BY Zenon
  <2>2. p \in OperationPhases
    BY Zenon DEF OperationPhases
  <2>3. v \in HibernateObject /\ v.exists = h.mem.exists
    BY <1>2, <2>1, <2>2, AtNewFields, Zenon
  <2>4. h' = [h EXCEPT !.pc = "status", !.to = v]
    BY <1>4, <2>1, Zenon DEF Report
  <2>5. NoneCreated
    BY <1>4, Unwritten, Zenon
  <2>6. /\ h' \in [pc: HibernatePlaces, op: Ops, mem: HibernateObject, tmem: {h'.tmem},
                   to: HibernateObject]
        /\ h'.to.exists = h'.mem.exists
    BY <1>2, <2>3, <2>4, PassReports, Zenon
  <2> QED
    BY <1>1, <2>5, <2>6, Zenon DEF Reporting, NoneCreated
<1>5. ASSUME NoneCreated, NEW p \in HibernatePlaces, h' = [h EXCEPT !.pc = p]
      PROVE  NoneCreated /\ Reporting'
  <2>1. /\ h' \in [pc: HibernatePlaces, op: Ops, mem: HibernateObject, tmem: {h'.tmem},
                   to: HibernateObject]
        /\ h'.to.exists = h'.mem.exists
    BY <1>2, <1>5, PassMoves, Zenon
  <2> QED
    BY <1>1, <1>5, <2>1, Zenon DEF Reporting, NoneCreated
<1>6. CASE quiesceTamossWorkloads
  <2>1. op' = op
    BY <1>6, Zenon DEF quiesceTamossWorkloads
  <2>2. NoneCreated
    BY <2>1, Unwritten, Zenon
  <2>3. h' = Idle \/ h' = [h EXCEPT !.pc = "capture"] \/ Report("Quiescing")
    BY <1>6, Zenon DEF quiesceTamossWorkloads, ReturnHibernate, Report
  <2>4. "capture" \in HibernatePlaces
    BY Zenon DEF HibernatePlaces
  <2> QED
    BY <1>3, <1>4, <1>5, <2>1, <2>2, <2>3, <2>4, Zenon
<1>7. CASE captureDatabase \/ setHibernateLifecycleFailed
  <2>1. op' = op /\ (Report("CapturingDatabase") \/ Report("Failed"))
    BY <1>7, Zenon DEF captureDatabase, setHibernateLifecycleFailed, captureFrame
  <2> QED
    BY <1>4, <2>1, Zenon
<1>8. CASE writeHibernateManifest
  <2> DEFINE v == [At(h.mem, "DeprovisioningSource") EXCEPT !.committed = TRUE]
  <2>1. op' = op /\ h' = [h EXCEPT !.pc = "status", !.to = v]
    BY <1>8, Zenon DEF writeHibernateManifest, captureFrame
  <2>2. v \in HibernateObject /\ v.exists = h.mem.exists
    BY <1>2, Zenon DEF At, HibernateObject, OperationPhases
  <2> HIDE DEF v
  <2>3. NoneCreated
    BY <2>1, Unwritten, Zenon
  <2>4. /\ h' \in [pc: HibernatePlaces, op: Ops, mem: HibernateObject, tmem: {h'.tmem},
                   to: HibernateObject]
        /\ h'.to.exists = h'.mem.exists
    BY <1>2, <2>1, <2>2, PassReports, Zenon
  <2> QED
    BY <1>1, <2>3, <2>4, Zenon DEF Reporting, NoneCreated
<1>9. CASE ReportStatus
  <2>1. updateHibernateStatus(h.op, h.mem, h.to) /\ h.to.exists = h.mem.exists
    BY <1>2, <1>9, Zenon DEF ReportStatus, Reporting
  <2> QED
    BY <1>2, <1>3, <2>1, StatusCreatesNone, Zenon
<1>10. CASE FailDeleted
  <2>1. CASE op' = op /\ (h' = Idle \/ h' = [h EXCEPT !.pc = "unfinalize"])
    <3>1. NoneCreated /\ "unfinalize" \in HibernatePlaces
      BY <2>1, Unwritten, Zenon DEF HibernatePlaces
    <3> QED
      BY <1>3, <1>5, <2>1, <3>1, Zenon
  <2>2. CASE /\ h.mem = op[h.op] /\ op' = [op EXCEPT ![h.op] = h.to]
             /\ h' = [h EXCEPT !.pc = "unfinalize"]
    <3>1. h.to.exists = op[h.op].exists
      BY <1>2, <2>2, Zenon DEF Reporting
    <3>2. NoneCreated /\ "unfinalize" \in HibernatePlaces
      BY <1>2, <2>2, <3>1, OneWritten, Zenon DEF HibernatePlaces
    <3> QED
      BY <1>5, <2>2, <3>2, Zenon
  <2> QED
    BY <1>10, <2>1, <2>2, Zenon DEF FailDeleted, ReturnHibernate
<1>11. CASE removeFinalizer
  <2>1. op' = [op EXCEPT ![h.op] = NoHibernate] /\ h' = Idle
    BY <1>11, Zenon DEF removeFinalizer, ReturnHibernate
  <2> QED
    BY <1>2, <1>3, <2>1, NewFields, OneWritten, Zenon
<1>12. CASE HibernateConflict
  <2>1. op' = op /\ h' = Idle
    BY <1>12, Zenon DEF HibernateConflict, ReturnHibernate, objects
  <2> QED
    BY <1>3, <2>1, Unwritten, Zenon
<1> QED
  BY <1>6, <1>7, <1>8, <1>9, <1>10, <1>11, <1>12, Zenon DEF HibernateContinues

LEMMA UserCreates ==
    ASSUME Reporting, NEW c \in Ops, CreateOp(c)
    PROVE  Reporting' /\ \A o \in CycleOps : op'[o] = op[o]
<1>1. /\ c \in UserOps /\ op' = [op EXCEPT ![c] = NewHibernate] /\ UNCHANGED <<h, opC>>
  BY Zenon DEF CreateOp, envFrame, caches, hibernatePass
<1>2. \A o \in CycleOps : o \in Ops /\ o # c
  BY <1>1, OpsAssumption, Zenon DEF Ops
<1> QED
  BY <1>1, <1>2, NewFields, Zenon DEF Reporting

LEMMA CycleCreates ==
    ASSUME Reporting, ensureHibernationCycleOperation
    PROVE  Reporting'
<1>1. PICK c \in Ops : /\ op' = op \/ op' = [op EXCEPT ![c] = NewHibernate]
                       /\ UNCHANGED <<h, opC>>
  BY Zenon DEF ensureHibernationCycleOperation, caches, hibernatePass, Ops
<1> QED
  BY <1>1, NewFields, Zenon DEF Reporting

\* Every step but one leaves the operations of later cycles uncreated.
LEMMA WhoCreates ==
    ASSUME Reporting, [Next]_vars
    PROVE  /\ Reporting'
           /\ ensureHibernationCycleOperation
              \/ \A o \in CycleOps : op'[o].exists => op[o].exists
<1>1. ASSUME NoneCreated PROVE \A o \in CycleOps : op'[o].exists => op[o].exists
  BY <1>1, Zenon DEF NoneCreated, Ops
<1>2. CASE ensureHibernationCycleOperation
  BY <1>2, CycleCreates, Zenon
<1>3. CASE TamossStep /\ ~ensureHibernationCycleOperation
  BY <1>1, <1>3, TamossCreatesNone, Zenon
<1>4. ASSUME NEW o \in Ops, HibernateStep(o)
      PROVE  Reporting' /\ \A c \in CycleOps : op'[c].exists => op[c].exists
  BY <1>1, <1>4, HibernateCreatesNone, Zenon
<1>5. CASE HibernateContinues
  BY <1>1, <1>5, PassCreatesNone, Zenon
<1>6. ASSUME NEW o \in UserOps, CreateOp(o)
      PROVE  Reporting' /\ \A c \in CycleOps : op'[c].exists => op[c].exists
  BY <1>6, UserCreates, Zenon DEF Ops
<1>7. CASE /\ Cnpg \/ Environment \/ PodsFollow \/ DestinationRecovers \/ SyncTamoss
              \/ \E o \in Ops : SyncOp(o)
           /\ \A o \in UserOps : ~CreateOp(o)
  BY <1>1, <1>7, OuterCreatesNone, Zenon
<1>8. CASE UNCHANGED vars
  <2>1. UNCHANGED <<op, opC, h>>
    BY <1>8, Zenon DEF vars, objects, caches, hibernatePass
  <2> QED
    BY <2>1, Zenon DEF Reporting
<1> QED
  BY <1>2, <1>3, <1>4, <1>5, <1>6, <1>7, <1>8, Zenon DEF Next

\* The Tamoss and its cached copy count cycles.
Counted(x) == "cycle" \in DOMAIN x /\ x.cycle \in Nat

Counting ==
    /\ Counted(tam) /\ Counted(tamC)
    /\ "pc" \in DOMAIN t
    /\ t.pc = "created" => t.item \in CycleOps

\* What the controllers and the switch do to a Tamoss leaves its count alone.
LEMMA CountKept ==
    ASSUME NEW x, Counted(x)
    PROVE  /\ \A p, a : Counted(setLifecycleOperationState(x, p, a))
           /\ \A o : Counted(LifecycleFailed(x, o)) /\ Counted(LifecycleHibernated(x, o))
           /\ \A o : Counted(Resolved(x, o))
           /\ \A o, c : Counted(RecordedCleanup(x, o, c))
           /\ \A b : Counted(applyTamossStatusObservation(x, b)) /\ Counted([x EXCEPT !.enabled = b])
           /\ Counted(ResumeOf(x))
           /\ \A c \in Nat : Counted(RecordedCycle(x, c))
<1>1. ASSUME NEW y, Counted(y), NEW p, NEW a PROVE Counted(setLifecycleOperationState(y, p, a))
  BY <1>1, Zenon DEF Counted, setLifecycleOperationState
<1>2. ASSUME NEW o PROVE Counted(LifecycleFailed(x, o)) /\ Counted(LifecycleHibernated(x, o))
  BY Zenon DEF Counted, setLifecycleOperationState, LifecycleFailed, LifecycleHibernated
<1>3. ASSUME NEW o PROVE Counted(Resolved(x, o))
  BY Zenon DEF Counted, setLifecycleOperationState, Resolved
<1>4. ASSUME NEW o, NEW c PROVE Counted(RecordedCleanup(x, o, c))
  BY Zenon DEF Counted, RecordedCleanup
<1>5. ASSUME NEW b PROVE Counted(applyTamossStatusObservation(x, b)) /\ Counted([x EXCEPT !.enabled = b])
  BY Zenon DEF Counted, applyTamossStatusObservation
<1>6. Counted(ResumeOf(x))
  BY Zenon DEF Counted, ResumeOf, setLifecycleOperationState
<1>7. ASSUME NEW c \in Nat PROVE Counted(RecordedCycle(x, c))
  BY Zenon DEF Counted, RecordedCycle
<1> QED
  BY <1>1, <1>2, <1>3, <1>4, <1>5, <1>6, <1>7, Zenon

LEMMA BootstrapCounts ==
    ASSUME Counting, NEW x, reconcileResumeBootstrap(x), tamC' = tamC
    PROVE  Counting'
<1>1. ASSUME NEW y, GateOrContinue(y) PROVE "pc" \in DOMAIN t' /\ t'.pc # "created"
  BY <1>1 DEF GateOrContinue, ReturnTamoss, Idle
<1>2. ASSUME NEW r, ReturnTamoss(r) PROVE "pc" \in DOMAIN t' /\ t'.pc # "created"
  BY <1>2, Zenon DEF ReturnTamoss, Idle
<1>3. CASE GateOrContinue(x) /\ tam' = tam
  BY <1>1, <1>3, Zenon DEF Counting
<1>4. CASE ReturnTamoss(TRUE) /\ tam' = tam
  BY <1>2, <1>4, Zenon DEF Counting
<1>5. CASE ReturnTamoss(FALSE) /\ tam' \in {tam, setLifecycleOperationState(tam, "Failed", NoRef)}
  BY <1>2, <1>5, CountKept, ZenonT(40) DEF Counting
<1>6. CASE /\ \E y : GateOrContinue(y)
           /\ tam' \in {tam, Resolved(tam, x.last)}
  BY <1>1, <1>6, CountKept, Zenon DEF Counting
<1> QED
  BY <1>3, <1>4, <1>5, <1>6, Zenon DEF reconcileResumeBootstrap, patchTamossLifecycleStatus

LEMMA TamossCounts ==
    ASSUME Counting, TamossStep
    PROVE  Counting'
<1> USE DEF caches, objects
<1>1. CASE TamossPass \/ ContinueDriven
  BY <1>1, BootstrapCounts, Zenon DEF TamossPass, ContinueDriven
<1>2. CASE ensureHibernationCycleOperation
  <2>1. /\ t' = [pc |-> "created", mem |-> tamC, todo |-> {}, item |-> tamC.cycle + 1]
        /\ tamC.cycle + 1 \in CycleOps /\ UNCHANGED <<tam, tamC>>
    BY <1>2, Zenon DEF ensureHibernationCycleOperation
  <2> QED
    BY <2>1, Zenon DEF Counting
<1>3. CASE recordHibernationCycle
  <2>1. /\ t.pc = "created" /\ tamC' = tamC /\ tam' \in {tam, RecordedCycle(tam, t.item)}
        /\ "pc" \in DOMAIN t' /\ t'.pc = "driven"
    BY <1>3, Zenon DEF recordHibernationCycle, patchTamossLifecycleStatus, Counting
  <2>2. t.item \in Nat
    BY <2>1, OpsAssumption DEF Counting, CycleOps
  <2> QED
    BY <2>1, <2>2, CountKept, Zenon DEF Counting
<1>4. CASE abortSpecHibernation \/ TamossConflict
  <2>1. t' = Idle /\ UNCHANGED <<tam, tamC>>
    BY <1>4, Zenon DEF abortSpecHibernation, TamossConflict, ReturnTamoss
  <2> QED
    BY <2>1, Zenon DEF Counting, Idle
<1>5. ASSUME NEW o \in Ops, recordResumed(o) PROVE Counting'
  <2>1. tamC' = tamC /\ tam' \in {tam, ResumeOf(tam)}
    BY <1>5, Zenon DEF recordResumed, ResumeOf, patchTamossLifecycleStatus, retentionFrame
  <2>2. "pc" \in DOMAIN t' /\ t'.pc = "retention"
    BY <1>5, Zenon DEF recordResumed, NextArtifact, Counting
  <2> QED
    BY <2>1, <2>2, CountKept, Zenon DEF Counting
<1>6. ASSUME NEW o \in Ops, recordArtifactCleanup(o) PROVE Counting'
  <2>1. tamC' = tamC /\ \E c : tam' \in {tam, RecordedCleanup(tam, o, c)}
    BY <1>6, Zenon DEF recordArtifactCleanup, patchTamossLifecycleStatus, retentionFrame
  <2>2. "pc" \in DOMAIN t' /\ t'.pc = "retention"
    BY <1>6, Zenon DEF recordArtifactCleanup, Counting
  <2>3. Counted(tam) /\ \A c : Counted(RecordedCleanup(tam, o, c))
    BY CountKept, Zenon DEF Counting
  <2>4. PICK c : tam' \in {tam, RecordedCleanup(tam, o, c)}
    BY <2>1, Zenon
  <2>5. Counted(tam)'
    <3>1. CASE tam' = tam
      BY <2>3, <3>1, Zenon
    <3>2. CASE tam' = RecordedCleanup(tam, o, c)
      BY <2>3, <3>2, Zenon
    <3> QED
      BY <2>4, <3>1, <3>2, Zenon
  <2> QED
    BY <2>1, <2>2, <2>5, Zenon DEF Counting
<1>7. ASSUME NEW o \in Ops, deleteResumeArtifact(o) PROVE Counting'
  BY <1>7, Zenon DEF deleteResumeArtifact, Counting
<1>8. CASE reconcileCNPG \/ applyTamossDesiredObjects
  BY <1>8, Zenon DEF reconcileCNPG, applyTamossDesiredObjects, Counting
<1>9. CASE patchTamossStatus
  <2>1. tamC' = tamC /\ t' = Idle /\ \E b : tam' \in {tam, applyTamossStatusObservation(tam, b)}
    BY <1>9, Zenon DEF patchTamossStatus, ReturnTamoss
  <2> QED
    BY <2>1, CountKept, Zenon DEF Counting, Idle
<1> QED
  BY <1>1, <1>2, <1>3, <1>4, <1>5, <1>6, <1>7, <1>8, <1>9, Zenon DEF TamossStep

\* Other steps that write the Tamoss leave the Tamoss controller's pass alone.
LEMMA OthersCount ==
    ASSUME Counting, UNCHANGED <<t, tamC>>,
           \/ tam' = tam \/ \E p, a : tam' = setLifecycleOperationState(tam, p, a)
           \/ \E o : tam' \in {LifecycleFailed(tam, o), LifecycleHibernated(tam, o)}
           \/ \E b : tam' = [tam EXCEPT !.enabled = b]
    PROVE  Counting'
  BY CountKept DEF Counting

LEMMA CountingStays ==
    ASSUME Counting, [Next]_vars
    PROVE  Counting'
<1> USE DEF caches, objects, tamossPass
<1>1. CASE TamossStep
  BY <1>1, TamossCounts, Zenon
<1>2. ASSUME NEW o \in Ops, HibernateStep(o) PROVE Counting'
  <2>1. CASE HibernateNotFound(o) \/ addFinalizer(o) \/ acceptOperationRetry(o) \/ HibernateTerminal(o)
             \/ HibernateDeterred(o)
    BY <2>1, OthersCount, Zenon DEF HibernateNotFound, addFinalizer, acceptOperationRetry,
                             HibernateTerminal, HibernateDeterred, hibernateFrame
  <2>2. CASE acquireHibernateLifecycle(o)
    <3>1. /\ UNCHANGED <<t, tamC>>
          /\ tam' \in {tam, setLifecycleOperationState(tam, "Hibernating", o)}
      BY <2>2, Zenon DEF acquireHibernateLifecycle, hibernateFrame, patchTamossLifecycleStatus
    <3> QED
      BY <3>1, OthersCount, Zenon
  <2>3. CASE finalizeAborted(o)
    <3>1. UNCHANGED <<t, tamC>> /\ tam' \in {tam, LifecycleFailed(tam, o)}
      BY <2>3, Zenon DEF finalizeAborted, hibernateFrame, patchTamossLifecycleStatus
    <3> QED
      BY <3>1, OthersCount, Zenon
  <2>4. CASE reconcileHibernateSourceDeprovisioning(o) \/ finalizeCommitted(o)
    <3>1. UNCHANGED <<t, tamC>> /\ tam' \in {tam, LifecycleHibernated(tam, o)}
      BY <2>4, Zenon DEF reconcileHibernateSourceDeprovisioning, finalizeCommitted,
         hibernateFrame,
                  deprovisionHibernateSource, completeHibernateLifecycle, patchTamossLifecycleStatus
    <3> QED
      BY <3>1, OthersCount, Zenon
  <2> QED
    BY <1>2, <2>1, <2>2, <2>3, <2>4, Zenon DEF HibernateStep
<1>3. CASE HibernateContinues
  <2>1. CASE setHibernateLifecycleFailed
    <3>1. UNCHANGED <<t, tamC>> /\ tam' \in {tam, LifecycleFailed(tam, h.op)}
      BY <2>1, Zenon DEF setHibernateLifecycleFailed, captureFrame, patchTamossLifecycleStatus
    <3> QED
      BY <3>1, OthersCount, Zenon
  <2>2. CASE quiesceTamossWorkloads \/ captureDatabase \/ writeHibernateManifest
    BY <2>2, OthersCount, Zenon DEF quiesceTamossWorkloads, captureDatabase,
       writeHibernateManifest, captureFrame
  <2>3. CASE ReportStatus \/ FailDeleted \/ removeFinalizer \/ HibernateConflict
    BY <2>3, OthersCount, Zenon DEF ReportStatus, FailDeleted, removeFinalizer,
       HibernateConflict, hibernateFrame
  <2> QED
    BY <1>3, <2>1, <2>2, <2>3, Zenon DEF HibernateContinues
<1>4. CASE SyncTamoss
  BY <1>4, Zenon DEF SyncTamoss, Counting
<1>5. CASE Restart
  BY <1>5, Zenon DEF Restart, Counting, Idle
<1>6. ASSUME NEW o \in Ops, DeferCleanup(o) PROVE Counting'
  BY <1>6, Zenon DEF DeferCleanup, NextArtifact, retentionFrame, Counting
<1>7. ASSUME Cnpg \/ PodsFollow \/ DestinationRecovers \/ \E o \in Ops : SyncOp(o)
      PROVE  Counting'
  <2>1. UNCHANGED <<t, tamC, tam>>
    BY <1>7, Zenon DEF Cnpg, ClusterBecomesReady, ClusterIsGone, BackupCompletes, PodsFollow,
                DestinationRecovers, SyncOp, envFrame
  <2> QED
    BY <2>1, OthersCount, Zenon
<1>8. ASSUME NEW o \in Ops, BackupFails(o) \/ CreateOp(o) \/ DeleteOp(o) \/ RetryOp(o)
      PROVE  Counting'
  BY <1>8, OthersCount, Zenon DEF BackupFails, CreateOp, DeleteOp, RetryOp, envFrame
<1>9. CASE Write \/ Enable \/ Disable \/ DestinationChanges \/ uploadFails
  <2>1. UNCHANGED <<t, tamC>> /\ (tam' = tam \/ \E b : tam' = [tam EXCEPT !.enabled = b])
    BY <1>9, Zenon DEF Write, Enable, Disable, DestinationChanges, uploadFails, envFrame
  <2> QED
    BY <2>1, OthersCount, Zenon
<1>10. CASE UNCHANGED vars
  BY <1>10, OthersCount, Zenon DEF vars
<1> QED
  BY <1>1, <1>2, <1>3, <1>4, <1>5, <1>6, <1>7, <1>8, <1>9, <1>10, Zenon DEF Next, Environment

\* With a current cache of operations the spec starts a cycle only when the one
\* before it has ended, even from a stale copy of the Tamoss and while a hibernate
\* pass overlaps.
THEOREM NewCycleTheorem ==
    ASSUME "hibernate" \notin Lagging PROVE Spec => NewCycleAlone
<1>1. Init => Reporting /\ Counting
  <2>1. Init => op = [o \in Ops |-> NoHibernate] /\ opC = op /\ h = Idle
    BY Zenon DEF Init
  <2>2. Init => Reporting
    BY <2>1, NewFields, Zenon DEF Reporting
  <2>3. Counted(NewTamoss)
    BY Zenon DEF NewTamoss, Counted
  <2>4. Init => Counting
    BY <2>3 DEF Init, Counting, Idle
  <2> QED
    BY <2>2, <2>4, Zenon
<1>2. Reporting /\ Counting /\ [Next]_vars => Reporting' /\ Counting'
  BY WhoCreates, CountingStays, Zenon
<1>3. Reporting /\ Counting /\ [Next]_vars
      => [\A c \in CycleOps \ {1} :
             ~op[c].exists /\ op'[c].exists /\ op[c - 1].exists
             => op[c - 1].phase \in {"Completed", "Failed"}]_vars
  <2> SUFFICES ASSUME Reporting, Counting, [Next]_vars, NEW c \in CycleOps \ {1},
                      ~op[c].exists, op'[c].exists, op[c - 1].exists
               PROVE  op[c - 1].phase \in {"Completed", "Failed"}
    BY Zenon
  <2>1. ensureHibernationCycleOperation
    BY WhoCreates, Zenon
  <2>2. /\ opC = op /\ ~CycleInFlight(tamC) /\ tamC.cycle + 1 \in CycleOps
        /\ op' = [op EXCEPT ![tamC.cycle + 1] = NewHibernate]
    BY <2>1, Zenon DEF ensureHibernationCycleOperation, BeginTamoss, TamossCachesCurrent
  <2>3. c = tamC.cycle + 1
    BY <2>2, Zenon DEF Reporting, Ops
  <2>4. tamC.cycle \in Nat
    BY Zenon DEF Counting, Counted
  <2> QED
    BY <2>2, <2>3, <2>4 DEF CycleInFlight, hibernationOperationTerminal, CycleOps
<1> QED
  BY <1>1, <1>2, <1>3, PTL DEF Spec, NewCycleAlone
=============================================================================
