-------------------------- MODULE PublicationProofs --------------------------
(***************************************************************************)
(* Theorems about Publication.tla, for any number of uploads, keys and     *)
(* archives and any sizes of the slots and the cache.                      *)
(***************************************************************************)
EXTENDS Publication, TLAPS

\* The storage steps of a worker, taken apart so that each has its own case.
LEMMA PublishFileTypeOK ==
  ASSUME TypeOK, NEW u \in Uploads, publish_file(u), UNCHANGED <<process, response, lostPuts>>
  PROVE  TypeOK'
<1> USE StorageAssumption, PublicationAssumption
<1> USE DEF TypeOK, Publishing, Step, Finish, SetArtifact, Dirty, disk, process,
            Steps, Active, Working, Handling, PublishSteps, LocalSteps, S3Steps, Key
<1>1. CASE LocalOpenArtifact(u) BY <1>1 DEF LocalOpenArtifact
<1>2. CASE LocalCopyArtifact(u) BY <1>2 DEF LocalCopyArtifact
<1>3. CASE LocalLinkRecord(u) BY <1>3 DEF LocalLinkRecord
<1>4. CASE LocalSyncRecords(u) BY <1>4 DEF LocalSyncRecords
<1>5. CASE LocalSyncArtifacts(u) BY <1>5 DEF LocalSyncArtifacts
<1>6. CASE S3PutArtifact(u) BY <1>6 DEF S3PutArtifact
<1>7. CASE S3PutRecordAnswered(u) BY <1>7 DEF S3PutRecordAnswered
<1>8. CASE S3PutRecordUnanswered(u) BY <1>8 DEF S3PutRecordUnanswered
<1>9. CASE S3DeleteArtifact(u) BY <1>9 DEF S3DeleteArtifact
<1> QED BY <1>1, <1>2, <1>3, <1>4, <1>5, <1>6, <1>7, <1>8, <1>9 DEF publish_file

\* Every reachable state is well typed: each handler, worker, start-up and
\* shutdown step, crash and loss of power keeps every variable in its domain.
THEOREM TypeCorrect == Spec => []TypeOK
<1> USE StorageAssumption, PublicationAssumption
<1> USE DEF Steps, Active, Working, Handling, PublishSteps, LocalSteps, S3Steps,
            TaskStates, Responses, Servers, Starting, Up
<1>1. Init => TypeOK
  <2>1. Init => lostPower \in BOOLEAN
    BY Zenon DEF Init
  <2> QED BY <2>1 DEF Init, TypeOK
<1>2. TypeOK /\ [Next]_vars => TypeOK'
  <2> SUFFICES ASSUME TypeOK, [Next]_vars PROVE TypeOK'
    OBVIOUS
  <2> USE DEF TypeOK, Goto, Respond, Forget, process, disk, worker, storageVars
  <2>1. ASSUME NEW u \in Uploads, Arrive(u) \/ AcquireSlot(u) \/ Reject(u) \/ Spawn(u) \/ Drop(u)
        PROVE  TypeOK'
    BY <2>1 DEF Arrive, AcquireSlot, Reject, Spawn, Drop
  <2>2. ASSUME NEW u \in Uploads, CreateTask(u) PROVE TypeOK'
    BY <2>2 DEF CreateTask, FirstStep
  <2>3. ASSUME NEW u \in Uploads, Publish(u) PROVE TypeOK'
    BY <2>3, PublishFileTypeOK DEF Publish
  <2>4. ASSUME NEW u \in Uploads, PushCatalog(u) \/ FinalPutTask(u) PROVE TypeOK'
    BY <2>4 DEF PushCatalog, FinalPutTask, FinalState
  <2>5. ASSUME NEW u \in Uploads, RememberTask(u) PROVE TypeOK'
    BY <2>5 DEF RememberTask, FinalState, FinalAnswer
  <2>6. ASSUME NEW u \in Uploads, Late(u) PROVE TypeOK'
    BY <2>6 DEF Late, LateRecord, Key
  <2>7. ASSUME NEW u \in Uploads, RemoveOrphan(u) \/ ReconcileTask(u) PROVE TypeOK'
    BY <2>7 DEF RemoveOrphan, ReconcileTask, SetArtifact
  <2>8. CASE Start \/ EndCleanup \/ Serve \/ Shutdown \/ CloseListeners \/ Stop
    BY <2>8 DEF Start, EndCleanup, Serve, Shutdown, CloseListeners, Stop
  <2>9. CASE LoadCatalog
    BY <2>9 DEF LoadCatalog, StoredRecords
  <2>10. CASE Crash
    BY <2>10 DEF Crash, Die
  <2>11. CASE PowerFail
    BY <2>11 DEF PowerFail, Die
  <2>12. CASE UNCHANGED vars
    BY <2>12 DEF vars
  <2> QED
    BY <2>1, <2>2, <2>3, <2>4, <2>5, <2>6, <2>7, <2>8, <2>9, <2>10, <2>11, <2>12
    DEF Next, WorkerStep, Startup
<1> QED BY <1>1, <1>2, PTL DEF Spec

-----------------------------------------------------------------------------
(* The inductive invariant, until power is lost.  SafeInv is IInv without  *)
(* its type correctness, which TypeCorrect has shown.                      *)

SafeInv ==
  /\ RecordInv
  /\ LegacyInv
  /\ WorkerInv
  /\ StragglerInv
  /\ ResponseInv
  /\ ServerInv
  /\ CompletedTaskIsPublished

\* The handler touches no storage; what it answers is true.
LEMMA HandlerSafe ==
  ASSUME SingleShot, TypeOK, TypeOK', SafeInv, NEW u \in Uploads,
         Arrive(u) \/ AcquireSlot(u) \/ Reject(u) \/ Spawn(u) \/ Drop(u)
  PROVE  SafeInv'
<1> USE StorageAssumption
<1> USE DEF SafeInv, TypeOK, Goto, Respond, process, disk, worker, Key, StoredRecords,
            Ended, Committed, Active, Working, Handling, PublishSteps, LocalSteps,
            S3Steps, Starting, Up
<1> USE DEF Arrive, AcquireSlot, Reject, Spawn, Drop
<1>1. RecordInv'
  BY DEF RecordInv
<1>2. LegacyInv'
  BY DEF LegacyInv
<1>3. WorkerInv'
  BY DEF WorkerInv
<1>4. StragglerInv'
  BY DEF StragglerInv
<1>5. ResponseInv'
  BY DEF ResponseInv, RecordInv, WorkerInv
<1>6. ServerInv'
  BY DEF ServerInv
<1>7. CompletedTaskIsPublished'
  BY DEF CompletedTaskIsPublished
<1> QED BY <1>1, <1>2, <1>3, <1>4, <1>5, <1>6, <1>7

\* Until the record is linked only the worker's own artifact changes, and no
\* record names it.
LEMMA LocalArtifactSafe ==
  ASSUME SingleShot, TypeOK, TypeOK', SafeInv, NEW u \in Uploads,
         LocalOpenArtifact(u) \/ LocalCopyArtifact(u), UNCHANGED <<process, response, lostPuts>>
  PROVE  SafeInv'
<1> USE StorageAssumption
<1> USE DEF SafeInv, TypeOK, Goto, Respond, process, disk, worker, Key, StoredRecords,
            Ended, Committed, Active, Working, Handling, PublishSteps, LocalSteps,
            S3Steps, Starting, Up
<1> USE DEF Publishing, Step, Finish, SetArtifact, Dirty, LocalOpenArtifact, LocalCopyArtifact
<1>1. RecordInv'
  BY DEF RecordInv
<1>2. LegacyInv'
  BY DEF LegacyInv
<1>3. WorkerInv'
  BY DEF WorkerInv
<1>4. StragglerInv'
  BY DEF StragglerInv
<1>5. ResponseInv'
  BY DEF ResponseInv, RecordInv, WorkerInv
<1>6. ServerInv'
  BY DEF ServerInv
<1>7. CompletedTaskIsPublished'
  BY DEF CompletedTaskIsPublished
<1> QED BY <1>1, <1>2, <1>3, <1>4, <1>5, <1>6, <1>7

\* hard_link publishes a complete artifact, or the worker removes its own.
LEMMA LocalLinkSafe ==
  ASSUME SingleShot, TypeOK, TypeOK', SafeInv, NEW u \in Uploads,
         LocalLinkRecord(u), UNCHANGED <<process, response, lostPuts>>
  PROVE  SafeInv'
<1> USE StorageAssumption
<1> USE DEF SafeInv, TypeOK, Goto, Respond, process, disk, worker, Key, StoredRecords,
            Ended, Committed, Active, Working, Handling, PublishSteps, LocalSteps,
            S3Steps, Starting, Up
<1> USE DEF Publishing, Step, Finish, SetArtifact, Dirty, LocalLinkRecord, SingleShot
<1>1. RecordInv'
  BY DEF RecordInv, WorkerInv, LegacyInv
<1>2. LegacyInv'
  BY DEF LegacyInv
<1>3. WorkerInv'
  BY DEF WorkerInv, RecordInv
<1>4. StragglerInv'
  BY DEF StragglerInv
<1>5. ResponseInv'
  BY DEF ResponseInv, RecordInv, WorkerInv
<1>6. ServerInv'
  BY DEF ServerInv
<1>7. CompletedTaskIsPublished'
  BY DEF CompletedTaskIsPublished
<1> QED BY <1>1, <1>2, <1>3, <1>4, <1>5, <1>6, <1>7

\* The directory syncs change no record.
LEMMA LocalSyncSafe ==
  ASSUME SingleShot, TypeOK, TypeOK', SafeInv, NEW u \in Uploads,
         LocalSyncRecords(u) \/ LocalSyncArtifacts(u), UNCHANGED <<process, response, lostPuts>>
  PROVE  SafeInv'
<1> USE StorageAssumption
<1> USE DEF SafeInv, TypeOK, Goto, Respond, process, disk, worker, Key, StoredRecords,
            Ended, Committed, Active, Working, Handling, PublishSteps, LocalSteps,
            S3Steps, Starting, Up
<1> USE DEF Publishing, Step, Finish, SetArtifact, Dirty, LocalSyncRecords, LocalSyncArtifacts
<1>1. RecordInv'
  BY DEF RecordInv
<1>2. LegacyInv'
  BY DEF LegacyInv
<1>3. WorkerInv'
  BY DEF WorkerInv
<1>4. StragglerInv'
  BY DEF StragglerInv
<1>5. ResponseInv'
  BY DEF ResponseInv, RecordInv, WorkerInv
<1>6. ServerInv'
  BY DEF ServerInv
<1>7. CompletedTaskIsPublished'
  BY DEF CompletedTaskIsPublished
<1> QED BY <1>1, <1>2, <1>3, <1>4, <1>5, <1>6, <1>7

\* The artifact object is written before the record and deleted only when the
\* record is another upload's.
LEMMA S3ArtifactSafe ==
  ASSUME SingleShot, TypeOK, TypeOK', SafeInv, NEW u \in Uploads,
         S3PutArtifact(u) \/ S3DeleteArtifact(u), UNCHANGED <<process, response, lostPuts>>
  PROVE  SafeInv'
<1> USE StorageAssumption
<1> USE DEF SafeInv, TypeOK, Goto, Respond, process, disk, worker, Key, StoredRecords,
            Ended, Committed, Active, Working, Handling, PublishSteps, LocalSteps,
            S3Steps, Starting, Up
<1> USE DEF Publishing, Step, Finish, SetArtifact, Dirty, S3PutArtifact, S3DeleteArtifact
<1>1. RecordInv'
  BY DEF RecordInv
<1>2. LegacyInv'
  BY DEF LegacyInv
<1>3. WorkerInv'
  BY DEF WorkerInv
<1>4. StragglerInv'
  BY DEF StragglerInv
<1>5. ResponseInv'
  BY DEF ResponseInv, RecordInv, WorkerInv
<1>6. ServerInv'
  BY DEF ServerInv
<1>7. CompletedTaskIsPublished'
  BY DEF CompletedTaskIsPublished
<1> QED BY <1>1, <1>2, <1>3, <1>4, <1>5, <1>6, <1>7

\* An answered PUT either created the record or found another upload's; an
\* unanswered one leaves the artifact for the request that may still arrive.
LEMMA S3RecordSafe ==
  ASSUME SingleShot, TypeOK, TypeOK', SafeInv, NEW u \in Uploads,
         S3PutRecordAnswered(u) \/ S3PutRecordUnanswered(u), UNCHANGED <<process, response, lostPuts>>
  PROVE  SafeInv'
<1> USE StorageAssumption
<1> USE DEF SafeInv, TypeOK, Goto, Respond, process, disk, worker, Key, StoredRecords,
            Ended, Committed, Active, Working, Handling, PublishSteps, LocalSteps,
            S3Steps, Starting, Up
<1> USE DEF Publishing, Step, Finish, SetArtifact, Dirty, S3PutRecordAnswered, S3PutRecordUnanswered, SingleShot
<1>1. RecordInv'
  BY DEF RecordInv, WorkerInv, LegacyInv
<1>2. LegacyInv'
  BY DEF LegacyInv
<1>3. WorkerInv'
  BY DEF WorkerInv, RecordInv
<1>4. StragglerInv'
  BY DEF StragglerInv, WorkerInv, ResponseInv, ServerInv
<1>5. ResponseInv'
  BY DEF ResponseInv, RecordInv, WorkerInv
<1>6. ServerInv'
  BY DEF ServerInv
<1>7. CompletedTaskIsPublished'
  BY DEF CompletedTaskIsPublished
<1> QED BY <1>1, <1>2, <1>3, <1>4, <1>5, <1>6, <1>7

\* A late record finds its artifact, and its sender did not claim success.
LEMMA LateSafe ==
  ASSUME SingleShot, TypeOK, TypeOK', SafeInv, NEW u \in Uploads,
         Late(u)
  PROVE  SafeInv'
<1> USE StorageAssumption
<1> USE DEF SafeInv, TypeOK, Goto, Respond, process, disk, worker, Key, StoredRecords,
            Ended, Committed, Active, Working, Handling, PublishSteps, LocalSteps,
            S3Steps, Starting, Up
<1> USE DEF Late, LateRecord
<1>1. RecordInv'
  BY DEF RecordInv, StragglerInv, LegacyInv
<1>2. LegacyInv'
  BY DEF LegacyInv
<1>3. WorkerInv'
  BY DEF WorkerInv
<1>4. StragglerInv'
  BY DEF StragglerInv
<1>5. ResponseInv'
  BY DEF ResponseInv, StragglerInv, RecordInv, WorkerInv
<1>6. ServerInv'
  BY DEF ServerInv, StragglerInv
<1>7. CompletedTaskIsPublished'
  BY DEF CompletedTaskIsPublished
<1> QED BY <1>1, <1>2, <1>3, <1>4, <1>5, <1>6, <1>7

\* What the worker does before and after publish_file.
LEMMA WorkerSafe ==
  ASSUME SingleShot, TypeOK, TypeOK', SafeInv, NEW u \in Uploads,
         CreateTask(u) \/ PushCatalog(u) \/ FinalPutTask(u) \/ RememberTask(u)
  PROVE  SafeInv'
<1> USE StorageAssumption
<1> USE DEF SafeInv, TypeOK, Goto, Respond, process, disk, worker, Key, StoredRecords,
            Ended, Committed, Active, Working, Handling, PublishSteps, LocalSteps,
            S3Steps, Starting, Up
<1> USE DEF CreateTask, PushCatalog, FinalPutTask, RememberTask, FirstStep, FinalState, FinalAnswer
<1>1. RecordInv'
  BY DEF RecordInv
<1>2. LegacyInv'
  BY DEF LegacyInv
<1>3. WorkerInv'
  BY DEF WorkerInv
<1>4. StragglerInv'
  BY DEF StragglerInv
<1>5. ResponseInv'
  BY DEF ResponseInv, RecordInv, WorkerInv
<1>6. ServerInv'
  BY DEF ServerInv, WorkerInv
<1>7. CompletedTaskIsPublished'
  BY DEF CompletedTaskIsPublished, WorkerInv
<1> QED BY <1>1, <1>2, <1>3, <1>4, <1>5, <1>6, <1>7

\* The clean-up removes no artifact that a record, present or late, names.
LEMMA OrphanSafe ==
  ASSUME SingleShot, TypeOK, TypeOK', SafeInv, NEW u \in Uploads,
         RemoveOrphan(u)
  PROVE  SafeInv'
<1> USE StorageAssumption
<1> USE DEF SafeInv, TypeOK, Goto, Respond, process, disk, worker, Key, StoredRecords,
            Ended, Committed, Active, Working, Handling, PublishSteps, LocalSteps,
            S3Steps, Starting, Up
<1> USE DEF RemoveOrphan, SetArtifact
<1>1. RecordInv'
  BY DEF RecordInv, ServerInv
<1>2. LegacyInv'
  BY DEF LegacyInv, ServerInv
<1>3. WorkerInv'
  BY DEF WorkerInv, ServerInv
<1>4. StragglerInv'
  BY DEF StragglerInv
<1>5. ResponseInv'
  BY DEF ResponseInv, RecordInv, WorkerInv
<1>6. ServerInv'
  BY DEF ServerInv
<1>7. CompletedTaskIsPublished'
  BY DEF CompletedTaskIsPublished
<1> QED BY <1>1, <1>2, <1>3, <1>4, <1>5, <1>6, <1>7

\* A task is completed at start-up only on the evidence of a stored record.
LEMMA ReconcileSafe ==
  ASSUME SingleShot, TypeOK, TypeOK', SafeInv, NEW u \in Uploads,
         ReconcileTask(u)
  PROVE  SafeInv'
<1> USE StorageAssumption
<1> USE DEF SafeInv, TypeOK, Goto, Respond, process, disk, worker, Key, StoredRecords,
            Ended, Committed, Active, Working, Handling, PublishSteps, LocalSteps,
            S3Steps, Starting, Up
<1> USE DEF ReconcileTask
<1>1. RecordInv'
  BY DEF RecordInv
<1>2. LegacyInv'
  BY DEF LegacyInv
<1>3. WorkerInv'
  BY DEF WorkerInv
<1>4. StragglerInv'
  BY DEF StragglerInv
<1>5. ResponseInv'
  BY DEF ResponseInv, RecordInv, WorkerInv
<1>6. ServerInv'
  BY DEF ServerInv
<1>7. CompletedTaskIsPublished'
  BY DEF CompletedTaskIsPublished, ServerInv
<1> QED BY <1>1, <1>2, <1>3, <1>4, <1>5, <1>6, <1>7

\* The phases of the process.
LEMMA ServerSafe ==
  ASSUME SingleShot, TypeOK, TypeOK', SafeInv,
         Start \/ LoadCatalog \/ EndCleanup \/ Serve \/ Shutdown \/ CloseListeners \/ Stop
  PROVE  SafeInv'
<1> USE StorageAssumption
<1> USE DEF SafeInv, TypeOK, Goto, Respond, process, disk, worker, Key, StoredRecords,
            Ended, Committed, Active, Working, Handling, PublishSteps, LocalSteps,
            S3Steps, Starting, Up
<1> USE DEF Start, LoadCatalog, EndCleanup, Serve, Shutdown, CloseListeners, Stop, Forget, storageVars
<1>1. RecordInv'
  BY DEF RecordInv
<1>2. LegacyInv'
  BY DEF LegacyInv
<1>3. WorkerInv'
  BY DEF WorkerInv
<1>4. StragglerInv'
  BY DEF StragglerInv
<1>5. ResponseInv'
  BY DEF ResponseInv, RecordInv, WorkerInv
<1>6. ServerInv'
  BY DEF ServerInv
<1>7. CompletedTaskIsPublished'
  BY DEF CompletedTaskIsPublished
<1> QED BY <1>1, <1>2, <1>3, <1>4, <1>5, <1>6, <1>7

\* A crash leaves storage alone; record PUTs it overtakes keep their artifact.
LEMMA CrashSafe ==
  ASSUME SingleShot, TypeOK, TypeOK', SafeInv,
         Crash
  PROVE  SafeInv'
<1> USE StorageAssumption
<1> USE DEF SafeInv, TypeOK, Goto, Respond, process, disk, worker, Key, StoredRecords,
            Ended, Committed, Active, Working, Handling, PublishSteps, LocalSteps,
            S3Steps, Starting, Up
<1> USE DEF Crash, Die, Forget
<1>1. RecordInv'
  BY DEF RecordInv
<1>2. LegacyInv'
  BY DEF LegacyInv
<1>3. WorkerInv'
  BY DEF WorkerInv
<1>4. StragglerInv'
  BY DEF StragglerInv, WorkerInv, ResponseInv
<1>5. ResponseInv'
  BY DEF ResponseInv, RecordInv, WorkerInv
<1>6. ServerInv'
  BY DEF ServerInv
<1>7. CompletedTaskIsPublished'
  BY DEF CompletedTaskIsPublished
<1> QED BY <1>1, <1>2, <1>3, <1>4, <1>5, <1>6, <1>7

\* IInv is inductive, but for losses of power.
LEMMA SafeInvInductive ==
  ASSUME SingleShot, TypeOK, TypeOK', SafeInv, [Next]_vars, ~PowerFail
  PROVE  SafeInv'
<1>1. ASSUME NEW u \in Uploads, Publish(u) PROVE SafeInv'
  BY <1>1, LocalArtifactSafe, LocalLinkSafe, LocalSyncSafe, S3ArtifactSafe,
     S3RecordSafe DEF Publish, publish_file
<1>2. CASE UNCHANGED vars
  BY <1>2 DEF vars, storageVars, disk, worker, SafeInv, RecordInv, LegacyInv,
     WorkerInv, StragglerInv, ResponseInv, ServerInv, CompletedTaskIsPublished,
     Key, StoredRecords
<1> QED
  BY <1>1, <1>2, HandlerSafe, LateSafe, WorkerSafe, OrphanSafe,
     ReconcileSafe, ServerSafe, CrashSafe DEF Next, WorkerStep, Startup

\* Only PowerFail loses power.
LEMMA PowerSteps ==
  ASSUME [Next]_vars PROVE UNCHANGED lostPower \/ PowerFail
<1>1. ASSUME NEW u \in Uploads,
             Arrive(u) \/ AcquireSlot(u) \/ Reject(u) \/ Spawn(u) \/ Drop(u)
             \/ CreateTask(u) \/ PushCatalog(u) \/ FinalPutTask(u) \/ RememberTask(u)
             \/ Late(u) \/ RemoveOrphan(u) \/ ReconcileTask(u)
      PROVE  UNCHANGED lostPower
  BY <1>1 DEF Arrive, AcquireSlot, Reject, Spawn, Drop, CreateTask, PushCatalog,
     FinalPutTask, RememberTask, Late, LateRecord, RemoveOrphan, ReconcileTask
<1>2. ASSUME NEW u \in Uploads, Publish(u) PROVE UNCHANGED lostPower
  BY <1>2 DEF Publish, publish_file, LocalOpenArtifact, LocalCopyArtifact,
     LocalLinkRecord, LocalSyncRecords, LocalSyncArtifacts, S3PutArtifact,
     S3PutRecordAnswered, S3PutRecordUnanswered, S3DeleteArtifact, Publishing
<1>3. CASE Start \/ LoadCatalog \/ EndCleanup \/ Serve \/ Shutdown \/ CloseListeners
           \/ Stop \/ Crash \/ UNCHANGED vars
  BY <1>3 DEF Start, LoadCatalog, EndCleanup, Serve, Shutdown, CloseListeners, Stop,
     Crash, vars, storageVars
<1> QED BY <1>1, <1>2, <1>3 DEF Next, WorkerStep, Startup

\* Nothing undoes that.
LEMMA PowerKept ==
  ASSUME [Next]_vars, ~lostPower' PROVE UNCHANGED lostPower /\ ~PowerFail
<1>1. ~PowerFail
  BY Zenon DEF PowerFail
<1> QED BY <1>1, PowerSteps

\* Where there are no losses of power, power is never lost.
LEMMA PowerHolds == ~PowerLoss => (Spec => []~lostPower)
<1> SUFFICES ASSUME ~PowerLoss PROVE Spec => []~lostPower
  OBVIOUS
<1>1. Init => ~lostPower
  BY DEF Init
<1>2. ~lostPower /\ [Next]_vars => ~lostPower'
  <2>1. ~PowerFail
    BY DEF PowerFail
  <2>2. [Next]_vars => UNCHANGED lostPower
    BY <2>1, PowerSteps
  <2> QED BY <2>2
<1> QED BY <1>1, <1>2, PTL DEF Spec

\* Every state that is reached before power is lost satisfies the inductive
\* invariant.
THEOREM InvariantHolds == SingleShot => (Spec => [](lostPower \/ IInv))
<1> SUFFICES ASSUME SingleShot PROVE Spec => [](lostPower \/ IInv)
  OBVIOUS
<1>1. Init => SafeInv
  BY StorageAssumption
  DEF Init, SafeInv, RecordInv, LegacyInv, WorkerInv, StragglerInv, ResponseInv,
      ServerInv, CompletedTaskIsPublished, Key, StoredRecords, Ended, Committed,
      Active, Working, Handling, PublishSteps, LocalSteps, S3Steps, Up
<1>2. TypeOK /\ TypeOK' /\ (lostPower \/ SafeInv) /\ [Next]_vars => (lostPower \/ SafeInv)'
  <2> SUFFICES ASSUME TypeOK, TypeOK', lostPower \/ SafeInv, [Next]_vars, ~lostPower'
               PROVE  SafeInv'
    OBVIOUS
  <2>1. ~PowerFail /\ ~lostPower
    BY PowerKept
  <2> QED BY <2>1, SafeInvInductive
<1>3. TypeOK /\ SafeInv => IInv
  BY DEF SafeInv, IInv
<1> QED BY <1>1, <1>2, <1>3, TypeCorrect, PTL DEF Spec

\* A record is never visible without its complete artifact: no race between
\* uploads, late request, crash or clean-up breaks it, as long as the machine
\* keeps its power.
THEOREM RecordsHaveArtifacts == SingleShot => (Spec => []RecordHasArtifact)
<1>1. lostPower \/ IInv => RecordHasArtifact
  BY StorageAssumption
  DEF IInv, TypeOK, RecordInv, LegacyInv, RecordHasArtifact, StoredRecords
<1> QED BY <1>1, InvariantHolds, PTL

\* A task says completed only if that very archive is published under its
\* version, also when reconcile_tasks decided it after a crash.
THEOREM CompletedTasksArePublished == SingleShot => (Spec => []CompletedTaskIsPublished)
<1>1. lostPower \/ IInv => CompletedTaskIsPublished
  BY DEF IInv, CompletedTaskIsPublished
<1> QED BY <1>1, InvariantHolds, PTL

\* 202 and 409 are true when they are given and stay true.
THEOREM TruthfulAnswers == SingleShot /\ ~PowerLoss => (Spec => []AnswersAreTrue)
<1>1. IInv => AnswersAreTrue
  BY DEF IInv, WorkerInv, ResponseInv, AnswersAreTrue
<1> QED BY <1>1, InvariantHolds, PowerHolds, PTL

-----------------------------------------------------------------------------
(* Publication implements CollectionRegistry.                              *)

\* The initial states of Publication are the registry's under the mapping.
LEMMA RegistryInit == Init => Registry!Init
BY StorageAssumption DEF Init, Registry!Init, Key

\* The steps that decide which upload holds a version.
LEMMA RegistryCommit ==
  ASSUME IInv, NEW u \in Uploads, Publish(u) \/ Late(u)
  PROVE  Registry!Commit(u) \/ UNCHANGED Registry!vars
<1> USE StorageAssumption
<1> USE DEF IInv, TypeOK, ResponseInv, Registry!Commit, Registry!vars, Key, disk,
            Working, PublishSteps, LocalSteps, S3Steps, Publishing, Step, Finish,
            SetArtifact
<1>1. CASE LocalLinkRecord(u) /\ Publish(u) BY <1>1 DEF Publish, LocalLinkRecord
<1>2. CASE S3PutRecordAnswered(u) /\ Publish(u) BY <1>2 DEF Publish, S3PutRecordAnswered
<1>3. CASE Late(u) BY <1>3 DEF Late, LateRecord, StragglerInv, Responses
<1>4. CASE Publish(u) /\ ~LocalLinkRecord(u) /\ ~S3PutRecordAnswered(u)
  BY <1>4 DEF Publish, publish_file, LocalOpenArtifact, LocalCopyArtifact,
     LocalSyncRecords, LocalSyncArtifacts, S3PutArtifact, S3PutRecordUnanswered,
     S3DeleteArtifact
<1> QED BY <1>1, <1>2, <1>3, <1>4

\* The steps that answer a request.
LEMMA RegistryAnswer ==
  ASSUME IInv, NEW u \in Uploads,
         Reject(u) \/ Drop(u) \/ CreateTask(u) \/ RememberTask(u)
  PROVE  (\E r \in Registry!Replies : Registry!Answer(u, r)) \/ UNCHANGED Registry!vars
<1> USE StorageAssumption
<1> USE DEF IInv, TypeOK, Registry!Answer, Registry!vars, Registry!Replies, Key, disk,
            Respond, Goto, Handling
<1>1. CASE Reject(u)
  <2>1. records[Key(u)] # u
    BY <1>1 DEF Reject, RecordInv, Committed, Ended
  <2> QED BY <1>1, <2>1 DEF Reject
<1>2. CASE Drop(u) BY <1>2 DEF Drop
<1>3. CASE CreateTask(u) BY <1>3 DEF CreateTask
<1>4. CASE RememberTask(u)
  <2>1. \/ FinalAnswer(u) = "202" /\ records[Key(u)] = u
        \/ FinalAnswer(u) = "409" /\ records[Key(u)] \notin {None, u}
        \/ FinalAnswer(u) = "503"
    BY DEF FinalAnswer, WorkerInv
  <2> QED BY <1>4, <2>1 DEF RememberTask
<1> QED BY <1>1, <1>2, <1>3, <1>4

\* A crash breaks every open connection.
LEMMA RegistryCrash ==
  ASSUME IInv, Crash
  PROVE  \E S \in SUBSET Uploads : Registry!Disconnect(S)
<1> DEFINE S == {u \in Uploads : pc[u] \in Active /\ response[u] = "none"}
<1>1. Registry!Disconnect(S)
  BY DEF IInv, TypeOK, Crash, Die, disk, Key, Registry!Disconnect
<1> QED BY <1>1

\* The publication machinery, with its files, tasks, catalog, restarts and
\* crashes, behaves towards clients as a write-once registry that answers
\* truthfully.
THEOREM ImplementsRegistry == SingleShot /\ ~PowerLoss => (Spec => RefinesRegistry)
<1> SUFFICES ASSUME SingleShot, ~PowerLoss PROVE Spec => RefinesRegistry
  OBVIOUS
<1>1. IInv /\ [Next]_vars => [Registry!Next]_(Registry!vars)
  <2> SUFFICES ASSUME IInv, [Next]_vars
               PROVE  Registry!Next \/ UNCHANGED Registry!vars
    OBVIOUS
  <2> USE DEF Registry!Next
  <2>1. ASSUME NEW u \in Uploads, Publish(u) \/ Late(u)
        PROVE  Registry!Next \/ UNCHANGED Registry!vars
    BY <2>1, RegistryCommit
  <2>2. ASSUME NEW u \in Uploads,
               Reject(u) \/ Drop(u) \/ CreateTask(u) \/ RememberTask(u)
        PROVE  Registry!Next \/ UNCHANGED Registry!vars
    BY <2>2, RegistryAnswer
  <2>3. ASSUME NEW u \in Uploads,
               Arrive(u) \/ AcquireSlot(u) \/ Spawn(u) \/ PushCatalog(u)
               \/ FinalPutTask(u) \/ RemoveOrphan(u) \/ ReconcileTask(u)
        PROVE  UNCHANGED Registry!vars
    BY <2>3 DEF Arrive, AcquireSlot, Spawn, PushCatalog, FinalPutTask,
       RemoveOrphan, ReconcileTask, SetArtifact, disk, Registry!vars, Key
  <2>4. CASE Start \/ LoadCatalog \/ EndCleanup \/ Serve \/ Shutdown
             \/ CloseListeners \/ Stop \/ UNCHANGED vars
    BY <2>4 DEF Start, LoadCatalog, EndCleanup, Serve, Shutdown, CloseListeners,
       Stop, vars, storageVars, disk, Registry!vars, Key
  <2>5. CASE Crash
    BY <2>5, RegistryCrash
  <2>6. ~PowerFail
    BY DEF PowerFail
  <2> QED
    BY <2>1, <2>2, <2>3, <2>4, <2>5, <2>6 DEF Next, WorkerStep, Startup
<1> QED BY <1>1, RegistryInit, InvariantHolds, PowerHolds, PTL DEF Spec, RefinesRegistry, Registry!Spec

-----------------------------------------------------------------------------
(* Import tasks.  These hold on both backends with any number of attempts, *)
(* and over losses of power.                                               *)

\* Where a stored task can be unfinished, along every behaviour.
LEMMA TaskInvHolds == Spec => []TaskInv
<1> USE StorageAssumption
<1> USE DEF TaskInv, Unfinished, Active, Working, Handling, PublishSteps, LocalSteps,
            S3Steps, Up
<1>1. Init => TaskInv
  BY DEF Init
<1>2. TypeOK /\ TaskInv /\ [Next]_vars => TaskInv'
  <2> SUFFICES ASSUME TypeOK, TaskInv, [Next]_vars PROVE TaskInv'
    OBVIOUS
  <2> USE DEF TypeOK, Goto, process, disk, worker
  <2>1. ASSUME NEW u \in Uploads, Arrive(u) \/ AcquireSlot(u) \/ Reject(u) \/ Spawn(u) \/ Drop(u)
        PROVE  TaskInv'
    BY <2>1 DEF Arrive, AcquireSlot, Reject, Spawn, Drop
  <2>2. ASSUME NEW u \in Uploads, CreateTask(u) PROVE TaskInv'
    BY <2>2 DEF CreateTask, FirstStep
  <2>3. ASSUME NEW u \in Uploads, Publish(u) PROVE TaskInv'
    <3>1. /\ pc[u] \in PublishSteps
          /\ pc' \in {[pc EXCEPT ![u] = to] : to \in Unfinished}
          /\ UNCHANGED <<tasks, server, lostPuts>>
      BY <2>3 DEF Publish, publish_file, LocalOpenArtifact, LocalCopyArtifact,
         LocalLinkRecord, LocalSyncRecords, LocalSyncArtifacts, S3PutArtifact,
         S3PutRecordAnswered, S3PutRecordUnanswered, S3DeleteArtifact,
         Publishing, Step, Finish
    <3> QED BY <3>1
  <2>4. ASSUME NEW u \in Uploads, PushCatalog(u) \/ FinalPutTask(u) \/ RememberTask(u)
        PROVE  TaskInv'
    BY <2>4 DEF PushCatalog, FinalPutTask, RememberTask, FinalState
  <2>5. ASSUME NEW u \in Uploads, Late(u) \/ RemoveOrphan(u) PROVE TaskInv'
    BY <2>5 DEF Late, LateRecord, RemoveOrphan
  <2>6. ASSUME NEW u \in Uploads, ReconcileTask(u) PROVE TaskInv'
    BY <2>6 DEF ReconcileTask
  <2>7. CASE Start \/ LoadCatalog \/ EndCleanup \/ Serve \/ Shutdown
             \/ CloseListeners \/ Stop
    BY <2>7 DEF Start, LoadCatalog, EndCleanup, Serve, Shutdown, CloseListeners,
       Stop, storageVars
  <2>8. CASE Crash \/ PowerFail
    BY <2>8 DEF Crash, PowerFail, Die
  <2>9. CASE UNCHANGED vars
    BY <2>9 DEF vars, storageVars
  <2> QED
    BY <2>1, <2>2, <2>3, <2>4, <2>5, <2>6, <2>7, <2>8, <2>9
    DEF Next, WorkerStep, Startup
<1> QED BY <1>1, <1>2, TypeCorrect, PTL DEF Spec

\* After a graceful shutdown only a task whose final write storage refused can
\* be left running.
THEOREM StoppedIsSettled == Spec => []StoppedMeansSettled
<1>1. TaskInv => StoppedMeansSettled
  BY DEF TaskInv, StoppedMeansSettled, Unfinished, Active, Working, Up
<1> QED BY <1>1, TaskInvHolds, PTL

-----------------------------------------------------------------------------
(* The catalog, the task that a client polls, and what survives a loss of  *)
(* power.  These hold on both backends with any number of attempts.        *)

\* Which uploads have records, and what the position of their workers says of
\* it.  A record that is there although its worker is not past creating it, or
\* was told that another one is, was put there by a late attempt.
PlaceInv ==
  /\ \A k \in Keys : records[k] # None => Key(records[k]) = k
  /\ \A u \in LegacyUploads : pc[u] = "done"
  /\ \A u \in Uploads :
       /\ pc[u] \notin Ended => outcome[u] = "none"
       /\ pc[u] \in {"published", "final_put", "remember"} => outcome[u] # "none"
       /\ pc[u] \in {"sync_records", "sync_artifacts"} => records[Key(u)] = u
       /\ pc[u] = "published" /\ outcome[u] = "ok" => records[Key(u)] = u
       /\ records[Key(u)] = u /\ (pc[u] \notin Committed \/ outcome[u] = "exists") =>
            straggler[u] = "applied"

\* What CatalogTracksRecords says, from the moment the catalog is loaded.
CatalogInv ==
  /\ catalog \subseteq StoredRecords
  /\ server \in Up \cup {"cleaning", "tasks"} =>
       \A u \in StoredRecords \ catalog :
         \/ pc[u] \in {"sync_records", "sync_artifacts", "published"}
         \/ outcome[u] = "error"
         \/ straggler[u] = "applied"

\* Losses of power, if there are any, find the record directories durable.
DirectoriesDurable == PowerLoss => FreshDirs = {}

\* Stragglers are S3's; one that is applied holds its version for good.
BackendInv ==
  /\ ~PowerLoss => dirtyRecords = {} /\ dirtyArtifacts = {}
  /\ \A u \in Uploads :
       /\ pc[u] \in LocalSteps => Backend = "local"
       /\ pc[u] \in S3Steps => Backend = "s3"
       /\ straggler[u] # "none" => Backend = "s3"
       /\ straggler[u] = "applied" => records[Key(u)] = u

\* A successful publication is durable and stays out of the clean-up's reach.
OkInv ==
  \A u \in Uploads :
    /\ pc[u] \in {"link", "put_record", "sync_records", "sync_artifacts"} =>
         artifacts[u] = "complete"
    /\ pc[u] = "sync_artifacts" => u \notin dirtyRecords
    /\ outcome[u] = "ok" =>
         /\ records[Key(u)] = u
         /\ artifacts[u] = "complete"
         /\ u \notin dirtyRecords \cup dirtyArtifacts
         /\ straggler[u] # "applied"
         /\ server = "cleaning" => u \in catalog

\* What can be read of the task of an upload that was accepted, or whose
\* worker has only to answer.
Readable(u) == tasks[u] = "completed" \/ (tasks[u] = "running" /\ u \in lostPuts)

PollInv ==
  \A u \in Uploads :
    /\ pc[u] = "remember" /\ outcome[u] = "ok" => Readable(u)
    /\ pc[u] \in {"idle"} \cup Handling => response[u] = "none"
    /\ pc[u] \in Working => response[u] \in {"none", "dropped"}
    /\ response[u] = "202" =>
         /\ pc[u] = "done"
         /\ outcome[u] = "ok"
         /\ Readable(u)
         /\ cache[u] \in {"none", "completed"}

\* Records are created only by the steps that put the worker past them.
LEMMA PlaceInvStep ==
  ASSUME TypeOK, PlaceInv, [Next]_vars
  PROVE  PlaceInv'
<1> USE StorageAssumption
<1> USE DEF TypeOK, Goto, Respond, Forget, process, disk, worker, storageVars, Key,
            StoredRecords, Ended, Committed, Active, Working, Handling, PublishSteps,
            LocalSteps, S3Steps, Starting, Up
<1> USE DEF PlaceInv
<1>1. ASSUME NEW u \in Uploads, Arrive(u) \/ AcquireSlot(u) \/ Reject(u) \/ Spawn(u) \/ Drop(u)
      PROVE  PlaceInv'
  BY <1>1 DEF Arrive, AcquireSlot, Reject, Spawn, Drop
<1>2. ASSUME NEW u \in Uploads, CreateTask(u)
      PROVE  PlaceInv'
  BY <1>2 DEF CreateTask, FirstStep
<1>3. ASSUME NEW u \in Uploads, Publish(u)
      PROVE  PlaceInv'
  <2> UNCHANGED <<process, response, lostPuts>>
    BY <1>3 DEF Publish
  <2> USE DEF Publishing, Step, Finish, SetArtifact, Dirty
  <2>1. CASE LocalOpenArtifact(u)
    BY <2>1 DEF LocalOpenArtifact
  <2>2. CASE LocalCopyArtifact(u)
    BY <2>2 DEF LocalCopyArtifact
  <2>3. CASE LocalLinkRecord(u)
    BY <2>3 DEF LocalLinkRecord
  <2>4. CASE LocalSyncRecords(u)
    BY <2>4 DEF LocalSyncRecords
  <2>5. CASE LocalSyncArtifacts(u)
    BY <2>5 DEF LocalSyncArtifacts
  <2>6. CASE S3PutArtifact(u)
    BY <2>6 DEF S3PutArtifact
  <2>7. CASE S3PutRecordAnswered(u)
    BY <2>7 DEF S3PutRecordAnswered
  <2>8. CASE S3PutRecordUnanswered(u)
    BY <2>8 DEF S3PutRecordUnanswered
  <2>9. CASE S3DeleteArtifact(u)
    BY <2>9 DEF S3DeleteArtifact
  <2> QED BY <1>3, <2>1, <2>2, <2>3, <2>4, <2>5, <2>6, <2>7, <2>8, <2>9 DEF Publish, publish_file
<1>4. ASSUME NEW u \in Uploads, PushCatalog(u)
      PROVE  PlaceInv'
  BY <1>4 DEF PushCatalog
<1>5. ASSUME NEW u \in Uploads, FinalPutTask(u)
      PROVE  PlaceInv'
  BY <1>5 DEF FinalPutTask, FinalState
<1>6. ASSUME NEW u \in Uploads, RememberTask(u)
      PROVE  PlaceInv'
  BY <1>6 DEF RememberTask, FinalState, FinalAnswer
<1>7. ASSUME NEW u \in Uploads, Late(u)
      PROVE  PlaceInv'
  BY <1>7 DEF Late, LateRecord
<1>8. ASSUME NEW u \in Uploads, RemoveOrphan(u)
      PROVE  PlaceInv'
  BY <1>8 DEF RemoveOrphan, SetArtifact
<1>9. ASSUME NEW u \in Uploads, ReconcileTask(u)
      PROVE  PlaceInv'
  BY <1>9 DEF ReconcileTask
<1>10. CASE Start \/ LoadCatalog \/ EndCleanup \/ Shutdown \/ CloseListeners \/ Stop
  BY <1>10 DEF Start, LoadCatalog, EndCleanup, Shutdown, CloseListeners, Stop
<1>11. CASE Serve
  BY <1>11 DEF Serve
<1>12. CASE Crash
  BY <1>12 DEF Crash, Die
<1>13. CASE PowerFail
  BY <1>13 DEF PowerFail, Die
<1>14. CASE UNCHANGED vars
  BY <1>14 DEF vars
<1> QED
  BY <1>1, <1>2, <1>3, <1>4, <1>5, <1>6, <1>7, <1>8, <1>9, <1>10, <1>11, <1>12, <1>13, <1>14
  DEF Next, WorkerStep, Startup

\* The catalog misses only what its worker has yet to push.
LEMMA CatalogInvStep ==
  ASSUME TypeOK, TaskInv, PlaceInv, CatalogInv, [Next]_vars
  PROVE  CatalogInv'
<1> USE StorageAssumption
<1> USE DEF TypeOK, Goto, Respond, Forget, process, disk, worker, storageVars, Key,
            StoredRecords, Ended, Committed, Active, Working, Handling, PublishSteps,
            LocalSteps, S3Steps, Starting, Up
<1> USE DEF CatalogInv, PlaceInv, TaskInv
<1>1. ASSUME NEW u \in Uploads, Arrive(u) \/ AcquireSlot(u) \/ Reject(u) \/ Spawn(u) \/ Drop(u)
      PROVE  CatalogInv'
  BY <1>1 DEF Arrive, AcquireSlot, Reject, Spawn, Drop
<1>2. ASSUME NEW u \in Uploads, CreateTask(u)
      PROVE  CatalogInv'
  BY <1>2 DEF CreateTask, FirstStep
<1>3. ASSUME NEW u \in Uploads, Publish(u)
      PROVE  CatalogInv'
  <2> UNCHANGED <<process, response, lostPuts>>
    BY <1>3 DEF Publish
  <2> USE DEF Publishing, Step, Finish, SetArtifact, Dirty
  <2>1. CASE LocalOpenArtifact(u)
    BY <2>1 DEF LocalOpenArtifact
  <2>2. CASE LocalCopyArtifact(u)
    BY <2>2 DEF LocalCopyArtifact
  <2>3. CASE LocalLinkRecord(u)
    BY <2>3 DEF LocalLinkRecord
  <2>4. CASE LocalSyncRecords(u)
    BY <2>4 DEF LocalSyncRecords
  <2>5. CASE LocalSyncArtifacts(u)
    BY <2>5 DEF LocalSyncArtifacts
  <2>6. CASE S3PutArtifact(u)
    BY <2>6 DEF S3PutArtifact
  <2>7. CASE S3PutRecordAnswered(u)
    BY <2>7 DEF S3PutRecordAnswered
  <2>8. CASE S3PutRecordUnanswered(u)
    BY <2>8 DEF S3PutRecordUnanswered
  <2>9. CASE S3DeleteArtifact(u)
    BY <2>9 DEF S3DeleteArtifact
  <2> QED BY <1>3, <2>1, <2>2, <2>3, <2>4, <2>5, <2>6, <2>7, <2>8, <2>9 DEF Publish, publish_file
<1>4. ASSUME NEW u \in Uploads, PushCatalog(u)
      PROVE  CatalogInv'
  BY <1>4 DEF PushCatalog
<1>5. ASSUME NEW u \in Uploads, FinalPutTask(u)
      PROVE  CatalogInv'
  BY <1>5 DEF FinalPutTask, FinalState
<1>6. ASSUME NEW u \in Uploads, RememberTask(u)
      PROVE  CatalogInv'
  BY <1>6 DEF RememberTask, FinalState, FinalAnswer
<1>7. ASSUME NEW u \in Uploads, Late(u)
      PROVE  CatalogInv'
  BY <1>7 DEF Late, LateRecord
<1>8. ASSUME NEW u \in Uploads, RemoveOrphan(u)
      PROVE  CatalogInv'
  BY <1>8 DEF RemoveOrphan, SetArtifact
<1>9. ASSUME NEW u \in Uploads, ReconcileTask(u)
      PROVE  CatalogInv'
  BY <1>9 DEF ReconcileTask
<1>10. CASE Start \/ LoadCatalog \/ EndCleanup \/ Shutdown \/ CloseListeners \/ Stop
  BY <1>10 DEF Start, LoadCatalog, EndCleanup, Shutdown, CloseListeners, Stop
<1>11. CASE Serve
  BY <1>11 DEF Serve
<1>12. CASE Crash
  BY <1>12 DEF Crash, Die
<1>13. CASE PowerFail
  BY <1>13 DEF PowerFail, Die
<1>14. CASE UNCHANGED vars
  BY <1>14 DEF vars
<1> QED
  BY <1>1, <1>2, <1>3, <1>4, <1>5, <1>6, <1>7, <1>8, <1>9, <1>10, <1>11, <1>12, <1>13, <1>14
  DEF Next, WorkerStep, Startup

\* The two backends do not mix.
LEMMA BackendInvStep ==
  ASSUME TypeOK, PlaceInv, BackendInv, [Next]_vars
  PROVE  BackendInv'
<1> USE StorageAssumption
<1> USE DEF TypeOK, Goto, Respond, Forget, process, disk, worker, storageVars, Key,
            StoredRecords, Ended, Committed, Active, Working, Handling, PublishSteps,
            LocalSteps, S3Steps, Starting, Up
<1> USE DEF BackendInv, PlaceInv
<1>1. ASSUME NEW u \in Uploads, Arrive(u) \/ AcquireSlot(u) \/ Reject(u) \/ Spawn(u) \/ Drop(u)
      PROVE  BackendInv'
  BY <1>1 DEF Arrive, AcquireSlot, Reject, Spawn, Drop
<1>2. ASSUME NEW u \in Uploads, CreateTask(u)
      PROVE  BackendInv'
  BY <1>2 DEF CreateTask, FirstStep
<1>3. ASSUME NEW u \in Uploads, Publish(u)
      PROVE  BackendInv'
  <2> UNCHANGED <<process, response, lostPuts>>
    BY <1>3 DEF Publish
  <2> USE DEF Publishing, Step, Finish, SetArtifact, Dirty
  <2>1. CASE LocalOpenArtifact(u)
    BY <2>1 DEF LocalOpenArtifact
  <2>2. CASE LocalCopyArtifact(u)
    BY <2>2 DEF LocalCopyArtifact
  <2>3. CASE LocalLinkRecord(u)
    BY <2>3 DEF LocalLinkRecord
  <2>4. CASE LocalSyncRecords(u)
    BY <2>4 DEF LocalSyncRecords
  <2>5. CASE LocalSyncArtifacts(u)
    BY <2>5 DEF LocalSyncArtifacts
  <2>6. CASE S3PutArtifact(u)
    BY <2>6 DEF S3PutArtifact
  <2>7. CASE S3PutRecordAnswered(u)
    BY <2>7 DEF S3PutRecordAnswered
  <2>8. CASE S3PutRecordUnanswered(u)
    BY <2>8 DEF S3PutRecordUnanswered
  <2>9. CASE S3DeleteArtifact(u)
    BY <2>9 DEF S3DeleteArtifact
  <2> QED BY <1>3, <2>1, <2>2, <2>3, <2>4, <2>5, <2>6, <2>7, <2>8, <2>9 DEF Publish, publish_file
<1>4. ASSUME NEW u \in Uploads, PushCatalog(u)
      PROVE  BackendInv'
  BY <1>4 DEF PushCatalog
<1>5. ASSUME NEW u \in Uploads, FinalPutTask(u)
      PROVE  BackendInv'
  BY <1>5 DEF FinalPutTask, FinalState
<1>6. ASSUME NEW u \in Uploads, RememberTask(u)
      PROVE  BackendInv'
  BY <1>6 DEF RememberTask, FinalState, FinalAnswer
<1>7. ASSUME NEW u \in Uploads, Late(u)
      PROVE  BackendInv'
  BY <1>7 DEF Late, LateRecord
<1>8. ASSUME NEW u \in Uploads, RemoveOrphan(u)
      PROVE  BackendInv'
  BY <1>8 DEF RemoveOrphan, SetArtifact
<1>9. ASSUME NEW u \in Uploads, ReconcileTask(u)
      PROVE  BackendInv'
  BY <1>9 DEF ReconcileTask
<1>10. CASE Start \/ LoadCatalog \/ EndCleanup \/ Shutdown \/ CloseListeners \/ Stop
  BY <1>10 DEF Start, LoadCatalog, EndCleanup, Shutdown, CloseListeners, Stop
<1>11. CASE Serve
  BY <1>11 DEF Serve
<1>12. CASE Crash
  BY <1>12 DEF Crash, Die
<1>13. CASE PowerFail
  BY <1>13 DEF PowerFail, Die
<1>14. CASE UNCHANGED vars
  BY <1>14 DEF vars
<1> QED
  BY <1>1, <1>2, <1>3, <1>4, <1>5, <1>6, <1>7, <1>8, <1>9, <1>10, <1>11, <1>12, <1>13, <1>14
  DEF Next, WorkerStep, Startup

\* Nothing takes a successful publication back.
LEMMA OkInvStep ==
  ASSUME DirectoriesDurable, TypeOK, TaskInv, PlaceInv, BackendInv, OkInv, [Next]_vars
  PROVE  OkInv'
<1> USE StorageAssumption
<1> USE DEF TypeOK, Goto, Respond, Forget, process, disk, worker, storageVars, Key,
            StoredRecords, Ended, Committed, Active, Working, Handling, PublishSteps,
            LocalSteps, S3Steps, Starting, Up
<1> USE DEF OkInv, BackendInv, PlaceInv, TaskInv, DirectoriesDurable
<1>1. ASSUME NEW u \in Uploads, Arrive(u) \/ AcquireSlot(u) \/ Reject(u) \/ Spawn(u) \/ Drop(u)
      PROVE  OkInv'
  BY <1>1 DEF Arrive, AcquireSlot, Reject, Spawn, Drop
<1>2. ASSUME NEW u \in Uploads, CreateTask(u)
      PROVE  OkInv'
  BY <1>2 DEF CreateTask, FirstStep
<1>3. ASSUME NEW u \in Uploads, Publish(u)
      PROVE  OkInv'
  <2> UNCHANGED <<process, response, lostPuts>>
    BY <1>3 DEF Publish
  <2> USE DEF Publishing, Step, Finish, SetArtifact, Dirty
  <2>1. CASE LocalOpenArtifact(u)
    BY <2>1 DEF LocalOpenArtifact
  <2>2. CASE LocalCopyArtifact(u)
    BY <2>2 DEF LocalCopyArtifact
  <2>3. CASE LocalLinkRecord(u)
    BY <2>3 DEF LocalLinkRecord
  <2>4. CASE LocalSyncRecords(u)
    BY <2>4 DEF LocalSyncRecords
  <2>5. CASE LocalSyncArtifacts(u)
    BY <2>5 DEF LocalSyncArtifacts
  <2>6. CASE S3PutArtifact(u)
    BY <2>6 DEF S3PutArtifact
  <2>7. CASE S3PutRecordAnswered(u)
    BY <2>7 DEF S3PutRecordAnswered
  <2>8. CASE S3PutRecordUnanswered(u)
    BY <2>8 DEF S3PutRecordUnanswered
  <2>9. CASE S3DeleteArtifact(u)
    BY <2>9 DEF S3DeleteArtifact
  <2> QED BY <1>3, <2>1, <2>2, <2>3, <2>4, <2>5, <2>6, <2>7, <2>8, <2>9 DEF Publish, publish_file
<1>4. ASSUME NEW u \in Uploads, PushCatalog(u)
      PROVE  OkInv'
  BY <1>4 DEF PushCatalog
<1>5. ASSUME NEW u \in Uploads, FinalPutTask(u)
      PROVE  OkInv'
  BY <1>5 DEF FinalPutTask, FinalState
<1>6. ASSUME NEW u \in Uploads, RememberTask(u)
      PROVE  OkInv'
  BY <1>6 DEF RememberTask, FinalState, FinalAnswer
<1>7. ASSUME NEW u \in Uploads, Late(u)
      PROVE  OkInv'
  BY <1>7 DEF Late, LateRecord
<1>8. ASSUME NEW u \in Uploads, RemoveOrphan(u)
      PROVE  OkInv'
  BY <1>8 DEF RemoveOrphan, SetArtifact
<1>9. ASSUME NEW u \in Uploads, ReconcileTask(u)
      PROVE  OkInv'
  BY <1>9 DEF ReconcileTask
<1>10. CASE Start \/ LoadCatalog \/ EndCleanup \/ Shutdown \/ CloseListeners \/ Stop
  BY <1>10 DEF Start, LoadCatalog, EndCleanup, Shutdown, CloseListeners, Stop
<1>11. CASE Serve
  BY <1>11 DEF Serve
<1>12. CASE Crash
  BY <1>12 DEF Crash, Die
<1>13. CASE PowerFail
  BY <1>13 DEF PowerFail, Die
<1>14. CASE UNCHANGED vars
  BY <1>14 DEF vars
<1> QED
  BY <1>1, <1>2, <1>3, <1>4, <1>5, <1>6, <1>7, <1>8, <1>9, <1>10, <1>11, <1>12, <1>13, <1>14
  DEF Next, WorkerStep, Startup

\* The task of an accepted upload is completed, or its last write was refused.
LEMMA PollInvStep ==
  ASSUME TypeOK, TaskInv, PlaceInv, CatalogInv, OkInv, PollInv, [Next]_vars
  PROVE  PollInv'
<1> USE StorageAssumption
<1> USE DEF TypeOK, Goto, Respond, Forget, process, disk, worker, storageVars, Key,
            StoredRecords, Ended, Committed, Active, Working, Handling, PublishSteps,
            LocalSteps, S3Steps, Starting, Up
<1> USE DEF PollInv, Readable, OkInv, CatalogInv, PlaceInv, TaskInv, Unfinished
<1>1. ASSUME NEW u \in Uploads, Arrive(u) \/ AcquireSlot(u) \/ Reject(u) \/ Spawn(u) \/ Drop(u)
      PROVE  PollInv'
  BY <1>1 DEF Arrive, AcquireSlot, Reject, Spawn, Drop
<1>2. ASSUME NEW u \in Uploads, CreateTask(u)
      PROVE  PollInv'
  BY <1>2 DEF CreateTask, FirstStep
<1>3. ASSUME NEW u \in Uploads, Publish(u)
      PROVE  PollInv'
  <2> UNCHANGED <<process, response, lostPuts>>
    BY <1>3 DEF Publish
  <2> USE DEF Publishing, Step, Finish, SetArtifact, Dirty
  <2>1. CASE LocalOpenArtifact(u)
    BY <2>1 DEF LocalOpenArtifact
  <2>2. CASE LocalCopyArtifact(u)
    BY <2>2 DEF LocalCopyArtifact
  <2>3. CASE LocalLinkRecord(u)
    BY <2>3 DEF LocalLinkRecord
  <2>4. CASE LocalSyncRecords(u)
    BY <2>4 DEF LocalSyncRecords
  <2>5. CASE LocalSyncArtifacts(u)
    BY <2>5 DEF LocalSyncArtifacts
  <2>6. CASE S3PutArtifact(u)
    BY <2>6 DEF S3PutArtifact
  <2>7. CASE S3PutRecordAnswered(u)
    BY <2>7 DEF S3PutRecordAnswered
  <2>8. CASE S3PutRecordUnanswered(u)
    BY <2>8 DEF S3PutRecordUnanswered
  <2>9. CASE S3DeleteArtifact(u)
    BY <2>9 DEF S3DeleteArtifact
  <2> QED BY <1>3, <2>1, <2>2, <2>3, <2>4, <2>5, <2>6, <2>7, <2>8, <2>9 DEF Publish, publish_file
<1>4. ASSUME NEW u \in Uploads, PushCatalog(u)
      PROVE  PollInv'
  BY <1>4 DEF PushCatalog
<1>5. ASSUME NEW u \in Uploads, FinalPutTask(u)
      PROVE  PollInv'
  BY <1>5 DEF FinalPutTask, FinalState
<1>6. ASSUME NEW u \in Uploads, RememberTask(u)
      PROVE  PollInv'
  BY <1>6 DEF RememberTask, FinalState, FinalAnswer
<1>7. ASSUME NEW u \in Uploads, Late(u)
      PROVE  PollInv'
  BY <1>7 DEF Late, LateRecord
<1>8. ASSUME NEW u \in Uploads, RemoveOrphan(u)
      PROVE  PollInv'
  BY <1>8 DEF RemoveOrphan, SetArtifact
<1>9. ASSUME NEW u \in Uploads, ReconcileTask(u)
      PROVE  PollInv'
  BY <1>9 DEF ReconcileTask
<1>10. CASE Start \/ LoadCatalog \/ EndCleanup \/ Shutdown \/ CloseListeners \/ Stop
  BY <1>10 DEF Start, LoadCatalog, EndCleanup, Shutdown, CloseListeners, Stop
<1>11. CASE Serve
  BY <1>11 DEF Serve
<1>12. CASE Crash
  BY <1>12 DEF Crash, Die
<1>13. CASE PowerFail
  BY <1>13 DEF PowerFail, Die
<1>14. CASE UNCHANGED vars
  BY <1>14 DEF vars
<1> QED
  BY <1>1, <1>2, <1>3, <1>4, <1>5, <1>6, <1>7, <1>8, <1>9, <1>10, <1>11, <1>12, <1>13, <1>14
  DEF Next, WorkerStep, Startup

\* Every reachable state satisfies PlaceInv, CatalogInv and BackendInv.
LEMMA PlacesHold == Spec => [](PlaceInv /\ CatalogInv /\ BackendInv)
<1>1. Init => PlaceInv /\ CatalogInv /\ BackendInv
  BY StorageAssumption
  DEF Init, PlaceInv, CatalogInv, BackendInv, Key, StoredRecords, Ended, Committed,
      LocalSteps, S3Steps, Up
<1>2. TypeOK /\ TaskInv /\ PlaceInv /\ CatalogInv /\ BackendInv /\ [Next]_vars
      => (PlaceInv /\ CatalogInv /\ BackendInv)'
  BY PlaceInvStep, CatalogInvStep, BackendInvStep
<1> QED BY <1>1, <1>2, TypeCorrect, TaskInvHolds, PTL DEF Spec

\* Where directories are durable, every reachable state satisfies OkInv and
\* PollInv.
LEMMA OkHolds == DirectoriesDurable => (Spec => [](OkInv /\ PollInv))
<1> SUFFICES ASSUME DirectoriesDurable PROVE Spec => [](OkInv /\ PollInv)
  OBVIOUS
<1>1. Init => OkInv /\ PollInv
  BY StorageAssumption
  DEF Init, OkInv, PollInv, Key, Handling, Working, PublishSteps, LocalSteps, S3Steps
<1>2. TypeOK /\ TaskInv /\ PlaceInv /\ CatalogInv /\ BackendInv /\ OkInv /\ PollInv
      /\ [Next]_vars => (OkInv /\ PollInv)'
  BY OkInvStep, PollInvStep
<1> QED BY <1>1, <1>2, TypeCorrect, TaskInvHolds, PlacesHold, PTL DEF Spec

\* A failed task whose record is in place had an error or a late PUT.
LEMMA FailedStep ==
  ASSUME TypeOK, TaskInv, PlaceInv, CatalogInv, FailedIsUnpublished, [Next]_vars
  PROVE  FailedIsUnpublished'
<1> USE StorageAssumption
<1> USE DEF TypeOK, process, disk, worker, storageVars, Key, TaskInv, PlaceInv,
            FailedIsUnpublished, Active, Working, PublishSteps, LocalSteps, S3Steps, Up,
            Unfinished
<1>1. ASSUME NEW u \in Uploads,
             Arrive(u) \/ AcquireSlot(u) \/ Reject(u) \/ Spawn(u) \/ Drop(u)
             \/ PushCatalog(u) \/ RememberTask(u) \/ RemoveOrphan(u)
      PROVE  FailedIsUnpublished'
  BY <1>1 DEF Arrive, AcquireSlot, Reject, Spawn, Drop, PushCatalog, RememberTask,
     RemoveOrphan, SetArtifact
<1>2. ASSUME NEW u \in Uploads, CreateTask(u) PROVE FailedIsUnpublished'
  BY <1>2 DEF CreateTask
<1>3. ASSUME NEW u \in Uploads, Publish(u) PROVE FailedIsUnpublished'
  <2>1. /\ tasks[u] = "running" /\ UNCHANGED <<tasks, job>>
        /\ records' \in {records, [records EXCEPT ![Key(u)] = u]}
        /\ \A v \in Uploads \ {u} : outcome'[v] = outcome[v] /\ straggler'[v] = straggler[v]
    BY <1>3 DEF Publish, publish_file, LocalOpenArtifact, LocalCopyArtifact,
       LocalLinkRecord, LocalSyncRecords, LocalSyncArtifacts, S3PutArtifact,
       S3PutRecordAnswered, S3PutRecordUnanswered, S3DeleteArtifact,
       Publishing, Step, Finish, SetArtifact
  <2> QED BY <2>1
<1>4. ASSUME NEW u \in Uploads, FinalPutTask(u) PROVE FailedIsUnpublished'
  <2>1. outcome[u] \in {"ok", "exists", "error"}
    BY <1>4 DEF FinalPutTask
  <2> QED BY <1>4, <2>1 DEF FinalPutTask, FinalState
<1>5. ASSUME NEW u \in Uploads, Late(u) PROVE FailedIsUnpublished'
  BY <1>5 DEF Late, LateRecord
<1>6. ASSUME NEW u \in Uploads, ReconcileTask(u) PROVE FailedIsUnpublished'
  <2>1. UNCHANGED <<job, records, outcome, straggler>> /\ server = "tasks"
    BY <1>6 DEF ReconcileTask
  <2>2. \A v \in Uploads \ {u} : tasks'[v] = tasks[v]
    BY <1>6 DEF ReconcileTask
  <2>3. u \in catalog => tasks'[u] = "completed"
    BY <1>6 DEF ReconcileTask
  <2>4. records[Key(u)] = u => u \in StoredRecords
    BY DEF StoredRecords
  <2>5. records[Key(u)] = u /\ u \notin catalog => outcome[u] = "error" \/ straggler[u] = "applied"
    BY <2>1, <2>4 DEF CatalogInv
  <2> QED BY <2>1, <2>2, <2>3, <2>5
<1>7. CASE Start \/ LoadCatalog \/ EndCleanup \/ Serve \/ Shutdown \/ CloseListeners
           \/ Stop \/ UNCHANGED vars
  BY <1>7 DEF Start, LoadCatalog, EndCleanup, Serve, Shutdown, CloseListeners, Stop, vars
<1>8. CASE Crash \/ PowerFail
  BY <1>8 DEF Crash, PowerFail, Die
<1> QED
  BY <1>1, <1>2, <1>3, <1>4, <1>5, <1>6, <1>7, <1>8 DEF Next, WorkerStep, Startup

\* No crash, restart or race makes a task read failed while its own record is in
\* place, on either backend, with any number of attempts and over losses of
\* power: that takes an error of publish_file after the record was created, or a
\* record PUT that S3 applied late.
THEOREM FailedTasksAreUnpublished == Spec => []FailedIsUnpublished
<1>1. Init => FailedIsUnpublished
  BY DEF Init, FailedIsUnpublished
<1>2. TypeOK /\ TaskInv /\ PlaceInv /\ CatalogInv /\ FailedIsUnpublished /\ [Next]_vars
      => FailedIsUnpublished'
  BY FailedStep
<1> QED BY <1>1, <1>2, TypeCorrect, TaskInvHolds, PlacesHold, PTL DEF Spec

\* While requests are served, the listings made from the catalog show stored
\* records only and miss none but those a worker is about to push and those
\* whose publication was reported as failed.
THEOREM CatalogIsCurrent == Spec => []CatalogTracksRecords
<1>1. CatalogInv => CatalogTracksRecords
  BY DEF CatalogInv, CatalogTracksRecords
<1> QED BY <1>1, PlacesHold, PTL

\* What was answered 202 can be downloaded from then on, over any crashes,
\* restarts, clean-ups, races and retries, and over losses of power that find
\* the record directories durable.
THEOREM AcceptedStaysDurable == DirectoriesDurable => (Spec => []AcceptedIsDurable)
<1>1. TypeOK /\ OkInv /\ PollInv => AcceptedIsDurable
  BY StorageAssumption
  DEF TypeOK, OkInv, PollInv, AcceptedIsDurable, stream, record
<1> QED BY <1>1, OkHolds, TypeCorrect, PTL

\* Who was answered 202 sees the task completed, whichever restarts, evictions
\* and reconciliations happen meanwhile.
THEOREM AcceptedTasksPoll == DirectoriesDurable => (Spec => []AcceptedUploadPolls)
<1>1. PollInv => AcceptedUploadPolls
  BY DEF PollInv, Readable, AcceptedUploadPolls, task_status
<1> QED BY <1>1, OkHolds, PTL
=============================================================================
