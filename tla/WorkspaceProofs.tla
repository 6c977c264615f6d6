--------------------------- MODULE WorkspaceProofs ---------------------------
(***************************************************************************)
(* Theorems about Workspace, for every set of archives, every way the      *)
(* backend may change them and every bound.                                *)
(***************************************************************************)
EXTENDS Workspace, TLAPS

\* The initial state has the right types.
LEMMA TypeInit == Init => TypeOK
<1> SUFFICES ASSUME Init PROVE TypeOK
  OBVIOUS
<1> USE DEF Init
<1>1. TypeOutside
  <2>1. crashes \in 0..MaxCrashes
    BY BoundsAssumption
  <2> QED
    BY <2>1 DEF TypeOutside
<1>2. TypeSnaps
  BY BoundsAssumption DEF TypeSnaps, Snaps
<1>3. TypeDisk
  BY DEF TypeDisk
<1>4. TypeLoop
  BY DEF TypeLoop
<1>5. TypeJobs
  BY DEF TypeJobs, NoJob, NewJob, NoCk, JobPcs, CkPcs
<1> QED
  BY <1>1, <1>2, <1>3, <1>4, <1>5 DEF TypeOK

\* A step of the backend, the users or time keeps the types.
LEMMA SurroundingsType == TypeOK /\ Surroundings => TypeOK'
<1> SUFFICES ASSUME TypeOK, Surroundings PROVE TypeOK'
  OBVIOUS
<1> USE DEF TypeOK, Surroundings, ChangeSpec, RequestDeletion, Edit, WindowElapses, PauseEnds
<1>1. TypeOutside'
  BY DEF TypeOutside
<1>2. TypeSnaps'
  BY BoundsAssumption DEF TypeSnaps, Snaps
<1>3. TypeDisk'
  BY DEF TypeDisk
<1>4. TypeLoop'
  <2>1. UNCHANGED <<inbox, inboxDel, cancelled, mpc, cur, call, stopErr, sealed>>
    OBVIOUS
  <2>2. paused' \in BOOLEAN
    BY DEF TypeLoop
  <2> HIDE DEF Surroundings
  <2> QED
    BY <2>1, <2>2 DEF TypeLoop
<1>5. TypeJobs'
  BY DEF TypeJobs
<1> QED
  BY <1>1, <1>2, <1>3, <1>4, <1>5

\* A step of the intake keeps the types.
LEMMA IntakeType == TypeOK /\ Intake => TypeOK'
<1> SUFFICES ASSUME TypeOK, Intake PROVE TypeOK'
  OBVIOUS
<1> USE DEF TypeOK, Intake
<1>1. TypeOutside'
  BY DEF TypeOutside
<1>2. TypeSnaps'
  BY DEF TypeSnaps
<1>3. TypeDisk'
  BY DEF TypeDisk
<1>4. TypeLoop'
  BY DEF TypeLoop, TypeOutside
<1>5. TypeJobs'
  BY DEF TypeJobs
<1> QED
  BY <1>1, <1>2, <1>3, <1>4, <1>5

\* A step that begins a pass keeps the types.
LEMMA BeginPassType == TypeOK /\ BeginPass => TypeOK'
<1> SUFFICES ASSUME TypeOK, BeginPass PROVE TypeOK'
  OBVIOUS
<1> USE DEF TypeOK, BeginPass
<1>1. TypeOutside'
  BY DEF TypeOutside
<1>2. TypeSnaps'
  BY DEF TypeSnaps
<1>3. TypeDisk'
  BY DEF TypeDisk
<1>4. TypeLoop'
  BY DEF TypeLoop, AlivePcs, StopPcs
<1>5. TypeJobs'
  BY DEF TypeJobs
<1> QED
  BY <1>1, <1>2, <1>3, <1>4, <1>5

\* A step of a call of Restore keeps the types.
LEMMA RestoreCallType == TypeOK /\ RestoreCall => TypeOK'
<1> SUFFICES ASSUME TypeOK, RestoreCall PROVE TypeOK'
  OBVIOUS
<1> USE DEF TypeOK, RestoreCall, Restore, KeepRestore, StartRestore, ReplaceRestore,
           AwaitReplaced, Returns
<1>1. TypeOutside'
  BY DEF TypeOutside
<1>2. TypeSnaps'
  BY DEF TypeSnaps
<1>3. TypeDisk'
  BY DEF TypeDisk, Written
<1>4. TypeLoop'
  BY DEF TypeLoop, AlivePcs, Wants
<1>5. TypeJobs'
  <2>1. CASE Restore \/ KeepRestore
    BY <2>1 DEF TypeJobs
  <2>2. CASE ReplaceRestore
    BY <2>2 DEF TypeJobs
  <2>3. CASE StartRestore \/ AwaitReplaced
    <3>1. cur \in Keys /\ job' = NewJob(cur)
      BY <2>3 DEF TypeLoop
    <3> QED
      BY <3>1 DEF TypeJobs, NewJob, JobPcs
  <2> QED
    BY <2>1, <2>2, <2>3
<1> QED
  BY <1>1, <1>2, <1>3, <1>4, <1>5

\* A step of the container's reconciliation keeps the types.
LEMMA ContainerPassType == TypeOK /\ ContainerPass => TypeOK'
<1> SUFFICES ASSUME TypeOK, ContainerPass PROVE TypeOK'
  OBVIOUS
<1> USE DEF TypeOK, ContainerPass, Converge, RunContainer, MarkStarted, EndPass
<1>1. TypeOutside'
  BY DEF TypeOutside
<1>2. TypeSnaps'
  BY DEF TypeSnaps
<1>3. TypeDisk'
  BY DEF TypeDisk
<1>4. TypeLoop'
  BY DEF TypeLoop, AlivePcs
<1>5. TypeJobs'
  BY DEF TypeJobs, NoCk, CkPcs
<1> QED
  BY <1>1, <1>2, <1>3, <1>4, <1>5

\* A step that stops what runs before a save keeps the types.
LEMMA StopPassType == TypeOK /\ StopPass => TypeOK'
<1> SUFFICES ASSUME TypeOK, StopPass PROVE TypeOK'
  OBVIOUS
<1> USE DEF TypeOK, StopPass, StopContainers, StopRestore, AwaitJob, Seal, AwaitCk
<1>1. TypeOutside'
  BY DEF TypeOutside
<1>2. TypeSnaps'
  BY DEF TypeSnaps
<1>3. TypeDisk'
  BY DEF TypeDisk
<1>4. TypeLoop'
  BY DEF TypeLoop, StopPcs, SavePcs, FailPcs
<1>5. TypeJobs'
  BY DEF TypeJobs
<1> QED
  BY <1>1, <1>2, <1>3, <1>4, <1>5

\* A step of a save keeps the types.
LEMMA SaveType == TypeOK /\ Save => TypeOK'
<1> SUFFICES ASSUME TypeOK, Save PROVE TypeOK'
  OBVIOUS
<1> USE DEF TypeOK, Save, RepeatOutcome, SkipSave, TellSkipped, BeginSave, HoldBack, Attempt,
            ReuseArchive, Pack, PackFails, MarkPacked, Upload, UploadFails, SaveFails,
            DropArchive, RecordSaved, TellSaved, TellFailed, RecordFailed
<1>1. TypeOutside'
  BY DEF TypeOutside, Outcome, Verdicts
<1>2. TypeSnaps'
  BY DEF TypeSnaps
<1>3. TypeDisk'
  BY DEF TypeDisk, Verdicts
<1>4. TypeLoop'
  <2>1. mpc' \in {"idle"} \cup SavePcs
    BY DEF SavePcs, FailPcs, PackPcs
  <2>2. UNCHANGED <<inbox, inboxDel, cancelled, cur, call, stopErr, sealed>>
    OBVIOUS
  <2>3. paused' \in BOOLEAN
    BY DEF TypeLoop
  <2> HIDE DEF Save
  <2> QED
    BY <2>1, <2>2, <2>3 DEF TypeLoop, SavePcs, FailPcs, PackPcs
<1>5. TypeJobs'
  BY DEF TypeJobs
<1> QED
  BY <1>1, <1>2, <1>3, <1>4, <1>5

\* A step of the restore goroutine keeps the types.
LEMMA RestoreJobType == TypeOK /\ RestoreJob => TypeOK'
<1> SUFFICES ASSUME TypeOK, RestoreJob PROVE TypeOK'
  OBVIOUS
<1> USE DEF TypeOK, RestoreJob, JobFetch, JobMove, JobMoved, JobCheck, JobCommit, JobReport
<1>1. TypeOutside'
  BY DEF TypeOutside
<1>2. TypeSnaps'
  <2>1. CASE JobMove
    <3>1. job.key \in Keys /\ ws \in Snaps
      BY <2>1 DEF TypeJobs, TypeSnaps
    <3>2. ws' \in Snaps
      BY <2>1, <3>1 DEF Snaps
    <3> QED
      BY <3>2 DEF TypeSnaps
  <2>2. CASE JobMoved
    <3>1. job.key \in Keys /\ ws \in Snaps
      BY <2>2 DEF TypeJobs, TypeSnaps
    <3>2. ws' \in Snaps
      BY <2>2, <3>1 DEF Snaps
    <3> QED
      BY <3>2 DEF TypeSnaps
  <2>3. CASE JobFetch \/ JobCheck \/ JobCommit \/ JobReport
    BY <2>3 DEF TypeSnaps
  <2> QED
    BY <2>1, <2>2, <2>3
<1>3. TypeDisk'
  BY DEF TypeDisk, Written, TypeJobs
<1>4. TypeLoop'
  BY DEF TypeLoop
<1>5. TypeJobs'
  <2>1. job \in [pc : JobPcs, key : Keys \cup {"nil"}, stopped : BOOLEAN, err : BOOLEAN,
                 result : {"nil", "restored", "restore_failed"}]
    BY DEF TypeJobs
  <2>2. job.pc # "none" => job.key \in Keys
    BY DEF TypeJobs
  <2>3. CASE JobFetch \/ JobMove \/ JobMoved
    BY <2>1, <2>2, <2>3 DEF TypeJobs, JobPcs
  <2>4. CASE JobCheck
    BY <2>1, <2>2, <2>4 DEF TypeJobs, JobPcs
  <2>5. CASE JobCommit \/ JobReport
    BY <2>1, <2>2, <2>5 DEF TypeJobs, JobPcs
  <2> QED
    BY <2>3, <2>4, <2>5
<1> QED
  BY <1>1, <1>2, <1>3, <1>4, <1>5

\* A step of the checkpoint goroutine keeps the types.
LEMMA CheckpointJobType == TypeOK /\ CheckpointJob => TypeOK'
<1> SUFFICES ASSUME TypeOK, CheckpointJob PROVE TypeOK'
  OBVIOUS
<1> USE DEF TypeOK, CheckpointJob, CkPack, CkSend, CkCommit, CkGivesUp
<1>1. TypeOutside'
  BY DEF TypeOutside
<1>2. TypeSnaps'
  BY DEF TypeSnaps, TypeJobs, CkPcs
<1>3. TypeDisk'
  BY DEF TypeDisk
<1>4. TypeLoop'
  BY DEF TypeLoop
<1>5. TypeJobs'
  BY DEF TypeJobs, TypeSnaps, CkPcs, CkOver
<1> QED
  BY <1>1, <1>2, <1>3, <1>4, <1>5

\* A step of a restart keeps the types.
LEMMA RestartType == TypeOK /\ Restart => TypeOK'
<1> SUFFICES ASSUME TypeOK, Restart PROVE TypeOK'
  OBVIOUS
<1> USE DEF TypeOK, Restart
<1>1. TypeOutside'
  BY BoundsAssumption DEF TypeOutside
<1>2. TypeSnaps'
  BY DEF TypeSnaps
<1>3. TypeDisk'
  BY DEF TypeDisk
<1>4. TypeLoop'
  BY DEF TypeLoop
<1>5. TypeJobs'
  BY DEF TypeJobs, NoJob, NewJob, NoCk, JobPcs, CkPcs
<1> QED
  BY <1>1, <1>2, <1>3, <1>4, <1>5


\* Every step keeps the types.
LEMMA TypeStep == TypeOK /\ [Next]_vars => TypeOK'
<1>1. TypeOK /\ UNCHANGED vars => TypeOK'
  BY DEF vars, TypeOK, TypeOutside, TypeSnaps, TypeDisk, TypeLoop, TypeJobs
<1> QED
  BY <1>1, SurroundingsType, IntakeType, BeginPassType, RestoreCallType, ContainerPassType,
     StopPassType, SaveType, RestoreJobType, CheckpointJobType, RestartType DEF Next, MainLoop

\* TypeOK holds of every execution.
THEOREM TypeCorrect == Spec => []TypeOK
  BY TypeInit, TypeStep, PTL DEF Spec

-----------------------------------------------------------------------------
\* What an outcome on disk is, and that there is none before one is written.
LEMMA OutcomeNil == TypeOK => (Outcome = "nil" <=> verdicts = {})
  BY DEF TypeOK, TypeDisk, Verdicts, Outcome

\* In the initial state nothing has been saved.
LEMMA InitIInv == Init => IInv
<1> SUFFICES ASSUME Init PROVE IInv
  OBVIOUS
<1>1. TypeOK
  BY TypeInit
<1>2. SaveGuarded
  BY DEF Init, SaveGuarded, StopPcs, SavePcs, FailPcs, PackPcs
<1>3. ArchivesFinal
  BY DEF Init, ArchivesFinal, PackPcs
<1>4. OutcomeOnce
  BY DEF Init, OutcomeOnce, PackPcs
<1>5. CheckpointHasSnap
  BY DEF Init, CheckpointHasSnap, NoCk
<1>6. FilesInPlace
  BY DEF Init, FilesInPlace, NoJob, NewJob
<1> QED
  BY <1>1, <1>2, <1>3, <1>4, <1>5, <1>6 DEF IInv

\* A step of the backend, the users or time preserves the invariant.
LEMMA SurroundingsInv == IInv /\ Surroundings => IInv'
<1> SUFFICES ASSUME IInv, Surroundings PROVE IInv'
  OBVIOUS
<1> USE DEF Surroundings, ChangeSpec, RequestDeletion, Edit, WindowElapses, PauseEnds
<1>1. TypeOK'
  BY SurroundingsType DEF IInv
<1>2. SaveGuarded'
  BY DEF IInv, SaveGuarded, JobOver, CkOver, AlivePcs, StopPcs, SavePcs, FailPcs, PackPcs
<1>3. ArchivesFinal'
  <2>1. Quiet => Quiet' /\ ws' = ws
    BY DEF Quiet, Ended, JobOver, CkOver
  <2>2. ~Quiet => stored = NoSnap /\ out = NoSnap /\ packed = NoSnap /\ ws # NoSnap
    BY NoSnapAssumption DEF IInv, ArchivesFinal, TypeOK, TypeSnaps
  <2> QED
    BY <2>1, <2>2 DEF IInv, ArchivesFinal
<1>4. OutcomeOnce'
  BY OutcomeNil DEF IInv, SaveGuarded, OutcomeOnce, Outcome, Ended, JobOver, CkOver, StopPcs,
     SavePcs, FailPcs, PackPcs
<1>5. CheckpointHasSnap'
  BY DEF IInv, CheckpointHasSnap, TypeOK, TypeSnaps, TypeJobs
<1>6. FilesInPlace'
  BY DEF IInv, FilesInPlace, TypeOK, TypeSnaps, TypeJobs, Snaps
<1> QED
  BY <1>1, <1>2, <1>3, <1>4, <1>5, <1>6 DEF IInv

\* A step of the intake preserves the invariant.
LEMMA IntakeInv == IInv /\ Intake => IInv'
<1> SUFFICES ASSUME IInv, Intake PROVE IInv'
  OBVIOUS
<1> USE DEF Intake
<1>1. TypeOK'
  BY IntakeType DEF IInv
<1>2. SaveGuarded'
  BY DEF IInv, SaveGuarded, JobOver, CkOver, AlivePcs, StopPcs, SavePcs, FailPcs, PackPcs
<1>3. ArchivesFinal'
  BY DEF IInv, SaveGuarded, ArchivesFinal, Quiet, Ended, JobOver, CkOver, StopPcs, SavePcs,
         FailPcs, PackPcs
<1>4. OutcomeOnce'
  BY OutcomeNil DEF IInv, SaveGuarded, OutcomeOnce, Outcome, Ended, JobOver, CkOver, StopPcs,
     SavePcs, FailPcs, PackPcs
<1>5. CheckpointHasSnap'
  BY DEF IInv, CheckpointHasSnap, TypeOK, TypeSnaps, TypeJobs
<1>6. FilesInPlace'
  BY DEF IInv, FilesInPlace, TypeOK, TypeJobs
<1> QED
  BY <1>1, <1>2, <1>3, <1>4, <1>5, <1>6 DEF IInv

\* A step that begins a pass preserves the invariant.
LEMMA BeginPassInv == IInv /\ BeginPass => IInv'
<1> SUFFICES ASSUME IInv, BeginPass PROVE IInv'
  OBVIOUS
<1> USE DEF BeginPass
<1>1. TypeOK'
  BY BeginPassType DEF IInv
<1>2. SaveGuarded'
  BY DEF IInv, SaveGuarded, JobOver, CkOver, AlivePcs, StopPcs, SavePcs, FailPcs, PackPcs
<1>3. ArchivesFinal'
  BY DEF IInv, SaveGuarded, ArchivesFinal, Quiet, Ended, JobOver, CkOver, StopPcs, SavePcs,
         FailPcs, PackPcs
<1>4. OutcomeOnce'
  BY OutcomeNil DEF IInv, SaveGuarded, OutcomeOnce, Outcome, Ended, JobOver, CkOver, StopPcs,
     SavePcs, FailPcs, PackPcs
<1>5. CheckpointHasSnap'
  BY DEF IInv, CheckpointHasSnap, TypeOK, TypeSnaps, TypeJobs
<1>6. FilesInPlace'
  BY DEF IInv, FilesInPlace, TypeOK, TypeJobs
<1> QED
  BY <1>1, <1>2, <1>3, <1>4, <1>5, <1>6 DEF IInv

\* A step of a call of Restore preserves the invariant.
LEMMA RestoreCallInv == IInv /\ RestoreCall => IInv'
<1> SUFFICES ASSUME IInv, RestoreCall PROVE IInv'
  OBVIOUS
<1> USE DEF RestoreCall, Restore, KeepRestore, StartRestore, ReplaceRestore,
           AwaitReplaced, Returns
<1>1. TypeOK'
  BY RestoreCallType DEF IInv
<1>2. SaveGuarded'
  BY DEF IInv, SaveGuarded, JobOver, CkOver, AlivePcs, StopPcs, SavePcs, FailPcs, PackPcs
<1>3. ArchivesFinal'
  BY DEF IInv, SaveGuarded, ArchivesFinal, Quiet, Ended, JobOver, CkOver, StopPcs, SavePcs,
         FailPcs, PackPcs
<1>4. OutcomeOnce'
  BY OutcomeNil DEF IInv, SaveGuarded, OutcomeOnce, Outcome, Ended, JobOver, CkOver, StopPcs,
     SavePcs, FailPcs, PackPcs
<1>5. CheckpointHasSnap'
  BY DEF IInv, CheckpointHasSnap, TypeOK, TypeSnaps, TypeJobs
<1>6. FilesInPlace'
  BY DEF IInv, FilesInPlace, TypeOK, TypeJobs, NoJob, NewJob
<1> QED
  BY <1>1, <1>2, <1>3, <1>4, <1>5, <1>6 DEF IInv

\* A step of the container's reconciliation preserves the invariant.
LEMMA ContainerPassInv == IInv /\ ContainerPass => IInv'
<1> SUFFICES ASSUME IInv, ContainerPass PROVE IInv'
  OBVIOUS
<1> USE DEF ContainerPass, Converge, RunContainer, MarkStarted, EndPass
<1>1. TypeOK'
  BY ContainerPassType DEF IInv
<1>2. SaveGuarded'
  BY DEF IInv, SaveGuarded, JobOver, CkOver, AlivePcs, StopPcs, SavePcs, FailPcs, PackPcs
<1>3. ArchivesFinal'
  BY DEF IInv, SaveGuarded, ArchivesFinal, Quiet, Ended, JobOver, CkOver, StopPcs, SavePcs,
         FailPcs, PackPcs
<1>4. OutcomeOnce'
  BY OutcomeNil DEF IInv, SaveGuarded, OutcomeOnce, Outcome, Ended, JobOver, CkOver, StopPcs,
     SavePcs, FailPcs, PackPcs
<1>5. CheckpointHasSnap'
  BY DEF IInv, CheckpointHasSnap, NoCk
<1>6. FilesInPlace'
  BY DEF IInv, FilesInPlace, TypeOK, TypeJobs
<1> QED
  BY <1>1, <1>2, <1>3, <1>4, <1>5, <1>6 DEF IInv

\* A step that stops what runs before a save preserves the invariant.
LEMMA StopPassInv == IInv /\ StopPass => IInv'
<1> SUFFICES ASSUME IInv, StopPass PROVE IInv'
  OBVIOUS
<1> USE DEF StopPass, StopContainers, StopRestore, AwaitJob, Seal, AwaitCk
<1>1. TypeOK'
  BY StopPassType DEF IInv
<1>2. SaveGuarded'
  <2>1. job'.pc = job.pc /\ ck' = ck
    BY DEF IInv, TypeOK, TypeJobs
  <2>2. CASE StopContainers
    BY <2>2, <2>1 DEF IInv, SaveGuarded, JobOver, CkOver, StopPcs, SavePcs, FailPcs, PackPcs
  <2>3. CASE StopRestore
    BY <2>3, <2>1 DEF IInv, SaveGuarded, JobOver, CkOver, StopPcs, SavePcs, FailPcs, PackPcs
  <2>4. CASE AwaitJob
    BY <2>4, <2>1 DEF IInv, SaveGuarded, JobOver, CkOver, StopPcs, SavePcs, FailPcs, PackPcs
  <2>5. CASE Seal
    BY <2>5, <2>1 DEF IInv, SaveGuarded, JobOver, CkOver, StopPcs, SavePcs, FailPcs, PackPcs
  <2>6. CASE AwaitCk
    BY <2>6, <2>1 DEF IInv, SaveGuarded, JobOver, CkOver, StopPcs, SavePcs, FailPcs, PackPcs
  <2> QED
    BY <2>2, <2>3, <2>4, <2>5, <2>6
<1>3. ArchivesFinal'
  <2>1. job'.pc = job.pc /\ ck' = ck
    BY DEF IInv, TypeOK, TypeJobs
  <2>2. Quiet => Quiet' /\ ws' = ws
    BY <2>1 DEF Quiet, Ended, JobOver, CkOver, StopPcs, SavePcs, FailPcs
  <2>3. mpc' \notin PackPcs
    BY DEF PackPcs
  <2> QED
    BY <2>2, <2>3 DEF IInv, ArchivesFinal, PackPcs
<1>4. OutcomeOnce'
  <2>1. job'.pc = job.pc /\ ck' = ck
    BY DEF IInv, TypeOK, TypeJobs
  <2>2. Ended => Ended'
    BY <2>1 DEF Ended, JobOver, CkOver, StopPcs, SavePcs, FailPcs
  <2> QED
    BY <2>2 DEF IInv, OutcomeOnce, Outcome, PackPcs, FailPcs
<1>5. CheckpointHasSnap'
  BY DEF IInv, CheckpointHasSnap, TypeOK, TypeSnaps, TypeJobs
<1>6. FilesInPlace'
  BY DEF IInv, FilesInPlace, TypeOK, TypeJobs
<1> QED
  BY <1>1, <1>2, <1>3, <1>4, <1>5, <1>6 DEF IInv

\* A step of a save preserves the invariant.
LEMMA SaveInv == IInv /\ Save => IInv'
<1> SUFFICES ASSUME IInv, Save PROVE IInv'
  OBVIOUS
<1> USE DEF Save, RepeatOutcome, SkipSave, TellSkipped, BeginSave, HoldBack, Attempt,
            ReuseArchive, Pack, PackFails, MarkPacked, Upload, UploadFails, SaveFails,
            DropArchive, RecordSaved, TellSaved, TellFailed, RecordFailed
<1>1. TypeOK'
  BY SaveType DEF IInv
<1>2. SaveGuarded'
  BY DEF IInv, SaveGuarded, JobOver, CkOver, AlivePcs, StopPcs, SavePcs, FailPcs, PackPcs
<1>3. ArchivesFinal'
  <2>1. Quiet => Quiet' /\ ws' = ws
    BY DEF Quiet, Ended, JobOver, CkOver, StopPcs, SavePcs, FailPcs, PackPcs
  <2>2. mpc \in PackPcs => Quiet
    BY DEF IInv, SaveGuarded, Quiet, Ended, SavePcs, FailPcs
  <2>3. CASE RepeatOutcome
    BY <2>3, <2>1 DEF IInv, ArchivesFinal, PackPcs
  <2>4. CASE SkipSave
    BY <2>4, <2>1 DEF IInv, ArchivesFinal, PackPcs
  <2>5. CASE TellSkipped
    BY <2>5, <2>1 DEF IInv, ArchivesFinal, PackPcs
  <2>6. CASE BeginSave
    BY <2>6, <2>1 DEF IInv, ArchivesFinal, PackPcs
  <2>7. CASE HoldBack
    BY <2>7, <2>1 DEF IInv, ArchivesFinal, PackPcs
  <2>8. CASE Attempt
    BY <2>8, <2>1 DEF IInv, ArchivesFinal, PackPcs
  <2>9. CASE ReuseArchive
    BY <2>9, <2>1 DEF IInv, ArchivesFinal, PackPcs, Reusable
  <2>10. CASE Pack
    BY <2>10, <2>1, <2>2 DEF IInv, ArchivesFinal, PackPcs
  <2>11. CASE PackFails
    BY <2>11, <2>1 DEF IInv, ArchivesFinal, PackPcs
  <2>12. CASE MarkPacked
    BY <2>12, <2>1 DEF IInv, ArchivesFinal, PackPcs
  <2>13. CASE Upload
    BY <2>13, <2>1, <2>2 DEF IInv, ArchivesFinal, PackPcs
  <2>14. CASE UploadFails
    BY <2>14, <2>1, <2>2 DEF IInv, ArchivesFinal, PackPcs
  <2>15. CASE DropArchive
    BY <2>15, <2>1 DEF IInv, ArchivesFinal, PackPcs
  <2>16. CASE RecordSaved
    BY <2>16, <2>1 DEF IInv, ArchivesFinal, PackPcs
  <2>17. CASE TellSaved
    BY <2>17, <2>1 DEF IInv, ArchivesFinal, PackPcs
  <2>18. CASE RecordFailed
    BY <2>18, <2>1 DEF IInv, ArchivesFinal, PackPcs
  <2>19. CASE TellFailed
    BY <2>19, <2>1 DEF IInv, ArchivesFinal, PackPcs
  <2> QED
    BY <2>3, <2>4, <2>5, <2>6, <2>7, <2>8, <2>9, <2>10, <2>11, <2>12, <2>13, <2>14, <2>15,
       <2>16, <2>17, <2>18, <2>19
<1>4. OutcomeOnce'
  BY OutcomeNil DEF IInv, SaveGuarded, OutcomeOnce, Outcome, Ended, JobOver, CkOver, StopPcs,
     SavePcs, FailPcs, PackPcs
<1>5. CheckpointHasSnap'
  BY DEF IInv, CheckpointHasSnap, TypeOK, TypeSnaps, TypeJobs
<1>6. FilesInPlace'
  BY DEF IInv, FilesInPlace, TypeOK, TypeJobs
<1> QED
  BY <1>1, <1>2, <1>3, <1>4, <1>5, <1>6 DEF IInv

\* A step of the restore goroutine preserves the invariant.
LEMMA RestoreJobInv == IInv /\ RestoreJob => IInv'
<1> SUFFICES ASSUME IInv, RestoreJob PROVE IInv'
  OBVIOUS
<1> USE DEF RestoreJob, JobFetch, JobMove, JobMoved, JobCheck, JobCommit, JobReport
<1>1. TypeOK'
  BY RestoreJobType DEF IInv
<1>2. SaveGuarded'
  BY DEF IInv, SaveGuarded, JobOver, CkOver, AlivePcs, StopPcs, SavePcs, FailPcs, PackPcs
<1>3. ArchivesFinal'
  <2>1. Quiet => Quiet' /\ ws' = ws
    BY DEF Quiet, Ended, JobOver, CkOver
  <2>2. ~Quiet => stored = NoSnap /\ out = NoSnap /\ packed = NoSnap /\ ws # NoSnap
    BY NoSnapAssumption DEF IInv, ArchivesFinal, TypeOK, TypeSnaps
  <2> QED
    BY <2>1, <2>2 DEF IInv, ArchivesFinal
<1>4. OutcomeOnce'
  BY OutcomeNil DEF IInv, SaveGuarded, OutcomeOnce, Outcome, Ended, JobOver, CkOver, StopPcs,
     SavePcs, FailPcs, PackPcs
<1>5. CheckpointHasSnap'
  BY DEF IInv, CheckpointHasSnap, TypeOK, TypeSnaps, TypeJobs
<1>6. FilesInPlace'
  <2>1. job \in [pc : JobPcs, key : Keys \cup {"nil"}, stopped : BOOLEAN, err : BOOLEAN,
                 result : {"nil", "restored", "restore_failed"}]
    BY DEF IInv, TypeOK, TypeJobs
  <2>2. CASE JobMoved
    <3>1. ws \in Snaps
      BY DEF IInv, TypeOK, TypeSnaps
    <3>2. job'.pc = "check" /\ job'.key = job.key /\ (~job'.err => ws'.whole = {job.key})
      BY <2>1, <2>2, <3>1 DEF Snaps
    <3> QED
      BY <3>2 DEF FilesInPlace
  <2>3. CASE JobFetch \/ JobMove
    BY <2>1, <2>3 DEF FilesInPlace
  <2>4. CASE JobCheck \/ JobCommit \/ JobReport
    BY <2>1, <2>4 DEF IInv, FilesInPlace
  <2> QED
    BY <2>2, <2>3, <2>4
<1> QED
  BY <1>1, <1>2, <1>3, <1>4, <1>5, <1>6 DEF IInv

\* A step of the checkpoint goroutine preserves the invariant.
LEMMA CheckpointJobInv == IInv /\ CheckpointJob => IInv'
<1> SUFFICES ASSUME IInv, CheckpointJob PROVE IInv'
  OBVIOUS
<1> USE DEF CheckpointJob, CkPack, CkSend, CkCommit, CkGivesUp
<1>1. TypeOK'
  BY CheckpointJobType DEF IInv
<1>2. SaveGuarded'
  BY DEF IInv, SaveGuarded, JobOver, CkOver, AlivePcs, StopPcs, SavePcs, FailPcs, PackPcs
<1>3. ArchivesFinal'
  BY DEF IInv, SaveGuarded, ArchivesFinal, Quiet, Ended, JobOver, CkOver, StopPcs, SavePcs,
         FailPcs, PackPcs
<1>4. OutcomeOnce'
  BY OutcomeNil DEF IInv, SaveGuarded, OutcomeOnce, Outcome, Ended, JobOver, CkOver, StopPcs,
     SavePcs, FailPcs, PackPcs
<1>5. CheckpointHasSnap'
  BY DEF IInv, CheckpointHasSnap, TypeOK, TypeSnaps, TypeJobs
<1>6. FilesInPlace'
  BY DEF IInv, FilesInPlace, TypeOK, TypeJobs
<1> QED
  BY <1>1, <1>2, <1>3, <1>4, <1>5, <1>6 DEF IInv

\* A step of a restart preserves the invariant.
LEMMA RestartInv == IInv /\ Restart => IInv'
<1> SUFFICES ASSUME IInv, Restart PROVE IInv'
  OBVIOUS
<1> USE DEF Restart
<1>1. TypeOK'
  BY RestartType DEF IInv
<1>2. SaveGuarded'
  BY DEF IInv, SaveGuarded, JobOver, CkOver, AlivePcs, StopPcs, SavePcs, FailPcs, PackPcs
<1>3. ArchivesFinal'
  <2>1. Quiet => Quiet'
    BY DEF Quiet, Ended, JobOver, CkOver, NoJob, NewJob, NoCk
  <2> QED
    BY <2>1 DEF IInv, ArchivesFinal, PackPcs
<1>4. OutcomeOnce'
  <2>1. Ended => Ended'
    BY DEF Ended, JobOver, CkOver, NoJob, NewJob, NoCk
  <2> QED
    BY <2>1 DEF IInv, OutcomeOnce, Outcome, PackPcs, FailPcs
<1>5. CheckpointHasSnap'
  BY DEF CheckpointHasSnap, NoCk
<1>6. FilesInPlace'
  BY DEF IInv, FilesInPlace, TypeOK, TypeJobs, NoJob, NewJob
<1> QED
  BY <1>1, <1>2, <1>3, <1>4, <1>5, <1>6 DEF IInv

\* Every step preserves the invariant.
LEMMA StepIInv == IInv /\ [Next]_vars => IInv'
<1>1. IInv /\ UNCHANGED vars => IInv'
  <2> SUFFICES ASSUME IInv, UNCHANGED vars PROVE IInv'
    OBVIOUS
  <2>1. TypeOK'
    BY TypeStep DEF IInv
  <2>2. SaveGuarded' /\ CheckpointHasSnap' /\ FilesInPlace'
    BY DEF IInv, vars, SaveGuarded, CheckpointHasSnap, FilesInPlace, JobOver, CkOver
  <2>3. Ended' = Ended /\ Quiet' = Quiet /\ Outcome' = Outcome
    BY DEF vars, Ended, Quiet, Outcome, JobOver, CkOver
  <2>4. ArchivesFinal' /\ OutcomeOnce'
    BY <2>3 DEF IInv, vars, ArchivesFinal, OutcomeOnce
  <2> QED
    BY <2>1, <2>2, <2>4 DEF IInv
<1> QED
  BY <1>1, SurroundingsInv, IntakeInv, BeginPassInv, RestoreCallInv, ContainerPassInv,
     StopPassInv, SaveInv, RestoreJobInv, CheckpointJobInv, RestartInv DEF Next, MainLoop

\* The invariant holds of every execution.
THEOREM Invariance == Spec => []IInv
  BY InitIInv, StepIInv, PTL DEF Spec

-----------------------------------------------------------------------------
\* SavingAlone holds of every execution: Save waits for both goroutines and packs
\* nothing under a container that did not stop.
THEOREM PackingIsAlone == Spec => []SavingAlone
<1>1. IInv => SavingAlone
  BY DEF IInv, SaveGuarded, SavingAlone, SavePcs, FailPcs
<1> QED
  BY <1>1, Invariance, PTL

\* NothingLost holds of every execution: what is on record as saved is the workspace
\* as it is left, over any number of crashes and failed uploads.
THEOREM SavedIsComplete == Spec => []NothingLost
<1>1. IInv => NothingLost
  BY DEF IInv, ArchivesFinal, NothingLost
<1> QED
  BY <1>1, Invariance, PTL

\* VerdictHolds holds of every execution: there is at most one outcome on disk.
THEOREM OneVerdict == Spec => VerdictHolds
<1>1. IInv /\ [Next]_vars => [Outcome # "nil" => Outcome' = Outcome]_verdicts
  <2> SUFFICES ASSUME IInv, [Next]_vars, verdicts' # verdicts, Outcome # "nil" PROVE FALSE
    OBVIOUS
  <2>1. verdicts # {}
    BY OutcomeNil DEF IInv
  <2>2. Save
    BY DEF Next, MainLoop, Surroundings, Intake, BeginPass, RestoreCall, ContainerPass,
           StopPass, RestoreJob, CheckpointJob, Restart, vars
  <2>3. SkipSave \/ RecordSaved \/ RecordFailed
    BY <2>2 DEF Save, RepeatOutcome, TellSkipped, BeginSave, HoldBack, Attempt, ReuseArchive,
           Pack, PackFails, MarkPacked, Upload, UploadFails, SaveFails, DropArchive, TellSaved,
           TellFailed
  <2> QED
    BY <2>1, <2>3
       DEF IInv, OutcomeOnce, SkipSave, RecordSaved, RecordFailed, PackPcs, FailPcs
<1> QED
  BY <1>1, Invariance, PTL DEF Spec, VerdictHolds

\* ToldHolds holds of every execution: "saved" and "save_skipped" are on disk before
\* they are reported, and repeated from there.
THEOREM TellingHolds == Spec => ToldHolds
<1>1. IInv /\ [Next]_vars => [(told \in {"saved", "save_skipped"}) => told' = told]_told
  <2> SUFFICES ASSUME IInv, [Next]_vars, told' # told, told \in {"saved", "save_skipped"}
               PROVE  FALSE
    OBVIOUS
  <2>1. verdicts # {} /\ Outcome = told
    BY OutcomeNil DEF IInv, OutcomeOnce
  <2>2. Save
    BY DEF Next, MainLoop, Surroundings, Intake, BeginPass, RestoreCall, ContainerPass,
           StopPass, RestoreJob, CheckpointJob, Restart, vars
  <2>3. mpc \notin (PackPcs \ {"tellSaved"}) \cup FailPcs \cup {"attempt"}
    BY <2>1 DEF IInv, OutcomeOnce
  <2>4. RepeatOutcome \/ TellSkipped \/ TellSaved
    BY <2>2, <2>3 DEF Save, SkipSave, BeginSave, HoldBack, Attempt, ReuseArchive, Pack,
           PackFails, MarkPacked, Upload, UploadFails, DropArchive, RecordSaved,
           TellFailed, RecordFailed, PackPcs, FailPcs
  <2> QED
    BY <2>1, <2>4 DEF IInv, OutcomeOnce, RepeatOutcome, TellSkipped, TellSaved
<1> QED
  BY <1>1, Invariance, PTL DEF Spec, ToldHolds

\* AnswersHold holds of every execution: the outcome on disk and what is told of it stay.
THEOREM OneAnswer == Spec => AnswersHold
  BY OneVerdict, TellingHolds DEF AnswersHold

\* NoLateCheckpoint holds of every execution: Save ends the checkpoint that is under
\* way and lets no other start.
THEOREM CheckpointsEnd == Spec => NoLateCheckpoint
<1>1. IInv /\ [Next]_vars => [kept' # kept => stored = NoSnap /\ verdicts = {}]_kept
  <2> SUFFICES ASSUME IInv, [Next]_vars, kept' # kept PROVE stored = NoSnap /\ verdicts = {}
    OBVIOUS
  <2>1. CheckpointJob
    BY DEF Next, MainLoop, Surroundings, Intake, BeginPass, RestoreCall, ContainerPass,
           StopPass, Save, RestoreJob, Restart, vars
  <2>2. CkCommit
    BY <2>1 DEF CheckpointJob, CkPack, CkSend, CkGivesUp
  <2>3. ~Ended
    BY <2>2 DEF CkCommit, Ended, CkOver
  <2> QED
    BY <2>3 DEF IInv, ArchivesFinal, OutcomeOnce, Quiet
<1> QED
  BY <1>1, Invariance, PTL DEF Spec, NoLateCheckpoint

\* MarkerIsEarned holds of every execution, however the backend changes what it asks to
\* restore: a restore is awaited before another starts, and only one whose last file was
\* moved without an error goes on to the marker.
THEOREM MarkersAreEarned == Spec => MarkerIsEarned
<1>1. IInv /\ [Next]_vars =>
        [restored' # restored /\ restored' \in Keys => ws.whole = {restored'}]_restored
  <2> SUFFICES ASSUME IInv, [Next]_vars, restored' # restored, restored' \in Keys
               PROVE  ws.whole = {restored'}
    OBVIOUS
  <2>1. RestoreCall \/ RestoreJob
    BY DEF Next, MainLoop, Surroundings, Intake, BeginPass, ContainerPass, StopPass, Save,
           CheckpointJob, Restart, vars
  <2>2. ~RestoreCall
    BY KeysAssumption
       DEF RestoreCall, Restore, KeepRestore, StartRestore, ReplaceRestore, AwaitReplaced,
           Written
  <2>3. JobCommit
    BY <2>1, <2>2 DEF RestoreJob, JobFetch, JobMove, JobMoved, JobCheck, JobReport
  <2>4. restored' = job.key
    BY <2>3, KeysAssumption DEF JobCommit, Written
  <2> QED
    BY <2>3, <2>4 DEF JobCommit, IInv, FilesInPlace
<1> QED
  BY <1>1, Invariance, PTL DEF Spec, MarkerIsEarned

-----------------------------------------------------------------------------
(* Workspace implements FinalSave, with ws as the work and Outcome as the   *)
(* verdict. Every step that changes one of the four maps to one action.     *)

\* While the end has not come no final archive and no outcome is there.
LEMMA BeforeTheEnd == IInv /\ ~Quiet => stored = NoSnap
  BY DEF IInv, ArchivesFinal

\* Only the users, with the container up, and a restore job change the workspace.
LEMMA WorkStep == IInv /\ [Next]_vars /\ ws' # ws => Promise!Work
<1> SUFFICES ASSUME IInv, [Next]_vars, ws' # ws PROVE Promise!Work
  OBVIOUS
<1>1. Surroundings \/ RestoreJob
  BY DEF Next, MainLoop, Intake, BeginPass, RestoreCall, ContainerPass, StopPass, Save,
         CheckpointJob, Restart, vars
<1>2. ~Quiet
  <2>1. CASE Surroundings
    BY <2>1 DEF Surroundings, Quiet, ChangeSpec, RequestDeletion, Edit, WindowElapses,
       PauseEnds
  <2>2. CASE RestoreJob
    BY <2>2 DEF RestoreJob, Quiet, Ended, JobOver, JobFetch, JobMove, JobMoved, JobCheck,
                JobCommit, JobReport
  <2> QED
    BY <1>1, <2>1, <2>2
<1>3. UNCHANGED <<stored, kept, verdicts>>
  BY <1>1 DEF Surroundings, RestoreJob
<1>4. ws' \in Snaps
  BY TypeStep DEF IInv, TypeOK, TypeSnaps
<1> QED
  BY <1>2, <1>3, <1>4, BeforeTheEnd DEF Promise!Work, Outcome

\* A checkpoint reaches the backend.
LEMMA CheckpointStep == IInv /\ [Next]_vars /\ kept' # kept => Promise!Checkpoint
<1> SUFFICES ASSUME IInv, [Next]_vars, kept' # kept PROVE Promise!Checkpoint
  OBVIOUS
<1>1. CheckpointJob
  BY DEF Next, MainLoop, Surroundings, Intake, BeginPass, RestoreCall, ContainerPass,
         StopPass, Save, RestoreJob, Restart, vars
<1>2. CkCommit
  BY <1>1 DEF CheckpointJob, CkPack, CkSend, CkGivesUp
<1>3. ~Ended
  BY <1>2 DEF CkCommit, Ended, CkOver
<1>4. stored = NoSnap /\ verdicts = {}
  BY <1>3 DEF IInv, ArchivesFinal, OutcomeOnce, Quiet
<1>5. kept' \in Snaps
  BY <1>2 DEF IInv, CheckpointHasSnap, CkCommit
<1>6. UNCHANGED <<ws, stored, verdicts>>
  BY <1>1 DEF CheckpointJob
<1> QED
  BY <1>4, <1>5, <1>6, OutcomeNil DEF IInv, Promise!Checkpoint, Outcome

\* A step of Save sends the archive, writes the outcome, or changes nothing of it.
LEMMA SaveStep == IInv /\ Save => Promise!Store \/ Promise!Conclude
                                  \/ UNCHANGED <<ws, stored, kept, Outcome>>
<1> SUFFICES ASSUME IInv, Save PROVE Promise!Store \/ Promise!Conclude
                                     \/ UNCHANGED <<ws, stored, kept, Outcome>>
  OBVIOUS
<1>1. UNCHANGED <<ws, kept>>
  BY DEF Save
<1>2. CASE Upload \/ UploadFails
  <2>1. Outcome = "nil"
    BY <1>2, OutcomeNil DEF IInv, OutcomeOnce, PackPcs, Upload, UploadFails
  <2>2. out = ws /\ UNCHANGED verdicts
    BY <1>2 DEF IInv, ArchivesFinal, Upload, UploadFails
  <2>3. stored' = ws \/ stored' = stored
    BY <1>2, <2>2 DEF Upload, UploadFails
  <2> QED
    BY <1>1, <2>1, <2>2, <2>3 DEF Promise!Store, Outcome
<1>3. CASE SkipSave \/ RecordSaved \/ RecordFailed
  <2>1. verdicts = {} /\ stored' = stored
    BY <1>3, OutcomeNil
       DEF IInv, OutcomeOnce, PackPcs, FailPcs, SkipSave, RecordSaved, RecordFailed
  <2>2. \E v \in Verdicts : verdicts' = {v} /\ (v = "saved" => stored = ws)
    BY <1>3, <2>1
       DEF IInv, ArchivesFinal, Verdicts, SkipSave, RecordSaved, RecordFailed
  <2>3. Outcome' \in Verdicts /\ (Outcome' = "saved" => stored = ws)
    BY <2>2 DEF Outcome, Verdicts
  <2> QED
    BY <1>1, <2>1, <2>3, OutcomeNil DEF IInv, Promise!Conclude, Verdicts
<1>4. CASE ~(Upload \/ UploadFails \/ SkipSave \/ RecordSaved \/ RecordFailed)
  BY <1>1, <1>4 DEF Save, RepeatOutcome, TellSkipped, BeginSave, HoldBack, Attempt,
     ReuseArchive, Pack, PackFails, MarkPacked, SaveFails, DropArchive, TellSaved,
     TellFailed, Outcome
<1> QED
  BY <1>2, <1>3, <1>4

\* KeepsPromise holds of every execution: the goroutines, crashes and retries of
\* Workspace keep the promises of FinalSave.
THEOREM Refinement == Spec => KeepsPromise
<1>1. Init => Promise!Init
  <2> SUFFICES ASSUME Init PROVE Promise!Init
    OBVIOUS
  <2>1. ws \in Snaps
    BY TypeInit DEF TypeOK, TypeSnaps
  <2> QED
    BY <2>1 DEF Init, Promise!Init, Outcome
<1>2. IInv /\ [Next]_vars => [Promise!Next]_(Promise!fsvars)
  <2> SUFFICES ASSUME IInv, [Next]_vars PROVE [Promise!Next]_(Promise!fsvars)
    OBVIOUS
  <2> USE DEF Promise!Next, Promise!fsvars
  <2>1. CASE ws' # ws
    BY <2>1, WorkStep
  <2>2. CASE kept' # kept
    BY <2>2, CheckpointStep
  <2>3. CASE Save
    BY <2>3, SaveStep
  <2>4. CASE UNCHANGED <<ws, kept>> /\ ~Save
    BY <2>4 DEF Next, MainLoop, Surroundings, Intake, BeginPass, RestoreCall, ContainerPass,
       StopPass, RestoreJob, CheckpointJob, Restart, vars, Outcome
  <2> QED
    BY <2>1, <2>2, <2>3, <2>4
<1> QED
  BY <1>1, <1>2, Invariance, PTL DEF Spec, KeepsPromise, Promise!Spec

-----------------------------------------------------------------------------
(* A backend that does not change the archive it has named. What is proved  *)
(* from here on is false of one that does: a restore that is past its last  *)
(* check writes its marker although another was asked for, and opens the    *)
(* gate under the restore of that one.                                      *)

\* A step of the backend, the users or time keeps to the one archive: once it is named the
\* spec changes no more, and users only edit.
LEMMA SurroundingsOneArchive == OneArchive /\ IInv /\ OneArchiveInv /\ Surroundings
        => OneArchiveInv'
<1> SUFFICES ASSUME OneArchive, IInv, OneArchiveInv, Surroundings PROVE OneArchiveInv'
  OBVIOUS
<1> USE DEF Surroundings, ChangeSpec, RequestDeletion, Edit, WindowElapses, PauseEnds, IInv,
   OneArchiveInv
<1>1. OneArchiveKnown'
  <2>1. want' = want \/ (want = "pending" /\ want' \in Wants)
    BY DEF OneArchive, TypeOK, TypeOutside, Wants
  <2>2. UNCHANGED <<inbox, cur, job, restored>>
    OBVIOUS
  <2> HIDE DEF Surroundings
  <2>3. job.key # "pending" \/ job.pc = "none"
    BY KeysAssumption DEF TypeOK, TypeJobs
  <2> QED
    BY <2>1, <2>2, <2>3, KeysAssumption DEF OneArchiveKnown
<1>2. GateHolds'
  BY KeysAssumption DEF GateHolds
<1>3. OneArchiveWhole'
  <2>1. want' = want \/ (want = "pending" /\ want' \in Wants)
    BY DEF OneArchive, TypeOK, TypeOutside, Wants
  <2>2. UNCHANGED <<stored, kept, restored, started, out, packed, mpc, job, ck, sum>>
    OBVIOUS
  <2>3. ws'.parts = ws.parts /\ ws'.whole = ws.whole
    BY DEF TypeOK, TypeSnaps, Snaps
  <2> HIDE DEF Surroundings
  <2>4. want \notin Keys => ws.parts = {}
    <3>1. ws.parts \subseteq Keys
      BY DEF TypeOK, TypeSnaps, Snaps
    <3> QED
      BY <3>1 DEF OneArchiveWhole
  <2>5. ws'.parts \subseteq {want'} /\ ws'.whole \subseteq ws'.parts
    BY <2>1, <2>3, <2>4, KeysAssumption DEF OneArchiveWhole
  <2>6. restored' # "absent" => Whole(ws)'
    BY <2>2, <2>3 DEF OneArchiveWhole, Whole
  <2>7. \A snap : Whole(snap)' <=> Whole(snap)
    BY <2>2 DEF Whole
  <2> QED
    BY <2>2, <2>3, <2>5, <2>6, <2>7 DEF OneArchiveWhole, CkOver
<1> QED
  BY <1>1, <1>2, <1>3

\* A step of the intake takes what the backend asks for.
LEMMA IntakeOneArchive == OneArchive /\ IInv /\ OneArchiveInv /\ Intake
        => OneArchiveInv'
<1> SUFFICES ASSUME OneArchive, IInv, OneArchiveInv, Intake PROVE OneArchiveInv'
  OBVIOUS
<1> USE DEF Intake, IInv, OneArchiveInv
<1>1. OneArchiveKnown'
  BY DEF OneArchiveKnown
<1>2. GateHolds'
  BY DEF GateHolds, OneArchiveWhole
<1>3. OneArchiveWhole'
  BY DEF OneArchiveWhole, Whole, CkOver
<1> QED
  BY <1>1, <1>2, <1>3

\* A step that begins a pass takes what the intake has.
LEMMA BeginPassOneArchive == OneArchive /\ IInv /\ OneArchiveInv /\ BeginPass
        => OneArchiveInv'
<1> SUFFICES ASSUME OneArchive, IInv, OneArchiveInv, BeginPass PROVE OneArchiveInv'
  OBVIOUS
<1> USE DEF BeginPass, IInv, OneArchiveInv
<1>1. OneArchiveKnown'
  BY DEF OneArchiveKnown
<1>2. GateHolds'
  BY DEF GateHolds, OneArchiveWhole
<1>3. OneArchiveWhole'
  BY DEF OneArchiveWhole, Whole, CkOver, PackPcs
<1> QED
  BY <1>1, <1>2, <1>3

\* A call of Restore starts no restore beside the marker, and opens the gate behind it.
LEMMA RestoreCallOneArchive == OneArchive /\ IInv /\ OneArchiveInv /\ RestoreCall
        => OneArchiveInv'
<1> SUFFICES ASSUME OneArchive, IInv, OneArchiveInv, RestoreCall PROVE OneArchiveInv'
  OBVIOUS
<1> USE DEF RestoreCall, Restore, KeepRestore, StartRestore, ReplaceRestore, AwaitReplaced,
   Returns, IInv, OneArchiveInv
<1>1. OneArchiveKnown'
  BY KeysAssumption DEF OneArchiveKnown, Written, TypeOK, TypeJobs, TypeLoop, NewJob
<1>2. GateHolds'
  BY KeysAssumption DEF OneArchiveKnown, GateHolds, OneArchiveWhole, JobOver, TypeOK, TypeJobs,
     TypeLoop, NewJob, Settled
<1>3. OneArchiveWhole'
  BY KeysAssumption DEF OneArchiveKnown, OneArchiveWhole, Whole, Written, CkOver,
     ArchivesFinal, PackPcs, Snaps, TypeOK, TypeJobs, TypeSnaps, TypeLoop, NewJob, Settled
<1> QED
  BY <1>1, <1>2, <1>3

\* The container is run behind the gate, and checkpoints start behind the marker.
LEMMA ContainerPassOneArchive == OneArchive /\ IInv /\ OneArchiveInv /\ ContainerPass
        => OneArchiveInv'
<1> SUFFICES ASSUME OneArchive, IInv, OneArchiveInv, ContainerPass PROVE OneArchiveInv'
  OBVIOUS
<1> USE DEF ContainerPass, Converge, RunContainer, MarkStarted, EndPass, IInv, OneArchiveInv
<1>1. OneArchiveKnown'
  BY DEF OneArchiveKnown
<1>2. GateHolds'
  <2>1. UNCHANGED <<restored, job>>
    OBVIOUS
  <2>2. mpc' \notin {"start", "wait"}
    OBVIOUS
  <2>3. up' \/ mpc' \in {"run", "mark"} => restored # "absent"
    BY DEF GateHolds
  <2> QED
    BY <2>1, <2>2, <2>3 DEF GateHolds
<1>3. OneArchiveWhole'
  <2>1. UNCHANGED <<want, ws, restored, job, out, packed, stored, kept, sum>>
    OBVIOUS
  <2>2. mpc' \notin PackPcs \cup {"attempt"}
    BY DEF PackPcs
  <2>3. started' => restored # "absent"
    BY DEF GateHolds, OneArchiveWhole
  <2>4. ck' = ck \/ (restored # "absent" /\ ck'.snap = NoSnap)
    BY DEF NoCk, Packable
  <2> HIDE DEF ContainerPass
  <2> QED
    BY <2>1, <2>2, <2>3, <2>4 DEF OneArchiveWhole, Whole, CkOver
<1> QED
  BY <1>1, <1>2, <1>3

\* Stopping the container and awaiting the goroutines keeps to the one archive.
LEMMA StopPassOneArchive == OneArchive /\ IInv /\ OneArchiveInv /\ StopPass
        => OneArchiveInv'
<1> SUFFICES ASSUME OneArchive, IInv, OneArchiveInv, StopPass PROVE OneArchiveInv'
  OBVIOUS
<1> USE DEF StopPass, StopContainers, StopRestore, AwaitJob, Seal, AwaitCk, IInv, OneArchiveInv
<1>1. OneArchiveKnown'
  BY DEF OneArchiveKnown, TypeOK, TypeJobs
<1>2. GateHolds'
  <2>1. UNCHANGED restored /\ mpc' \notin {"start", "wait", "run", "mark"}
    OBVIOUS
  <2>3. up' => up
    BY Zenon
  <2>2. job'.pc = job.pc
    BY DEF TypeOK, TypeJobs
  <2> QED
    BY <2>1, <2>2, <2>3 DEF GateHolds
<1>3. OneArchiveWhole'
  BY DEF OneArchiveWhole, Whole, CkOver, PackPcs, TypeOK, TypeJobs
<1> QED
  BY <1>1, <1>2, <1>3

\* A save packs behind the marker.
LEMMA SaveOneArchive == OneArchive /\ IInv /\ OneArchiveInv /\ Save
        => OneArchiveInv'
<1> SUFFICES ASSUME OneArchive, IInv, OneArchiveInv, Save PROVE OneArchiveInv'
  OBVIOUS
<1> USE DEF Save, RepeatOutcome, SkipSave, TellSkipped, BeginSave, HoldBack, Attempt,
            ReuseArchive, Pack, PackFails, MarkPacked, Upload, UploadFails, SaveFails,
            DropArchive, RecordSaved, TellSaved, TellFailed, RecordFailed, IInv, OneArchiveInv
<1>1. OneArchiveKnown'
  BY DEF OneArchiveKnown
<1>2. GateHolds'
  BY DEF GateHolds, OneArchiveWhole
<1>3. OneArchiveWhole'
  BY DEF OneArchiveWhole, Whole, Packable, CkOver, PackPcs
<1> QED
  BY <1>1, <1>2, <1>3

\* The restore goroutine moves files of its archive only, and none behind the marker.
LEMMA RestoreJobOneArchive == OneArchive /\ IInv /\ OneArchiveInv /\ RestoreJob
        => OneArchiveInv'
<1> SUFFICES ASSUME OneArchive, IInv, OneArchiveInv, RestoreJob PROVE OneArchiveInv'
  OBVIOUS
<1> USE DEF RestoreJob, JobFetch, JobMove, JobMoved, JobCheck, JobCommit, JobReport, IInv,
   OneArchiveInv
<1>1. OneArchiveKnown'
  <2>1. UNCHANGED <<want, inbox, cur>> /\ job'.key = job.key /\ job.pc # "none"
    BY DEF TypeOK, TypeJobs
  <2>2. restored' = restored \/ restored' \in {job.key, "empty"}
    BY DEF Written
  <2>3. job.key = want /\ want # "pending"
    BY <2>1, KeysAssumption DEF OneArchiveKnown, TypeOK, TypeJobs
  <2> HIDE DEF RestoreJob
  <2> QED
    BY <2>1, <2>2, <2>3, KeysAssumption DEF OneArchiveKnown
<1>2. GateHolds'
  BY KeysAssumption DEF GateHolds, TypeOK, TypeJobs
<1>3. OneArchiveWhole'
  <2>1. UNCHANGED <<want, started, mpc, ck, out, packed, stored, kept, sum>>
    OBVIOUS
  <2>2. job.key = want /\ want \in Keys
    BY DEF OneArchiveKnown, TypeOK, TypeJobs
  <2>3. \/ restored' = restored
        \/ restored = "absent" /\ ws.whole = {want} /\ restored' \in {want, "empty"}
    BY <2>2 DEF Written, FilesInPlace, GateHolds
  <2>4. ws'.parts \subseteq {want} /\ ws'.whole \subseteq ws'.parts
    <3>1. ws = [parts |-> ws.parts, whole |-> ws.whole, edits |-> ws.edits]
      BY DEF TypeOK, TypeSnaps, Snaps
    <3>2. CASE JobMove
      BY <3>1, <3>2, <2>2 DEF OneArchiveWhole
    <3>3. CASE JobMoved
      BY <3>1, <3>3, <2>2 DEF OneArchiveWhole
    <3>4. CASE UNCHANGED ws
      BY <3>4 DEF OneArchiveWhole
    <3> QED
      BY <3>2, <3>3, <3>4
  <2>5. ws' = ws \/ restored' = "absent"
    BY DEF GateHolds
  <2>9. job'.pc = "moving" => job'.key \in ws'.parts
    <3>1. job'.key = job.key
      BY DEF TypeOK, TypeJobs
    <3>2. CASE JobMove
      <4>1. ws'.parts = ws.parts \cup {job.key}
        BY <3>2 DEF TypeOK, TypeSnaps, Snaps
      <4> QED
        BY <3>1, <4>1
    <3>3. CASE ~JobMove
      <4>1. job'.pc # "moving"
        BY <3>3 DEF TypeOK, TypeJobs
      <4> QED
        BY <4>1
    <3> QED
      BY <3>2, <3>3
  <2> HIDE DEF RestoreJob
  <2>6. restored' # "absent" => Whole(ws)'
    BY <2>2, <2>3, <2>4, <2>5, KeysAssumption DEF OneArchiveWhole, Whole
  <2>7. restored # "absent" => restored' = restored
    BY <2>3
  <2>8. \A snap \in {ck'.snap, kept', sum'} \ {NoSnap} : restored' # "absent" /\ Whole(snap)'
    BY <2>1, <2>7 DEF OneArchiveWhole, Whole
  <2> QED
    BY <2>1, <2>4, <2>6, <2>7, <2>8, <2>9 DEF OneArchiveWhole, CkOver
<1> QED
  BY <1>1, <1>2, <1>3

\* A checkpoint copies the workspace behind the marker.
LEMMA CheckpointJobOneArchive == OneArchive /\ IInv /\ OneArchiveInv /\ CheckpointJob
        => OneArchiveInv'
<1> SUFFICES ASSUME OneArchive, IInv, OneArchiveInv, CheckpointJob PROVE OneArchiveInv'
  OBVIOUS
<1> USE DEF CheckpointJob, CkPack, CkSend, CkCommit, CkGivesUp, IInv, OneArchiveInv
<1>1. OneArchiveKnown'
  BY DEF OneArchiveKnown
<1>2. GateHolds'
  BY DEF GateHolds, OneArchiveWhole
<1>3. OneArchiveWhole'
  BY DEF OneArchiveWhole, Whole, CkOver, TypeOK, TypeJobs
<1> QED
  BY <1>1, <1>2, <1>3

\* A killed process leaves the marker, and forgets what it knew of the archive.
LEMMA RestartOneArchive == OneArchive /\ IInv /\ OneArchiveInv /\ Restart
        => OneArchiveInv'
<1> SUFFICES ASSUME OneArchive, IInv, OneArchiveInv, Restart PROVE OneArchiveInv'
  OBVIOUS
<1> USE DEF Restart, IInv, OneArchiveInv
<1>1. OneArchiveKnown'
  BY DEF OneArchiveKnown, NoJob
<1>2. GateHolds'
  BY DEF GateHolds, OneArchiveWhole, NoJob
<1>3. OneArchiveWhole'
  BY DEF OneArchiveWhole, Whole, CkOver, PackPcs, NoJob, NoCk
<1> QED
  BY <1>1, <1>2, <1>3

\* Nothing is there of any archive at first.
LEMMA InitOneArchive == Init => OneArchiveInv
  BY KeysAssumption
     DEF Init, OneArchiveInv, OneArchiveKnown, GateHolds, OneArchiveWhole, NoJob,
         NewJob, NoCk, CkOver, PackPcs

\* Every step keeps to the one archive.
LEMMA StepOneArchive == OneArchive /\ IInv /\ OneArchiveInv /\ [Next]_vars
        => OneArchiveInv'
<1>1. OneArchiveInv /\ UNCHANGED vars => OneArchiveInv'
  BY DEF vars, OneArchiveInv, OneArchiveKnown, GateHolds, OneArchiveWhole, Whole, CkOver
<1> QED
  BY <1>1, SurroundingsOneArchive, IntakeOneArchive, BeginPassOneArchive,
     RestoreCallOneArchive,
     ContainerPassOneArchive, StopPassOneArchive, SaveOneArchive, RestoreJobOneArchive,
     CheckpointJobOneArchive, RestartOneArchive
     DEF Next, MainLoop

\* OneArchiveInv holds of every execution with such a backend.
LEMMA OneArchiveHolds == ASSUME OneArchive PROVE Spec => []OneArchiveInv
<1>1. IInv /\ OneArchiveInv /\ [Next]_vars => OneArchiveInv'
  BY StepOneArchive
<1> QED
  BY <1>1, InitOneArchive, Invariance, PTL DEF Spec

\* NoRestoreUnderContainer holds of every execution in which the backend does not change
\* the archive it has named: the marker opens the start gate, and behind it no restore
\* goroutine is left at work and none is started, by this process or the next.
THEOREM ContainerBehindGate == ASSUME OneArchive PROVE Spec => []NoRestoreUnderContainer
<1>1. OneArchiveInv => NoRestoreUnderContainer
  BY DEF OneArchiveInv, GateHolds, NoRestoreUnderContainer
<1> QED
  BY <1>1, OneArchiveHolds, PTL

\* ArchivesAreWhole holds of every such execution: what was packed for the save or for a
\* checkpoint was packed after the marker, and a restore that failed halfway left none.
THEOREM WholeArchives == ASSUME OneArchive PROVE Spec => []ArchivesAreWhole
<1>1. IInv /\ OneArchiveInv => ArchivesAreWhole
  <2> SUFFICES ASSUME IInv, OneArchiveInv PROVE ArchivesAreWhole
    OBVIOUS
  <2>1. stored # NoSnap => stored = ws /\ restored # "absent"
    BY DEF IInv, ArchivesFinal, OneArchiveInv, OneArchiveWhole
  <2>2. StoredIsWhole
    BY <2>1 DEF OneArchiveInv, OneArchiveWhole, StoredIsWhole
  <2>3. KeptIsWhole
    BY DEF OneArchiveInv, OneArchiveWhole, KeptIsWhole
  <2> QED
    BY <2>2, <2>3 DEF ArchivesAreWhole
<1> QED
  BY <1>1, OneArchiveHolds, Invariance, PTL
=============================================================================
