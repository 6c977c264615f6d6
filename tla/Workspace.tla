------------------------------ MODULE Workspace ------------------------------
(***************************************************************************)
(* The workspace of one instance, as internal/state keeps it (manager.go,  *)
(* checkpoint.go) and the agent's main loop drives it (internal/agent):    *)
(* archives are restored into /workspace before the application container  *)
(* may start, the live workspace is copied to the backend from time to     *)
(* time (checkpoints), and when the instance is to be deleted the final    *)
(* workspace is packed and uploaded.                                       *)
(*                                                                         *)
(* The main loop, the restore goroutine, the checkpoint goroutine and the  *)
(* intake of specs interleave. The process may be killed between any two   *)
(* steps; systemd starts it again with only its state directory left.      *)
(*                                                                         *)
(* The container spec has a /workspace volume and does not change; the     *)
(* spec has state.save.                                                    *)
(*                                                                         *)
(* A definition introduced as "a mutant" is no part of the specification:  *)
(* it is a plausible mistake in the definition after it, which one of the  *)
(* properties must notice when it takes its place.                         *)
(***************************************************************************)
EXTENDS Naturals

CONSTANTS
  Keys,        \* identities of archives to restore (restoreKey: sha256 and size)
  Moves,       \* how the backend may change the restore it asks for: pairs of Wants
  WritesFail,  \* TRUE when a marker with content may be left behind empty
  MaxEdits,    \* bound on the changes users make to the workspace
  MaxCrashes,  \* bound on how often the process is killed
  NoSnap       \* "no archive"

\* What a spec may ask to restore: an archive still being made, none, or one.
Wants == Keys \cup {"pending", "clean"}

\* A workspace, and equally an archive of it: the restores of which some file is
\* in it, those whose files are all in place, and how often users changed it.
Snaps == [parts : SUBSET Keys, whole : SUBSET Keys, edits : 0..MaxEdits]

ASSUME KeysAssumption == Keys \cap {"pending", "clean", "nil", "absent", "empty"} = {}
ASSUME BoundsAssumption == MaxEdits \in Nat /\ MaxCrashes \in Nat /\ WritesFail \in BOOLEAN
ASSUME NoSnapAssumption == NoSnap \notin Snaps

VARIABLES
  \* the backend: the restore and the deletion its spec asks for, the archive of
  \* the final save, the last checkpoint it took, the last save report it got
  want, del, stored, kept, told,
  \* the machine: the container runs; the content of /workspace
  up, ws,
  \* the state directory: the markers state_restored, app_container_started,
  \* state_saved/_save_skipped/_save_failed, state_save_started (and whether
  \* saveWindow has passed since), the packed archive and its marker
  restored, started, verdicts, window, out, packed,
  \* the latest spec received, and whether alive work is cancelled
  inbox, inboxDel, cancelled,
  \* the main loop: where it is, the restore the spec of this pass asks for, which
  \* of the pass's two calls of Restore runs, whether containers refused to stop
  mpc, cur, call, stopErr,
  \* the restore and the checkpoint goroutine last started
  job, ck,
  \* the last checkpoint known to be taken, a final save has begun, the delay
  \* before the next upload is not over
  sum, sealed, paused,
  crashes

vars == <<want, del, stored, kept, told, up, ws, restored, started, verdicts, window, out,
          packed, inbox, inboxDel, cancelled, mpc, cur, call, stopErr, job, ck, sum, sealed,
          paused, crashes>>

AlivePcs == {"restore", "start", "wait", "converge", "run", "mark", "checkpoint"}
StopPcs  == {"stop", "stopRestore", "awaitJob", "seal", "awaitCk"}
PackPcs  == {"pack", "markPacked", "upload", "dropArchive", "dropPacked", "recordSaved",
             "tellSaved"}
FailPcs  == {"giveUp", "giveUpPacked", "tellFailed", "recordFailed"}
SavePcs  == PackPcs \cup FailPcs \cup {"decide", "attempt", "tellSkipped"}
JobPcs   == {"none", "fetch", "move", "moving", "check", "commit", "report", "done"}
CkPcs    == {"none", "pack", "ask", "upload", "commit", "done"}

\* How a save can end.
Verdicts == {"saved", "save_skipped", "save_failed"}

NewJob(k) == [pc |-> "fetch", key |-> k, stopped |-> FALSE, err |-> FALSE, result |-> "nil"]
NoJob == [NewJob("nil") EXCEPT !.pc = "none"]
NoCk  == [pc |-> "none", snap |-> NoSnap]

JobOver == job.pc \in {"none", "done"}
CkOver  == ck.pc \in {"none", "done"}

TypeOutside ==
  /\ want \in Wants /\ del \in BOOLEAN /\ told \in {"nil", "saving"} \cup Verdicts
  /\ up \in BOOLEAN /\ crashes \in 0..MaxCrashes

TypeSnaps == ws \in Snaps /\ {stored, kept, out, packed, sum} \subseteq Snaps \cup {NoSnap}

TypeDisk ==
  /\ restored \in Keys \cup {"absent", "empty", "clean"} /\ started \in BOOLEAN
  /\ verdicts \subseteq Verdicts /\ window \in {"absent", "open", "elapsed"}

TypeLoop ==
  /\ inbox \in Wants \cup {"nil"} /\ inboxDel \in BOOLEAN /\ cancelled \in BOOLEAN
  /\ mpc \in {"idle"} \cup AlivePcs \cup StopPcs \cup SavePcs
  /\ cur \in Wants \cup {"nil"} /\ call \in {"pass", "gate"}
  /\ mpc \in {"start", "wait"} => cur \in Keys
  /\ stopErr \in BOOLEAN /\ sealed \in BOOLEAN /\ paused \in BOOLEAN

TypeJobs ==
  /\ job \in [pc : JobPcs, key : Keys \cup {"nil"}, stopped : BOOLEAN, err : BOOLEAN,
              result : {"nil", "restored", "restore_failed"}]
  /\ job.pc # "none" => job.key \in Keys
  /\ ck \in [pc : CkPcs, snap : Snaps \cup {NoSnap}]

TypeOK == TypeOutside /\ TypeSnaps /\ TypeDisk /\ TypeLoop /\ TypeJobs

Init ==
  /\ want \in Wants /\ del = FALSE /\ stored = NoSnap /\ kept = NoSnap /\ told = "nil"
  /\ up = FALSE /\ ws = [parts |-> {}, whole |-> {}, edits |-> 0]
  /\ restored = "absent" /\ started = FALSE /\ verdicts = {} /\ window = "absent"
  /\ out = NoSnap /\ packed = NoSnap
  /\ inbox = "nil" /\ inboxDel = FALSE /\ cancelled = FALSE
  /\ mpc = "idle" /\ cur = "nil" /\ call = "pass" /\ stopErr = FALSE
  /\ job = NoJob /\ ck = NoCk /\ sum = NoSnap
  /\ sealed = FALSE /\ paused = FALSE /\ crashes = 0

-----------------------------------------------------------------------------
(* The backend, the users, time and the intake of specs. Each group of      *)
(* actions below ends with an operator that says what none of them changes. *)

\* The backend changes what the workspace is to be restored from.
ChangeSpec ==
  /\ ~del
  /\ \E w \in Wants : <<want, w>> \in Moves /\ want' = w
  /\ UNCHANGED <<del, ws, window, paused>>

\* The instance is to be deleted; this is never taken back.
RequestDeletion ==
  /\ ~del /\ del' = TRUE
  /\ UNCHANGED <<want, ws, window, paused>>

\* Users work in the running container.
Edit ==
  /\ up /\ ws.edits < MaxEdits
  /\ ws' = [ws EXCEPT !.edits = @ + 1]
  /\ UNCHANGED <<want, del, window, paused>>

\* saveWindow, counted from the time in the marker, runs out.
WindowElapses ==
  /\ window = "open" /\ window' = "elapsed"
  /\ UNCHANGED <<want, del, ws, paused>>

\* The delay before the next upload is over.
PauseEnds ==
  /\ paused /\ paused' = FALSE
  /\ UNCHANGED <<want, del, ws, window>>

Surroundings ==
  /\ ChangeSpec \/ RequestDeletion \/ Edit \/ WindowElapses \/ PauseEnds
  /\ UNCHANGED <<stored, kept, told, up, restored, started, verdicts, out, packed, inbox,
                 inboxDel, cancelled, mpc, cur, call, stopErr, job, ck, sum, sealed, crashes>>

\* The newest spec is put in the inbox; a deletion cancels alive work at once,
\* wherever the main loop is.
Intake ==
  /\ inbox # want \/ inboxDel # del
  /\ inbox' = want /\ inboxDel' = del /\ cancelled' = (cancelled \/ del)
  /\ UNCHANGED <<want, del, stored, kept, told, up, ws, restored, started, verdicts, window,
                 out, packed, mpc, cur, call, stopErr, job, ck, sum, sealed, paused, crashes>>

-----------------------------------------------------------------------------
(* A pass of the main loop: Restore, the container, the checkpoint.         *)

\* A marker with content that cannot be written whole is left empty.
Written(content) == {content} \cup (IF WritesFail THEN {"empty"} ELSE {})

\* The main loop takes the latest spec.
BeginPass ==
  /\ mpc = "idle" /\ inbox # "nil"
  /\ cur' = inbox /\ call' = "pass"
  /\ mpc' = IF inboxDel THEN "stop" ELSE "restore"
  /\ UNCHANGED <<want, del, stored, kept, told, up, ws, restored, started, verdicts, window,
                 out, packed, inbox, inboxDel, cancelled, stopErr, job, ck, sum, sealed,
                 paused, crashes>>

\* A mutant: the container is started whatever Restore returned.
ReturnsReady(ready) ==
  IF call = "pass" THEN mpc' = "converge" ELSE mpc' = "checkpoint" \/ mpc' = "run"

\* Restore returns. After the first call of a pass the container is looked at
\* in any case; the second is the container's start gate, which also waits for
\* the models and the disks.
Returns(ready) ==
  IF call = "pass" THEN mpc' = "converge"
  ELSE mpc' = "checkpoint" \/ (ready /\ mpc' = "run")

\* The marker is there; or the archive is still being made elsewhere; or there
\* is nothing to restore and the marker is written at once, whether or not a
\* restore goroutine runs; or startRestore is called.
Restore ==
  /\ mpc = "restore"
  /\ \/ restored # "absent" /\ Returns(TRUE) /\ UNCHANGED restored
     \/ restored = "absent" /\ cur = "pending" /\ Returns(FALSE) /\ UNCHANGED restored
     \/ /\ restored = "absent" /\ cur = "clean"
        /\ restored' \in Written("clean") /\ Returns(restored' = "clean")
     \/ restored = "absent" /\ cur \in Keys /\ mpc' = "start" /\ UNCHANGED restored
  /\ UNCHANGED job

\* This process has tried these archives and has a result, good or bad.
Settled == job.pc = "done" /\ job.key = cur /\ job.result # "nil"

\* A running restore of the same archives goes on, and a result is kept.
KeepRestore ==
  /\ mpc = "start" /\ (Settled \/ (~JobOver /\ job.key = cur))
  /\ Returns(FALSE) /\ UNCHANGED <<restored, job>>

StartRestore ==
  /\ mpc = "start" /\ JobOver /\ ~Settled
  /\ job' = NewJob(cur)
  /\ Returns(FALSE) /\ UNCHANGED restored

\* A restore of other archives is told to stop, and awaited.
ReplaceRestore ==
  /\ mpc = "start" /\ ~JobOver /\ job.key # cur
  /\ job' = [job EXCEPT !.stopped = TRUE]
  /\ mpc' = "wait" /\ UNCHANGED restored

AwaitReplaced ==
  /\ mpc = "wait" /\ JobOver
  /\ job' = NewJob(cur)
  /\ Returns(FALSE) /\ UNCHANGED restored

RestoreCall ==
  /\ Restore \/ KeepRestore \/ StartRestore \/ ReplaceRestore \/ AwaitReplaced
  /\ UNCHANGED <<want, del, stored, kept, told, up, ws, started, verdicts, window, out, packed,
                 inbox, inboxDel, cancelled, cur, call, stopErr, ck, sum, sealed, paused,
                 crashes>>

\* The container is found running; or it is not, its image is pulled and the
\* gate asked; or docker does not answer or the pull fails.
Converge ==
  /\ mpc = "converge"
  /\ \/ up /\ started' = TRUE /\ mpc' = "checkpoint" /\ UNCHANGED call
     \/ ~up /\ call' = "gate" /\ mpc' = "restore" /\ UNCHANGED started
     \/ mpc' = "checkpoint" /\ UNCHANGED <<call, started>>
  /\ UNCHANGED <<up, ck>>

\* docker run, which may fail or time out with the container up all the same.
RunContainer ==
  /\ mpc = "run"
  /\ (up' = TRUE /\ mpc' = "mark") \/ (up' \in {up, TRUE} /\ mpc' = "checkpoint")
  /\ UNCHANGED <<call, started, ck>>

MarkStarted ==
  /\ mpc = "mark"
  /\ started' = TRUE /\ mpc' = "checkpoint"
  /\ UNCHANGED <<up, call, ck>>

Packable == restored # "absent" /\ started

\* Once alive work is cancelled nothing follows; else a checkpoint starts if its
\* interval has passed.
EndPass ==
  /\ mpc = "checkpoint" /\ mpc' = "idle"
  /\ \/ UNCHANGED ck
     \/ ~cancelled /\ Packable /\ ~sealed /\ CkOver /\ ck' = [NoCk EXCEPT !.pc = "pack"]
  /\ UNCHANGED <<up, call, started>>

ContainerPass ==
  /\ Converge \/ RunContainer \/ MarkStarted \/ EndPass
  /\ UNCHANGED <<want, del, stored, kept, told, ws, restored, verdicts, window, out, packed,
                 inbox, inboxDel, cancelled, cur, stopErr, job, sum, sealed, paused, crashes>>

-----------------------------------------------------------------------------
(* The restore goroutine.                                                   *)

\* Fetching, verifying and unpacking beside the workspace: it fails, is cancelled
\* or runs out of time, or the files are ready to be moved in.
JobFetch ==
  /\ job.pc = "fetch"
  /\ \/ job' = [job EXCEPT !.pc = "move"]
     \/ job' = [job EXCEPT !.pc = "check", !.err = TRUE]
  /\ UNCHANGED <<ws, restored>>

\* The first file is moved into the workspace, over what is there.
JobMove ==
  /\ job.pc = "move" /\ job' = [job EXCEPT !.pc = "moving"]
  /\ ws' = [ws EXCEPT !.parts = @ \cup {job.key}, !.whole = @ \cap {job.key}]
  /\ UNCHANGED restored

\* The last one is moved; or a move fails and the files moved so far stay.
JobMoved ==
  /\ job.pc = "moving"
  /\ \/ ws' = [ws EXCEPT !.whole = {job.key}] /\ job' = [job EXCEPT !.pc = "check"]
     \/ job' = [job EXCEPT !.pc = "check", !.err = TRUE] /\ UNCHANGED ws
  /\ UNCHANGED restored

\* A mutant: the marker is written after a failed restore as well.
JobCheckNoError ==
  /\ job.pc = "check"
  /\ job' = [job EXCEPT !.pc = IF job.stopped \/ cancelled THEN "done" ELSE "commit"]
  /\ UNCHANGED <<ws, restored>>

\* A restore that was stopped, or whose alive work was cancelled, leaves neither
\* marker nor result.
JobCheck ==
  /\ job.pc = "check"
  /\ job' = [job EXCEPT !.pc = IF job.stopped \/ cancelled THEN "done"
                               ELSE IF job.err THEN "report" ELSE "commit"]
  /\ UNCHANGED <<ws, restored>>

JobCommit ==
  /\ job.pc = "commit"
  /\ restored' \in Written(job.key)
  /\ job' = [job EXCEPT !.pc = "report", !.err = (restored' = "empty")]
  /\ UNCHANGED ws

JobReport ==
  /\ job.pc = "report"
  /\ job' = [job EXCEPT !.pc = "done",
                        !.result = IF job.err THEN "restore_failed" ELSE "restored"]
  /\ UNCHANGED <<ws, restored>>

RestoreJob ==
  /\ JobFetch \/ JobMove \/ JobMoved \/ JobCheck \/ JobCommit \/ JobReport
  /\ UNCHANGED <<want, del, stored, kept, told, up, started, verdicts, window, out, packed,
                 inbox, inboxDel, cancelled, mpc, cur, call, stopErr, ck, sum, sealed, paused,
                 crashes>>

-----------------------------------------------------------------------------
(* The checkpoint goroutine. Its context ends with alive work and with the  *)
(* final save; every step may also fail, which ends it.                     *)

CkLive == ~cancelled /\ ~sealed

\* Packing, with the container at work in the workspace, goes no further if
\* nothing changed since the last checkpoint.
CkPack ==
  /\ ck.pc = "pack" /\ CkLive /\ sum # ws
  /\ ck' = [pc |-> "ask", snap |-> ws] /\ UNCHANGED <<kept, sum>>

\* The backend hands out an upload URL; the archive is put there.
CkSend ==
  /\ ck.pc \in {"ask", "upload"} /\ CkLive
  /\ ck' = [ck EXCEPT !.pc = IF @ = "ask" THEN "upload" ELSE "commit"]
  /\ UNCHANGED <<kept, sum>>

\* The backend takes the checkpoint, perhaps of a request that was on its way
\* when it was cancelled; its answer may be lost.
CkCommit ==
  /\ ck.pc = "commit"
  /\ ck' = [ck EXCEPT !.pc = "done"]
  /\ kept' = ck.snap /\ sum' \in {sum, ck.snap}

CkGivesUp ==
  /\ ~CkOver
  /\ ck' = [ck EXCEPT !.pc = "done"] /\ UNCHANGED <<kept, sum>>

CheckpointJob ==
  /\ CkPack \/ CkSend \/ CkCommit \/ CkGivesUp
  /\ UNCHANGED <<want, del, stored, told, up, ws, restored, started, verdicts, window, out,
                 packed, inbox, inboxDel, cancelled, mpc, cur, call, stopErr, job, sealed,
                 paused, crashes>>

-----------------------------------------------------------------------------
(* A pass over a spec that asks for deletion: the containers are stopped,   *)
(* then Save first waits for both goroutines.                               *)

\* docker stop, then docker kill. A container may survive both, or docker not
\* say whether it did.
StopContainers ==
  /\ mpc = "stop" /\ mpc' = "stopRestore"
  /\ (up' = FALSE /\ stopErr' = FALSE) \/ (up' \in {up, FALSE} /\ stopErr' = TRUE)
  /\ cancelled' = TRUE
  /\ UNCHANGED <<job, sealed>>

StopRestore ==
  /\ mpc = "stopRestore" /\ mpc' = "awaitJob"
  /\ job' = [job EXCEPT !.stopped = (job.pc # "none")]
  /\ UNCHANGED <<up, stopErr, cancelled, sealed>>

AwaitJob ==
  /\ mpc = "awaitJob" /\ JobOver /\ mpc' = "seal"
  /\ UNCHANGED <<up, stopErr, cancelled, job, sealed>>

Seal ==
  /\ mpc = "seal" /\ mpc' = "awaitCk" /\ sealed' = TRUE
  /\ UNCHANGED <<up, stopErr, cancelled, job>>

\* A mutant: the checkpoint is cancelled but not awaited.
AwaitCkNot ==
  /\ mpc = "awaitCk" /\ mpc' = "decide"
  /\ UNCHANGED <<up, stopErr, cancelled, job, sealed>>

AwaitCk ==
  /\ mpc = "awaitCk" /\ CkOver /\ mpc' = "decide"
  /\ UNCHANGED <<up, stopErr, cancelled, job, sealed>>

StopPass ==
  /\ StopContainers \/ StopRestore \/ AwaitJob \/ Seal \/ AwaitCk
  /\ UNCHANGED <<want, del, stored, kept, told, ws, restored, started, verdicts, window, out,
                 packed, inbox, inboxDel, cur, call, ck, sum, paused, crashes>>

-----------------------------------------------------------------------------
(* Save.                                                                    *)

\* What the markers say of an earlier save.
Outcome ==
  IF "saved" \in verdicts THEN "saved"
  ELSE IF "save_skipped" \in verdicts THEN "save_skipped"
  ELSE IF "save_failed" \in verdicts THEN "save_failed"
  ELSE "nil"

\* An outcome is repeated.
RepeatOutcome ==
  /\ mpc = "decide" /\ Outcome # "nil"
  /\ told' = Outcome /\ mpc' = "idle"
  /\ UNCHANGED <<stored, verdicts, window, out, packed, paused>>

\* A workspace that is not both restored and used is not saved.
SkipSave ==
  /\ mpc = "decide" /\ Outcome = "nil" /\ ~Packable
  /\ verdicts' = verdicts \cup {"save_skipped"} /\ mpc' = "tellSkipped"
  /\ UNCHANGED <<stored, told, window, out, packed, paused>>

TellSkipped ==
  /\ mpc = "tellSkipped" /\ told' = "save_skipped" /\ mpc' = "idle"
  /\ UNCHANGED <<stored, verdicts, window, out, packed, paused>>

\* A mutant: the outcome on disk is not looked at.
BeginSaveAgain ==
  /\ mpc = "decide" /\ Packable /\ mpc' = "attempt"
  /\ \/ window # "absent" /\ UNCHANGED window
     \/ window = "absent" /\ window' = "open"
  /\ UNCHANGED <<stored, told, verdicts, out, packed, paused>>

\* The time of the first attempt is put on disk, unless it is there.
BeginSave ==
  /\ mpc = "decide" /\ Outcome = "nil" /\ Packable /\ mpc' = "attempt"
  /\ \/ window # "absent" /\ UNCHANGED window
     \/ window = "absent" /\ window' \in {"open"} \cup (IF WritesFail THEN {"absent"} ELSE {})
  /\ UNCHANGED <<stored, told, verdicts, out, packed, paused>>

\* A mutant: saveWindow is not looked at.
SaveFailsNever(final, archive) ==
  /\ out' = archive /\ packed' = packed
  /\ \/ final /\ mpc' = "giveUp" /\ told' = told
     \/ ~final /\ mpc' = "idle" /\ told' = "saving"

\* saveFailed: the save is given up, or the next pass tries again with the archive left.
SaveFails(final, archive) ==
  /\ out' = archive /\ packed' = packed
  /\ \/ (final \/ window = "elapsed") /\ mpc' = "giveUp" /\ told' = told
     \/ ~(final \/ window = "elapsed") /\ mpc' = "idle" /\ told' = "saving"

\* Nothing is packed under a container that did not stop, nor uploaded before the
\* delay after the last failure is over.
HoldBack ==
  /\ mpc = "attempt" /\ (stopErr \/ paused)
  /\ SaveFails(FALSE, out)
  /\ UNCHANGED <<stored, verdicts, window, paused>>

\* A mutant: packing goes on under a container that did not stop.
AttemptAnyway ==
  /\ mpc = "attempt" /\ ~paused
  /\ told' = "saving" /\ mpc' = "pack"
  /\ UNCHANGED <<stored, verdicts, window, out, packed, paused>>

Attempt ==
  /\ mpc = "attempt" /\ ~stopErr /\ ~paused
  /\ told' = "saving" /\ mpc' = "pack"
  /\ UNCHANGED <<stored, verdicts, window, out, packed, paused>>

Reusable == packed # NoSnap /\ packed = out

\* An archive that is whole, by its marker, is uploaded again as it is.
ReuseArchive ==
  /\ mpc = "pack" /\ Reusable /\ mpc' = "upload"
  /\ UNCHANGED <<stored, told, verdicts, window, out, packed, paused>>

Pack ==
  /\ mpc = "pack" /\ ~Reusable
  /\ out' = ws /\ mpc' = "markPacked"
  /\ UNCHANGED <<stored, told, verdicts, window, packed, paused>>

\* For good when the workspace is too large even without .venv.
PackFails ==
  /\ mpc = "pack" /\ ~Reusable
  /\ \E tooLarge \in BOOLEAN : SaveFails(tooLarge, NoSnap)
  /\ UNCHANGED <<stored, verdicts, window, paused>>

\* The marker of the packed archive; an empty one is none.
MarkPacked ==
  /\ mpc = "markPacked" /\ mpc' = "upload"
  /\ packed' \in {out} \cup (IF WritesFail THEN {NoSnap} ELSE {})
  /\ UNCHANGED <<stored, told, verdicts, window, out, paused>>

Upload ==
  /\ mpc = "upload" /\ stored' = out /\ mpc' = "dropArchive"
  /\ UNCHANGED <<told, verdicts, window, out, packed, paused>>

\* The upload fails, or nothing is heard of its success.
UploadFails ==
  /\ mpc = "upload" /\ stored' \in {stored, out} /\ paused' = TRUE
  /\ SaveFails(FALSE, out)
  /\ UNCHANGED <<verdicts, window>>

\* The archive goes before its marker, after an upload and when the save is given up.
DropArchive ==
  \/ /\ mpc \in {"dropArchive", "giveUp"} /\ out' = NoSnap
     /\ mpc' = IF mpc = "giveUp" THEN "giveUpPacked" ELSE "dropPacked"
     /\ UNCHANGED <<stored, told, verdicts, window, packed, paused>>
  \/ /\ mpc \in {"dropPacked", "giveUpPacked"} /\ packed' = NoSnap
     /\ mpc' = IF mpc = "giveUpPacked" THEN "tellFailed" ELSE "recordSaved"
     /\ UNCHANGED <<stored, told, verdicts, window, out, paused>>

RecordSaved ==
  /\ mpc = "recordSaved" /\ verdicts' = verdicts \cup {"saved"} /\ mpc' = "tellSaved"
  /\ UNCHANGED <<stored, told, window, out, packed, paused>>

TellSaved ==
  /\ mpc = "tellSaved" /\ told' = "saved" /\ mpc' = "idle"
  /\ UNCHANGED <<stored, verdicts, window, out, packed, paused>>

\* A failure is told before it is put on disk.
TellFailed ==
  /\ mpc = "tellFailed" /\ told' = "save_failed" /\ mpc' = "recordFailed"
  /\ UNCHANGED <<stored, verdicts, window, out, packed, paused>>

RecordFailed ==
  /\ mpc = "recordFailed" /\ verdicts' = verdicts \cup {"save_failed"} /\ mpc' = "idle"
  /\ UNCHANGED <<stored, told, window, out, packed, paused>>

Save ==
  /\ \/ RepeatOutcome \/ SkipSave \/ TellSkipped \/ BeginSave \/ HoldBack \/ Attempt
     \/ ReuseArchive \/ Pack \/ PackFails \/ MarkPacked \/ Upload \/ UploadFails
     \/ DropArchive \/ RecordSaved \/ TellSaved \/ TellFailed \/ RecordFailed
  /\ UNCHANGED <<want, del, kept, up, ws, restored, started, inbox, inboxDel, cancelled, cur,
                 call, stopErr, job, ck, sum, sealed, crashes>>

-----------------------------------------------------------------------------
\* The process is killed and started again; the container runs on.
Restart ==
  /\ crashes < MaxCrashes /\ crashes' = crashes + 1
  /\ inbox' = "nil" /\ inboxDel' = FALSE /\ cancelled' = FALSE
  /\ mpc' = "idle" /\ cur' = "nil" /\ call' = "pass" /\ stopErr' = FALSE
  /\ job' = NoJob /\ ck' = NoCk /\ sum' = NoSnap /\ sealed' = FALSE /\ paused' = FALSE
  /\ UNCHANGED <<want, del, stored, kept, told, up, ws, restored, started, verdicts, window,
                 out, packed>>

MainLoop == BeginPass \/ RestoreCall \/ ContainerPass \/ StopPass \/ Save

Next == Surroundings \/ Intake \/ MainLoop \/ RestoreJob \/ CheckpointJob \/ Restart

Spec == Init /\ [][Next]_vars

\* The goroutines and the intake are scheduled, a ticker wakes the main loop, time
\* passes, and a disk does not stay full: the time of the first attempt is at last
\* written.
FairSpec ==
  /\ Spec
  /\ WF_vars(MainLoop) /\ WF_vars(RestoreJob) /\ WF_vars(CheckpointJob) /\ WF_vars(Intake)
  /\ WF_vars(Surroundings /\ WindowElapses) /\ WF_vars(Surroundings /\ PauseEnds)
  /\ SF_vars(MainLoop /\ BeginSave /\ window' # "absent")

-----------------------------------------------------------------------------
(* What must be true of it.                                                 *)

\* From packing to the saved marker nothing else touches the workspace: no restore
\* moves files into it, no checkpoint is on its way and no container runs. (Save
\* waits for both goroutines and refuses a container that survived.)
SavingAlone == mpc \in PackPcs => JobOver /\ CkOver /\ ~up

\* A save on record as done holds the workspace exactly as it is left: nothing was
\* written after it was packed, though that may have been in an earlier pass or by
\* an earlier process (packed reuses the archive, Outcome repeats the marker).
NothingLost == "saved" \in verdicts => stored = ws

Whole(snap) ==
  /\ snap.parts = snap.whole
  /\ restored \in Keys => snap.whole = {restored}

\* The final save never replaces the stored workspace by half of one: the upload
\* holds all files of the restored archive and none of another's.
StoredIsWhole == stored # NoSnap => Whole(stored)

\* The same of a checkpoint, taken while the container runs.
KeptIsWhole == kept # NoSnap => Whole(kept)

\* Whatever the backend holds of a workspace, by the save or a checkpoint, is no part of
\* one and no mixture of two (a restore that failed or was stopped does not count).
ArchivesAreWhole == StoredIsWhole /\ KeptIsWhole

\* When the marker of a restore is written all files of that archive are in place
\* and no other archive lies over them, whatever restore was stopped, replaced or
\* cut short before (startRestore awaits the one it replaces).
MarkerIsEarned ==
  [][restored' # restored /\ restored' \in Keys => ws.whole = {restored'}]_restored

\* The container never runs while a restore has yet to put its files in place (the
\* start gate: "container must not start before the state is restored").
NoRestoreUnderContainer == up => job.pc \in {"none", "report", "done"}

\* The outcome of the save on disk is settled once: crashes, repeated passes and
\* failed uploads never turn it into another one (Save asks Outcome first).
VerdictHolds == [][Outcome # "nil" => Outcome' = Outcome]_verdicts

\* A save reported as done or skipped is never reported as anything else later, by
\* this process or the next (the marker is written before the report).
ToldHolds == [][(told \in {"saved", "save_skipped"}) => told' = told]_told

\* There is one answer to a deletion, on disk and as it is told, over crashes and retries
\* (Save repeats what it finds and writes no second outcome).
AnswersHold == VerdictHolds /\ ToldHolds

\* No checkpoint reaches the backend once a final archive or an outcome is there:
\* the older copy would be the newer one (Save seals and awaits checkpoints).
NoLateCheckpoint == [][kept' # kept => stored = NoSnap /\ verdicts = {}]_kept

\* Once deletion is asked for, the backend hears a final answer about the save:
\* saveWindow ends the retries.
SaveConcludes == del ~> told \in {"saved", "save_skipped", "save_failed"}

\* The whole of it, seen from outside: the detail above keeps the promises of
\* FinalSave.
Promise == INSTANCE FinalSave WITH work <- ws, verdict <- Outcome
KeepsPromise == Promise!Spec

-----------------------------------------------------------------------------
(* Why it is true: the invariant that every step preserves.                 *)

\* The deletion has reached the process, or will before it does anything, and both
\* goroutines are over: from here on only Save is at work.
Ended ==
  /\ del /\ (inbox = "nil" \/ inboxDel)
  /\ mpc \in {"idle"} \cup StopPcs \cup SavePcs
  /\ JobOver /\ CkOver

\* Nothing can change the workspace any more.
Quiet == Ended /\ ~up

\* What Save has established on its way: a deletion, the goroutines over and, under
\* a clean stop, no container.
SaveGuarded ==
  /\ inboxDel => del
  /\ mpc \in StopPcs \cup SavePcs => inboxDel
  /\ mpc \in {"seal", "awaitCk"} \cup SavePcs => JobOver
  /\ mpc \in SavePcs => CkOver
  /\ mpc \in (StopPcs \ {"stop"}) \cup SavePcs /\ ~stopErr => ~up
  /\ mpc \in PackPcs => ~stopErr

\* Every final archive, wherever it is, is the workspace and is final.
ArchivesFinal ==
  /\ out # NoSnap \/ packed # NoSnap \/ stored # NoSnap => Quiet
  /\ {out, packed, stored} \subseteq {NoSnap, ws}
  /\ mpc \in {"markPacked", "upload"} => out = ws
  /\ mpc \in {"dropArchive", "dropPacked", "recordSaved", "tellSaved"} => stored = ws
  /\ "saved" \in verdicts => stored = ws

\* An outcome is written once, at the end, and reported only when it is written.
OutcomeOnce ==
  /\ mpc \in (PackPcs \ {"tellSaved"}) \cup FailPcs \cup {"attempt"} => verdicts = {}
  /\ mpc = "tellSaved" => Outcome = "saved"
  /\ mpc = "tellSkipped" => Outcome = "save_skipped"
  /\ verdicts # {} => Ended
  /\ told \in {"saved", "save_skipped"} => Outcome = told

CheckpointHasSnap == ck.pc \in {"ask", "upload", "commit"} => ck.snap \in Snaps

\* A restore that is about to write its marker has put its files in place, and they
\* stay there.
FilesInPlace ==
  job.pc = "commit" \/ (job.pc = "check" /\ ~job.err) => ws.whole = {job.key}

IInv ==
  TypeOK /\ SaveGuarded /\ ArchivesFinal /\ OutcomeOnce /\ CheckpointHasSnap /\ FilesInPlace

\* The backend that keeps to its word: the archive it has named, or that there is none,
\* it does not change.
OneArchive == \A v \in Keys \cup {"clean"}, w \in Wants : <<v, w>> \in Moves => w = v

\* The process knows of that archive or of none, and all it has done was for that one.
OneArchiveKnown ==
  /\ {inbox, cur} \subseteq {"nil", "pending", want}
  /\ job.pc # "none" => job.key = want
  /\ restored \in Keys \cup {"clean"} => restored = want
  /\ restored = "empty" => want # "pending"

\* The start gate. The marker comes after the last file, no restore starts once it is
\* there (a pass that missed it finds its own process's result), and the container is
\* started after it.
GateHolds ==
  /\ restored # "absent" => job.pc \in {"none", "report", "done"}
  /\ mpc = "start" /\ restored # "absent" =>
       job.pc = "report" \/ (job.pc = "done" /\ job.result # "nil")
  /\ mpc # "wait"
  /\ up \/ mpc \in {"run", "mark"} => restored # "absent"

\* The workspace holds files of that archive only, and once the marker is there all of
\* them; nothing is copied to the backend before.
OneArchiveWhole ==
  /\ ws.parts \subseteq {want} /\ ws.whole \subseteq ws.parts
  /\ job.pc = "moving" => job.key \in ws.parts
  /\ restored # "absent" => Whole(ws)
  /\ started \/ mpc \in PackPcs \cup {"attempt"} \/ ~CkOver => restored # "absent"
  /\ out # NoSnap \/ packed # NoSnap \/ stored # NoSnap => restored # "absent"
  /\ \A snap \in {ck.snap, kept, sum} \ {NoSnap} : restored # "absent" /\ Whole(snap)

OneArchiveInv == OneArchiveKnown /\ GateHolds /\ OneArchiveWhole
=============================================================================
