------------------------------ MODULE Shutdown ------------------------------
(***************************************************************************)
(* The end of an instance: internal/lifecycle as the agent's main loop     *)
(* drives it. Containers are stopped, the workspace is saved (module       *)
(* Workspace; here only whether the save is over), rclone finishes the     *)
(* uploads of every disk, the disks' units are stopped, the backend is     *)
(* told, and the machine powers itself off.                                *)
(*                                                                         *)
(* rclone and the container work between any two steps of the main loop.   *)
(* Commands fail, reports get lost, and the process may be killed and is   *)
(* started again by systemd with only its state file left.                 *)
(*                                                                         *)
(* A definition introduced as "a mutant" is no part of the specification:  *)
(* it is a plausible mistake in the definition after it, which one of the  *)
(* properties must notice when it takes its place.                         *)
(***************************************************************************)
EXTENDS Integers, FiniteSets

CONSTANTS
  Disks,       \* the disks with a unit file when deletion comes
  SaveAsked,   \* TRUE when the spec asks for the workspace to be saved
  StallAfter,  \* for how long uploads may stand still before that is an error
  MaxWrites,   \* bound on the files the container writes
  MaxFaults    \* bound on failures, lost reports and restarts

ASSUME DisksAssumption == IsFiniteSet(Disks)
ASSUME BoundsAssumption == {StallAfter, MaxWrites, MaxFaults} \subseteq Nat /\ SaveAsked \in BOOLEAN

VARIABLES
  \* the backend: deletion is asked for; the last lifecycle state it was told
  del, told,
  \* the machine: it is off; a container runs; the final save is "open" or "over"
  off, up, save,
  \* per disk: the unit of its rclone is up, failed or stopped, how many files wait to
  \* be uploaded, how many uploads that rclone has completed; files written in all
  unit, pend, done, writes,
  \* the state file
  file,
  \* the latest spec received: none, one that keeps the instance, one that deletes it
  spec,
  \* the main loop: where it is, the disks it has yet to come to, the uploads summed
  \* so far (pending and completed), whether all disks answered or stopped, the
  \* state to report
  mpc, left, sum, allWell, obs,
  \* the stall watch: the sums seen last, for how long they have not moved (-1 before
  \* the first look), whether the stall has been called
  mark, age, stall,
  faults

machine == <<off, up, save, unit, pend, done, writes>>
loop    == <<mpc, left, sum, allWell, obs>>
watch   == <<mark, age, stall>>
vars    == <<del, told, machine, file, spec, loop, watch, faults>>

States == {"alive", "syncing", "error", "synced"}
Sums   == [pend : Nat, done : Nat]
NoSum  == [pend |-> 0, done |-> 0]
NoMark == [pend |-> -1, done |-> -1]

TypeOK ==
  /\ del \in BOOLEAN /\ told \in States \cup {"nil"}
  /\ off \in BOOLEAN /\ up \in BOOLEAN /\ save \in {"open", "over"}
  /\ unit \in [Disks -> {"up", "failed", "stopped"}] /\ pend \in [Disks -> 0..MaxWrites]
  /\ done \in [Disks -> 0..MaxWrites] /\ writes \in 0..MaxWrites
  /\ file \in States \cup {"destroying_self"} /\ spec \in {"nil", "keep", "delete"}
  /\ mpc \in {"idle", "parked", "stop", "save", "list", "poll", "flush", "post", "destroy",
              "poweroff", "exit"}
  /\ left \subseteq Disks /\ sum \in Sums /\ allWell \in BOOLEAN /\ obs \in States
  /\ mark \in Sums \cup {NoMark} /\ age \in -1..StallAfter /\ stall \in BOOLEAN
  /\ faults \in 0..MaxFaults

Init ==
  /\ del = FALSE /\ told = "nil" /\ off = FALSE /\ up = TRUE
  /\ save = IF SaveAsked THEN "open" ELSE "over"
  /\ unit = [d \in Disks |-> "up"] /\ pend = [d \in Disks |-> 0]
  /\ done = [d \in Disks |-> 0] /\ writes = 0
  /\ file = "alive" /\ spec = "keep"
  /\ mpc = "idle" /\ left = {} /\ sum = NoSum /\ allWell = TRUE /\ obs = "alive"
  /\ mark = NoMark /\ age = -1 /\ stall = FALSE /\ faults = 0

Fault == faults < MaxFaults /\ faults' = faults + 1
Well  == UNCHANGED faults

-----------------------------------------------------------------------------
(* What goes on around the main loop, as long as the machine is on.         *)

RequestDeletion ==
  /\ ~del /\ del' = TRUE
  /\ UNCHANGED <<machine, spec, age, faults>>

\* The stream brings the spec.
Intake ==
  /\ spec' = IF del THEN "delete" ELSE "keep"
  /\ spec' # spec
  /\ UNCHANGED <<del, machine, age, faults>>

\* A running container writes a file to a mounted disk.
Write ==
  /\ up /\ writes < MaxWrites /\ writes' = writes + 1
  /\ \E d \in Disks : unit[d] = "up" /\ pend' = [pend EXCEPT ![d] = @ + 1]
  /\ UNCHANGED <<del, off, up, save, unit, done, spec, age, faults>>

\* rclone uploads one.
Upload(d) ==
  /\ unit[d] = "up" /\ pend[d] > 0
  /\ pend' = [pend EXCEPT ![d] = @ - 1] /\ done' = [done EXCEPT ![d] = @ + 1]
  /\ UNCHANGED <<del, off, up, save, unit, writes, spec, age, faults>>

\* rclone ends: systemd starts it again after a failure only. A new rclone finds the
\* files in its cache and counts its uploads from zero.
RcloneEnds ==
  /\ Fault
  /\ \E d \in Disks, how \in {"failed", "stopped"} :
       unit[d] = "up" /\ unit' = [unit EXCEPT ![d] = how]
  /\ UNCHANGED <<del, off, up, save, pend, done, writes, spec, age>>

StartRclone(d) == unit' = [unit EXCEPT ![d] = "up"] /\ done' = [done EXCEPT ![d] = 0]

RcloneRestarts ==
  /\ \E d \in Disks : unit[d] = "failed" /\ StartRclone(d)
  /\ UNCHANGED <<del, off, up, save, pend, writes, spec, age, faults>>

\* Save comes to an outcome, under a container that survived or not.
SaveEnds ==
  /\ save = "open" /\ mpc = "save" /\ save' = "over"
  /\ UNCHANGED <<del, off, up, unit, pend, done, writes, spec, age, faults>>

Tick ==
  /\ age \in 0..(StallAfter - 1) /\ age' = age + 1
  /\ UNCHANGED <<del, machine, spec, faults>>

Surroundings ==
  /\ ~off
  /\ \/ RequestDeletion \/ Intake \/ Write \/ RcloneEnds \/ RcloneRestarts \/ SaveEnds \/ Tick
     \/ \E d \in Disks : Upload(d)
  /\ UNCHANGED <<told, file, loop, mark, stall>>

-----------------------------------------------------------------------------
(* The main loop.                                                           *)

\* SetState replaces the state file, or fails and leaves it as it was.
SetState(state) == (file' = state /\ Well) \/ (file' = file /\ Fault)

Report(state) == obs' = state /\ mpc' = "post"

\* A pass over a spec that keeps the instance. What it does is not the subject here.
AlivePass ==
  /\ mpc = "idle" /\ spec = "keep"
  /\ SetState("alive") /\ Report("alive")
  /\ UNCHANGED <<machine, left, sum, allWell, watch>>

\* A mutant: destroying_self is not among the states that are over.
TerminateAgain ==
  /\ mpc = "idle" /\ spec = "delete"
  /\ \/ file = "synced" /\ Report("synced") /\ UNCHANGED <<file, faults>>
     \/ file \in {"syncing", "error"} /\ mpc' = "stop" /\ UNCHANGED <<file, obs, faults>>
     \/ /\ file \in {"alive", "destroying_self"} /\ SetState("syncing")
        /\ IF file' = "syncing" THEN mpc' = "stop" /\ UNCHANGED obs ELSE Report("alive")
  /\ UNCHANGED <<machine, left, sum, allWell, watch>>

\* HandleTermination looks at the state file first. A process that was started again
\* after it asked for the poweroff only repeats that all is synced.
Terminate ==
  /\ mpc = "idle" /\ spec = "delete"
  /\ \/ file \in {"synced", "destroying_self"} /\ Report("synced") /\ UNCHANGED <<file, faults>>
     \/ file \in {"syncing", "error"} /\ mpc' = "stop" /\ UNCHANGED <<file, obs, faults>>
     \/ /\ file = "alive" /\ SetState("syncing")
        /\ IF file' = "syncing" THEN mpc' = "stop" /\ UNCHANGED obs ELSE Report("alive")
  /\ UNCHANGED <<machine, left, sum, allWell, watch>>

\* docker stop and kill; a container that survives both only matters to Save.
StopContainers ==
  /\ mpc = "stop" /\ mpc' = "save"
  /\ (up' = FALSE /\ Well) \/ (up' = up /\ Fault)
  /\ UNCHANGED <<off, save, unit, pend, done, writes, file, left, sum, allWell, obs, watch>>

\* The hook: while the save is still trying, the pass ends here.
AfterStop ==
  /\ mpc = "save"
  /\ IF save = "open" THEN Report("syncing") ELSE mpc' = "list" /\ UNCHANGED obs
  /\ UNCHANGED <<machine, file, left, sum, allWell, watch, faults>>

\* A mutant: a stall that was called is forgotten when something else fails.
SyncingForgets == "syncing"

\* syncing(): a stall that was called stays.
Syncing == IF stall THEN "error" ELSE "syncing"

ListUnits ==
  /\ mpc = "list"
  /\ \/ /\ mpc' = "poll" /\ left' = Disks /\ sum' = NoSum /\ allWell' = TRUE
        /\ UNCHANGED <<obs, faults>>
     \/ Fault /\ Report(Syncing) /\ UNCHANGED <<left, sum, allWell>>
  /\ UNCHANGED <<machine, file, watch>>

\* A mutant: a unit that does not run is not started.
PollOnly ==
  /\ mpc = "poll"
  /\ \E d \in left :
       /\ left' = left \ {d}
       /\ \/ /\ unit[d] = "up" /\ Well
             /\ sum' = [pend |-> sum.pend + pend[d], done |-> sum.done + done[d]]
             /\ UNCHANGED <<allWell, unit, done>>
          \/ unit[d] # "up" /\ Well /\ allWell' = FALSE /\ UNCHANGED <<sum, unit, done>>
  /\ UNCHANGED <<off, up, save, pend, writes, file, mpc, obs, watch>>

\* Uploads of one disk: rclone answers; or it does not although it runs, and is let
\* be; or its unit does not run and is started, which may fail.
Poll ==
  /\ mpc = "poll"
  /\ \E d \in left :
       /\ left' = left \ {d}
       /\ \/ /\ unit[d] = "up" /\ Well
             /\ sum' = [pend |-> sum.pend + pend[d], done |-> sum.done + done[d]]
             /\ UNCHANGED <<allWell, unit, done>>
          \/ Fault /\ allWell' = FALSE /\ UNCHANGED <<sum, unit, done>>
          \/ unit[d] # "up" /\ Well /\ allWell' = FALSE /\ StartRclone(d) /\ UNCHANGED sum
  /\ UNCHANGED <<off, up, save, pend, writes, file, mpc, obs, watch>>

\* watch: uploads have moved when more are completed or fewer wait than at the last
\* look at which all disks answered; bytes sent of a file not yet complete count too.
Moved == sum.done > mark.done \/ sum.pend < mark.pend

Watch(partial) ==
  IF stall THEN UNCHANGED watch
  ELSE /\ mark' = IF allWell THEN sum ELSE mark
       /\ age' = IF age = -1 \/ (allWell /\ mark # NoMark /\ (Moved \/ partial)) THEN 0 ELSE age
       /\ stall' = (age' >= StallAfter)

\* A mutant: a disk that did not answer counts as one that has nothing to upload.
DecideUnknown ==
  /\ mpc = "poll" /\ left = {}
  /\ IF sum.pend = 0
     THEN mpc' = "flush" /\ left' = Disks /\ allWell' = TRUE /\ UNCHANGED <<file, obs, watch, faults>>
     ELSE Report("syncing") /\ UNCHANGED <<left, allWell, file, watch, faults>>
  /\ UNCHANGED <<machine, sum>>

\* All disks were asked. The units are stopped when all answered and nothing waits.
Decide ==
  /\ mpc = "poll" /\ left = {}
  /\ IF allWell /\ sum.pend = 0
     THEN mpc' = "flush" /\ left' = Disks /\ UNCHANGED <<file, obs, watch, faults>>
     ELSE /\ \E partial \in BOOLEAN : (partial => sum.pend > 0) /\ Watch(partial)
          /\ IF stall' THEN SetState("error") /\ Report("error")
             ELSE Report("syncing") /\ UNCHANGED <<file, faults>>
          /\ UNCHANGED left
  /\ UNCHANGED <<machine, sum, allWell>>

\* systemctl stop, one unit after the other, whether or not one fails; one that takes
\* too long may succeed later.
Flush ==
  /\ mpc = "flush"
  /\ \E d \in left :
       /\ left' = left \ {d}
       /\ \/ unit' = [unit EXCEPT ![d] = "stopped"] /\ Well /\ UNCHANGED allWell
          \/ unit' \in {unit, [unit EXCEPT ![d] = "stopped"]} /\ Fault /\ allWell' = FALSE
  /\ UNCHANGED <<off, up, save, pend, done, writes, file, mpc, sum, obs, watch>>

\* All units were stopped. "synced" is reported even when it cannot be written.
Flushed ==
  /\ mpc = "flush" /\ left = {}
  /\ IF allWell THEN SetState("synced") /\ Report("synced")
     ELSE Report(Syncing) /\ UNCHANGED <<file, faults>>
  /\ UNCHANGED <<machine, left, sum, allWell, watch>>

\* A mutant: the machine is to go whether or not the post succeeded.
PostUnheard ==
  /\ mpc = "post"
  /\ (told' = obs /\ Well) \/ (told' \in {told, obs} /\ Fault)
  /\ mpc' = IF file = "synced" THEN "destroy" ELSE "idle"
  /\ UNCHANGED <<machine, file, left, sum, allWell, obs, watch>>

\* The status is posted; nothing may be heard of its success. Only after a post known
\* to have succeeded, and with synced in the file, the machine is to go.
Post ==
  /\ mpc = "post"
  /\ \/ told' = obs /\ Well /\ mpc' = IF file = "synced" THEN "destroy" ELSE "idle"
     \/ told' \in {told, obs} /\ Fault /\ mpc' = "idle"
  /\ UNCHANGED <<machine, file, left, sum, allWell, obs, watch>>

\* powerOff, which goes on when the state cannot be written.
Destroy ==
  /\ mpc = "destroy" /\ mpc' = "poweroff"
  /\ SetState("destroying_self")
  /\ UNCHANGED <<told, machine, left, sum, allWell, obs, watch>>

\* systemctl poweroff; when it fails the process ends.
Poweroff ==
  /\ mpc = "poweroff" /\ mpc' = "exit"
  /\ (off' = TRUE /\ Well) \/ (off' = off /\ Fault)
  /\ UNCHANGED <<told, up, save, unit, pend, done, writes, file, left, sum, allWell, obs, watch>>

\* waitForDestroy: a process that was started in "synced" reports that and no more.
Parked ==
  /\ mpc = "parked" /\ told' = "synced"
  /\ UNCHANGED <<machine, file, loop, watch, faults>>

\* The process ended by itself, or is killed. systemd starts it again.
Restart ==
  /\ (mpc = "exit" /\ Well) \/ Fault
  /\ mpc' = IF file = "synced" THEN "parked" ELSE "idle"
  /\ spec' = "nil" /\ left' = {} /\ sum' = NoSum /\ allWell' = TRUE /\ obs' = "alive"
  /\ mark' = NoMark /\ age' = -1 /\ stall' = FALSE
  /\ UNCHANGED <<del, told, machine, file>>

MainLoop ==
  /\ ~off
  /\ \/ /\ \/ AlivePass \/ Terminate \/ StopContainers \/ AfterStop \/ ListUnits \/ Poll
           \/ Decide \/ Flush \/ Flushed
        /\ UNCHANGED told
     \/ Post \/ Destroy \/ Poweroff \/ Parked
  /\ UNCHANGED <<del, spec>>

Next == Surroundings \/ MainLoop \/ (~off /\ Restart)

Spec == Init /\ [][Next]_vars

\* The main loop has its ticker, the stream reconnects, rclone goes on uploading, a
\* process that ended is started again, and repeated saves come to an end (module
\* Workspace, SaveConcludes).
FairSpec ==
  /\ Spec
  /\ WF_vars(MainLoop) /\ WF_vars(Surroundings /\ Intake) /\ SF_vars(Surroundings /\ SaveEnds)
  /\ \A d \in Disks : WF_vars(Surroundings /\ Upload(d))
  /\ WF_vars(~off /\ Restart /\ mpc = "exit")

-----------------------------------------------------------------------------
(* What must be true of it.                                                 *)

Settled == file \in {"synced", "destroying_self"}

\* Once the state file says synced the save is over, every unit is stopped and, if
\* the containers were stopped, every file is uploaded; whatever was interrupted,
\* unanswered or repeated before (finishSync polls, then stops the units, then writes).
SyncedIsComplete ==
  Settled => /\ save = "over"
             /\ \A d \in Disks : unit[d] = "stopped" /\ (~up => pend[d] = 0)

\* The machine is never off without the backend knowing that it may destroy it (the
\* main loop powers off only after a post that succeeded).
OffIsAnnounced == off => Settled /\ told = "synced"

\* There is no way back from synced: no restart, late spec or repeated pass starts the
\* work on the instance again (HandleTermination's first case).
NoReturn == [][Settled => Settled']_file

\* A stall that was reported stays reported until all is synced, for as long as the
\* process lives ("error must stay").
ErrorStays == [][stall /\ told = "error" => told' \in {"error", "synced"}]_told

\* No state of the end that was settled or told is taken back, by a later pass or process.
StatesHold == NoReturn /\ ErrorStays

\* After deletion is asked for the backend comes to know that all is synced, and is
\* told nothing else from then on.
Concludes == del ~> [](told = "synced")
=============================================================================
