--------------------------- MODULE ShutdownProofs ---------------------------
(***************************************************************************)
(* Theorems about Shutdown, for any disks, with and without a save, for    *)
(* any number of files, failures, lost reports and restarts.               *)
(***************************************************************************)
EXTENDS Shutdown, TLAPS

-----------------------------------------------------------------------------
(* The inductive invariant.                                                 *)

\* Names, flags and sets.
Names ==
  /\ del \in BOOLEAN /\ told \in States \cup {"nil"}
  /\ off \in BOOLEAN /\ up \in BOOLEAN /\ save \in {"open", "over"}
  /\ unit \in [Disks -> {"up", "failed", "stopped"}]
  /\ file \in States \cup {"destroying_self"} /\ spec \in {"nil", "keep", "delete"}
  /\ mpc \in {"idle", "parked", "stop", "save", "list", "poll", "flush", "post", "destroy",
              "poweroff", "exit"}
  /\ left \subseteq Disks /\ allWell \in BOOLEAN /\ obs \in States /\ stall \in BOOLEAN

\* Numbers; each file of a disk was written once.
Numbers ==
  /\ pend \in [Disks -> 0..MaxWrites] /\ done \in [Disks -> 0..MaxWrites]
  /\ writes \in 0..MaxWrites /\ \A d \in Disks : pend[d] + done[d] <= writes
  /\ sum \in Sums /\ mark \in Sums \cup {NoMark}
  /\ age \in -1..StallAfter /\ faults \in 0..MaxFaults

Working == {"stop", "save", "list", "poll", "flush"}

\* The work of the end is under way only after deletion, and no spec that keeps the
\* instance can come any more.
Ending ==
  /\ spec = "delete" => del
  /\ file # "alive" => del /\ spec # "keep"
  /\ mpc \in Working => file \in {"syncing", "error"}
  /\ stall => file # "alive" /\ save = "over"

\* What is known of the disks that were asked, and of those that were stopped.
Uploads ==
  /\ mpc \in {"list", "poll", "flush"} => save = "over"
  /\ mpc = "poll" /\ allWell /\ sum.pend = 0 /\ ~up => \A d \in Disks \ left : pend[d] = 0
  /\ mpc = "flush" /\ ~up => \A d \in Disks : pend[d] = 0
  /\ mpc = "flush" /\ allWell => \A d \in Disks \ left : unit[d] = "stopped"
  /\ SyncedIsComplete

\* What is to be told, and when the machine may go.
Telling ==
  /\ mpc = "post" => /\ Settled => obs = "synced"
                     /\ stall => obs \in {"error", "synced"}
  /\ mpc = "destroy" => file = "synced" /\ told = "synced"
  /\ mpc = "poweroff" => Settled /\ told = "synced"
  /\ OffIsAnnounced

IInv == Names /\ Numbers /\ Ending /\ Uploads /\ Telling

\* The initial states satisfy the invariant.
LEMMA InitIInv == Init => IInv
<1> SUFFICES ASSUME Init PROVE IInv
  OBVIOUS
<1>1. Names
  BY DEF Init, Names, States
<1>2. Numbers
  BY BoundsAssumption DEF Init, Numbers, Sums, NoSum, NoMark
<1>3. Ending /\ Telling
  BY DEF Init, Ending, Telling, Working, OffIsAnnounced
<1>4. Uploads
  BY DEF Init, Uploads, SyncedIsComplete, Settled
<1> QED
  BY <1>1, <1>2, <1>3, <1>4 DEF IInv

-----------------------------------------------------------------------------
(* What goes on around the main loop.                                       *)

\* It may change uploads only under units that run, and containers that do.
LEMMA SurroundingsKeep == IInv /\ Surroundings => IInv'
<1> SUFFICES ASSUME IInv, Surroundings PROVE IInv'
  OBVIOUS
<1> USE DEF machine, loop, watch
<1>1. UNCHANGED <<off, up, told, file, loop, mark, stall>>
  BY DEF Surroundings, RequestDeletion, Intake, Write, RcloneEnds, RcloneRestarts, SaveEnds,
     Tick, Upload
<1>2. Names'
  <2>1. del' \in BOOLEAN /\ spec' \in {"nil", "keep", "delete"} /\ save' \in {"open", "over"}
    BY DEF IInv, Names, Surroundings, RequestDeletion, Intake, Write, RcloneEnds,
       RcloneRestarts, SaveEnds, Tick, Upload
  <2>2. unit' \in [Disks -> {"up", "failed", "stopped"}]
    BY DEF IInv, Names, Surroundings, RequestDeletion, Intake, Write, RcloneEnds,
       RcloneRestarts, StartRclone, SaveEnds, Tick, Upload
  <2> QED
    BY <1>1, <2>1, <2>2 DEF IInv, Names
<1>3. Numbers'
  <2>1. CASE RequestDeletion \/ Intake \/ SaveEnds
    BY <1>1, <2>1 DEF IInv, Numbers, RequestDeletion, Intake, SaveEnds
  <2>2. CASE Write
    <3>1. PICK d \in Disks : pend' = [pend EXCEPT ![d] = @ + 1]
      BY <2>2 DEF Write
    <3>2. /\ writes' = writes + 1 /\ writes < MaxWrites
          /\ UNCHANGED <<done, sum, mark, age, faults>>
      BY <1>1, <2>2 DEF Write
    <3>3. \A e \in Disks : pend'[e] \in 0..MaxWrites /\ pend'[e] + done'[e] <= writes'
      BY <3>1, <3>2, BoundsAssumption DEF IInv, Numbers
    <3> QED
      BY <3>1, <3>2, <3>3, BoundsAssumption DEF IInv, Numbers
  <2>3. CASE \E d \in Disks : Upload(d)
    <3>1. PICK d \in Disks : /\ pend[d] > 0
                             /\ pend' = [pend EXCEPT ![d] = @ - 1]
                             /\ done' = [done EXCEPT ![d] = @ + 1]
      BY <2>3 DEF Upload
    <3>2. UNCHANGED <<writes, sum, mark, age, faults>>
      BY <1>1, <2>3 DEF Upload
    <3>3. \A e \in Disks : /\ pend'[e] \in 0..MaxWrites /\ done'[e] \in 0..MaxWrites
                           /\ pend'[e] + done'[e] <= writes'
      BY <3>1, <3>2, BoundsAssumption DEF IInv, Numbers
    <3> QED
      BY <3>1, <3>2, <3>3 DEF IInv, Numbers
  <2>4. CASE RcloneEnds
    BY <1>1, <2>4, BoundsAssumption DEF IInv, Numbers, RcloneEnds, Fault
  <2>5. CASE RcloneRestarts
    <3>1. PICK d \in Disks : done' = [done EXCEPT ![d] = 0]
      BY <2>5 DEF RcloneRestarts, StartRclone
    <3>2. UNCHANGED <<pend, writes, sum, mark, age, faults>>
      BY <1>1, <2>5 DEF RcloneRestarts
    <3>3. \A e \in Disks : done'[e] \in 0..MaxWrites /\ pend'[e] + done'[e] <= writes'
      BY <3>1, <3>2, BoundsAssumption DEF IInv, Numbers
    <3> QED
      BY <3>1, <3>2, <3>3 DEF IInv, Numbers
  <2>6. CASE Tick
    BY <1>1, <2>6, BoundsAssumption DEF IInv, Numbers, Tick
  <2> QED
    BY <2>1, <2>2, <2>3, <2>4, <2>5, <2>6 DEF Surroundings
<1>4. Ending' /\ (save = "over" => save' = "over")
  BY <1>1 DEF IInv, Names, Ending, Working, Surroundings, RequestDeletion, Intake, Write,
     RcloneEnds, RcloneRestarts, SaveEnds, Tick, Upload
<1>5. \A d \in Disks : unit[d] = "stopped" => unit'[d] = "stopped"
  BY DEF IInv, Names, Surroundings, RequestDeletion, Intake, Write, RcloneEnds,
     RcloneRestarts, StartRclone, SaveEnds, Tick, Upload
<1>6. \A d \in Disks : ~up /\ pend[d] = 0 => pend'[d] = 0
  BY DEF IInv, Numbers, Surroundings, RequestDeletion, Intake, Write, RcloneEnds,
     RcloneRestarts, SaveEnds, Tick, Upload
<1>7. Uploads'
  BY <1>1, <1>4, <1>5, <1>6 DEF IInv, Uploads, SyncedIsComplete, Settled
<1>8. Telling'
  BY <1>1 DEF IInv, Telling, OffIsAnnounced, Settled
<1> QED
  BY <1>2, <1>3, <1>4, <1>7, <1>8 DEF IInv

-----------------------------------------------------------------------------
(* The main loop.                                                           *)

\* Types, by every step of the main loop.
LEMMA LoopTypes == IInv /\ MainLoop => Names' /\ Numbers'
<1> SUFFICES ASSUME IInv, MainLoop PROVE Names' /\ Numbers'
  OBVIOUS
<1> USE DEF machine, loop, watch
<1>1. Names'
  <2>1. /\ del' = del /\ spec' = spec /\ save' = save
        /\ unit' \in [Disks -> {"up", "failed", "stopped"}]
    BY DEF IInv, Names, MainLoop, AlivePass, Terminate, StopContainers, AfterStop, ListUnits,
       Poll, StartRclone, Decide, Flush, Flushed, Post, Destroy, Poweroff, Parked
  <2>2. up' \in BOOLEAN /\ off' \in BOOLEAN /\ told' \in States \cup {"nil"}
    BY DEF IInv, Names, States, MainLoop, AlivePass, Terminate, StopContainers, AfterStop,
       ListUnits, Poll, Decide, Flush, Flushed, Post, Destroy, Poweroff, Parked
  <2>3. left' \subseteq Disks /\ allWell' \in BOOLEAN
    <3>1. left' \subseteq left \/ left' = Disks
      BY DEF MainLoop, AlivePass, Terminate, StopContainers, AfterStop, ListUnits, Poll,
         Decide, Flush, Flushed, Post, Destroy, Poweroff, Parked
    <3>2. allWell' = allWell \/ allWell' = TRUE \/ allWell' = FALSE
      BY DEF MainLoop, AlivePass, Terminate, StopContainers, AfterStop, ListUnits, Poll,
         Decide, Flush, Flushed, Post, Destroy, Poweroff, Parked
    <3> QED
      BY <3>1, <3>2 DEF IInv, Names
  <2>4. stall' \in BOOLEAN
    <3>1. stall' = stall \/ stall' = (age' >= StallAfter)
      BY DEF MainLoop, AlivePass, Terminate, StopContainers, AfterStop, ListUnits, Poll,
         Decide, Watch, Flush, Flushed, Post, Destroy, Poweroff, Parked
    <3>2. (age' >= StallAfter) \in BOOLEAN
      OBVIOUS
    <3>3. stall \in BOOLEAN
      BY DEF IInv, Names
    <3> QED
      BY <3>1, <3>2, <3>3
  <2>5. /\ file' \in States \cup {"destroying_self"} /\ obs' \in States
        /\ mpc' \in {"idle", "parked", "stop", "save", "list", "poll", "flush", "post",
                     "destroy", "poweroff", "exit"}
    BY DEF IInv, Names, States, SetState, Report, Syncing, MainLoop, AlivePass, Terminate,
       StopContainers, AfterStop, ListUnits, Poll, Decide, Flush, Flushed, Post, Destroy,
       Poweroff, Parked
  <2> QED
    BY <2>1, <2>2, <2>3, <2>4, <2>5 DEF IInv, Names
<1>2. Numbers'
  <2>1. pend' = pend /\ writes' = writes
    BY DEF MainLoop, AlivePass, Terminate, StopContainers, AfterStop, ListUnits, Poll, Decide,
       Flush, Flushed, Post, Destroy, Poweroff, Parked
  <2>2. done' = done \/ \E d \in Disks : done' = [done EXCEPT ![d] = 0]
    BY DEF IInv, Names, MainLoop, AlivePass, Terminate, StopContainers, AfterStop, ListUnits,
       Poll, StartRclone, Decide, Flush, Flushed, Post, Destroy, Poweroff, Parked
  <2>3. /\ done' \in [Disks -> 0..MaxWrites]
        /\ \A d \in Disks : pend'[d] + done'[d] <= writes'
    BY <2>1, <2>2, BoundsAssumption DEF IInv, Numbers
  <2>4. \/ sum' = sum \/ sum' = NoSum
        \/ \E d \in Disks : sum' = [pend |-> sum.pend + pend[d], done |-> sum.done + done[d]]
    BY DEF IInv, Names, MainLoop, AlivePass, Terminate, StopContainers, AfterStop, ListUnits,
       Poll, Decide, Flush, Flushed, Post, Destroy, Poweroff, Parked
  <2>5. sum' \in Sums
    BY <2>4, BoundsAssumption DEF IInv, Numbers, Sums, NoSum
  <2>6. mark' \in {mark, sum} /\ age' \in {age, 0}
    BY DEF MainLoop, AlivePass, Terminate, StopContainers, AfterStop, ListUnits,
       Poll, Decide, Watch, Flush, Flushed, Post, Destroy, Poweroff, Parked
  <2>7. faults' = faults \/ Fault
    BY DEF Well, SetState, MainLoop, AlivePass, Terminate, StopContainers, AfterStop,
       ListUnits, Poll, Decide, Flush, Flushed, Post, Destroy, Poweroff, Parked
  <2>8. age' \in -1..StallAfter /\ faults' \in 0..MaxFaults
    BY <2>6, <2>7, BoundsAssumption DEF IInv, Numbers, Fault
  <2> QED
    BY <2>1, <2>3, <2>5, <2>6, <2>8 DEF IInv, Numbers
<1> QED
  BY <1>1, <1>2

\* A pass up to the first look at uploads.
LEMMA PassKeeps ==
  ASSUME IInv, UNCHANGED <<told, del, spec>>,
         AlivePass \/ Terminate \/ StopContainers \/ AfterStop \/ ListUnits
  PROVE  Ending' /\ Uploads' /\ Telling'
<1> USE DEF machine, loop, watch
<1>1. UNCHANGED <<off, save, unit, pend, stall>>
  BY DEF AlivePass, Terminate, StopContainers, AfterStop, ListUnits
<1>2. Ending' /\ Telling'
  BY <1>1 DEF IInv, Names, Ending, Working, Telling, OffIsAnnounced, Settled, SetState, Report,
     Syncing, AlivePass, Terminate, StopContainers, AfterStop, ListUnits
<1>3. Settled' => Settled /\ up' = up
  BY DEF IInv, Names, Ending, Working, Settled, SetState, AlivePass, Terminate, StopContainers,
     AfterStop, ListUnits
<1>4. SyncedIsComplete'
  BY <1>1, <1>3 DEF IInv, Uploads, SyncedIsComplete
<1>5. mpc' # "flush" /\ (mpc' = "poll" => left' = Disks) /\ (mpc' = "list" => save = "over")
  BY DEF IInv, Names, Report, AlivePass, Terminate, StopContainers, AfterStop, ListUnits
<1>6. mpc' = "poll" => save = "over"
  BY DEF IInv, Uploads, Report, AlivePass, Terminate, StopContainers, AfterStop, ListUnits
<1> QED
  BY <1>1, <1>2, <1>4, <1>5, <1>6 DEF Uploads

\* Uploads are asked for, disk by disk.
LEMMA PollKeeps ==
  ASSUME IInv, UNCHANGED <<told, del, spec>>, Poll
  PROVE  Ending' /\ Uploads' /\ Telling'
<1> USE DEF machine, loop, watch
<1>1. /\ UNCHANGED <<off, up, save, pend, file, mpc, obs, stall>>
      /\ mpc = "poll" /\ file \in {"syncing", "error"}
  BY DEF Poll, IInv, Ending, Working
<1>2. Ending' /\ Telling'
  BY <1>1 DEF IInv, Ending, Telling, OffIsAnnounced, Settled
<1>3. ASSUME allWell', sum'.pend = 0, ~up
      PROVE  \A d \in Disks \ left' : pend[d] = 0
  <2>1. PICK d \in left :
          /\ left' = left \ {d}
          /\ sum' = [pend |-> sum.pend + pend[d], done |-> sum.done + done[d]]
          /\ UNCHANGED allWell
    BY <1>3 DEF Poll
  <2>2. sum.pend \in Nat /\ pend[d] \in Nat /\ sum.pend + pend[d] = 0
    BY <1>3, <2>1, BoundsAssumption DEF IInv, Names, Numbers, Sums
  <2>3. sum.pend = 0 /\ pend[d] = 0
    BY <2>2
  <2> QED
    BY <1>1, <1>3, <2>1, <2>3 DEF IInv, Uploads
<1>4. SyncedIsComplete'
  BY <1>1 DEF SyncedIsComplete, Settled
<1> QED
  BY <1>1, <1>2, <1>3, <1>4 DEF IInv, Uploads

\* All disks were asked: units are stopped, or the stall watch looks at the sums.
LEMMA DecideKeeps ==
  ASSUME IInv, UNCHANGED <<told, del, spec>>, Decide
  PROVE  Ending' /\ Uploads' /\ Telling'
<1> USE DEF machine, loop, watch
<1>1. /\ UNCHANGED <<off, up, save, pend, unit, sum, allWell>>
      /\ mpc = "poll" /\ left = {} /\ file \in {"syncing", "error"} /\ save = "over"
  BY DEF Decide, IInv, Ending, Working, Uploads
<1>2. CASE allWell /\ sum.pend = 0
  <2>1. mpc' = "flush" /\ left' = Disks /\ UNCHANGED <<file, obs, watch>>
    BY <1>2 DEF Decide
  <2>2. ~up => \A d \in Disks : pend[d] = 0
    BY <1>1, <1>2 DEF IInv, Uploads
  <2>3. Ending' /\ Telling'
    BY <1>1, <2>1 DEF IInv, Ending, Telling, Working, OffIsAnnounced, Settled
  <2> QED
    BY <1>1, <2>1, <2>2, <2>3 DEF IInv, Uploads, SyncedIsComplete, Settled
<1>3. CASE ~(allWell /\ sum.pend = 0)
  <2>1. /\ mpc' = "post" /\ file' \in {"syncing", "error"}
        /\ stall' => obs' = "error"
    BY <1>1, <1>3 DEF Decide, SetState, Report
  <2>2. Ending'
    BY <1>1, <2>1 DEF IInv, Ending, Working
  <2>3. Telling'
    BY <1>1, <2>1 DEF IInv, Telling, OffIsAnnounced, Settled
  <2>4. Uploads'
    BY <1>1, <2>1 DEF Uploads, SyncedIsComplete, Settled
  <2> QED
    BY <2>2, <2>3, <2>4
<1> QED
  BY <1>2, <1>3

\* Units are stopped one after the other, and the end of it is written down.
LEMMA FlushKeeps ==
  ASSUME IInv, UNCHANGED <<told, del, spec>>, Flush \/ Flushed
  PROVE  Ending' /\ Uploads' /\ Telling'
<1> USE DEF machine, loop, watch
<1>1. /\ UNCHANGED <<off, up, save, pend, stall>>
      /\ mpc = "flush" /\ file \in {"syncing", "error"} /\ save = "over"
      /\ ~up => \A d \in Disks : pend[d] = 0
  BY DEF Flush, Flushed, IInv, Ending, Working, Uploads
<1>2. CASE Flush
  <2>1. UNCHANGED <<file, mpc, obs>>
    BY <1>2 DEF Flush
  <2>2. ASSUME allWell' PROVE \A d \in Disks \ left' : unit'[d] = "stopped"
    <3>1. PICK d \in left : /\ left' = left \ {d} /\ UNCHANGED allWell
                            /\ unit' = [unit EXCEPT ![d] = "stopped"]
      BY <1>2, <2>2 DEF Flush
    <3>2. \A e \in Disks \ left : unit[e] = "stopped"
      BY <1>1, <2>2, <3>1 DEF IInv, Uploads
    <3> QED
      BY <3>1, <3>2 DEF IInv, Names
  <2>3. Ending' /\ Telling'
    BY <1>1, <2>1 DEF IInv, Ending, Telling, OffIsAnnounced, Settled
  <2> QED
    BY <1>1, <2>1, <2>2, <2>3 DEF IInv, Uploads, SyncedIsComplete, Settled
<1>3. CASE Flushed
  <2>1. mpc' = "post" /\ left = {} /\ unit' = unit
    BY <1>3 DEF Flushed, Report
  <2>2. CASE allWell
    <3>1. file' \in {"synced", "syncing", "error"} /\ obs' = "synced"
      BY <1>1, <1>3, <2>2 DEF Flushed, SetState, Report
    <3>2. \A d \in Disks : unit[d] = "stopped"
      BY <1>1, <2>1, <2>2 DEF IInv, Uploads
    <3>3. Ending'
      BY <1>1, <2>1, <3>1 DEF IInv, Ending, Working
    <3>4. Telling'
      BY <1>1, <2>1, <3>1 DEF IInv, Telling, OffIsAnnounced, Settled
    <3>5. Uploads'
      BY <1>1, <2>1, <3>2 DEF Uploads, SyncedIsComplete
    <3> QED
      BY <3>3, <3>4, <3>5
  <2>3. CASE ~allWell
    <3>1. file' = file /\ (stall => obs' = "error")
      BY <1>3, <2>3 DEF Flushed, Report, Syncing
    <3>2. Ending' /\ Telling'
      BY <1>1, <2>1, <3>1 DEF IInv, Ending, Telling, Working, OffIsAnnounced, Settled
    <3>3. Uploads'
      BY <1>1, <2>1, <3>1 DEF Uploads, SyncedIsComplete, Settled
    <3> QED
      BY <3>2, <3>3
  <2> QED
    BY <2>2, <2>3
<1> QED
  BY <1>2, <1>3

\* The backend is told, and the machine goes off.
LEMMA EndKeeps ==
  ASSUME IInv, UNCHANGED <<del, spec>>, Post \/ Destroy \/ Poweroff \/ Parked
  PROVE  Ending' /\ Uploads' /\ Telling'
<1> USE DEF machine, loop, watch
<1>1. /\ UNCHANGED <<up, save, pend, unit, stall>>
      /\ Settled' = Settled
      /\ mpc' \in {"idle", "destroy", "poweroff", "exit"} \/ UNCHANGED loop
  BY DEF IInv, Telling, Settled, SetState, Post, Destroy, Poweroff, Parked
<1>2. Ending'
  BY <1>1 DEF IInv, Ending, Working, Telling, Settled, SetState, Post, Destroy, Poweroff, Parked
<1>3. Uploads'
  BY <1>1 DEF IInv, Uploads, SyncedIsComplete
<1>4. Telling'
  BY <1>1 DEF IInv, Telling, OffIsAnnounced, Settled, SetState, Post, Destroy, Poweroff, Parked
<1> QED
  BY <1>2, <1>3, <1>4

-----------------------------------------------------------------------------
(* Every step.                                                              *)

\* A process that starts has the state file only.
LEMMA RestartKeeps == IInv /\ ~off /\ Restart => IInv'
<1> SUFFICES ASSUME IInv, ~off, Restart PROVE IInv'
  OBVIOUS
<1> USE DEF machine
<1>1. /\ UNCHANGED <<del, told, machine, file>> /\ off' = FALSE
      /\ mpc' \in {"parked", "idle"} /\ spec' = "nil" /\ left' = {} /\ sum' = NoSum
      /\ allWell' = TRUE /\ obs' = "alive" /\ mark' = NoMark /\ age' = -1 /\ stall' = FALSE
      /\ faults' = faults \/ Fault
  BY DEF Restart, Well, IInv, Names
<1>2. Names'
  BY <1>1 DEF IInv, Names, States
<1>3. Numbers'
  BY <1>1, BoundsAssumption DEF IInv, Numbers, Sums, NoSum, Fault
<1>4. Ending' /\ Telling'
  BY <1>1 DEF IInv, Ending, Working, Telling, OffIsAnnounced
<1>5. Uploads'
  BY <1>1 DEF IInv, Uploads, SyncedIsComplete, Settled
<1> QED
  BY <1>2, <1>3, <1>4, <1>5 DEF IInv

\* Every step, and a stutter, keeps the invariant.
LEMMA StepIInv == IInv /\ [Next]_vars => IInv'
<1> SUFFICES ASSUME IInv, [Next]_vars PROVE IInv'
  OBVIOUS
<1>1. CASE Surroundings
  BY <1>1, SurroundingsKeep
<1>2. CASE MainLoop
  <2>1. Names' /\ Numbers'
    BY <1>2, LoopTypes
  <2>2. Ending' /\ Uploads' /\ Telling'
    BY <1>2, PassKeeps, PollKeeps, DecideKeeps, FlushKeeps, EndKeeps DEF MainLoop
  <2> QED
    BY <2>1, <2>2 DEF IInv
<1>3. CASE ~off /\ Restart
  BY <1>3, RestartKeeps
<1>4. CASE UNCHANGED vars
  BY <1>4 DEF vars, machine, loop, watch, IInv, Names, Numbers, Ending, Uploads, Telling,
     SyncedIsComplete, OffIsAnnounced, Settled
<1> QED
  BY <1>1, <1>2, <1>3, <1>4 DEF Next

\* What HandleTermination has established at each of its steps, and what a crash leaves
\* of it, hold at all times.
THEOREM Invariance == Spec => []IInv
<1>1. Init => IInv
  BY InitIInv
<1>2. IInv /\ [Next]_vars => IInv'
  BY StepIInv
<1> QED
  BY <1>1, <1>2, PTL DEF Spec

\* Every variable keeps its type; the stall watch stops at its limit (watch).
THEOREM TypeCorrect == Spec => []TypeOK
<1>1. IInv => TypeOK
  BY DEF IInv, Names, Numbers, TypeOK
<1> QED
  BY <1>1, Invariance, PTL

\* What the state file calls synced is saved, uploaded and stopped (finishSync).
THEOREM SyncedComplete == Spec => []SyncedIsComplete
<1>1. IInv => SyncedIsComplete
  BY DEF IInv, Uploads
<1> QED
  BY <1>1, Invariance, PTL

\* The machine powers itself off only when the backend knows (Run, powerOff).
THEOREM OffAnnounced == Spec => []OffIsAnnounced
<1>1. IInv => OffIsAnnounced
  BY DEF IInv, Telling
<1> QED
  BY <1>1, Invariance, PTL

\* Neither synced in the file nor a stall that was told is taken back
\* (HandleTermination, syncing).
THEOREM StatesKept == Spec => StatesHold
<1>1. IInv /\ [Next]_vars => [Settled => Settled']_file
  <2> SUFFICES ASSUME IInv, [Next]_vars, file' # file, Settled PROVE Settled'
    OBVIOUS
  <2> USE DEF machine, loop, watch
  <2>1. MainLoop
    BY DEF Next, vars, Surroundings, Restart
  <2>2. spec # "keep" /\ mpc \notin Working
    BY DEF IInv, Ending, Settled
  <2> QED
    BY <2>1, <2>2 DEF MainLoop, Working, AlivePass, Terminate, StopContainers, AfterStop,
       ListUnits, Poll, Decide, Flush, Flushed, Post, Destroy, Poweroff, Parked, SetState, Settled
<1>2. IInv /\ [Next]_vars => [stall /\ told = "error" => told' \in {"error", "synced"}]_told
  <2> SUFFICES ASSUME IInv, [Next]_vars, told' # told, stall, told = "error"
               PROVE  told' \in {"error", "synced"}
    OBVIOUS
  <2>1. Post \/ Parked
    BY DEF Next, vars, Surroundings, Restart, MainLoop, Destroy, Poweroff
  <2> QED
    BY <2>1 DEF Post, Parked, IInv, Telling
<1>3. Spec => NoReturn
  BY <1>1, Invariance, PTL DEF Spec, NoReturn
<1>4. Spec => ErrorStays
  BY <1>2, Invariance, PTL DEF Spec, ErrorStays
<1> QED
  BY <1>3, <1>4 DEF StatesHold
=============================================================================
