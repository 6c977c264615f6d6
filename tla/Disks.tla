------------------------------- MODULE Disks -------------------------------
(***************************************************************************)
(* Mounting and unmounting disks, as internal/disk does for the passes of  *)
(* internal/agent. A disk is a systemd unit that runs rclone, a storage    *)
(* key in rclone's config and a file with the address of rclone's remote   *)
(* control. A disk that is no longer wanted is unmounted when rclone has   *)
(* uploaded what was written to it, or when that has taken flushLimit.     *)
(*                                                                         *)
(* Left out: direct mode, mount paths (a disk keeps its own), quotas, and  *)
(* the deletion of the instance, which module Shutdown is about.           *)
(*                                                                         *)
(* A definition introduced as "a mutant" is no part of the specification:  *)
(* it is a plausible mistake in the definition after it, which one of the  *)
(* properties must notice when it takes its place.                         *)
(***************************************************************************)
EXTENDS Naturals, FiniteSets

CONSTANTS
  Drives,      \* the disks
  FlushLimit,  \* ticks after which a disk is unmounted whatever it uploads (flushLimit)
  UnmountGap,  \* ticks without an attempt after which waiting begins anew (unmountGap)
  KeyRetry,    \* ticks between two requests for a key by failed mounts (keyRetryEvery)
  MaxWishes,   \* bound on how often the backend changes its mind
  MaxDeaths,   \* bound on rclones that end by themselves
  MaxFaults    \* bound on failing commands, revoked keys, slow passes and crashes

ASSUME DrivesAssumption == IsFiniteSet(Drives)
ASSUME LimitsAssumption ==
  /\ FlushLimit \in Nat \ {0} /\ UnmountGap \in Nat /\ KeyRetry \in Nat
  /\ MaxWishes \in Nat /\ MaxDeaths \in Nat /\ MaxFaults \in Nat

\* One rc port more than there are disks.
Ports  == 1..(Cardinality(Drives) + 1)
NoPort == 0

VARIABLES
  \* the backend: the disks it wants mounted
  want,
  \* the machine, by disk: the unit file, whether systemd knows it, the storage key, the
  \* rc port in the environment file
  file, loaded, key, env,
  \* its rclone ("cut": it runs with a key that was revoked), the port it listens at,
  \* whether it has files to upload
  unit, port, pend,
  \* the process: since when a disk is waited for and when it was last tried; when its
  \* key was last asked for
  since, seen, asked,
  \* the main loop: where it is, what is left of this pass, the disk at work, whether
  \* its mount is tried for the second time
  mpc, todo, at, again,
  wishes, deaths, faults,
  \* history: for how many ticks, counted from one, this process has been trying to unmount
  \* a disk; whether the disk was written to since its uploads were last looked at
  trying, fresh

disk   == <<file, loaded, key, env>>
rclone == <<unit, port, pend>>
memory == <<since, seen, asked>>
bounds == <<wishes, deaths, faults>>
ghosts == <<trying, fresh>>
vars   == <<want, disk, rclone, memory, mpc, todo, at, again, bounds, ghosts>>

Running == {d \in Drives : unit[d] \in {"up", "cut"}}
Never   == UnmountGap + 1
MountPcs   == {"key", "rc", "unit", "start", "check", "failed"}
UnmountPcs == {"active", "wait", "poll", "stop", "dropKey", "dropUnit", "dropEnv", "reload"}

TypeOK ==
  /\ want \subseteq Drives
  /\ file \subseteq Drives /\ loaded \subseteq Drives
  /\ key \in [Drives -> {"none", "good", "revoked"}] /\ env \in [Drives -> Ports \cup {NoPort}]
  /\ unit \in [Drives -> {"stopped", "restarting", "up", "cut"}]
  /\ port \in [Drives -> Ports \cup {NoPort}] /\ pend \subseteq Drives
  /\ \A d \in Drives : d \in Running <=> port[d] # NoPort
  /\ since \in [Drives -> 0..FlushLimit] /\ seen \in [Drives -> 0..Never]
  /\ asked \in [Drives -> 0..KeyRetry]
  /\ mpc \in {"idle", "next"} \cup MountPcs \cup UnmountPcs
  /\ todo \subseteq Drives \X {"mount", "unmount"} /\ at \in Drives /\ again \in BOOLEAN
  /\ mpc \in MountPcs \ {"key"} => key[at] # "none"
  /\ wishes \in 0..MaxWishes /\ deaths \in 0..MaxDeaths /\ faults \in 0..MaxFaults
  /\ trying \in [Drives -> 0..FlushLimit + 1] /\ fresh \subseteq Drives

Init ==
  /\ want = Drives
  /\ file = {} /\ loaded = {} /\ key = [d \in Drives |-> "none"] /\ env = [d \in Drives |-> NoPort]
  /\ unit = [d \in Drives |-> "stopped"] /\ port = [d \in Drives |-> NoPort] /\ pend = {}
  /\ since = [d \in Drives |-> 0] /\ seen = [d \in Drives |-> Never]
  /\ asked = [d \in Drives |-> KeyRetry]
  /\ mpc = "idle" /\ todo = {} /\ at \in Drives /\ again = FALSE
  /\ wishes = 0 /\ deaths = 0 /\ faults = 0
  /\ trying = [d \in Drives |-> 0] /\ fresh = {}

Fault == faults < MaxFaults /\ faults' = faults + 1
Well  == UNCHANGED faults

Stops(d, state) == unit' = [unit EXCEPT ![d] = state] /\ port' = [port EXCEPT ![d] = NoPort]

-----------------------------------------------------------------------------
(* The backend, the users, rclone and systemd.                              *)

Wish ==
  /\ wishes < MaxWishes /\ wishes' = wishes + 1
  /\ \E d \in Drives : want' = IF d \in want THEN want \ {d} ELSE want \cup {d}
  /\ UNCHANGED <<disk, rclone, deaths, faults, fresh>>

Revoke ==
  /\ Fault
  /\ \E d \in Drives :
       /\ key[d] = "good" /\ key' = [key EXCEPT ![d] = "revoked"]
       /\ unit' = [unit EXCEPT ![d] = IF @ = "up" THEN "cut" ELSE @]
  /\ UNCHANGED <<want, file, loaded, env, port, pend, wishes, deaths, fresh>>

Write ==
  /\ \E d \in Running \ pend : pend' = pend \cup {d} /\ fresh' = fresh \cup {d}
  /\ UNCHANGED <<want, disk, unit, port, bounds>>

Upload ==
  /\ \E d \in pend : unit[d] = "up" /\ pend' = pend \ {d}
  /\ UNCHANGED <<want, disk, unit, port, bounds, fresh>>

Dies ==
  /\ deaths < MaxDeaths /\ deaths' = deaths + 1
  /\ \E d \in Running : \E state \in {"stopped", "restarting"} : Stops(d, state)
  /\ UNCHANGED <<want, disk, pend, wishes, faults, fresh>>

\* What a start of the unit comes to. rclone needs its environment and a key; it may
\* fail over one that was revoked, or run without being able to upload.
Starts(d) ==
  \/ /\ key[d] # "none" /\ env[d] # NoPort
     /\ unit' = [unit EXCEPT ![d] = IF key[d] = "good" THEN "up" ELSE "cut"]
     /\ port' = [port EXCEPT ![d] = env[d]]
  \/ (key[d] # "good" \/ env[d] = NoPort) /\ Stops(d, "restarting")

Respawns ==
  /\ \E d \in loaded : unit[d] = "restarting" /\ Starts(d) /\ port'[d] # NoPort
  /\ UNCHANGED <<want, disk, pend, bounds, fresh>>

Older(f, top) == [d \in Drives |-> IF f[d] < top THEN f[d] + 1 ELSE top]

\* The next pass has been in time for every disk that is waited for.
Punctual == \A d \in file \ want : seen[d] # UnmountGap

\* Passes follow one another within UnmountGap, as the ticker is far quicker, but for one
\* that is slow by a fault: an image pull alone may take longer (pullTimeout).
Tick ==
  /\ (Punctual /\ Well) \/ (~Punctual /\ Fault)
  /\ since' = Older(since, FlushLimit) /\ seen' = Older(seen, Never)
  /\ asked' = Older(asked, KeyRetry)
  /\ trying' = [d \in Drives |-> IF trying[d] = 0 THEN 0 ELSE Older(trying, FlushLimit + 1)[d]]
  /\ UNCHANGED <<want, disk, rclone, mpc, todo, at, again, wishes, deaths, fresh>>

Surroundings ==
  /\ Wish \/ Revoke \/ Write \/ Upload \/ Dies \/ Respawns
  /\ UNCHANGED <<memory, mpc, todo, at, again, trying>>

-----------------------------------------------------------------------------
(* A pass.                                                                  *)

machine == <<disk, rclone, memory, trying, fresh>>

\* The disks are looked at once, before the first is mounted or unmounted. One whose
\* unit does not answer counts as not mounted; when units cannot be listed, all do.
BeginPass ==
  /\ mpc = "idle" /\ mpc' = "next"
  /\ \/ \E mounted \in SUBSET (file \cap Running) :
          /\ IF mounted = file \cap Running THEN Well ELSE Fault
          /\ todo' = ((want \ mounted) \X {"mount"}) \cup ((file \ want) \X {"unmount"})
     \/ Fault /\ todo' = want \X {"mount"}
  /\ UNCHANGED <<machine, at, again>>

\* The action on a disk ends, with an error or without.
Done == mpc' = "next"

NextDisk ==
  /\ mpc = "next"
  /\ \/ todo = {} /\ mpc' = "idle" /\ UNCHANGED <<todo, at, again>>
     \/ \E t \in todo :
          /\ todo' = todo \ {t} /\ at' = t[1] /\ again' = FALSE
          /\ mpc' = IF t[2] = "mount" THEN "key" ELSE "active"
  /\ UNCHANGED <<machine, faults>>

\* renewRemote: the request is noted before it is made.
AskKey(next) ==
  /\ asked' = [asked EXCEPT ![at] = 0]
  /\ \/ Well /\ key' = [key EXCEPT ![at] = "good"] /\ mpc' = next
     \/ Fault /\ UNCHANGED key /\ Done

EnsureRemote ==
  /\ mpc = "key"
  /\ \/ key[at] = "none" /\ AskKey("rc")
     \/ key[at] # "none" /\ mpc' = "rc" /\ Well /\ UNCHANGED <<key, asked>>
     \/ Fault /\ Done /\ UNCHANGED <<key, asked>>
  /\ UNCHANGED <<file, loaded, env, rclone, since, seen, trying, fresh, todo, at, again>>

\* A mutant: the other disks' environment files are not looked at.
FreePortOfListeners == {p \in Ports : \A e \in Drives : port[e] # p}

\* Ports in an environment file or listened at are passed over.
FreePort == {p \in Ports : \A e \in Drives : env[e] # p /\ port[e] # p}

EnsureRc ==
  /\ mpc = "rc"
  /\ \/ env[at] # NoPort /\ Well /\ mpc' = "unit" /\ UNCHANGED env
     \/ /\ env[at] = NoPort /\ Well /\ FreePort # {} /\ mpc' = "unit"
        /\ env' = [env EXCEPT ![at] = CHOOSE p \in FreePort : \A q \in FreePort : p <= q]
     \/ env[at] = NoPort /\ (Fault \/ (FreePort = {} /\ Well)) /\ mpc' = "failed" /\ UNCHANGED env
  /\ UNCHANGED <<file, loaded, key, rclone, memory, trying, fresh, todo, at, again>>

\* The unit is written if it is not there as it should be, and systemd told.
WriteUnit ==
  /\ mpc = "unit"
  /\ \/ Well /\ file' = file \cup {at} /\ loaded' = loaded \cup {at} /\ mpc' = "start"
     \/ Fault /\ at \notin file /\ file' \in {file, file \cup {at}} /\ UNCHANGED loaded /\ mpc' = "failed"
  /\ UNCHANGED <<key, env, rclone, memory, trying, fresh, todo, at, again>>

StartUnit ==
  /\ mpc = "start"
  /\ \/ Well /\ at \in Running /\ mpc' = "check" /\ UNCHANGED <<unit, port>>
     \/ Well /\ at \notin Running /\ Starts(at) /\ mpc' = IF port'[at] # NoPort THEN "check" ELSE "failed"
     \/ Fault /\ mpc' = "failed" /\ UNCHANGED <<unit, port>>
  /\ UNCHANGED <<disk, pend, memory, trying, fresh, todo, at, again>>

\* A unit whose state is unknown ends the mount: its key is not renewed.
CheckUnit ==
  /\ mpc = "check"
  /\ \/ Well /\ IF at \in Running THEN Done ELSE mpc' = "failed"
     \/ Fault /\ Done
  /\ UNCHANGED <<machine, todo, at, again>>

\* A first try that failed asks for a new key, if that is due, and mounts once more.
RetryMount ==
  /\ mpc = "failed"
  /\ IF ~again /\ asked[at] = KeyRetry
     THEN AskKey("rc") /\ again' = TRUE
     ELSE Done /\ Well /\ UNCHANGED <<key, asked, again>>
  /\ UNCHANGED <<file, loaded, env, rclone, since, seen, trying, fresh, todo, at>>

-----------------------------------------------------------------------------
(* Unmounting.                                                              *)

LookActive ==
  /\ mpc = "active"
  /\ \/ Well /\ mpc' = IF at \in Running THEN "wait" ELSE "dropKey"
     \/ Fault /\ Done
  /\ UNCHANGED <<machine, todo, at, again>>

\* A mutant: every attempt begins to wait anew.
Waited0 == 0

\* How long the disk has been waited for. An attempt after a gap is the first again.
Waited == IF seen[at] > UnmountGap THEN 0 ELSE since[at]

\* flushing, up to its look at the limit.
Wait ==
  /\ mpc = "wait" /\ mpc' = IF Waited = FlushLimit THEN "stop" ELSE "poll"
  /\ since' = [since EXCEPT ![at] = Waited] /\ seen' = [seen EXCEPT ![at] = 0]
  /\ trying' = [trying EXCEPT ![at] = IF @ = 0 THEN 1 ELSE @]
  /\ UNCHANGED <<disk, rclone, asked, fresh, faults, todo, at, again>>

\* A mutant: uploads that are unknown count as none.
PollUnknown ==
  /\ mpc = "poll" /\ fresh' = fresh \ {at}
  /\ \/ Well /\ mpc' = IF at \in pend THEN "next" ELSE "stop"
     \/ Fault /\ mpc' = "stop"
  /\ UNCHANGED <<disk, rclone, memory, trying, todo, at, again>>

\* Uploads asks rclone where the environment file says it listens. With uploads that
\* wait or are unknown the unmount is postponed. (An answer without a diskCache would count
\* as none; rclone gives it when it has no write cache, and the unit asks for one.)
Poll ==
  /\ mpc = "poll" /\ fresh' = fresh \ {at}
  /\ \/ Well /\ port[at] # NoPort /\ port[at] = env[at] /\ at \notin pend /\ mpc' = "stop"
     \/ Well /\ (port[at] = NoPort \/ port[at] # env[at] \/ at \in pend) /\ Done
     \/ Fault /\ Done
  /\ UNCHANGED <<disk, rclone, memory, trying, todo, at, again>>

StopUnit ==
  /\ mpc = "stop"
  /\ \/ Well /\ Stops(at, "stopped") /\ mpc' = "dropKey"
     \/ Fault /\ (UNCHANGED <<unit, port>> \/ Stops(at, "stopped")) /\ Done
  /\ UNCHANGED <<disk, pend, memory, trying, fresh, todo, at, again>>

\* The wait is over, and the key goes first; with it, when it was last asked for.
DropKey ==
  /\ mpc = "dropKey" /\ seen' = [seen EXCEPT ![at] = Never] /\ since' = [since EXCEPT ![at] = 0]
  /\ trying' = [trying EXCEPT ![at] = 0]
  /\ asked' \in {asked, IF key[at] = "none" THEN asked ELSE [asked EXCEPT ![at] = KeyRetry]}
  /\ \/ /\ Well /\ key' = [key EXCEPT ![at] = "none"] /\ mpc' = "dropUnit"
        /\ key[at] # "none" => asked'[at] = KeyRetry
     \/ Fault /\ UNCHANGED key /\ Done
  /\ UNCHANGED <<file, loaded, env, rclone, fresh, todo, at, again>>

DropUnit ==
  /\ mpc = "dropUnit"
  /\ \/ Well /\ file' = file \ {at} /\ mpc' = "dropEnv"
     \/ Fault /\ UNCHANGED file /\ Done
  /\ UNCHANGED <<loaded, key, env, rclone, memory, trying, fresh, todo, at, again>>

DropEnv ==
  /\ mpc = "dropEnv"
  /\ \/ Well /\ env' = [env EXCEPT ![at] = NoPort] /\ mpc' = "reload"
     \/ Fault /\ UNCHANGED env /\ Done
  /\ UNCHANGED <<file, loaded, key, rclone, memory, trying, fresh, todo, at, again>>

\* systemd forgets the unit, and starts it no more.
Reload ==
  /\ mpc = "reload" /\ Done
  /\ (Well /\ loaded' = file) \/ (Fault /\ UNCHANGED loaded)
  /\ UNCHANGED <<file, key, env, rclone, memory, trying, fresh, todo, at, again>>

Mounting == EnsureRemote \/ EnsureRc \/ WriteUnit \/ StartUnit \/ CheckUnit \/ RetryMount

Unmounting ==
  LookActive \/ Wait \/ Poll \/ StopUnit \/ DropKey \/ DropUnit \/ DropEnv \/ Reload

MainLoop ==
  /\ BeginPass \/ NextDisk \/ Mounting \/ Unmounting
  /\ UNCHANGED <<want, wishes, deaths>>

\* The process is killed and started again; the units go on.
Restart ==
  /\ Fault
  /\ since' = [d \in Drives |-> 0] /\ seen' = [d \in Drives |-> Never]
  /\ asked' = [d \in Drives |-> KeyRetry] /\ trying' = [d \in Drives |-> 0]
  /\ mpc' = "idle" /\ todo' = {} /\ again' = FALSE
  /\ UNCHANGED <<want, disk, rclone, at, wishes, deaths, fresh>>

Next == Surroundings \/ Tick \/ MainLoop \/ Restart

Spec == Init /\ [][Next]_vars

\* The ticker wakes the main loop, systemd restarts what failed, time passes.
FairSpec == Spec /\ WF_vars(MainLoop) /\ WF_vars(Surroundings /\ Respawns) /\ WF_vars(Tick)
-----------------------------------------------------------------------------
(* What must be true of it.                                                 *)

\* No disk is asked about, or waited for, at the rclone of another: the ports of those
\* that run differ, and no environment file names the port of another's (freeRcPort,
\* ensureRc: "each disk needs its own rc port and password").
PortsAreOwn ==
  \A d \in Drives, e \in Running :
    d # e => port[d] # port[e] /\ env[d] # port[e]

\* A disk is stopped with uploads waiting only when it was written to after they were
\* looked at, or this process has been trying to unmount it for FlushLimit ("unmount with
\* uploads in flight must wait").
WaitsForUploads ==
  [][mpc = "stop" /\ at \in Running /\ unit'[at] = "stopped" /\ at \in pend
       => at \in fresh \/ trying[at] > FlushLimit]_<<mpc, unit>>

\* No key is taken from a disk with uploads waiting otherwise either: they could not be
\* finished ("key removed while the drive uploads its cache").
KeyOutlastsUploads ==
  [][\A d \in pend : key[d] # "none" /\ key'[d] = "none"
       => d \in fresh \/ trying[d] > FlushLimit]_key

\* Only a dead rclone, a revoked key, a failed command or a crash brings that about: passes,
\* changes of mind and limits alone do not.
KeyOutlastsInPeace ==
  [][deaths = 0 /\ faults = 0 =>
       \A d \in pend : key[d] # "none" /\ key'[d] = "none"
         => d \in fresh \/ trying[d] > FlushLimit]_key

\* Uploads are waited for: by every stop of a unit, and, as long as nothing dies or fails,
\* by every removal of a key.
UploadsHold == WaitsForUploads /\ KeyOutlastsInPeace

\* Once the backend has made up its mind every disk it wants is mounted and no other
\* has a unit, whatever failed, died or was revoked on the way.
Settles == \A d \in Drives : <>[](IF d \in want THEN d \in Running ELSE d \notin file)
=============================================================================
