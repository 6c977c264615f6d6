---------------------------- MODULE DisksProofs ----------------------------
(***************************************************************************)
(* Theorems about Disks, for any disks, limits, changes of mind, deaths of *)
(* rclone and faults.                                                      *)
(***************************************************************************)
EXTENDS Disks, TLAPS, FiniteSetTheorems, WellFoundedInduction

\* Ports are numbers; none is NoPort.
LEMMA PortsAreNumbers == Ports \subseteq Nat \ {0} /\ NoPort \notin Ports
<1>1. Cardinality(Drives) \in Nat
  BY DrivesAssumption, FS_CardinalityType
<1> QED
  BY <1>1 DEF Ports, NoPort

\* The lowest free port is one of them.
LEMMA LowestIsFree ==
  ASSUME FreePort # {}
  PROVE  (CHOOSE p \in FreePort : \A q \in FreePort : p <= q) \in FreePort
<1>1. FreePort \subseteq Nat
  BY PortsAreNumbers DEF FreePort
<1>2. \E p \in FreePort : \A q \in FreePort : ~(<<q, p>> \in OpToRel(<, Nat))
  BY <1>1, NatLessThanWellFounded, WFMin
<1>3. ASSUME NEW p \in Nat, NEW q \in Nat, <<q, p>> \notin OpToRel(<, Nat) PROVE p <= q
  <2>1. ~(q < p)
    BY <1>3 DEF OpToRel
  <2> QED
    BY <2>1
<1>4. \E p \in FreePort : \A q \in FreePort : p <= q
  BY <1>1, <1>2, <1>3
<1> QED
  BY <1>4

-----------------------------------------------------------------------------
(* The inductive invariant.                                                 *)

\* The backend, the machine and its rclones.
Machine ==
  /\ want \subseteq Drives /\ file \subseteq Drives /\ loaded \subseteq Drives
  /\ key \in [Drives -> {"none", "good", "revoked"}] /\ env \in [Drives -> Ports \cup {NoPort}]
  /\ unit \in [Drives -> {"stopped", "restarting", "up", "cut"}]
  /\ port \in [Drives -> Ports \cup {NoPort}]
  /\ pend \subseteq Drives /\ fresh \subseteq Drives
  /\ \A d \in Drives : d \in Running <=> port[d] # NoPort

\* What is counted.
Clocks ==
  /\ since \in [Drives -> 0..FlushLimit] /\ seen \in [Drives -> 0..Never]
  /\ asked \in [Drives -> 0..KeyRetry] /\ trying \in [Drives -> 0..FlushLimit + 1]
  /\ wishes \in 0..MaxWishes /\ deaths \in 0..MaxDeaths /\ faults \in 0..MaxFaults

\* The pass; a disk that is being mounted has a key.
Pass ==
  /\ mpc \in {"idle", "next"} \cup MountPcs \cup UnmountPcs
  /\ todo \subseteq Drives \X {"mount", "unmount"} /\ at \in Drives /\ again \in BOOLEAN
  /\ mpc \in MountPcs \ {"key"} => key[at] # "none"

\* No two environment files name the same port, and none that of another's rclone.
PortsDiffer ==
  /\ PortsAreOwn
  /\ \A d, e \in Drives : d # e /\ env[d] # NoPort => env[d] # env[e]

\* A disk that is waited for has been tried for longer than the wait of it says.
WaitIsTried == \A d \in Drives : seen[d] <= UnmountGap => trying[d] > since[d]

\* What may be stopped has nothing to upload but what came since, or was waited for.
StopIsDue == mpc = "stop" /\ at \in pend => at \in fresh \/ trying[at] > FlushLimit

IInv == Machine /\ Clocks /\ Pass /\ PortsDiffer /\ WaitIsTried /\ StopIsDue

\* The initial states satisfy the invariant.
LEMMA InitIInv == Init => IInv
<1> SUFFICES ASSUME Init PROVE IInv
  OBVIOUS
<1>1. Machine
  BY PortsAreNumbers DEF Init, Machine, Running
<1>2. Clocks
  BY LimitsAssumption DEF Init, Clocks, Never
<1>3. Pass /\ StopIsDue
  BY DEF Init, Pass, StopIsDue, MountPcs, UnmountPcs
<1>4. PortsDiffer
  BY DEF Init, PortsDiffer, PortsAreOwn, Running
<1>5. WaitIsTried
  BY LimitsAssumption DEF Init, WaitIsTried, Never
<1> QED
  BY <1>1, <1>2, <1>3, <1>4, <1>5 DEF IInv

-----------------------------------------------------------------------------
(* rclone starts and ends.                                                  *)

\* What a start comes to: rclone listens at the port of its environment, or it fails.
LEMMA StartsKeeps ==
  ASSUME Machine, PortsDiffer, NEW d \in Drives, Starts(d),
         UNCHANGED <<want, disk, pend, fresh>>
  PROVE  Machine' /\ PortsDiffer'
<1> USE DEF disk
<1>1. /\ unit' \in [Drives -> {"stopped", "restarting", "up", "cut"}]
      /\ port' \in [Drives -> Ports \cup {NoPort}]
      /\ \A e \in Drives \ {d} : unit'[e] = unit[e] /\ port'[e] = port[e]
  BY DEF Machine, Starts, Stops
<1>2. \/ unit'[d] \in {"up", "cut"} /\ port'[d] = env[d] /\ env[d] # NoPort
      \/ unit'[d] = "restarting" /\ port'[d] = NoPort
  BY DEF Machine, Starts, Stops
<1>3. Machine'
  BY <1>1, <1>2 DEF Machine, Running
<1>4. ASSUME NEW e \in Drives, NEW g \in Running', e # g
      PROVE  port'[e] # port'[g] /\ env'[e] # port'[g]
  <2>1. g \in Drives /\ port'[g] # NoPort /\ env' = env
    BY <1>3 DEF Machine, Running
  <2>2. CASE g = d
    <3>1. port'[g] = env[d] /\ port'[e] = port[e] /\ env[d] # NoPort
      BY <1>1, <1>2, <1>4, <2>1, <2>2
    <3>2. env[e] # env[d]
      BY <1>4, <2>2, <3>1 DEF PortsDiffer
    <3>3. port[e] # env[d]
      <4>1. CASE e \in Running
        BY <1>4, <2>2, <4>1 DEF PortsDiffer, PortsAreOwn
      <4>2. CASE e \notin Running
        BY <3>1, <4>2 DEF Machine
      <4> QED
        BY <4>1, <4>2
    <3> QED
      BY <2>1, <3>1, <3>2, <3>3
  <2>3. CASE g # d
    <3>1. g \in Running /\ port'[g] = port[g]
      BY <1>1, <2>1, <2>3 DEF Machine
    <3>2. port[e] # port[g] /\ env[e] # port[g]
      BY <1>4, <3>1 DEF PortsDiffer, PortsAreOwn
    <3>3. port'[e] \in {port[e], env[e], NoPort}
      BY <1>1, <1>2
    <3> QED
      BY <2>1, <3>1, <3>2, <3>3
  <2> QED
    BY <2>2, <2>3
<1>5. PortsDiffer'
  BY <1>4 DEF PortsDiffer, PortsAreOwn, Running
<1> QED
  BY <1>3, <1>5

\* A unit that stops, for good or not, frees its port.
LEMMA StopsKeeps ==
  ASSUME Machine, PortsDiffer, NEW d \in Drives, NEW state \in {"stopped", "restarting"},
         Stops(d, state), UNCHANGED <<want, disk, pend, fresh>>
  PROVE  Machine' /\ PortsDiffer'
<1> USE DEF disk
<1>1. /\ unit' \in [Drives -> {"stopped", "restarting", "up", "cut"}]
      /\ port' \in [Drives -> Ports \cup {NoPort}]
      /\ unit'[d] = state /\ port'[d] = NoPort
      /\ \A e \in Drives \ {d} : unit'[e] = unit[e] /\ port'[e] = port[e]
  BY DEF Machine, Stops
<1>2. Machine'
  BY <1>1 DEF Machine, Running
<1>3. Running' \subseteq Running \ {d}
  BY <1>1 DEF Running
<1>4. PortsDiffer'
  <2>1. ASSUME NEW e \in Drives, NEW g \in Running', e # g
        PROVE  port'[e] # port'[g] /\ env'[e] # port'[g]
    <3>1. g \in Drives /\ port'[g] = port[g] /\ port[g] # NoPort
      BY <1>1, <1>3 DEF Machine, Running
    <3>2. port[e] # port[g] /\ env[e] # port[g]
      BY <1>3, <2>1 DEF PortsDiffer, PortsAreOwn
    <3> QED
      BY <1>1, <3>1, <3>2
  <2> QED
    BY <2>1 DEF PortsDiffer, PortsAreOwn, Running
<1> QED
  BY <1>2, <1>4

-----------------------------------------------------------------------------
(* What goes on around the main loop.                                       *)

\* The backend, users, rclone and systemd.
LEMMA SurroundingsKeep == IInv /\ Surroundings => IInv'
<1> SUFFICES ASSUME IInv, Surroundings PROVE IInv'
  OBVIOUS
<1> USE DEF disk, rclone, memory, bounds
<1>1. UNCHANGED <<memory, mpc, todo, at, again, trying>>
  BY DEF Surroundings
<1>2. Clocks' /\ WaitIsTried'
  <2>1. /\ wishes' = wishes \/ (wishes < MaxWishes /\ wishes' = wishes + 1)
        /\ deaths' = deaths \/ (deaths < MaxDeaths /\ deaths' = deaths + 1)
        /\ faults' = faults \/ (faults < MaxFaults /\ faults' = faults + 1)
    BY DEF Surroundings, Wish, Revoke, Write, Upload, Dies, Respawns, Fault
  <2>2. Clocks'
    BY <1>1, <2>1, LimitsAssumption DEF IInv, Clocks
  <2> QED
    BY <1>1, <2>2 DEF IInv, WaitIsTried
<1>3. /\ \A d \in Drives : key[d] # "none" => key'[d] # "none"
      /\ pend' \ pend \subseteq fresh' /\ fresh \subseteq fresh'
  BY DEF IInv, Machine, Surroundings, Wish, Revoke, Write, Upload, Dies, Respawns
<1>4. Pass' /\ StopIsDue'
  BY <1>1, <1>3 DEF IInv, Pass, StopIsDue
<1>5. Machine' /\ PortsDiffer'
  <2>1. CASE Wish \/ Write \/ Upload
    <3>1. UNCHANGED <<disk, unit, port>>
      BY <2>1 DEF Wish, Write, Upload
    <3>2. want' \subseteq Drives /\ pend' \subseteq Drives /\ fresh' \subseteq Drives
      BY <2>1 DEF IInv, Machine, Running, Wish, Write, Upload
    <3> QED
      BY <3>1, <3>2 DEF IInv, Machine, PortsDiffer, PortsAreOwn, Running
  <2>2. CASE Revoke
    <3>1. UNCHANGED <<want, file, loaded, env, port, pend, fresh>>
      BY <2>2 DEF Revoke
    <3>2. /\ key' \in [Drives -> {"none", "good", "revoked"}]
          /\ unit' \in [Drives -> {"stopped", "restarting", "up", "cut"}]
          /\ Running' = Running
      BY <2>2 DEF IInv, Machine, Revoke, Running
    <3> QED
      BY <3>1, <3>2 DEF IInv, Machine, PortsDiffer, PortsAreOwn
  <2>3. CASE Dies
    <3>1. PICK d \in Drives, state \in {"stopped", "restarting"} : Stops(d, state)
      BY <2>3 DEF Dies, Running
    <3> QED
      BY <2>3, <3>1, StopsKeeps DEF IInv, Dies
  <2>4. CASE Respawns
    <3>1. PICK d \in Drives : Starts(d)
      BY <2>4 DEF Respawns, IInv, Machine
    <3> QED
      BY <2>4, <3>1, StartsKeeps DEF IInv, Respawns
  <2> QED
    BY <2>1, <2>2, <2>3, <2>4 DEF Surroundings
<1> QED
  BY <1>2, <1>4, <1>5 DEF IInv

\* What steps do to the faults.
LEMMA FaultsKeep ==
  ASSUME IInv, Well \/ Fault
  PROVE  faults' \in 0..MaxFaults
BY LimitsAssumption DEF IInv, Clocks, Well, Fault

\* Time passes for all disks.
LEMMA TickKeeps == IInv /\ Tick => IInv'
<1> SUFFICES ASSUME IInv, Tick PROVE IInv'
  OBVIOUS
<1> USE DEF disk, rclone, memory, bounds
<1>1. UNCHANGED <<want, disk, rclone, mpc, todo, at, again, wishes, deaths, fresh>>
  BY DEF Tick
<1>2. Machine' /\ PortsDiffer' /\ Pass'
  BY <1>1 DEF IInv, Machine, PortsDiffer, PortsAreOwn, Running, Pass
<1>3. ASSUME NEW d \in Drives
      PROVE  /\ since'[d] \in 0..FlushLimit /\ seen'[d] \in 0..Never
             /\ asked'[d] \in 0..KeyRetry /\ trying'[d] \in 0..FlushLimit + 1
             /\ trying'[d] >= trying[d]
             /\ seen'[d] <= UnmountGap => trying'[d] > since'[d]
  <2>1. /\ since[d] \in 0..FlushLimit /\ seen[d] \in 0..Never
        /\ asked[d] \in 0..KeyRetry /\ trying[d] \in 0..FlushLimit + 1
        /\ seen[d] <= UnmountGap => trying[d] > since[d]
    BY DEF IInv, Clocks, WaitIsTried
  <2>2. /\ since'[d] = IF since[d] < FlushLimit THEN since[d] + 1 ELSE FlushLimit
        /\ seen'[d] = IF seen[d] < Never THEN seen[d] + 1 ELSE Never
        /\ asked'[d] = IF asked[d] < KeyRetry THEN asked[d] + 1 ELSE KeyRetry
        /\ trying'[d] = IF trying[d] = 0 THEN 0
                        ELSE IF trying[d] < FlushLimit + 1 THEN trying[d] + 1 ELSE FlushLimit + 1
    BY DEF Tick, Older
  <2> QED
    BY <2>1, <2>2, LimitsAssumption DEF Never
<1>4. Clocks'
  <2>1. /\ since' = [d \in Drives |-> since'[d]] /\ seen' = [d \in Drives |-> seen'[d]]
        /\ asked' = [d \in Drives |-> asked'[d]] /\ trying' = [d \in Drives |-> trying'[d]]
    BY DEF Tick, Older
  <2>2. /\ since' \in [Drives -> 0..FlushLimit] /\ seen' \in [Drives -> 0..Never]
        /\ asked' \in [Drives -> 0..KeyRetry] /\ trying' \in [Drives -> 0..FlushLimit + 1]
    BY <1>3, <2>1
  <2>3. faults' \in 0..MaxFaults
    BY FaultsKeep DEF Tick
  <2> QED
    BY <1>1, <2>2, <2>3 DEF IInv, Clocks, Never
<1>5. WaitIsTried'
  BY <1>3 DEF WaitIsTried
<1>6. StopIsDue'
  BY <1>1, <1>3, LimitsAssumption DEF IInv, Pass, Clocks, StopIsDue
<1> QED
  BY <1>2, <1>4, <1>5, <1>6 DEF IInv

-----------------------------------------------------------------------------
(* A pass.                                                                  *)

\* The disks are looked at, and one is chosen.
LEMMA ChoosingKeeps ==
  ASSUME IInv, BeginPass \/ NextDisk, UNCHANGED <<want, wishes, deaths>>
  PROVE  IInv'
<1> USE DEF disk, rclone, memory, machine
<1>1. UNCHANGED machine /\ mpc' \in {"idle", "next", "key", "active"} /\ (Well \/ Fault)
  BY DEF BeginPass, NextDisk, Well
<1>2. Machine' /\ PortsDiffer' /\ WaitIsTried'
  BY <1>1 DEF IInv, Machine, PortsDiffer, PortsAreOwn, Running, WaitIsTried
<1>3. Clocks'
  BY <1>1, FaultsKeep DEF IInv, Clocks
<1>4. todo' \subseteq Drives \X {"mount", "unmount"} /\ at' \in Drives /\ again' \in BOOLEAN
  <2>1. CASE BeginPass
    BY <2>1 DEF BeginPass, IInv, Machine, Pass
  <2>2. CASE NextDisk
    BY <2>2 DEF NextDisk, IInv, Pass
  <2> QED
    BY <2>1, <2>2
<1>5. Pass' /\ StopIsDue'
  BY <1>1, <1>4 DEF Pass, StopIsDue, MountPcs, UnmountPcs
<1> QED
  BY <1>2, <1>3, <1>5 DEF IInv

\* A disk is mounted.
LEMMA MountingKeeps ==
  ASSUME IInv, Mounting, UNCHANGED <<want, wishes, deaths>>
  PROVE  IInv'
<1> USE DEF disk, rclone, memory, machine
<1>1. /\ UNCHANGED <<pend, since, seen, trying, fresh, todo, at>> /\ (Well \/ Fault)
      /\ at \in Drives /\ mpc' # "stop"
  BY DEF IInv, Pass, Mounting, EnsureRemote, AskKey, EnsureRc, WriteUnit, StartUnit, CheckUnit,
     RetryMount, Done, Well
<1>2. asked' = asked \/ asked' = [asked EXCEPT ![at] = 0]
  BY DEF Mounting, EnsureRemote, AskKey, EnsureRc, WriteUnit, StartUnit, CheckUnit, RetryMount
<1>3. asked' \in [Drives -> 0..KeyRetry]
  BY <1>1, <1>2, LimitsAssumption DEF IInv, Clocks
<1>4. Clocks' /\ WaitIsTried' /\ StopIsDue'
  BY <1>1, <1>3, FaultsKeep DEF IInv, Clocks, WaitIsTried, StopIsDue
<1>5. Pass'
  <2>1. again' \in BOOLEAN
    BY DEF IInv, Pass, Mounting, EnsureRemote, EnsureRc, WriteUnit, StartUnit, CheckUnit,
       RetryMount
  <2>2. mpc' \in {"next"} \cup MountPcs
    BY DEF Mounting, EnsureRemote, AskKey, EnsureRc, WriteUnit, StartUnit, CheckUnit,
       RetryMount,
       Done, MountPcs
  <2>3. mpc' \in MountPcs \ {"key"} => key'[at] # "none"
    BY <1>1 DEF IInv, Machine, Pass, Mounting, EnsureRemote, AskKey, EnsureRc, WriteUnit,
       StartUnit, CheckUnit, RetryMount, Done, MountPcs
  <2> QED
    BY <1>1, <2>1, <2>2, <2>3 DEF IInv, Pass
<1>6. Machine' /\ PortsDiffer'
  <2>1. CASE EnsureRemote \/ WriteUnit \/ CheckUnit \/ RetryMount
    <3>1. UNCHANGED <<env, unit, port>>
      BY <2>1 DEF EnsureRemote, WriteUnit, CheckUnit, RetryMount
    <3>2. /\ key' \in [Drives -> {"none", "good", "revoked"}]
          /\ file' \subseteq Drives /\ loaded' \subseteq Drives
      BY <1>1, <2>1
         DEF IInv, Machine, EnsureRemote, AskKey, WriteUnit, CheckUnit, RetryMount
    <3> QED
      BY <1>1, <3>1, <3>2 DEF IInv, Machine, PortsDiffer, PortsAreOwn, Running
  <2>2. CASE EnsureRc
    <3>1. UNCHANGED <<file, loaded, key, unit, port>>
      BY <2>2 DEF EnsureRc
    <3>2. CASE env' = env
      BY <1>1, <3>1, <3>2 DEF IInv, Machine, PortsDiffer, PortsAreOwn, Running
    <3>3. CASE env' # env
      <4>1. PICK p \in FreePort : env' = [env EXCEPT ![at] = p]
        BY <2>2, <3>3, LowestIsFree DEF EnsureRc
      <4>2. p \in Ports /\ \A e \in Drives : env[e] # p /\ port[e] # p
        BY DEF FreePort
      <4>3. Machine'
        BY <1>1, <3>1, <4>1, <4>2 DEF IInv, Machine, Running
      <4>4. \A e \in Drives : env'[e] = IF e = at THEN p ELSE env[e]
        BY <4>1 DEF IInv, Machine
      <4>5. PortsAreOwn'
        BY <3>1, <4>2, <4>4 DEF IInv, PortsDiffer, PortsAreOwn, Running
      <4>6. \A d, e \in Drives : d # e /\ env'[d] # NoPort => env'[d] # env'[e]
        BY <4>2, <4>4 DEF IInv, PortsDiffer
      <4> QED
        BY <4>3, <4>5, <4>6 DEF PortsDiffer
    <3> QED
      BY <3>2, <3>3
  <2>3. CASE StartUnit
    <3>1. UNCHANGED disk
      BY <2>3 DEF StartUnit
    <3>2. CASE Starts(at)
      BY <1>1, <3>1, <3>2, StartsKeeps DEF IInv
    <3>3. CASE UNCHANGED <<unit, port>>
      BY <1>1, <3>1, <3>3 DEF IInv, Machine, PortsDiffer, PortsAreOwn, Running
    <3> QED
      BY <2>3, <3>2, <3>3 DEF StartUnit
  <2> QED
    BY <2>1, <2>2, <2>3 DEF Mounting
<1> QED
  BY <1>4, <1>5, <1>6 DEF IInv

\* A disk is unmounted, up to the end of its unit.
LEMMA WaitingKeeps ==
  ASSUME IInv, LookActive \/ Wait \/ Poll \/ StopUnit, UNCHANGED <<want, wishes, deaths>>
  PROVE  IInv'
<1> USE DEF disk, rclone, memory, machine
<1>1. /\ UNCHANGED <<disk, pend, asked, todo, at, again>> /\ (Well \/ Fault)
      /\ at \in Drives /\ mpc' \in {"next", "wait", "poll", "stop", "dropKey"}
      /\ fresh' \subseteq fresh
  BY DEF IInv, Pass, LookActive, Wait, Poll, StopUnit, Done, Well
<1>2. Pass'
  BY <1>1 DEF IInv, Pass, MountPcs, UnmountPcs
<1>3. /\ since' = since \/ since' = [since EXCEPT ![at] = Waited]
      /\ seen' = seen \/ seen' = [seen EXCEPT ![at] = 0]
      /\ trying' = trying \/ trying' = [trying EXCEPT ![at] = IF @ = 0 THEN 1 ELSE @]
  BY DEF LookActive, Wait, Poll, StopUnit
<1>4. Waited \in 0..FlushLimit
  BY <1>1, LimitsAssumption DEF IInv, Clocks, Waited
<1>5. Clocks'
  <2>1. since' \in [Drives -> 0..FlushLimit]
    BY <1>3, <1>4 DEF IInv, Clocks
  <2>2. seen' \in [Drives -> 0..Never]
    BY <1>3, LimitsAssumption DEF IInv, Clocks, Never
  <2>3. trying' \in [Drives -> 0..FlushLimit + 1]
    BY <1>3, LimitsAssumption DEF IInv, Clocks
  <2>4. asked' \in [Drives -> 0..KeyRetry]
    BY <1>1 DEF IInv, Clocks
  <2> QED
    BY <2>1, <2>2, <2>3, <2>4, FaultsKeep, <1>1 DEF IInv, Clocks
<1>6. CASE Wait
  <2>1. /\ UNCHANGED <<unit, port, fresh>>
        /\ mpc' = IF Waited = FlushLimit THEN "stop" ELSE "poll"
        /\ since' = [since EXCEPT ![at] = Waited] /\ seen' = [seen EXCEPT ![at] = 0]
        /\ trying' = [trying EXCEPT ![at] = IF @ = 0 THEN 1 ELSE @]
    BY <1>6 DEF Wait
  <2>2. trying'[at] > Waited
    BY <1>1, <2>1, LimitsAssumption DEF IInv, Clocks, WaitIsTried, Waited
  <2>3. WaitIsTried'
    <3>1. ASSUME NEW d \in Drives, seen'[d] <= UnmountGap PROVE trying'[d] > since'[d]
      <4>1. CASE d = at
        BY <2>1, <2>2, <4>1 DEF IInv, Clocks
      <4>2. CASE d # at
        BY <2>1, <3>1, <4>2 DEF IInv, Clocks, WaitIsTried
      <4> QED
        BY <4>1, <4>2
    <3> QED
      BY <3>1 DEF WaitIsTried
  <2>4. StopIsDue'
    BY <1>1, <2>1, <2>2 DEF StopIsDue
  <2>5. Machine' /\ PortsDiffer'
    BY <1>1, <2>1 DEF IInv, Machine, PortsDiffer, PortsAreOwn, Running
  <2> QED
    BY <1>2, <1>5, <2>3, <2>4, <2>5 DEF IInv
<1>7. CASE LookActive \/ Poll \/ StopUnit
  <2>1. UNCHANGED <<since, seen, trying>>
    BY <1>7 DEF LookActive, Poll, StopUnit
  <2>2. WaitIsTried'
    BY <2>1 DEF IInv, WaitIsTried
  <2>3. StopIsDue'
    BY <1>1, <1>7 DEF IInv, StopIsDue, LookActive, Poll, StopUnit, Done
  <2>4. CASE UNCHANGED <<unit, port>>
    <3>1. Machine' /\ PortsDiffer'
      BY <1>1, <2>4 DEF IInv, Machine, PortsDiffer, PortsAreOwn, Running
    <3> QED
      BY <1>2, <1>5, <2>2, <2>3, <3>1 DEF IInv
  <2>5. CASE Stops(at, "stopped") /\ fresh' = fresh
    <3>1. Machine' /\ PortsDiffer'
      BY <1>1, <2>5, StopsKeeps DEF IInv
    <3> QED
      BY <1>2, <1>5, <2>2, <2>3, <3>1 DEF IInv
  <2> QED
    BY <1>7, <2>4, <2>5 DEF LookActive, Poll, StopUnit
<1> QED
  BY <1>6, <1>7

\* What a disk had is taken away.
LEMMA DroppingKeeps ==
  ASSUME IInv, DropKey \/ DropUnit \/ DropEnv \/ Reload, UNCHANGED <<want, wishes, deaths>>
  PROVE  IInv'
<1> USE DEF disk, rclone, memory, machine
<1>1. /\ UNCHANGED <<rclone, fresh, todo, at, again>> /\ (Well \/ Fault)
      /\ at \in Drives /\ mpc' \in {"next", "dropUnit", "dropEnv", "reload"}
  BY DEF IInv, Pass, DropKey, DropUnit, DropEnv, Reload, Done, Well
<1>2. Pass' /\ StopIsDue'
  BY <1>1 DEF IInv, Pass, StopIsDue, MountPcs, UnmountPcs
<1>3. Machine' /\ PortsDiffer'
  <2>1. /\ key' \in [Drives -> {"none", "good", "revoked"}]
        /\ file' \subseteq Drives /\ loaded' \subseteq Drives
    BY DEF IInv, Machine, DropKey, DropUnit, DropEnv, Reload
  <2>2. env' = env \/ env' = [env EXCEPT ![at] = NoPort]
    BY DEF DropKey, DropUnit, DropEnv, Reload
  <2>3. /\ env' \in [Drives -> Ports \cup {NoPort}]
        /\ \A d \in Drives : env'[d] \in {env[d], NoPort}
    BY <2>2 DEF IInv, Machine
  <2>4. Machine'
    BY <1>1, <2>1, <2>3 DEF IInv, Machine, Running
  <2>5. \A g \in Running : port[g] # NoPort
    BY DEF IInv, Machine, Running
  <2>6. PortsDiffer'
    BY <1>1, <2>3, <2>5 DEF IInv, PortsDiffer, PortsAreOwn, Running
  <2> QED
    BY <2>4, <2>6
<1>4. /\ since' = since \/ since' = [since EXCEPT ![at] = 0]
      /\ asked' = asked \/ asked' = [asked EXCEPT ![at] = KeyRetry]
      /\ UNCHANGED <<seen, trying, since>>
         \/ (seen' = [seen EXCEPT ![at] = Never] /\ trying' = [trying EXCEPT ![at] = 0])
  BY DEF DropKey, DropUnit, DropEnv, Reload
<1>5. Clocks'
  <2>1. since' \in [Drives -> 0..FlushLimit] /\ asked' \in [Drives -> 0..KeyRetry]
    BY <1>4, LimitsAssumption DEF IInv, Clocks
  <2>2. seen' \in [Drives -> 0..Never] /\ trying' \in [Drives -> 0..FlushLimit + 1]
    BY <1>4, LimitsAssumption DEF IInv, Clocks, Never
  <2> QED
    BY <1>1, <2>1, <2>2, FaultsKeep DEF IInv, Clocks
<1>6. WaitIsTried'
  <2>1. ASSUME NEW d \in Drives, seen'[d] <= UnmountGap PROVE trying'[d] > since'[d]
    <3>1. \/ UNCHANGED <<seen, trying, since>>
          \/ /\ d # at
             /\ seen'[d] = seen[d] /\ trying'[d] = trying[d] /\ since'[d] = since[d]
      BY <1>1, <1>4, <2>1, LimitsAssumption DEF IInv, Clocks, Never
    <3> QED
      BY <2>1, <3>1 DEF IInv, WaitIsTried
  <2> QED
    BY <2>1 DEF WaitIsTried
<1> QED
  BY <1>2, <1>3, <1>5, <1>6 DEF IInv

-----------------------------------------------------------------------------
(* Every step.                                                              *)

\* A new process knows nothing of the waits of the last.
LEMMA RestartKeeps == IInv /\ Restart => IInv'
<1> SUFFICES ASSUME IInv, Restart PROVE IInv'
  OBVIOUS
<1> USE DEF disk, rclone, memory
<1>1. Machine' /\ PortsDiffer'
  BY DEF IInv, Machine, PortsDiffer, PortsAreOwn, Running, Restart
<1>2. Pass' /\ StopIsDue'
  BY DEF IInv, Pass, StopIsDue, MountPcs, UnmountPcs, Restart
<1>3. /\ since' = [d \in Drives |-> 0] /\ seen' = [d \in Drives |-> Never]
      /\ asked' = [d \in Drives |-> KeyRetry] /\ trying' = [d \in Drives |-> 0]
      /\ UNCHANGED <<wishes, deaths>> /\ Fault
  BY DEF Restart
<1>4. Clocks'
  BY <1>3, FaultsKeep, LimitsAssumption DEF IInv, Clocks, Never
<1>5. WaitIsTried'
  BY <1>3, LimitsAssumption DEF WaitIsTried, Never
<1> QED
  BY <1>1, <1>2, <1>4, <1>5 DEF IInv

\* Every step, and a stutter, keeps the invariant.
LEMMA StepIInv == IInv /\ [Next]_vars => IInv'
<1> SUFFICES ASSUME IInv, [Next]_vars PROVE IInv'
  OBVIOUS
<1>1. CASE Surroundings
  BY <1>1, SurroundingsKeep
<1>2. CASE Tick
  BY <1>2, TickKeeps
<1>3. CASE MainLoop
  BY <1>3, ChoosingKeeps, MountingKeeps, WaitingKeeps, DroppingKeeps DEF MainLoop, Unmounting
<1>4. CASE Restart
  BY <1>4, RestartKeeps
<1>5. CASE UNCHANGED vars
  BY <1>5 DEF vars, disk, rclone, memory, bounds, ghosts, IInv, Machine, Clocks, Pass,
     PortsDiffer, PortsAreOwn, Running, WaitIsTried, StopIsDue
<1> QED
  BY <1>1, <1>2, <1>3, <1>4, <1>5 DEF Next

\* Ports and waits are in order at every step of mounting and unmounting.
THEOREM Invariance == Spec => []IInv
<1>1. Init => IInv
  BY InitIInv
<1>2. IInv /\ [Next]_vars => IInv'
  BY StepIInv
<1> QED
  BY <1>1, <1>2, PTL DEF Spec

\* Every variable keeps its type, and a disk that is being mounted has a key
\* (ensureRemote).
THEOREM TypeCorrect == Spec => []TypeOK
<1>1. IInv => TypeOK
  BY DEF IInv, Machine, Clocks, Pass, TypeOK
<1> QED
  BY <1>1, Invariance, PTL

\* Every rclone has a port of its own (freeRcPort).
THEOREM OwnPorts == Spec => []PortsAreOwn
<1>1. IInv => PortsAreOwn
  BY DEF IInv, PortsDiffer
<1> QED
  BY <1>1, Invariance, PTL

\* An unmount waits for uploads, or has waited (flushing, Unmount).
THEOREM UploadsWaited == Spec => WaitsForUploads
<1>1. IInv /\ [Next]_vars =>
        [mpc = "stop" /\ at \in Running /\ unit'[at] = "stopped" /\ at \in pend
           => at \in fresh \/ trying[at] > FlushLimit]_<<mpc, unit>>
  BY DEF IInv, StopIsDue
<1> QED
  BY <1>1, Invariance, PTL DEF Spec, WaitsForUploads

-----------------------------------------------------------------------------
(* Without deaths and faults.                                               *)

\* What is due has nothing to upload but what came since, or was waited for.
IsDue(d) == d \in fresh \/ trying[d] > FlushLimit

\* Units run or are stopped, with keys that are good, and rclone listens where its
\* environment file says. A unit is on its way up with a port, or it is down for good.
UnitsAreSound ==
  /\ \A d \in Drives : key[d] # "revoked" /\ unit[d] \in {"stopped", "up"}
  /\ \A d \in Running : env[d] = port[d]
  /\ mpc # "failed"
  /\ mpc \in {"unit", "start", "check"} => env[at] # NoPort
  /\ mpc = "check" => at \in Running
  /\ mpc \in {"dropKey", "dropUnit", "dropEnv"} => at \notin Running

\* A disk with uploads runs, or is being mounted, or its stop was due; or its key is gone.
UploadsAreServed ==
  \A d \in pend :
    \/ d \in Running \/ key[d] = "none"
    \/ d = at /\ mpc \in {"rc", "unit", "start"}
    \/ d = at /\ mpc = "dropKey" /\ IsDue(d)

Quiet == deaths = 0 /\ faults = 0
Peace == Quiet => UnitsAreSound /\ UploadsAreServed

\* With as many listeners as environment files at most, a port is always left.
LEMMA APortIsFree ==
  ASSUME Machine, UnitsAreSound
  PROVE  FreePort # {}
<1> SUFFICES ASSUME FreePort = {} PROVE FALSE
  OBVIOUS
<1> DEFINE n == Cardinality(Drives)
           f == [p \in Ports |-> CHOOSE e \in Drives : env[e] = p]
<1>1. n \in Nat /\ IsFiniteSet(Drives)
  BY DrivesAssumption, FS_CardinalityType
<1>2. IsFiniteSet(Ports) /\ Cardinality(Ports) = n + 1
  BY <1>1, FS_Interval DEF Ports
<1>3. ASSUME NEW p \in Ports PROVE \E e \in Drives : env[e] = p
  <2>1. PICK e \in Drives : env[e] = p \/ port[e] = p
    BY DEF FreePort
  <2>2. CASE port[e] = p
    <3>1. e \in Running
      BY <2>2, PortsAreNumbers DEF Machine
    <3> QED
      BY <2>2, <3>1 DEF UnitsAreSound
  <2> QED
    BY <2>1, <2>2
<1>4. \A p \in Ports : f[p] \in Drives /\ env[f[p]] = p
  BY <1>3
<1>5. f \in [Ports -> Drives]
  BY <1>4
<1> HIDE DEF f
<1>6. Cardinality(Drives) < Cardinality(Ports)
  BY <1>1, <1>2
<1>7. \E p, q \in Ports : p # q /\ f[p] = f[q]
  BY <1>1, <1>2, <1>5, <1>6, FS_PigeonHole
<1> QED
  BY <1>4, <1>7

\* At the start no disk runs.
LEMMA InitPeace == Init => Peace
BY DEF Init, Peace, UnitsAreSound, UploadsAreServed, Running

\* What goes on around the main loop, when nothing dies and nothing is revoked.
LEMMA SurroundingsPeace ==
  ASSUME IInv, UnitsAreSound, UploadsAreServed, Surroundings, Quiet'
  PROVE  UnitsAreSound' /\ UploadsAreServed'
<1> USE DEF disk
<1>1. UNCHANGED <<disk, mpc, at, trying, unit, port>> /\ (Wish \/ Write \/ Upload)
  <2>1. ~Revoke
    BY DEF Revoke, Fault, Quiet, IInv, Clocks
  <2>2. ~Dies
    BY DEF Dies, Quiet, IInv, Clocks
  <2>3. ~Respawns
    BY DEF Respawns, UnitsAreSound, IInv, Machine
  <2> QED
    BY <2>1, <2>2, <2>3 DEF Surroundings, Wish, Write, Upload, rclone
<1>2. UnitsAreSound'
  BY <1>1 DEF UnitsAreSound, Running
<1>3. fresh \subseteq fresh' /\ \A d \in pend' : d \in pend \/ d \in Running
  BY <1>1 DEF Wish, Write, Upload, rclone
<1>4. UploadsAreServed'
  BY <1>1, <1>3 DEF UploadsAreServed, IsDue, Running
<1> QED
  BY <1>2, <1>4

\* Time makes nothing less due.
LEMMA TickPeace ==
  ASSUME IInv, UnitsAreSound, UploadsAreServed, Tick
  PROVE  UnitsAreSound' /\ UploadsAreServed'
<1> USE DEF disk, rclone
<1>1. UNCHANGED <<disk, rclone, mpc, at, fresh>>
  BY DEF Tick
<1>2. UnitsAreSound'
  BY <1>1 DEF UnitsAreSound, Running
<1>3. ASSUME NEW d \in Drives, trying[d] > FlushLimit PROVE trying'[d] > FlushLimit
  <2>1. trying[d] \in 0..FlushLimit + 1 /\ trying[d] # 0
    BY <1>3, LimitsAssumption DEF IInv, Clocks
  <2>2. trying'[d] = IF trying[d] < FlushLimit + 1 THEN trying[d] + 1 ELSE FlushLimit + 1
    BY <2>1 DEF Tick, Older
  <2> QED
    BY <1>3, <2>1, <2>2, LimitsAssumption
<1>4. pend \subseteq Drives
  BY DEF IInv, Machine
<1>5. UploadsAreServed'
  BY <1>1, <1>3, <1>4 DEF UploadsAreServed, IsDue, Running
<1> QED
  BY <1>2, <1>5

\* A step of the main loop, when nothing fails.
LEMMA NothingFails ==
  ASSUME IInv, faults' = 0
  PROVE  ~Fault
BY DEF IInv, Clocks, Fault

\* The disks are looked at, and one is chosen; a unit is looked at, waited for and asked.
LEMMA LookingPeace ==
  ASSUME IInv, UnitsAreSound, UploadsAreServed, faults' = 0,
         BeginPass \/ NextDisk \/ LookActive \/ Wait \/ Poll
  PROVE  UnitsAreSound' /\ UploadsAreServed'
<1> USE DEF disk, rclone, memory, machine
<1>1. UNCHANGED <<disk, rclone>> /\ mpc \notin {"rc", "unit", "start", "dropKey"}
  BY DEF BeginPass, NextDisk, LookActive, Wait, Poll
<1>2. /\ mpc' \in {"idle", "next", "key", "active", "wait", "poll", "stop", "dropKey"}
      /\ mpc' = "dropKey" => at' \notin Running
  BY NothingFails DEF BeginPass, NextDisk, LookActive, Wait, Poll, Done
<1>3. UnitsAreSound'
  BY <1>1, <1>2 DEF UnitsAreSound, Running
<1>4. \A d \in pend : d \in Running \/ key[d] = "none"
  BY <1>1 DEF UploadsAreServed
<1>5. UploadsAreServed'
  BY <1>1, <1>4 DEF UploadsAreServed, Running
<1> QED
  BY <1>3, <1>5

\* A mount ends with the disk running.
LEMMA MountingPeace ==
  ASSUME IInv, UnitsAreSound, UploadsAreServed, faults' = 0, Mounting
  PROVE  UnitsAreSound' /\ UploadsAreServed'
<1> USE DEF disk, rclone, memory, machine
<1>1. ~Fault /\ mpc # "failed" /\ at \in Drives /\ UNCHANGED <<pend, at, fresh, trying>>
  BY NothingFails DEF UnitsAreSound, IInv, Pass, Mounting, EnsureRemote, EnsureRc, WriteUnit,
     StartUnit, CheckUnit, RetryMount
<1>2. CASE EnsureRemote
  <2>1. /\ UNCHANGED <<env, unit, port>> /\ mpc = "key" /\ mpc' = "rc"
        /\ key' = key \/ key' = [key EXCEPT ![at] = "good"]
    BY <1>1, <1>2 DEF EnsureRemote, AskKey
  <2>2. \A d \in Drives : key'[d] # "revoked" /\ (d # at => key'[d] = key[d])
    BY <1>1, <2>1 DEF UnitsAreSound, IInv, Machine
  <2>3. UnitsAreSound'
    BY <2>1, <2>2 DEF UnitsAreSound, Running
  <2>4. pend \subseteq Drives
    BY DEF IInv, Machine
  <2>5. UploadsAreServed'
    BY <1>1, <2>1, <2>2, <2>4 DEF UploadsAreServed, Running
  <2> QED
    BY <2>3, <2>5
<1>3. CASE EnsureRc
  <2>1. UNCHANGED <<key, unit, port>> /\ mpc = "rc" /\ mpc' = "unit"
    BY <1>1, <1>3, APortIsFree DEF EnsureRc, IInv
  <2>2. \/ env' = env /\ env[at] # NoPort
        \/ env[at] = NoPort /\ \E p \in Ports : env' = [env EXCEPT ![at] = p]
    BY <1>1, <1>3, APortIsFree, LowestIsFree DEF EnsureRc, IInv, FreePort
  <2>3. env'[at] # NoPort /\ \A d \in Drives : env[d] # NoPort => env'[d] = env[d]
    BY <1>1, <2>2, PortsAreNumbers DEF IInv, Machine
  <2>4. \A d \in Running : d \in Drives /\ env[d] = port[d] /\ port[d] # NoPort
    BY DEF UnitsAreSound, IInv, Machine, Running
  <2>5. UnitsAreSound'
    BY <1>1, <2>1, <2>3, <2>4 DEF UnitsAreSound, Running
  <2>6. UploadsAreServed'
    BY <1>1, <2>1 DEF UploadsAreServed, Running
  <2> QED
    BY <2>5, <2>6
<1>4. CASE WriteUnit
  <2>1. UNCHANGED <<key, env, unit, port>> /\ mpc = "unit" /\ mpc' = "start"
    BY <1>1, <1>4 DEF WriteUnit
  <2> QED
    BY <1>1, <2>1 DEF UnitsAreSound, UploadsAreServed, Running
<1>5. CASE StartUnit
  <2>1. UNCHANGED <<key, env>> /\ mpc = "start"
    BY <1>5 DEF StartUnit
  <2>2. CASE at \in Running
    <3>1. UNCHANGED <<unit, port>> /\ mpc' = "check"
      BY <1>1, <1>5, <2>2 DEF StartUnit
    <3> QED
      BY <1>1, <2>1, <2>2, <3>1 DEF UnitsAreSound, UploadsAreServed, Running
  <2>3. CASE at \notin Running
    <3>1. key[at] = "good" /\ env[at] # NoPort
      BY <1>1, <2>1 DEF UnitsAreSound, IInv, Machine, Pass, MountPcs
    <3>2. Starts(at) /\ mpc' = IF port'[at] # NoPort THEN "check" ELSE "failed"
      BY <1>1, <1>5, <2>3 DEF StartUnit
    <3>3. unit' = [unit EXCEPT ![at] = "up"] /\ port' = [port EXCEPT ![at] = env[at]]
      BY <3>1, <3>2 DEF Starts
    <3>4. /\ unit'[at] = "up" /\ port'[at] = env[at]
          /\ \A d \in Drives \ {at} : unit'[d] = unit[d] /\ port'[d] = port[d]
      BY <1>1, <3>3 DEF IInv, Machine
    <3>5. mpc' = "check"
      BY <3>1, <3>2, <3>4
    <3>6. Running' = Running \cup {at}
      BY <1>1, <3>4 DEF Running
    <3>7. UnitsAreSound'
      <4>1. \A d \in Running' : env'[d] = port'[d]
        BY <2>1, <3>4, <3>6 DEF UnitsAreSound, Running
      <4>2. \A d \in Drives : key'[d] # "revoked" /\ unit'[d] \in {"stopped", "up"}
        BY <2>1, <3>4 DEF UnitsAreSound
      <4> QED
        BY <1>1, <2>1, <3>1, <3>5, <3>6, <4>1, <4>2 DEF UnitsAreSound
    <3>8. UploadsAreServed'
      BY <1>1, <2>1, <3>6 DEF UploadsAreServed
    <3> QED
      BY <3>7, <3>8
  <2> QED
    BY <2>2, <2>3
<1>6. CASE CheckUnit
  <2>1. UNCHANGED <<disk, unit, port>> /\ mpc = "check" /\ mpc' = "next"
    BY <1>1, <1>6 DEF CheckUnit, UnitsAreSound, Done
  <2> QED
    BY <1>1, <2>1 DEF UnitsAreSound, UploadsAreServed, Running
<1>7. CASE RetryMount
  BY <1>1, <1>7 DEF RetryMount
<1> QED
  BY <1>2, <1>3, <1>4, <1>5, <1>6, <1>7 DEF Mounting

\* A disk is stopped when that is due, and what it had goes after it.
LEMMA UnmountingPeace ==
  ASSUME IInv, UnitsAreSound, UploadsAreServed, faults' = 0,
         StopUnit \/ DropKey \/ DropUnit \/ DropEnv \/ Reload
  PROVE  UnitsAreSound' /\ UploadsAreServed'
<1> USE DEF disk, rclone, memory
<1>1. ~Fault /\ at \in Drives /\ UNCHANGED <<pend, at, fresh>>
  BY NothingFails DEF IInv, Pass, StopUnit, DropKey, DropUnit, DropEnv, Reload
<1>2. CASE StopUnit
  <2>1. /\ UNCHANGED <<key, env, trying>> /\ mpc = "stop" /\ mpc' = "dropKey"
        /\ Stops(at, "stopped")
    BY <1>1, <1>2 DEF StopUnit
  <2>2. /\ unit'[at] = "stopped"
        /\ \A d \in Drives \ {at} : unit'[d] = unit[d] /\ port'[d] = port[d]
    BY <1>1, <2>1 DEF Stops, IInv, Machine
  <2>3. Running' = Running \ {at}
    BY <1>1, <2>2 DEF Running
  <2>4. UnitsAreSound'
    <3>1. \A d \in Running' : env'[d] = port'[d]
      BY <2>1, <2>2, <2>3 DEF UnitsAreSound, Running
    <3>2. \A d \in Drives : key'[d] # "revoked" /\ unit'[d] \in {"stopped", "up"}
      BY <2>1, <2>2 DEF UnitsAreSound
    <3> QED
      BY <1>1, <2>1, <2>3, <3>1, <3>2 DEF UnitsAreSound
  <2>5. at \in pend => IsDue(at)
    BY <2>1 DEF IInv, StopIsDue, IsDue
  <2>6. UploadsAreServed'
    BY <1>1, <2>1, <2>3, <2>5 DEF UploadsAreServed, IsDue
  <2> QED
    BY <2>4, <2>6
<1>3. CASE DropKey
  <2>1. /\ UNCHANGED <<env, unit, port>> /\ mpc = "dropKey" /\ mpc' = "dropUnit"
        /\ key' = [key EXCEPT ![at] = "none"]
    BY <1>1, <1>3 DEF DropKey
  <2>2. key'[at] = "none" /\ \A d \in Drives \ {at} : key'[d] = key[d]
    BY <1>1, <2>1 DEF IInv, Machine
  <2>3. UnitsAreSound'
    BY <1>1, <2>1, <2>2 DEF UnitsAreSound, Running
  <2>4. pend \subseteq Drives
    BY DEF IInv, Machine
  <2>5. UploadsAreServed'
    BY <1>1, <2>1, <2>2, <2>4 DEF UploadsAreServed, Running
  <2> QED
    BY <2>3, <2>5
<1>4. CASE DropUnit \/ DropEnv \/ Reload
  <2>1. /\ UNCHANGED <<key, unit, port>>
        /\ mpc \in {"dropUnit", "dropEnv", "reload"} /\ mpc' \in {"dropEnv", "reload", "next"}
        /\ mpc' = "dropEnv" => mpc = "dropUnit"
        /\ env' = env \/ (mpc = "dropEnv" /\ env' = [env EXCEPT ![at] = NoPort])
    BY <1>1, <1>4 DEF DropUnit, DropEnv, Reload, Done
  <2>2. \A d \in Running : d \in Drives /\ env'[d] = env[d]
    BY <1>1, <2>1 DEF UnitsAreSound, IInv, Machine, Running
  <2>3. UnitsAreSound'
    BY <1>1, <2>1, <2>2 DEF UnitsAreSound, Running
  <2>4. UploadsAreServed'
    BY <1>1, <2>1 DEF UploadsAreServed, Running
  <2> QED
    BY <2>3, <2>4
<1> QED
  BY <1>2, <1>3, <1>4

\* Every step keeps it: a death or a fault ends the peace for good.
LEMMA StepPeace == IInv /\ Peace /\ [Next]_vars => Peace'
<1> SUFFICES ASSUME IInv, Peace, [Next]_vars, Quiet'
             PROVE  UnitsAreSound' /\ UploadsAreServed'
  BY DEF Peace
<1>1. Quiet
  <2>1. deaths' = deaths \/ deaths' = deaths + 1
    BY DEF Next, Surroundings, Wish, Revoke, Write, Upload, Dies, Respawns, Tick, MainLoop,
       Restart, vars, bounds
  <2>2. faults' = faults \/ faults' = faults + 1
    <3>1. MainLoop => Well \/ Fault
      BY DEF MainLoop, Mounting, Unmounting, BeginPass, NextDisk, EnsureRemote, AskKey,
         EnsureRc,
         WriteUnit, StartUnit, CheckUnit, RetryMount, LookActive, Wait, Poll, StopUnit, DropKey,
         DropUnit, DropEnv, Reload, Well
    <3> QED
      BY <3>1 DEF Next, Surroundings, Wish, Revoke, Write, Upload, Dies, Respawns, Tick,
         Restart,
         Well, Fault, vars, bounds
  <2> QED
    BY <2>1, <2>2 DEF Quiet, IInv, Clocks
<1>2. UnitsAreSound /\ UploadsAreServed
  BY <1>1 DEF Peace
<1>3. faults' = 0
  BY DEF Quiet
<1>4. CASE Surroundings
  BY <1>2, <1>4, SurroundingsPeace
<1>5. CASE Tick
  BY <1>2, <1>5, TickPeace
<1>6. CASE MainLoop
  BY <1>2, <1>3, <1>6, LookingPeace, MountingPeace, UnmountingPeace DEF MainLoop, Unmounting
<1>7. CASE Restart
  BY <1>3, <1>7, NothingFails DEF Restart
<1>8. CASE UNCHANGED vars
  BY <1>2, <1>8 DEF vars, disk, rclone, memory, bounds, ghosts, UnitsAreSound,
     UploadsAreServed,
     IsDue, Running
<1> QED
  BY <1>4, <1>5, <1>6, <1>7, <1>8 DEF Next

\* While nothing has died or failed no key goes before the uploads (Mount, Unmount): what
\* takes one early is an unmount that finds the unit down, and units do not go down then.
THEOREM KeysOutlastInPeace == Spec => KeyOutlastsInPeace
<1>1. IInv /\ Peace /\ [Next]_vars =>
        [deaths = 0 /\ faults = 0 =>
           \A d \in pend : key[d] # "none" /\ key'[d] = "none"
             => d \in fresh \/ trying[d] > FlushLimit]_key
  <2> SUFFICES ASSUME IInv, Peace, [Next]_vars, Quiet, NEW d \in pend,
                      key[d] # "none", key'[d] = "none"
               PROVE  IsDue(d)
    BY DEF Quiet, IsDue
  <2>1. d \in Drives
    BY DEF IInv, Machine
  <2>2. DropKey /\ d = at
    BY <2>1 DEF IInv, Machine, Pass, Next, Surroundings, Wish, Revoke, Write, Upload, Dies,
       Respawns, Tick, MainLoop, Restart, Mounting, Unmounting, BeginPass, NextDisk,
       EnsureRemote, AskKey, EnsureRc, WriteUnit, StartUnit, CheckUnit, RetryMount, LookActive,
       Wait, Poll, StopUnit, DropUnit, DropEnv, Reload, DropKey, vars, disk, machine
  <2>3. mpc = "dropKey"
    BY <2>2 DEF DropKey
  <2> QED
    BY <2>2, <2>3 DEF Peace, UnitsAreSound, UploadsAreServed
<1>2. Init => Peace
  BY InitPeace
<1>3. IInv /\ Peace /\ [Next]_vars => Peace'
  BY StepPeace
<1> QED
  BY <1>1, <1>2, <1>3, Invariance, PTL DEF Spec, KeyOutlastsInPeace

\* Uploads are waited for by every stop, and by every removal of a key while nothing has
\* died or failed (Unmount).
THEOREM UploadsKept == Spec => UploadsHold
BY UploadsWaited, KeysOutlastInPeace DEF UploadsHold
=============================================================================
