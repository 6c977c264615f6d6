--------------------------- MODULE InstanceProofs ---------------------------
(***************************************************************************)
(* Theorems about Instance, for any containers, specs and troubles.        *)
(***************************************************************************)
EXTENDS Instance, TLAPS

\* A pass has a spec.
PassHasSpec == pc \notin {"idle", "ended"} => p \in 1..Newest

\* A container that is there was made for some spec, and there is none, nor can there be
\* one of a late request, while docker run is awaited.
HasHash ==
  /\ IF cont.st = "none" THEN cont = Gone ELSE cont.hash \in Containers
  /\ pc = "running" => cont.st = "none"

\* Past the gate the disk of the spec is mounted, or was lost since.
GateHolds == pc \in {"rm", "run"} => (Wish.disk => mount # 0 \/ lost)

\* A container that is to be replaced is there and not that of the spec, or was found down.
Replaceable ==
  pc \in {"pull", "gate", "rm", "run", "running"} =>
    /\ Wish.cont \in Containers
    /\ pc \in {"pull", "gate", "rm"} => seenDown \/ (cont # Gone /\ cont.hash # Wish.cont)

\* What is looked at again is what docker run has started.
StartedIsOwn == pc = "look" => Wish.cont \in Containers /\ cont.hash = Wish.cont

\* What was last seen to run is the container that is there, or is just being replaced.
LastIsThere ==
  /\ last.state \notin {"ready", "unresponsive"}
  /\ last.state = "running" =>
       /\ last.hash \in Containers
       /\ pc \in {"run", "running", "look"} \/ cont.hash = last.hash

\* After the container manager, what runs is what was last seen.
ObsIsLast ==
  /\ pc \in {"remounts", "restart", "restarting", "tunnel", "ready"} =>
       obs.state # "ready" /\ (obs.state = "running" => obs = last)
  /\ pc = "ready" => obs.state = "running"

\* The name of the container is taken for docker run of another.
NameTaken == \A h \in Containers : cont.hash = h => Make(h) \notin asked

\* The container of the hash that is ready, if it is there, has answered; none that docker
\* is late with will take its place.
ReadyAnswered ==
  /\ readyHash # None => /\ cont.hash = readyHash => answered = readyHash
                         /\ Make(readyHash) \notin asked
  /\ pc \in {"run", "running"} => readyHash = None

Control == PassHasSpec /\ HasHash /\ NameTaken /\ GateHolds /\ Replaceable /\ StartedIsOwn
Readiness == LastIsThere /\ ObsIsLast /\ ReadyAnswered /\ ReadyIsEarned
IInv == TypeOK /\ Control /\ Readiness

\* What a pass asks for is a spec of the backend.
LEMMA WishIsSpec ==
  ASSUME TypeOK, PassHasSpec, pc \notin {"idle", "ended"}
  PROVE  Wish \in AllSpecs /\ Wish.cont \in Hashes /\ Wish.disk \in BOOLEAN
         /\ Wish.tunnel \in BOOLEAN
<1>1. specs \in Seq(AllSpecs) /\ p \in 1..Len(specs)
  BY DEF TypeOK, BackendType, PassHasSpec, Newest
<1>2. specs[p] \in AllSpecs
  BY <1>1
<1> QED
  BY <1>2 DEF Wish, AllSpecs

\* Appending a spec leaves those that are there.
LEMMA SendKeeps ==
  ASSUME TypeOK, NEW w \in AllSpecs, Send(w)
  PROVE  /\ specs' \in Seq(AllSpecs) /\ specs' # <<>> /\ Newest' = Newest + 1
         /\ \A g \in 1..Newest : specs'[g] = specs[g]
         /\ flight' \subseteq 1..Newest'
<1>1. specs \in Seq(AllSpecs) /\ specs' = Append(specs, w)
  BY DEF TypeOK, BackendType, Send
<1>2. specs' \in Seq(AllSpecs) /\ Len(specs') = Len(specs) + 1 /\ Len(specs) \in Nat
  BY <1>1
<1>3. \A g \in 1..Len(specs) : specs'[g] = specs[g]
  BY <1>1
<1>4. specs' # <<>>
  BY <1>2
<1>5. flight \subseteq 1..Len(specs) /\ flight' = flight \cup {Len(specs) + 1}
  BY DEF TypeOK, BackendType, Send, Newest
<1>6. flight' \subseteq 1..Len(specs')
  <2>1. ASSUME NEW g \in flight' PROVE g \in 1..Len(specs')
    <3>1. g \in 1..Len(specs) \/ g = Len(specs) + 1
      BY <1>5
    <3> QED
      BY <1>2, <3>1
  <2> QED
    BY <2>1
<1> QED
  BY <1>2, <1>3, <1>4, <1>6 DEF Newest

\* The initial state satisfies the invariant.
LEMMA InitIInv == Init => IInv
<1> SUFFICES ASSUME Init PROVE IInv
  OBVIOUS
<1>1. PICK w \in Wishes : specs = <<w>>
  BY DEF Init
<1>2. w \in AllSpecs
  <2>1. w \in [cont : Hashes, disk : BOOLEAN, tunnel : BOOLEAN, del : {FALSE}]
    BY WishesAssumption
  <2> QED
    BY <2>1 DEF AllSpecs
<1>3. specs \in Seq(AllSpecs) /\ specs # <<>> /\ Newest = 1
  BY <1>1, <1>2 DEF Newest
<1>4. Absent \in Observations /\ Seen("none", None) \in Observations /\ None \in Hashes
  BY DEF Absent, Seen, Observations, States, Hashes
<1>5. BackendType
  BY <1>3, <1>4 DEF Init, BackendType
<1>6. MachineType
  <2>1. cont \in [st : {"none", "created", "up", "exited"}, hash : Hashes,
                  listens : BOOLEAN, mount : {0}]
    BY <1>4 DEF Init, Gone
  <2>2. /\ mount = 0 /\ mounted = 0 /\ mountID = 0 /\ link \in BOOLEAN /\ answered \in Hashes
        /\ asked = {}
    BY <1>4 DEF Init
  <2> QED
    BY <2>1, <2>2 DEF MachineType
<1>7. IntakeType
  <2>1. highest = 0 /\ inbox = 0 /\ p = 0
    BY DEF Init
  <2>2. hearing \in BOOLEAN /\ deleting \in BOOLEAN /\ work \in BOOLEAN /\ ~(deleting /\ work)
    BY DEF Init
  <2> QED
    BY <2>1, <2>2, <1>3 DEF IntakeType
<1>8. LoopType
  BY <1>4 DEF Init, LoopType, Steps
<1>9. CountsType
  BY BoundsAssumption DEF Init, CountsType
<1>10. Control
  BY DEF Init, Control, PassHasSpec, HasHash, NameTaken, GateHolds, Replaceable, StartedIsOwn,
     Gone
<1>11. Readiness
  BY DEF Init, Readiness, LastIsThere, ObsIsLast, ReadyAnswered, ReadyIsEarned, Seen
<1> QED
  BY <1>5, <1>6, <1>7, <1>8, <1>9, <1>10, <1>11 DEF IInv, TypeOK

\* An observation is one.
LEMMA SeenType ==
  ASSUME NEW s \in States, NEW h \in Hashes
  PROVE  Seen(s, h) \in Observations
  BY DEF Seen, Observations

\* What the backend sends is a spec.
LEMMA BackendSends ==
  ASSUME TypeOK, ChangeSpec \/ RequestDeletion
  PROVE  \E w \in AllSpecs : Send(w)
<1>1. specs[Newest] \in AllSpecs
  BY DEF TypeOK, BackendType, Newest
<1>2. [specs[Newest] EXCEPT !.del = TRUE] \in AllSpecs
  BY <1>1 DEF AllSpecs
<1>3. Wishes \subseteq AllSpecs
  BY WishesAssumption DEF AllSpecs
<1> QED
  BY <1>2, <1>3 DEF ChangeSpec, RequestDeletion

\* A step of the backend keeps the types.
LEMMA BackendKeepsTypes ==
  ASSUME TypeOK, ChangeSpec \/ RequestDeletion
  PROVE  TypeOK'
<1>1. \E w \in AllSpecs : Send(w)
  BY BackendSends
<1>2. PICK w \in AllSpecs : Send(w)
  BY <1>1
<1>3. /\ specs' \in Seq(AllSpecs) /\ specs' # <<>> /\ Newest' = Newest + 1
      /\ flight' \subseteq 1..Newest'
  BY <1>2, SendKeeps
<1>4. Newest \in Nat
  BY DEF TypeOK, BackendType, Newest
<1>5. BackendType'
  <2>1. told' = told /\ told \in [gen : 0..Newest, obs : Observations]
    BY DEF TypeOK, BackendType, ChangeSpec, RequestDeletion
  <2>2. told' \in [gen : 0..Newest', obs : Observations]
    BY <2>1, <1>3, <1>4
  <2> QED
    BY <1>3, <2>2 DEF BackendType
<1>6. MachineType'
  BY DEF TypeOK, MachineType, ChangeSpec, RequestDeletion, docker, disk, memory
<1>7. IntakeType'
  <2>1. UNCHANGED <<highest, inbox, p, hearing, deleting, work>>
    BY DEF ChangeSpec, RequestDeletion, intake, context, pass
  <2> QED
    BY <2>1, <1>3, <1>4 DEF TypeOK, IntakeType
<1>8. LoopType'
  BY DEF TypeOK, LoopType, ChangeSpec, RequestDeletion, pass, memory, readiness, history
<1>9. CountsType'
  BY BoundsAssumption DEF TypeOK, CountsType, ChangeSpec, RequestDeletion, counts
<1> QED
  BY <1>5, <1>6, <1>7, <1>8, <1>9 DEF TypeOK

\* A step of the stream, the machine or the intake, or a restart of the agent, keeps
\* the types.
Surroundings == Reconnect \/ Listen \/ Link \/ Exit \/ Respawn \/ Remount

LEMMA SurroundingsKeepTypes == TypeOK /\ (Surroundings \/ Intake \/ Restart) => TypeOK'
<1> SUFFICES ASSUME TypeOK, Surroundings \/ Intake \/ Restart PROVE TypeOK'
  OBVIOUS
<1> USE DEF vars, backend, docker, disk, intake, context, pass, memory, readiness, history,
            counts, TypeOK, Surroundings, Reconnect, Listen, Link, Exit, Respawn, Remount,
            Trouble, Intake, HearDeletion, StopAlive, Arrive, Restart
<1>1. BackendType'
  BY DEF BackendType, Newest
<1>2. MachineType'
  <2>1. CASE Listen \/ Exit
    BY <2>1 DEF MachineType
  <2>2. CASE Link
    BY <2>2 DEF MachineType
  <2>3. CASE Respawn
    BY <2>3 DEF MachineType
  <2>4. CASE Remount
    BY <2>4 DEF MachineType, NewMount
  <2>5. CASE Reconnect \/ Intake
    BY <2>5 DEF MachineType
  <2>6. CASE Restart
    <3>1. UNCHANGED <<cont, asked, mount, mounted>> /\ mountID' = 0 /\ answered' = None
      BY <2>6
    <3>2. link' \in BOOLEAN
      BY <2>6
    <3> QED
      BY <3>1, <3>2 DEF MachineType, Hashes
  <2> QED
    BY <2>1, <2>2, <2>3, <2>4, <2>5, <2>6
<1>3. IntakeType'
  <2>1. \A g \in flight : g \in 1..Newest /\ specs[g].del \in BOOLEAN
    <3>1. specs \in Seq(AllSpecs) /\ flight \subseteq 1..Len(specs)
      BY DEF BackendType, Newest
    <3>2. \A g \in 1..Len(specs) : specs[g] \in AllSpecs
      BY ONLY <3>1
    <3>3. \A x \in AllSpecs : x.del \in BOOLEAN
      BY ONLY DEF AllSpecs
    <3> QED
      BY ONLY <3>1, <3>2, <3>3 DEF Newest
  <2>2. Newest \in Nat
    BY DEF BackendType, Newest
  <2>3. Newest' = Newest
    BY DEF Newest
  <2>4. CASE Surroundings
    BY <2>4, <2>3 DEF IntakeType
  <2>5. CASE Restart
    <3>1. /\ hearing' \in BOOLEAN /\ deleting' \in BOOLEAN /\ work' \in BOOLEAN
          /\ ~(deleting' /\ work')
      BY <2>5
    <3>2. highest' = 0 /\ inbox' = 0 /\ p' = 0
      BY <2>5
    <3> QED
      BY ONLY <3>1, <3>2, <2>2, <2>3 DEF IntakeType
  <2>6. CASE HearDeletion
    BY <2>6, <2>3 DEF IntakeType
  <2>7. ASSUME NEW g \in flight, Arrive(g) PROVE IntakeType'
    BY <2>7, <2>1, <2>2, <2>3 DEF IntakeType
  <2> QED
    BY ONLY Surroundings \/ Intake \/ Restart, <2>4, <2>5, <2>6, <2>7 DEF Intake
<1>4. LoopType'
  <2>1. CASE Restart
    <3>1. Absent \in Observations /\ Seen("none", None) \in Observations
      BY DEF Absent, Seen, Observations, States, Hashes
    <3> QED
      BY <2>1, <3>1 DEF LoopType, Hashes, Steps
  <2>2. CASE Surroundings
    <3>1. UNCHANGED <<pc, obs, last, readyHash, waitedHash, containerAlive, frpc, seenDown,
                      overdue>>
      BY <2>2
    <3>2. lost' \in BOOLEAN /\ behind' \in BOOLEAN
      BY <2>2 DEF LoopType, NewMount
    <3> QED
      BY ONLY LoopType, <3>1, <3>2 DEF LoopType
  <2>3. CASE Intake
    <3>1. UNCHANGED <<pc, obs, last, readyHash, waitedHash, containerAlive, frpc, seenDown, lost,
                      behind, overdue>>
      BY <2>3
    <3> QED
      BY ONLY LoopType, <3>1 DEF LoopType
  <2> QED
    BY <2>1, <2>2, <2>3
<1>5. CountsType'
  BY BoundsAssumption DEF CountsType
<1> QED
  BY ONLY <1>1, <1>2, <1>3, <1>4, <1>5 DEF TypeOK

\* What docker does late keeps the types.
LEMMA LateKeepsTypes == TypeOK /\ Later => TypeOK'
<1> SUFFICES ASSUME TypeOK, NEW r \in asked, Late(r) PROVE TypeOK'
  BY DEF Later
<1>1. MachineType'
  <2> DEFINE made == [Gone EXCEPT !.st = "created", !.hash = r.hash]
  <2>1. /\ asked \subseteq [what : {"run", "start"}, hash : Containers]
        /\ cont \in [st : {"none", "created", "up", "exited"}, hash : Hashes,
                     listens : BOOLEAN, mount : 0..mounted]
        /\ mount \in 0..mounted /\ 0 \in 0..mounted
    BY DEF TypeOK, MachineType
  <2>2. r.hash \in Containers
    BY <2>1
  <2>3. made \in [st : {"none", "created", "up", "exited"}, hash : Hashes,
                  listens : BOOLEAN, mount : 0..mounted]
    BY <2>1, <2>2 DEF Gone, Hashes
  <2>4. Again \in [st : {"none", "created", "up", "exited"}, hash : Hashes,
                   listens : BOOLEAN, mount : 0..mounted]
    BY <2>1 DEF Again
  <2>5. Start(r.hash) \in [what : {"run", "start"}, hash : Containers]
    BY <2>2 DEF Start
  <2>6. /\ cont' \in {made, Again} /\ asked' \subseteq asked \cup {Start(r.hash)}
        /\ UNCHANGED <<mount, mounted, link, mountID, answered>>
    BY DEF Late, disk, memory
  <2> QED
    BY ONLY TypeOK, <2>1, <2>3, <2>4, <2>5, <2>6 DEF TypeOK, MachineType
<1>2. BackendType' /\ IntakeType'
  BY DEF Late, backend, intake, context, pass, TypeOK, BackendType, IntakeType, Newest
<1>3. LoopType' /\ CountsType'
  BY BoundsAssumption
     DEF Late, pass, memory, readiness, counts, TypeOK, LoopType, CountsType
<1> QED
  BY <1>1, <1>2, <1>3 DEF TypeOK

\* A step of the main loop keeps the types.
LEMMA MainLoopKeepsTypes == TypeOK /\ Control /\ MainLoop => TypeOK'
<1> SUFFICES ASSUME TypeOK, Control, MainLoop PROVE TypeOK'
  OBVIOUS
<1> USE DEF backend, docker, disk, intake, context, pass, memory, readiness, history, counts,
            TypeOK, Trouble, Fails, Result
<1>6. PassHasSpec
  BY DEF Control
<1>1. BackendType'
  <2>1. CASE Post
    <3>1. p \in 0..Newest
      BY DEF BackendType, IntakeType, Newest
    <3>2. UNCHANGED <<specs, flight>> /\ told' \in [gen : 0..Newest, obs : Observations]
      BY <2>1, <3>1 DEF Post, BackendType, LoopType
    <3> QED
      BY <3>2 DEF BackendType, Newest
  <2>2. CASE UNCHANGED backend
    BY <2>2 DEF BackendType, Newest
  <2>3. MainLoop => Post \/ UNCHANGED backend
    BY DEF MainLoop, BeginPass, AliveContext, Disks, InspectFails, Keep, Remove, Removed,
           Apply, Pull, Gate, RemoveOld, AskRun, Run, LookAgain, FollowRemounts, AskRestart,
           RestartContainer, Tunnel, StillReady, GetsReady, Unresponsive, NotWaited, Terminate
  <2> QED
    BY <2>1, <2>2, <2>3
<1>2. MachineType'
  <2>1. pc \notin {"idle", "ended"} => Wish.disk \in BOOLEAN /\ Wish.cont \in Hashes
    BY <1>6, WishIsSpec
  <2>2. CASE Disks
    <3>1. Wish.disk \in BOOLEAN
      BY <2>1, <2>2 DEF Disks
    <3>2. UNCHANGED <<cont, asked, answered, link, mountID>>
      BY <2>2 DEF Disks
    <3>3. mounted' \in {mounted, mounted + 1} /\ mount' \in {mount, 0, mounted'}
      BY <2>2, <3>1 DEF Disks, NewMount
    <3> QED
      BY ONLY MachineType, <3>2, <3>3 DEF MachineType
  <2>3. CASE Remove \/ RemoveOld
    <3>1. Gone \in [st : {"none", "created", "up", "exited"}, hash : Hashes,
                    listens : BOOLEAN, mount : {0}]
      BY DEF Gone, Hashes
    <3>2. /\ cont' \in {cont, Gone} /\ answered' \in {answered, None} /\ asked' \subseteq asked
          /\ UNCHANGED <<mount, mounted, link, mountID>>
      BY <2>3 DEF Remove, RemoveOld, Removed
    <3>3. None \in Hashes
      BY DEF Hashes
    <3>4. cont' \in [st : {"none", "created", "up", "exited"}, hash : Hashes,
                     listens : BOOLEAN, mount : 0..mounted]
      BY ONLY MachineType, <3>1, <3>2 DEF MachineType
    <3> QED
      BY ONLY MachineType, <3>2, <3>3, <3>4 DEF MachineType
  <2>4. CASE AskRun \/ AskRestart
    <3>1. \A h \in Containers : Make(h) \in [what : {"run", "start"}, hash : Containers]
                              /\ Start(h) \in [what : {"run", "start"}, hash : Containers]
      BY DEF Make, Start
    <3>2. cont # Gone => cont.hash \in Containers
      BY DEF Control, HasHash
    <3>3. pc = "run" => Wish.cont \in Containers
      BY DEF Control, Replaceable
    <3>4. \/ asked' \subseteq asked
          \/ \E h \in Containers : asked' \subseteq asked \cup {Make(h), Start(h)}
      BY <2>4, <3>2, <3>3 DEF AskRun, AskRestart
    <3>5. UNCHANGED <<cont, answered, mount, mounted, link, mountID>>
      BY <2>4 DEF AskRun, AskRestart
    <3>6. asked' \subseteq [what : {"run", "start"}, hash : Containers]
      BY <3>1, <3>4 DEF MachineType
    <3> QED
      BY ONLY MachineType, <3>5, <3>6 DEF MachineType
  <2>5. CASE Run \/ RestartContainer
    <3>1. Started \in [st : {"none", "created", "up", "exited"}, hash : Hashes,
                       listens : BOOLEAN, mount : {mount}] \/ ~Run
      BY <2>1 DEF Run, Started
    <3>2. Again \in [st : {"none", "created", "up", "exited"}, hash : Hashes,
                     listens : BOOLEAN, mount : {mount}]
      BY DEF MachineType, Again
    <3>3. /\ cont' \in {cont, Again} \/ (Run /\ cont' = Started)
          /\ asked' \subseteq asked /\ answered' \in {answered, None}
          /\ UNCHANGED <<mount, mounted, link, mountID>>
      BY <2>5 DEF Run, RestartContainer
    <3>4. None \in Hashes
      BY DEF Hashes
    <3>5. cont' \in [st : {"none", "created", "up", "exited"}, hash : Hashes,
                     listens : BOOLEAN, mount : 0..mounted]
      BY ONLY MachineType, <3>1, <3>2, <3>3 DEF MachineType
    <3> QED
      BY ONLY MachineType, <3>3, <3>4, <3>5 DEF MachineType
  <2>6. CASE Tunnel \/ GetsReady
    <3>1. /\ link' \in BOOLEAN /\ answered' \in {answered, cont.hash}
          /\ UNCHANGED <<cont, asked, mount, mounted, mountID>>
      BY <2>6 DEF Tunnel, GetsReady, MachineType
    <3> QED
      BY ONLY MachineType, <3>1 DEF MachineType
  <2>7. CASE FollowRemounts
    <3>1. mountID' \in {0, mount, mountID} /\ UNCHANGED <<docker, mount, mounted, link>>
      BY <2>7 DEF FollowRemounts, Known
    <3> QED
      BY ONLY MachineType, <3>1 DEF MachineType
  <2>8. CASE Terminate
    <3>1. /\ cont' \in [st : {"none", "created", "up", "exited"}, hash : Hashes,
                        listens : BOOLEAN, mount : 0..mounted]
          /\ mount' \in {0, mount} /\ UNCHANGED <<asked, answered, mounted, link, mountID>>
      BY <2>8 DEF Terminate, Stopped, MachineType
    <3> QED
      BY ONLY MachineType, <3>1 DEF MachineType
  <2>9. CASE UNCHANGED <<docker, disk, link, mountID>>
    BY <2>9 DEF MachineType
  <2>10. \/ Disks \/ Remove \/ RemoveOld \/ AskRun \/ AskRestart \/ Run \/ RestartContainer
         \/ Tunnel \/ GetsReady
         \/ FollowRemounts \/ Terminate \/ UNCHANGED <<docker, disk, link, mountID>>
    BY DEF MainLoop, BeginPass, AliveContext, InspectFails, Keep, Apply, Pull, Gate, LookAgain,
           StillReady, Unresponsive, NotWaited, Post
  <2> QED
    BY ONLY <2>2, <2>3, <2>4, <2>5, <2>6, <2>7, <2>8, <2>9, <2>10
<1>3. IntakeType'
  <2>1. CASE BeginPass
    <3>1. p' = inbox /\ UNCHANGED <<specs, highest, inbox, hearing, deleting, work>>
      BY <2>1 DEF BeginPass
    <3> QED
      BY ONLY IntakeType, <3>1 DEF IntakeType, Newest
  <2>2. CASE AliveContext
    <3>1. work' = ~deleting /\ UNCHANGED <<specs, highest, inbox, p, hearing, deleting>>
      BY <2>2 DEF AliveContext
    <3> QED
      BY ONLY IntakeType, <3>1 DEF IntakeType, Newest
  <2>3. CASE Terminate
    <3>1. deleting' = TRUE /\ work' = FALSE /\ UNCHANGED <<specs, highest, inbox, p, hearing>>
      BY <2>3 DEF Terminate, StopAlive
    <3> QED
      BY ONLY IntakeType, <3>1 DEF IntakeType, Newest
  <2>4. CASE UNCHANGED <<specs, highest, inbox, p, hearing, deleting, work>>
    BY ONLY IntakeType, <2>4 DEF IntakeType, Newest
  <2>5. \/ BeginPass \/ AliveContext \/ Terminate
        \/ UNCHANGED <<specs, highest, inbox, p, hearing, deleting, work>>
    BY DEF MainLoop, Disks, InspectFails, Keep, Remove, Removed, Apply, Pull, Gate, RemoveOld,
           AskRun, Run, LookAgain, FollowRemounts, AskRestart, RestartContainer, Tunnel,
           StillReady, GetsReady, Unresponsive, NotWaited, Post
  <2> QED
    BY ONLY <2>1, <2>2, <2>3, <2>4, <2>5
<1>4. LoopType'
  <2>1. pc \notin {"idle", "ended"} => Wish.cont \in Hashes /\ Wish.tunnel \in BOOLEAN
    BY <1>6, WishIsSpec
  <2>2. \A st \in States, h \in Hashes : Seen(st, h) \in Observations
    BY SeenType
  <2>3. /\ None \in Hashes /\ Absent \in Observations
        /\ obs.hash \in Hashes /\ cont.hash \in Hashes
    <3>1. Absent \in Observations
      BY DEF Absent, Seen, Observations, States, Hashes
    <3> QED
      BY <3>1 DEF Hashes, LoopType, Observations, MachineType
  <2>4. CASE BeginPass \/ AliveContext \/ Disks \/ Apply \/ Terminate
    BY <2>4 DEF LoopType, Steps, BeginPass, AliveContext, Disks, NewMount, Apply, Terminate
  <2>5. CASE InspectFails
    BY <2>1, <2>2, <2>3, <2>5 DEF LoopType, Steps, States, InspectFails
  <2>6. CASE Keep \/ Remove
    BY <2>1, <2>2, <2>3, <2>6 DEF LoopType, Steps, States, Keep, Remove
  <2>7. CASE Pull \/ Gate
    BY <2>1, <2>2, <2>3, <2>7 DEF LoopType, Steps, States, Pull, Gate
  <2>8. CASE RemoveOld
    BY <2>1, <2>2, <2>3, <2>8 DEF LoopType, Steps, States, RemoveOld
  <2>9. CASE AskRun \/ Run \/ LookAgain
    BY <2>1, <2>2, <2>3, <2>9 DEF LoopType, Steps, States, AskRun, Run, LookAgain
  <2>10. CASE FollowRemounts
    BY <2>10 DEF LoopType, Steps, FollowRemounts, IsAlive
  <2>11. CASE AskRestart \/ RestartContainer
    BY <2>3, <2>11 DEF LoopType, Steps, AskRestart, RestartContainer
  <2>12. CASE Tunnel
    BY <2>1, <2>12 DEF LoopType, Steps, Tunnel
  <2>13. CASE StillReady \/ NotWaited \/ Post
    BY <2>2, <2>3, <2>13 DEF LoopType, Steps, States, StillReady, NotWaited, Post
  <2>14. CASE GetsReady \/ Unresponsive
    BY <2>2, <2>3, <2>14 DEF LoopType, Steps, States, GetsReady, Unresponsive
  <2> QED
    BY ONLY MainLoop, <2>4, <2>5, <2>6, <2>7, <2>8, <2>9, <2>10, <2>11, <2>12, <2>13, <2>14
       DEF MainLoop
<1>5. CountsType'
  <2>1. changes' = changes /\ (troubles' = troubles \/ Trouble)
    BY DEF MainLoop, BeginPass, AliveContext, Disks, InspectFails, Keep, Remove, Removed,
           Apply, Pull, Gate, RemoveOld, AskRun, Run, LookAgain, FollowRemounts, AskRestart,
           RestartContainer, Tunnel, StillReady, GetsReady, Unresponsive, NotWaited, Post,
           Terminate
  <2> QED
    BY ONLY CountsType, BoundsAssumption, <2>1 DEF CountsType, Trouble
<1> QED
  BY ONLY <1>1, <1>2, <1>3, <1>4, <1>5 DEF TypeOK

\* Every step keeps the types.
LEMMA StepKeepsTypes == TypeOK /\ Control /\ [Next]_vars => TypeOK'
<1> SUFFICES ASSUME TypeOK, Control, [Next]_vars PROVE TypeOK'
  OBVIOUS
<1>1. CASE Next
  BY <1>1, BackendKeepsTypes, SurroundingsKeepTypes, LateKeepsTypes, MainLoopKeepsTypes
     DEF Next, Surroundings
<1>2. CASE UNCHANGED vars
  BY <1>2
     DEF vars, backend, docker, disk, intake, context, pass, memory, readiness, history,
         counts, TypeOK, BackendType, MachineType, IntakeType, LoopType, CountsType, Newest
<1> QED
  BY <1>1, <1>2

\* The spec of a pass stays what it is while the pass is under way.
LEMMA WishKept ==
  ASSUME TypeOK, PassHasSpec, pc \notin {"idle", "ended"}, [Next]_vars, pc' # "idle"
  PROVE  p' = p /\ Wish' = Wish /\ Newest' >= Newest
<1>1. p \in 1..Newest /\ Newest \in Nat
  BY DEF PassHasSpec, TypeOK, BackendType, Newest
<1>2. p' = p
  BY DEF Next, vars, pass, ChangeSpec, RequestDeletion, Surroundings, Reconnect, Listen, Link,
         Exit, Respawn, Later, Late, Remount, Intake, HearDeletion, Arrive, Restart, MainLoop,
         BeginPass, AliveContext, Disks, InspectFails, Keep, Remove, Removed, Apply, Pull,
         Gate, RemoveOld, AskRun, Run, LookAgain, FollowRemounts, AskRestart, RestartContainer,
         Tunnel, StillReady, GetsReady, Unresponsive, NotWaited, Post, Terminate
<1>3. CASE ChangeSpec \/ RequestDeletion
  <2>1. \E w \in AllSpecs : Send(w)
    BY <1>3, BackendSends
  <2> QED
    BY <2>1, <1>1, <1>2, SendKeeps DEF Wish
<1>4. CASE UNCHANGED specs
  BY <1>4, <1>1, <1>2 DEF Wish, Newest
<1>5. ChangeSpec \/ RequestDeletion \/ UNCHANGED specs
  BY DEF Next, vars, backend, Reconnect, Listen, Link, Exit, Respawn, Later, Late, Remount,
         Intake, HearDeletion, Arrive, Restart, MainLoop, BeginPass, AliveContext, Disks,
         InspectFails, Keep, Remove, Removed, Apply, Pull, Gate, RemoveOld, AskRun, Run,
         LookAgain, FollowRemounts, AskRestart, RestartContainer, Tunnel, StillReady,
         GetsReady, Unresponsive, NotWaited, Post, Terminate
<1> QED
  BY <1>3, <1>4, <1>5

\* A pass has a spec as long as it is under way.
LEMMA PassKeepsSpec == TypeOK /\ PassHasSpec /\ [Next]_vars => PassHasSpec'
<1> SUFFICES ASSUME TypeOK, PassHasSpec, [Next]_vars, pc' \notin {"idle", "ended"}
             PROVE  p' \in 1..Newest'
  BY DEF PassHasSpec
<1>1. CASE pc \notin {"idle", "ended"}
  BY <1>1, WishKept DEF PassHasSpec, TypeOK, BackendType, Newest
<1>2. CASE pc \in {"idle", "ended"}
  <2>1. BeginPass \/ UNCHANGED <<pc, p>>
    BY <1>2
       DEF Next, vars, pass, ChangeSpec, RequestDeletion, Reconnect, Listen, Link, Exit,
           Respawn, Later, Late, Remount, Intake, HearDeletion, Arrive, Restart, MainLoop,
           AliveContext, Disks, InspectFails, Keep, Remove, Removed, Apply, Pull, Gate,
           RemoveOld, AskRun, Run, LookAgain, FollowRemounts, AskRestart, RestartContainer,
           Tunnel, StillReady, GetsReady, Unresponsive, NotWaited, Post, Terminate
  <2>2. CASE BeginPass
    BY <2>2 DEF BeginPass, backend, TypeOK, IntakeType, BackendType, Newest
  <2>3. CASE UNCHANGED <<pc, p>>
    BY <2>3, <1>2
  <2> QED
    BY <2>1, <2>2, <2>3
<1> QED
  BY <1>1, <1>2

\* What a step outside the main loop leaves alone.
LEMMA ElsewhereKept ==
  [Next]_vars => MainLoop \/ Restart \/ UNCHANGED <<pass, memory, readiness, seenDown>>
  BY DEF Next, vars, pass, memory, readiness, history, ChangeSpec, RequestDeletion, Reconnect,
         Listen, Link, Exit, Respawn, Later, Late, Remount, Intake, HearDeletion, Arrive

\* The way to docker run
LEMMA WayToRun ==
  MainLoop => /\ pc' \in {"pull", "gate", "rm", "run"} =>
                   Apply \/ Pull \/ Gate \/ RemoveOld
              /\ pc' = "run" => RemoveOld
              /\ pc' = "running" => AskRun
              /\ pc' = "look" => Run
  BY DEF MainLoop, BeginPass, AliveContext, Disks, InspectFails, Keep, Remove, Removed, Apply,
         Pull, Gate, RemoveOld, AskRun, Run, LookAgain, FollowRemounts, AskRestart,
         RestartContainer, Tunnel, StillReady, GetsReady, Unresponsive, NotWaited, Post,
         Terminate, Result

\* What a step may do to the container
LEMMA ContainerSteps ==
  [Next]_vars => \/ Listen \/ Exit \/ Respawn \/ Later \/ Remove \/ RemoveOld \/ Run
                 \/ RestartContainer \/ Terminate \/ UNCHANGED cont
  BY DEF Next, vars, docker, ChangeSpec, RequestDeletion, Reconnect, Link, Remount, Intake,
         HearDeletion, Arrive, Restart, MainLoop, BeginPass, AliveContext, Disks, InspectFails,
         Keep, Apply, Pull, Gate, AskRun, LookAgain, FollowRemounts, AskRestart, Tunnel,
         StillReady, GetsReady, Unresponsive, NotWaited, Post

\* What docker may do to the container when it is late
LEMMA LateContainer ==
  ASSUME TypeOK, NEW r \in asked, Late(r)
  PROVE  /\ r.hash \in Containers /\ cont'.hash = r.hash /\ pc' = pc
         /\ pc \notin {"running", "restarting"}
         /\ UNCHANGED <<answered, pass, memory, readiness>>
         /\ \A h \in Containers : Make(h) \in asked' => Make(h) \in asked
         /\ \/ /\ cont = Gone /\ cont'.st = "created"
               /\ Make(r.hash) \in asked /\ Make(r.hash) \notin asked'
            \/ cont.hash = r.hash /\ cont'.st = "up"
<1>1. r.hash \in Containers /\ r.what \in {"run", "start"}
      /\ r = [what |-> r.what, hash |-> r.hash]
  BY DEF TypeOK, MachineType
<1>2. \A h : Start(h) # Make(r.hash) /\ Make(h) # Start(r.hash)
  BY DEF Start, Make
<1>3. CASE r.what = "run" /\ cont = Gone
  <2>1. r = Make(r.hash)
    BY <1>1, <1>3 DEF Make
  <2>2. /\ cont' = [Gone EXCEPT !.st = "created", !.hash = r.hash]
        /\ asked' = (asked \ {r}) \cup {Start(r.hash)}
    BY <1>3, WishesAssumption, <1>1 DEF Late, Gone
  <2>3. cont'.hash = r.hash /\ cont'.st = "created"
    BY <2>2 DEF Gone
  <2> QED
    BY <1>1, <1>2, <1>3, <2>1, <2>2, <2>3 DEF Late, Waiting, pass
<1>4. CASE r.what = "start" /\ cont.hash = r.hash
  <2>1. cont'.hash = r.hash /\ cont'.st = "up" /\ asked' \subseteq asked
    BY <1>4 DEF Late, Again, TypeOK, MachineType
  <2> QED
    BY <1>1, <1>4, <2>1 DEF Late, Waiting, pass
<1> QED
  BY <1>3, <1>4 DEF Late

\* What a step may do to the container or the requests
LEMMA DockerSteps ==
  [Next]_vars => \/ Listen \/ Exit \/ Respawn \/ Later \/ Remove \/ RemoveOld \/ AskRun \/ Run
                 \/ AskRestart \/ RestartContainer \/ Terminate \/ UNCHANGED <<cont, asked>>
  BY DEF Next, vars, docker, ChangeSpec, RequestDeletion, Reconnect, Link, Remount, Intake,
         HearDeletion, Arrive, Restart, MainLoop, BeginPass, AliveContext, Disks, InspectFails,
         Keep, Apply, Pull, Gate, LookAgain, FollowRemounts, Tunnel, StillReady, GetsReady,
         Unresponsive, NotWaited, Post

\* Every step keeps what the main loop has found out about container and disk.
LEMMA StepKeepsControl == TypeOK /\ Control /\ [Next]_vars => Control'
<1> SUFFICES ASSUME TypeOK, Control, [Next]_vars PROVE Control'
  OBVIOUS
<1>1. PassHasSpec'
  BY PassKeepsSpec DEF Control
<1>2. pc \notin {"idle", "ended"} => Wish.cont \in Hashes /\ Wish.disk \in BOOLEAN
  BY WishIsSpec DEF Control
<1>3. pc' \in {"pull", "gate", "rm", "run", "running"} =>
        /\ Wish' = Wish
        /\ Apply \/ Pull \/ Gate \/ RemoveOld \/ AskRun \/ UNCHANGED <<pc, seenDown>>
  <2>1. CASE MainLoop
    <3>1. pc' \in {"pull", "gate", "rm", "run", "running"} =>
            Apply \/ Pull \/ Gate \/ RemoveOld \/ AskRun
      BY <2>1, WayToRun
    <3>2. Apply \/ Pull \/ Gate \/ RemoveOld \/ AskRun => pc \notin {"idle", "ended"}
      BY DEF Apply, Pull, Gate, RemoveOld, AskRun
    <3>3. pc \notin {"idle", "ended"} /\ pc' # "idle" => Wish' = Wish
      BY WishKept DEF Control
    <3> QED
      BY <3>1, <3>2, <3>3
  <2>2. CASE Restart
    BY <2>2 DEF Restart
  <2>3. CASE UNCHANGED <<pass, seenDown>>
    BY <2>3, WishKept DEF Control, pass
  <2> QED
    BY <2>1, <2>2, <2>3, ElsewhereKept
<1>4. HasHash'
  <2> USE DEF HasHash, Control
  <2>1. CASE Listen \/ Exit \/ Respawn
    BY <2>1 DEF Listen, Exit, Respawn, MachineType, TypeOK, pass
  <2>2. CASE Remove \/ RemoveOld
    BY <2>2 DEF Remove, RemoveOld, Removed, Result, docker, Gone
  <2>3. CASE Run
    BY <2>3 DEF Run, Result, Started, Replaceable
  <2>4. CASE RestartContainer
    <3>1. pc' # "running"
      BY <2>4 DEF RestartContainer
    <3>2. cont' = cont \/ (cont'.st = "up" /\ cont'.hash \in Containers)
      BY <2>4 DEF RestartContainer, Again, Start, TypeOK, MachineType
    <3> QED
      BY <3>1, <3>2
  <2>5. CASE Terminate
    <3>1. pc' # "running"
      BY <2>5 DEF Terminate
    <3>2. cont' = cont \/ (cont # Gone /\ cont'.st = "created" /\ cont'.hash = cont.hash)
      BY <2>5 DEF Terminate, Stopped, TypeOK, MachineType
    <3> QED
      BY <3>1, <3>2
  <2>6. CASE Later
    BY <2>6, LateContainer DEF Later, Waiting
  <2>7. CASE UNCHANGED cont
    <3>1. pc' = "running" => AskRun \/ pc = "running"
      BY <1>3, WayToRun, ElsewhereKept DEF pass, Restart
    <3> QED
      BY <2>7, <3>1 DEF AskRun, Gone, Result
  <2> QED
    BY ONLY <2>1, <2>2, <2>3, <2>4, <2>5, <2>6, <2>7, [Next]_vars, ContainerSteps
<1>8. NameTaken'
  <2> SUFFICES ASSUME NEW h \in Containers, cont'.hash = h PROVE Make(h) \notin asked'
    BY DEF NameTaken
  <2>1. CASE Later
    BY <2>1, LateContainer DEF Control, NameTaken, Later
  <2>2. CASE Run
    BY <2>2 DEF Run, Started, Control, NameTaken, Replaceable
  <2>3. CASE AskRun
    BY <2>3, WishesAssumption DEF AskRun, Gone, Control, NameTaken
  <2>4. CASE /\ cont'.hash \in {cont.hash, None}
             /\ \A g \in Containers : Make(g) \in asked' => Make(g) \in asked
    BY <2>4, WishesAssumption DEF Control, NameTaken
  <2>5. CASE Remove \/ RemoveOld
    BY <2>4, <2>5 DEF Remove, RemoveOld, Removed, Gone, docker
  <2>6. CASE RestartContainer
    BY <2>4, <2>6 DEF RestartContainer, Again, TypeOK, MachineType
  <2>7. CASE AskRestart
    BY <2>4, <2>7 DEF AskRestart, Make, Start
  <2>8. CASE Terminate
    BY <2>4, <2>8 DEF Terminate, Stopped, Gone, TypeOK, MachineType
  <2>9. CASE Listen \/ Exit \/ Respawn
    BY <2>4, <2>9 DEF Listen, Exit, Respawn, TypeOK, MachineType
  <2>10. CASE UNCHANGED <<cont, asked>>
    BY <2>4, <2>10
  <2> QED
    BY ONLY <2>1, <2>2, <2>3, <2>5, <2>6, <2>7, <2>8, <2>9, <2>10, [Next]_vars, DockerSteps
<1>5. GateHolds'
  <2> SUFFICES ASSUME pc' \in {"rm", "run"}, Wish.disk PROVE mount' # 0 \/ lost'
    BY <1>3 DEF GateHolds
  <2>1. CASE Gate
    BY <2>1 DEF Gate, disk
  <2>2. CASE Remount
    <3>1. mounted + 1 # 0
      BY DEF TypeOK, MachineType
    <3> QED
      BY <2>2, <3>1 DEF Remount, NewMount, pass
  <2>3. CASE RemoveOld \/ (UNCHANGED <<pc, mount, lost>>)
    BY <2>3 DEF Control, GateHolds, RemoveOld, disk
  <2>4. Gate \/ Remount \/ RemoveOld \/ UNCHANGED <<pc, mount, lost>>
    <3>1. CASE MainLoop
      BY <3>1, WayToRun DEF Apply, Pull, Result
    <3>2. ~Restart
      BY DEF Restart
    <3>3. CASE ~MainLoop
      BY <3>2, <3>3 DEF Next, vars, disk, pass, history, ChangeSpec, RequestDeletion,
         Reconnect,
         Listen, Link, Exit, Respawn, Later, Late, Intake, HearDeletion, Arrive
    <3> QED
      BY <3>1, <3>3
  <2> QED
    BY ONLY <2>1, <2>2, <2>3, <2>4
<1>6. Replaceable'
  <2> SUFFICES ASSUME pc' \in {"pull", "gate", "rm", "run", "running"}
               PROVE  /\ Wish.cont \in Containers
                      /\ pc' \in {"pull", "gate", "rm"} =>
                           seenDown' \/ (cont' # Gone /\ cont'.hash # Wish.cont)
    BY <1>3 DEF Replaceable
  <2>1. CASE Apply
    <3>1. Wish.cont \in Containers /\ cont' = cont
      BY <2>1, <1>2 DEF Apply, docker, Hashes
    <3>2. CASE cont.st = "up"
      BY <2>1, <3>1, <3>2 DEF Apply, Gone
    <3>3. CASE cont.st # "up"
      BY <2>1, <3>1, <3>3 DEF Apply
    <3> QED
      BY <3>2, <3>3
  <2>2. CASE Pull \/ Gate
    BY <2>2 DEF Pull, Gate, Result, docker, history, Control, Replaceable
  <2>3. CASE RemoveOld \/ AskRun
    BY <2>3 DEF RemoveOld, AskRun, Result, docker, Control, Replaceable
  <2>4. CASE UNCHANGED <<pc, seenDown>>
    <3>1. cont # Gone => cont' # Gone /\ cont'.hash = cont.hash
      <4>1. CASE Listen \/ Exit \/ Respawn
        <5>1. cont'.hash = cont.hash /\ cont'.st # "none"
          BY <4>1 DEF Listen, Exit, Respawn, TypeOK, MachineType
        <5> QED
          BY <5>1 DEF Gone
      <4>2. CASE Later
        BY <4>2, LateContainer DEF Later, Gone, Control, HasHash
      <4>3. ~(Remove \/ RemoveOld \/ Run \/ RestartContainer \/ Terminate)
        BY <2>4 DEF Remove, RemoveOld, Run, RestartContainer, Terminate, Result
      <4> QED
        BY <4>1, <4>2, <4>3, ContainerSteps
    <3> QED
      BY <2>4, <3>1 DEF Control, Replaceable
  <2> QED
    BY <2>1, <2>2, <2>3, <2>4, <1>3
<1>7. StartedIsOwn'
  <2>1. CASE Run
    <3>1. pc' = "look" => Wish.cont \in Containers /\ cont'.hash = Wish.cont
      BY <2>1 DEF Run, Result, Started, Control, Replaceable
    <3>2. pc' = "look" => Wish' = Wish
      BY <2>1, WishKept DEF Run, Control
    <3> QED
      BY <3>1, <3>2 DEF StartedIsOwn
  <2>2. CASE pc = "look" /\ pc' = "look"
    <3>1. Wish' = Wish
      BY <2>2, WishKept DEF Control
    <3>2. Listen \/ Exit \/ Respawn \/ Later \/ UNCHANGED cont
      BY <2>2, ContainerSteps DEF Remove, Removed, RemoveOld, AskRun, Run, AskRestart,
         RestartContainer, Terminate
    <3>4. Later => cont'.hash = cont.hash
      BY <2>2, LateContainer, WishesAssumption DEF Later, Control, StartedIsOwn, Gone
    <3>3. cont'.hash = cont.hash
      BY <3>2, <3>4 DEF Listen, Exit, Respawn, TypeOK, MachineType
    <3> QED
      BY <2>2, <3>1, <3>3 DEF Control, StartedIsOwn
  <2>3. pc' = "look" => Run \/ pc = "look"
    BY WayToRun, ElsewhereKept DEF pass, Restart
  <2> QED
    BY <2>1, <2>2, <2>3 DEF StartedIsOwn
<1> QED
  BY <1>1, <1>4, <1>5, <1>6, <1>7, <1>8 DEF Control

\* What was last seen stays so until docker run, or is what is seen now.
LEMMA StepKeepsLast == IInv /\ [Next]_vars => LastIsThere'
<1> SUFFICES ASSUME IInv, [Next]_vars PROVE LastIsThere'
  OBVIOUS
<1> USE DEF IInv, Readiness, LastIsThere
<1>1. pc \notin {"idle", "ended"} => Wish.cont \in Hashes
  BY WishIsSpec DEF Control
<1>2. Absent = [state |-> "absent", hash |-> None]
      /\ \A st, h : Seen(st, h).state = st /\ Seen(st, h).hash = h
  BY DEF Absent, Seen
<1>3. CASE MainLoop
  <2>1. CASE Keep
    BY <1>1, <1>2, <2>1 DEF Keep, Result, Hashes, docker
  <2>2. CASE Remove
    BY <1>2, <2>2 DEF Remove, Removed, Result
  <2>3. CASE Pull \/ Gate
    BY <1>2, <2>3 DEF Pull, Gate, Result, docker
  <2>4. CASE RemoveOld
    BY <1>2, <2>4 DEF RemoveOld, Result
  <2>5. CASE AskRun \/ Run
    BY <1>2, <2>5 DEF AskRun, Run, Result
  <2>6. CASE LookAgain
    BY <1>1, <1>2, <2>6 DEF LookAgain, Result, docker, Control, StartedIsOwn
  <2>7. CASE RestartContainer
    <3>1. cont'.hash = cont.hash
      BY <2>7 DEF RestartContainer, Again, TypeOK, MachineType
    <3>2. UNCHANGED last /\ pc = "restarting"
      BY <2>7 DEF RestartContainer, memory
    <3> QED
      BY <3>1, <3>2
  <2>8. CASE Terminate
    <3>1. cont'.hash = cont.hash
      BY <2>8 DEF Terminate, Stopped, Gone, TypeOK, MachineType
    <3>2. UNCHANGED last /\ pc = "terminate"
      BY <2>8 DEF Terminate, memory
    <3> QED
      BY <3>1, <3>2
  <2>9. CASE UNCHANGED <<last, cont>> /\ pc \notin {"run", "running", "look"}
    BY <2>9
  <2>10. \/ Keep \/ Remove \/ Pull \/ Gate \/ RemoveOld \/ AskRun \/ Run \/ LookAgain
         \/ RestartContainer \/ Terminate
         \/ (UNCHANGED <<last, cont>> /\ pc \notin {"run", "running", "look"})
    BY <1>3 DEF MainLoop, BeginPass, AliveContext, Disks, InspectFails, Apply, FollowRemounts,
       AskRestart, Tunnel, StillReady, GetsReady, Unresponsive, NotWaited, Post, docker, memory
  <2> QED
    BY ONLY <2>1, <2>2, <2>3, <2>4, <2>5, <2>6, <2>7, <2>8, <2>9, <2>10
<1>4. CASE Restart
  BY <1>2, <1>4 DEF Restart
<1>5. CASE ~MainLoop /\ UNCHANGED <<pass, memory>>
  <2>1. CASE Listen \/ Exit \/ Respawn
    <3>1. cont'.hash = cont.hash
      BY <2>1 DEF Listen, Exit, Respawn, TypeOK, MachineType
    <3> QED
      BY <1>5, <3>1 DEF pass, memory
  <2>2. CASE UNCHANGED cont
    BY <1>5, <2>2 DEF pass, memory
  <2>4. CASE Later
    <3>1. cont'.hash = cont.hash \/ cont.hash = None
      BY <2>4, LateContainer DEF Later, Gone
    <3> QED
      BY <1>5, <3>1, WishesAssumption DEF pass, memory
  <2>3. Listen \/ Exit \/ Respawn \/ Later \/ UNCHANGED cont
    BY <1>5, ContainerSteps DEF MainLoop
  <2> QED
    BY <2>1, <2>2, <2>3, <2>4
<1> QED
  BY <1>3, <1>4, <1>5, ElsewhereKept

\* Every step keeps what is known of the readiness.
LEMMA StepKeepsReadiness == IInv /\ [Next]_vars => Readiness'
<1> SUFFICES ASSUME IInv, [Next]_vars PROVE Readiness'
  OBVIOUS
<1> USE DEF IInv, Readiness
<1>1. pc \notin {"idle", "ended"} /\ pc' # "idle" => Wish' = Wish
  BY WishKept DEF Control
<1>2. \A st, h : Seen(st, h).state = st /\ Seen(st, h).hash = h
  BY DEF Seen
<1>3. Absent.state = "absent"
  BY DEF Absent, Seen
<1>4. ObsIsLast'
  <2>1. CASE MainLoop
    <3>1. CASE InspectFails
      BY <1>2, <1>3, <3>1 DEF InspectFails, ObsIsLast, LastIsThere, memory
    <3>2. CASE Keep \/ Remove
      BY <1>2, <1>3, <3>2 DEF Keep, Remove, Removed, Result, ObsIsLast
    <3>3. CASE Pull \/ Gate
      BY <1>2, <3>3 DEF Pull, Gate, Result, ObsIsLast
    <3>4. CASE RemoveOld \/ AskRun \/ Run \/ LookAgain
      BY <1>2, <3>4 DEF RemoveOld, AskRun, Run, LookAgain, Result, ObsIsLast
    <3>5. CASE FollowRemounts \/ AskRestart \/ RestartContainer
      BY <3>5 DEF FollowRemounts, AskRestart, RestartContainer, ObsIsLast, memory
    <3>6. CASE Tunnel
      BY <3>6 DEF Tunnel, IsAlive, ObsIsLast, memory
    <3>7. CASE pc' \notin {"remounts", "restart", "restarting", "tunnel", "ready"}
      BY <3>7 DEF ObsIsLast
    <3>8. \/ InspectFails \/ Keep \/ Remove \/ Pull \/ Gate \/ RemoveOld \/ AskRun \/ Run
          \/ LookAgain \/ FollowRemounts \/ AskRestart \/ RestartContainer \/ Tunnel
          \/ pc' \notin {"remounts", "restart", "restarting", "tunnel", "ready"}
      BY <2>1 DEF MainLoop, BeginPass, AliveContext, Disks, Apply, StillReady, GetsReady,
         Unresponsive, NotWaited, Post, Terminate
    <3> QED
      BY ONLY <3>1, <3>2, <3>3, <3>4, <3>5, <3>6, <3>7, <3>8
  <2>2. CASE Restart
    BY <2>2 DEF Restart, ObsIsLast
  <2>3. CASE UNCHANGED <<pass, memory>>
    BY <2>3 DEF pass, memory, ObsIsLast
  <2> QED
    BY <2>1, <2>2, <2>3, ElsewhereKept
<1>5. ReadyAnswered'
  <2>1. CASE GetsReady
    <3>1. cont.st = "up" /\ pc = "ready" /\ readyHash' = obs.hash /\ answered' = cont.hash
          /\ pc' = "post" /\ asked' = asked
      BY <2>1 DEF GetsReady, Open
    <3>2. obs = last /\ last.state = "running"
      BY <3>1 DEF ObsIsLast
    <3>3. cont.hash = obs.hash /\ obs.hash \in Containers
      BY <3>1, <3>2 DEF LastIsThere
    <3>4. Make(obs.hash) \notin asked
      BY <3>3 DEF Control, NameTaken
    <3> QED
      BY <3>1, <3>3, <3>4 DEF ReadyAnswered
  <2>2. CASE readyHash' = None
    BY <2>2 DEF ReadyAnswered
  <2>3. CASE (Remove \/ RemoveOld) /\ readyHash' = readyHash /\ readyHash' # None
    <3>1. /\ readyHash' = readyHash /\ pc' \notin {"run", "running"} /\ asked' \subseteq asked
          /\ cont' = Gone \/ (cont' = cont /\ answered' = answered)
      BY <2>3 DEF Remove, RemoveOld, Removed, Result, docker, readiness
    <3> QED
      BY <3>1 DEF ReadyAnswered, Gone
  <2>4. CASE Later
    <3>1. PICK r \in asked : Late(r)
      BY <2>4 DEF Later
    <3>2. /\ r.hash \in Containers /\ cont'.hash = r.hash /\ pc' = pc
          /\ UNCHANGED <<answered, readiness>>
          /\ \A h \in Containers : Make(h) \in asked' => Make(h) \in asked
          /\ Make(r.hash) \in asked \/ cont.hash = r.hash
      BY <3>1, LateContainer
    <3>3. readyHash' = readyHash /\ (readyHash = None \/ readyHash \in Containers)
      BY <3>2 DEF readiness, TypeOK, LoopType, Hashes
    <3> QED
      BY <3>2, <3>3 DEF ReadyAnswered
  <2>5. CASE AskRun \/ Run
    <3>1. readyHash' = readyHash /\ pc \in {"run", "running"}
      BY <2>5 DEF AskRun, Run, readiness
    <3> QED
      BY <3>1, <2>2 DEF ReadyAnswered
  <2>6. CASE AskRestart
    <3>1. \A h, g : Make(h) # Start(g)
      BY DEF Make, Start
    <3> QED
      BY <2>6, <3>1 DEF AskRestart, ReadyAnswered, readiness
  <2>7. CASE Terminate \/ Listen \/ Exit \/ Respawn
    <3>1. cont'.hash = cont.hash /\ UNCHANGED <<asked, answered, readyHash>>
          /\ (pc' \in {"run", "running"} => pc' = pc)
      BY <2>7 DEF Terminate, Stopped, Gone, Listen, Exit, Respawn, TypeOK, MachineType,
                  readiness, pass
    <3> QED
      BY <3>1 DEF ReadyAnswered
  <2>8. CASE /\ UNCHANGED <<docker, readyHash>>
             /\ pc' \in {"run", "running"} => pc' = pc
    BY <2>8 DEF ReadyAnswered, docker
  <2>9. /\ \/ RemoveOld \/ readyHash' = None \/ UNCHANGED readyHash \/ GetsReady \/ AskRun
        /\ \/ RemoveOld \/ readyHash' = None \/ AskRun
           \/ (pc' \in {"run", "running"} => pc' = pc)
    <3>1. MainLoop => RemoveOld \/ AskRun \/ pc' \notin {"run", "running"}
      BY WayToRun
    <3>2. MainLoop => \/ RemoveOld \/ readyHash' = None \/ UNCHANGED readyHash \/ GetsReady
                      \/ AskRun
      BY DEF readiness, MainLoop, BeginPass, AliveContext, Disks, InspectFails, Keep, Remove,
             Apply, Pull, Gate, Run, LookAgain, FollowRemounts, AskRestart, RestartContainer,
             Tunnel, StillReady, Unresponsive, NotWaited, Post, Terminate
    <3>3. Restart => readyHash' = None
      BY DEF Restart
    <3> QED
      BY <3>1, <3>2, <3>3, ElsewhereKept DEF pass, readiness
  <2>10. GetsReady \/ RestartContainer \/ Restart \/ RemoveOld \/ Remove \/ Later \/ AskRun
         \/ Run \/ AskRestart \/ Terminate \/ Listen \/ Exit \/ Respawn \/ UNCHANGED docker
    BY DEF Next, vars, docker, ChangeSpec, RequestDeletion, Reconnect, Link, Remount, Intake,
         HearDeletion, Arrive, MainLoop, BeginPass, AliveContext, Disks, InspectFails, Keep,
         Apply, Pull, Gate, LookAgain, FollowRemounts, Tunnel, StillReady, Unresponsive,
         NotWaited, Post
  <2>11. RestartContainer \/ Restart => readyHash' = None
    BY DEF RestartContainer, Restart
  <2>12. Remove \/ RemoveOld => readyHash' = None \/ readyHash' = readyHash
    BY DEF Remove, RemoveOld, readiness
  <2> QED
    BY ONLY <2>1, <2>2, <2>3, <2>4, <2>5, <2>6, <2>7, <2>8, <2>9, <2>10, <2>11, <2>12
<1>6. ReadyIsEarned'
  <2> SUFFICES ASSUME pc' = "post", obs'.state = "ready", Wish.tunnel
               PROVE  answered' = obs'.hash
    <3>1. pc' = "post" => pc \notin {"idle", "ended"}
      <4>1. MainLoop /\ pc' = "post" => pc \notin {"idle", "ended"}
        BY DEF MainLoop, BeginPass, AliveContext, Disks, InspectFails, Keep, Remove, Removed,
               Apply, Pull, Gate, RemoveOld, AskRun, Run, LookAgain, FollowRemounts,
               AskRestart, RestartContainer, Tunnel, StillReady, GetsReady, Unresponsive,
               NotWaited, Post, Terminate, Result
      <4> QED
        BY <4>1, ElsewhereKept DEF pass, Restart
    <3> QED
      BY <3>1, <1>1 DEF ReadyIsEarned
  <2>1. CASE MainLoop
    <3>1. CASE Tunnel
      BY <3>1 DEF Tunnel, ObsIsLast
    <3>2. CASE StillReady
      <4>1. readyHash = obs.hash /\ obs' = Seen("ready", obs.hash) /\ answered' = answered
        BY <3>2 DEF StillReady, docker
      <4>2. obs.hash # None
        BY <3>2, WishesAssumption DEF StillReady, ObsIsLast, LastIsThere
      <4>3. cont.hash = readyHash
        BY <3>2, <4>1 DEF StillReady, ObsIsLast, LastIsThere
      <4> QED
        BY <4>1, <4>2, <4>3, <1>2 DEF ReadyAnswered
    <3>3. CASE GetsReady
      <4>1. cont.st = "up" /\ pc = "ready" /\ obs'.hash = obs.hash /\ answered' = cont.hash
        BY <3>3, <1>2 DEF GetsReady, Open
      <4>2. obs = last /\ last.state = "running"
        BY <4>1 DEF ObsIsLast
      <4> QED
        BY <4>1, <4>2 DEF LastIsThere
    <3>4. CASE Unresponsive
      BY <3>4, <1>2 DEF Unresponsive
    <3>5. CASE NotWaited
      BY <3>5 DEF NotWaited, ObsIsLast
    <3>6. Tunnel \/ StillReady \/ GetsReady \/ Unresponsive \/ NotWaited
      BY <2>1
         DEF MainLoop, BeginPass, AliveContext, Disks, InspectFails, Keep, Remove, Removed,
             Apply, Pull, Gate, RemoveOld, AskRun, Run, LookAgain, FollowRemounts, AskRestart,
             RestartContainer, Post, Terminate, Result
    <3> QED
      BY ONLY <3>1, <3>2, <3>3, <3>4, <3>5, <3>6
  <2>2. CASE Restart
    BY <2>2 DEF Restart
  <2>3. CASE ~MainLoop /\ UNCHANGED pass
    <3>1. UNCHANGED answered \/ Restart
      BY <2>3 DEF Next, vars, docker, ChangeSpec, RequestDeletion, Reconnect, Listen, Link,
         Exit, Respawn, Later, Late, Remount, Intake, HearDeletion, Arrive
    <3> QED
      BY <3>1, <2>2, <2>3 DEF pass, ReadyIsEarned
  <2> QED
    BY <2>1, <2>2, <2>3, ElsewhereKept
<1> QED
  BY <1>4, <1>5, <1>6, StepKeepsLast

\* The invariant is inductive.
LEMMA IInvStep == IInv /\ [Next]_vars => IInv'
  BY StepKeepsTypes, StepKeepsControl, StepKeepsReadiness DEF IInv, Control

THEOREM Invariance == Spec => []IInv
<1> QED
  BY InitIInv, IInvStep, PTL DEF Spec

-----------------------------------------------------------------------------
(* What TLC checks for two containers holds for any.                        *)

\* Every variable keeps its type, and no context that works is that of an instance that
\* is to be deleted (aliveContext, stopAlive).
THEOREM TypeCorrect == Spec => []TypeOK
<1>1. IInv => TypeOK
  BY DEF IInv
<1> QED
  BY <1>1, Invariance, PTL

\* A container reported ready was seen to answer since its start (containerReadiness).
THEOREM ReadyEarned == Spec => []ReadyIsEarned
<1>1. IInv => ReadyIsEarned
  BY DEF IInv, Readiness
<1> QED
  BY <1>1, Invariance, PTL

\* docker run is not called without the disks of the spec (the start gate).
THEOREM DisksFirst == Spec => StartsOnDisks
<1>1. IInv /\ [Next]_vars =>
        [pc = "run" /\ pc' = "running" /\ Wish.disk => mount # 0 \/ lost]_pc
  BY DEF IInv, Control, GateHolds
<1> QED
  BY <1>1, Invariance, PTL DEF Spec, StartsOnDisks

\* Once the deletion is heard, docker is asked for no start, and starts none that it was not
\* asked for before (stopAlive; what the killing of a client leaves to docker).
THEOREM DeletionIsLast == Spec => NoneAfterDeletion
<1>1. IInv /\ [Next]_vars =>
        [deleting => /\ Asked' \subseteq Asked
                     /\ cont.st \in {"none", "created"} /\ cont'.st = "up" =>
                          cont'.hash \in Asked
        ]_<<cont, asked>>
  <2> SUFFICES ASSUME IInv, [Next]_vars, deleting
               PROVE  /\ Asked' \subseteq Asked
                      /\ cont.st \in {"none", "created"} /\ cont'.st = "up" =>
                           cont'.hash \in Asked
    OBVIOUS
  <2>1. ~work
    BY DEF IInv, TypeOK, IntakeType
  <2>2. CASE Listen \/ Exit \/ Respawn
    BY <2>2 DEF Listen, Exit, Respawn, Asked
  <2>3. CASE Remove \/ RemoveOld
    BY <2>3 DEF Remove, RemoveOld, Removed, Gone, docker, Asked
  <2>4. CASE AskRun \/ AskRestart
    BY <2>1, <2>4 DEF AskRun, AskRestart, Asked
  <2>5. CASE Later
    <3>1. PICK r \in asked : Late(r)
      BY <2>5 DEF Later
    <3>2. cont'.hash = r.hash /\ asked' \subseteq asked \cup {Start(r.hash)}
      BY <3>1, LateContainer DEF Late, IInv
    <3> QED
      BY <3>2 DEF Asked, Start
  <2>6. CASE Run
    <3>1. cont' = cont \/ (cont' = Started /\ Make(Wish.cont) \in asked)
      BY <2>6 DEF Run
    <3>2. asked' \subseteq asked
      BY <2>6 DEF Run
    <3> QED
      BY <3>1, <3>2 DEF Asked, Started, Make
  <2>7. CASE RestartContainer
    <3>1. /\ asked' \subseteq asked
          /\ cont' = cont \/ (cont' = Again /\ Start(cont.hash) \in asked)
      BY <2>7 DEF RestartContainer
    <3>2. Again.hash = cont.hash
      BY DEF Again, IInv, TypeOK, MachineType
    <3> QED
      BY <3>1, <3>2 DEF Asked, Start
  <2>8. CASE Terminate
    <3>1. cont' \in {cont, Stopped} /\ asked' = asked
      BY <2>8 DEF Terminate
    <3>2. Stopped = Gone \/ Stopped.st = "created"
      BY DEF Stopped, IInv, TypeOK, MachineType
    <3> QED
      BY <3>1, <3>2 DEF Asked, Gone
  <2>9. CASE UNCHANGED <<cont, asked>>
    BY <2>9 DEF Asked
  <2> QED
    BY <2>2, <2>3, <2>4, <2>5, <2>6, <2>7, <2>8, <2>9, DockerSteps
<1> QED
  BY <1>1, Invariance, PTL DEF Spec, NoneAfterDeletion

\* The container of the spec is not taken away while it runs (Decide, Reconcile).
THEOREM RunningKept == Spec => RunningIsKept
<1>1. IInv /\ [Next]_vars =>
        [cont.st = "up" /\ cont'.st = "none" => cont.hash # Wish.cont \/ seenDown]_cont
  <2> SUFFICES ASSUME IInv, [Next]_vars, cont.st = "up", cont'.st = "none"
               PROVE  cont.hash # Wish.cont \/ seenDown
    OBVIOUS
  <2>5. ~Later
    BY LateContainer DEF Later, IInv, Gone
  <2>1. ~(Listen \/ Exit \/ Respawn \/ RestartContainer \/ Terminate)
    BY DEF Listen, Exit, Respawn, RestartContainer, Again, Terminate, Stopped, Gone,
       IInv, TypeOK, MachineType
  <2>2. ~Run
    BY DEF Run, IInv, Control, HasHash
  <2>3. CASE Remove
    BY <2>3, WishesAssumption DEF Remove, IInv, Control, HasHash
  <2>4. CASE RemoveOld
    BY <2>4 DEF RemoveOld, IInv, Control, Replaceable
  <2> QED
    BY <2>1, <2>2, <2>3, <2>4, <2>5, ContainerSteps
<1> QED
  BY <1>1, Invariance, PTL DEF Spec, RunningIsKept

-----------------------------------------------------------------------------
(* What the agent remembers of a mount that is gone                         *)

\* As long as a container stays behind, the agent remembers that it runs, and a mount that
\* is not the one that is there; only the restart that is due may come first.
RemountIsNoted ==
  behind => \/ pc \in {"restart", "restarting"}
            \/ containerAlive /\ mountID # 0 /\ mountID # mount

\* There is no remount to be noted at first.
LEMMA InitNoted == Init => RemountIsNoted
  BY DEF Init, RemountIsNoted

\* A new mount is none that was noted before.
LEMMA NewMountNoted ==
  ASSUME TypeOK, RemountIsNoted, NewMount, UNCHANGED <<pc, containerAlive, mountID>>
  PROVE  RemountIsNoted'
<1>1. mountID \in 0..mounted /\ mounted \in Nat
  BY DEF TypeOK, MachineType
<1>2. mountID # mount'
  BY <1>1 DEF NewMount
<1>3. CASE behind
  BY <1>2, <1>3 DEF NewMount, RemountIsNoted
<1>4. CASE ~behind
  BY <1>2, <1>4 DEF NewMount, RemountIsNoted
<1> QED
  BY <1>3, <1>4

\* followRemounts forgets a remount only in a pass without the container or the disk.
LEMMA FollowNoted == RemountIsNoted /\ FollowRemounts => RemountIsNoted'
<1> SUFFICES ASSUME RemountIsNoted, FollowRemounts, behind'
             PROVE  \/ pc' \in {"restart", "restarting"}
                    \/ containerAlive' /\ mountID' # 0 /\ mountID' # mount'
  BY DEF RemountIsNoted
<1>1. behind /\ IsAlive /\ Wish.disk /\ pc = "remounts" /\ mount' = mount
  BY DEF FollowRemounts, disk
<1>2. containerAlive /\ mountID # 0 /\ mountID # mount
  BY <1>1 DEF RemountIsNoted
<1>3. CASE Known = mountID
  BY <1>1, <1>2, <1>3 DEF FollowRemounts
<1>4. CASE Known # mountID
  <2>1. Known = mount /\ mount # 0
    BY <1>1, <1>4 DEF Known
  <2> QED
    BY <1>1, <1>2, <1>4, <2>1 DEF FollowRemounts
<1> QED
  BY <1>3, <1>4

\* What the other steps do to what is remembered
LEMMA NotedSteps ==
  [Next]_vars =>
    \/ NewMount /\ UNCHANGED <<pc, containerAlive, mountID>>
    \/ NewMount /\ pc = "disks" /\ UNCHANGED <<containerAlive, mountID>>
    \/ FollowRemounts
    \/ behind' = FALSE
    \/ /\ behind' \in {behind, behind /\ mount = 0} /\ mount' \in {mount, 0}
       /\ pc \notin {"restart", "restarting"} \/ pc' \in {pc, "restarting"}
       /\ UNCHANGED <<containerAlive, mountID>>
  BY DEF Next, vars, disk, pass, memory, history, ChangeSpec, RequestDeletion, Reconnect,
         Listen, Link, Exit, Respawn, Later, Late, Remount, Intake, HearDeletion, Arrive,
         Restart, MainLoop, BeginPass, AliveContext, Disks, InspectFails, Keep, Remove,
         Removed, Apply, Pull, Gate, RemoveOld, AskRun, Run, LookAgain, AskRestart,
         RestartContainer, Tunnel, StillReady, GetsReady, Unresponsive, NotWaited, Post,
         Terminate, Result

\* Every step keeps a remount noted.
LEMMA StepNoted == TypeOK /\ RemountIsNoted /\ [Next]_vars => RemountIsNoted'
<1> SUFFICES ASSUME TypeOK, RemountIsNoted, [Next]_vars PROVE RemountIsNoted'
  OBVIOUS
<1>1. CASE NewMount /\ UNCHANGED <<pc, containerAlive, mountID>>
  BY <1>1, NewMountNoted
<1>2. CASE NewMount /\ pc = "disks" /\ UNCHANGED <<containerAlive, mountID>>
  <2>1. mountID \in 0..mounted /\ mounted \in Nat
    BY DEF TypeOK, MachineType
  <2>2. mountID # mount'
    BY <1>2, <2>1 DEF NewMount
  <2>3. behind' => containerAlive /\ mountID # 0
    BY <1>2 DEF NewMount, RemountIsNoted
  <2> QED
    BY <1>2, <2>2, <2>3 DEF RemountIsNoted
<1>3. CASE FollowRemounts
  BY <1>3, FollowNoted
<1>4. CASE behind' = FALSE
  BY <1>4 DEF RemountIsNoted
<1>5. CASE /\ behind' \in {behind, behind /\ mount = 0} /\ mount' \in {mount, 0}
           /\ pc \notin {"restart", "restarting"} \/ pc' \in {pc, "restarting"}
           /\ UNCHANGED <<containerAlive, mountID>>
  BY <1>5 DEF RemountIsNoted
<1> QED
  BY <1>1, <1>2, <1>3, <1>4, <1>5, NotedSteps

\* Whatever inspect and systemctl answered since a remount under a running container, it
\* is remembered.
THEOREM RemountsNoted == Spec => []RemountIsNoted
<1>1. IInv => TypeOK
  BY DEF IInv
<1> QED
  BY <1>1, InitNoted, StepNoted, Invariance, PTL DEF Spec

\* A pass that finds such a container running, and can read the invocation of its disk,
\* does not end without docker restart (followRemounts).
THEOREM RemountsRestart ==
  Spec => [][behind /\ pc = "remounts" /\ IsAlive /\ Wish.disk /\ mount # 0 /\ work
               => pc' # "tunnel"]_pc
<1>1. RemountIsNoted /\ [Next]_vars =>
        [behind /\ pc = "remounts" /\ IsAlive /\ Wish.disk /\ mount # 0 /\ work
           => pc' # "tunnel"]_pc
  <2> SUFFICES ASSUME RemountIsNoted, [Next]_vars, behind, pc = "remounts", IsAlive,
                      Wish.disk, mount # 0, work, pc' = "tunnel"
               PROVE  FALSE
    OBVIOUS
  <2>1. FollowRemounts
    BY DEF Next, vars, pass, ChangeSpec, RequestDeletion, Reconnect, Listen, Link, Exit,
           Respawn, Later, Late, Remount, Intake, HearDeletion, Arrive, Restart, MainLoop,
           BeginPass, AliveContext, Disks, InspectFails, Keep, Remove, Removed, Apply, Pull,
           Gate, RemoveOld, AskRun, Run, LookAgain, AskRestart, RestartContainer, Tunnel,
           StillReady, GetsReady, Unresponsive, NotWaited, Post, Terminate
  <2>2. containerAlive /\ mountID # 0 /\ mountID # mount
    BY DEF RemountIsNoted
  <2>3. Known = mount
    BY DEF Known
  <2> QED
    BY <2>1, <2>2, <2>3 DEF FollowRemounts
<1> QED
  BY <1>1, RemountsNoted, PTL DEF Spec
=============================================================================
