-------------------------- MODULE HostSetupProofs --------------------------
(***************************************************************************)
(* Theorems about HostSetup, for any number of faults and crashes.         *)
(***************************************************************************)
EXTENDS HostSetup, TLAPS

-----------------------------------------------------------------------------
(* The inductive invariant.                                                 *)

Pcs == {"idle", "install", "switch", "prepare", "dropin", "main", "dump", "unit", "reload",
        "daemon", "stopD", "stopC", "startC", "startD", "wait", "undo", "undoReload",
        "clean", "undoWait", "gaveUp", "gpu", "gpuStart", "last"}

\* The host, its files and its services; docker does not run without containerd.
Host ==
  /\ troubles \subseteq Troubles /\ modern \in BOOLEAN
  /\ conf \in [Files -> {"old", "new"}] /\ home \in BOOLEAN /\ loaded \in {"old", "new"}
  /\ ctrd \in {"down", "system", "own"} /\ docker \in {"down", "legacy", "containerd"}
  /\ docker # "down" => ctrd # "down"
  /\ made \in {"none", "legacy", "containerd"} /\ gpu \in {"none", "missing", "there"}

\* The process.
Process ==
  /\ pc \in Pcs /\ mode \in {"apply", "undo", "undoRestart"}
  /\ own \in BOOLEAN /\ err \in BOOLEAN /\ skipped \in BOOLEAN /\ ready \in BOOLEAN
  /\ stray \in BOOLEAN

Counts == faults \in 0..MaxFaults /\ crashes \in 0..MaxCrashes

\* How many files may have been written when the process is at p.
Written(p) ==
  IF p \in {"prepare", "dropin"} THEN 0
  ELSE IF p = "main" THEN 1
  ELSE IF p \in {"dump", "unit"} THEN 2
  ELSE IF p \in {"reload", "daemon"} THEN 3 ELSE 4

\* The undo log has an entry for each file that was written.
Log == undo \in Seq(Files \X {"old", "new"}) /\ Len(undo) <= Written(pc)

\* A process that is switching, restarting the services or taking the switch back.
Switching == {"prepare", "dropin", "main", "dump", "unit", "reload", "daemon", "stopD", "stopC",
              "startC", "startD", "wait", "undo", "undoReload", "clean", "undoWait", "gaveUp"}

\* Where docker and daemon.json agree about an application container, they go on to, and
\* the process does not come to the switch.
Kept ==
  /\ ready => pc = "idle"
  /\ pc = "switch" => docker # "down"
  /\ pc \in {"stopC", "startC"} => docker = "down"
  /\ made # "none" /\ ~stray => /\ docker \in {"down", made} /\ StoreAsked = made
                                /\ pc \notin Switching

IInv == Host /\ Process /\ Counts /\ Log /\ Kept

\* The initial states satisfy the invariant.
LEMMA InitIInv == Init => IInv
<1> SUFFICES ASSUME Init PROVE IInv
  OBVIOUS
<1>1. Host
  BY DEF Init, Host, Old
<1>2. Process /\ Kept
  BY DEF Init, Process, Kept, Pcs
<1>3. Counts /\ Log
  BY BoundsAssumption DEF Init, Counts, Log, Written
<1> QED
  BY <1>1, <1>2, <1>3 DEF IInv

-----------------------------------------------------------------------------
(* What starts and failures come to.                                        *)

\* Docker comes up with containerd only, and on the store it is asked for.
LEMMA DockerComesUp ==
  ASSUME Host, DockerStarts
  PROVE  /\ ctrd' \in {"down", "system", "own"} /\ docker' \in {"down", "legacy", "containerd"}
         /\ docker' # "down" => ctrd' # "down"
         /\ docker' \in {docker, StoreAsked} \/ docker' = "down"
         /\ docker # "down" => docker' = docker
BY DEF Host, DockerStarts, CtrdStarts, StoreAsked

-----------------------------------------------------------------------------
(* The steps of the setup.                                                  *)

\* Types of the host.
LEMMA SetupHost == IInv /\ Setup => Host'
<1> SUFFICES ASSUME IInv, Setup PROVE Host'
  OBVIOUS
<1> USE DEF host, files, services, process
<1>1. UNCHANGED <<host, made>> /\ Host
  BY DEF Setup, IInv
<1>2. conf' \in [Files -> {"old", "new"}] /\ home' \in BOOLEAN /\ loaded' \in {"old", "new"}
  <2>1. CASE UndoStep
    <3>1. conf' = conf \/ conf' = [conf EXCEPT ![Head(undo)[1]] = Head(undo)[2]]
      BY <2>1 DEF UndoStep
    <3>2. Head(undo) \in Files \X {"old", "new"}
      BY <2>1 DEF UndoStep, IInv, Log
    <3>3. Head(undo)[2] \in {"old", "new"}
      BY <3>2
    <3> QED
      BY <1>1, <2>1, <3>1, <3>3 DEF UndoStep, Host
  <2>2. CASE ~UndoStep
    BY <1>1, <2>2 DEF Host, Files, Setup, CheckDocker, Install, Switch, Prepare, Replace,
       WriteDropIn, WriteMain, Dump, WriteUnit, Reload, WriteDaemon, StopDocker, StopContainerd,
       StartContainerd, StartDocker, AwaitSwitch, Undone, UndoReload, Clean, AwaitDocker,
       GaveUp, ConfigureGpu, StartWithGpu, Finish
  <2> QED
    BY <2>1, <2>2
<1>3. gpu' \in {"none", "missing", "there"}
  BY <1>1 DEF Host, Setup, CheckDocker, Install, Switch, Prepare, Replace, WriteDropIn,
     WriteMain, Dump, WriteUnit, Reload, WriteDaemon, StopDocker, StopContainerd,
     StartContainerd, StartDocker, AwaitSwitch, UndoStep, Undone, UndoReload, Clean, AwaitDocker,
     GaveUp, ConfigureGpu, StartWithGpu, Finish
<1>4. /\ ctrd' \in {"down", "system", "own"} /\ docker' \in {"down", "legacy", "containerd"}
      /\ docker' # "down" => ctrd' # "down"
  <2>1. CASE DockerStarts
    BY <1>1, <2>1, DockerComesUp
  <2>2. CASE UNCHANGED services
    BY <1>1, <2>2 DEF Host
  <2>3. CASE docker' \in {docker, "down"} /\ ctrd' = ctrd
    BY <1>1, <2>3 DEF Host
  <2>4. CASE docker = "down" /\ docker' = docker /\ ctrd' \in {ctrd, "down", CtrdStarts}
    BY <1>1, <2>4 DEF Host, CtrdStarts
  <2> QED
    BY <2>1, <2>2, <2>3, <2>4 DEF IInv, Kept, Setup, CheckDocker, Install, Switch, Prepare,
       Replace, WriteDropIn, WriteMain, Dump, WriteUnit, Reload, WriteDaemon, StopDocker,
       StopContainerd, StartContainerd, StartDocker, AwaitSwitch, UndoStep, Undone, UndoReload,
       Clean, AwaitDocker, GaveUp, ConfigureGpu, StartWithGpu, Finish
<1> QED
  BY <1>1, <1>2, <1>3, <1>4 DEF Host

\* Types of the process, and its counters.
LEMMA SetupProcess == IInv /\ Setup => Process' /\ Counts'
<1> SUFFICES ASSUME IInv, Setup PROVE Process' /\ Counts'
  OBVIOUS
<1> USE DEF host, files, services, process
<1>1. pc' \in Pcs
  BY DEF IInv, Process, Pcs, Fails, GiveUp, Restarted, RestartFails, Setup, CheckDocker, Install,
     Switch, Prepare, Replace, WriteDropIn, WriteMain, Dump, WriteUnit, Reload, WriteDaemon,
     StopDocker, StopContainerd, StartContainerd, StartDocker, AwaitSwitch, UndoStep, Undone,
     UndoReload, Clean, AwaitDocker, GaveUp, ConfigureGpu, StartWithGpu, Finish
<1>2. mode' \in {"apply", "undo", "undoRestart"}
  BY DEF IInv, Process, Fails, GiveUp, Restarted, RestartFails, Setup, CheckDocker, Install,
     Switch, Prepare, Replace, WriteDropIn, WriteMain, Dump, WriteUnit, Reload, WriteDaemon,
     StopDocker, StopContainerd, StartContainerd, StartDocker, AwaitSwitch, UndoStep, Undone,
     UndoReload, Clean, AwaitDocker, GaveUp, ConfigureGpu, StartWithGpu, Finish
<1>3. /\ own' \in BOOLEAN /\ skipped' \in BOOLEAN /\ ready' \in BOOLEAN /\ stray' \in BOOLEAN
  BY DEF IInv, Process, Fails, GiveUp, Restarted, RestartFails, Setup, CheckDocker, Install,
     Switch, Prepare, Replace, WriteDropIn, WriteMain, Dump, WriteUnit, Reload, WriteDaemon,
     StopDocker, StopContainerd, StartContainerd, StartDocker, AwaitSwitch, UndoStep, Undone,
     UndoReload, Clean, AwaitDocker, GaveUp, ConfigureGpu, StartWithGpu, Finish
<1>4. err' \in BOOLEAN
  BY DEF IInv, Process, Fails, GiveUp, Restarted, RestartFails, Setup, CheckDocker, Install,
     Switch, Prepare, Replace, WriteDropIn, WriteMain, Dump, WriteUnit, Reload, WriteDaemon,
     StopDocker, StopContainerd, StartContainerd, StartDocker, AwaitSwitch, UndoStep, Undone,
     UndoReload, Clean, AwaitDocker, GaveUp, ConfigureGpu, StartWithGpu, Finish
<1>5. crashes' = crashes /\ (faults' = faults \/ (faults < MaxFaults /\ faults' = faults + 1))
  BY DEF Fault, Well, Setup, CheckDocker, Install, Switch, Prepare, Replace, WriteDropIn,
     WriteMain, Dump, WriteUnit, Reload, WriteDaemon, StopDocker, StopContainerd,
     StartContainerd, StartDocker, AwaitSwitch, UndoStep, Undone, UndoReload, Clean, AwaitDocker,
     GaveUp, ConfigureGpu, StartWithGpu, Finish
<1>6. Counts'
  BY <1>5, BoundsAssumption DEF IInv, Counts
<1> QED
  BY <1>1, <1>2, <1>3, <1>4, <1>6 DEF Process

\* The undo log.
LEMMA SetupLog == IInv /\ Setup => Log'
<1> SUFFICES ASSUME IInv, Setup PROVE Log'
  OBVIOUS
<1> USE DEF host, files, services, process
<1> DEFINE Entries == Files \X {"old", "new"}
<1>1. undo \in Seq(Entries) /\ Len(undo) <= Written(pc) /\ Len(undo) \in Nat
  BY DEF IInv, Log
<1>2. \A p \in Pcs : Written(p) \in 0..4
  BY DEF Written
<1>3. pc \in Pcs /\ pc' \in Pcs /\ Len(undo) <= 4
  BY <1>1, <1>2, SetupProcess DEF IInv, Process
<1>4. ASSUME NEW f \in Files, NEW next \in Pcs, NEW how, Replace(f, next, how),
             Written(next) = Written(pc) + 1
      PROVE  Log'
  <2>1. CASE pc' = next /\ undo' = <<<<f, conf[f]>>>> \o undo
    <3>1. <<f, conf[f]>> \in Entries
      BY DEF IInv, Host
    <3>2. undo' \in Seq(Entries) /\ Len(undo') = Len(undo) + 1
      BY <1>1, <2>1, <3>1
    <3> QED
      BY <1>1, <1>2, <1>3, <1>4, <2>1, <3>2 DEF Log
  <2>2. CASE pc' = "undo" /\ undo' = undo
    BY <1>1, <1>3, <2>2 DEF Log, Written
  <2> QED
    BY <1>4, <2>1, <2>2 DEF Replace, GiveUp
<1>5. CASE WriteDropIn
  BY <1>4, <1>5 DEF WriteDropIn, Written, Files, Pcs
<1>6. CASE WriteMain
  BY <1>4, <1>6 DEF WriteMain, Written, Files, Pcs
<1>7. CASE WriteUnit
  BY <1>4, <1>7 DEF WriteUnit, Written, Files, Pcs
<1>8. CASE WriteDaemon
  BY <1>4, <1>8 DEF WriteDaemon, Written, Files, Pcs
<1>9. CASE UndoStep
  <2>1. undo # <<>> /\ undo' = Tail(undo) /\ pc' = "undo"
    BY <1>9 DEF UndoStep
  <2>2. undo' \in Seq(Entries) /\ Len(undo') <= 4
    BY <1>1, <1>3, <2>1
  <2> QED
    BY <2>1, <2>2 DEF Log, Written
<1>10. CASE Switch
  <2>1. (undo' = undo /\ pc' = "gpu") \/ (undo' = <<>> /\ pc' = "prepare")
    BY <1>10 DEF Switch
  <2>2. <<>> \in Seq(Entries) /\ Len(<<>>) = 0
    OBVIOUS
  <2>3. CASE undo' = undo /\ pc' = "gpu"
    BY <1>1, <1>3, <2>3 DEF Log, Written
  <2>4. CASE undo' = <<>> /\ pc' = "prepare"
    BY <2>2, <2>4 DEF Log, Written
  <2> QED
    BY <2>1, <2>3, <2>4
<1>11. CASE /\ undo' = undo
            /\ \/ pc' \notin {"prepare", "dropin", "main", "dump", "unit", "reload", "daemon"}
               \/ pc = "prepare" /\ pc' = "dropin"
               \/ pc = "dump" /\ pc' \in {"unit", "daemon"}
               \/ pc = "reload" /\ pc' = "daemon"
  BY <1>1, <1>3, <1>11 DEF Log, Written
<1> QED
  BY <1>5, <1>6, <1>7, <1>8, <1>9, <1>10, <1>11
     DEF Setup, Fails, GiveUp, Restarted, RestartFails, CheckDocker, Install, Prepare, Dump,
     Reload, StopDocker, StopContainerd, StartContainerd, StartDocker, AwaitSwitch, Undone,
     UndoReload, Clean, AwaitDocker, GaveUp, ConfigureGpu, StartWithGpu, Finish

\* The store of the application container.
LEMMA SetupKept == IInv /\ Setup => Kept'
<1> SUFFICES ASSUME IInv, Setup PROVE Kept'
  OBVIOUS
<1> USE DEF host, files, services, process
<1>1. UNCHANGED <<troubles, made, stray>> /\ Host /\ Kept
  BY DEF Setup, IInv
<1>2. ready' => pc' = "idle"
  BY <1>1 DEF Kept, Setup, CheckDocker, Install, Switch, Prepare, Replace, WriteDropIn,
     WriteMain, Dump, WriteUnit, Reload, WriteDaemon, StopDocker, StopContainerd,
     StartContainerd, StartDocker, AwaitSwitch, UndoStep, Undone, UndoReload, Clean, AwaitDocker,
     GaveUp, ConfigureGpu, StartWithGpu, Finish
<1>3. pc' = "switch" => docker' # "down"
  BY DEF Fails, GiveUp, Restarted, RestartFails, Setup, CheckDocker, Install, Switch, Prepare,
     Replace, WriteDropIn, WriteMain, Dump, WriteUnit, Reload, WriteDaemon, StopDocker,
     StopContainerd, StartContainerd, StartDocker, AwaitSwitch, UndoStep, Undone, UndoReload,
     Clean, AwaitDocker, GaveUp, ConfigureGpu, StartWithGpu, Finish
<1>4. pc' \in {"stopC", "startC"} => docker' = "down"
  BY <1>1 DEF Kept, Fails, GiveUp, Restarted, RestartFails, Setup, CheckDocker, Install, Switch,
     Prepare, Replace, WriteDropIn, WriteMain, Dump, WriteUnit, Reload, WriteDaemon, StopDocker,
     StopContainerd, StartContainerd, StartDocker, AwaitSwitch, UndoStep, Undone, UndoReload,
     Clean, AwaitDocker, GaveUp, ConfigureGpu, StartWithGpu, Finish
<1>5. ASSUME made # "none", ~stray
      PROVE  /\ docker' \in {"down", made} /\ StoreAsked' = made
             /\ pc' \notin Switching
  <2>1. docker \in {"down", made} /\ StoreAsked = made /\ pc \notin Switching
    BY <1>1, <1>5 DEF Kept
  <2>2. pc \in Pcs \ Switching
    BY <2>1 DEF IInv, Process
  <2>3. CheckDocker \/ Install \/ Switch \/ ConfigureGpu \/ StartWithGpu \/ Finish
    BY <2>2 DEF Switching, Setup, Prepare, WriteDropIn, WriteMain, Dump, WriteUnit, Reload,
       WriteDaemon, StopDocker, StopContainerd, StartContainerd, StartDocker, AwaitSwitch,
       UndoStep, Undone, UndoReload, Clean, AwaitDocker, GaveUp
  <2>4. conf' = conf
    BY <2>3 DEF CheckDocker, Install, Switch, ConfigureGpu, StartWithGpu, Finish
  <2>5. StoreAsked' = made
    BY <1>1, <2>1, <2>4 DEF StoreAsked
  <2>6. docker' \in {docker, "down"} \/ DockerStarts
    BY <2>3 DEF CheckDocker, Install, Switch, ConfigureGpu, StartWithGpu, Finish
  <2>7. docker' \in {"down", made}
    BY <1>1, <2>1, <2>6, DockerComesUp
  <2>8. pc = "switch" => HasContainers
    BY <1>1, <1>5, <2>1 DEF Kept, HasContainers
  <2>9. pc' \notin Switching
    BY <2>3, <2>8 DEF Switching, Fails, CheckDocker, Install, Switch, ConfigureGpu, StartWithGpu,
       Finish
  <2> QED
    BY <2>5, <2>7, <2>9
<1> QED
  BY <1>1, <1>2, <1>3, <1>4, <1>5 DEF Kept

-----------------------------------------------------------------------------
(* Every step.                                                              *)

\* The container is made, and the process killed.
LEMMA OthersKeep == IInv /\ (RunContainer \/ Restart) => IInv'
<1> SUFFICES ASSUME IInv, RunContainer \/ Restart PROVE IInv'
  OBVIOUS
<1> USE DEF host, files, services, process
<1>1. CASE RunContainer
  <2>1. /\ UNCHANGED <<host, files, services, gpu, pc, process, faults, crashes>>
        /\ ready /\ docker # "down" /\ made' = docker /\ stray' = (docker # StoreAsked)
    BY <1>1 DEF RunContainer
  <2>2. Host' /\ Counts' /\ Log'
    BY <2>1 DEF IInv, Host, Counts, Log
  <2>3. Process'
    BY <2>1 DEF IInv, Process
  <2>4. StoreAsked' = StoreAsked
    BY <2>1 DEF StoreAsked
  <2>5. pc = "idle" /\ pc' = "idle"
    BY <2>1 DEF IInv, Kept
  <2>6. Kept'
    BY <2>1, <2>4, <2>5 DEF Kept, Switching
  <2> QED
    BY <2>2, <2>3, <2>6 DEF IInv
<1>2. CASE Restart
  <2>1. /\ UNCHANGED <<host, files, services, made, gpu, faults, stray>>
        /\ pc' = "idle" /\ undo' = <<>> /\ ready' = FALSE
    BY <1>2 DEF Restart
  <2>2. Host' /\ Process'
    BY <1>2, <2>1 DEF IInv, Host, Process, Pcs, Restart
  <2>3. Counts'
    BY <1>2, <2>1, BoundsAssumption DEF IInv, Counts, Restart
  <2>4. Log'
    BY <2>1 DEF Log, Written
  <2>5. Kept'
    BY <2>1 DEF IInv, Kept, StoreAsked, Switching
  <2> QED
    BY <2>2, <2>3, <2>4, <2>5 DEF IInv
<1> QED
  BY <1>1, <1>2

\* Every step, and a stutter, keeps the invariant.
LEMMA StepIInv == IInv /\ [Next]_vars => IInv'
<1> SUFFICES ASSUME IInv, [Next]_vars PROVE IInv'
  OBVIOUS
<1>1. CASE Setup
  BY <1>1, SetupHost, SetupProcess, SetupLog, SetupKept DEF IInv
<1>2. CASE RunContainer \/ Restart
  BY <1>2, OthersKeep
<1>3. CASE UNCHANGED vars
  BY <1>3 DEF vars, host, files, services, process, IInv, Host, Process, Counts, Log, Kept,
     StoreAsked
<1> QED
  BY <1>1, <1>2, <1>3 DEF Next

\* A process does not come to the switch while docker has the application container.
THEOREM Invariance == Spec => []IInv
<1>1. Init => IInv
  BY InitIInv
<1>2. IInv /\ [Next]_vars => IInv'
  BY StepIInv
<1> QED
  BY <1>1, <1>2, PTL DEF Spec

\* Every variable keeps its type, docker does not run without containerd, and the undo
\* log has no more entries than the switch has files (undoLog).
THEOREM TypeCorrect == Spec => []TypeOK
<1>1. IInv => TypeOK
  <2> SUFFICES ASSUME IInv PROVE TypeOK
    OBVIOUS
  <2>1. Len(undo) <= 4 /\ undo \in Seq(Files \X {"old", "new"})
    BY DEF IInv, Log, Written
  <2>2. {own, err, skipped, ready, stray} \subseteq BOOLEAN
    BY DEF IInv, Process
  <2> QED
    BY <2>1, <2>2 DEF IInv, Host, Process, Pcs, Counts, TypeOK
<1> QED
  BY <1>1, Invariance, PTL

\* The application container is not hidden by another store (dockerHasContainers).
THEOREM StoreKept == Spec => []ContainersStay
<1>1. IInv => ContainersStay
  BY DEF IInv, Kept, ContainersStay
<1> QED
  BY <1>1, Invariance, PTL

-----------------------------------------------------------------------------
(* A switch that nothing disturbs.                                          *)

\* The services and the files as they were found.
AsFound   == ctrd = "system" /\ docker = "legacy"
Untouched == conf = Old /\ loaded = "old"

\* The undo log knows what every file was that is not as it was.
LogFits ==
  /\ \A i \in DOMAIN undo : undo[i][2] = "old"
  /\ \A f \in Files : conf[f] = "new" => \E i \in DOMAIN undo : undo[i][1] = f

Forward == {"prepare", "dropin", "main", "dump", "unit", "reload", "daemon"}
Starts  == {"stopD", "stopC", "startC", "startD"}

\* Before the switch, nothing is changed.
CalmBefore ==
  /\ pc \in {"install", "switch", "prepare", "dropin"} \/ (pc = "idle" /\ ~ready) => Untouched
  /\ pc = "install" \/ (pc = "idle" /\ ~ready) => ctrd # "own" /\ docker # "containerd"
  /\ pc = "switch" => AsFound

\* On the way forward each file is written once, and the services are left alone until
\* all of them are.
CalmForward ==
  /\ pc \in Forward \cup {"wait"} \/ (pc \in Starts /\ mode = "apply") => LogFits
  /\ pc \in Forward => AsFound /\ mode = "apply" /\ conf["daemon"] = "old"
  /\ pc \in Forward \ {"reload", "daemon"} => conf["unit"] = "old" /\ loaded = "old"
  /\ pc = "main" => conf["main"] = "old"
  /\ pc \in {"dropin", "main", "dump"} /\ own => home
  /\ pc \in {"unit", "reload"} => home

\* On the way back the files come first, then the unit is loaded again and the services
\* restarted, if they may run on what was written.
CalmBack ==
  /\ pc = "undo" => LogFits /\ ~err /\ mode # "apply"
  /\ pc = "undo" /\ mode = "undo" => AsFound /\ conf["unit"] = "old" /\ loaded = "old"
  /\ pc = "undoReload" => conf = Old /\ mode = "undoRestart"
  /\ pc \in Starts /\ mode # "apply" => Untouched
  /\ pc = "startC" => ctrd = "down"
  /\ pc = "startD" /\ mode # "apply" => ctrd = "system" /\ ~err
  /\ pc \in {"startC", "startD"} => docker = "down"
  /\ pc \in {"clean", "undoWait", "gaveUp"} => AsFound /\ Untouched

\* And it ends with a containerd.
CalmAfter ==
  /\ BinaryStays
  /\ pc \in {"gpu", "gpuStart", "last"} => ctrd # "down"

CalmInv == CalmBefore /\ CalmForward /\ CalmBack /\ CalmAfter

\* Nothing is written at first.
LEMMA InitCalm == Init => CalmInv
<1> SUFFICES ASSUME Init PROVE CalmInv
  OBVIOUS
<1>1. BinaryStays
  BY DEF Init, BinaryStays, Old, Files
<1> QED
  BY <1>1 DEF Init, CalmInv, CalmBefore, CalmForward, CalmBack, CalmAfter, Untouched, Forward, Starts

\* A fault, once it has happened, is remembered.
LEMMA CalmAllAlong == IInv /\ [Next]_vars /\ Calm' => Calm /\ (Setup => UNCHANGED faults)
<1> SUFFICES ASSUME IInv, [Next]_vars, Calm' PROVE Calm /\ (Setup => UNCHANGED faults)
  OBVIOUS
<1>1. faults \in Nat /\ crashes \in Nat /\ faults' = 0 /\ crashes' = 0
  BY BoundsAssumption DEF IInv, Counts, Calm
<1>2. CASE Setup
  <2>1. crashes' = crashes /\ (faults' = faults \/ faults' = faults + 1)
    BY <1>2 DEF Fault, Well, Setup, CheckDocker, Install, Switch, Prepare, Replace, WriteDropIn,
       WriteMain, Dump, WriteUnit, Reload, WriteDaemon, StopDocker, StopContainerd,
       StartContainerd, StartDocker, AwaitSwitch, UndoStep, Undone, UndoReload, Clean,
       AwaitDocker, GaveUp, ConfigureGpu, StartWithGpu, Finish
  <2> QED
    BY <1>1, <2>1 DEF Calm
<1>3. CASE RunContainer
  BY <1>1, <1>3 DEF RunContainer, Calm
<1>4. CASE Restart
  BY <1>1, <1>4 DEF Restart
<1>5. CASE UNCHANGED vars
  BY <1>1, <1>5 DEF vars, Calm
<1> QED
  BY <1>2, <1>3, <1>4, <1>5 DEF Next

\* The file that is written is in the log as it was.
LEMMA ReplaceFits ==
  ASSUME IInv, LogFits, NEW f \in Files, conf[f] = "old",
         undo' = <<<<f, conf[f]>>>> \o undo, conf' = [conf EXCEPT ![f] = "new"]
  PROVE  LogFits'
<1> DEFINE e == <<f, conf[f]>>
<1>1. undo \in Seq(Files \X {"old", "new"}) /\ conf \in [Files -> {"old", "new"}]
  BY DEF IInv, Log, Host
<1>2. e \in Files \X {"old", "new"} /\ e[1] = f /\ e[2] = "old"
  OBVIOUS
<1> HIDE DEF e
<1>3. undo' = <<e>> \o undo
  BY DEF e
<1>4. /\ DOMAIN undo' = 1..(Len(undo) + 1) /\ undo'[1] = e /\ DOMAIN undo = 1..Len(undo)
      /\ \A i \in DOMAIN undo : i + 1 \in DOMAIN undo' /\ undo'[i + 1] = undo[i]
      /\ \A i \in DOMAIN undo' : i = 1 \/ (i - 1 \in DOMAIN undo /\ undo'[i] = undo[i - 1])
  BY <1>1, <1>2, <1>3
<1>5. \A i \in DOMAIN undo' : undo'[i][2] = "old"
  BY <1>2, <1>4 DEF LogFits
<1>6. ASSUME NEW g \in Files, conf'[g] = "new" PROVE \E i \in DOMAIN undo' : undo'[i][1] = g
  <2>1. CASE g = f
    <3>1. 1 \in DOMAIN undo'
      BY <1>1, <1>4
    <3> QED
      BY <1>2, <1>4, <2>1, <3>1
  <2>2. CASE g # f
    <3>1. conf[g] = "new"
      BY <1>1, <1>6, <2>2
    <3>2. PICK i \in DOMAIN undo : undo[i][1] = g
      BY <3>1 DEF LogFits
    <3> QED
      BY <1>4, <3>2
  <2> QED
    BY <2>1, <2>2
<1> QED
  BY <1>5, <1>6 DEF LogFits

\* The file that is put back needs the log no more.
LEMMA UndoFits ==
  ASSUME IInv, LogFits, undo # <<>>, undo' = Tail(undo),
         conf' = [conf EXCEPT ![Head(undo)[1]] = Head(undo)[2]]
  PROVE  LogFits' /\ (conf["unit"] = "old" => conf'["unit"] = "old")
<1>1. undo \in Seq(Files \X {"old", "new"}) /\ conf \in [Files -> {"old", "new"}]
  BY DEF IInv, Log, Host
<1>2. /\ DOMAIN undo' = 1..(Len(undo) - 1) /\ DOMAIN undo = 1..Len(undo) /\ Len(undo) \in Nat
      /\ \A i \in DOMAIN undo' : i + 1 \in DOMAIN undo /\ undo'[i] = undo[i + 1]
      /\ \A i \in DOMAIN undo : i = 1 \/ (i - 1 \in DOMAIN undo' /\ undo'[i - 1] = undo[i])
      /\ 1 \in DOMAIN undo /\ Head(undo) = undo[1]
  BY <1>1
<1>3. Head(undo)[2] = "old"
  BY <1>2 DEF LogFits
<1>4. \A i \in DOMAIN undo' : undo'[i][2] = "old"
  BY <1>2 DEF LogFits
<1>5. ASSUME NEW g \in Files, conf'[g] = "new" PROVE \E i \in DOMAIN undo' : undo'[i][1] = g
  <2>1. g # Head(undo)[1] /\ conf[g] = "new"
    BY <1>1, <1>3, <1>5
  <2>2. PICK i \in DOMAIN undo : undo[i][1] = g
    BY <2>1 DEF LogFits
  <2> QED
    BY <1>2, <2>1, <2>2
<1>6. conf["unit"] = "old" => conf'["unit"] = "old"
  BY <1>1, <1>3 DEF Files
<1> QED
  BY <1>4, <1>5, <1>6 DEF LogFits

\* With nothing left in the log every file is as it was.
LEMMA LogDone == IInv /\ LogFits /\ undo = <<>> => conf = Old
<1> SUFFICES ASSUME IInv, LogFits, undo = <<>> PROVE conf = Old
  OBVIOUS
<1>1. conf \in [Files -> {"old", "new"}] /\ DOMAIN undo = {}
  BY DEF IInv, Host
<1>2. \A f \in Files : conf[f] = "old"
  BY <1>1 DEF LogFits
<1> QED
  BY <1>1, <1>2 DEF Old

\* What docker's start comes to, containerd's first.
LEMMA DockerStarting ==
  DockerStarts => /\ ctrd' = IF ctrd = "down" THEN CtrdStarts ELSE ctrd
                  /\ docker' = IF docker # "down" THEN docker
                               ELSE IF ctrd' = "down" THEN "down" ELSE StoreAsked
  BY Zenon DEF DockerStarts

\* Before and on the way forward.
LEMMA ForwardCalm ==
  ASSUME IInv, CalmInv, UNCHANGED faults, UNCHANGED <<host, made>>,
         CheckDocker \/ Install \/ Switch \/ Prepare \/ WriteDropIn \/ WriteMain \/ Dump
           \/ WriteUnit \/ Reload \/ WriteDaemon
  PROVE  CalmInv'
<1> USE DEF host, files, services, process
<1>1. Host /\ Kept /\ faults \in Nat /\ pc \in Pcs
  BY BoundsAssumption DEF IInv, Counts, Process
<1>2. ~Fault
  BY <1>1 DEF Fault
<1>3. pc' \in Forward => mode' = "apply"
  BY DEF Forward, Fails, GiveUp, CalmInv, CalmForward, CheckDocker, Install, Switch, Prepare,
     Replace, WriteDropIn, WriteMain, Dump, WriteUnit, Reload, WriteDaemon
<1>4. CASE CheckDocker
  <2>1. /\ pc = "idle" /\ ~ready /\ UNCHANGED <<files, services, process>>
        /\ pc' = "install" \/ (pc' = "gpu" /\ docker # "down")
    BY <1>2, <1>4 DEF CheckDocker
  <2>2. Untouched /\ ctrd # "own" /\ docker # "containerd" /\ BinaryStays
    BY <2>1 DEF CalmInv, CalmBefore, CalmAfter
  <2>3. pc' = "gpu" => ctrd # "down"
    BY <1>1, <2>1 DEF Host
  <2> QED
    BY <1>3, <2>1, <2>2, <2>3 DEF CalmInv, CalmBefore, CalmForward, CalmBack, CalmAfter, Untouched,
       Forward, Starts, BinaryStays, Old
<1>5. CASE Install
  <2>1. pc' \in {"switch", "idle"} /\ UNCHANGED files /\ Untouched
    BY <1>5, <1>2 DEF Install, Fails, CalmInv, CalmBefore
  <2>2. AsFound'
    <3>1. ctrd # "own" /\ docker # "containerd"
      BY <1>5 DEF Install, CalmInv, CalmBefore
    <3>2. CtrdStarts = "system" /\ StoreAsked = "legacy"
      BY <2>1 DEF CtrdStarts, StoreAsked, Untouched, Old, Files
    <3>3. (docker # "down" /\ UNCHANGED services) \/ (docker = "down" /\ DockerStarts)
      BY <1>2, <1>5 DEF Install
    <3>4. CASE docker # "down" /\ UNCHANGED services
      BY <1>1, <3>1, <3>4 DEF Host, AsFound
    <3>5. CASE docker = "down" /\ DockerStarts
      BY <1>1, <3>1, <3>2, <3>5, DockerStarting DEF Host, AsFound
    <3> QED
      BY <3>3, <3>4, <3>5
  <2> QED
    BY <1>3, <2>1, <2>2 DEF CalmInv, CalmBefore, CalmForward, CalmBack, CalmAfter, Untouched, AsFound,
       Forward, Starts, BinaryStays, Old
<1>6. CASE Switch
  <2>1. pc' \in {"gpu", "prepare"} /\ UNCHANGED <<files, services>> /\ AsFound /\ Untouched
    BY <1>6 DEF Switch, CalmInv, CalmBefore
  <2>2. pc' = "prepare" => undo' = <<>>
    BY <1>6 DEF Switch
  <2>3. undo' = <<>> => LogFits'
    BY <2>1 DEF LogFits, Untouched, Old
  <2> QED
    BY <1>3, <2>1, <2>2, <2>3 DEF CalmInv, CalmBefore, CalmForward, CalmBack, CalmAfter, Untouched, AsFound,
       Forward, Starts, BinaryStays, Old, Files
<1>7. CASE Prepare
  <2>1. /\ UNCHANGED <<conf, loaded, services, undo>> /\ AsFound /\ Untouched /\ LogFits
        /\ \/ pc' = "dropin" /\ home' = (home \/ own')
           \/ pc' = "undo" /\ mode' = "undo" /\ err' = FALSE
    BY <1>2, <1>7 DEF Prepare, GiveUp, CalmInv, CalmBefore, CalmForward, Forward
  <2>2. LogFits'
    BY <2>1 DEF LogFits
  <2> QED
    BY <1>3, <2>1, <2>2 DEF CalmInv, CalmBefore, CalmForward, CalmBack, CalmAfter, Untouched, AsFound,
       Forward, Starts, BinaryStays, Old, Files
<1>8. ASSUME NEW f \in Files, NEW next, NEW how, Replace(f, next, how), conf[f] = "old", LogFits
      PROVE  /\ pc' = next /\ LogFits'
             /\ conf' = [conf EXCEPT ![f] = "new"] /\ UNCHANGED <<home, loaded, services, own, mode>>
             /\ \A g \in Files : g # f => conf'[g] = conf[g]
  <2>1. /\ pc' = next /\ UNCHANGED <<home, loaded, services, own, mode>>
        /\ conf' = [conf EXCEPT ![f] = "new"] /\ undo' = <<<<f, conf[f]>>>> \o undo
    BY <1>2, <1>8 DEF Replace
  <2>2. LogFits'
    BY <1>8, <2>1, ReplaceFits
  <2> QED
    BY <1>1, <2>1, <2>2 DEF Host
<1>9. CASE WriteDropIn
  <2>1. pc = "dropin" /\ Replace("dropin", "main", "undo") /\ "dropin" \in Files
    BY <1>9 DEF WriteDropIn, Files
  <2>2. /\ Untouched /\ LogFits /\ AsFound /\ (own => home) /\ BinaryStays
    BY <2>1 DEF CalmInv, CalmBefore, CalmForward, CalmAfter, Forward
  <2>3. \A g \in Files : conf[g] = "old"
    BY <2>2 DEF Untouched, Old
  <2>4. /\ pc' = "main" /\ LogFits' /\ UNCHANGED <<home, loaded, services, own, mode>>
        /\ \A g \in Files : g # "dropin" => conf'[g] = "old"
    BY <1>8, <2>1, <2>2, <2>3
  <2> QED
    BY <1>3, <2>2, <2>4 DEF CalmInv, CalmBefore, CalmForward, CalmBack, CalmAfter, Untouched, AsFound,
       Forward, Starts, BinaryStays, Files
<1>10. CASE WriteMain
  <2>1. pc = "main" /\ Replace("main", "dump", "undo") /\ "main" \in Files
    BY <1>10 DEF WriteMain, Files
  <2>2. /\ LogFits /\ AsFound /\ (own => home) /\ BinaryStays /\ loaded = "old"
        /\ conf["main"] = "old" /\ conf["unit"] = "old" /\ conf["daemon"] = "old"
    BY <2>1 DEF CalmInv, CalmForward, CalmAfter, Forward
  <2>3. /\ pc' = "dump" /\ LogFits' /\ UNCHANGED <<home, loaded, services, own, mode>>
        /\ \A g \in Files : g # "main" => conf'[g] = conf[g]
    BY <1>8, <2>1, <2>2
  <2> QED
    BY <1>3, <2>2, <2>3 DEF CalmInv, CalmBefore, CalmForward, CalmBack, CalmAfter, Untouched, AsFound,
       Forward, Starts, BinaryStays, Files
<1>11. CASE WriteUnit
  <2>1. pc = "unit" /\ Replace("unit", "reload", "undoRestart") /\ "unit" \in Files
    BY <1>11 DEF WriteUnit, Files
  <2>2. /\ LogFits /\ AsFound /\ home
        /\ conf["unit"] = "old" /\ conf["daemon"] = "old"
    BY <2>1 DEF CalmInv, CalmForward, Forward
  <2>3. /\ pc' = "reload" /\ LogFits' /\ UNCHANGED <<home, loaded, services, own, mode>>
        /\ \A g \in Files : g # "unit" => conf'[g] = conf[g]
    BY <1>8, <2>1, <2>2
  <2> QED
    BY <1>3, <2>2, <2>3 DEF CalmInv, CalmBefore, CalmForward, CalmBack, CalmAfter, Untouched, AsFound,
       Forward, Starts, BinaryStays, Files
<1>12. CASE WriteDaemon
  <2>1. pc = "daemon" /\ Replace("daemon", "stopD", "undoRestart") /\ "daemon" \in Files
    BY <1>12 DEF WriteDaemon, Files
  <2>2. LogFits /\ BinaryStays /\ conf["daemon"] = "old"
    BY <2>1 DEF CalmInv, CalmForward, CalmAfter, Forward
  <2>3. /\ pc' = "stopD" /\ LogFits' /\ UNCHANGED <<home, loaded, services, own, mode>>
        /\ \A g \in Files : g # "daemon" => conf'[g] = conf[g]
    BY <1>8, <2>1, <2>2
  <2>4. mode = "apply"
    BY <2>1 DEF CalmInv, CalmForward, Forward
  <2> QED
    BY <1>3, <2>2, <2>3, <2>4 DEF CalmInv, CalmBefore, CalmForward, CalmBack, CalmAfter, Untouched, AsFound,
       Forward, Starts, BinaryStays, Files
<1>13. CASE Dump
  <2>1. /\ LogFits /\ AsFound /\ (own => home) /\ BinaryStays /\ loaded = "old"
        /\ conf["unit"] = "old" /\ conf["daemon"] = "old"
    BY <1>13 DEF Dump, CalmInv, CalmForward, CalmAfter, Forward
  <2>2. /\ UNCHANGED <<files, services, undo, own>>
        /\ \/ pc' = "unit" /\ own
           \/ pc' = "daemon"
           \/ pc' = "undo" /\ mode' = "undo" /\ err' = FALSE
    BY <1>2, <1>13 DEF Dump, GiveUp
  <2>3. LogFits'
    BY <2>1, <2>2 DEF LogFits
  <2> QED
    BY <1>3, <2>1, <2>2, <2>3 DEF CalmInv, CalmBefore, CalmForward, CalmBack, CalmAfter, Untouched, AsFound,
       Forward, Starts, BinaryStays
<1>14. CASE Reload
  <2>1. LogFits /\ AsFound /\ home /\ conf["daemon"] = "old"
    BY <1>14 DEF Reload, CalmInv, CalmForward, Forward
  <2>2. /\ UNCHANGED <<conf, home, services, undo>> /\ pc' = "daemon"
    BY <1>2, <1>14 DEF Reload
  <2>3. LogFits'
    BY <2>1, <2>2 DEF LogFits
  <2> QED
    BY <1>3, <2>1, <2>2, <2>3 DEF CalmInv, CalmBefore, CalmForward, CalmBack, CalmAfter, Untouched, AsFound,
       Forward, Starts, BinaryStays
<1> QED
  BY <1>4, <1>5, <1>6, <1>7, <1>9, <1>10, <1>11, <1>12, <1>13, <1>14

\* The restart of the services, either way, and the wait for docker.
LEMMA RestartCalm ==
  ASSUME IInv, CalmInv, UNCHANGED faults, UNCHANGED <<host, made>>,
         StopDocker \/ StopContainerd \/ StartContainerd \/ StartDocker \/ AwaitSwitch
  PROVE  CalmInv'
<1> USE DEF host, files, services, process
<1>1. Host /\ faults \in Nat /\ mode \in {"apply", "undo", "undoRestart"}
  BY BoundsAssumption DEF IInv, Counts, Process
<1>2. ~Fault
  BY <1>1 DEF Fault
<1>3. UNCHANGED <<files, undo, own, ready>>
  BY DEF StopDocker, StopContainerd, StartContainerd, StartDocker, AwaitSwitch
<1>4. LogFits => LogFits'
  BY <1>3 DEF LogFits
<1>5. Untouched => CtrdStarts = "system" /\ StoreAsked = "legacy"
  BY DEF CtrdStarts, StoreAsked, Untouched, Old, Files
<1>6. BinaryStays'
  BY <1>3 DEF CalmInv, CalmAfter, BinaryStays
<1>7. mode = "apply" => LogFits
  BY DEF CalmInv, CalmForward, Starts, StopDocker, StopContainerd, StartContainerd, StartDocker,
     AwaitSwitch
<1>8. CASE StopDocker
  BY <1>2, <1>3, <1>4, <1>6, <1>8 DEF StopDocker, CalmInv, CalmBefore, CalmForward, CalmBack, CalmAfter,
     Untouched, Forward, Starts
<1>9. CASE StopContainerd
  BY <1>2, <1>3, <1>4, <1>6, <1>9 DEF IInv, Kept, StopContainerd, CalmInv, CalmBefore, CalmForward, CalmBack,
     CalmAfter, Untouched, Forward, Starts
<1>10. CASE StartContainerd
  BY <1>2, <1>3, <1>4, <1>5, <1>6, <1>10 DEF StartContainerd, CalmInv, CalmBefore, CalmForward,
     CalmBack, CalmAfter, Untouched, Forward, Starts
<1>11. CASE StartDocker
  <2>1. pc = "startD" /\ DockerStarts /\ docker = "down"
    BY <1>2, <1>11 DEF StartDocker, CalmInv, CalmBack
  <2>2. CASE mode = "apply"
    <3>1. \/ pc' = "wait"
          \/ pc' = "undo" /\ mode' = "undoRestart" /\ err' = FALSE
      BY <1>2, <1>11, <2>2 DEF StartDocker, Restarted, RestartFails, GiveUp
    <3> QED
      BY <1>4, <1>6, <1>7, <2>2, <3>1 DEF CalmInv, CalmBefore, CalmForward, CalmBack, CalmAfter,
         Forward, Starts
  <2>3. CASE mode # "apply"
    <3>1. Untouched /\ ctrd = "system" /\ ~err
      BY <2>1, <2>3 DEF CalmInv, CalmBack, Starts
    <3>2. AsFound'
      BY <1>5, <2>1, <3>1, DockerStarting DEF AsFound
    <3>3. pc' = "clean"
      BY <1>2, <1>11, <2>3, <3>1, <3>2 DEF StartDocker, Restarted, AsFound
    <3> QED
      BY <1>3, <1>6, <3>1, <3>2, <3>3 DEF CalmInv, CalmBefore, CalmForward, CalmBack, CalmAfter,
         Untouched, Forward, Starts
  <2> QED
    BY <2>2, <2>3
<1>12. CASE AwaitSwitch
  <2>1. LogFits
    BY <1>12 DEF AwaitSwitch, CalmInv, CalmForward
  <2>2. /\ UNCHANGED services
        /\ \/ pc' = "gpu" /\ ctrd # "down"
           \/ pc' = "undo" /\ mode' = "undoRestart" /\ err' = FALSE
    BY <1>2, <1>12 DEF AwaitSwitch, SwitchedOver, Recent, GiveUp
  <2> QED
    BY <1>4, <1>6, <2>1, <2>2 DEF CalmInv, CalmBefore, CalmForward, CalmBack, CalmAfter,
       Forward, Starts
<1> QED
  BY <1>8, <1>9, <1>10, <1>11, <1>12

\* On the way back.
LEMMA BackCalm ==
  ASSUME IInv, CalmInv, UNCHANGED faults, UNCHANGED <<host, made>>,
         UndoStep \/ Undone \/ UndoReload \/ Clean \/ AwaitDocker \/ GaveUp
  PROVE  CalmInv'
<1> USE DEF host, files, services, process
<1>1. Host /\ faults \in Nat /\ mode \in {"apply", "undo", "undoRestart"}
  BY BoundsAssumption DEF IInv, Counts, Process
<1>2. ~Fault
  BY <1>1 DEF Fault
<1>3. UNCHANGED <<services, mode, own, ready>>
  BY DEF UndoStep, Undone, UndoReload, Clean, AwaitDocker, GaveUp
<1>4. CASE UndoStep
  <2>1. /\ pc = "undo" /\ undo # <<>> /\ undo' = Tail(undo) /\ UNCHANGED <<pc, err, home, loaded>>
        /\ conf' = [conf EXCEPT ![Head(undo)[1]] = Head(undo)[2]]
    BY <1>2, <1>4 DEF UndoStep
  <2>2. LogFits /\ ~err /\ mode # "apply" /\ BinaryStays
    BY <2>1 DEF CalmInv, CalmBack, CalmAfter
  <2>3. LogFits' /\ (conf["unit"] = "old" => conf'["unit"] = "old")
    BY <2>1, <2>2, UndoFits
  <2>4. BinaryStays'
    <3>1. conf["unit"] \in {"old", "new"} /\ conf'["unit"] \in {"old", "new"}
      BY SetupHost, <1>1, <1>4, <2>1 DEF Host, Files, UndoStep, IInv, Log
    <3> QED
      BY <2>1, <2>2, <2>3, <3>1 DEF BinaryStays
  <2> QED
    BY <1>3, <2>1, <2>2, <2>3, <2>4 DEF CalmInv, CalmBefore, CalmForward, CalmBack, CalmAfter,
       AsFound, Forward, Starts
<1>5. CASE Undone
  <2>1. /\ pc = "undo" /\ undo = <<>> /\ UNCHANGED <<files, err>>
        /\ IF err THEN Fails ELSE pc' = IF mode = "undo" THEN "clean" ELSE "undoReload"
    BY <1>5 DEF Undone
  <2>2. LogFits /\ ~err /\ mode # "apply" /\ BinaryStays
        /\ (mode = "undo" => AsFound /\ loaded = "old")
    BY <2>1 DEF CalmInv, CalmBack, CalmAfter
  <2>3. conf = Old
    BY <2>1, <2>2, LogDone
  <2> QED
    BY <1>1, <1>3, <2>1, <2>2, <2>3 DEF CalmInv, CalmBefore, CalmForward, CalmBack, CalmAfter,
       AsFound, Untouched, Forward, Starts, BinaryStays
<1>6. CASE UndoReload
  <2>1. pc' = "stopD" /\ loaded' = conf["unit"] /\ UNCHANGED <<conf, home>> /\ conf = Old
        /\ mode = "undoRestart"
    BY <1>2, <1>6 DEF UndoReload, CalmInv, CalmBack
  <2> QED
    BY <1>3, <2>1 DEF CalmInv, CalmBefore, CalmForward, CalmBack, CalmAfter, Untouched, Old, Files,
       Forward, Starts, BinaryStays
<1>7. CASE Clean \/ AwaitDocker \/ GaveUp
  <2>1. AsFound /\ Untouched /\ UNCHANGED <<conf, loaded>> /\ pc' \in {"undoWait", "gaveUp", "gpu"}
    BY <1>2, <1>7 DEF Clean, AwaitDocker, GaveUp, CalmInv, CalmBack, AsFound
  <2> QED
    BY <1>3, <2>1 DEF CalmInv, CalmBefore, CalmForward, CalmBack, CalmAfter, AsFound, Untouched, Old,
       Files, Forward, Starts, BinaryStays
<1> QED
  BY <1>4, <1>5, <1>6, <1>7

\* After the switch, and beside it.
LEMMA LaterCalm ==
  ASSUME IInv, CalmInv, UNCHANGED faults, UNCHANGED host,
         ConfigureGpu \/ StartWithGpu \/ Finish \/ RunContainer
  PROVE  CalmInv'
<1> USE DEF host, files, services, process
<1>1. Host /\ faults \in Nat
  BY BoundsAssumption DEF IInv, Counts
<1>2. ~Fault
  BY <1>1 DEF Fault
<1>3. UNCHANGED files /\ BinaryStays
  BY DEF ConfigureGpu, StartWithGpu, Finish, RunContainer, CalmInv, CalmAfter
<1>4. CASE ConfigureGpu
  <2>1. pc' \in {"last", "gpuStart"} /\ ctrd' = ctrd /\ ctrd # "down"
    BY <1>1, <1>2, <1>4 DEF ConfigureGpu, CalmInv, CalmAfter
  <2> QED
    BY <1>3, <2>1 DEF CalmInv, CalmBefore, CalmForward, CalmBack, CalmAfter, Forward, Starts,
       BinaryStays
<1>5. CASE StartWithGpu
  <2>1. DockerStarts /\ ctrd # "down" /\ (docker' # "down" => pc' = "last")
    BY <1>2, <1>5 DEF StartWithGpu, CalmInv, CalmAfter
  <2>2. ctrd' = ctrd /\ docker' # "down"
    BY <1>1, <2>1, DockerStarting DEF StoreAsked
  <2> QED
    BY <1>3, <2>1, <2>2 DEF CalmInv, CalmBefore, CalmForward, CalmBack, CalmAfter, Forward, Starts,
       BinaryStays
<1>6. CASE Finish
  <2>1. pc' = "idle" /\ ready'
    BY <1>2, <1>6 DEF Finish
  <2> QED
    BY <1>3, <2>1 DEF CalmInv, CalmBefore, CalmForward, CalmBack, CalmAfter, Forward, Starts,
       BinaryStays
<1>7. CASE RunContainer
  BY <1>3, <1>7 DEF RunContainer, IInv, Kept, CalmInv, CalmBefore, CalmForward, CalmBack, CalmAfter,
     Untouched, Forward, Starts, BinaryStays
<1> QED
  BY <1>4, <1>5, <1>6, <1>7

\* Every step of a calm execution.
LEMMA StepCalm == IInv /\ (Calm => CalmInv) /\ [Next]_vars => (Calm' => CalmInv')
<1> SUFFICES ASSUME IInv, Calm => CalmInv, [Next]_vars, Calm' PROVE CalmInv'
  OBVIOUS
<1>1. CalmInv /\ (Setup => UNCHANGED faults)
  BY CalmAllAlong
<1>2. CASE Setup
  <2>1. UNCHANGED faults /\ UNCHANGED <<host, made>> /\ UNCHANGED host
    BY <1>1, <1>2 DEF Setup, host
  <2> QED
    BY <1>1, <1>2, <2>1, ForwardCalm, RestartCalm, BackCalm, LaterCalm DEF Setup
<1>3. CASE RunContainer
  BY <1>1, <1>3, LaterCalm DEF RunContainer
<1>4. ~Restart
  BY BoundsAssumption DEF IInv, Counts, Restart, Calm
<1>5. CASE UNCHANGED vars
  BY <1>1, <1>5 DEF vars, host, files, services, process, CalmInv, CalmBefore, CalmForward, CalmBack,
     CalmAfter, Untouched, AsFound, LogFits, BinaryStays
<1> QED
  BY <1>2, <1>3, <1>4, <1>5 DEF Next

\* UndoneAtFirst holds of every execution, whatever is wrong with the host for good: where
\* only that stands in the way of the switch, giving it up leaves files and services as they
\* were, and no unit ever names a containerd that is not there (undoLog.run,
\* giveUpContainerd).
THEOREM FirstSwitchUndone == Spec => []UndoneAtFirst
<1>1. Init => (Calm => CalmInv)
  BY InitCalm
<1>2. IInv /\ (Calm => CalmInv) /\ [Next]_vars => (Calm => CalmInv)'
  BY StepCalm
<1>3. (Calm => CalmInv) => UndoneAtFirst
  BY DEF CalmInv, CalmBack, CalmAfter, AsFound, Untouched, UndoneAtFirst, GivenUpIsUndone
<1> QED
  BY <1>1, <1>2, <1>3, Invariance, PTL DEF Spec
=============================================================================
