----------------------------- MODULE HostSetup -----------------------------
(***************************************************************************)
(* Preparing the host, as internal/hostsetup does at the first passes of   *)
(* the agent: docker is installed and made to keep its images in           *)
(* containerd, of a version that unpacks in parallel. Where the system's   *)
(* containerd is too old, one of the agent's own is put beside it. When    *)
(* any of it fails, an undo log puts back every file and the services are  *)
(* restarted. The log is kept in memory: a new process knows nothing of    *)
(* what the last one was doing.                                            *)
(*                                                                         *)
(* A definition introduced as "a mutant" is no part of the specification:  *)
(* it is a plausible mistake in the definition after it, which one of the  *)
(* properties must notice when it takes its place.                         *)
(***************************************************************************)
EXTENDS Naturals, Sequences

CONSTANTS
  MaxFaults,   \* bound on commands and writes that fail for once
  MaxCrashes   \* bound on how often the process is killed

ASSUME BoundsAssumption == MaxFaults \in Nat /\ MaxCrashes \in Nat

\* The files the switch writes: containerd's drop-in, its main config (the import of
\* the drop-in), the drop-in of its unit, docker's daemon.json.
Files == {"dropin", "main", "unit", "daemon"}

\* What may be wrong with a host for good: a config of the provider's own that cannot
\* be parsed or has imports, no way to the archive, an own containerd that does not
\* start, a docker that stays on its own store.
Troubles == {"config", "download", "own", "store"}

VARIABLES
  \* the host: its troubles; the system's containerd is recent; the files; the own
  \* containerd is unpacked; the unit drop-in systemd has loaded
  troubles, modern, conf, home, loaded,
  \* the services: which containerd runs, which store docker runs on; the store the
  \* application container was made in; the nvidia runtime is not needed, missing, there
  ctrd, docker, made, gpu,
  \* the process: where it is, whether it goes forward or takes back (the files, or the
  \* services too), the undo log, whether the own containerd is wanted, an error on
  \* the way; containerdSkipped, reachedReady
  pc, mode, undo, own, err, skipped, ready,
  faults, crashes,
  \* history: when the application container was made, docker ran on another store than
  \* daemon.json asked for, as an undo that failed or was cut off by a crash leaves it
  stray

host     == <<troubles, modern>>
files    == <<conf, home, loaded>>
services == <<ctrd, docker>>
process  == <<mode, undo, own, err, skipped, ready>>
vars     == <<host, files, services, made, gpu, pc, process, faults, crashes, stray>>

Old == [f \in Files |-> "old"]

TypeOK ==
  /\ troubles \subseteq Troubles /\ modern \in BOOLEAN
  /\ conf \in [Files -> {"old", "new"}] /\ home \in BOOLEAN /\ loaded \in {"old", "new"}
  /\ ctrd \in {"down", "system", "own"} /\ docker \in {"down", "legacy", "containerd"}
  /\ docker # "down" => ctrd # "down"
  /\ made \in {"none", "legacy", "containerd"} /\ gpu \in {"none", "missing", "there"}
  /\ pc \in {"idle", "install", "switch", "prepare", "dropin", "main", "dump", "unit",
             "reload", "daemon", "stopD", "stopC", "startC", "startD", "wait", "undo", "undoReload",
             "clean", "undoWait", "gaveUp", "gpu", "gpuStart", "last"}
  /\ mode \in {"apply", "undo", "undoRestart"} /\ undo \in Seq(Files \X {"old", "new"})
  /\ Len(undo) <= 4
  /\ {own, err, skipped, ready, stray} \subseteq BOOLEAN
  /\ faults \in 0..MaxFaults /\ crashes \in 0..MaxCrashes

Init ==
  /\ troubles \in SUBSET Troubles /\ modern \in BOOLEAN
  /\ conf = Old /\ home = FALSE /\ loaded = "old"
  /\ \/ ctrd = "system" /\ docker = "legacy"
     \/ ctrd = "down" /\ docker = "down"
  /\ made = "none" /\ gpu \in {"none", "missing"}
  /\ pc = "idle" /\ mode = "apply" /\ undo = <<>> /\ own = FALSE /\ err = FALSE
  /\ skipped = FALSE /\ ready = FALSE /\ faults = 0 /\ crashes = 0
  /\ stray = FALSE

Fault == faults < MaxFaults /\ faults' = faults + 1
Well  == UNCHANGED faults

\* The step returns an error; the next pass begins anew.
Fails == pc' = "idle"

-----------------------------------------------------------------------------
(* systemd and docker.                                                      *)

\* What comes up when containerd is started: the binary its loaded unit names.
CtrdStarts ==
  IF loaded = "old" THEN "system" ELSE IF home /\ "own" \notin troubles THEN "own" ELSE "down"

\* The store docker comes up with, as daemon.json asks for it.
StoreAsked ==
  IF conf["daemon"] = "new" /\ "store" \notin troubles THEN "containerd" ELSE "legacy"

\* Starting docker starts containerd too, and does nothing to a docker that runs.
DockerStarts ==
  /\ ctrd' = IF ctrd = "down" THEN CtrdStarts ELSE ctrd
  /\ docker' = CASE docker # "down" -> docker
                 [] docker = "down" /\ ctrd' = "down" -> "down"
                 [] OTHER -> StoreAsked

\* The containerd that runs is recent: it unpacks in parallel.
Recent == ctrd = "own" \/ (ctrd = "system" /\ modern)

\* containerdReady: a recent containerd runs, it has the agent's config, and docker
\* uses it.
SwitchedOver ==
  /\ Recent
  /\ conf["dropin"] = "new" /\ conf["main"] = "new" /\ docker = "containerd"

\* docker lists the containers made in the store it runs on.
HasContainers == made # "none" /\ docker = made

-----------------------------------------------------------------------------
(* The docker step.                                                         *)

\* A step of the setup that is found done is passed over.
CheckDocker ==
  /\ pc = "idle" /\ ~ready
  /\ \/ Well /\ pc' = IF docker # "down" /\ (skipped \/ SwitchedOver) THEN "gpu" ELSE "install"
     \/ Fault /\ pc' = "install"
  /\ UNCHANGED <<files, services, gpu, process>>

\* docker is there; or its installer and its start are run, which may fail.
Install ==
  /\ pc = "install"
  /\ \/ docker # "down" /\ pc' = "switch" /\ Well /\ UNCHANGED services
     \/ /\ (docker = "down" /\ Well) \/ Fault
        /\ DockerStarts /\ IF docker' = "down" THEN Fails ELSE pc' = "switch"
     \/ Fault /\ Fails /\ UNCHANGED services
  /\ UNCHANGED <<files, gpu, process>>

\* A mutant: docker is not asked for containers.
SwitchAnyway ==
  /\ pc = "switch" /\ Well /\ pc' = "prepare"
  /\ mode' = "apply" /\ undo' = <<>> /\ UNCHANGED skipped
  /\ UNCHANGED <<files, services, gpu, own, err, ready>>

\* A docker with containers, or one that does not say, stays as it is.
Switch ==
  /\ pc = "switch"
  /\ \/ /\ (HasContainers /\ Well) \/ Fault
        /\ skipped' = TRUE /\ pc' = "gpu" /\ UNCHANGED <<mode, undo>>
     \/ /\ ~HasContainers /\ Well
        /\ pc' = "prepare" /\ mode' = "apply" /\ undo' = <<>> /\ UNCHANGED skipped
  /\ UNCHANGED <<files, services, gpu, own, err, ready>>

\* giveUpContainerd begins.
GiveUp(how) == skipped' = TRUE /\ pc' = "undo" /\ mode' = how /\ err' = FALSE

\* The configs are parsed, and the own containerd is downloaded when the one that runs is
\* too old, or does not tell its version.
Prepare ==
  /\ pc = "prepare"
  /\ (own' = ~Recent /\ Well) \/ (own' = TRUE /\ Fault)
  /\ LET impossible == "config" \in troubles \/ (own' /\ ~home /\ "download" \in troubles) IN
     \/ /\ ~impossible
        /\ home' = (home \/ own') /\ pc' = "dropin" /\ UNCHANGED <<mode, err, skipped>>
     \/ /\ impossible \/ faults' > faults
        /\ GiveUp("undo") /\ UNCHANGED home
  /\ UNCHANGED <<conf, loaded, services, gpu, undo, ready>>

\* undoLog.replace: the file is replaced whole and what it was is noted; or it stays.
Replace(file, next, how) ==
  /\ \/ /\ Well /\ pc' = next
        /\ conf' = [conf EXCEPT ![file] = "new"] /\ undo' = <<<<file, conf[file]>>>> \o undo
        /\ UNCHANGED <<mode, err, skipped>>
     \/ Fault /\ GiveUp(how) /\ UNCHANGED <<conf, undo>>
  /\ UNCHANGED <<home, loaded, services, gpu, own, ready>>

WriteDropIn == pc = "dropin" /\ Replace("dropin", "main", "undo")
WriteMain   == pc = "main" /\ Replace("main", "dump", "undo")
WriteUnit   == pc = "unit" /\ Replace("unit", "reload", "undoRestart")
WriteDaemon == pc = "daemon" /\ Replace("daemon", "stopD", "undoRestart")

\* The containerd that is to run is asked for its config. One that is too old does
\* not know the setting.
Dump ==
  /\ pc = "dump"
  /\ \/ /\ (own \/ modern) /\ Well /\ pc' = IF own THEN "unit" ELSE "daemon"
        /\ UNCHANGED <<mode, err, skipped>>
     \/ ((~own /\ ~modern /\ Well) \/ Fault) /\ GiveUp("undo")
  /\ UNCHANGED <<files, services, gpu, undo, own, ready>>

Reload ==
  /\ pc = "reload"
  /\ \/ loaded' = conf["unit"] /\ Well /\ pc' = "daemon" /\ UNCHANGED <<mode, err, skipped>>
     \/ Fault /\ GiveUp("undoRestart") /\ UNCHANGED loaded
  /\ UNCHANGED <<conf, home, services, gpu, undo, own, ready>>

-----------------------------------------------------------------------------
(* restartContainerdAndDocker, on the way forward and on the way back.      *)

Restarted ==
  pc' = (IF mode = "apply" THEN "wait" ELSE "clean") /\ UNCHANGED <<mode, err, skipped>>

\* A mutant: the files are put back, the services are left as they are.
RestartFailsAsItIs ==
  IF mode = "apply" THEN GiveUp("undo") ELSE Fails /\ UNCHANGED <<mode, err, skipped>>

RestartFails ==
  IF mode = "apply" THEN GiveUp("undoRestart") ELSE Fails /\ UNCHANGED <<mode, err, skipped>>

StopDocker ==
  /\ pc = "stopD"
  /\ \/ docker' = "down" /\ Well /\ pc' = "stopC" /\ UNCHANGED <<mode, err, skipped>>
     \/ docker' \in {docker, "down"} /\ Fault /\ RestartFails
  /\ UNCHANGED <<files, ctrd, gpu, undo, own, ready>>

StopContainerd ==
  /\ pc = "stopC"
  /\ \/ ctrd' = "down" /\ Well /\ pc' = "startC" /\ err' = FALSE
     \/ ctrd' \in {ctrd, "down"} /\ Fault /\ pc' = "startD" /\ err' = TRUE
  /\ UNCHANGED <<files, docker, gpu, mode, undo, own, skipped, ready>>

StartContainerd ==
  /\ pc = "startC" /\ pc' = "startD"
  /\ \/ ctrd' = CtrdStarts /\ Well /\ err' = (ctrd' = "down")
     \/ ctrd' \in {ctrd, CtrdStarts} /\ Fault /\ err' = TRUE
  /\ UNCHANGED <<files, docker, gpu, mode, undo, own, skipped, ready>>

\* docker is started whatever became of containerd.
StartDocker ==
  /\ pc = "startD"
  /\ \/ DockerStarts /\ Well /\ IF err \/ docker' = "down" THEN RestartFails ELSE Restarted
     \/ (DockerStarts \/ UNCHANGED services) /\ Fault /\ RestartFails
  /\ UNCHANGED <<files, gpu, undo, own, ready>>

\* docker uses containerd, or does not for as long as it is asked.
AwaitSwitch ==
  /\ pc = "wait"
  /\ \/ SwitchedOver /\ Well /\ pc' = "gpu" /\ UNCHANGED <<mode, err, skipped>>
     \/ ((~SwitchedOver /\ Well) \/ Fault) /\ GiveUp("undoRestart")
  /\ UNCHANGED <<files, services, gpu, undo, own, ready>>

-----------------------------------------------------------------------------
(* giveUpContainerd.                                                        *)

\* Every file is put back, the last one written first, whether or not one fails.
UndoStep ==
  /\ pc = "undo" /\ undo # <<>> /\ undo' = Tail(undo)
  /\ \/ conf' = [conf EXCEPT ![Head(undo)[1]] = Head(undo)[2]] /\ Well /\ UNCHANGED err
     \/ Fault /\ err' = TRUE /\ UNCHANGED conf
  /\ UNCHANGED <<home, loaded, services, gpu, pc, mode, own, skipped, ready>>

Undone ==
  /\ pc = "undo" /\ undo = <<>>
  /\ IF err THEN Fails ELSE pc' = IF mode = "undo" THEN "clean" ELSE "undoReload"
  /\ UNCHANGED <<files, services, gpu, process, faults>>

\* A mutant: the services are restarted with the unit systemd has.
UndoReloadNot ==
  /\ pc = "undoReload" /\ Well /\ pc' = "stopD" /\ UNCHANGED loaded
  /\ UNCHANGED <<conf, home, services, gpu, process>>

UndoReload ==
  /\ pc = "undoReload"
  /\ \/ loaded' = conf["unit"] /\ Well /\ pc' = "stopD"
     \/ Fault /\ Fails /\ UNCHANGED loaded
  /\ UNCHANGED <<conf, home, services, gpu, process>>

\* The own containerd is removed; nobody looks whether that succeeds.
Clean ==
  /\ pc = "clean" /\ pc' = "undoWait"
  /\ (home' = FALSE /\ Well) \/ (home' = home /\ Fault)
  /\ UNCHANGED <<conf, loaded, services, gpu, process>>

AwaitDocker ==
  /\ pc = "undoWait"
  /\ \/ docker # "down" /\ Well /\ pc' = "gaveUp"
     \/ ((docker = "down" /\ Well) \/ Fault) /\ Fails
  /\ UNCHANGED <<files, services, gpu, process>>

GaveUp ==
  /\ pc = "gaveUp" /\ pc' = "gpu"
  /\ UNCHANGED <<files, services, gpu, process, faults>>

-----------------------------------------------------------------------------
(* The later steps.                                                         *)

\* configureNvidia stops docker and starts it, unless docker has the runtime.
ConfigureGpu ==
  /\ pc = "gpu"
  /\ \/ gpu # "missing" /\ Well /\ pc' = "last" /\ UNCHANGED docker
     \/ /\ gpu = "missing" \/ (gpu = "there" /\ faults < MaxFaults)
        /\ faults' = IF gpu = "missing" THEN faults ELSE faults + 1
        /\ docker' = "down" /\ pc' = "gpuStart"
     \/ gpu # "none" /\ Fault /\ Fails /\ docker' \in {docker, "down"}
  /\ UNCHANGED <<files, ctrd, gpu, process>>

StartWithGpu ==
  /\ pc = "gpuStart"
  /\ \/ /\ DockerStarts /\ Well
        /\ IF docker' = "down" THEN Fails ELSE pc' = "last"
     \/ (DockerStarts \/ UNCHANGED services) /\ Fault /\ Fails
  /\ gpu' = IF docker' = "down" THEN gpu ELSE "there"
  /\ UNCHANGED <<files, process>>

\* Storage; then the host is ready, for as long as the process lives.
Finish ==
  /\ pc = "last" /\ pc' = "idle"
  /\ (ready' = TRUE /\ Well) \/ (ready' = FALSE /\ Fault)
  /\ UNCHANGED <<files, services, gpu, mode, undo, own, err, skipped>>

Setup ==
  /\ \/ CheckDocker \/ Install \/ Switch \/ Prepare \/ WriteDropIn \/ WriteMain \/ Dump
     \/ WriteUnit \/ Reload \/ WriteDaemon \/ StopDocker \/ StopContainerd \/ StartContainerd
     \/ StartDocker \/ AwaitSwitch \/ UndoStep \/ Undone \/ UndoReload \/ Clean \/ AwaitDocker
     \/ GaveUp \/ ConfigureGpu \/ StartWithGpu \/ Finish
  /\ UNCHANGED <<host, made, crashes, stray>>

\* On a host that is ready the application container is made, and stays.
RunContainer ==
  /\ ready /\ made = "none" /\ docker # "down" /\ made' = docker
  /\ stray' = (docker # StoreAsked)
  /\ UNCHANGED <<host, files, services, gpu, pc, process, faults, crashes>>

\* The process is killed and started again; systemd and docker go on.
Restart ==
  /\ crashes < MaxCrashes /\ crashes' = crashes + 1
  /\ pc' = "idle" /\ mode' = "apply" /\ undo' = <<>> /\ own' = FALSE /\ err' = FALSE
  /\ skipped' = FALSE /\ ready' = FALSE
  /\ UNCHANGED <<host, files, services, made, gpu, faults, stray>>

Next == Setup \/ RunContainer \/ Restart

Spec == Init /\ [][Next]_vars

\* Passes follow one another.
FairSpec == Spec /\ WF_vars(Setup)

-----------------------------------------------------------------------------
(* What must be true of it.                                                 *)

\* When the switch was given up without an error everything is as it was before
\* ("docker stays as it was"): the files, the services and the store (undoLog.run,
\* giveUpContainerd).
GivenUpIsUndone ==
  pc = "gaveUp" => conf = Old /\ loaded = "old" /\ ctrd = "system" /\ docker = "legacy"

\* The own containerd is there for as long as a unit names it: services can always be
\* started again (giveUpContainerd removes it last).
BinaryStays == conf["unit"] = "new" \/ loaded = "new" => home

\* Nothing failed but for what is wrong with the host for good.
Calm == faults = 0 /\ crashes = 0

\* A first switch that is impossible on this host leaves nothing behind when it is given
\* up, and its files and the own containerd are at no step out of order.
UndoneAtFirst == Calm => GivenUpIsUndone /\ BinaryStays

\* The store of docker is never switched away under an application container that was
\* made on the store daemon.json asked for, whatever fails, is undone or is begun again
\* (dockerHasContainers; "switching the store would hide existing containers").
ContainersStay == made # "none" /\ ~stray => docker \in {"down", made}

\* The host gets ready: whatever of the switch is impossible on it, when nothing else fails;
\* and over any faults and crashes, as long as the own containerd is one that starts and is
\* not removed while a unit names it (Reconcile, giveUpContainerd).
GetsReady == [](Calm \/ ("own" \notin troubles /\ BinaryStays)) => <>ready
=============================================================================
