# TLA+ models of yougpu-agent

`yougpu-agent` is the Go daemon on a rented GPU machine. It receives a spec from the
backend (an SSE stream), brings the machine to it (host setup, disks, models, workspace,
application container, tunnel, firewall, keys), reports status, and at the end saves the
user's workspace, drains the disks' uploads and powers the machine off. The modules here
model the parts where an error loses a user's data or leaves an instance hanging, check
them with TLC on small instances and prove the central results with TLAPS for all values
of the constants.

Source paths below are relative to `src/internal/` unless they begin with `src/`.

## Files

| file | what it is |
|---|---|
| `Workspace.tla` | restore, checkpoints and final save of `/workspace`, with the agent's main loop (`state/`, parts of `agent/`, `container/`) |
| `FinalSave.tla` | abstract specification: what the end of an instance promises about its workspace |
| `WorkspaceProofs.tla` | theorems about `Workspace` and their proofs |
| `Shutdown.tla` | the end of an instance: `lifecycle/manager.go`, with the termination half of `agent/agent.go` and the disks' units |
| `Reporting.tla` | what the backend comes to know: statuses and phase reports posted by several goroutines (`agent/`, with the restore goroutine of `state/`) |
| `ReportingProofs.tla` | theorems about `Reporting` and their proofs |
| `HostSetup.tla` | preparing the host: the switch of docker to containerd and its undo log (`hostsetup/manager.go`) |
| `Disks.tla` | mounting and unmounting disks (`disk/`, with the passes of `agent/` over them) |
| `Content.tla` | files, models and repositories put into the workspace: jobs, passes, retries, the start gate, the save (`content/manager.go`, with `agent/`) |
| `Download.tla` | one file coming from its URL, in ranged parts or in one stream (`content/manager.go`, `fetch/fetch.go`) |
| `Arrival.tla` | abstract specification: what a download looks like to the job that waits for it |
| `Instance.tla` | from the stream of specs to a container that is ready: intake, passes, container manager, remounts, readiness, tunnel (`agent/`, `container/`, `tunnel/`) |
| `ShutdownProofs.tla`, `HostSetupProofs.tla`, `DisksProofs.tla`, `ContentProofs.tla`, `InstanceProofs.tla`, `DownloadProofs.tla` | theorems about the module of that name and their proofs |
| `MC*.tla`, `MC*.cfg` | instances of `Workspace`, `Content`, `Download` and `Instance` for TLC |
| `Shutdown.cfg`, `Reporting.cfg`, `HostSetup.cfg`, `Disks*.cfg` | instances of the other modules, whose constants are numbers and model values |
| `PROJECT.json` | components, runs, mutants, the map from definitions to source lines, findings, hazards, theorems |

To check a run: `tlc -config MCWorkspace.cfg MCWorkspace`. To check the proofs:
`tlapm` on each `*Proofs.tla`.

## The system

### Components

**Agent main loop** (`agent/agent.go`, `reconcile/`). Keeps the latest spec (`inbox`), the
generation applied, the status last posted, the phases reported so far, a context that ends
when a deletion is seen (`aliveContext`, `stopAlive`; never reset in a process). One
goroutine runs passes (`Run`, `handleSpec`), woken by the intake, by `poke` from the
managers and by a ticker; others hold the stream (`streamLoop`) and send heartbeats
(`heartbeatLoop`); any manager's goroutine may post a phase (`reportPhase`). Hard: a
deletion arriving in the middle of a pass; statuses and phase reports overtaking each other
(`stateSeq`); a failed post. Correct when: work for a living instance ends with the
deletion; the machine is only switched off once the backend knows that all is synced; no
older status replaces a newer one.

**Workspace state** (`state/manager.go`, `state/checkpoint.go`, `state/archive.go`). Keeps,
on disk, the markers `state_restored` (identity of the restored archive or `clean`),
`state_save_started` (time), `state_saved`, `state_save_skipped`, `state_save_failed`, and
the packed archive with its marker; in memory the restore job, the checkpoint job, what was
last checkpointed, a seal and the delay before the next upload. `Restore`, `Checkpoint` and
`Save` are called by the main loop; restore and checkpoint run in goroutines of their own.
Hard: everything interleaves with everything and with crashes; the spec may change the
archive while the last one is being restored; uploads fail and are retried for up to
`saveWindow`. Correct when: a container never runs in a workspace that is being restored;
the final archive is the workspace, whole and as it was left; the outcome is settled once;
no older copy replaces the final one.

**Lifecycle** (`lifecycle/manager.go`). Keeps the state file (`alive`, `syncing`, `error`,
`synced`, `destroying_self`) and, in memory, the stall watch. `HandleTermination` stops the
containers, runs the save hook, polls every disk's uploads, stops the units and reports.
Hard: polling several disks is not atomic, units fail and restart in between, state writes
and reports fail. Correct when: `synced` means saved, uploaded and stopped, for good.

**Container** (`container/manager.go`, pullers). Keeps the spec applied, pull progress and
readiness; on disk `app_container_started`. `Reconcile` pulls, asks the start gate, runs,
probes. Hard: docker commands that time out with their effect done; a spec that changes
while an image is pulled. Correct when: only the wanted container runs, never before the
gate.

**Disks** (`disk/manager.go`, `disk/remotes.go`, `disk/unit.tmpl`, `system/systemd.go`).
Keeps a unit, an environment file and keys per disk, and when each began to flush.
`Mount`, `Unmount`, `EnsureRunning`, `Uploads`. Hard: unmounting waits for uploads up to
`flushLimit`, keys rotate under a mounted disk, a crash between file operations, rc ports.
Correct when: no disk is taken away with uploads waiting before the limit, no two units
share a mount point or a port, an unmount ends.

**Content** (`content/manager.go`, `fetch/fetch.go`). Keeps a job per content spec with the
status of every file. A job (`run`) makes one pass; `Reconcile`, which every pass of the
main loop calls, replaces the job of another spec and begins one anew that is over. Large
files come in ranged parts and are resumed. It works beside the restore, in the same folder,
and beside the container. Hard: a pass that finds no workspace; a clone that hangs; results
of a replaced job; resuming parts of another version; the restore and users writing to the
same targets. Correct when: content that counts as settled was met or has failed, for the
spec it is settled for; what is put in place is the file asked for; every target ends;
nothing is at work while the workspace is saved.

**Host setup** (`hostsetup/manager.go`). Installs docker and has it keep its images in a
containerd that unpacks in parallel; where the system's is too old it puts one of its own
beside it. An undo log, in memory, takes it all back. Then the GPU's runtime and storage.
Hard: failures and crashes in the middle; steps that repeat in later passes over their own
results. Correct when: a switch that is impossible leaves the host as it was, the store is
never switched away under a container, the host gets ready.

**Tunnel** (`tunnel/manager.go`), **firewall** (`firewall/manager.go`), **SSH keys**
(`sshkeys/manager.go`). Each keeps what it last applied and replaces it when the spec
changes (an frpc process, an nft table, a block of `authorized_keys`).

**Backend client** (`client/`), **config**, **ctrd**, **system**, **command**
(`src/cmd/yougpu-agent`), **deployment** (`src/deploy/yougpu-agent.service`): transport,
settings, thin wrappers, wiring, and the unit that restarts the agent (`Restart=always`).

### How they interact

```
 backend --SSE--> streamLoop --intake--> inbox ==(poke, ticker)==> Run: handleSpec / terminate
                     |                                               |
                     +-- deletion cancels aliveContext                +-> hostsetup, disks, content
 managers' goroutines (restore, checkpoint, content, pulls)          +-> state.Restore -> gate
     run under aliveContext; poke and reportPhase on progress        +-> container.Reconcile
                                                                     +-> state.Checkpoint
 deletion: lifecycle.HandleTermination: stop containers -> state.Save -> poll uploads ->
           stop units -> synced -> post -> destroying_self -> poweroff
```

## Workspace

State. `want`, `del` are what the backend asks for; `stored`, `kept`, `told` what it holds:
the archive of the final save, the last checkpoint, the last report on the save. `up` and
`ws` are the machine: the container runs, and the content of `/workspace`. The second group
is the state directory and survives a crash; the rest is the process.

A workspace, and an archive of it, is a record `[parts, whole, edits]`: the restores of
which some file is in it, those whose files are all there, how often users changed it. That
is as much as the properties tell apart: whether a restore is half done, mixed with
another, or older than the last edit.

| actions | code |
|---|---|
| `Intake`, `BeginPass` | `intake`, and the top of the loop in `Run` |
| `Restore`, `KeepRestore`, `StartRestore`, `ReplaceRestore`, `AwaitReplaced` | `Restore`, `startRestore`. A pass calls it twice: for its status (`call = "pass"`) and as the start gate (`"gate"`) |
| `Converge`, `RunContainer`, `MarkStarted`, `EndPass` | `container.Reconcile`, `apply`, `markStarted`, then `Checkpoint` |
| `JobFetch` ... `JobReport` | the restore goroutine: `restore`, `moveInto`, `runRestore` |
| `CkPack` ... `CkGivesUp` | the checkpoint goroutine |
| `StopContainers`, `StopRestore`, `AwaitJob`, `Seal`, `AwaitCk` | `stopContainers`; `stopRestore` and `stopCheckpoints` at the head of `Save` |
| `RepeatOutcome` ... `RecordSaved`, `TellSaved` | `Save`, `save`, `pack`, `packed`, `upload`, `dropArchive` |
| `SaveFails`, `DropArchive`, `TellFailed`, `RecordFailed` | `saveFailed`: archive, its marker, report and outcome, one after the other |
| `Restart` | the process dies; systemd starts it with the state directory |

Steps are split where another goroutine or a crash could matter: between the last file
moved, the check and the marker; between outcome, marker and report; between upload and
removal of the archive. The container is not stopped by a crash of the agent.

`FinalSave` is the same seen from outside, with four variables (the work, the stored
archive, the copy kept, the outcome). `Promise == INSTANCE FinalSave WITH work <- ws,
verdict <- Outcome` maps the outcome to the marker with precedence that `Outcome` computes.

Left out: the container's spec does not change; the spec has a `/workspace` volume and
`state.save`; archive limits and paths, tar entries and retries within one download or
upload (they end in success or failure); the interval between checkpoints (a checkpoint may
start at any pass). `Written`, `BeginSave` and `MarkPacked` model markers that a full disk
leaves empty. The markers of an outcome carry a sum, a size or a message, but `Outcome`
decides by their existence, which is all the model keeps; a write that does not even create
the file is not modelled. Nor is what others do for a client that has been cancelled: the
backend, with a checkpoint that arrives late, and docker, with a container that comes up after
the final save has looked (Instance has such starts).

## Shutdown

State. Per disk: its unit (`up`, `failed`, `stopped`), files waiting (`pend`) and completed
uploads (`done`, counted from zero by a new rclone). `file` is the state file; `spec` the
newest spec; `mpc`, `left`, `sum`, `allWell` the main loop inside `finishSync`, one disk at
a time; `mark`, `age`, `stall` the stall watch. The save is one variable: `open` until
`Save` comes to an outcome, which module Workspace is about.

| actions | code |
|---|---|
| `Terminate`, `StopContainers`, `AfterStop` | `HandleTermination`, `stopContainers`, the termination hook |
| `ListUnits`, `Poll`, `Decide`, `Flush`, `Flushed` | `finishSync`, `Uploads` with `EnsureRunning`, `watch`, `flushStorageUnits` |
| `Post`, `Destroy`, `Poweroff` | `terminate`, the branches of `Run` after it, `powerOff` |
| `Parked` | `waitForDestroy` |
| `Write`, `Upload`, `RcloneEnds`, `RcloneRestarts`, `Tick` | container, rclone, systemd, the clock |

Every failing step is a `Fault`, of which there are finitely many: a command that fails, a
disk that does not answer, a state that cannot be written, a report that is lost or whose
answer is, an rclone that dies, a process that is killed.

## Reporting

State. `want` is the backend's newest spec and `held` what it holds of the agent: the
generation it takes for applied and the state of the workspace. `late` are posts that
arrive after their sender has given them up. Three actors post: the main loop (`mpc`,
`draft`), the restore goroutine (`jpc`, `jdraft`) and another manager (`phase`). Each builds
its status in one step and posts it in another: `postMu` orders the posts, not the building.
`changed` and `lastState` are `stateReports` against the number the main loop saw, and the
state posted last.

| actions | code |
|---|---|
| `NewSpec`, `Intake`, `Arrives` | the backend, `intake`, the network |
| `BuildPhase`, `PostPhase` | `reportPhase` as pullers, content and setup use it |
| `JobTick` ... `JobClose` | `keepReporting` and `runRestore` |
| `BeginPass` ... `Store` | `handleSpec` |
| `Terminate`, `SaveReports`, `PostPlain` | `terminate`, with the reports of `Save` |

`Knows` says that the backend holds the truth and that no actor, and no post on its way, is
about to say anything else. `TruthStays` lets only a new spec or an unanswered post end that.

A post fails in three ways: it did not arrive, it did and its answer is lost, or it arrives
late. States are ranked in the order they come about; failed and successful restores are
one state, as the properties do not tell them apart. Left out: restarts (a new process
starts at generation zero), heartbeats (they carry no state of the workspace), and specs
without a workspace.

## HostSetup

State. What is wrong with the host for good (`troubles`, chosen at the start, alone or
together); the four files the switch writes (`conf`), the own containerd (`home`), the unit
systemd has loaded; the services (`ctrd`, `docker`); the process with its undo log. Every
file, command and wait is a step that may fail (`Fault`), and the process may be killed
between any two, some with their effect: a stop or start of the services that fails may have
had it, and a containerd that does not tell its version counts as too old, whatever it is
(`Prepare`). `made` is the store the application container was made on; `stray` notes,
for the properties, that this was not the one daemon.json asked for (`StoreAsked`).

| actions | code |
|---|---|
| `CheckDocker`, `Install` | `Reconcile`, `steps`, `installDocker` |
| `Switch`, `Prepare` ... `AwaitSwitch` | `switchToContainerd`, `prepareContainerd`, `applyContainerd` |
| `StopDocker` ... `StartDocker` | `restartContainerdAndDocker`, forward and back |
| `UndoStep` ... `GaveUp` | `undoLog.run`, `giveUpContainerd` |
| `ConfigureGpu`, `StartWithGpu`, `Finish` | `configureNvidia`, `installStorage` |
| `RunContainer`, `Restart` | the application container; the agent killed and restarted |

`GetsReady` is stated for two kinds of execution. In the first nothing fails but what is wrong
with the host for good. In the second anything may, a bounded number of times, on a host
where the own containerd starts, and `BinaryStays` holds throughout: it is there as long as a
unit names it. Without that the host may never get ready (below, `hostsetup/manager.go:398`).

Left out: the steps' own retries, apt and what is in the configs beyond provider's and
agent's.

## Disks

State. By disk: unit file, what systemd has loaded, storage key, rc port in the environment
file; its rclone (`unit`, `port`, files to upload); in the process, since when it is waited
for, when that was last tried and when its key was last asked for. Time is in ticks.
`trying` and `fresh` are history variables for the properties.

`UploadsHold` asks two things of an unmount: a unit that runs is only stopped when what it
had to upload is uploaded or was waited for, and, in an execution without a death of rclone,
a revoked key, a failure or a crash, a key goes only then. The second marks off finding 2.

| actions | code |
|---|---|
| `BeginPass`, `NextDisk` | `observeDisks`, `reconcile.Reconcile`, `reconcileDisks` |
| `EnsureRemote` ... `RetryMount` | `Mount`, `mount`, `ensureRemote`, `renewRemote`, `ensureRc` |
| `LookActive` ... `Reload` | `Unmount`, `flushing`, `Uploads`, `dropRemote` |
| `Write`, `Upload`, `Dies`, `Respawns`, `Revoke`, `Wish` | containers, rclone, systemd, the backend |

A disk is observed at the head of a pass and acted on later, so that a disk may be mounted
that runs by now, and the other way round. `Starts` lets an rclone with a revoked key fail
or run without uploading. Passes mostly follow one another within `unmountGap` (5 min, where
the ticker's default is 60 s), but one may take longer, as `pullTimeout` alone is 10 min, and
then starts the wait anew: such a pass is a fault of `Tick`, of which there are finitely many
(`Punctual`). Were every pass so slow, `flushLimit` would never be reached.

Left out: direct mode, quotas (a changed quota rewrites the unit file), mount paths, remounts,
and the deletion of the instance, which is Shutdown's: its units are an abstraction of the
rclones here. An rclone without a disk cache would answer that nothing waits; the unit file
always asks for one (`--vfs-cache-mode full`, `disk/manager.go:155`).

## Content

State. `want`, `del` are the backend's; `disk` says what is at each target (nothing, a
version, half a clone, what a user or the archive put there); `toMove` is what the restore
has yet to put in place. `key`, `cur`, `settled`, `observed`, `verified`, `tries` and
`given` are the manager's fields; `jobs` are two slots for the goroutines of `run`, the
second for a job that is replaced and not yet over. `met`, `begun`, `unplaced`, `torn` and
`raced` are history. `Flawed` are the specs whose passes may go wrong beside their targets:
`/workspace` has no volume or cannot be made or opened (`NoWorkspace`, which settles as failed
with nothing tried), or a folder or an entry is refused (`Refused`).

| actions | code |
|---|---|
| `NoWorkspace`, `Look`, `Queue` | the head of `pass`; `plan`, target by target; what is to be fetched |
| `Begin`, `FillFails`, `Rename`, `Remember`, `Cloned`, `CloneFails`, `Fetched` | `pass`, `fetch`, `clone`, `remember`, `fail` |
| `Finish`, `Settle` | the end of `run`: the look at the context, then the result |
| `Replace`, `Install`, `Repeat` | `Reconcile` with another spec, waiting for the old job, and with the same |
| `DropContent`, `Terminate`, `Stopped` | `Stop`, in a pass without content and in `terminate` |
| `HearDeletion` | `intake`, which cancels the context of every job |
| `AskGate`, `RunContainer`, `SaveEnds` | the gate of `handleSpec`, `docker run`, the rest of termination |
| `RestoreMove`, `Edit`, `ChangeSpec`, `RequestDeletion`, `Restart` | the others |

A file is there when it exists, a model when its sum is right or was found right for a file
of the same stamp, a repository when its folder exists: `Present`. A backoff may have passed
or not at any look (`MayBeHeld`). The container is asked about once per pass; the pulls
before the gate and what else a pass does is left to other modules. A job that is cancelled
goes on to its next look at the context: it may still put one file in place, and `Settle`
may still follow. The properties show that neither counts.

Every read of a fetch is watched (`idleTimeout`), but `git clone` runs without a timeout
(`content/manager.go:716`, `system/exec.go:36`). A job that is `Cloning` is therefore not
assumed to go on until it is cancelled, and `Settles` says that content settles again and
again unless some clone hangs for ever. A deletion ends that too (`StopEnds`).

Left out: models without a sum, which count as there by size; folders and links in the way of
a target; progress, and the check for space (`FillFails`).

## Download

One fetch of one file. A version of what is at the URL is a name and a number of blocks; a
file is a sequence of blocks, each of a version or a hole. `source` may change at any time.
`phase` is where `fetch` is, `parts` are the goroutines of `downloadRanged`, `cut` their
context and `dead` that of the job. `task` is what the entry asks for: a size, a sum, both or
neither, or a model file.

| actions | code |
|---|---|
| `Open`, `OpenFails`, `Rename`, `RenameFails` | `fetch`, `fill`, `renameIn` |
| `ProbeFails`, `Unfit`, `Stream`, `Split` | `download`: the first request and what its answer leads to |
| `StreamRead`, `StreamEnds`, `StreamBreaks` | the body of one answer, under `idleWatch` |
| `Refused`, `Ask`, `Read`, `BodyEnds` | `downloadPart`, `downloadRange` |
| `Join`, `JoinFailed` | `wg.Wait` and the end of `downloadRanged` |
| `Checked`, `CheckFails` | the checks of `fill` |
| `Change`, `Cancel`, `Restart` | the source, the job's context, a crash |

A body is cut anywhere; one of unknown length that is cut looks whole. What `OneVersion`
excepts is real: ranges are asked for without `If-Range`, so that a source that changes
between two of them, with files of the same length and no sum to tell, gives a mixture.

The disk may fail at every step that makes, opens, sizes, writes, closes or renames the file.
A full one ends the part, and the fetch of the file, for good, where other failures are tried
again; of several parts that failed it is the first whose error counts (`JoinFailed`).

`Arrival` is the same seen by the job that waits for it: five variables, and a file that
arrives in one step, fails, or is left by a cancelled job. `Target == INSTANCE Arrival WITH
outcome <- ...` shows it the end of `phase` and hides the rest: the parts, the `.part` file
and what was fetched into it. It is what Content makes of a fetch, `Rename` for `Arrive` and
`FillFails` for `Fail` and `Leave`; `Answers` says what the file in place is like.

Left out: a `206` whose `Content-Range` is not what was asked for, and the progress that is
counted.

## Instance

State. `specs` are all generations the backend has made, `flight` those on their way, `told`
the last status it holds. `cont` is docker's container with the mount it was started on,
`asked` the requests that docker has been sent and has not answered, `mount` the invocation
of the disk's rclone, `link` the proxies at frps. The rest are the agent's fields: intake
(`highest`, `inbox`), the context of alive work (`deleting`, `work`), the pass (`pc`, `p`,
`obs`), `last` of the container manager, `mountID` and `containerAlive` of `followRemounts`,
`readyHash` and `waitedHash` of readiness, and `frpc`.

| actions | code |
|---|---|
| `Arrive`, `HearDeletion` | `intake`, in two steps: the inbox, then `stopAlive` |
| `Reconnect` | `streamLoop`, `StreamSpec`: specs are lost or come late |
| `BeginPass`, `AliveContext`, `Disks` | `Run`, `handleSpec`, `aliveContext`, `reconcileDisks` |
| `InspectFails`, `Keep`, `Remove`, `Apply` | `container.Reconcile`: `unknown`, `Decide`, `converge` |
| `Pull`, `Gate`, `RemoveOld`, `AskRun`, `Run`, `LookAgain` | `apply` with the start gate (`diskHold`) |
| `FollowRemounts`, `AskRestart`, `RestartContainer` | `followRemounts` |
| `Tunnel`, `StillReady`, `GetsReady`, `Unresponsive`, `NotWaited` | `tunnel.Reconcile`, `containerReadiness` |
| `Post`, `Terminate`, `Restart` | the end of a pass, `terminate`, a crash |
| `Listen`, `Link`, `Exit`, `Respawn`, `Remount` | the application, frps, docker, systemd |
| `Later` | docker carries out a request whose client is gone |

A command on the alive context fails for sure once that is cancelled, and otherwise as one
of a bounded number of troubles (`Fails`). What fails is its client: a timeout, the end of the
context or a crash of the agent kills that (`system/exec.go:36`) but not what docker was asked
for. `docker run` and `docker restart` therefore take two steps, to ask (`AskRun`,
`AskRestart`) and to be answered (`Run`, `RestartContainer`), and a request that is not
answered stays in `asked`: docker may carry it out at any later time or never (`Late`), making
the container first and then starting it, also when the pass that asked is long over, under
another spec, or after the end. `docker rm -f` that fails may have removed the container.
`terminate` may take several passes, each of which stops what it finds running.

`NoneAfterDeletion` therefore promises what the agent can: once the deletion is heard it asks
for no start any more, and nothing comes up but what was asked for by then. `GetsThere` ends
with nothing up, for good, unless docker carries out such a start after the last look
(`overdue`). `ReadyIsEarned` speaks of starts the agent knows of: a container that docker
starts again by itself, or late, keeps the readiness it had.

`RemountsAreFollowed` speaks of a container that is `behind`: a new mount came, by systemd or
by the agent, while it was up and `followRemounts` knew of a container and of its mount, and
every pass since then has found it running and its disk wanted. Others are missed by the
code: a remount before the first `followRemounts` that finds the container running, one
around a crash, and one whose pass does not find it running (below, `agent/agent.go:592`); a
`docker restart` that failed is not repeated. A container made anew in the pass that sees a
remount may be restarted once more, to no harm.

Left out: the work of other managers in a pass, firewall and keys; the marker of the first
start (Workspace); which proxies frpc has; probes of a port (`Open` stands for a round of
them); the answer 410, at which the agent stops.

## Runs

| run | configuration | question and answer |
|---|---|---|
| `workspace` | 1 archive, 2 edits, 1 crash, markers may be left empty, fairness | All safety properties, the refinement, and an outcome for every deletion hold. |
| `workspace_keys` | 2 archives the backend changes between, 1 edit, 1 crash | `IInv`, the invariant of the proofs, holds; a restore marker is only written over exactly that archive. |
| `workspace_gate` | 2 archives, no crash | Violated: a restore under a running container (finding 1). |
| `shutdown` | 2 disks, 2 files, 3 faults, a stall after 2 ticks, fairness | All safety properties hold; the backend comes to know `synced`, for good. |
| `reporting` | 2 specs, 1 fault, fairness | No generation is confirmed early, an overtaken status is harmless, the truth once known stays, the backend ends with it. |
| `hostsetup` | all troubles, 3 faults, 2 crashes, fairness | The store is never switched under a container that was made where daemon.json says; without faults a switch given up is undone; the host gets ready without faults, and with them as long as the own containerd is one that starts and is not missing. |
| `disks` | 2 disks, 1 change of mind, 1 dead rclone, 1 fault (a slow pass is one), limit 2 ticks, fairness | Ports are own, uploads are waited for, also by the removal of keys while nothing died or failed, mounts and unmounts end. |
| `disks_dead` | 1 disk, 1 change of mind, 1 dead rclone | Violated: a key taken with uploads waiting (finding 2). |
| `content` | a file, a model, a repository that is also in the archive; 2 versions, 3 specs, one of which may go wrong beside its targets, 1 change, 1 edit, 1 crash, 2 attempts, fairness | Content settles on results of its own spec only, and does but for a clone that hangs; the container starts on settled content, retries end, the save finds nothing at work. |
| `content_clone` | 1 repository that is also in the archive | Violated: a failed clone removes what the restore has put in place (finding 3). |
| `download` | 4 versions (two of 5 blocks, 2, 0), 2 parts, 3 attempts each, 2 fetches, 1 change, 1 crash, fairness | No holes, no mixture of the code's making, no block fetched twice or changed after the check, `Arrival` is implemented, downloads end. |
| `instance` | 2 containers, a disk, a tunnel; 1 change, a deletion, 2 troubles, fairness | Readiness is earned, starts wait for disks, none is asked for after a deletion, a running container is kept, remounts are followed, the newest spec or the end is reached. |

Bounds. Two archives are enough for a restore to be replaced by another and for the old one
to come back; the moves are pairs, so longer histories visit the same states. Two edits
tell an archive taken before, between and after changes apart; one crash separates two
processes, and a third would find on disk only what a second finds. In Shutdown two disks
are needed for one to be stopped while the other fails; three faults cover a failed poll, a
failed stop and a crash or lost report in one execution, with two files for one to be
uploaded while another waits. In Reporting two specs give one that is confirmed and one
that overtakes its pass; the fault is a lost, late or unanswered post or a step that fails.
In HostSetup a fault begins an undo, a second breaks it, and a third has a later process find
docker stopped and start it; one crash comes before such a switch, one after it. With fewer
what the exception `stray` is for does not happen. In Disks two disks contend for a port
(there is one port more than disks, as the code has a thousand for a handful); a limit of
two ticks lets a wait be begun, go on and end, with a gap of one tick to start it anew and
one change of mind to do so with.
In Content one change of the spec is enough for a job to be replaced and, with the deletion,
for its successor to be stopped; two attempts tell a first failure from the last. The three
kinds of target differ in how they are found and filled, and one of each is there. In
Download five blocks in two parts are uneven, so that the rest of a division counts; a part
is resumed twice, at a source that has become shorter, empty or another of the same length
in between. In Instance the two troubles are drawn from all that may go wrong, in any order:
a reconnect that loses or delays specs, a command that fails or is late, an end of rclone or
container, a loss of the tunnel, a crash.

What the proofs do not cover, liveness above all, may depend on these bounds. The properties
of the runs with fairness also hold with larger ones, too slow to be kept: 2 crashes in
Workspace, 4 faults in Shutdown, 3 specs in Reporting, 4 faults and 3 crashes in HostSetup, 2
changes of mind or 2 faults in Disks, and 2 changes in Content and in Download. Instance has
no more room: a second change there leads to millions of states, and among them to the
remount of `agent/agent.go:592`, below, which `behind` excepts.

`CHECK_DEADLOCK FALSE` in Shutdown: the machine powers off; in HostSetup: a host that is
ready is not prepared again; in Download: one download ends; in Instance: `terminate` is the
end, what follows is Shutdown's. The others never stop.

`SettledMoves` (the backend waits for an archive, then names it) is what the agent's tests
and the backend's `pending` state describe; `ChangingMoves` adds an archive that changes.
`NoRestoreUnderContainer` and `ArchivesAreWhole` are checked under the first
only. Under the second they fail for the reason of finding 1.

Fairness. `WF(MainLoop)`: the ticker wakes the loop without any event. `WF` of the
goroutines: they are scheduled, and each of their steps ends in success, failure or a
timeout (but for a clone, below). `WF(Intake)`: the stream reconnects with backoff for ever.
`WF` of `WindowElapses` and `PauseEnds`: time passes. `SF` of the `BeginSave` that writes
the time of the first attempt: a disk does not stay full. On one that does, that time is
lost at each pass, `saveWindow` starts anew and the save never ends. In Shutdown also:
rclone goes on uploading; a process that ended is started again; and `SF(SaveEnds)`, since
the save is only at work while its pass is: what justifies it is `SaveConcludes` of
Workspace. In Reporting: posts on their way arrive or are lost, a restore ends by
`restoreTimeout`, repeated saves end. In HostSetup only the passes. In Disks: passes, the
restarts of systemd, and time; that rclone uploads is not assumed, so that an unmount ends
by its limit. In Content: passes, the restore, the stream that brings a deletion, and each
job but while it clones and is not cancelled; whether a fetch succeeds is not assumed. In
Download: the goroutines, each of whose reads ends by `idleTimeout` at the latest. In
Instance: the main loop, whose commands all have timeouts, and specs on their way; the
application need not listen, frps need not answer, and docker need not carry out what it is
late with.

Mutants. An operator commented "a mutant" is a plausible mistake in the definition after
it; `PROJECT.json` pairs it with a property that TLC finds violated when it takes that
definition's place. No specification uses it.

## Proofs

`WorkspaceProofs` proves, for every set of archives, every `Moves`, and every bound:

| theorem | states |
|---|---|
| `TypeCorrect` | `Spec => []TypeOK` |
| `Invariance` | `Spec => []IInv` |
| `PackingIsAlone` | `Spec => []SavingAlone` |
| `SavedIsComplete` | `Spec => []NothingLost` |
| `OneVerdict`, `TellingHolds`, `OneAnswer` | the action properties `VerdictHolds`, `ToldHolds` and both, `AnswersHold` |
| `CheckpointsEnd` | the action property `NoLateCheckpoint` |
| `MarkersAreEarned` | the action property `MarkerIsEarned`, which is about the step that writes the marker; what it vouches for may be moved over later (finding 1) |
| `Refinement` | `Spec => KeepsPromise`: Workspace implements FinalSave |
| `ContainerBehindGate` | `Spec => []NoRestoreUnderContainer`, if `OneArchive` |
| `WholeArchives` | `Spec => []ArchivesAreWhole`, if `OneArchive` |

Assumptions: `KeysAssumption` (identities of archives are no marker words),
`BoundsAssumption` and `NoSnapAssumption`. Nothing is assumed of `Moves`, but for the last two
theorems: their hypothesis `OneArchive` says that the backend does not change an archive, or
the word that there is none, once it has named it. `SettledMoves` satisfies it. Without it
both are false, which is finding 1.

The argument. The properties are not inductive: `NothingLost` says nothing of the archive
an earlier process left on disk, which a later pass uploads as it is. `IInv` adds what makes
it right. `SaveGuarded` says what `Save` has established at each of its steps (the deletion
is known, the restore is over, the checkpoint is over, the container is down unless the
stop failed). `ArchivesFinal` says that any archive at all, packed, marked as packed or
stored, is the workspace as it is, and that then `Quiet` holds: deletion is asked for, no
goroutine is at work, no container runs and none will. That survives a crash because the
deletion is never taken back and a new process does nothing before it has received the spec
(`inbox = "nil" \/ inboxDel`). `OutcomeOnce` says that an outcome is written at the end
only and reported only when it is written. `FilesInPlace` carries what the last move of a
restore did over the steps up to the marker. The proof has one lemma per group of actions for
types (`...Type`) and one for the rest of `IInv` (`...Inv`); `StepIInv` joins them.

Under `OneArchive` a second invariant, `OneArchiveInv`, is inductive beside `IInv`, with one
lemma per group of actions (`...OneArchive`). A process knows of the backend's archive or of
none, and so all it restores, marks and packs is of that archive (`OneArchiveKnown`); hence no
restore begins once a marker is there, and the gate, which looks at the marker, cannot be
passed under a restore (`GateHolds`); and what lies in the workspace is of that archive alone
and whole once the marker is there, which is before anything is packed (`OneArchiveWhole`).

`ReportingProofs` proves, for any number of specs and faults:

| theorem | states |
|---|---|
| `TypeCorrect` | `Spec => []TypeOK` |
| `Invariance` | `Spec => []IInv` |
| `Confirmation` | `Spec => []ConfirmedIsEarned` |
| `OvertakingIsHarmless`, `TruthIsKept` | the action properties `OvertakenIsHarmless`, `TruthStays` |
| `NeverTakenBack` | both, `NeverBack` |

Assumption: `BoundsAssumption`. The argument: what the backend holds is what some status
carried, and a status may be built long before it is posted. `IInv` of Reporting therefore
says of every generation that may yet reach the backend (the generation applied, the drafts
of all three actors, posts on their way) that it is earned (`StatusesEarned`). A deletion
that is repeated with an outcome on disk confirms its generation at once; `DeletionIsLast`
is what makes that right: the outcome came from a pass over the same spec, the last there is.
For the order of states `OrderInv` says what may have been said so far: as long as nothing is
cancelled only states of a restore, and `settled` only once there is a result, by the restore
(`JobSays`), the main loop (`LoopSays`) and so to the backend (`BackendHears`); where no post
failed the agent knows which state that is. A post that was overtaken carries the newest.

`TruthStays` is the safety half of `Converges`. `Knows` is what has to hold for the truth to
stay: of a spec that keeps the instance, that the generation is stored, every draft agrees
with it and the restore has its result (`KeepsToTruth`); of one that deletes it, that alive
work is cancelled and the outcome is on disk (`EndsInTruth`). A post of what agrees leaves the
backend as it is (`PostAgrees`), so the proof is that the drafts go on agreeing: a pass
repeats what it saw, a restore with a result is not begun again, an outcome is only repeated.
That `Knows` is reached at all is liveness.

`InstanceProofs` proves, for any containers, specs, changes and troubles:

| theorem | states |
|---|---|
| `TypeCorrect` | `Spec => []TypeOK` |
| `Invariance` | `Spec => []IInv` |
| `ReadyEarned` | `Spec => []ReadyIsEarned` |
| `DisksFirst`, `DeletionIsLast`, `RunningKept` | the action properties `StartsOnDisks`, `NoneAfterDeletion`, `RunningIsKept` |

Assumptions: `WishesAssumption` (what may be asked for is a spec, and `None` no container)
and `BoundsAssumption`. The argument: a pass acts on what it saw steps before, so `IInv`
says at each step of the pass what is still true of it. `Control`: what is to be replaced is
not the container of the spec or was found down; past the gate the disk is there or was lost
since; nothing is there when docker run begins. `Readiness`: an observation `running`, even
one that stands in for a docker that is silent, is of the container that is there or of one
since removed (`LastIsThere`, `ObsIsLast`), and a hash that is ready is that of the
container whose ports answered (`ReadyAnswered`). The last is why `apply` must forget the
readiness with the container, and no later. A request that docker is late with does no harm
to these: it is never for another container like the one that is there (`NameTaken`), so
that none takes the place of the one that is ready (`ReadyAnswered`). That none is asked for
once the deletion is heard follows from the context each step of the pass looks at.

Of `RemountsAreFollowed` the safety half is proved. `RemountIsNoted` is inductive: as long as a
container is behind, `containerAlive` holds and `mountID` is a mount other than the one that
is there, whatever docker and systemctl answered, unless the restart is under way
(`RemountsNoted`). So a pass that finds the container running and can read the invocation of
its disk goes to `docker restart` (`RemountsRestart`). That such a pass comes is liveness.

`DownloadProofs` proves, for any versions and sizes, numbers of parts and attempts, demands,
changes at the source and crashes:

| theorem | states |
|---|---|
| `TypeCorrect` | `Spec => []TypeOK` |
| `Invariance` | `Spec => []IInv` |
| `PlacedSound` | `Spec => []PlacedIsSound` |
| `FetchedOnce`, `CheckedPlaced`, `BlocksKept` | the action properties `NoneTwice`, `CheckedIsPlaced` and both, `BlocksHold` |
| `Implements` | `Spec => Arrives`: Download implements Arrival |

Assumptions: `SourceAssumption` (versions have sizes; a hole is no version and `NoSum` no
sum) and `RangeAssumption` (`rangeMin` is at least `rangeParts`, so that every part has a
block). The argument: the ranges of the parts are disjoint (`RangesAreOrdered`) and cover the
file (`RangesCover`), the division's rest included. `PartFilled` says of each part that what
is before its position is fetched and what is after it a hole; a part writes its first hole
only (`ReadFills`), so none disturbs another. When all are done there is no hole left, and
`FileFilled` and `PlaceIsLast` carry that over the checks into the target. `Unmixed` keeps to
one version while the source is left alone.

For the refinement each step of Download is a step of Arrival or none that it shows. That is
plain but for `Rename`, whose file must be an answer: what `fill` checked, the size, the sum
and that it is not empty, and of what was not asked for what `FileFilled` and `Unmixed` say
of it (`CheckedAnswers`). `Fitting`, an invariant beside `IInv`, says that while the source is
left alone no file is longer than what is there: a body or a part never gives more.

`ShutdownProofs` proves, for any disks, numbers of writes and faults, any patience with a
stall, and with a save asked for or not:

| theorem | states |
|---|---|
| `TypeCorrect` | `Spec => []TypeOK` |
| `Invariance` | `Spec => []IInv` |
| `SyncedComplete` | `Spec => []SyncedIsComplete` |
| `OffAnnounced` | `Spec => []OffIsAnnounced` |
| `StatesKept` | the action property `StatesHold` |

Assumption: `BoundsAssumption`. The argument: the disks are asked one after another while the
others go on. `Uploads` says what an answer is still worth steps later: as long as all went
well and nothing was pending, the disks that were asked have nothing to upload (with the
containers stopped nothing new comes), and those that were flushed are stopped for good.
`Ending` says that the work of the end is begun after the deletion only, and that no spec
that keeps the instance can come any more, so that no restart takes the state file back.
`Telling` ties what is posted to what is on file.

`HostSetupProofs` proves, for any combination of troubles and any number of faults and crashes:

| theorem | states |
|---|---|
| `TypeCorrect` | `Spec => []TypeOK` |
| `Invariance` | `Spec => []IInv` |
| `StoreKept` | `Spec => []ContainersStay` |
| `FirstSwitchUndone` | `Spec => []UndoneAtFirst` |

Assumption: `BoundsAssumption`. The argument: `Kept` says that where docker and daemon.json
agreed about the container when it was made they do so for ever, and that the process never
begins the switch again: docker lists that container, or does not run and the pass ends
before. The undo log is bounded by what was written (`Log`). For a switch without fault and
crash `CalmInv` says of each step, forward and back, what is written and which services run:
every file that is not as it was is in the undo log with what it was (`LogFits`), no service
is restarted on the way forward before the last file, and on the way back none before all
files are as they were; the own containerd is there as long as a unit names it. A containerd
that does not tell its version is a fault, so none of that is claimed of it.

`DisksProofs` proves, for any finite set of disks, any limits and gaps, and any numbers of
changes, deaths of rclone and faults:

| theorem | states |
|---|---|
| `TypeCorrect` | `Spec => []TypeOK` |
| `Invariance` | `Spec => []IInv` |
| `OwnPorts` | `Spec => []PortsAreOwn` |
| `UploadsWaited`, `KeysOutlastInPeace`, `UploadsKept` | the action properties `WaitsForUploads`, `KeyOutlastsInPeace` and both, `UploadsHold` |

Assumptions: `DrivesAssumption` and `LimitsAssumption`. The argument: an rclone keeps the port
it was started with while its environment file may be written anew, so that `PortsDiffer` says
of the files too that no two name one port. `WaitIsTried` ties `since`, which a process starts
anew when it was not asked for a while, to the time it has been trying in all, and
`StopIsDue` carries what `flushing` found over the steps to the stop.

`KeyOutlastsUploads` is false (finding 2), and `KeysOutlastInPeace` says what it takes. A
second invariant, `Peace`, holds beside `IInv` until the first death or fault. A disk with
uploads then runs, or is being mounted, or was stopped when that was due
(`UploadsAreServed`), so that an unmount never finds its unit down with the key still there.
For that a mount must come to its end once it has its key, and so there must be a port:
every rclone listens at the port of its own environment file (`UnitsAreSound`), there are
more ports than disks, and one of them is free (`APortIsFree`, by counting).

`ContentProofs` proves, for any targets, versions and specs, numbers of attempts, changes,
edits and crashes, and whatever of the content the archive holds:

| theorem | states |
|---|---|
| `TypeCorrect` | `Spec => []TypeOK` |
| `Invariance` | `Spec => []IInv` |
| `SettledComplete`, `StampsGood`, `RetriesBounded`, `SaveAlone` | `SettledIsComplete`, `StampsHold`, `RetriesEnd`, `SavesQuiet` are invariants |
| `StartComplete` | the action property `StartsComplete` |

Assumptions: `TargetsAssumption` (a spec is of known targets, `Order` lists them all, no
target is both a model and a repository) and `BoundsAssumption`. The argument: because
`Reconcile` and `Stop` wait, at most one job is at work, on the current spec if there is one
(`OneJob`, `OnSpec`). `Accounted` says at each of its steps where every target of the spec is:
met, failed, or on a list yet to be worked off, unless its pass had no workspace
(`DealtWith`); so the result it leaves is true of its spec (`Results`), and stays so under the
passes that follow. Of a stamp it is claimed that it is right unless users changed the file
between rename and stat (`raced`), when it may be wrong. A failure is forgotten only for a
target that is met. `Counted` bounds the fetches: what is begun and not counted is the one in
hand, or was left by a cancelled job, after which no fetch of that spec begins (`NoMore`).

Every invariant and every action property of the passing runs is proved. Only model-checked:
liveness, which is outside the prover's reach as ENABLED is (`SaveConcludes`, `Concludes`,
`Converges`, `GetsReady`, `Settles` of Disks and of Content, `StopEnds`, `DownloadEnds`,
`GetsThere`, `RemountsAreFollowed`), and what the violated runs refute. RECURSIVE operators and
induction over data are out of reach too; the modules use neither.

## Findings

1. `state/manager.go:169`. `Restore` reads the marker, then `startRestore` awaits a restore
   it replaces, which may write the marker meanwhile; the new restore starts all the same,
   and the next call lets the container start under it. Only when the backend changes the
   archive under a running restore.
2. `disk/manager.go:276`. `Unmount` waits for uploads only when the unit is active: when
   rclone died with uploads pending the next pass takes key and unit away at once. Without a
   death, a revoked key, a failed command or a crash it does not happen
   (`KeysOutlastInPeace`).
3. `content/manager.go:717`. Content and restore write to the workspace side by side. A
   repository is planned to be cloned when its folder is not there; if the restore moves the
   archive's copy of that folder into place before git begins, git refuses it and `clone`
   removes it, the user's files included. The next pass clones the bare repository.

### Seen while modelling, without a run

Each of these is a narrow window or contradicts nothing that the repository promises.

- `container/manager.go:272`. The marker that the container ever ran is written after
  `docker run`: a crash or timeout in between, and a deletion before the next look at the
  container, has a used workspace skipped as never used.
- `state/manager.go:565`. `save_failed` is reported before its marker is written, unlike the
  other outcomes: a crash in between may be followed by `saved`.
- `state/manager.go:211`. The result of a restore is reported before its goroutine counts as
  over. A pass that looks in between sees no newer report and posts `restoring` over it; the
  next pass puts it right.
- `hostsetup/manager.go:332`. After a switch to an own containerd, a command that fails in a
  later step has the switch begun again. It finds the own containerd running, takes the
  system's for recent enough, fails and gives up to what the first switch wrote, with the own
  containerd removed. A crash in the middle of a switch has a like effect, as the undo log is
  in memory, and so has a file that cannot be put back: `containerdSkipped` is set before the
  undo log is run (386), and later passes do not try again. Then, or when docker was not
  restarted after the undo, the host counts as ready with docker on another store than
  daemon.json asks for. A container made there is hidden by the next restart of docker
  (`stray`, which `ContainersStay` excepts).
- `hostsetup/manager.go:398`. Giving up removes the own containerd also when a unit still names
  it: one of an earlier switch, which the undo puts back, or one that systemd has loaded and,
  with nothing restarted yet, is not told to load again. containerd then does not start any
  more, nor does docker, and with docker silent no later pass comes to the switch or to that
  unit: the host does not get ready.
- `lifecycle/manager.go:236`. A `docker run` that the deletion cut short may bring its
  container up after `terminate` has asked which ones run; the workspace is then saved beside
  it, and in the last pass it runs on.
- `content/manager.go:716`. A clone from a server that goes silent never ends, and the
  container, which waits for the content, does not start until the spec changes.
- `content/manager.go:224`. Content that has no workspace to go to settles as failed with
  nothing tried, and the container starts without it.
- `disk/manager.go:311`. Where every pass takes longer than `unmountGap` an unmount that waits
  for uploads waits for ever, whatever `flushLimit` says.
- `disk/manager.go:276`. systemd may start a failed rclone again after `Unmount` has found
  its unit inactive: it is then left running with its unit file and environment removed.
- `content/manager.go:382`. A crash in the middle of a clone leaves a folder that later
  passes take for the repository (`torn` in Content).
- `agent/agent.go:592`. A pass that does not find the container running notes the new mount and
  forgets that the container ran, and the remount is not followed. That is so when docker is
  silent at the wrong moment, and also when the container that runs is to be replaced but the
  new one's image cannot be pulled or waits at the gate: if the backend then asks for the old
  one again, it goes on running on the mount that is gone, and is told ready.

## Not modelled

Firewall and SSH keys: one idempotent ruleset and one managed block of a file, applied again
at each pass; config, ctrd and command: settings, a thin wrapper and wiring. Of components
that are modelled: the archive format and paths; progress parsing and formatting; what
rclone counts as errored files; direct mode and quotas of disks; a disk that stays full;
heartbeats; the answer 410; the installers' downloads and retries within one step; and what
each section above names as left out.
