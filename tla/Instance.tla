------------------------------ MODULE Instance ------------------------------
(***************************************************************************)
(* From the stream of specs to a container that is ready: intake, the      *)
(* pass of handleSpec with followRemounts and containerReadiness           *)
(* (agent/agent.go), the container manager (container/manager.go) and the  *)
(* tunnel (tunnel/manager.go), with docker, which may fail, be silent or   *)
(* have done what it was too slow to answer, and a disk that is remounted. *)
(* The work of the other managers in a pass is in modules of their own.    *)
(***************************************************************************)
EXTENDS Naturals, Sequences

CONSTANTS
  Containers,     \* containers by the hash of their spec
  None,
  Wishes,         \* what may be asked for: container or None, disk, tunnel
  MaxChanges,     \* bound: new specs, a deletion not counted
  MaxTroubles     \* bound: reconnects of the stream, losses of the tunnel, commands that
                  \* fail, ends of rclone and container, crashes of the agent, in all

Hashes == Containers \cup {None}

ASSUME WishesAssumption ==
  /\ None \notin Containers
  /\ Wishes \subseteq [cont : Hashes, disk : BOOLEAN, tunnel : BOOLEAN, del : {FALSE}]

ASSUME BoundsAssumption == MaxChanges \in Nat /\ MaxTroubles \in Nat

VARIABLES
  specs, flight, told,    \* the backend: specs by generation, those on their way, the
                          \* last status: generation, state and hash of the container
  cont, asked,            \* docker: the container, requests it has not answered
  mount, mounted,         \* the disk: its invocation or 0, their number
  link,                   \* frps: the proxies of the tunnel are running
  highest, inbox, hearing,  \* intake: generations, and stopAlive to be called
  deleting, work,         \* Agent.deleting; the alive context is not cancelled
  pc, p, obs,             \* the main loop: where it is, generation and container of its pass
  last,                   \* container.Manager.last
  mountID, containerAlive,
  readyHash, waitedHash,
  frpc,                   \* tunnel.Manager runs its service
  seenDown, lost,         \* history of this pass: the container was found down, the disk
                          \* ended after the gate
  answered,               \* history: whose ports were found open since its start
  behind,                 \* history: a new mount under a container that is up, when one and
                          \* its mount were known; every pass since found it running on it
  overdue,                \* history: docker started a container after the end
  changes, troubles

backend == <<specs, flight, told>>
docker == <<cont, asked, answered>>
disk == <<mount, mounted>>
intake == <<highest, inbox, hearing>>
context == <<deleting, work>>
pass == <<pc, p, obs>>
memory == <<last, mountID, containerAlive>>
readiness == <<readyHash, waitedHash>>
history == <<seenDown, lost, behind, overdue>>
counts == <<changes, troubles>>
vars == <<backend, docker, disk, link, intake, context, pass, memory, readiness, frpc,
          history, counts>>

Newest == Len(specs)
Wish == specs[p]

\* A container: nothing, created only, up or exited; whether it listens, and the mount
\* of the disk it was started on. A request to docker: to make a container, or to start
\* the one that is there.
Gone == [st |-> "none", hash |-> None, listens |-> FALSE, mount |-> 0]
Seen(s, h) == [state |-> s, hash |-> h]
Absent == Seen("absent", None)
Make(h) == [what |-> "run", hash |-> h]
Start(h) == [what |-> "start", hash |-> h]
Asked == {r.hash : r \in asked}
Waiting == pc \in {"running", "restarting"}

Init ==
  /\ \E w \in Wishes : specs = <<w>>
  /\ flight = {1} /\ told = [gen |-> 0, obs |-> Absent]
  /\ cont = Gone /\ asked = {} /\ mount = 0 /\ mounted = 0 /\ link = FALSE /\ answered = None
  /\ highest = 0 /\ inbox = 0 /\ hearing = FALSE
  /\ deleting = FALSE /\ work = FALSE
  /\ pc = "idle" /\ p = 0 /\ obs = Absent
  /\ last = Seen("none", None) /\ mountID = 0 /\ containerAlive = FALSE
  /\ readyHash = None /\ waitedHash = None /\ frpc = FALSE
  /\ seenDown = FALSE /\ lost = FALSE /\ behind = FALSE /\ overdue = FALSE
  /\ changes = 0 /\ troubles = 0

Trouble == troubles < MaxTroubles /\ troubles' = troubles + 1

\* A command on the alive context fails, in any case when the context is cancelled.
Fails ==
  \/ ~work /\ UNCHANGED troubles
  \/ work /\ Trouble

-----------------------------------------------------------------------------
(* The backend, the stream and the machine.                                 *)

\* A generation more, on its way to the agent
Send(w) == specs' = Append(specs, w) /\ flight' = flight \cup {Newest + 1}

ChangeSpec ==
  /\ ~specs[Newest].del /\ changes < MaxChanges /\ changes' = changes + 1
  /\ \E w \in Wishes \ {specs[Newest]} : Send(w)
  /\ UNCHANGED <<told, docker, disk, link, intake, context, pass, memory, readiness, frpc,
                 history, troubles>>

RequestDeletion ==
  /\ ~specs[Newest].del
  /\ Send([specs[Newest] EXCEPT !.del = TRUE])
  /\ UNCHANGED <<told, docker, disk, link, intake, context, pass, memory, readiness, frpc,
                 history, counts>>

\* streamLoop connects again and is sent the newest spec; of those on their way some
\* are lost, and the others may come later.
Reconnect ==
  /\ Trouble
  /\ \E kept \in SUBSET flight : flight' = kept \cup {Newest}
  /\ UNCHANGED <<specs, told, docker, disk, link, intake, context, pass, memory, readiness,
                 frpc, history, changes>>

\* The application listens on its ports; frpc's proxies come and go.
Listen ==
  /\ cont.st = "up" /\ ~cont.listens /\ cont' = [cont EXCEPT !.listens = TRUE]
  /\ UNCHANGED <<backend, asked, answered, disk, link, intake, context, pass, memory,
                 readiness, frpc, history, counts>>
Link ==
  /\ frpc /\ link' = ~link
  /\ IF link THEN Trouble ELSE UNCHANGED troubles
  /\ UNCHANGED <<backend, docker, disk, intake, context, pass, memory, readiness, frpc,
                 history, changes>>

Removed == cont' = Gone /\ asked' = {r \in asked : r.what = "run"}
Again == [cont EXCEPT !.st = "up", !.listens = FALSE, !.mount = mount]

\* docker carries out what nobody waits for any more: the client was killed at its
\* timeout, with its context or with the agent, but not the request. A container is made
\* if there is none of its name, and started.
Late(r) ==
  /\ r \in asked /\ ~Waiting
  /\ \/ /\ r.what = "run" /\ cont = Gone
        /\ cont' = [Gone EXCEPT !.st = "created", !.hash = r.hash]
        /\ asked' = (asked \ {r}) \cup {Start(r.hash)}
        /\ UNCHANGED <<behind, overdue>>
     \/ /\ r.what = "start" /\ cont.hash = r.hash
        /\ cont' = Again /\ asked' = asked \ {r}
        /\ behind' = (behind /\ mount = 0)
        /\ overdue' = (overdue \/ pc = "ended")
  /\ UNCHANGED <<backend, answered, disk, link, intake, context, pass, memory, readiness,
                 frpc, seenDown, lost, counts>>

Later == \E r \in asked : Late(r)

\* The container exits; docker starts it again (--restart unless-stopped).
Exit ==
  /\ cont.st = "up" /\ Trouble
  /\ cont' = [cont EXCEPT !.st = "exited", !.listens = FALSE]
  /\ UNCHANGED <<backend, asked, answered, disk, link, intake, context, pass, memory,
                 readiness, frpc, history, changes>>
Respawn ==
  /\ cont.st = "exited"
  /\ cont' = [cont EXCEPT !.st = "up", !.mount = mount]
  /\ behind' = (behind /\ mount = 0)
  /\ UNCHANGED <<backend, asked, answered, disk, link, intake, context, pass, memory,
                 readiness, frpc, seenDown, lost, overdue, counts>>

\* A new invocation of rclone. followRemounts knows of a container and of its mount.
NewMount ==
  /\ mount' = mounted + 1 /\ mounted' = mounted + 1
  /\ behind' = (behind \/ (cont.st = "up" /\ containerAlive /\ mountID # 0))

\* rclone ends, or is started again by systemd at once or after its end was seen.
Remount ==
  /\ Trouble /\ mount # 0
  /\ \/ NewMount /\ UNCHANGED lost
     \/ /\ mount' = 0 /\ UNCHANGED <<mounted, behind>>
        /\ lost' = (lost \/ pc \in {"rm", "run"})
  /\ UNCHANGED <<backend, docker, link, intake, context, pass, memory, readiness, frpc,
                 seenDown, overdue, changes>>

-----------------------------------------------------------------------------
(* intake                                                                   *)

\* A mutant: a spec is taken whatever came before it.
ArriveAny(g) ==
  /\ g \in flight /\ ~hearing
  /\ flight' = flight \ {g}
  /\ highest' = g /\ inbox' = g /\ hearing' = specs[g].del
  /\ UNCHANGED <<specs, told, docker, disk, link, context, pass, memory, readiness, frpc,
                 history, counts>>

\* A spec comes, in whatever order; one older than another that came is dropped.
Arrive(g) ==
  /\ g \in flight /\ ~hearing
  /\ flight' = flight \ {g}
  /\ IF g < highest THEN UNCHANGED intake
     ELSE highest' = g /\ inbox' = g /\ hearing' = specs[g].del
  /\ UNCHANGED <<specs, told, docker, disk, link, context, pass, memory, readiness, frpc,
                 history, counts>>

\* stopAlive cancels the context of all work, and of all work to come.
StopAlive == deleting' = TRUE /\ work' = FALSE

HearDeletion ==
  /\ hearing /\ hearing' = FALSE
  /\ StopAlive
  /\ UNCHANGED <<backend, docker, disk, link, highest, inbox, pass, memory, readiness,
                 frpc, history, counts>>

-----------------------------------------------------------------------------
(* A pass of the main loop.                                                 *)

\* The ticker, a signal of the inbox or of a manager
BeginPass ==
  /\ pc = "idle" /\ inbox # 0
  /\ p' = inbox
  /\ pc' = IF specs[inbox].del THEN "terminate" ELSE "context"
  /\ seenDown' = FALSE /\ lost' = FALSE
  /\ UNCHANGED <<backend, docker, disk, link, intake, context, obs, memory, readiness,
                 frpc, behind, overdue, counts>>

\* A mutant: a context that was cancelled is replaced by another.
AliveContextAnew ==
  /\ pc = "context" /\ pc' = "disks"
  /\ work' = TRUE
  /\ UNCHANGED <<backend, docker, disk, link, intake, deleting, p, obs, memory, readiness,
                 frpc, history, counts>>

\* aliveContext: none but a cancelled one once the instance is to be deleted
AliveContext ==
  /\ pc = "context" /\ pc' = "disks"
  /\ work' = ~deleting
  /\ UNCHANGED <<backend, docker, disk, link, intake, deleting, p, obs, memory, readiness,
                 frpc, history, counts>>

\* reconcileDisks: the disk is mounted or unmounted if need be, and if that succeeds.
Disks ==
  /\ pc = "disks" /\ pc' = "inspect"
  /\ \/ /\ Wish.disk = (mount # 0)
        /\ UNCHANGED <<disk, behind, troubles>>
     \/ /\ Wish.disk # (mount # 0)
        /\ Fails
        /\ UNCHANGED <<disk, behind>>
     \/ /\ Wish.disk /\ mount = 0 /\ work
        /\ NewMount /\ UNCHANGED troubles
     \/ /\ ~Wish.disk /\ mount # 0 /\ work
        /\ mount' = 0 /\ behind' = FALSE /\ UNCHANGED <<mounted, troubles>>
  /\ UNCHANGED <<backend, docker, link, intake, context, p, obs, memory, readiness, frpc,
                 seenDown, lost, overdue, changes>>

\* The result of container.Reconcile is o.
Result(o) == obs' = o /\ last' = o /\ pc' = "remounts"

\* A mutant: docker that does not answer is taken to have no container.
InspectSilentAbsent ==
  /\ pc = "inspect"
  /\ Fails
  /\ IF Wish.cont = None
     THEN obs' = Absent /\ pc' = "remounts"
     ELSE obs' = obs /\ pc' = "pull"
  /\ UNCHANGED <<backend, docker, disk, link, intake, context, p, memory, readiness, frpc,
                 history, changes>>

\* docker inspect fails: the last observation stands for this one.
InspectFails ==
  /\ pc = "inspect" /\ pc' = "remounts"
  /\ Fails
  /\ obs' = IF Wish.cont = None THEN Absent
            ELSE IF last.state # "none" THEN last
            ELSE Seen("starting", Wish.cont)
  /\ UNCHANGED <<backend, docker, disk, link, intake, context, p, memory, readiness, frpc,
                 history, changes>>

\* Decide, ActionNone: nothing to do, or the container of the spec is running.
Keep ==
  /\ pc = "inspect" /\ work
  /\ \/ Wish.cont = None /\ cont = Gone /\ Result(Absent)
     \/ /\ Wish.cont # None /\ cont.st = "up" /\ cont.hash = Wish.cont
        /\ Result(Seen("running", cont.hash))
  /\ UNCHANGED <<backend, docker, disk, link, intake, context, p, mountID, containerAlive,
                 readiness, frpc, history, counts>>

\* ActionRemove: a container without a spec; docker rm may fail with its deed done.
Remove ==
  /\ pc = "inspect" /\ work /\ Wish.cont = None /\ cont # Gone
  /\ \/ Removed /\ answered' = None /\ behind' = FALSE
     \/ UNCHANGED <<docker, behind>>
  /\ \/ cont' = Gone /\ Result(Absent) /\ UNCHANGED troubles
     \/ Trouble /\ Result(Seen("error", None))
  /\ UNCHANGED <<backend, disk, link, intake, context, p, mountID, containerAlive,
                 readiness, frpc, seenDown, lost, overdue, changes>>

\* ActionApply: another container, one that is down, or none. The image is pulled first.
Apply ==
  /\ pc = "inspect" /\ work /\ Wish.cont # None
  /\ cont.st # "up" \/ cont.hash # Wish.cont
  /\ pc' = "pull" /\ seenDown' = (cont.st # "up")
  /\ UNCHANGED <<backend, docker, disk, link, intake, context, p, obs, memory, readiness,
                 frpc, lost, behind, overdue, counts>>

Pull ==
  /\ pc = "pull"
  /\ \/ work /\ pc' = "gate" /\ UNCHANGED <<obs, last, troubles>>
     \/ Fails /\ Result(Seen("error", Wish.cont))
  /\ UNCHANGED <<backend, docker, disk, link, intake, context, p, mountID, containerAlive,
                 readiness, frpc, history, changes>>

\* A mutant: the container does not wait for its disk.
GateAlways ==
  /\ pc = "gate"
  /\ pc' = "rm"
  /\ UNCHANGED <<backend, docker, disk, link, intake, context, p, obs, memory, readiness,
                 frpc, history, counts>>

\* The start gate, for its part diskHold; a disk that cannot be looked at holds it too.
\* The container that runs stays meanwhile.
Gate ==
  /\ pc = "gate"
  /\ \/ /\ Wish.disk => mount # 0 /\ work
        /\ pc' = "rm" /\ UNCHANGED <<obs, last, troubles>>
     \/ /\ Wish.disk
        /\ (mount = 0 /\ UNCHANGED troubles) \/ Fails
        /\ pc' = "remounts" /\ last' = Seen("pulling", Wish.cont)
        /\ obs' = Seen("starting", Wish.cont)
  /\ UNCHANGED <<backend, docker, disk, link, intake, context, p, mountID, containerAlive,
                 readiness, frpc, history, changes>>

\* A mutant: a container that is started anew is not to earn its readiness again.
RemoveOldReady ==
  /\ pc = "rm"
  /\ \/ Removed /\ answered' = None /\ behind' = FALSE
     \/ UNCHANGED <<docker, behind>>
  /\ \/ /\ work /\ cont' = Gone /\ pc' = "run"
        /\ UNCHANGED <<obs, last, readiness, troubles>>
     \/ /\ Fails /\ Result(Seen("error", Wish.cont))
        /\ UNCHANGED readiness
  /\ UNCHANGED <<backend, disk, link, intake, context, p, mountID, containerAlive, frpc,
                 seenDown, lost, overdue, changes>>

\* docker rm -f, which may fail with its deed done, and the report of starting, which
\* forgets the readiness
RemoveOld ==
  /\ pc = "rm"
  /\ \/ Removed /\ answered' = None /\ behind' = FALSE
     \/ UNCHANGED <<docker, behind>>
  /\ \/ /\ work /\ cont' = Gone /\ pc' = "run"
        /\ readyHash' = None /\ waitedHash' = None
        /\ UNCHANGED <<obs, last, troubles>>
     \/ /\ Fails /\ Result(Seen("error", Wish.cont))
        /\ UNCHANGED readiness
  /\ UNCHANGED <<backend, disk, link, intake, context, p, mountID, containerAlive, frpc,
                 seenDown, lost, overdue, changes>>

Started == [st |-> "up", hash |-> Wish.cont, listens |-> FALSE, mount |-> mount]

\* docker run is sent, if the context is not cancelled, and refused if the name is taken.
AskRun ==
  /\ pc = "run"
  /\ \/ /\ work /\ cont = Gone
        /\ asked' = asked \cup {Make(Wish.cont)} /\ pc' = "running"
        /\ UNCHANGED <<obs, last>>
     \/ /\ ~work \/ cont # Gone
        /\ Result(Seen("error", Wish.cont)) /\ UNCHANGED asked
  /\ UNCHANGED <<backend, cont, answered, disk, link, intake, context, p, mountID,
                 containerAlive, readiness, frpc, history, counts>>

\* docker answers, or the client is killed, by its timeout or with the context: what
\* docker does then may come at any time.
Run ==
  /\ pc = "running"
  /\ \/ /\ Make(Wish.cont) \in asked
        /\ cont' = Started /\ asked' = asked \ {Make(Wish.cont)} /\ pc' = "look"
        /\ UNCHANGED <<obs, last, troubles>>
     \/ /\ Fails /\ Result(Seen("error", Wish.cont))
        /\ UNCHANGED <<cont, asked>>
  /\ UNCHANGED <<backend, answered, disk, link, intake, context, p, mountID, containerAlive,
                 readiness, frpc, history, changes>>

\* The container is looked at again; without an answer it counts as running.
LookAgain ==
  /\ pc = "look"
  /\ \/ /\ work /\ UNCHANGED troubles
        /\ Result(Seen(IF cont.st = "up" THEN "running" ELSE "error", Wish.cont))
     \/ Fails /\ Result(Seen("running", Wish.cont))
  /\ UNCHANGED <<backend, docker, disk, link, intake, context, p, mountID, containerAlive,
                 readiness, frpc, history, changes>>

IsAlive == obs.state = "running"

\* A mutant: an invocation that cannot be read, or is none, is forgotten.
KnownForgotten == IF Wish.disk THEN mount ELSE 0

\* The invocation of the disk as it is, or as it was last read
Known == IF ~Wish.disk THEN 0 ELSE IF mount # 0 /\ work THEN mount ELSE mountID

\* followRemounts, up to the restart
FollowRemounts ==
  /\ pc = "remounts"
  /\ pc' = IF IsAlive /\ containerAlive /\ Known # 0 /\ mountID # 0 /\ Known # mountID
           THEN "restart" ELSE "tunnel"
  /\ containerAlive' = IsAlive /\ mountID' = Known
  /\ behind' = (behind /\ IsAlive /\ Wish.disk)
  /\ UNCHANGED <<backend, docker, disk, link, intake, context, p, obs, last, readiness,
                 frpc, seenDown, lost, overdue, counts>>

\* docker restart is sent; without a container or a context there is nothing to wait for.
AskRestart ==
  /\ pc = "restart" /\ pc' = "restarting"
  /\ asked' = IF work /\ cont # Gone THEN asked \cup {Start(cont.hash)} ELSE asked
  /\ UNCHANGED <<backend, cont, answered, disk, link, intake, context, p, obs, memory,
                 readiness, frpc, history, counts>>

\* docker answers, or the client is killed. A failure is not followed up.
RestartContainer ==
  /\ pc = "restarting" /\ pc' = "tunnel"
  /\ \/ /\ Start(cont.hash) \in asked
        /\ cont' = Again /\ asked' = asked \ {Start(cont.hash)}
        /\ UNCHANGED troubles
     \/ /\ Fails \/ (Start(cont.hash) \notin asked /\ UNCHANGED troubles)
        /\ UNCHANGED <<cont, asked>>
  /\ answered' = None /\ behind' = FALSE
  /\ readyHash' = None /\ waitedHash' = None
  /\ UNCHANGED <<backend, disk, link, intake, context, p, obs, memory, frpc, seenDown, lost,
                 overdue, changes>>

\* tunnel.Reconcile: frpc is stopped, left alone, or started, which may fail.
Tunnel ==
  /\ pc = "tunnel"
  /\ pc' = IF IsAlive THEN "ready" ELSE "post"
  /\ \/ /\ Wish.tunnel = frpc
        /\ UNCHANGED <<frpc, link, troubles>>
     \/ /\ Wish.tunnel # frpc /\ frpc' = Wish.tunnel /\ link' = FALSE
        /\ UNCHANGED troubles
     \/ /\ Wish.tunnel /\ ~frpc /\ Trouble
        /\ UNCHANGED <<frpc, link>>
  /\ UNCHANGED <<backend, docker, disk, intake, context, p, obs, memory, readiness, history,
                 changes>>

\* The ports of the tunnel's proxies are open on the host and the gateway reaches them.
Open == cont.st = "up" /\ cont.listens /\ frpc /\ link

\* containerReadiness: a container with no ports to look at is ready, and one that was
\* ready stays so.
StillReady ==
  /\ pc = "ready" /\ pc' = "post"
  /\ ~Wish.tunnel \/ readyHash = obs.hash
  /\ obs' = Seen("ready", obs.hash)
  /\ UNCHANGED <<backend, docker, disk, link, intake, context, p, memory, readiness, frpc,
                 history, counts>>

\* A probe finds all open.
GetsReady ==
  /\ pc = "ready" /\ pc' = "post"
  /\ Wish.tunnel /\ readyHash # obs.hash /\ Open
  /\ readyHash' = obs.hash /\ waitedHash' = obs.hash
  /\ answered' = cont.hash
  /\ obs' = Seen("ready", obs.hash)
  /\ UNCHANGED <<backend, cont, asked, disk, link, intake, context, p, memory, frpc,
                 history, counts>>

\* A probe does not, and readyTimeout is over, or was over in an earlier pass.
Unresponsive ==
  /\ pc = "ready" /\ pc' = "post"
  /\ Wish.tunnel /\ readyHash # obs.hash /\ ~Open
  /\ waitedHash' = obs.hash
  /\ obs' = Seen("unresponsive", obs.hash)
  /\ UNCHANGED <<backend, docker, disk, link, intake, context, p, memory, readyHash, frpc,
                 history, counts>>

\* A deletion ends the waiting.
NotWaited ==
  /\ pc = "ready" /\ pc' = "post"
  /\ Wish.tunnel /\ readyHash # obs.hash /\ waitedHash # obs.hash /\ ~work
  /\ UNCHANGED <<backend, docker, disk, link, intake, context, p, obs, memory, readiness,
                 frpc, history, counts>>

\* The status, unless the work of this pass was cancelled
Post ==
  /\ pc = "post" /\ pc' = "idle"
  /\ told' = IF work THEN [gen |-> p, obs |-> obs] ELSE told
  /\ UNCHANGED <<specs, flight, docker, disk, link, intake, context, p, obs, memory,
                 readiness, frpc, history, counts>>

Stopped == IF cont = Gone THEN Gone ELSE [cont EXCEPT !.st = "created", !.listens = FALSE]

\* terminate: all containers that run are stopped, in each of its passes, and in the last
\* the units of disks.
Terminate ==
  /\ pc = "terminate"
  /\ StopAlive
  /\ \/ /\ pc' = "ended" /\ cont' = Stopped /\ mount' = 0
        /\ UNCHANGED troubles
     \/ /\ pc' = "idle" /\ cont' \in {cont, Stopped} /\ UNCHANGED mount
        /\ Trouble
  /\ behind' = FALSE
  /\ UNCHANGED <<backend, asked, answered, mounted, link, intake, p, obs, memory, readiness,
                 frpc, seenDown, lost, overdue, changes>>

\* The agent is killed, frpc with it, and started again; the stream brings the newest
\* spec.
Restart ==
  /\ pc # "ended" /\ Trouble
  /\ flight' = {Newest}
  /\ highest' = 0 /\ inbox' = 0 /\ hearing' = FALSE
  /\ deleting' = FALSE /\ work' = FALSE
  /\ pc' = "idle" /\ p' = 0 /\ obs' = Absent
  /\ last' = Seen("none", None) /\ mountID' = 0 /\ containerAlive' = FALSE
  /\ readyHash' = None /\ waitedHash' = None /\ frpc' = FALSE /\ link' = FALSE
  /\ seenDown' = FALSE /\ lost' = FALSE
  /\ behind' = FALSE /\ answered' = None
  /\ UNCHANGED <<specs, told, cont, asked, disk, overdue, changes>>

MainLoop ==
  \/ BeginPass \/ AliveContext \/ Disks \/ InspectFails \/ Keep \/ Remove \/ Apply \/ Pull
  \/ Gate \/ RemoveOld \/ AskRun \/ Run \/ LookAgain \/ FollowRemounts \/ AskRestart
  \/ RestartContainer \/ Tunnel \/ StillReady \/ GetsReady \/ Unresponsive \/ NotWaited
  \/ Post \/ Terminate

Intake == HearDeletion \/ \E g \in flight : Arrive(g)

Next ==
  \/ ChangeSpec \/ RequestDeletion \/ Reconnect
  \/ Listen \/ Link \/ Exit \/ Respawn \/ Later \/ Remount
  \/ Intake \/ MainLoop \/ Restart

Spec == Init /\ [][Next]_vars

\* The ticker wakes the main loop, every command has its timeout, what is on its way
\* arrives.
FairSpec == Spec /\ WF_vars(MainLoop) /\ WF_vars(Intake)

-----------------------------------------------------------------------------
(* What must be true of it.                                                 *)

AllSpecs == [cont : Hashes, disk : BOOLEAN, tunnel : BOOLEAN, del : BOOLEAN]
States == {"none", "absent", "starting", "pulling", "running", "error", "ready",
           "unresponsive"}
Steps == {"idle", "context", "disks", "inspect", "pull", "gate", "rm", "run", "running",
          "look", "remounts", "restart", "restarting", "tunnel", "ready", "post",
          "terminate", "ended"}
Observations == [state : States, hash : Hashes]

BackendType ==
  /\ specs \in Seq(AllSpecs) /\ specs # <<>>
  /\ flight \subseteq 1..Newest
  /\ told \in [gen : 0..Newest, obs : Observations]
MachineType ==
  /\ cont \in [st : {"none", "created", "up", "exited"}, hash : Hashes,
               listens : BOOLEAN, mount : 0..mounted]
  /\ asked \subseteq [what : {"run", "start"}, hash : Containers]
  /\ mount \in 0..mounted /\ mounted \in Nat /\ mountID \in 0..mounted
  /\ link \in BOOLEAN /\ answered \in Hashes
IntakeType ==
  /\ highest \in 0..Newest /\ inbox \in 0..highest /\ p \in 0..highest /\ hearing \in BOOLEAN
  /\ deleting \in BOOLEAN /\ work \in BOOLEAN /\ ~(deleting /\ work)
LoopType ==
  /\ pc \in Steps /\ obs \in Observations /\ last \in Observations
  /\ readyHash \in Hashes /\ waitedHash \in Hashes
  /\ containerAlive \in BOOLEAN /\ frpc \in BOOLEAN
  /\ seenDown \in BOOLEAN /\ lost \in BOOLEAN /\ behind \in BOOLEAN /\ overdue \in BOOLEAN
CountsType == changes \in 0..MaxChanges /\ troubles \in 0..MaxTroubles

\* Every variable keeps its type; the main loop handles what the intake has let through,
\* and a context that works is never that of an instance to be deleted.
TypeOK == BackendType /\ MachineType /\ IntakeType /\ LoopType /\ CountsType

\* A container is reported ready only if its own ports were seen open since the agent last
\* saw to its start ("container restarted after a remount must be checked again"),
\* whichever commands were silent, timed out or had failed after the deed. A start that
\* docker carries out after the agent has given it up is like one of docker's own.
ReadyIsEarned ==
  pc = "post" /\ obs.state = "ready" /\ Wish.tunnel => answered = obs.hash

\* docker is asked to run a container on a disk that is mounted; rclone may still end
\* between the gate, which sees it, and docker run ("container must wait for its disks").
StartsOnDisks ==
  [][pc = "run" /\ pc' = "running" /\ Wish.disk => mount # 0 \/ lost]_pc

\* Once a deletion is heard, this process asks docker for no start any more, though a pass
\* over an earlier spec is at work or begins; and no container comes up but one whose start
\* was on its way by then, which the killing of the client does not take back.
NoneAfterDeletion ==
  [][deleting => /\ Asked' \subseteq Asked
                 /\ cont.st \in {"none", "created"} /\ cont'.st = "up" => cont'.hash \in Asked
    ]_<<cont, asked>>

\* A container of the wanted spec is not removed while it runs, unless it was found
\* down: docker that is silent takes nobody's work away.
RunningIsKept ==
  [][cont.st = "up" /\ cont'.st = "none" => cont.hash # Wish.cont \/ seenDown]_cont

\* A new mount under a container that the agent knew to run, by systemd or by the agent, is
\* followed by a restart, a new container or an unmount, in whatever pass its invocation can
\* be read. A failed docker restart is not repeated; a crash forgets the mount, and so does
\* a pass that does not find the container running.
RemountsAreFollowed == behind ~> ~behind

\* What is told and what is there are what the newest spec asks for.
Agrees ==
  /\ told.gen = Newest
  /\ told.obs.hash = specs[Newest].cont /\ cont.hash = specs[Newest].cont
  /\ IF specs[Newest].cont = None THEN told.obs = Absent
     ELSE cont.st = "up" /\ told.obs.state \in {"ready", "unresponsive"}

\* With no further trouble the newest spec is reached, or with a deletion the end with
\* nothing up, for good, even if specs come out of order or commands fail and time out. Only
\* docker may still start what it was asked for before, and the agent does not look any more.
GetsThere ==
  <>[](IF specs[Newest].del THEN pc = "ended" /\ (cont.st = "up" => overdue) ELSE Agrees)
=============================================================================
