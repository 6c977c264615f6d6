------------------------------ MODULE Content ------------------------------
(***************************************************************************)
(* Files, models and repositories put into /workspace: content/manager.go, *)
(* with the passes of agent/agent.go that start, replace and stop its job, *)
(* the start gate, and the others who write to the workspace meanwhile.    *)
(***************************************************************************)
EXTENDS Naturals, Sequences, FiniteSets

CONSTANTS
  Files,          \* workspace files: there or not
  Models,         \* models with a sha256: there if the sum is right
  Repos,          \* repositories to clone: there if the folder is
  Order,          \* the order of plan: files, models, repositories
  Versions,       \* what may be at a URL
  Specs,          \* what the backend may ask for: targets and their versions
  Flawed,         \* those of Specs that more can go wrong with than their targets: entries
                  \* that plan refuses, a folder or the workspace itself that is not made
  NoSpec,         \* no content
  Saved,          \* targets that are also in the archive of the workspace
  FetchAttempts,  \* fetchAttempts
  MaxChanges,     \* bound: changes of the spec
  MaxEdits,       \* bound: changes by users
  MaxCrashes      \* bound: crashes of the agent

Targets == Files \cup Models \cup Repos
Slots == 1..2     \* a job and the one it replaces

ASSUME TargetsAssumption ==
  /\ Saved \subseteq Targets
  /\ \A s \in Specs : DOMAIN s \subseteq Targets /\ \A t \in DOMAIN s : s[t] \in Versions
  /\ NoSpec \notin Specs /\ Flawed \subseteq Specs
  /\ Repos \cap Models = {} /\ Versions \cap {"none", "half", "own"} = {}
  /\ Order \in Seq(Targets) /\ \A t \in Targets : \E i \in DOMAIN Order : Order[i] = t

ASSUME BoundsAssumption ==
  /\ FetchAttempts \in Nat \ {0}
  /\ MaxChanges \in Nat /\ MaxEdits \in Nat /\ MaxCrashes \in Nat

\* What is at a target: nothing, a version, part of a clone, what a user made of it.
Data == Versions \cup {"none", "half", "own"}

VARIABLES
  want, del,          \* the backend: AgentSpec.Content, a deletion
  disk, up, toMove,   \* the machine: targets, the container, the restore's targets to come
  key, cur, settled, observed,  \* content.Manager; cur is its job, or 0
  verified,           \* models whose stamp is the file's, with the sum of that stamp
  tries, given,       \* failure.attempts, and the targets given up: failure.permanent
  jobs,               \* goroutines run/pass
  alive,              \* the context of work for a living instance
  mpc, mspec,         \* the main loop: where it is, the spec of its pass
  met, begun, unplaced,  \* history: targets met, fetches begun and targets that a pass
                      \* had no workspace to put in, since key is set
  torn, raced,        \* history: clones cut by a crash, stamps taken of a file that
                      \* was changed after it was put in place
  changes, edits, crashes

backend == <<want, del>>
machine == <<disk, up, toMove>>
manager == <<key, cur, settled, observed, verified, tries, given>>
loop == <<mpc, mspec>>
history == <<met, begun, unplaced, torn, raced>>
counts == <<changes, edits, crashes>>
vars == <<backend, machine, manager, jobs, alive, loop, history, counts>>

Over ==
  [pc |-> "over", spec |-> NoSpec, dead |-> FALSE, todo |-> {}, miss |-> {}, bad |-> FALSE]
IsOver(s) == s \in Slots => jobs[s].pc = "over"

\* The first of a set of targets in the order of plan.
FirstOf(S) == Order[CHOOSE i \in DOMAIN Order :
                 Order[i] \in S /\ \A k \in 1..(i - 1) : Order[k] \notin S]

Init ==
  /\ want \in Specs \cup {NoSpec} /\ del = FALSE
  /\ disk = [t \in Targets |-> "none"] /\ up = FALSE /\ toMove = Saved
  /\ key = NoSpec /\ cur = 0 /\ settled = FALSE /\ observed = "none"
  /\ verified = [t \in Models |-> "none"]
  /\ tries = [t \in Targets |-> 0] /\ given = {}
  /\ jobs = [s \in Slots |-> Over] /\ alive = TRUE
  /\ mpc = "idle" /\ mspec = NoSpec
  /\ met = {} /\ begun = [t \in Targets |-> 0] /\ unplaced = {}
  /\ torn = {} /\ raced = {}
  /\ changes = 0 /\ edits = 0 /\ crashes = 0

-----------------------------------------------------------------------------
(* The backend, the restore and the users.                                  *)

ChangeSpec ==
  /\ ~del /\ changes < MaxChanges /\ changes' = changes + 1
  /\ want' \in (Specs \cup {NoSpec}) \ {want}
  /\ UNCHANGED <<del, machine, manager, jobs, alive, loop, history, edits, crashes>>

RequestDeletion ==
  /\ ~del /\ del' = TRUE
  /\ UNCHANGED <<want, machine, manager, jobs, alive, loop, history, counts>>

\* Another writer puts d at t: the file has another time, its stamp is no longer good.
Overwrite(t, d) ==
  /\ disk' = [disk EXCEPT ![t] = d]
  /\ verified' = [x \in Models |-> IF x = t THEN "none" ELSE verified[x]]
  /\ raced' = raced \ {t}

\* The restore of the workspace runs beside the content job and moves what the
\* archive holds over what is there; Save stops it.
RestoreMove ==
  /\ alive /\ mpc # "save"
  /\ \E t \in toMove : Overwrite(t, "own") /\ toMove' = toMove \ {t}
  /\ UNCHANGED <<backend, up, key, cur, settled, observed, tries, given, jobs, alive,
                 loop, met, begun, unplaced, torn, counts>>

\* Users of a running container change a target or delete it.
Edit ==
  /\ up /\ edits < MaxEdits /\ edits' = edits + 1
  /\ \E t \in Targets, d \in {"own", "none"} : d # disk[t] /\ Overwrite(t, d)
  /\ UNCHANGED <<backend, up, toMove, key, cur, settled, observed, tries, given, jobs,
                 alive, loop, met, begun, unplaced, torn, changes, crashes>>

-----------------------------------------------------------------------------
(* The job: run, pass.                                                      *)

\* The job of slot s goes on as r.
Goes(s, r) == jobs' = [jobs EXCEPT ![s] = r]

\* The current spec's target t has been seen in place.
Meet(t, v) ==
  met' = IF key # NoSpec /\ t \in DOMAIN key /\ key[t] = v THEN met \cup {t} ELSE met

\* A mutant: a model of the right size is taken for verified without its sum.
PresentBySize(t, v) == disk[t] # "none"

\* plan: is target t there as version v? A file by its existence, a model by its
\* stamp or its sum, a repository by its folder.
Present(t, v) ==
  IF t \in Models THEN verified[t] = v \/ disk[t] = v ELSE disk[t] # "none"

\* pass ends before it has looked at anything: there is no volume for /workspace, or it
\* cannot be made or opened.
NoWorkspace(s) ==
  /\ jobs[s].pc = "plan" /\ jobs[s].spec \in Flawed
  /\ jobs[s].todo = DOMAIN jobs[s].spec /\ jobs[s].miss = {}
  /\ Goes(s, IF jobs[s].dead THEN Over
             ELSE [jobs[s] EXCEPT !.pc = "finish", !.todo = {}, !.bad = TRUE])
  /\ unplaced' = DOMAIN jobs[s].spec
  /\ UNCHANGED <<backend, machine, manager, alive, loop, met, begun, torn, raced, counts>>

\* plan looks at one target after another.
Look(s) ==
  /\ jobs[s].pc = "plan" /\ jobs[s].todo # {}
  /\ LET j == jobs[s]
         t == FirstOf(j.todo)
         v == j.spec[t]
     IN IF Present(t, v)
        THEN /\ Goes(s, [j EXCEPT !.todo = @ \ {t}])
             /\ Meet(t, v)
             /\ verified' = [x \in Models |-> IF x = t THEN v ELSE verified[x]]
        ELSE /\ Goes(s, [j EXCEPT !.todo = @ \ {t}, !.miss = @ \cup {t}])
             /\ UNCHANGED <<met, verified>>
  /\ UNCHANGED <<backend, machine, key, cur, settled, observed, tries, given, alive, loop,
                 begun, unplaced, torn, raced, counts>>

\* A pass over the spec of j goes wrong beside its targets.
Refused(j) == IF j.spec \in Flawed THEN BOOLEAN ELSE {FALSE}

\* Which of the targets S are not to be fetched in this pass: those given up, and those
\* that failed and wait for the end of a backoff, which may have passed or not.
MayBeHeld(S) == {H \in SUBSET {t \in S : tries[t] > 0} : given \cap S \subseteq H}

\* Nothing to fetch: the result stands. Otherwise the content is no longer settled. A
\* folder that cannot be made, or an entry that plan refuses, makes the result bad too.
Queue(s) ==
  /\ jobs[s].pc = "plan" /\ jobs[s].todo = {}
  /\ LET j == jobs[s] IN
     \/ /\ j.dead
        /\ Goes(s, Over)
        /\ UNCHANGED <<settled, observed>>
     \/ \E held \in MayBeHeld(j.miss), refused \in Refused(j) :
          /\ ~j.dead /\ j.miss = held
          /\ Goes(s, [j EXCEPT !.pc = "finish", !.miss = {}, !.bad = refused \/ held # {}])
          /\ UNCHANGED <<settled, observed>>
     \/ \E held \in MayBeHeld(j.miss), refused \in Refused(j) :
          /\ ~j.dead /\ j.miss # held
          /\ Goes(s, [j EXCEPT !.pc = "fetch", !.miss = {}, !.todo = j.miss \ held,
                              !.bad = refused \/ held # {}])
          /\ settled' = FALSE /\ observed' = "downloading"
  /\ UNCHANGED <<backend, machine, key, cur, verified, tries, given, alive, loop, history,
                 counts>>

\* A mutant: a failure is not counted.
UncountedFail(t, final) ==
  /\ tries' = [tries EXCEPT ![t] = 1]
  /\ given' = IF final THEN given \cup {t} ELSE given

\* fail: one attempt more, a pause, or the end of trying
Fail(t, final) ==
  /\ tries' = [tries EXCEPT ![t] = @ + 1]
  /\ given' = IF final \/ tries[t] + 1 >= FetchAttempts THEN given \cup {t} ELSE given

\* After target t: the next one, or the end of the pass.
Without(j, t) ==
  [j EXCEPT !.todo = @ \ {t}, !.pc = IF j.todo = {t} THEN "finish" ELSE "fetch"]

\* pass after a fetch of t that failed: a cancelled pass ends, with nothing noted.
FetchFailed(s, t, final) ==
  LET j == jobs[s] IN
  \/ j.dead /\ Goes(s, Over) /\ UNCHANGED <<tries, given>>
  \/ ~j.dead /\ Fail(t, final) /\ Goes(s, [Without(j, t) EXCEPT !.bad = TRUE])

\* fetch of t is begun: a file is filled beside its target, a clone makes its folder
\* at once. Into a folder that is there git does not clone, and clone removes it.
Begin(s) ==
  /\ jobs[s].pc = "fetch"
  /\ LET t == FirstOf(jobs[s].todo) IN
     /\ begun' = [begun EXCEPT ![t] = @ + 1]
     /\ \/ /\ t \notin Repos
           /\ Goes(s, [jobs[s] EXCEPT !.pc = "fill"])
           /\ UNCHANGED <<disk, tries, given>>
        \/ /\ t \in Repos /\ disk[t] = "none"
           /\ disk' = [disk EXCEPT ![t] = "half"]
           /\ Goes(s, [jobs[s] EXCEPT !.pc = "clone"])
           /\ UNCHANGED <<tries, given>>
        \/ /\ t \in Repos /\ disk[t] # "none"
           /\ disk' = [disk EXCEPT ![t] = "none"]
           /\ FetchFailed(s, t, FALSE)
  /\ UNCHANGED <<backend, up, toMove, key, cur, settled, observed, verified, alive, loop,
                 met, unplaced, torn, raced, counts>>

\* fill fails, for now (http, the network) or for good (size, sum, html, space), ...
FillFails(s) ==
  /\ jobs[s].pc = "fill"
  /\ \E final \in BOOLEAN : FetchFailed(s, FirstOf(jobs[s].todo), final)
  /\ UNCHANGED <<backend, machine, key, cur, settled, observed, verified, alive, loop,
                 history, counts>>

\* ... or the file beside the target is whole, of the right size and sum. renameIn
\* gives it its place, over what is there.
Rename(s) ==
  /\ jobs[s].pc = "fill"
  /\ LET t == FirstOf(jobs[s].todo)
         v == jobs[s].spec[t]
     IN /\ Overwrite(t, v)
        /\ Meet(t, v)
        /\ Goes(s, [jobs[s] EXCEPT !.pc = IF t \in Models THEN "remember" ELSE "next"])
  /\ UNCHANGED <<backend, up, toMove, key, cur, settled, observed, tries, given, alive,
                 loop, begun, unplaced, torn, counts>>

\* The stamp of the file is read after the rename and kept with the sum of what was
\* filled in, though users may have changed the file in between.
Remember(s) ==
  /\ jobs[s].pc = "remember"
  /\ LET t == FirstOf(jobs[s].todo)
         v == jobs[s].spec[t]
     IN /\ verified' = IF disk[t] = "none" THEN verified ELSE [verified EXCEPT ![t] = v]
        /\ raced' = IF disk[t] \in {"none", v} THEN raced ELSE raced \cup {t}
  /\ Goes(s, [jobs[s] EXCEPT !.pc = "next"])
  /\ UNCHANGED <<backend, machine, key, cur, settled, observed, tries, given, alive, loop,
                 met, begun, unplaced, torn, counts>>

Cloned(s) ==
  /\ jobs[s].pc = "clone"
  /\ LET t == FirstOf(jobs[s].todo)
         v == jobs[s].spec[t]
     IN disk' = [disk EXCEPT ![t] = v] /\ Meet(t, v)
  /\ Goes(s, [jobs[s] EXCEPT !.pc = "next"])
  /\ UNCHANGED <<backend, up, toMove, manager, alive, loop, begun, unplaced, torn, raced,
                 counts>>

\* A mutant: what a failed clone left behind stays.
CloneStays(s) ==
  /\ jobs[s].pc = "clone"
  /\ FetchFailed(s, FirstOf(jobs[s].todo), FALSE)
  /\ UNCHANGED <<backend, machine, key, cur, settled, observed, verified, alive, loop,
                 history, counts>>

\* git fails, or is killed as the job is cancelled: what is there is removed.
CloneFails(s) ==
  /\ jobs[s].pc = "clone"
  /\ disk' = [disk EXCEPT ![FirstOf(jobs[s].todo)] = "none"]
  /\ FetchFailed(s, FirstOf(jobs[s].todo), FALSE)
  /\ UNCHANGED <<backend, up, toMove, key, cur, settled, observed, verified, alive, loop,
                 history, counts>>

\* pass after a fetch that succeeded
Fetched(s) ==
  /\ jobs[s].pc = "next"
  /\ LET t == FirstOf(jobs[s].todo) IN
     \/ /\ jobs[s].dead
        /\ Goes(s, Over)
        /\ UNCHANGED <<tries, given, begun>>
     \/ /\ ~jobs[s].dead
        /\ tries' = [tries EXCEPT ![t] = 0] /\ given' = given \ {t}
        /\ begun' = [begun EXCEPT ![t] = 0]
        /\ Goes(s, Without(jobs[s], t))
  /\ UNCHANGED <<backend, machine, key, cur, settled, observed, verified, alive, loop,
                 met, unplaced, torn, raced, counts>>

\* run: the result of a job that was cancelled is dropped ...
Finish(s) ==
  /\ jobs[s].pc = "finish"
  /\ Goes(s, IF jobs[s].dead THEN Over ELSE [jobs[s] EXCEPT !.pc = "settle"])
  /\ UNCHANGED <<backend, machine, manager, alive, loop, history, counts>>

\* A mutant: only a pass that went well settles the content.
SettleReady(s) ==
  /\ jobs[s].pc = "settle"
  /\ settled' = ~jobs[s].bad
  /\ observed' = IF jobs[s].bad THEN "error" ELSE "ready"
  /\ Goes(s, Over)
  /\ UNCHANGED <<backend, machine, key, cur, verified, tries, given, alive, loop, history,
                 counts>>

\* ... but not that of one cancelled after run has looked.
Settle(s) ==
  /\ jobs[s].pc = "settle"
  /\ settled' = TRUE
  /\ observed' = IF jobs[s].bad THEN "error" ELSE "ready"
  /\ Goes(s, Over)
  /\ UNCHANGED <<backend, machine, key, cur, verified, tries, given, alive, loop, history,
                 counts>>

JobStep(s) ==
  \/ NoWorkspace(s) \/ Look(s) \/ Queue(s) \/ Begin(s) \/ FillFails(s) \/ Rename(s)
  \/ Remember(s) \/ Cloned(s) \/ CloneFails(s) \/ Fetched(s) \/ Finish(s) \/ Settle(s)

-----------------------------------------------------------------------------
(* The main loop.                                                           *)

\* The jobs with those of S cancelled.
Cancelled(S) ==
  [s \in Slots |-> IF s \in S /\ ~IsOver(s) THEN [jobs[s] EXCEPT !.dead = TRUE] ELSE jobs[s]]

\* intake: a deletion ends the context of all work (stopAlive), in the middle of a
\* pass or before the next.
HearDeletion ==
  /\ del /\ alive
  /\ alive' = FALSE /\ jobs' = Cancelled(Slots)
  /\ UNCHANGED <<backend, machine, manager, loop, history, counts>>

\* Stop, up to its wait for the job, which may still settle meanwhile.
BeginStop ==
  /\ key' = NoSpec /\ settled' = FALSE
  /\ jobs' = Cancelled({cur})
  /\ UNCHANGED <<observed, verified, tries, given>>

\* A pass over a spec without content.
DropContent ==
  /\ mpc = "idle" /\ ~del /\ want = NoSpec
  /\ mspec' = NoSpec /\ mpc' = "drop"
  /\ BeginStop
  /\ UNCHANGED <<backend, machine, cur, alive, history, counts>>

\* terminate: the content is stopped before anything else ends.
Terminate ==
  /\ mpc = "idle" /\ del /\ ~alive
  /\ mspec' = NoSpec /\ mpc' = "terminate"
  /\ BeginStop
  /\ UNCHANGED <<backend, machine, cur, alive, history, counts>>

\* A mutant: Stop does not wait for the job.
StoppedAtOnce ==
  /\ mpc \in {"drop", "terminate"}
  /\ cur' = 0
  /\ mpc' = IF mpc = "drop" THEN "gate" ELSE "save"
  /\ up' = (up /\ mpc = "drop")
  /\ UNCHANGED <<backend, disk, toMove, key, settled, observed, verified, tries, given,
                 jobs, alive, mspec, history, counts>>

\* A mutant: the save is left to a later pass while the content is not settled.
StoppedOnResult ==
  /\ mpc \in {"drop", "terminate"} /\ IsOver(cur)
  /\ cur' = 0
  /\ mpc' = IF mpc = "drop" THEN "gate" ELSE IF settled THEN "save" ELSE "idle"
  /\ up' = (up /\ mpc = "drop")
  /\ UNCHANGED <<backend, disk, toMove, key, settled, observed, verified, tries, given,
                 jobs, alive, mspec, history, counts>>

\* Stop returns when the job is over. On a deletion the containers are stopped next
\* and the workspace is packed.
Stopped ==
  /\ mpc \in {"drop", "terminate"} /\ IsOver(cur)
  /\ cur' = 0
  /\ mpc' = IF mpc = "drop" THEN "gate" ELSE "save"
  /\ up' = (up /\ mpc = "drop")
  /\ UNCHANGED <<backend, disk, toMove, key, settled, observed, verified, tries, given,
                 jobs, alive, mspec, history, counts>>

\* Reconcile: another spec cancels the job ...
Replace ==
  /\ mpc = "idle" /\ ~del /\ want # NoSpec /\ want # key
  /\ mspec' = want /\ mpc' = "install"
  /\ jobs' = Cancelled({cur})
  /\ UNCHANGED <<backend, machine, manager, alive, history, counts>>

\* A job for spec is started, in the first slot that is free.
Launch(spec) ==
  \E s \in Slots :
    /\ IsOver(s) /\ \A o \in Slots : o < s => ~IsOver(o)
    /\ cur' = s
    /\ Goes(s, [Over EXCEPT !.pc = "plan", !.spec = spec, !.dead = ~alive,
                            !.todo = DOMAIN spec])

\* A new spec has no failures yet.
ForgetFailures ==
  /\ tries' = [t \in Targets |-> 0] /\ given' = {}
  /\ met' = {} /\ begun' = [t \in Targets |-> 0] /\ unplaced' = {}

\* A mutant: the old job is not waited for.
InstallAtOnce ==
  /\ mpc = "install" /\ mpc' = "gate"
  /\ key' = mspec /\ settled' = FALSE /\ observed' = "downloading"
  /\ ForgetFailures
  /\ Launch(mspec)
  /\ UNCHANGED <<backend, machine, verified, alive, mspec, torn, raced, counts>>

\* ... and when that is over takes its place: failures and results start anew.
Install ==
  /\ mpc = "install" /\ IsOver(cur) /\ mpc' = "gate"
  /\ key' = mspec /\ settled' = FALSE /\ observed' = "downloading"
  /\ ForgetFailures
  /\ Launch(mspec)
  /\ UNCHANGED <<backend, machine, verified, alive, mspec, torn, raced, counts>>

\* The same spec again: a job at work is left to it, otherwise a new pass begins.
Repeat ==
  /\ mpc = "idle" /\ ~del /\ want # NoSpec /\ want = key
  /\ mspec' = want /\ mpc' = "gate"
  /\ \/ ~IsOver(cur) /\ UNCHANGED <<cur, jobs>>
     \/ IsOver(cur) /\ Launch(want)
  /\ UNCHANGED <<backend, machine, key, settled, observed, verified, tries, given, alive,
                 history, counts>>

\* A mutant: content that is not settled does not keep the container from starting.
GateIgnoresContent == toMove = {}

\* The start gate: the workspace is restored and the content settled, well or not.
GateOpen == toMove = {} /\ (mspec # NoSpec => settled)

\* container.Reconcile asks the gate when the image is there.
AskGate ==
  /\ mpc = "gate"
  /\ mpc' = IF ~up /\ GateOpen THEN "run" ELSE "idle"
  /\ UNCHANGED <<backend, machine, manager, jobs, alive, mspec, history, counts>>

\* docker run, unless the context has ended
RunContainer ==
  /\ mpc = "run" /\ mpc' = "idle"
  /\ up' = alive
  /\ UNCHANGED <<backend, disk, toMove, manager, jobs, alive, mspec, history, counts>>

\* The rest of HandleTermination: the workspace is packed and saved.
SaveEnds ==
  /\ mpc = "save" /\ mpc' = "idle"
  /\ UNCHANGED <<backend, machine, manager, jobs, alive, mspec, history, counts>>

\* The process is killed, with git, and started again: a clone is left as it is, and
\* a restore that was not over begins again.
Restart ==
  /\ crashes < MaxCrashes /\ crashes' = crashes + 1
  /\ torn' = torn \cup {t \in Targets : disk[t] = "half"}
  /\ toMove' = IF toMove = {} THEN {} ELSE Saved
  /\ key' = NoSpec /\ cur' = 0 /\ settled' = FALSE /\ observed' = "none"
  /\ verified' = [t \in Models |-> "none"]
  /\ tries' = [t \in Targets |-> 0] /\ given' = {}
  /\ jobs' = [s \in Slots |-> Over] /\ alive' = TRUE
  /\ mpc' = "idle" /\ mspec' = NoSpec
  /\ met' = {} /\ begun' = [t \in Targets |-> 0] /\ unplaced' = {} /\ raced' = {}
  /\ UNCHANGED <<backend, disk, up, changes, edits>>

MainLoop ==
  \/ DropContent \/ Terminate \/ Stopped \/ Replace \/ Install \/ Repeat
  \/ AskGate \/ RunContainer \/ SaveEnds

Next ==
  \/ ChangeSpec \/ RequestDeletion \/ RestoreMove \/ Edit
  \/ \E s \in Slots : JobStep(s)
  \/ HearDeletion \/ MainLoop \/ Restart

Spec == Init /\ [][Next]_vars

\* git clone has no timeout: nothing but its end, or that of the context, gets the job on.
Cloning(s) == jobs[s].pc = "clone" /\ ~jobs[s].dead

\* The ticker wakes the loop; goroutines run, and every read of theirs ends (idleTimeout), a
\* clone for certain only when it is killed; time passes; the stream brings the deletion;
\* the restore comes to its end.
FairSpec ==
  /\ Spec
  /\ WF_vars(MainLoop) /\ \A s \in Slots : WF_vars(~Cloning(s) /\ JobStep(s))
  /\ WF_vars(HearDeletion) /\ WF_vars(RestoreMove)

-----------------------------------------------------------------------------
(* What must be true of it.                                                 *)

JobPcs == {"plan", "fetch", "fill", "remember", "clone", "next", "finish",
           "settle", "over"}
LoopPcs == {"idle", "drop", "terminate", "install", "gate", "run", "save"}
Wants == Specs \cup {NoSpec}

\* Every variable keeps its type; no failure counts more than fetchAttempts attempts.
TypeOK ==
  /\ want \in Wants /\ del \in BOOLEAN
  /\ disk \in [Targets -> Data] /\ up \in BOOLEAN /\ toMove \subseteq Saved
  /\ key \in Wants /\ cur \in {0} \cup Slots /\ settled \in BOOLEAN
  /\ observed \in {"none", "downloading", "ready", "error"}
  /\ verified \in [Models -> Versions \cup {"none"}]
  /\ tries \in [Targets -> 0..FetchAttempts]
  /\ given \subseteq Targets
  /\ jobs \in [Slots -> [pc : JobPcs, spec : Wants, dead : BOOLEAN, todo : SUBSET Targets,
                         miss : SUBSET Targets, bad : BOOLEAN]]
  /\ alive \in BOOLEAN /\ mpc \in LoopPcs /\ mspec \in Wants
  /\ met \subseteq Targets /\ begun \in [Targets -> Nat] /\ unplaced \subseteq Targets
  /\ torn \subseteq Targets /\ raced \subseteq Targets
  /\ changes \in 0..MaxChanges /\ edits \in 0..MaxEdits /\ crashes \in 0..MaxCrashes

\* A target was met, or has failed, or a pass over the spec had nowhere to put it.
DealtWith(t) == t \in met \cup unplaced \/ tries[t] > 0

\* Content is settled only by a pass over the spec it is settled for: each of its targets
\* was dealt with since that spec came, and with "ready" all were met. Results of a
\* replaced or stopped job never count (Reconcile and Stop wait for it).
SettledIsComplete ==
  settled /\ key # NoSpec =>
    /\ \A t \in DOMAIN key : DealtWith(t)
    /\ observed = "ready" => DOMAIN key \subseteq met

\* Nothing at the place of a target is half there, unless it is being cloned or its
\* clone was cut short by a crash: files are filled beside their place, and a clone
\* that failed or was cancelled is taken away.
NothingHalf ==
  \A t \in Targets : disk[t] = "half" =>
    \/ t \in torn
    \/ \E s \in Slots : jobs[s].pc = "clone" /\ FirstOf(jobs[s].todo) = t

\* The container starts only when every target of the spec of that pass has been met
\* or has failed ("container must start once content settled"), but for a pass that had no
\* workspace, and with nothing half there: the gate is asked long before docker run, with
\* the job at work beside it.
StartsComplete ==
  [][~up /\ up' => /\ mspec # NoSpec => \A t \in DOMAIN mspec : DealtWith(t)
                  /\ NothingHalf]_up

\* A stamp that spares the hashing of a model vouches for what is in the file, unless
\* users changed it between rename and stat.
StampsHold == \A t \in Models : verified[t] # "none" => disk[t] = verified[t] \/ t \in raced

\* A target is fetched no more than fetchAttempts times in a row for one spec,
\* whatever passes, backoffs and repeated specs come ("want 3 attempts").
RetriesEnd == \A t \in Targets : begun[t] <= FetchAttempts

\* From the end of terminate's Stop the workspace is left alone: no job of any spec is
\* at work while it is packed and saved.
SavesQuiet == mpc = "save" => \A s \in Slots : IsOver(s)

\* The clone of a repository leaves alone what the restore has put in its place: the
\* workspace that a container first starts in holds the archive's files.
RestoredIsInPlace == [][~up /\ up' /\ edits = 0 => \A t \in Saved : disk[t] = "own"]_up

\* The content the backend asks for settles again and again, with whatever failed, unless
\* there is a clone that hangs for ever: neither downloads that fail nor specs that change under
\* a running job keep it unsettled, and the container's gate waits for no more ("container
\* must start even if a model failed").
Settles ==
  \/ []<>(want = NoSpec \/ del \/ (key = want /\ settled))
  \/ <>[](\E s \in Slots : Cloning(s))

\* A deletion gets past the content: Stop never waits for ever.
StopEnds == del ~> mpc = "save"
=============================================================================
