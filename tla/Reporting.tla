----------------------------- MODULE Reporting -----------------------------
(***************************************************************************)
(* What the backend comes to know: the statuses internal/agent posts. Each *)
(* carries the generation of the spec last applied and, often, the state   *)
(* of the workspace. The main loop posts one at the end of a pass; the     *)
(* restore goroutine and the managers post phase reports at any time. Each *)
(* builds its status first and posts it when it has the lock (postMu), so  *)
(* that a status may be older than one posted before it.                   *)
(*                                                                         *)
(* One process is modelled and one archive; the spec has state.save. Posts *)
(* get lost, their answers do, and they may arrive late.                   *)
(*                                                                         *)
(* A definition introduced as "a mutant" is no part of the specification:  *)
(* it is a plausible mistake in the definition after it, which one of the  *)
(* properties must notice when it takes its place.                         *)
(***************************************************************************)
EXTENDS Naturals

CONSTANTS
  MaxGen,     \* bound on the specs the backend makes
  MaxFaults   \* bound on posts that fail and on steps of a pass that do

ASSUME BoundsAssumption == MaxGen \in Nat \ {0} /\ MaxFaults \in Nat

\* The states of the workspace in the order they come about: nothing known, its
\* archive is being made, it is restored, it was or could not be, it is saved, the
\* save has an outcome.
Rank == [nil |-> 0, waiting |-> 1, restoring |-> 2, settled |-> 3, saving |-> 4, over |-> 5]
States == DOMAIN Rank
Gens   == 0..MaxGen
Status == [gen : Gens, state : States]
None   == [gen |-> 0, state |-> "nil"]

\* Where the main loop is in a pass over a spec that keeps the instance.
AlivePcs == {"setup", "setupPost", "seq", "restore", "gate", "check", "post", "store"}

VARIABLES
  \* the backend: its newest spec (archive being made, archive there, deletion), what
  \* it holds of the agent, posts on their way that their sender has given up
  want, held, late,
  \* the latest spec received, and whether alive work is cancelled
  inbox, cancelled,
  \* the main loop: where it is, the spec of this pass, the status it builds, whether
  \* every manager did its part
  mpc, cur, draft, complete,
  \* postStatus: a report with a state was posted since the main loop last looked
  \* (stateReports against stateSeen), and the state posted last
  changed, lastState,
  \* the generation last applied
  applied,
  \* the restore goroutine: where it is, the status it builds, how the restore ended
  jpc, jdraft, result,
  \* the final save has an outcome
  saved,
  \* another manager's goroutine: the generation in the status it builds, if any
  phase,
  faults,
  \* history: the generations a pass was completed for
  earned

vars == <<want, held, late, inbox, cancelled, mpc, cur, draft, complete, changed, lastState,
          applied, jpc, jdraft, result, saved, phase, faults, earned>>

Specs == [gen : Gens, kind : {"none", "pending", "archive", "delete"}]
NoSpec == [gen |-> 0, kind |-> "none"]

TypeOK ==
  /\ want \in Specs /\ held \in Status /\ late \subseteq Status
  /\ inbox \in Specs /\ cancelled \in BOOLEAN
  /\ mpc \in AlivePcs \cup {"idle", "terminate", "save", "savePost", "saving", "endPost", "lastPost"}
  /\ mpc \in AlivePcs => cur.kind \in {"pending", "archive"}
  /\ cur \in Specs /\ draft \in Status /\ complete \in BOOLEAN
  /\ changed \in BOOLEAN /\ lastState \in States /\ applied \in Gens
  /\ jpc \in {"none", "tick", "tickPost", "work", "end", "resultPost", "closing", "done"}
  /\ jdraft \in Status /\ result \in {"nil", "failed", "restored"} /\ saved \in BOOLEAN
  /\ phase \in SUBSET Gens /\ faults \in 0..MaxFaults /\ earned \subseteq Gens

Init ==
  /\ want \in [gen : {1}, kind : {"pending", "archive"}] /\ held = None /\ late = {}
  /\ inbox = NoSpec /\ cancelled = FALSE
  /\ mpc = "idle" /\ cur = NoSpec /\ draft = None /\ complete = TRUE
  /\ changed = FALSE /\ lastState = "nil" /\ applied = 0
  /\ jpc = "none" /\ jdraft = None /\ result = "nil" /\ saved = FALSE
  /\ phase = {} /\ faults = 0 /\ earned = {}

Fault == faults < MaxFaults /\ faults' = faults + 1
Well  == UNCHANGED faults

posting == <<held, late, changed, lastState>>

\* What the backend holds after a post: one without a state leaves the state.
Told(status) ==
  [status EXCEPT !.state = IF status.state = "nil" THEN held.state ELSE status.state]

\* postStatus, from the lock to the answer. A post that failed may not have arrived,
\* may have, or will.
Delivered(status) ==
  /\ held' = Told(status) /\ Well /\ UNCHANGED late
  /\ IF status.state = "nil" THEN UNCHANGED <<changed, lastState>>
     ELSE changed' = TRUE /\ lastState' = status.state

Unheard(status) ==
  /\ Fault /\ UNCHANGED <<changed, lastState>>
  /\ \/ UNCHANGED <<held, late>>
     \/ held' = Told(status) /\ UNCHANGED late
     \/ late' = late \cup {status} /\ UNCHANGED held

\* A post of alive work, which is not sent once that is cancelled.
AlivePost(status) ==
  \/ ~cancelled /\ Delivered(status)
  \/ Unheard(status)
  \/ cancelled /\ UNCHANGED <<posting, faults>>

-----------------------------------------------------------------------------
(* The backend, and what receives its specs.                                *)

\* A new spec: the archive is there, something else changed, or deletion.
NewSpec ==
  /\ want.gen < MaxGen /\ want.kind # "delete"
  /\ \E k \in {want.kind, "archive", "delete"} : want' = [gen |-> want.gen + 1, kind |-> k]
  /\ UNCHANGED <<held, late, inbox, cancelled>>

\* A spec older than the one in the inbox is dropped; a deletion cancels alive work.
Intake ==
  /\ want.gen > inbox.gen
  /\ inbox' = want /\ cancelled' = (cancelled \/ want.kind = "delete")
  /\ UNCHANGED <<want, held, late>>

Arrives ==
  /\ \E s \in late : held' = Told(s) /\ late' = late \ {s}
  /\ UNCHANGED <<want, inbox, cancelled>>

Surroundings ==
  /\ NewSpec \/ Intake \/ Arrives
  /\ UNCHANGED <<mpc, cur, draft, complete, changed, lastState, applied, jpc, jdraft, result,
                 saved, phase, faults, earned>>

-----------------------------------------------------------------------------
(* Another manager (images, models, setup): a phase report with no state of *)
(* the workspace.                                                           *)

\* A mutant: the report carries the generation of the pass at work.
BuildPhaseAhead == phase = {} /\ phase' = {cur.gen} /\ UNCHANGED <<posting, faults>>

BuildPhase == phase = {} /\ phase' = {applied} /\ UNCHANGED <<posting, faults>>

PostPhase ==
  /\ \E g \in phase : AlivePost([gen |-> g, state |-> "nil"])
  /\ phase' = {}

Phases ==
  /\ cur # NoSpec /\ (BuildPhase \/ PostPhase)
  /\ UNCHANGED <<want, inbox, cancelled, mpc, cur, draft, complete, applied, jpc, jdraft,
                 result, saved, earned>>

-----------------------------------------------------------------------------
(* The restore goroutine.                                                   *)

JobBuilds(state) == jdraft' = [gen |-> applied, state |-> state]

\* keepReporting: "restoring" again and again, until the restore is over.
JobTick ==
  /\ jpc = "tick" /\ jpc' = "tickPost" /\ JobBuilds("restoring")
  /\ UNCHANGED <<posting, faults, result>>

JobPosts(to) ==
  /\ AlivePost(jdraft)
  /\ jpc' = to /\ UNCHANGED <<jdraft, result>>

JobTickPost == jpc = "tickPost" /\ JobPosts("work")

JobWork ==
  /\ jpc = "work" /\ jpc' \in {"tick", "end"}
  /\ UNCHANGED <<posting, faults, jdraft, result>>

\* A cancelled restore has no result. Else the marker is written, if it did not fail,
\* and the result is reported.
JobEnd ==
  /\ jpc = "end"
  /\ IF cancelled THEN jpc' = "done" /\ UNCHANGED <<jdraft, result>>
     ELSE jpc' = "resultPost" /\ result' \in {"failed", "restored"} /\ JobBuilds("settled")
  /\ UNCHANGED <<posting, faults>>

JobResult == jpc = "resultPost" /\ JobPosts("closing")

\* The main loop is woken, and only then the goroutine is over.
JobClose ==
  /\ jpc = "closing" /\ jpc' = "done"
  /\ UNCHANGED <<posting, faults, jdraft, result>>

RestoreJob ==
  /\ JobTick \/ JobTickPost \/ JobWork \/ JobEnd \/ JobResult \/ JobClose
  /\ UNCHANGED <<want, inbox, cancelled, mpc, cur, draft, complete, applied, saved, phase,
                 earned>>

-----------------------------------------------------------------------------
(* A pass of the main loop over a spec that keeps the instance.             *)

\* The latest spec decides what the pass is.
BeginPass ==
  /\ mpc = "idle" /\ inbox # NoSpec
  /\ cur' = inbox /\ mpc' = IF inbox.kind = "delete" THEN "terminate" ELSE "setup"
  /\ UNCHANGED <<posting, cancelled, draft, complete, applied, jpc, saved, faults, earned>>

\* The keys are written and the host is ready; or they are not, or it is not, and the
\* pass ends with a status that confirms nothing.
Setup ==
  /\ mpc = "setup"
  /\ \/ complete' = TRUE /\ mpc' = "seq" /\ Well /\ UNCHANGED draft
     \/ complete' = FALSE /\ mpc' = "seq" /\ Fault /\ UNCHANGED draft
     \/ /\ Fault /\ UNCHANGED complete
        /\ IF cancelled THEN mpc' = "idle" /\ UNCHANGED draft
           ELSE mpc' = "setupPost" /\ draft' = [gen |-> applied, state |-> "nil"]
  /\ UNCHANGED <<posting, cancelled, applied, jpc, saved, earned>>

StateSeq ==
  /\ mpc = "seq" /\ mpc' = "restore" /\ changed' = FALSE
  /\ UNCHANGED <<held, late, lastState, cancelled, draft, complete, applied, jpc, saved, faults,
                 earned>>

\* A mutant: a restore that failed is begun again by the next pass.
ObservedAgain ==
  IF result = "restored" THEN "settled"
  ELSE IF cur.kind = "pending" THEN "waiting" ELSE "restoring"

\* What Restore returns, for the status and again from the start gate: it looks for
\* the marker, and starts the goroutine unless one is at work or has a result.
Observed ==
  IF result = "restored" THEN "settled"
  ELSE IF cur.kind = "pending" THEN "waiting"
  ELSE IF jpc = "done" /\ result = "failed" THEN "settled"
  ELSE "restoring"

Restore ==
  /\ mpc \in {"restore", "gate"}
  /\ mpc' \in IF mpc = "restore" THEN {"gate", "check"} ELSE {"check"}
  /\ draft' = [gen |-> cur.gen, state |-> Observed]
  /\ jpc' = IF Observed = "restoring" /\ jpc \in {"none", "done"} THEN "tick" ELSE jpc
  /\ UNCHANGED <<posting, cancelled, complete, applied, saved, faults, earned>>

\* A pass that was overtaken by a deletion posts nothing.
Check ==
  /\ mpc = "check"
  /\ IF cancelled THEN mpc' = "idle" /\ UNCHANGED <<draft, earned>>
     ELSE /\ mpc' = "post"
          /\ draft' = [draft EXCEPT !.gen = IF complete THEN @ ELSE applied]
          /\ earned' = IF complete THEN earned \cup {cur.gen} ELSE earned
  /\ UNCHANGED <<posting, cancelled, complete, applied, jpc, saved, faults>>

\* A mutant: the state is posted as it was seen.
FreshestAsSeen == draft

\* A state reported since the main loop looked is newer than what it saw.
Freshest == IF changed /\ lastState # "nil" THEN [draft EXCEPT !.state = lastState] ELSE draft

PostPass ==
  /\ mpc = "post"
  /\ \/ Delivered(Freshest) /\ mpc' = IF complete THEN "store" ELSE "idle"
     \/ Unheard(Freshest) /\ mpc' = "idle"
  /\ UNCHANGED <<cancelled, draft, complete, applied, jpc, saved, earned>>

\* A mutant: what was confirmed is not kept.
StoreNot ==
  /\ mpc = "store" /\ mpc' = "idle"
  /\ UNCHANGED <<posting, cancelled, draft, complete, applied, jpc, saved, faults, earned>>

Store ==
  /\ mpc = "store" /\ mpc' = "idle" /\ applied' = cur.gen
  /\ UNCHANGED <<posting, cancelled, draft, complete, jpc, saved, faults, earned>>

-----------------------------------------------------------------------------
(* A pass over a spec that deletes it.                                      *)

\* Save awaits the restore goroutine; an outcome it has is posted again.
Terminate ==
  /\ mpc = "terminate" /\ jpc \in {"none", "done"}
  /\ cancelled' = TRUE
  /\ IF saved THEN mpc' = "lastPost" /\ draft' = [gen |-> cur.gen, state |-> "over"]
     ELSE mpc' = "save" /\ UNCHANGED draft
  /\ UNCHANGED <<posting, complete, applied, jpc, saved, faults, earned>>

\* Save reports that it is at work, and then how it ended or that it will go on.
SaveReports ==
  /\ \/ /\ mpc = "save" /\ mpc' = "savePost"
        /\ draft' = [gen |-> applied, state |-> "saving"] /\ UNCHANGED saved
     \/ /\ mpc = "saving" /\ mpc' = "endPost" /\ saved' \in BOOLEAN
        /\ draft' = [gen |-> applied, state |-> IF saved' THEN "over" ELSE "saving"]
  /\ UNCHANGED <<posting, cancelled, complete, applied, jpc, faults, earned>>

\* The statuses that are posted as they were built. The one that ends the pass
\* confirms the deletion.
PostPlain ==
  /\ Delivered(draft) \/ Unheard(draft)
  /\ \/ mpc \in {"setupPost", "lastPost"} /\ mpc' = "idle" /\ UNCHANGED <<draft, earned>>
     \/ mpc = "savePost" /\ mpc' = "saving" /\ UNCHANGED <<draft, earned>>
     \/ /\ mpc = "endPost" /\ mpc' = "lastPost"
        /\ draft' = [draft EXCEPT !.gen = cur.gen] /\ earned' = earned \cup {cur.gen}
  /\ UNCHANGED <<cancelled, complete, applied, jpc, saved>>

MainLoop ==
  /\ \/ BeginPass
     \/ /\ \/ Setup \/ StateSeq \/ Restore \/ Check \/ PostPass \/ Store
           \/ Terminate \/ SaveReports \/ PostPlain
        /\ UNCHANGED cur
  /\ UNCHANGED <<want, inbox, jdraft, result, phase>>

Next == Surroundings \/ Phases \/ RestoreJob \/ MainLoop

Spec == Init /\ [][Next]_vars

\* The stream reconnects, the main loop has its ticker, posts on their way arrive, the
\* restore has a time limit (restoreTimeout), and repeated saves come to an end.
FairSpec ==
  /\ Spec
  /\ WF_vars(Surroundings /\ Intake) /\ WF_vars(Surroundings /\ Arrives)
  /\ WF_vars(MainLoop) /\ WF_vars(RestoreJob)
  /\ SF_vars(RestoreJob /\ jpc = "work" /\ jpc' = "end")
  /\ SF_vars(MainLoop /\ mpc = "saving" /\ saved')

-----------------------------------------------------------------------------
(* What must be true of it.                                                 *)

\* The main loop is in a pass over a spec that deletes the instance.
TerminatePcs == {"terminate", "save", "savePost", "saving", "endPost", "lastPost"}

\* A deletion is the backend's last word, and the save has an outcome only after it.
DeletionIsLast ==
  /\ want.kind # "none" /\ (inbox = NoSpec \/ inbox.kind # "none")
  /\ inbox.kind = "delete" => inbox = want
  /\ mpc \in TerminatePcs => cur = want /\ inbox = want /\ want.kind = "delete"
  /\ saved => /\ inbox = want /\ want.kind = "delete"
              /\ mpc = "endPost" \/ want.gen \in earned

\* A generation there was a complete pass for, or none.
Earned(gen) == gen \in earned \cup {0}

\* Every status that may yet be posted confirms what was earned, and so does what was
\* kept of those posted.
StatusesEarned ==
  /\ Earned(applied) /\ Earned(held.gen)
  /\ \A s \in late : Earned(s.gen)
  /\ \A g \in phase : Earned(g)
  /\ jpc \in {"tickPost", "resultPost"} => Earned(jdraft.gen)
  /\ mpc \in {"setupPost", "post", "savePost", "endPost", "lastPost"} => Earned(draft.gen)
  /\ mpc \in {"gate", "check"} => draft.gen = cur.gen
  /\ (mpc = "post" /\ complete) \/ mpc = "store" => Earned(cur.gen)

\* The inductive invariant: what ConfirmedIsEarned rests on.
IInv == TypeOK /\ DeletionIsLast /\ StatusesEarned

\* The backend never takes a spec for applied before a pass over it was complete,
\* whatever was reported during that pass, late or lost (generation is confirmed by
\* handleSpec's last post only; phase reports carry applied).
ConfirmedIsEarned == held.gen # 0 => held.gen \in earned

\* A status that was overtaken by a report while its pass went on does not take the
\* backend back to an older state, as long as posts are answered (postStatus replaces
\* the state when stateReports has moved).
OvertakenIsHarmless ==
  [][mpc = "post" /\ changed /\ faults' = 0 => Rank[held'.state] >= Rank[held.state]]_<<mpc, held>>

\* In the end the backend knows the newest spec to be applied and how the workspace
\* stands, whatever was lost, late or out of order on the way.
Truth ==
  [gen |-> want.gen,
   state |-> CASE want.kind = "delete"  -> "over"
               [] want.kind = "pending" -> "waiting"
               [] want.kind = "archive" -> "settled"]

Converges == <>[](held = Truth)

\* A status that says nothing else than Truth.
Agrees(status) == status.gen = want.gen /\ status.state \in {"nil", Truth.state}

\* The main loop, the goroutines and what is on its way have nothing else to say of a spec
\* that keeps the instance ...
KeepsToTruth ==
  /\ applied = want.gen /\ phase \subseteq {want.gen}
  /\ mpc \in {"idle"} \cup AlivePcs /\ (mpc # "idle" => cur = want)
  /\ mpc \in {"setupPost", "gate", "check", "post"} => Agrees(draft)
  /\ mpc \in {"restore", "gate", "check", "post"} /\ changed => lastState \in {"nil", Truth.state}
  /\ want.kind = "pending" => jpc = "none" /\ result = "nil"
  /\ want.kind = "archive" => /\ jpc \in {"resultPost", "closing", "done"}
                              /\ result = "restored" \/ (jpc = "done" /\ result = "failed")
  /\ jpc = "resultPost" => Agrees(jdraft)

\* ... or of one that deletes it.
EndsInTruth ==
  /\ cancelled /\ saved /\ mpc \in {"idle", "terminate", "lastPost"}
  /\ mpc # "idle" => cur = want
  /\ mpc = "lastPost" => Agrees(draft)

\* The backend knows how things stand, and is not about to be told anything else.
Knows ==
  /\ held = Truth /\ inbox = want /\ \A s \in late : Agrees(s)
  /\ IF want.kind = "delete" THEN EndsInTruth ELSE KeepsToTruth

\* That is for good: no pass, repeated restore, late post or deletion under way brings back
\* an older status. Only a new spec, or a post that goes unanswered, ends it.
TruthStays == [][Knows => Knows' \/ want' # want \/ faults' # faults]_vars

\* The backend is never taken back to what was: not to an older state by a status that a
\* report overtook, and, once it knows how things stand, not at all.
NeverBack == OvertakenIsHarmless /\ TruthStays
=============================================================================
