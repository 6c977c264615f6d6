------------------------------- MODULE Arrival -------------------------------
(***************************************************************************)
(* What a download looks like to the job that waits for it, and to whoever *)
(* uses the workspace: the file is not there, and then it is, whole and as *)
(* asked for; or it is given up, after so many attempts or for good; or    *)
(* the job is cancelled, which is no failure. The parts, holes, requests   *)
(* and leftovers of module Download are not to be seen.                    *)
(***************************************************************************)
EXTENDS Naturals, Sequences

CONSTANTS Versions, SizeOf, Tasks, NoSum, FetchAttempts

VARIABLES
  task,     \* what is asked for
  moved,    \* the source has changed since this attempt began
  tries,    \* attempts that failed
  outcome,  \* "open" until the download ends as "placed", "given" or "off"
  place     \* the blocks at the target

avars == <<task, moved, tries, outcome, place>>

Init == task \in Tasks /\ moved = FALSE /\ tries = 0 /\ outcome = "open" /\ place = <<>>

\* What may be put in place: complete by what is known of it, and of one version unless
\* there is no sum to tell and the source changed in the middle.
Answers(f) ==
  /\ f \in Seq(Versions)
  /\ task.size > 0 => Len(f) = task.size
  /\ task.model => f # <<>>
  /\ IF task.sum # NoSum THEN f = [b \in 1..SizeOf[task.sum] |-> task.sum]
     ELSE moved \/ \E v \in Versions : Len(f) <= SizeOf[v] /\ \A b \in DOMAIN f : f[b] = v

SourceMoves == moved' = TRUE /\ UNCHANGED <<task, tries, outcome, place>>

Begin == outcome = "open" /\ moved' = FALSE /\ UNCHANGED <<task, tries, outcome, place>>

Arrive ==
  /\ outcome = "open" /\ outcome' = "placed"
  /\ Answers(place') /\ UNCHANGED <<task, moved, tries>>

\* An attempt fails. The last one there may be is the end, and any may be.
Fail ==
  /\ outcome = "open" /\ tries' = tries + 1
  /\ outcome' \in IF tries' >= FetchAttempts THEN {"given"} ELSE {"open", "given"}
  /\ UNCHANGED <<task, moved, place>>

Leave == outcome = "open" /\ outcome' = "off" /\ UNCHANGED <<task, moved, tries, place>>

\* A new process knows of no failures.
Forget ==
  /\ outcome \in {"open", "given"} /\ outcome' = "open" /\ tries' = 0
  /\ UNCHANGED <<task, moved, place>>

Next == SourceMoves \/ Begin \/ Arrive \/ Fail \/ Leave \/ Forget

Spec == Init /\ [][Next]_avars
=============================================================================
