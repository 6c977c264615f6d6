--------------------------- MODULE ReportingProofs ---------------------------
(***************************************************************************)
(* Theorems about Reporting, for any number of specs and of faults.        *)
(***************************************************************************)
EXTENDS Reporting, TLAPS

\* What a post leaves behind: the backend holds the generation it held or the one
\* posted, and no other status is on its way than before, but for the one posted.
LEMMA Posted ==
  ASSUME TypeOK, NEW status \in Status,
         Delivered(status) \/ Unheard(status) \/ UNCHANGED <<posting, faults>>
  PROVE  /\ held' \in Status /\ held'.gen \in {held.gen, status.gen}
         /\ late' \subseteq Status /\ late' \subseteq late \cup {status}
         /\ changed' \in BOOLEAN /\ lastState' \in States /\ faults' \in 0..MaxFaults
<1>1. held \in Status /\ late \subseteq Status /\ faults \in 0..MaxFaults
  BY DEF TypeOK
<1>2. Told(status) \in Status /\ Told(status).gen = status.gen
  BY <1>1 DEF Told, Status
<1>3. faults' \in 0..MaxFaults
  BY <1>1, BoundsAssumption DEF Delivered, Unheard, Well, Fault
<1>4. held' \in {held, Told(status)} /\ late' \subseteq late \cup {status}
  BY DEF Delivered, Unheard, posting
<1>5. changed' \in BOOLEAN /\ lastState' \in States
  BY DEF TypeOK, Delivered, Unheard, posting, Status
<1> QED
  BY <1>1, <1>2, <1>3, <1>4, <1>5

\* The initial state satisfies the invariant.
LEMMA InitIInv == Init => IInv
<1> SUFFICES ASSUME Init PROVE IInv
  OBVIOUS
<1>1. None \in Status /\ NoSpec \in Specs
  BY BoundsAssumption DEF None, Status, NoSpec, Specs, Gens, States, Rank
<1>2. TypeOK
  <2>1. want \in Specs
    BY BoundsAssumption DEF Init, Specs, Gens
  <2>2. "nil" \in States /\ 0 \in Gens /\ faults \in 0..MaxFaults
    BY BoundsAssumption DEF Init, States, Rank, Gens
  <2>3. held \in Status /\ draft \in Status /\ jdraft \in Status
    BY <1>1 DEF Init
  <2>4. inbox \in Specs /\ cur \in Specs
    BY <1>1 DEF Init
  <2> QED
    BY <2>1, <2>2, <2>3, <2>4 DEF Init, TypeOK, AlivePcs
<1>3. DeletionIsLast
  BY DEF Init, DeletionIsLast, NoSpec, TerminatePcs
<1>4. StatusesEarned
  BY DEF Init, StatusesEarned, Earned, None
<1> QED
  BY <1>2, <1>3, <1>4 DEF IInv

\* A step of the backend, the intake or the network keeps it.
LEMMA SurroundingsInv == IInv /\ Surroundings => IInv'
<1> SUFFICES ASSUME IInv, Surroundings PROVE IInv'
  OBVIOUS
<1> USE DEF IInv, Surroundings
<1>1. CASE NewSpec
  <2>1. TypeOK'
    BY <1>1, BoundsAssumption DEF NewSpec, TypeOK, Specs, Gens
  <2>2. DeletionIsLast'
    BY <1>1 DEF NewSpec, DeletionIsLast, TypeOK, Specs
  <2>3. StatusesEarned'
    BY <1>1 DEF NewSpec, StatusesEarned, Earned
  <2> QED
    BY <2>1, <2>2, <2>3
<1>2. CASE Intake
  <2>1. TypeOK'
    BY <1>2 DEF Intake, TypeOK
  <2>2. DeletionIsLast'
    BY <1>2 DEF Intake, DeletionIsLast, TypeOK, Specs, Gens
  <2>3. StatusesEarned'
    BY <1>2 DEF Intake, StatusesEarned, Earned
  <2> QED
    BY <2>1, <2>2, <2>3
<1>3. CASE Arrives
  <2> PICK s \in late : held' = Told(s) /\ late' = late \ {s}
    BY <1>3 DEF Arrives
  <2>1. s \in Status /\ Told(s) \in Status /\ Told(s).gen = s.gen
    BY DEF TypeOK, Told, Status
  <2>2. TypeOK'
    BY <1>3, <2>1 DEF Arrives, TypeOK
  <2>3. DeletionIsLast'
    BY <1>3 DEF Arrives, DeletionIsLast
  <2>4. StatusesEarned'
    BY <1>3, <2>1 DEF Arrives, StatusesEarned, Earned
  <2> QED
    BY <2>2, <2>3, <2>4
<1> QED
  BY <1>1, <1>2, <1>3

\* A phase report keeps it: it carries the generation applied, which is earned.
LEMMA PhasesInv == IInv /\ Phases => IInv'
<1> SUFFICES ASSUME IInv, Phases PROVE IInv'
  OBVIOUS
<1> USE DEF IInv, Phases
<1>1. DeletionIsLast'
  BY DEF DeletionIsLast
<1>2. CASE BuildPhase
  <2>1. TypeOK'
    BY <1>2 DEF BuildPhase, TypeOK, posting
  <2>2. StatusesEarned'
    BY <1>2 DEF BuildPhase, StatusesEarned, Earned, posting
  <2> QED
    BY <1>1, <2>1, <2>2
<1>3. CASE PostPhase
  <2> PICK g \in phase : AlivePost([gen |-> g, state |-> "nil"])
    BY <1>3 DEF PostPhase
  <2> DEFINE status == [gen |-> g, state |-> "nil"]
  <2>1. status \in Status /\ Earned(status.gen)
    BY DEF TypeOK, Status, States, Rank, StatusesEarned
  <2> HIDE DEF status
  <2>2. Delivered(status) \/ Unheard(status) \/ UNCHANGED <<posting, faults>>
    BY DEF AlivePost, status
  <2>3. /\ held' \in Status /\ held'.gen \in {held.gen, status.gen}
        /\ late' \subseteq Status /\ late' \subseteq late \cup {status}
        /\ changed' \in BOOLEAN /\ lastState' \in States /\ faults' \in 0..MaxFaults
    BY <2>1, <2>2, Posted
  <2>4. phase' = {}
    BY <1>3 DEF PostPhase
  <2>5. TypeOK'
    BY <2>3, <2>4 DEF TypeOK
  <2>6. StatusesEarned'
    BY <2>1, <2>3, <2>4 DEF StatusesEarned, Earned
  <2> QED
    BY <1>1, <2>5, <2>6
<1> QED
  BY <1>2, <1>3

\* A step of the restore goroutine keeps it.
LEMMA RestoreJobInv == IInv /\ RestoreJob => IInv'
<1> SUFFICES ASSUME IInv, RestoreJob PROVE IInv'
  OBVIOUS
<1> USE DEF IInv, RestoreJob
<1>1. DeletionIsLast'
  BY DEF DeletionIsLast
<1>2. CASE JobTick \/ JobWork \/ JobEnd \/ JobClose
  <2> USE DEF JobTick, JobWork, JobEnd, JobClose
  <2>1. UNCHANGED <<posting, faults>>
    BY <1>2
  <2>2. \A state \in States : [gen |-> applied, state |-> state] \in Status
    BY DEF TypeOK, Status
  <2>3. {"restoring", "settled"} \subseteq States
    BY DEF States, Rank
  <2>4. jdraft' \in Status
    BY <1>2, <2>2, <2>3 DEF JobBuilds, TypeOK
  <2>5. result' \in {"nil", "failed", "restored"}
    BY <1>2 DEF TypeOK
  <2>6. jpc' \in {"tickPost", "resultPost", "tick", "work", "end", "closing", "done"}
    BY <1>2
  <2>7. TypeOK'
    BY <2>1, <2>4, <2>5, <2>6 DEF TypeOK, posting
  <2>8. jpc' \in {"tickPost", "resultPost"} => jdraft'.gen = applied
    BY <1>2 DEF JobBuilds
  <2>9. StatusesEarned'
    BY <2>1, <2>8 DEF StatusesEarned, Earned, posting
  <2> QED
    BY <1>1, <2>7, <2>9
<1>3. CASE JobTickPost \/ JobResult
  <2> USE DEF JobTickPost, JobResult, JobPosts
  <2>1. jdraft \in Status /\ Earned(jdraft.gen)
    BY <1>3 DEF TypeOK, StatusesEarned
  <2>2. Delivered(jdraft) \/ Unheard(jdraft) \/ UNCHANGED <<posting, faults>>
    BY <1>3 DEF AlivePost
  <2>3. /\ held' \in Status /\ held'.gen \in {held.gen, jdraft.gen}
        /\ late' \subseteq Status /\ late' \subseteq late \cup {jdraft}
        /\ changed' \in BOOLEAN /\ lastState' \in States /\ faults' \in 0..MaxFaults
    BY <2>1, <2>2, Posted
  <2>4. jpc' \in {"work", "closing"} /\ UNCHANGED <<jdraft, result>>
    BY <1>3
  <2>5. TypeOK'
    BY <2>3, <2>4 DEF TypeOK
  <2>6. StatusesEarned'
    BY <2>1, <2>3, <2>4 DEF StatusesEarned, Earned
  <2> QED
    BY <1>1, <2>5, <2>6
<1> QED
  BY <1>2, <1>3

\* A step of a pass that posts nothing keeps it. The draft of a pass that was not
\* complete is taken back to the generation applied (Check); the one of a deletion whose
\* save has an outcome was earned when that was reported (Terminate).
LEMMA QuietPassInv ==
  ASSUME IInv, UNCHANGED <<want, inbox, jdraft, result, phase>>,
         BeginPass \/ (/\ StateSeq \/ Restore \/ Check \/ Store \/ Terminate \/ SaveReports
                       /\ UNCHANGED cur)
  PROVE  IInv'
<1> USE DEF IInv
<1>1. /\ held' = held /\ late' = late /\ lastState' = lastState /\ faults' = faults
      /\ changed' \in BOOLEAN
  BY DEF BeginPass, StateSeq, Restore, Check, Store, Terminate, SaveReports, posting, TypeOK
<1>2. CASE BeginPass
  <2>1. inbox.kind # "delete" => inbox.kind \in {"pending", "archive"}
    BY <1>2 DEF BeginPass, TypeOK, Specs, DeletionIsLast
  <2>2. TypeOK'
    BY <1>1, <1>2, <2>1 DEF BeginPass, TypeOK, AlivePcs, posting
  <2>3. DeletionIsLast'
    BY <1>2 DEF BeginPass, DeletionIsLast, TerminatePcs
  <2>4. StatusesEarned'
    BY <1>1, <1>2 DEF BeginPass, StatusesEarned, Earned
  <2> QED
    BY <2>2, <2>3, <2>4
<1>3. CASE UNCHANGED cur /\ (StateSeq \/ Store)
  <2>1. TypeOK'
    BY <1>1, <1>3 DEF StateSeq, Store, TypeOK, Specs, AlivePcs, posting
  <2>2. DeletionIsLast'
    BY <1>3 DEF StateSeq, Store, DeletionIsLast, TerminatePcs
  <2>3. StatusesEarned'
    BY <1>1, <1>3 DEF StateSeq, Store, StatusesEarned, Earned
  <2> QED
    BY <2>1, <2>2, <2>3
<1>4. CASE UNCHANGED cur /\ Restore
  <2>1. Observed \in States
    BY DEF Observed, States, Rank
  <2>2. draft' \in Status /\ jpc' \in {"tick", jpc} /\ mpc' \in {"gate", "check"}
    BY <1>4, <2>1 DEF Restore, TypeOK, Specs, Status
  <2>3. mpc \in AlivePcs
    BY <1>4 DEF Restore, AlivePcs
  <2>4. TypeOK'
    BY <1>1, <1>4, <2>2, <2>3 DEF Restore, TypeOK, AlivePcs
  <2>5. DeletionIsLast'
    BY <1>4, <2>2 DEF Restore, DeletionIsLast, TerminatePcs
  <2>6. StatusesEarned'
    BY <1>1, <1>4, <2>2 DEF Restore, StatusesEarned, Earned
  <2> QED
    BY <2>4, <2>5, <2>6
<1>5. CASE UNCHANGED cur /\ Check
  <2>1. /\ draft' \in Status /\ mpc' \in {"idle", "post"} /\ mpc \in AlivePcs
        /\ earned' \in {earned, earned \cup {cur.gen}}
    BY <1>5 DEF Check, TypeOK, Status, AlivePcs
  <2>2. TypeOK'
    BY <1>1, <1>5, <2>1 DEF Check, TypeOK, Specs, AlivePcs
  <2>3. DeletionIsLast'
    BY <1>5, <2>1 DEF Check, DeletionIsLast, TerminatePcs
  <2>4. mpc' = "post" /\ complete => cur.gen \in earned'
    BY <1>5 DEF Check
  <2>5. mpc' = "post" /\ ~complete => draft'.gen = applied
    BY <1>5 DEF Check, TypeOK, Status
  <2>6. mpc' = "post" /\ complete => draft'.gen = cur.gen
    BY <1>5 DEF Check, TypeOK, Status, StatusesEarned
  <2>7. StatusesEarned'
    BY <1>1, <1>5, <2>1, <2>4, <2>5, <2>6 DEF Check, TypeOK, StatusesEarned, Earned
  <2> QED
    BY <2>2, <2>3, <2>7
<1>6. CASE UNCHANGED cur /\ Terminate
  <2>1. draft' \in Status /\ mpc' \in {"lastPost", "save"}
    <3>1. [gen |-> cur.gen, state |-> "over"] \in Status
      BY DEF TypeOK, Specs, Status, States, Rank
    <3>2. draft' = draft \/ draft' = [gen |-> cur.gen, state |-> "over"]
      BY <1>6 DEF Terminate
    <3>3. draft \in Status
      BY DEF TypeOK
    <3> QED
      BY <1>6, <3>1, <3>2, <3>3 DEF Terminate
  <2>2. TypeOK'
    BY <1>1, <1>6, <2>1 DEF Terminate, TypeOK, AlivePcs
  <2>3. DeletionIsLast'
    BY <1>6, <2>1 DEF Terminate, DeletionIsLast, TerminatePcs
  <2>4. mpc' = "lastPost" => Earned(draft'.gen)
    BY <1>6 DEF Terminate, DeletionIsLast, TerminatePcs, Earned
  <2>5. StatusesEarned'
    BY <1>1, <1>6, <2>1, <2>4 DEF Terminate, StatusesEarned, Earned
  <2> QED
    BY <2>2, <2>3, <2>5
<1>7. CASE UNCHANGED cur /\ SaveReports
  <2>1. /\ draft' \in Status /\ draft'.gen = applied /\ saved' \in BOOLEAN
        /\ mpc \in TerminatePcs /\ mpc' \in {"savePost", "endPost"} /\ (mpc' = "savePost" => saved' = saved)
    <3>1. \A state \in {"saving", "over"} : [gen |-> applied, state |-> state] \in Status
      BY DEF TypeOK, Status, States, Rank
    <3>2. \E state \in {"saving", "over"} : draft' = [gen |-> applied, state |-> state]
      BY <1>7 DEF SaveReports
    <3>3. /\ saved' \in BOOLEAN /\ mpc \in TerminatePcs
          /\ mpc' \in {"savePost", "endPost"} /\ (mpc' = "savePost" => saved' = saved)
      BY <1>7 DEF SaveReports, TypeOK, TerminatePcs
    <3> QED
      BY <3>1, <3>2, <3>3
  <2>2. TypeOK'
    BY <1>1, <1>7, <2>1 DEF SaveReports, TypeOK, AlivePcs
  <2>3. DeletionIsLast'
    BY <1>7, <2>1 DEF SaveReports, DeletionIsLast, TerminatePcs
  <2>4. StatusesEarned'
    BY <1>1, <1>7, <2>1 DEF SaveReports, StatusesEarned, Earned
  <2> QED
    BY <2>2, <2>3, <2>4
<1> QED
  BY <1>2, <1>3, <1>4, <1>5, <1>6, <1>7

\* A step of a pass that posts a status, or that ends it before it does, keeps it. The
\* state may be replaced by a newer one, the generation is the draft's.
LEMMA PostingPassInv ==
  ASSUME IInv, UNCHANGED <<want, inbox, jdraft, result, phase, cur>>,
         Setup \/ PostPass \/ PostPlain
  PROVE  IInv'
<1> USE DEF IInv
<1>1. CASE Setup
  <2>0. mpc = "setup" /\ UNCHANGED <<posting, cancelled, applied, jpc, saved, earned>>
    BY <1>1 DEF Setup
  <2>1. UNCHANGED posting /\ faults' \in 0..MaxFaults
    BY <1>1, BoundsAssumption DEF Setup, TypeOK, Well, Fault
  <2>2. [gen |-> applied, state |-> "nil"] \in Status
    BY DEF TypeOK, Status, States, Rank
  <2>3. /\ draft' \in Status /\ complete' \in BOOLEAN /\ mpc \in AlivePcs
        /\ mpc' \in {"seq", "setupPost", "idle"} /\ (mpc' = "setupPost" => draft'.gen = applied)
    <3> DEFINE failed == [gen |-> applied, state |-> "nil"]
    <3>1. failed \in Status /\ failed.gen = applied /\ draft \in Status /\ complete \in BOOLEAN
      BY <2>2 DEF TypeOK
    <3>2. /\ draft' = draft \/ draft' = failed
          /\ mpc' \in {"seq", "setupPost", "idle"} /\ (mpc' = "setupPost" => draft' = failed)
      BY <1>1 DEF Setup
    <3>3. complete' = TRUE \/ complete' = FALSE \/ complete' = complete
      BY <1>1 DEF Setup
    <3> HIDE DEF failed
    <3>4. mpc \in AlivePcs
      BY <2>0 DEF AlivePcs
    <3> QED
      BY <3>1, <3>2, <3>3, <3>4
  <2>4. TypeOK'
    BY <2>0, <2>1, <2>3 DEF TypeOK, AlivePcs, posting
  <2>5. DeletionIsLast'
    BY <2>0, <2>3 DEF DeletionIsLast, TerminatePcs
  <2>6. StatusesEarned'
    BY <2>0, <2>3 DEF StatusesEarned, Earned, posting
  <2> QED
    BY <2>4, <2>5, <2>6
<1>2. CASE PostPass
  <2>1. Freshest \in Status /\ Freshest.gen = draft.gen
    BY DEF Freshest, TypeOK, Status
  <2>2. Delivered(Freshest) \/ Unheard(Freshest)
    BY <1>2 DEF PostPass
  <2>3. /\ held' \in Status /\ held'.gen \in {held.gen, draft.gen}
        /\ late' \subseteq Status /\ late' \subseteq late \cup {Freshest}
        /\ changed' \in BOOLEAN /\ lastState' \in States /\ faults' \in 0..MaxFaults
    BY <2>1, <2>2, Posted
  <2>4. /\ Earned(draft.gen) /\ mpc \in AlivePcs
        /\ mpc' = "idle" \/ (mpc' = "store" /\ Earned(cur.gen))
    BY <1>2 DEF PostPass, StatusesEarned, AlivePcs
  <2>5. TypeOK'
    BY <1>2, <2>3, <2>4 DEF PostPass, TypeOK, AlivePcs
  <2>6. DeletionIsLast'
    BY <1>2, <2>4 DEF PostPass, DeletionIsLast, TerminatePcs
  <2>7. StatusesEarned'
    BY <1>2, <2>1, <2>3, <2>4 DEF PostPass, StatusesEarned, Earned
  <2> QED
    BY <2>5, <2>6, <2>7
<1>3. CASE PostPlain
  <2>1. draft \in Status /\ Earned(draft.gen) /\ earned' \in {earned, earned \cup {cur.gen}}
    BY <1>3 DEF PostPlain, TypeOK, StatusesEarned
  <2>2. Delivered(draft) \/ Unheard(draft)
    BY <1>3 DEF PostPlain
  <2>3. /\ held' \in Status /\ held'.gen \in {held.gen, draft.gen}
        /\ late' \subseteq Status /\ late' \subseteq late \cup {draft}
        /\ changed' \in BOOLEAN /\ lastState' \in States /\ faults' \in 0..MaxFaults
    BY <2>1, <2>2, Posted
  <2>4. draft' \in Status /\ mpc' \in {"idle", "saving", "lastPost"}
    BY <1>3, <2>1 DEF PostPlain, TypeOK, Specs, Status
  <2>5. mpc' = "lastPost" => mpc = "endPost" /\ draft'.gen = cur.gen /\ cur.gen \in earned'
    BY <1>3, <2>1 DEF PostPlain, Status
  <2>6. mpc = "endPost" => mpc' = "lastPost"
    BY <1>3 DEF PostPlain
  <2>7. TypeOK'
    BY <1>3, <2>1, <2>3, <2>4 DEF PostPlain, TypeOK, Specs, AlivePcs
  <2>8. DeletionIsLast'
    BY <1>3, <2>1, <2>4, <2>5, <2>6 DEF PostPlain, DeletionIsLast, TerminatePcs
  <2>9. StatusesEarned'
    BY <1>3, <2>1, <2>3, <2>4, <2>5 DEF PostPlain, StatusesEarned, Earned
  <2> QED
    BY <2>7, <2>8, <2>9
<1> QED
  BY <1>1, <1>2, <1>3

\* Every step keeps the invariant.
LEMMA StepIInv == IInv /\ [Next]_vars => IInv'
<1> SUFFICES ASSUME IInv, [Next]_vars PROVE IInv'
  OBVIOUS
<1>1. CASE Surroundings
  BY <1>1, SurroundingsInv
<1>2. CASE Phases
  BY <1>2, PhasesInv
<1>3. CASE RestoreJob
  BY <1>3, RestoreJobInv
<1>4. CASE MainLoop
  <2>1. UNCHANGED <<want, inbox, jdraft, result, phase>>
    BY <1>4 DEF MainLoop
  <2>2. CASE Setup \/ PostPass \/ PostPlain
    <3>1. cur' = cur
      BY <1>4, <2>2 DEF MainLoop, BeginPass, Setup, PostPass, PostPlain
    <3> QED
      BY <2>1, <2>2, <3>1, PostingPassInv
  <2>3. CASE ~(Setup \/ PostPass \/ PostPlain)
    BY <1>4, <2>1, <2>3, QuietPassInv DEF MainLoop
  <2> QED
    BY <2>2, <2>3
<1>5. CASE UNCHANGED vars
  BY <1>5 DEF vars, IInv, TypeOK, DeletionIsLast, StatusesEarned, Earned
<1> QED
  BY <1>1, <1>2, <1>3, <1>4, <1>5 DEF Next

\* The inductive invariant holds of every execution.
THEOREM Invariance == Spec => []IInv
<1> QED
  BY InitIInv, StepIInv, PTL DEF Spec

\* Every variable keeps its type (TypeOK).
THEOREM TypeCorrect == Spec => []TypeOK
<1>1. IInv => TypeOK
  BY DEF IInv
<1> QED
  BY <1>1, Invariance, PTL

\* The backend never takes a generation for applied before a pass over it was complete,
\* however many reports of other managers overtake that pass, get lost or come late
\* (ConfirmedIsEarned).
THEOREM Confirmation == Spec => []ConfirmedIsEarned
<1>1. IInv => ConfirmedIsEarned
  BY DEF IInv, StatusesEarned, Earned, ConfirmedIsEarned
<1> QED
  BY <1>1, Invariance, PTL

-----------------------------------------------------------------------------
(* The order in which the states of the workspace are reported.             *)

\* What may have been said of the workspace while it is not to be saved: the restore is
\* settled only when it has a result.
Sayable(state) == state \in {"nil", "waiting", "restoring"} \/ (state = "settled" /\ result # "nil")

\* The restore goroutine says "restoring" while it has no result, and then what came of
\* it; a restore that has a result is not begun again.
JobSays ==
  /\ jpc \in {"none", "tick", "tickPost", "work", "end"} => result = "nil"
  /\ jpc = "tickPost" => jdraft.state = "restoring"
  /\ jpc = "resultPost" => jdraft.state = "settled" /\ result # "nil"

\* So does the main loop, until the deletion, which cancels alive work.
LoopSays ==
  /\ mpc \in {"gate", "check", "post", "store"} => Sayable(draft.state)
  /\ mpc = "setupPost" => draft.state = "nil"
  /\ inbox.kind = "delete" => cancelled

\* And so the backend hears nothing else before; where no post failed it holds the state
\* posted last.
BackendHears ==
  /\ ~cancelled => Sayable(held.state) /\ Sayable(lastState) /\ \A s \in late : Sayable(s.state)
  /\ faults = 0 => late = {} /\ lastState = held.state

OrderInv == JobSays /\ LoopSays /\ BackendHears

\* A post leaves the backend with the state it held or the one posted; where none has
\* failed, that is the state the agent posted last.
LEMMA StatePosted ==
  ASSUME TypeOK, NEW status \in Status,
         Delivered(status) \/ Unheard(status) \/ UNCHANGED <<posting, faults>>
  PROVE  /\ held'.state \in {held.state, status.state}
         /\ lastState' \in {lastState, status.state} /\ late' \subseteq late \cup {status}
         /\ status.state = "nil" => held'.state = held.state
         /\ faults' = 0 =>
              faults = 0 /\ late' = late /\ (lastState = held.state => lastState' = held'.state)
<1>1. held \in Status /\ faults \in Nat
  BY BoundsAssumption DEF TypeOK
<1>2. Told(status).state = IF status.state = "nil" THEN held.state ELSE status.state
  BY DEF Told, Status
<1>3. CASE Delivered(status)
  BY <1>2, <1>3 DEF Delivered, Well
<1>4. CASE Unheard(status)
  <2>1. faults' # 0
    BY <1>1, <1>4 DEF Unheard, Fault
  <2>2. held' \in {held, Told(status)} /\ late' \subseteq late \cup {status} /\ lastState' = lastState
    BY <1>4 DEF Unheard
  <2> QED
    BY <1>2, <2>1, <2>2
<1>5. CASE UNCHANGED <<posting, faults>>
  BY <1>5 DEF posting
<1> QED
  BY <1>3, <1>4, <1>5

\* A post of what may be said keeps the backend's view in order.
LEMMA SayingKeeps ==
  ASSUME TypeOK, BackendHears, NEW status \in Status,
         Delivered(status) \/ Unheard(status) \/ UNCHANGED <<posting, faults>>,
         cancelled \/ Sayable(status.state), UNCHANGED <<cancelled, result>>
  PROVE  BackendHears'
<1>1. /\ held'.state \in {held.state, status.state}
      /\ lastState' \in {lastState, status.state} /\ late' \subseteq late \cup {status}
      /\ faults' = 0 =>
           faults = 0 /\ late' = late /\ (lastState = held.state => lastState' = held'.state)
  BY StatePosted
<1>2. faults' = 0 => late' = {} /\ lastState' = held'.state
  BY <1>1 DEF BackendHears
<1>3. ASSUME ~cancelled PROVE /\ Sayable(held'.state) /\ Sayable(lastState')
                              /\ \A s \in late' : Sayable(s.state)
  BY <1>1, <1>3 DEF BackendHears
<1>4. \A state : Sayable(state)' <=> Sayable(state)
  BY DEF Sayable
<1> QED
  BY <1>2, <1>3 DEF BackendHears, Sayable

\* Nothing is said at first.
LEMMA InitOrder == Init => OrderInv
  BY DEF Init, OrderInv, JobSays, LoopSays, BackendHears, Sayable, NoSpec, None

\* A step of the backend, the intake or the network keeps the order.
LEMMA SurroundingsOrder == IInv /\ OrderInv /\ Surroundings => OrderInv'
<1> SUFFICES ASSUME IInv, OrderInv, Surroundings PROVE OrderInv'
  OBVIOUS
<1> USE DEF OrderInv
<1>1. UNCHANGED <<mpc, draft, changed, lastState, jpc, jdraft, result, faults>>
  BY DEF Surroundings
<1>2. (cancelled => cancelled') /\ (inbox'.kind = "delete" => cancelled')
  BY DEF Surroundings, NewSpec, Intake, Arrives, LoopSays
<1>3. JobSays' /\ LoopSays'
  BY <1>1, <1>2 DEF JobSays, LoopSays, Sayable
<1>4. CASE Arrives
  <2> PICK s \in late : held' = Told(s) /\ late' = late \ {s}
    BY <1>4 DEF Arrives
  <2>1. held'.state \in {held.state, s.state}
    BY DEF Told, IInv, TypeOK, Status
  <2>2. faults # 0
    BY DEF BackendHears
  <2> QED
    BY <1>1, <1>2, <1>3, <2>1, <2>2 DEF BackendHears, Sayable
<1>5. CASE UNCHANGED <<held, late>>
  BY <1>1, <1>2, <1>3, <1>5 DEF BackendHears, Sayable
<1> QED
  BY <1>4, <1>5 DEF Surroundings, NewSpec, Intake

\* A phase report has no state.
LEMMA PhasesOrder == IInv /\ OrderInv /\ Phases => OrderInv'
<1> SUFFICES ASSUME IInv, OrderInv, Phases PROVE OrderInv'
  OBVIOUS
<1> USE DEF OrderInv
<1>1. UNCHANGED <<inbox, cancelled, mpc, draft, jpc, jdraft, result>>
  BY DEF Phases
<1>2. JobSays' /\ LoopSays'
  BY <1>1 DEF JobSays, LoopSays, Sayable
<1>3. CASE BuildPhase
  BY <1>1, <1>2, <1>3 DEF BuildPhase, posting, BackendHears, Sayable
<1>4. CASE PostPhase
  <2> PICK g \in phase : AlivePost([gen |-> g, state |-> "nil"])
    BY <1>4 DEF PostPhase
  <2> DEFINE status == [gen |-> g, state |-> "nil"]
  <2>1. status \in Status /\ status.state = "nil" /\ Sayable(status.state)
    BY DEF IInv, TypeOK, Status, States, Rank, Sayable
  <2>2. Delivered(status) \/ Unheard(status) \/ UNCHANGED <<posting, faults>>
    BY DEF AlivePost
  <2> HIDE DEF status
  <2>3. BackendHears'
    BY <1>1, <2>1, <2>2, SayingKeeps DEF IInv
  <2> QED
    BY <1>2, <2>3
<1> QED
  BY <1>3, <1>4 DEF Phases

\* The restore goroutine says "restoring" until it has a result, and then that.
LEMMA RestoreJobOrder == IInv /\ OrderInv /\ RestoreJob => OrderInv'
<1> SUFFICES ASSUME IInv, OrderInv, RestoreJob PROVE OrderInv'
  OBVIOUS
<1> USE DEF OrderInv
<1>1. UNCHANGED <<inbox, cancelled, mpc, draft>>
  BY DEF RestoreJob
<1>2. CASE JobTick \/ JobWork \/ JobEnd \/ JobClose
  <2>1. UNCHANGED <<posting, faults>>
    BY <1>2 DEF JobTick, JobWork, JobEnd, JobClose
  <2>2. result' = result \/ (result = "nil" /\ result' # "nil")
    BY <1>2 DEF JobTick, JobWork, JobEnd, JobClose, JobSays
  <2>3. \A state : Sayable(state) => Sayable(state)'
    BY <2>2 DEF Sayable
  <2>4. JobSays'
    BY <1>2 DEF JobTick, JobWork, JobEnd, JobClose, JobBuilds, JobSays
  <2>5. LoopSays' /\ BackendHears'
    BY <1>1, <2>1, <2>2 DEF LoopSays, BackendHears, Sayable, posting
  <2> QED
    BY <2>4, <2>5
<1>3. CASE JobTickPost \/ JobResult
  <2>1. /\ jdraft \in Status /\ Sayable(jdraft.state) /\ UNCHANGED <<jdraft, result>>
        /\ (jpc' = "work" /\ result = "nil") \/ jpc' = "closing"
    BY <1>3 DEF JobTickPost, JobResult, JobPosts, JobSays, Sayable, IInv, TypeOK
  <2>2. Delivered(jdraft) \/ Unheard(jdraft) \/ UNCHANGED <<posting, faults>>
    BY <1>3 DEF JobTickPost, JobResult, JobPosts, AlivePost
  <2>3. BackendHears'
    BY <1>1, <2>1, <2>2, SayingKeeps DEF IInv
  <2> QED
    BY <1>1, <2>1, <2>3 DEF JobSays, LoopSays, Sayable
<1> QED
  BY <1>2, <1>3 DEF RestoreJob

\* The main loop says what it saw, or what was said after it looked.
LEMMA MainLoopOrder == IInv /\ OrderInv /\ MainLoop => OrderInv'
<1> SUFFICES ASSUME IInv, OrderInv, MainLoop PROVE OrderInv'
  OBVIOUS
<1> USE DEF OrderInv
<1>1. UNCHANGED <<inbox, jdraft, result>> /\ draft \in Status
  BY DEF MainLoop, IInv, TypeOK
<1>2. \A state : Sayable(state)' <=> Sayable(state)
  BY <1>1 DEF Sayable
<1>3. mpc \in TerminatePcs => cancelled
  BY DEF IInv, DeletionIsLast, LoopSays
<1>4. CASE PostPass
  <2>1. /\ UNCHANGED <<cancelled, draft, jpc>> /\ mpc' \in {"store", "idle"}
        /\ Delivered(Freshest) \/ Unheard(Freshest)
    BY <1>4 DEF PostPass
  <2>2. Freshest \in Status /\ Freshest.state \in {draft.state, lastState}
    BY <1>1 DEF Freshest, IInv, TypeOK, Status
  <2>3. cancelled \/ Sayable(Freshest.state)
    BY <1>4, <2>2 DEF PostPass, LoopSays, BackendHears
  <2>4. BackendHears'
    BY <1>1, <2>1, <2>2, <2>3, SayingKeeps DEF IInv
  <2> QED
    BY <1>1, <1>4, <2>1, <2>4 DEF PostPass, JobSays, LoopSays, Sayable
<1>5. CASE PostPlain
  <2>1. /\ UNCHANGED <<cancelled, jpc>> /\ mpc' \in {"idle", "saving", "lastPost"}
        /\ Delivered(draft) \/ Unheard(draft)
    BY <1>5 DEF PostPlain
  <2>2. cancelled \/ Sayable(draft.state)
    BY <1>3, <1>5 DEF PostPlain, LoopSays, Sayable, TerminatePcs
  <2>3. BackendHears'
    BY <1>1, <2>1, <2>2, SayingKeeps DEF IInv
  <2> QED
    BY <1>1, <2>1, <2>3 DEF JobSays, LoopSays
<1>6. CASE Restore
  <2>1. /\ draft'.state = Observed /\ mpc' \in {"gate", "check"}
        /\ UNCHANGED <<posting, cancelled, faults>>
        /\ jpc' = jpc \/ (jpc' = "tick" /\ Observed = "restoring" /\ jpc \in {"none", "done"})
    BY <1>6 DEF Restore
  <2>2. Sayable(Observed)
    BY DEF Observed, Sayable
  <2>3. Observed = "restoring" /\ jpc \in {"none", "done"} => result = "nil"
    BY DEF Observed, JobSays, IInv, TypeOK
  <2> QED
    BY <1>1, <2>1, <2>2, <2>3 DEF JobSays, LoopSays, BackendHears, Sayable, posting
<1>7. CASE Setup
  <2>1. /\ UNCHANGED <<posting, cancelled, jpc>> /\ mpc' \in {"seq", "setupPost", "idle"}
        /\ mpc' = "setupPost" => draft'.state = "nil"
    BY <1>7 DEF Setup
  <2>2. faults' = 0 => faults = 0
    BY <1>7, BoundsAssumption DEF Setup, Well, Fault, IInv, TypeOK
  <2> QED
    BY <1>1, <2>1, <2>2 DEF JobSays, LoopSays, BackendHears, Sayable, posting
<1>8. CASE BeginPass \/ StateSeq \/ Store
  BY <1>1, <1>8 DEF BeginPass, StateSeq, Store, JobSays, LoopSays, BackendHears, Sayable, posting
<1>9. CASE Check
  <2>1. draft'.state = draft.state /\ mpc' \in {"idle", "post"}
    BY <1>1, <1>9 DEF Check, Status
  <2> QED
    BY <1>1, <1>9, <2>1 DEF Check, JobSays, LoopSays, BackendHears, Sayable, posting
<1>10. CASE Terminate \/ SaveReports
  <2>1. cancelled' /\ mpc' \in {"lastPost", "save", "savePost", "endPost"} /\ UNCHANGED <<posting, faults, jpc>>
    BY <1>3, <1>10 DEF Terminate, SaveReports, TerminatePcs
  <2> QED
    BY <1>1, <2>1 DEF JobSays, LoopSays, BackendHears, posting
<1> QED
  BY <1>4, <1>5, <1>6, <1>7, <1>8, <1>9, <1>10 DEF MainLoop

\* Every step keeps the order.
LEMMA StepOrder == IInv /\ OrderInv /\ [Next]_vars => OrderInv'
<1>1. OrderInv /\ UNCHANGED vars => OrderInv'
  BY DEF vars, OrderInv, JobSays, LoopSays, BackendHears, Sayable
<1> QED
  BY <1>1, SurroundingsOrder, PhasesOrder, RestoreJobOrder, MainLoopOrder DEF Next

\* The states are reported in order in every execution.
LEMMA Order == Spec => []OrderInv
<1>1. IInv /\ OrderInv /\ [Next]_vars => OrderInv'
  BY StepOrder
<1> QED
  BY <1>1, InitOrder, Invariance, PTL DEF Spec

\* A post while a pass is about to post, in order: not back.
LEMMA PostForth ==
  ASSUME IInv, OrderInv, [Next]_vars, mpc = "post", changed, faults' = 0
  PROVE  Rank[held'.state] >= Rank[held.state]
<1> USE DEF OrderInv
<1>1. held \in Status /\ Rank[held.state] \in Nat
  BY DEF IInv, TypeOK, Status, States, Rank
<1>2. CASE held'.state = held.state
  BY <1>1, <1>2
<1>3. ~Fault
  BY BoundsAssumption DEF Fault, IInv, TypeOK
<1>4. CASE Surroundings
  <2>1. faults = 0
    BY <1>4 DEF Surroundings
  <2>2. held' = held
    BY <1>4, <2>1 DEF Surroundings, NewSpec, Intake, Arrives, BackendHears
  <2> QED
    BY <1>2, <2>2
<1>5. CASE Phases
  <2>1. CASE BuildPhase
    BY <1>2, <2>1 DEF BuildPhase, posting
  <2>2. CASE PostPhase
    <3> PICK g \in phase : AlivePost([gen |-> g, state |-> "nil"])
      BY <2>2 DEF PostPhase
    <3> DEFINE status == [gen |-> g, state |-> "nil"]
    <3>1. status \in Status /\ status.state = "nil"
      BY DEF IInv, TypeOK, Status, States, Rank
    <3>2. Delivered(status) \/ Unheard(status) \/ UNCHANGED <<posting, faults>>
      BY DEF AlivePost
    <3> HIDE DEF status
    <3>3. held'.state = held.state
      BY <3>1, <3>2, StatePosted DEF IInv
    <3> QED
      BY <1>2, <3>3
  <2> QED
    BY <1>5, <2>1, <2>2 DEF Phases
<1>6. CASE RestoreJob
  <2>1. CASE UNCHANGED held
    BY <1>2, <2>1
  <2>2. CASE JobTickPost \/ JobResult
    <3>1. /\ jdraft \in Status
          /\ \/ jdraft.state = "restoring" /\ result = "nil"
             \/ jdraft.state = "settled" /\ result # "nil"
      BY <2>2 DEF JobTickPost, JobResult, JobSays, IInv, TypeOK
    <3>2. Delivered(jdraft) \/ Unheard(jdraft) \/ UNCHANGED <<posting, faults>>
      BY <2>2 DEF JobTickPost, JobResult, JobPosts, AlivePost
    <3>3. held'.state \in {held.state, jdraft.state}
      BY <3>1, <3>2, StatePosted DEF IInv
    <3>4. CASE cancelled
      <4>1. ~Unheard(jdraft)
        BY <1>3 DEF Unheard
      <4>2. held' = held
        BY <2>2, <3>4, <4>1 DEF JobTickPost, JobResult, JobPosts, AlivePost, posting
      <4> QED
        BY <1>2, <4>2
    <3>5. CASE ~cancelled
      <4>1. Sayable(held.state)
        BY <3>5 DEF BackendHears
      <4> QED
        BY <1>2, <3>1, <3>3, <4>1 DEF Sayable, Rank
    <3> QED
      BY <3>4, <3>5
  <2> QED
    BY <1>6, <2>1, <2>2 DEF RestoreJob, JobTick, JobWork, JobEnd, JobClose, posting
<1>7. CASE MainLoop
  <2>1. PostPass
    BY <1>7 DEF MainLoop, BeginPass, Setup, StateSeq, Restore, Check, Store, Terminate, SaveReports,
       PostPlain
  <2>2. ~Unheard(Freshest)
    BY <1>3 DEF Unheard
  <2>3. held' = Told(Freshest) /\ faults = 0
    BY <2>1, <2>2 DEF PostPass, Delivered, Well
  <2>4. held.state = lastState
    BY <2>3 DEF BackendHears
  <2>5. CASE lastState = "nil"
    BY <1>1, <1>2, <2>3, <2>4, <2>5 DEF Told, Freshest, Status, Rank, States, IInv, TypeOK
  <2>6. CASE lastState # "nil"
    <3>1. Freshest.state = lastState
      BY <2>6 DEF Freshest, IInv, TypeOK, Status
    <3>2. held'.state = lastState
      BY <1>1, <2>3, <2>4, <3>1 DEF Told, Status
    <3> QED
      BY <1>2, <2>4, <3>2
  <2> QED
    BY <2>5, <2>6
<1>8. CASE UNCHANGED vars
  BY <1>2, <1>8 DEF vars
<1> QED
  BY <1>4, <1>5, <1>6, <1>7, <1>8 DEF Next

\* OvertakenIsHarmless holds of every execution: until a post fails the state posted last
\* is the one the backend holds, and that is what a pass that was overtaken repeats
\* (stateReports against stateSeen); the reports that overtake it do not go back either.
THEOREM OvertakingIsHarmless == Spec => OvertakenIsHarmless
<1>1. IInv /\ OrderInv /\ [Next]_vars =>
        [mpc = "post" /\ changed /\ faults' = 0 => Rank[held'.state] >= Rank[held.state]]_<<mpc, held>>
  BY PostForth
<1> QED
  BY <1>1, Order, Invariance, PTL DEF Spec, OvertakenIsHarmless

-----------------------------------------------------------------------------
(* The backend goes on knowing how things stand.                            *)

\* Truth, by what the newest spec asks for.
LEMMA TruthIs ==
  ASSUME TypeOK
  PROVE  /\ Truth.gen = want.gen
         /\ want.kind = "pending" => Truth.state = "waiting"
         /\ want.kind = "archive" => Truth.state = "settled"
         /\ want.kind = "delete" => Truth.state = "over"
  BY DEF Truth

\* A status that agrees with Truth tells the backend nothing new; only its state, if it
\* has one, is noted (postStatus).
LEMMA PostAgrees ==
  ASSUME TypeOK, held = Truth, NEW status \in Status, Agrees(status)
  PROVE  /\ Told(status) = Truth
         /\ faults' = faults /\ (AlivePost(status) \/ Delivered(status) \/ Unheard(status)) =>
              /\ held' = Truth /\ late' = late
              /\ \/ UNCHANGED <<changed, lastState>>
                 \/ status.state # "nil" /\ lastState' = Truth.state
<1>1. Truth \in Status /\ Truth.gen = want.gen
  BY TruthIs DEF TypeOK
<1>2. Told(status) = Truth
  <2>1. Truth = [gen |-> want.gen, state |-> Truth.state]
    BY <1>1 DEF Status
  <2>2. status = [gen |-> want.gen, state |-> status.state]
    BY DEF Status, Agrees
  <2>3. CASE status.state = "nil"
    BY <2>1, <2>2, <2>3 DEF Told
  <2>4. CASE status.state # "nil"
    BY <2>1, <2>2, <2>4 DEF Told, Agrees
  <2> QED
    BY <2>3, <2>4
<1>3. ASSUME faults' = faults, AlivePost(status) \/ Delivered(status) \/ Unheard(status)
      PROVE  /\ held' = Truth /\ late' = late
             /\ \/ UNCHANGED <<changed, lastState>>
                \/ status.state # "nil" /\ lastState' = Truth.state
  <2>1. ~Unheard(status)
    BY <1>3, BoundsAssumption DEF Unheard, Fault, TypeOK
  <2>2. CASE UNCHANGED posting
    BY <2>2 DEF posting
  <2>3. CASE Delivered(status)
    BY <1>2, <2>3 DEF Delivered, Agrees
  <2> QED
    BY <1>3, <2>1, <2>2, <2>3 DEF AlivePost
<1> QED
  BY <1>2, <1>3

\* A report that arrives late, a phase report and a report of the restore, while the
\* instance is kept.
LEMMA ReportsKeepTruth ==
  ASSUME IInv, Knows, want.kind # "delete", want' = want, faults' = faults,
         Surroundings \/ Phases \/ RestoreJob
  PROVE  Knows'
<1>1. /\ TypeOK /\ held = Truth /\ inbox = want /\ KeepsToTruth
      /\ late \subseteq Status /\ \A s \in late : Agrees(s)
  BY DEF IInv, TypeOK, Knows
<1>2. Truth' = Truth /\ \A s : Agrees(s)' <=> Agrees(s)
  BY DEF Truth, Agrees
<1>3. CASE Surroundings
  <2>1. Arrives
    BY <1>1, <1>3 DEF Surroundings, NewSpec, Intake, TypeOK, Specs, Gens
  <2>2. held' = Truth /\ late' \subseteq late /\ inbox' = inbox
    BY <1>1, <2>1, PostAgrees DEF Arrives
  <2>3. KeepsToTruth'
    BY <1>1, <1>2, <1>3 DEF Surroundings, KeepsToTruth
  <2> QED
    BY <1>1, <1>2, <2>2, <2>3 DEF Knows
<1>4. CASE Phases
  <2>1. /\ UNCHANGED <<inbox, applied, mpc, cur, draft, jpc, result, jdraft>>
        /\ phase' \subseteq {want.gen}
        /\ held' = Truth /\ late' = late /\ UNCHANGED <<changed, lastState>>
    <3>1. CASE BuildPhase
      BY <1>1, <1>4, <3>1 DEF Phases, BuildPhase, posting, KeepsToTruth
    <3>2. CASE PostPhase
      <4> PICK g \in phase : AlivePost([gen |-> g, state |-> "nil"])
        BY <3>2 DEF PostPhase
      <4> DEFINE status == [gen |-> g, state |-> "nil"]
      <4>1. status \in Status /\ status.state = "nil" /\ Agrees(status) /\ AlivePost(status)
        BY <1>1 DEF TypeOK, Status, States, Rank, KeepsToTruth, Agrees
      <4> HIDE DEF status
      <4> QED
        BY <1>1, <1>4, <3>2, <4>1, PostAgrees DEF Phases, PostPhase
    <3> QED
      BY <1>4, <3>1, <3>2 DEF Phases
  <2>2. KeepsToTruth'
    BY <1>1, <1>2, <2>1 DEF KeepsToTruth
  <2> QED
    BY <1>1, <1>2, <2>1, <2>2 DEF Knows
<1>5. CASE RestoreJob
  <2>1. UNCHANGED <<inbox, applied, mpc, cur, draft, phase>>
    BY <1>5 DEF RestoreJob
  <2>2. jpc \in {"resultPost", "closing"} /\ want.kind = "archive"
    BY <1>1, <1>5 DEF RestoreJob, JobTick, JobTickPost, JobWork, JobEnd, JobResult, JobClose,
       KeepsToTruth, IInv, TypeOK, Specs, DeletionIsLast
  <2>3. CASE JobClose
    <3>1. jpc' = "done" /\ UNCHANGED <<held, late, changed, lastState, result>>
      BY <2>3 DEF JobClose, posting
    <3>2. KeepsToTruth'
      BY <1>1, <1>2, <2>1, <2>2, <3>1 DEF KeepsToTruth
    <3> QED
      BY <1>1, <1>2, <2>1, <3>1, <3>2 DEF Knows
  <2>4. CASE JobResult
    <3>1. jdraft \in Status /\ Agrees(jdraft)
      BY <1>1, <2>4 DEF JobResult, KeepsToTruth, TypeOK
    <3>2. jpc' = "closing" /\ UNCHANGED <<jdraft, result>> /\ AlivePost(jdraft)
      BY <2>4 DEF JobResult, JobPosts
    <3>3. /\ held' = Truth /\ late' = late
          /\ UNCHANGED <<changed, lastState>> \/ lastState' = Truth.state
      BY <1>1, <3>1, <3>2, PostAgrees
    <3>4. KeepsToTruth'
      BY <1>1, <1>2, <2>1, <2>2, <3>2, <3>3 DEF KeepsToTruth
    <3> QED
      BY <1>1, <1>2, <2>1, <3>3, <3>4 DEF Knows
  <2> QED
    BY <1>5, <2>2, <2>3, <2>4 DEF RestoreJob, JobTick, JobTickPost, JobWork, JobEnd
<1> QED
  BY <1>3, <1>4, <1>5

\* A pass over a spec that keeps the instance finds what the backend has been told.
LEMMA PassKeepsTruth ==
  ASSUME IInv, Knows, want.kind # "delete", want' = want, faults' = faults, MainLoop
  PROVE  Knows'
<1>1. /\ TypeOK /\ held = Truth /\ inbox = want /\ KeepsToTruth
      /\ \A s \in late : Agrees(s)
      /\ want.kind \in {"pending", "archive"} /\ want # NoSpec
  BY DEF IInv, TypeOK, Knows, DeletionIsLast, Specs, NoSpec
<1>2. Truth' = Truth /\ \A s : Agrees(s)' <=> Agrees(s)
  BY DEF Truth, Agrees
<1>3. UNCHANGED <<inbox, jdraft, result, phase>>
  BY DEF MainLoop
<1>4. ~Fault
  BY BoundsAssumption DEF Fault, IInv, TypeOK
<1> DEFINE Kept ==
      /\ held' = Truth /\ late' = late /\ applied' = want.gen /\ jpc' = jpc
      /\ mpc' \in {"idle"} \cup AlivePcs /\ (mpc' # "idle" => cur' = want)
      /\ mpc' \in {"setupPost", "gate", "check", "post"} => Agrees(draft')
      /\ mpc' \in {"restore", "gate", "check", "post"} /\ changed'
           => lastState' \in {"nil", Truth.state}
<1>5. SUFFICES Kept
  BY <1>1, <1>2, <1>3 DEF Knows, KeepsToTruth
<1>6. CASE BeginPass
  BY <1>1, <1>6 DEF BeginPass, KeepsToTruth, posting, AlivePcs
<1>7. ASSUME UNCHANGED cur, Setup \/ StateSeq \/ Store PROVE Kept
  BY <1>1, <1>4, <1>7 DEF Setup, StateSeq, Store, KeepsToTruth, posting, AlivePcs
<1>8. ASSUME UNCHANGED cur, Restore PROVE Kept
  <2>1. cur = want /\ mpc' \in {"gate", "check"} /\ mpc \in {"restore", "gate"}
        /\ draft' = [gen |-> cur.gen, state |-> Observed]
    BY <1>1, <1>8 DEF Restore, KeepsToTruth, AlivePcs
  <2>2. Observed = Truth.state /\ Observed # "restoring"
    BY <1>1, <2>1, TruthIs DEF Observed, KeepsToTruth
  <2>3. Agrees(draft')
    BY <2>1, <2>2 DEF Agrees
  <2> QED
    BY <1>1, <1>8, <2>1, <2>2, <2>3 DEF Restore, KeepsToTruth, posting, AlivePcs
<1>9. ASSUME UNCHANGED cur, Check PROVE Kept
  <2>1. cur = want /\ Agrees(draft) /\ draft \in Status
    BY <1>1, <1>9 DEF Check, KeepsToTruth, AlivePcs, TypeOK
  <2>2. mpc' \in {"idle", "post"} /\ (mpc' = "post" => Agrees(draft'))
    BY <1>1, <1>9, <2>1 DEF Check, Agrees, KeepsToTruth, Status
  <2> QED
    BY <1>1, <1>9, <2>1, <2>2 DEF Check, KeepsToTruth, posting, AlivePcs
<1>10. ASSUME UNCHANGED cur, PostPass PROVE Kept
  <2>1. draft \in Status /\ lastState \in States /\ Agrees(draft)
        /\ (changed => lastState \in {"nil", Truth.state})
    BY <1>1, <1>10 DEF PostPass, KeepsToTruth, TypeOK
  <2>2. Freshest \in Status /\ Agrees(Freshest)
    BY <2>1 DEF Freshest, Agrees, Status
  <2>3. /\ Delivered(Freshest) \/ Unheard(Freshest)
        /\ mpc' \in {"idle", "store"} /\ UNCHANGED <<applied, jpc>>
    BY <1>10 DEF PostPass
  <2>4. held' = Truth /\ late' = late
    BY <1>1, <2>2, <2>3, PostAgrees
  <2> QED
    BY <1>1, <1>10, <2>3, <2>4 DEF PostPass, KeepsToTruth, AlivePcs
<1>11. ASSUME UNCHANGED cur, PostPlain PROVE Kept
  <2>1. mpc = "setupPost" /\ mpc' = "idle" /\ UNCHANGED <<applied, jpc>>
    BY <1>1, <1>11 DEF PostPlain, KeepsToTruth, AlivePcs
  <2>2. draft \in Status /\ Agrees(draft)
    BY <1>1, <2>1 DEF KeepsToTruth, TypeOK
  <2>3. held' = Truth /\ late' = late
    BY <1>1, <1>11, <2>2, PostAgrees DEF PostPlain
  <2> QED
    BY <1>1, <2>1, <2>3 DEF KeepsToTruth
<1>12. ~(Terminate \/ SaveReports)
  BY <1>1 DEF Terminate, SaveReports, KeepsToTruth, AlivePcs
<1> QED
  BY <1>6, <1>7, <1>8, <1>9, <1>10, <1>11, <1>12 DEF MainLoop

\* After the outcome of a deletion only that outcome is posted.
LEMMA EndKeepsTruth ==
  ASSUME IInv, Knows, want.kind = "delete", want' = want, faults' = faults, Next
  PROVE  Knows'
<1>1. /\ TypeOK /\ held = Truth /\ inbox = want /\ EndsInTruth
      /\ late \subseteq Status /\ \A s \in late : Agrees(s)
  BY DEF IInv, TypeOK, Knows
<1>2. Truth' = Truth /\ \A s : Agrees(s)' <=> Agrees(s)
  BY DEF Truth, Agrees
<1>3. ~Fault
  BY BoundsAssumption DEF Fault, IInv, TypeOK
<1>4. CASE Surroundings
  <2>1. Arrives
    BY <1>1, <1>4 DEF Surroundings, NewSpec, Intake, TypeOK, Specs, Gens
  <2>2. held' = Truth /\ late' \subseteq late /\ UNCHANGED <<inbox, cancelled>>
    BY <1>1, <2>1, PostAgrees DEF Arrives
  <2>3. EndsInTruth'
    BY <1>1, <1>2, <1>4, <2>2 DEF Surroundings, EndsInTruth
  <2> QED
    BY <1>1, <1>2, <2>2, <2>3 DEF Knows
<1>5. ASSUME NEW status, AlivePost(status) PROVE UNCHANGED posting
  BY <1>1, <1>3, <1>5 DEF AlivePost, Unheard, EndsInTruth
<1>6. CASE Phases \/ RestoreJob
  <2>1. UNCHANGED posting /\ UNCHANGED <<inbox, cancelled, mpc, cur, draft, saved>>
    BY <1>5, <1>6 DEF Phases, BuildPhase, PostPhase, RestoreJob, JobTick, JobTickPost, JobWork,
       JobEnd, JobResult, JobClose, JobPosts
  <2>2. EndsInTruth'
    BY <1>1, <1>2, <2>1 DEF EndsInTruth
  <2> QED
    BY <1>1, <1>2, <2>1, <2>2 DEF Knows, posting
<1>7. CASE MainLoop
  <2>1. mpc \in {"idle", "terminate", "lastPost"} /\ inbox' = inbox
    BY <1>1, <1>7 DEF EndsInTruth, MainLoop
  <2>2. CASE mpc = "idle"
    <3>1. BeginPass
      BY <1>7, <2>2 DEF MainLoop, Setup, StateSeq, Restore, Check, PostPass, Store, Terminate,
         SaveReports, PostPlain
    <3>2. EndsInTruth'
      BY <1>1, <1>2, <3>1 DEF BeginPass, EndsInTruth
    <3> QED
      BY <1>1, <1>2, <2>1, <3>1, <3>2 DEF Knows, BeginPass, posting
  <2>3. CASE mpc = "terminate"
    <3>1. Terminate /\ cur' = cur
      BY <1>7, <2>3 DEF MainLoop, BeginPass, Setup, StateSeq, Restore, Check, PostPass, Store,
         SaveReports, PostPlain
    <3>2. cur = want /\ saved /\ draft' = [gen |-> cur.gen, state |-> "over"] /\ mpc' = "lastPost"
      BY <1>1, <2>3, <3>1 DEF Terminate, EndsInTruth
    <3>3. Agrees(draft')
      BY <1>1, <3>2, TruthIs DEF Agrees
    <3>4. EndsInTruth'
      BY <1>1, <1>2, <3>1, <3>2, <3>3 DEF Terminate, EndsInTruth
    <3> QED
      BY <1>1, <1>2, <2>1, <3>1, <3>4 DEF Knows, Terminate, posting
  <2>4. CASE mpc = "lastPost"
    <3>1. PostPlain
      BY <1>7, <2>4 DEF MainLoop, BeginPass, Setup, StateSeq, Restore, Check, PostPass, Store,
         Terminate, SaveReports
    <3>2. draft \in Status /\ Agrees(draft)
      BY <1>1, <2>4 DEF EndsInTruth, TypeOK
    <3>3. held' = Truth /\ late' = late
      BY <1>1, <3>1, <3>2, PostAgrees DEF PostPlain
    <3>4. mpc' = "idle" /\ UNCHANGED <<cancelled, saved>>
      BY <2>4, <3>1 DEF PostPlain
    <3>5. EndsInTruth'
      BY <1>1, <3>4 DEF EndsInTruth
    <3> QED
      BY <1>1, <1>2, <2>1, <3>3, <3>5 DEF Knows
  <2> QED
    BY <2>1, <2>2, <2>3, <2>4
<1> QED
  BY <1>4, <1>6, <1>7 DEF Next

\* TruthStays holds of every execution, for any number of specs and faults: a pass repeats
\* what was told (handleSpec), a restore that has a result is not begun again (Restore),
\* and an outcome of the save is repeated (Save).
THEOREM TruthIsKept == Spec => TruthStays
<1>1. IInv /\ [Next]_vars => [Knows => Knows' \/ want' # want \/ faults' # faults]_vars
  <2> SUFFICES ASSUME IInv, Next, Knows, want' = want, faults' = faults PROVE Knows'
    BY DEF vars
  <2>1. CASE want.kind = "delete"
    BY <2>1, EndKeepsTruth
  <2>2. CASE want.kind # "delete"
    BY <2>2, ReportsKeepTruth, PassKeepsTruth DEF Next
  <2> QED
    BY <2>1, <2>2
<1> QED
  BY <1>1, Invariance, PTL DEF Spec, TruthStays

\* The backend is not taken back, by a status that was overtaken (postStatus) or by the
\* repeated passes, restores and saves that follow.
THEOREM NeverTakenBack == Spec => NeverBack
BY OvertakingIsHarmless, TruthIsKept DEF NeverBack
=============================================================================
