---------------------------- MODULE ContentProofs ----------------------------
(***************************************************************************)
(* Theorems about Content, for any targets, versions and specs, numbers of *)
(* attempts, changes, edits and crashes.                                   *)
(***************************************************************************)
EXTENDS Content, TLAPS, WellFoundedInduction

\* The first of a set of targets is one of it.
LEMMA FirstIsIn ==
  ASSUME NEW S \in SUBSET Targets, S # {}
  PROVE  FirstOf(S) \in S
<1> DEFINE I == {i \in DOMAIN Order : Order[i] \in S}
<1>1. Order \in Seq(Targets) /\ DOMAIN Order = 1..Len(Order) /\ Len(Order) \in Nat
  BY TargetsAssumption
<1>2. I \subseteq Nat /\ I # {}
  BY <1>1, TargetsAssumption
<1>3. \E i \in I : \A k \in I : <<k, i>> \notin OpToRel(<, Nat)
  BY <1>2, NatLessThanWellFounded, WFMin
<1>4. PICK i \in I : \A k \in I : <<k, i>> \notin OpToRel(<, Nat)
  BY <1>3
<1>5. \A k \in 1..(i - 1) : Order[k] \notin S
  <2> TAKE k \in 1..(i - 1)
  <2>1. k \in DOMAIN Order /\ k \in Nat /\ i \in Nat /\ k < i
    BY <1>1, <1>2
  <2>2. k \notin I
    BY <2>1, <1>4 DEF OpToRel
  <2> QED
    BY <2>1, <2>2
<1>6. \E n \in DOMAIN Order : Order[n] \in S /\ \A k \in 1..(n - 1) : Order[k] \notin S
  BY <1>4, <1>5
<1> QED
  BY <1>6 DEF FirstOf

-----------------------------------------------------------------------------
(* The inductive invariant.                                                 *)

\* A fetch is under way, and it is begun.
Fetching == {"fetch", "fill", "remember", "clone", "next"}
Begun    == {"fill", "remember", "clone", "next"}

\* Targets that have failed since the spec came or had nowhere to be put, and those whose
\* last fetch is not counted as one.
Failed == {t \in Targets : tries[t] > 0} \cup unplaced
Behind == {t \in Targets : begun[t] > tries[t]}

\* No fetch can begin for the spec that the attempts are counted for.
NoMore == mpc = "install" \/ key = NoSpec \/ ~alive

\* A job is at work on targets of the current spec, if there is one.
OnSpec(s) ==
  jobs[s].pc # "over" =>
    /\ jobs[s].spec \in Specs
    /\ jobs[s].todo \subseteq DOMAIN jobs[s].spec /\ jobs[s].miss \subseteq DOMAIN jobs[s].spec
    /\ jobs[s].pc \in Fetching => jobs[s].todo # {}
    /\ jobs[s].pc = "clone" => FirstOf(jobs[s].todo) \in Repos
    /\ key # NoSpec => jobs[s].spec = key

\* Targets a job has done with were met or have failed; with none bad all were met.
Accounted(s) ==
  key # NoSpec =>
    /\ jobs[s].pc = "plan" => DOMAIN key \subseteq met \cup jobs[s].todo \cup jobs[s].miss
    /\ jobs[s].pc \in Fetching => /\ DOMAIN key \subseteq met \cup jobs[s].todo \cup Failed
                                  /\ ~jobs[s].bad => DOMAIN key \subseteq met \cup jobs[s].todo
    /\ jobs[s].pc \in {"remember", "next"} => FirstOf(jobs[s].todo) \in met
    /\ jobs[s].pc \in {"finish", "settle"} => /\ DOMAIN key \subseteq met \cup Failed
                                              /\ ~jobs[s].bad => DOMAIN key \subseteq met

\* A job fetches what was not given up, and counts each fetch before the next begins.
Counted(s) ==
  /\ jobs[s].pc \in Fetching => jobs[s].todo \cap given = {}
  /\ jobs[s].pc \in {"fetch", "finish", "settle"} => Behind = {}
  /\ jobs[s].pc = "plan" /\ ~jobs[s].dead => Behind = {}
  /\ jobs[s].pc \in Begun =>
       /\ Behind \subseteq {FirstOf(jobs[s].todo)}
       /\ begun[FirstOf(jobs[s].todo)] <= tries[FirstOf(jobs[s].todo)] + 1
  /\ jobs[s].pc # "over" /\ jobs[s].dead => NoMore

\* Jobs are replaced one by one: at most the current one is at work.
OneJob ==
  /\ \A s \in Slots : s # cur => jobs[s].pc = "over"
  /\ \A s \in Slots : OnSpec(s) /\ Accounted(s) /\ Counted(s)

\* What used up its attempts is given up, and no fetch is lost from the count.
Attempts ==
  /\ \A t \in Targets : tries[t] = FetchAttempts => t \in given
  /\ RetriesEnd
  /\ (\A s \in Slots : jobs[s].pc = "over") => Behind = {} \/ NoMore

\* What a pass knows of the content.
Passes ==
  /\ mpc = "drop" => key = NoSpec /\ mspec = NoSpec
  /\ mpc = "install" => mspec \in Specs
  /\ mpc \in {"gate", "run"} => key = mspec
  /\ mpc = "run" /\ key # NoSpec => DOMAIN key \subseteq met \cup Failed
  /\ mpc = "save" => cur = 0

\* The result stands on what was met and what has failed.
Results ==
  settled /\ key # NoSpec => /\ DOMAIN key \subseteq met \cup Failed
                             /\ observed = "ready" => DOMAIN key \subseteq met

IInv == TypeOK /\ OneJob /\ Attempts /\ Passes /\ Results /\ StampsHold /\ NothingHalf

\* The agent starts with nothing at work.
LEMMA InitIInv == Init => IInv
<1> SUFFICES ASSUME Init PROVE IInv
  OBVIOUS
<1> USE TargetsAssumption, BoundsAssumption DEF Init
<1>1. TypeOK
  <2>1. Over \in [pc : JobPcs, spec : Wants, dead : BOOLEAN, todo : SUBSET Targets,
                  miss : SUBSET Targets, bad : BOOLEAN]
    BY DEF Over, JobPcs, Wants
  <2>2. FetchAttempts \in Nat /\ 0 \in 0..FetchAttempts /\ 0 \in 0..MaxChanges /\ 0 \in 0..MaxEdits
        /\ 0 \in 0..MaxCrashes
    OBVIOUS
  <2>3. disk \in [Targets -> Data] /\ verified \in [Models -> Versions \cup {"none"}]
    BY DEF Data
  <2>4. tries \in [Targets -> 0..FetchAttempts] /\ begun \in [Targets -> Nat]
    BY <2>2
  <2>5. jobs \in [Slots -> [pc : JobPcs, spec : Wants, dead : BOOLEAN, todo : SUBSET Targets,
                         miss : SUBSET Targets, bad : BOOLEAN]]
    BY <2>1
  <2> QED
    BY <2>2, <2>3, <2>4, <2>5 DEF TypeOK, Wants, LoopPcs
<1>2. OneJob
  BY DEF OneJob, OnSpec, Accounted, Counted, Over, Fetching, Begun
<1>3. Attempts
  BY DEF Attempts, RetriesEnd, Behind
<1>4. Passes /\ Results
  BY DEF Passes, Results
<1>5. StampsHold /\ NothingHalf
  BY DEF StampsHold, NothingHalf
<1> QED
  BY <1>1, <1>2, <1>3, <1>4, <1>5 DEF IInv

-----------------------------------------------------------------------------
(* The backend, the restore and the users.                                  *)

\* What the invariant says of the jobs and their counts depends on nothing else.
LEMMA JobsUntouched ==
  ASSUME OneJob, Attempts, Results, NoMore => NoMore',
         UNCHANGED <<key, cur, settled, observed, tries, given, jobs, met, begun, unplaced>>
  PROVE  OneJob' /\ Attempts' /\ Results'
<1>1. OneJob'
  BY DEF OneJob, OnSpec, Accounted, Counted, Failed, Behind
<1>2. Attempts'
  BY DEF Attempts, RetriesEnd, Behind
<1>3. Results'
  BY DEF Results, Failed
<1> QED
  BY <1>1, <1>2, <1>3

\* Another writer leaves nothing half behind, nor a stamp that is not good.
LEMMA OverwriteKeeps ==
  ASSUME TypeOK, StampsHold, NothingHalf, NEW t \in Targets,
         NEW d \in Versions \cup {"none", "own"}, Overwrite(t, d), UNCHANGED <<jobs, torn>>
  PROVE  /\ disk' \in [Targets -> Data] /\ verified' \in [Models -> Versions \cup {"none"}]
         /\ raced' \subseteq Targets
         /\ StampsHold' /\ NothingHalf'
<1>1. disk' \in [Targets -> Data] /\ verified' \in [Models -> Versions \cup {"none"}]
      /\ raced' \subseteq Targets
  BY DEF Overwrite, TypeOK, Data
<1>2. StampsHold'
  BY DEF Overwrite, StampsHold, TypeOK, Targets
<1>3. NothingHalf'
  BY TargetsAssumption DEF Overwrite, NothingHalf, TypeOK
<1> QED
  BY <1>1, <1>2, <1>3

\* The steps of the backend, of the restore and of users.
LEMMA OthersKeep ==
  IInv /\ (ChangeSpec \/ RequestDeletion \/ RestoreMove \/ Edit) => IInv'
<1>1. ASSUME IInv, ChangeSpec PROVE IInv'
  <2> USE <1>1 DEF IInv, ChangeSpec, machine, manager, loop, history
  <2>1. TypeOK'
    BY BoundsAssumption DEF TypeOK, Wants
  <2>2. OneJob' /\ Attempts' /\ Results'
    BY JobsUntouched DEF NoMore
  <2>3. Passes' /\ StampsHold' /\ NothingHalf'
    BY DEF Passes, Failed, StampsHold, NothingHalf
  <2> QED
    BY <2>1, <2>2, <2>3
<1>2. ASSUME IInv, RequestDeletion PROVE IInv'
  <2> USE <1>2 DEF IInv, RequestDeletion, machine, manager, loop, history, counts
  <2>1. TypeOK'
    BY DEF TypeOK
  <2>2. OneJob' /\ Attempts' /\ Results'
    BY JobsUntouched DEF NoMore
  <2>3. Passes' /\ StampsHold' /\ NothingHalf'
    BY DEF Passes, Failed, StampsHold, NothingHalf
  <2> QED
    BY <2>1, <2>2, <2>3
<1>3. ASSUME IInv, RestoreMove PROVE IInv'
  <2> USE <1>3 DEF IInv, RestoreMove, backend, loop, counts
  <2>1. PICK t \in toMove : Overwrite(t, "own") /\ toMove' = toMove \ {t}
    OBVIOUS
  <2>2. t \in Targets
    BY TargetsAssumption DEF TypeOK
  <2>3. /\ disk' \in [Targets -> Data] /\ verified' \in [Models -> Versions \cup {"none"}]
        /\ raced' \subseteq Targets /\ StampsHold' /\ NothingHalf'
    BY <2>1, <2>2, OverwriteKeeps
  <2>4. TypeOK'
    BY <2>1, <2>3 DEF TypeOK
  <2>5. OneJob' /\ Attempts' /\ Results'
    BY JobsUntouched DEF NoMore
  <2>6. Passes'
    BY DEF Passes, Failed
  <2> QED
    BY <2>3, <2>4, <2>5, <2>6
<1>4. ASSUME IInv, Edit PROVE IInv'
  <2> USE <1>4 DEF IInv, Edit, backend, loop
  <2>1. PICK t \in Targets, d \in {"own", "none"} : Overwrite(t, d)
    OBVIOUS
  <2>2. /\ disk' \in [Targets -> Data] /\ verified' \in [Models -> Versions \cup {"none"}]
        /\ raced' \subseteq Targets /\ StampsHold' /\ NothingHalf'
    BY <2>1, OverwriteKeeps
  <2>3. TypeOK'
    BY <2>2, BoundsAssumption DEF TypeOK
  <2>4. OneJob' /\ Attempts' /\ Results'
    BY JobsUntouched DEF NoMore
  <2>5. Passes'
    BY DEF Passes, Failed
  <2> QED
    BY <2>2, <2>3, <2>4, <2>5
<1> QED
  BY <1>1, <1>2, <1>3, <1>4

-----------------------------------------------------------------------------
(* The job.                                                                 *)

JobRecords == [pc : JobPcs, spec : Wants, dead : BOOLEAN, todo : SUBSET Targets,
               miss : SUBSET Targets, bad : BOOLEAN]

\* The job at work is the current one, its targets have versions, and it has one in hand
\* while it fetches.
LEMMA AtWork ==
  ASSUME TypeOK, OneJob, NEW s \in Slots, jobs[s].pc # "over"
  PROVE  /\ s = cur /\ \A o \in Slots \ {s} : jobs[o].pc = "over"
         /\ jobs[s] \in JobRecords /\ OnSpec(s) /\ Accounted(s) /\ Counted(s)
         /\ jobs[s].spec \in Specs /\ DOMAIN jobs[s].spec \subseteq Targets
         /\ \A t \in jobs[s].todo : jobs[s].spec[t] \in Versions
         /\ jobs[s].todo # {} => FirstOf(jobs[s].todo) \in jobs[s].todo
<1>1. s = cur /\ \A o \in Slots \ {s} : jobs[o].pc = "over"
  BY DEF OneJob
<1>2. jobs[s] \in JobRecords
  BY DEF TypeOK, JobRecords
<1>3. OnSpec(s) /\ Accounted(s) /\ Counted(s)
  BY DEF OneJob
<1>4. jobs[s].spec \in Specs /\ jobs[s].todo \subseteq DOMAIN jobs[s].spec
  BY <1>3 DEF OnSpec
<1>5. DOMAIN jobs[s].spec \subseteq Targets /\ \A t \in DOMAIN jobs[s].spec : jobs[s].spec[t] \in Versions
  BY <1>4, TargetsAssumption
<1>6. jobs[s].todo # {} => FirstOf(jobs[s].todo) \in jobs[s].todo
  BY <1>4, <1>5, FirstIsIn
<1> QED
  BY <1>1, <1>2, <1>3, <1>4, <1>5, <1>6

\* A job goes on; the others are over.
LEMMA GoesOn ==
  ASSUME TypeOK, OneJob, NEW s \in Slots, jobs[s].pc # "over", NEW r \in JobRecords, Goes(s, r)
  PROVE  /\ jobs' \in [Slots -> JobRecords] /\ jobs'[s] = r
         /\ \A o \in Slots \ {s} : jobs'[o] = jobs[o] /\ jobs'[o].pc = "over"
<1>1. jobs \in [Slots -> JobRecords]
  BY DEF TypeOK, JobRecords
<1> QED
  BY <1>1, AtWork DEF Goes

\* What is said of the jobs holds after a step if it holds of the one that took it.
LEMMA OneJobKept ==
  ASSUME TypeOK, OneJob, NEW s \in Slots, jobs[s].pc # "over", cur' = cur,
         \A o \in Slots \ {s} : jobs'[o] = jobs[o] /\ jobs'[o].pc = "over",
         OnSpec(s)', Accounted(s)', Counted(s)'
  PROVE  OneJob'
<1>1. s = cur
  BY AtWork
<1>2. ASSUME NEW o \in Slots, o # s PROVE OnSpec(o)' /\ Accounted(o)' /\ Counted(o)'
  BY <1>2 DEF OnSpec, Accounted, Counted, Fetching, Begun
<1> QED
  BY <1>1, <1>2 DEF OneJob

\* A target that is seen in place is met, if the spec asks for it.
LEMMA MeetGrows ==
  ASSUME TypeOK, NEW t \in Targets, NEW v, Meet(t, v)
  PROVE  /\ met' \subseteq Targets /\ met \subseteq met' /\ met' \subseteq met \cup {t}
         /\ key # NoSpec /\ t \in DOMAIN key /\ v = key[t] => t \in met'
BY DEF TypeOK, Meet

\* A failed fetch is counted, and given up when it was the last attempt.
LEMMA FailCounts ==
  ASSUME TypeOK, Attempts, NEW t \in Targets, t \notin given, NEW final \in BOOLEAN, Fail(t, final),
         unplaced' = unplaced
  PROVE  /\ tries' \in [Targets -> 0..FetchAttempts] /\ tries'[t] = tries[t] + 1
         /\ \A x \in Targets : tries'[x] = FetchAttempts => x \in given'
         /\ given \subseteq given' /\ given' \subseteq given \cup {t}
         /\ Failed' = Failed \cup {t}
         /\ \A x \in Targets \ {t} : tries'[x] = tries[x]
<1>1. /\ FetchAttempts \in Nat \ {0} /\ tries \in [Targets -> 0..FetchAttempts]
      /\ tries[t] \in 0..FetchAttempts /\ tries[t] # FetchAttempts
  BY BoundsAssumption DEF TypeOK, Attempts
<1>2. tries' = [tries EXCEPT ![t] = tries[t] + 1]
  BY DEF Fail
<1>3. tries[t] + 1 \in 0..FetchAttempts /\ tries[t] + 1 > 0
  BY <1>1
<1>4. tries' \in [Targets -> 0..FetchAttempts] /\ tries'[t] = tries[t] + 1
      /\ \A x \in Targets \ {t} : tries'[x] = tries[x]
  BY <1>1, <1>2, <1>3
<1>5. given \subseteq given' /\ given' \subseteq given \cup {t}
  BY DEF Fail
<1>6. tries[t] + 1 = FetchAttempts => t \in given'
  BY <1>1 DEF Fail
<1>7. \A x \in Targets : tries'[x] = FetchAttempts => x \in given'
  BY <1>4, <1>5, <1>6 DEF Attempts
<1>8. Failed' = Failed \cup {t}
  <2>1. {x \in Targets : tries'[x] > 0} = {x \in Targets : tries[x] > 0} \cup {t}
    BY <1>3, <1>4
  <2> QED
    BY <2>1 DEF Failed
<1> QED
  BY <1>4, <1>5, <1>7, <1>8

\* A step of a job that is not at a clone leaves nothing half behind.
LEMMA NothingHalfKept ==
  ASSUME NothingHalf, NEW s \in Slots, jobs[s].pc # "clone", UNCHANGED <<disk, torn>>,
         \A o \in Slots \ {s} : jobs'[o] = jobs[o]
  PROVE  NothingHalf'
BY DEF NothingHalf

\* plan looks at a target.
LEMMA LookKeeps == ASSUME IInv, NEW s \in Slots, Look(s) PROVE IInv'
<1> USE DEF IInv, Look, backend, machine, loop, counts
<1> DEFINE j == jobs[s]
           t == FirstOf(j.todo)
           v == j.spec[t]
           here == [j EXCEPT !.todo = j.todo \ {t}]
           away == [j EXCEPT !.todo = j.todo \ {t}, !.miss = j.miss \cup {t}]
<1>1. /\ s = cur /\ j \in JobRecords /\ OnSpec(s) /\ Accounted(s) /\ Counted(s)
      /\ t \in j.todo /\ t \in Targets /\ v \in Versions /\ j.pc = "plan"
  <2>1. j.pc # "over" /\ j.todo # {} /\ j.pc = "plan"
    OBVIOUS
  <2>2. /\ s = cur /\ j \in JobRecords /\ OnSpec(s) /\ Accounted(s) /\ Counted(s)
        /\ t \in j.todo /\ v \in Versions
    BY <2>1, AtWork
  <2> QED
    BY <2>1, <2>2 DEF JobRecords
<1>2. here \in JobRecords /\ away \in JobRecords
  BY <1>1 DEF JobRecords
<1>3. CASE Present(t, v)
  <2>1. Goes(s, here) /\ Meet(t, v) /\ verified' = [x \in Models |-> IF x = t THEN v ELSE verified[x]]
    BY <1>3
  <2>2. /\ jobs' \in [Slots -> JobRecords] /\ jobs'[s] = here
        /\ \A o \in Slots \ {s} : jobs'[o] = jobs[o] /\ jobs'[o].pc = "over"
    BY <1>1, <1>2, <2>1, GoesOn
  <2>3. /\ met' \subseteq Targets /\ met \subseteq met'
        /\ key # NoSpec /\ t \in DOMAIN key /\ v = key[t] => t \in met'
    BY <1>1, <2>1, MeetGrows
  <2>4. TypeOK'
    BY <1>1, <2>1, <2>2, <2>3 DEF TypeOK, JobRecords
  <2>5. jobs'[s].pc = "plan" /\ jobs'[s].todo = j.todo \ {t} /\ jobs'[s].miss = j.miss
        /\ jobs'[s].spec = j.spec /\ jobs'[s].dead = j.dead
    BY <1>1, <2>2 DEF JobRecords
  <2>6. OnSpec(s)'
    BY <1>1, <2>5 DEF OnSpec, Fetching
  <2>7. Accounted(s)'
    BY <1>1, <2>3, <2>5 DEF Accounted, Fetching, OnSpec
  <2>8. Counted(s)'
    BY <1>1, <2>5 DEF Counted, Fetching, Begun, NoMore, Behind
  <2>9. OneJob'
    BY <1>1, <2>2, <2>6, <2>7, <2>8, OneJobKept
  <2>10. Attempts'
    BY <2>5 DEF Attempts, RetriesEnd
  <2>11. Passes' /\ Results'
    BY <2>3 DEF Passes, Results, Failed
  <2>12. StampsHold'
    BY <1>1, <1>3, <2>1 DEF StampsHold, Present, TypeOK
  <2>13. NothingHalf'
    BY <1>1, <2>2, NothingHalfKept
  <2> QED
    BY <2>4, <2>9, <2>10, <2>11, <2>12, <2>13
<1>4. CASE ~Present(t, v)
  <2>1. Goes(s, away) /\ UNCHANGED <<met, verified>>
    BY <1>4
  <2>2. /\ jobs' \in [Slots -> JobRecords] /\ jobs'[s] = away
        /\ \A o \in Slots \ {s} : jobs'[o] = jobs[o] /\ jobs'[o].pc = "over"
    BY <1>1, <1>2, <2>1, GoesOn
  <2>4. TypeOK'
    BY <1>1, <2>1, <2>2 DEF TypeOK, JobRecords
  <2>5. jobs'[s].pc = "plan" /\ jobs'[s].todo = j.todo \ {t} /\ jobs'[s].miss = j.miss \cup {t}
        /\ jobs'[s].spec = j.spec /\ jobs'[s].dead = j.dead
    BY <1>1, <2>2 DEF JobRecords
  <2>6. OnSpec(s)'
    BY <1>1, <2>5 DEF OnSpec, Fetching
  <2>7. Accounted(s)'
    BY <1>1, <2>1, <2>5 DEF Accounted, Fetching
  <2>8. Counted(s)'
    BY <1>1, <2>5 DEF Counted, Fetching, Begun, NoMore, Behind
  <2>9. OneJob'
    BY <1>1, <2>2, <2>6, <2>7, <2>8, OneJobKept
  <2>10. Attempts'
    BY <2>5 DEF Attempts, RetriesEnd
  <2>11. Passes' /\ Results' /\ StampsHold'
    BY <2>1 DEF Passes, Results, Failed, StampsHold
  <2>12. NothingHalf'
    BY <1>1, <2>2, NothingHalfKept
  <2> QED
    BY <2>4, <2>9, <2>10, <2>11, <2>12
<1> QED
  BY <1>3, <1>4

\* A pass that has no workspace leaves all its targets unplaced.
LEMMA NoWorkspaceKeeps == ASSUME IInv, NEW s \in Slots, NoWorkspace(s) PROVE IInv'
<1> USE DEF IInv, NoWorkspace, backend, machine, manager, loop, counts
<1> DEFINE j == jobs[s]
           r == [j EXCEPT !.pc = "finish", !.todo = {}, !.bad = TRUE]
<1>1. /\ s = cur /\ j \in JobRecords /\ OnSpec(s) /\ Accounted(s) /\ Counted(s)
      /\ j.pc = "plan" /\ j.spec \in Specs /\ unplaced' \subseteq Targets
      /\ j.miss = {} /\ unplaced' = DOMAIN j.spec
  <2>1. j.pc # "over" /\ j.pc = "plan"
    OBVIOUS
  <2>2. /\ s = cur /\ j \in JobRecords /\ OnSpec(s) /\ Accounted(s) /\ Counted(s)
        /\ j.spec \in Specs /\ DOMAIN j.spec \subseteq Targets
    BY <2>1, AtWork
  <2> QED
    BY <2>1, <2>2
<1>2. /\ r \in JobRecords /\ r.pc = "finish" /\ r.spec = j.spec /\ r.todo = {} /\ r.miss = {}
      /\ r.dead = j.dead /\ r.bad
  BY <1>1 DEF JobRecords, JobPcs
<1>3. Goes(s, IF j.dead THEN Over ELSE r)
  OBVIOUS
<1> HIDE DEF r
<1>4. key # NoSpec => DOMAIN key \subseteq Failed'
  BY <1>1 DEF OnSpec, Failed
<1>5. Passes' /\ Results' /\ StampsHold'
  BY <1>4 DEF Passes, Results, StampsHold
<1>6. CASE j.dead
  <2>1. /\ jobs' \in [Slots -> JobRecords] /\ jobs'[s] = Over
        /\ \A o \in Slots \ {s} : jobs'[o] = jobs[o] /\ jobs'[o].pc = "over"
        /\ Over.pc = "over"
    <3>1. Over \in JobRecords /\ Over.pc = "over"
      BY DEF Over, JobRecords, JobPcs, Wants
    <3> QED
      BY <1>1, <1>3, <1>6, <3>1, GoesOn
  <2>2. OneJob'
    <3>1. OnSpec(s)' /\ Accounted(s)' /\ Counted(s)'
      BY <2>1 DEF OnSpec, Accounted, Counted, Fetching, Begun
    <3> QED
      BY <1>1, <2>1, <3>1, OneJobKept
  <2>3. Attempts'
    BY <1>1, <1>6 DEF Attempts, RetriesEnd, Counted, NoMore, Behind
  <2>4. TypeOK'
    BY <1>1, <2>1 DEF TypeOK, JobRecords
  <2>5. NothingHalf'
    BY <1>1, <2>1, NothingHalfKept
  <2> QED
    BY <1>5, <2>2, <2>3, <2>4, <2>5
<1>7. CASE ~j.dead
  <2>1. /\ jobs' \in [Slots -> JobRecords] /\ jobs'[s] = r
        /\ \A o \in Slots \ {s} : jobs'[o] = jobs[o] /\ jobs'[o].pc = "over"
    BY <1>1, <1>2, <1>3, <1>7, GoesOn
  <2>2. OnSpec(s)'
    BY <1>1, <1>2, <2>1 DEF OnSpec, Fetching
  <2>3. Accounted(s)'
    BY <1>2, <1>4, <2>1 DEF Accounted, Fetching
  <2>4. Counted(s)'
    BY <1>1, <1>2, <1>7, <2>1 DEF Counted, Fetching, Begun, NoMore, Behind
  <2>5. OneJob'
    BY <1>1, <2>1, <2>2, <2>3, <2>4, OneJobKept
  <2>6. Attempts'
    BY <1>2, <2>1 DEF Attempts, RetriesEnd
  <2>7. TypeOK'
    BY <1>1, <2>1 DEF TypeOK, JobRecords
  <2>8. NothingHalf'
    BY <1>1, <2>1, NothingHalfKept
  <2> QED
    BY <1>5, <2>5, <2>6, <2>7, <2>8
<1> QED
  BY <1>6, <1>7

\* The head of pass: what is missing and not held back is to be fetched.
LEMMA QueueKeeps == ASSUME IInv, NEW s \in Slots, Queue(s) PROVE IInv'
<1> USE DEF IInv, Queue, backend, machine, loop, history, counts
<1> DEFINE j == jobs[s]
<1>1. /\ s = cur /\ j \in JobRecords /\ OnSpec(s) /\ Accounted(s) /\ Counted(s)
      /\ j.pc = "plan" /\ j.todo = {} /\ j.miss \subseteq Targets
  BY AtWork DEF JobRecords
<1>2. ASSUME NEW r \in JobRecords, Goes(s, r), UNCHANGED settled, UNCHANGED observed,
             r.pc = "over" => j.dead,
             r.pc # "over" => /\ r.pc = "finish" /\ r.spec = j.spec /\ r.todo = {} /\ r.miss = {}
                              /\ ~j.dead /\ ~r.dead /\ j.miss \subseteq Failed
                              /\ (~r.bad => j.miss = {})
      PROVE  IInv'
  <2>1. /\ jobs' \in [Slots -> JobRecords] /\ jobs'[s] = r
        /\ \A o \in Slots \ {s} : jobs'[o] = jobs[o] /\ jobs'[o].pc = "over"
    BY <1>1, <1>2, GoesOn
  <2>2. TypeOK'
    BY <1>2, <2>1 DEF TypeOK, JobRecords
  <2>3. OnSpec(s)'
    BY <1>1, <1>2, <2>1 DEF OnSpec, Fetching
  <2>4. Accounted(s)'
    BY <1>1, <1>2, <2>1 DEF Accounted, Fetching, Failed
  <2>5. Counted(s)'
    BY <1>1, <1>2, <2>1 DEF Counted, Fetching, Begun, NoMore, Behind
  <2>6. OneJob'
    BY <1>1, <2>1, <2>3, <2>4, <2>5, OneJobKept
  <2>7. Attempts'
    BY <1>1, <1>2, <2>1 DEF Attempts, RetriesEnd, Counted, NoMore, Behind
  <2>8. Passes' /\ Results' /\ StampsHold'
    BY <1>2 DEF Passes, Results, Failed, StampsHold
  <2>9. NothingHalf'
    BY <1>1, <2>1, NothingHalfKept
  <2> QED
    BY <2>2, <2>6, <2>7, <2>8, <2>9
<1>3. CASE j.dead /\ Goes(s, Over) /\ UNCHANGED <<settled, observed>>
  <2>1. Over \in JobRecords /\ Over.pc = "over"
    BY DEF Over, JobRecords, JobPcs, Wants
  <2>2. Goes(s, Over) /\ UNCHANGED settled /\ UNCHANGED observed /\ j.dead
    BY <1>3
  <2> HIDE DEF IInv, Queue
  <2> QED
    BY <1>2, <2>1, <2>2
<1>4. ASSUME NEW held \in MayBeHeld(j.miss), NEW refused \in Refused(j), ~j.dead, j.miss = held,
             UNCHANGED <<settled, observed>>,
             Goes(s, [j EXCEPT !.pc = "finish", !.miss = {}, !.bad = refused \/ held # {}])
      PROVE  IInv'
  <2> DEFINE bad == refused \/ held # {}
             r == [j EXCEPT !.pc = "finish", !.miss = {}, !.bad = bad]
  <2>0. bad \in BOOLEAN /\ (~bad => held = {})
    BY DEF Refused
  <2> HIDE DEF bad
  <2>1. r \in JobRecords /\ r.pc = "finish" /\ r.spec = j.spec /\ r.todo = {} /\ r.miss = {}
        /\ r.dead = j.dead /\ r.bad = bad
    BY <1>1, <2>0 DEF JobRecords, JobPcs
  <2>2. j.miss \subseteq Failed
    BY <1>1, <1>4 DEF MayBeHeld, Failed
  <2> HIDE DEF r
  <2>3. Goes(s, r)
    BY <1>4 DEF r, bad
  <2> QED
    BY <1>2, <1>4, <2>0, <2>1, <2>2, <2>3
<1>5. ASSUME NEW held \in MayBeHeld(j.miss), NEW refused \in Refused(j), ~j.dead, j.miss # held,
             Goes(s, [j EXCEPT !.pc = "fetch", !.miss = {}, !.todo = j.miss \ held,
                               !.bad = refused \/ held # {}]),
             settled' = FALSE, observed' = "downloading"
      PROVE  IInv'
  <2> DEFINE bad == refused \/ held # {}
             r == [j EXCEPT !.pc = "fetch", !.miss = {}, !.todo = j.miss \ held, !.bad = bad]
  <2>0. bad \in BOOLEAN /\ (~bad => held = {})
    BY DEF Refused
  <2> HIDE DEF bad
  <2>1. r \in JobRecords /\ r.pc = "fetch" /\ r.spec = j.spec /\ r.todo = j.miss \ held
        /\ r.miss = {} /\ r.dead = j.dead /\ r.bad = bad
    BY <1>1, <2>0 DEF JobRecords, JobPcs
  <2>2. held \subseteq j.miss /\ held \subseteq Failed /\ given \cap j.miss \subseteq held
    BY <1>1 DEF MayBeHeld, Failed
  <2> HIDE DEF r
  <2>3. /\ jobs' \in [Slots -> JobRecords] /\ jobs'[s] = r
        /\ \A o \in Slots \ {s} : jobs'[o] = jobs[o] /\ jobs'[o].pc = "over"
    BY <1>1, <1>5, <2>1, GoesOn DEF r, bad
  <2>4. TypeOK'
    BY <1>5, <2>3 DEF TypeOK, JobRecords
  <2>5. OnSpec(s)'
    BY <1>1, <1>5, <2>1, <2>2, <2>3 DEF OnSpec, Fetching
  <2>6. Accounted(s)'
    BY <1>1, <1>5, <2>0, <2>1, <2>2, <2>3 DEF Accounted, Fetching, Failed
  <2>7. Counted(s)'
    BY <1>1, <1>5, <2>1, <2>2, <2>3 DEF Counted, Fetching, Begun, NoMore, Behind
  <2>8. OneJob'
    BY <1>1, <2>3, <2>5, <2>6, <2>7, OneJobKept
  <2>9. Attempts'
    BY <1>1, <2>1, <2>3 DEF Attempts, RetriesEnd
  <2>10. Passes' /\ Results' /\ StampsHold'
    BY <1>5 DEF Passes, Results, Failed, StampsHold
  <2>11. NothingHalf'
    BY <1>1, <2>3, NothingHalfKept
  <2> QED
    BY <2>4, <2>8, <2>9, <2>10, <2>11
<1> QED
  BY <1>3, <1>4, <1>5

\* A fetch that fails is counted, or ends a job that was cancelled.
LEMMA FailedFetch ==
  ASSUME TypeOK, OneJob, Attempts, Passes, Results, NEW s \in Slots,
         jobs[s].pc \in {"fetch", "fill", "clone"},
         NEW t, t = FirstOf(jobs[s].todo), NEW final \in BOOLEAN, FetchFailed(s, t, final),
         begun' \in [Targets -> Nat], \A x \in Targets \ {t} : begun'[x] = begun[x],
         begun'[t] <= FetchAttempts, begun'[t] <= tries[t] + 1,
         UNCHANGED <<key, cur, settled, observed, met, unplaced, alive, mpc, mspec>>
  PROVE  /\ jobs' \in [Slots -> JobRecords] /\ tries' \in [Targets -> 0..FetchAttempts]
         /\ given' \subseteq Targets
         /\ OneJob' /\ Attempts' /\ Passes' /\ Results'
         /\ \A o \in Slots \ {s} : jobs'[o] = jobs[o]
         /\ jobs'[s].pc # "clone"
<1> DEFINE j == jobs[s]
<1>1. j.pc # "over" /\ j.pc \in Fetching
  BY DEF Fetching
<1>2. /\ s = cur /\ j \in JobRecords /\ OnSpec(s) /\ Accounted(s) /\ Counted(s)
      /\ j.todo # {} => t \in j.todo
      /\ \A o \in Slots \ {s} : jobs[o].pc = "over"
  BY <1>1, AtWork
<1>3. t \in j.todo /\ t \in Targets /\ t \notin given
  BY <1>1, <1>2 DEF OnSpec, Counted, JobRecords
<1>4. tries \in [Targets -> 0..FetchAttempts] /\ begun \in [Targets -> Nat] /\ FetchAttempts \in Nat
  BY BoundsAssumption DEF TypeOK
<1>5. \A x \in Targets \ {t} : begun[x] <= tries[x]
  <2>1. Behind \subseteq {t}
    BY <1>2 DEF Counted, Begun
  <2> QED
    BY <1>4, <2>1 DEF Behind
<1>6. RetriesEnd'
  BY <1>3 DEF Attempts, RetriesEnd
<1>7. CASE j.dead /\ Goes(s, Over) /\ UNCHANGED <<tries, given>>
  <2>1. Over \in JobRecords /\ Over.pc = "over"
    BY DEF Over, JobRecords, JobPcs, Wants
  <2>2. /\ jobs' \in [Slots -> JobRecords] /\ jobs'[s] = Over
        /\ \A o \in Slots \ {s} : jobs'[o] = jobs[o] /\ jobs'[o].pc = "over"
    BY <1>1, <1>7, <2>1, GoesOn
  <2>3. OnSpec(s)' /\ Accounted(s)' /\ Counted(s)'
    BY <2>1, <2>2 DEF OnSpec, Accounted, Counted, Fetching, Begun
  <2>4. OneJob'
    BY <1>1, <2>2, <2>3, OneJobKept
  <2>5. NoMore'
    BY <1>1, <1>2, <1>7 DEF Counted, NoMore
  <2>6. Attempts'
    BY <1>6, <1>7, <2>5 DEF Attempts
  <2>7. Passes' /\ Results'
    BY <1>7 DEF Passes, Results, Failed
  <2>8. tries' \in [Targets -> 0..FetchAttempts] /\ given' \subseteq Targets
    BY <1>7 DEF TypeOK
  <2> QED
    BY <2>1, <2>2, <2>4, <2>6, <2>7, <2>8
<1>8. CASE ~j.dead /\ Fail(t, final) /\ Goes(s, [Without(j, t) EXCEPT !.bad = TRUE])
  <2> DEFINE r == [Without(j, t) EXCEPT !.bad = TRUE]
  <2>1. /\ r \in JobRecords /\ r.pc = (IF j.todo = {t} THEN "finish" ELSE "fetch")
        /\ r.todo = j.todo \ {t} /\ r.spec = j.spec /\ r.miss = j.miss /\ r.dead = j.dead /\ r.bad
    BY <1>2 DEF JobRecords, JobPcs, Without
  <2>2. Goes(s, r)
    BY <1>8
  <2> HIDE DEF r
  <2>3. /\ jobs' \in [Slots -> JobRecords] /\ jobs'[s] = r
        /\ \A o \in Slots \ {s} : jobs'[o] = jobs[o] /\ jobs'[o].pc = "over"
    BY <1>1, <2>1, <2>2, GoesOn
  <2>4. /\ tries' \in [Targets -> 0..FetchAttempts] /\ tries'[t] = tries[t] + 1
        /\ \A x \in Targets : tries'[x] = FetchAttempts => x \in given'
        /\ given' \subseteq given \cup {t}
        /\ Failed' = Failed \cup {t}
        /\ \A x \in Targets \ {t} : tries'[x] = tries[x]
    BY <1>3, <1>8, FailCounts
  <2>5. Failed' = Failed \cup {t}
    BY <2>4
  <2>6. Behind' = {}
    BY <1>3, <1>4, <1>5, <2>4 DEF Behind
  <2>7. OnSpec(s)'
    BY <1>1, <1>2, <2>1, <2>3 DEF OnSpec, Fetching
  <2>8. Accounted(s)'
    BY <1>1, <1>2, <2>1, <2>3, <2>5 DEF Accounted, Fetching
  <2>9. Counted(s)'
    BY <1>1, <1>2, <1>8, <2>1, <2>3, <2>4, <2>6 DEF Counted, Fetching, Begun
  <2>10. OneJob'
    BY <1>1, <2>3, <2>7, <2>8, <2>9, OneJobKept
  <2>11. Attempts'
    BY <1>6, <2>4, <2>6 DEF Attempts
  <2>12. Passes' /\ Results'
    BY <2>5 DEF Passes, Results
  <2>13. given' \subseteq Targets /\ jobs'[s].pc # "clone"
    BY <1>3, <2>1, <2>3, <2>4 DEF TypeOK
  <2> QED
    BY <2>3, <2>4, <2>10, <2>11, <2>12, <2>13
<1> QED
  BY <1>7, <1>8 DEF FetchFailed

\* What a job that fetches has first on its list.
LEMMA InHand ==
  ASSUME TypeOK, OneJob, Attempts, NEW s \in Slots, jobs[s].pc \in Fetching,
         NEW t, t = FirstOf(jobs[s].todo)
  PROVE  /\ jobs[s].pc # "over" /\ s = cur /\ jobs[s] \in JobRecords
         /\ OnSpec(s) /\ Accounted(s) /\ Counted(s)
         /\ \A o \in Slots \ {s} : jobs[o].pc = "over"
         /\ t \in jobs[s].todo /\ t \in Targets /\ jobs[s].spec[t] \in Versions
         /\ tries[t] \in Nat /\ tries[t] + 1 <= FetchAttempts
         /\ key # NoSpec => t \in DOMAIN key /\ jobs[s].spec[t] = key[t]
<1>1. jobs[s].pc # "over"
  BY DEF Fetching
<1>2. /\ s = cur /\ jobs[s] \in JobRecords /\ OnSpec(s) /\ Accounted(s) /\ Counted(s)
      /\ \A o \in Slots \ {s} : jobs[o].pc = "over"
  BY <1>1, AtWork
<1>3. jobs[s].todo # {}
  BY <1>1, <1>2 DEF OnSpec
<1>4. t \in jobs[s].todo /\ t \in Targets /\ jobs[s].spec[t] \in Versions
  BY <1>1, <1>2, <1>3, AtWork DEF JobRecords
<1>5. t \notin given
  BY <1>2, <1>4 DEF Counted
<1>6. tries[t] \in Nat /\ tries[t] + 1 <= FetchAttempts
  BY <1>4, <1>5, BoundsAssumption DEF TypeOK, Attempts
<1>7. key # NoSpec => t \in DOMAIN key /\ jobs[s].spec[t] = key[t]
  BY <1>1, <1>2, <1>4 DEF OnSpec
<1> QED
  BY <1>1, <1>2, <1>4, <1>6, <1>7

\* A fetch is begun: a file beside its target, a clone, or the removal of a folder.
LEMMA BeginKeeps == ASSUME IInv, NEW s \in Slots, Begin(s) PROVE IInv'
<1> USE DEF IInv, Begin, backend, loop, counts
<1> DEFINE j == jobs[s]
           t == FirstOf(j.todo)
<1>1. j.pc = "fetch" /\ j.pc \in Fetching
  BY DEF Fetching
<1>2. /\ s = cur /\ j \in JobRecords /\ OnSpec(s) /\ Accounted(s) /\ Counted(s)
      /\ t \in j.todo /\ t \in Targets /\ tries[t] \in Nat /\ tries[t] + 1 <= FetchAttempts
  BY <1>1, InHand
<1>3. begun' = [begun EXCEPT ![t] = begun[t] + 1] /\ begun \in [Targets -> Nat]
  BY DEF TypeOK
<1>4. Behind = {}
  BY <1>1, <1>2 DEF Counted
<1>5. FetchAttempts \in Nat /\ begun[t] <= tries[t] /\ tries \in [Targets -> 0..FetchAttempts]
  BY <1>2, <1>3, <1>4, BoundsAssumption DEF Behind, TypeOK
<1>6. /\ begun' \in [Targets -> Nat] /\ \A x \in Targets \ {t} : begun'[x] = begun[x]
      /\ begun'[t] <= FetchAttempts /\ begun'[t] <= tries[t] + 1
  BY <1>2, <1>3, <1>5
<1>7. RetriesEnd'
  BY <1>6 DEF RetriesEnd, Attempts
<1>8. UNCHANGED tries => Behind' \subseteq {t}
  BY <1>4, <1>6 DEF Behind
<1>9. ASSUME NEW p \in {"fill", "clone"}, Goes(s, [j EXCEPT !.pc = p]), UNCHANGED <<tries, given>>,
             p = "clone" => t \in Repos
      PROVE  /\ jobs' \in [Slots -> JobRecords] /\ OneJob' /\ Attempts' /\ Passes' /\ Results'
             /\ \A o \in Slots \ {s} : jobs'[o] = jobs[o]
             /\ jobs'[s].pc = p /\ jobs'[s].todo = j.todo
  <2> DEFINE r == [j EXCEPT !.pc = p]
  <2>1. /\ r \in JobRecords /\ r.pc = p /\ r.spec = j.spec /\ r.todo = j.todo /\ r.miss = j.miss
        /\ r.dead = j.dead /\ r.bad = j.bad
    BY <1>2 DEF JobRecords, JobPcs
  <2>2. Goes(s, r)
    BY <1>9
  <2> HIDE DEF r
  <2>3. /\ jobs' \in [Slots -> JobRecords] /\ jobs'[s] = r
        /\ \A o \in Slots \ {s} : jobs'[o] = jobs[o] /\ jobs'[o].pc = "over"
    BY <1>1, <2>1, <2>2, GoesOn
  <2>4. OnSpec(s)'
    BY <1>1, <1>2, <1>9, <2>1, <2>3 DEF OnSpec, Fetching
  <2>5. Accounted(s)'
    BY <1>1, <1>2, <1>9, <2>1, <2>3 DEF Accounted, Fetching, Failed
  <2>6. FirstOf(jobs'[s].todo) = t
    BY <2>1, <2>3
  <2>7. Counted(s)'
    <3>1. jobs'[s].pc \in {"fill", "clone"} /\ jobs'[s].todo \cap given' = {}
      BY <1>1, <1>2, <1>9, <2>1, <2>3 DEF Counted
    <3>2. Behind' \subseteq {FirstOf(jobs'[s].todo)}
      BY <1>8, <1>9, <2>6
    <3>3. begun'[FirstOf(jobs'[s].todo)] <= tries'[FirstOf(jobs'[s].todo)] + 1
      BY <1>6, <1>9, <2>6
    <3>4. jobs'[s].dead => NoMore'
      BY <1>1, <1>2, <2>1, <2>3 DEF Counted, NoMore
    <3> QED
      BY <3>1, <3>2, <3>3, <3>4 DEF Counted, Begun
  <2>8. OneJob'
    BY <1>1, <2>3, <2>4, <2>5, <2>7, OneJobKept
  <2>9. Attempts'
    BY <1>7, <1>9, <2>1, <2>3 DEF Attempts
  <2>10. Passes' /\ Results'
    BY <1>9 DEF Passes, Results, Failed
  <2> QED
    BY <2>1, <2>3, <2>8, <2>9, <2>10
<1>10. CASE t \notin Repos /\ Goes(s, [j EXCEPT !.pc = "fill"]) /\ UNCHANGED <<disk, tries, given>>
  <2>1. /\ jobs' \in [Slots -> JobRecords] /\ OneJob' /\ Attempts' /\ Passes' /\ Results'
        /\ \A o \in Slots \ {s} : jobs'[o] = jobs[o]
    BY <1>9, <1>10
  <2>2. TypeOK'
    BY <1>6, <1>10, <2>1 DEF TypeOK, JobRecords
  <2>3. NothingHalf' /\ StampsHold'
    BY <1>1, <1>10, <2>1, NothingHalfKept DEF StampsHold
  <2> QED
    BY <2>1, <2>2, <2>3
<1>11. CASE /\ t \in Repos /\ disk' = [disk EXCEPT ![t] = "half"]
            /\ Goes(s, [j EXCEPT !.pc = "clone"]) /\ UNCHANGED <<tries, given>>
  <2>1. /\ jobs' \in [Slots -> JobRecords] /\ OneJob' /\ Attempts' /\ Passes' /\ Results'
        /\ \A o \in Slots \ {s} : jobs'[o] = jobs[o]
        /\ jobs'[s].pc = "clone" /\ jobs'[s].todo = j.todo
    BY <1>9, <1>11
  <2>2. disk' \in [Targets -> Data] /\ \A x \in Targets \ {t} : disk'[x] = disk[x]
    BY <1>11 DEF TypeOK, Data
  <2>3. TypeOK'
    BY <1>6, <1>11, <2>1, <2>2 DEF TypeOK, JobRecords
  <2>4. StampsHold'
    BY <1>11, <2>2, TargetsAssumption DEF StampsHold, Targets
  <2>5. NothingHalf'
    BY <1>1, <1>2, <2>1, <2>2 DEF NothingHalf
  <2> QED
    BY <2>1, <2>3, <2>4, <2>5
<1>12. CASE t \in Repos /\ disk' = [disk EXCEPT ![t] = "none"] /\ FetchFailed(s, t, FALSE)
  <2>1. /\ jobs' \in [Slots -> JobRecords] /\ tries' \in [Targets -> 0..FetchAttempts]
        /\ given' \subseteq Targets
        /\ OneJob' /\ Attempts' /\ Passes' /\ Results'
        /\ \A o \in Slots \ {s} : jobs'[o] = jobs[o]
    BY <1>1, <1>6, <1>12, FailedFetch
  <2>2. /\ disk' \in [Targets -> Data] /\ \A x \in Targets \ {t} : disk'[x] = disk[x]
        /\ \A x \in Targets : disk'[x] = "half" => disk[x] = "half"
    <3>1. disk \in [Targets -> Data] /\ disk' = [disk EXCEPT ![t] = "none"]
      BY <1>12 DEF TypeOK
    <3> QED
      BY <1>2, <3>1 DEF Data
  <2>3. TypeOK'
    BY <1>6, <2>1, <2>2 DEF TypeOK, JobRecords
  <2>4. StampsHold'
    BY <1>12, <2>2, TargetsAssumption DEF StampsHold, Targets
  <2>5. ASSUME NEW x \in Targets, disk'[x] = "half", x \notin torn
        PROVE  \E o \in Slots : jobs'[o].pc = "clone" /\ FirstOf(jobs'[o].todo) = x
    <3>1. disk[x] = "half"
      BY <2>2, <2>5
    <3>2. PICK o \in Slots : jobs[o].pc = "clone" /\ FirstOf(jobs[o].todo) = x
      BY <2>5, <3>1 DEF NothingHalf
    <3>3. jobs'[o] = jobs[o]
      BY <1>1, <2>1, <3>2
    <3> QED
      BY <3>2, <3>3
  <2>6. NothingHalf'
    BY <2>5 DEF NothingHalf
  <2> QED
    BY <2>1, <2>3, <2>4, <2>6
<1> QED
  BY <1>10, <1>11, <1>12

\* A fill that fails.
LEMMA FillFailsKeeps == ASSUME IInv, NEW s \in Slots, FillFails(s) PROVE IInv'
<1> USE DEF IInv, FillFails, backend, machine, loop, history, counts
<1> DEFINE t == FirstOf(jobs[s].todo)
<1>1. jobs[s].pc = "fill" /\ jobs[s].pc \in Fetching /\ jobs[s].pc \in Begun
  BY DEF Fetching, Begun
<1>2. PICK final \in BOOLEAN : FetchFailed(s, t, final)
  OBVIOUS
<1>3. t \in Targets /\ Counted(s)
  BY <1>1, InHand
<1>4. /\ begun' \in [Targets -> Nat] /\ \A x \in Targets \ {t} : begun'[x] = begun[x]
      /\ begun'[t] <= FetchAttempts /\ begun'[t] <= tries[t] + 1
  BY <1>1, <1>3 DEF TypeOK, Counted, Attempts, RetriesEnd
<1>5. /\ jobs' \in [Slots -> JobRecords] /\ tries' \in [Targets -> 0..FetchAttempts]
      /\ given' \subseteq Targets
      /\ OneJob' /\ Attempts' /\ Passes' /\ Results'
      /\ \A o \in Slots \ {s} : jobs'[o] = jobs[o]
  BY <1>1, <1>2, <1>4, FailedFetch
<1>6. TypeOK'
  BY <1>5 DEF TypeOK, JobRecords
<1>7. StampsHold' /\ NothingHalf'
  BY <1>1, <1>5, NothingHalfKept DEF StampsHold
<1> QED
  BY <1>5, <1>6, <1>7

\* A job goes on to another step with the same lists.
LEMMA MovesOn ==
  ASSUME TypeOK, OneJob, NEW s \in Slots, jobs[s].pc # "over", NEW p \in JobPcs,
         Goes(s, [jobs[s] EXCEPT !.pc = p])
  PROVE  /\ jobs' \in [Slots -> JobRecords]
         /\ \A o \in Slots \ {s} : jobs'[o] = jobs[o] /\ jobs'[o].pc = "over"
         /\ jobs'[s].pc = p /\ jobs'[s].spec = jobs[s].spec /\ jobs'[s].todo = jobs[s].todo
         /\ jobs'[s].miss = jobs[s].miss /\ jobs'[s].dead = jobs[s].dead
         /\ jobs'[s].bad = jobs[s].bad
<1> DEFINE r == [jobs[s] EXCEPT !.pc = p]
<1>1. jobs[s] \in JobRecords
  BY AtWork
<1>2. /\ r \in JobRecords /\ r.pc = p /\ r.spec = jobs[s].spec /\ r.todo = jobs[s].todo
      /\ r.miss = jobs[s].miss /\ r.dead = jobs[s].dead /\ r.bad = jobs[s].bad
  BY <1>1 DEF JobRecords
<1> HIDE DEF r
<1>3. Goes(s, r)
  BY DEF r
<1> QED
  BY <1>2, <1>3, GoesOn

\* A job ends.
LEMMA JobEnds ==
  ASSUME TypeOK, OneJob, NEW s \in Slots, jobs[s].pc # "over", Goes(s, Over), cur' = cur
  PROVE  /\ jobs' \in [Slots -> JobRecords] /\ OneJob'
         /\ \A o \in Slots \ {s} : jobs'[o] = jobs[o]
<1>1. Over \in JobRecords /\ Over.pc = "over"
  BY DEF Over, JobRecords, JobPcs, Wants
<1>2. /\ jobs' \in [Slots -> JobRecords] /\ jobs'[s] = Over
      /\ \A o \in Slots \ {s} : jobs'[o] = jobs[o] /\ jobs'[o].pc = "over"
  BY <1>1, GoesOn
<1>3. OnSpec(s)' /\ Accounted(s)' /\ Counted(s)'
  BY <1>1, <1>2 DEF OnSpec, Accounted, Counted, Fetching, Begun
<1>4. OneJob'
  BY <1>2, <1>3, OneJobKept
<1> QED
  BY <1>2, <1>4

\* A target is in place: a fetch that is begun goes on to its end.
LEMMA InPlace ==
  ASSUME TypeOK, OneJob, Attempts, Passes, Results, NEW s \in Slots, jobs[s].pc \in {"fill", "clone"},
         NEW t, t = FirstOf(jobs[s].todo), Meet(t, jobs[s].spec[t]),
         NEW p \in {"remember", "next"}, Goes(s, [jobs[s] EXCEPT !.pc = p]),
         UNCHANGED <<key, cur, settled, observed, tries, given, begun, unplaced, alive, mpc,
                     mspec>>
  PROVE  /\ jobs' \in [Slots -> JobRecords] /\ met' \subseteq Targets
         /\ OneJob' /\ Attempts' /\ Passes' /\ Results'
         /\ \A o \in Slots \ {s} : jobs'[o] = jobs[o]
<1> DEFINE j == jobs[s]
<1>1. j.pc \in Fetching /\ j.pc \in Begun /\ p \in JobPcs
  BY DEF Fetching, Begun, JobPcs
<1>2. /\ j.pc # "over" /\ s = cur /\ OnSpec(s) /\ Accounted(s) /\ Counted(s) /\ t \in Targets
      /\ key # NoSpec => t \in DOMAIN key /\ j.spec[t] = key[t]
  BY <1>1, InHand
<1>3. /\ met' \subseteq Targets /\ met \subseteq met'
      /\ key # NoSpec => t \in met'
  BY <1>2, MeetGrows
<1>4. /\ jobs' \in [Slots -> JobRecords]
      /\ \A o \in Slots \ {s} : jobs'[o] = jobs[o] /\ jobs'[o].pc = "over"
      /\ jobs'[s].pc = p /\ jobs'[s].spec = j.spec /\ jobs'[s].todo = j.todo
      /\ jobs'[s].miss = j.miss /\ jobs'[s].dead = j.dead /\ jobs'[s].bad = j.bad
  BY <1>1, <1>2, MovesOn
<1>5. OnSpec(s)'
  BY <1>1, <1>2, <1>4 DEF OnSpec
<1>6. Accounted(s)'
  BY <1>1, <1>2, <1>3, <1>4 DEF Accounted, Fetching, Failed
<1>7. Counted(s)'
  BY <1>1, <1>2, <1>4 DEF Counted, Fetching, Begun, NoMore, Behind
<1>8. OneJob'
  BY <1>2, <1>4, <1>5, <1>6, <1>7, OneJobKept
<1>9. Attempts'
  BY <1>4 DEF Attempts, RetriesEnd
<1>10. Passes' /\ Results'
  BY <1>3 DEF Passes, Results, Failed
<1> QED
  BY <1>3, <1>4, <1>8, <1>9, <1>10

\* The file is renamed to its place.
LEMMA RenameKeeps == ASSUME IInv, NEW s \in Slots, Rename(s) PROVE IInv'
<1> USE DEF IInv, Rename, backend, loop, counts
<1> DEFINE t == FirstOf(jobs[s].todo)
           v == jobs[s].spec[t]
<1>1. jobs[s].pc = "fill" /\ jobs[s].pc \in Fetching
  BY DEF Fetching
<1>2. t \in Targets /\ v \in Versions
  BY <1>1, InHand
<1>3. Overwrite(t, v) /\ Meet(t, v)
  OBVIOUS
<1>4. PICK p \in {"remember", "next"} : Goes(s, [jobs[s] EXCEPT !.pc = p])
  OBVIOUS
<1>5. /\ jobs' \in [Slots -> JobRecords] /\ met' \subseteq Targets
      /\ OneJob' /\ Attempts' /\ Passes' /\ Results'
      /\ \A o \in Slots \ {s} : jobs'[o] = jobs[o]
  BY <1>1, <1>3, <1>4, InPlace
<1>6. /\ disk' \in [Targets -> Data] /\ verified' \in [Models -> Versions \cup {"none"}]
      /\ raced' \subseteq Targets
      /\ \A x \in Targets : disk'[x] = "half" => disk[x] = "half"
  <2>1. disk' \in [Targets -> Data] /\ \A x \in Targets : disk'[x] = "half" => disk[x] = "half"
    BY <1>2, <1>3, TargetsAssumption DEF Overwrite, TypeOK, Data
  <2>2. verified' \in [Models -> Versions \cup {"none"}]
    BY <1>2, <1>3 DEF Overwrite, TypeOK
  <2>3. raced' \subseteq Targets
    BY <1>2, <1>3 DEF Overwrite, TypeOK
  <2> QED
    BY <2>1, <2>2, <2>3
<1>7. TypeOK'
  BY <1>5, <1>6 DEF TypeOK, JobRecords
<1>8. StampsHold'
  BY <1>2, <1>3 DEF Overwrite, StampsHold, TypeOK, Targets
<1>9. NothingHalf'
  BY <1>1, <1>5, <1>6 DEF NothingHalf
<1> QED
  BY <1>5, <1>7, <1>8, <1>9

\* A repository is cloned.
LEMMA ClonedKeeps == ASSUME IInv, NEW s \in Slots, Cloned(s) PROVE IInv'
<1> USE DEF IInv, Cloned, backend, manager, loop, counts
<1> DEFINE t == FirstOf(jobs[s].todo)
           v == jobs[s].spec[t]
<1>1. jobs[s].pc = "clone" /\ jobs[s].pc \in Fetching
  BY DEF Fetching
<1>2. t \in Targets /\ v \in Versions /\ t \in Repos
  BY <1>1, InHand DEF OnSpec
<1>3. disk' = [disk EXCEPT ![t] = v] /\ Meet(t, v) /\ Goes(s, [jobs[s] EXCEPT !.pc = "next"])
  OBVIOUS
<1>4. /\ jobs' \in [Slots -> JobRecords] /\ met' \subseteq Targets
      /\ OneJob' /\ Attempts' /\ Passes' /\ Results'
      /\ \A o \in Slots \ {s} : jobs'[o] = jobs[o]
  BY <1>1, <1>3, InPlace
<1>5. /\ disk' \in [Targets -> Data]
      /\ \A x \in Targets \ {t} : disk'[x] = disk[x]
      /\ disk'[t] # "half"
  BY <1>2, <1>3, TargetsAssumption DEF TypeOK, Data
<1>6. TypeOK'
  BY <1>4, <1>5 DEF TypeOK, JobRecords
<1>7. StampsHold'
  BY <1>2, <1>5, TargetsAssumption DEF StampsHold, Targets
<1>8. NothingHalf'
  BY <1>1, <1>4, <1>5 DEF NothingHalf
<1> QED
  BY <1>4, <1>6, <1>7, <1>8

\* A clone fails, and what it left is removed.
LEMMA CloneFailsKeeps == ASSUME IInv, NEW s \in Slots, CloneFails(s) PROVE IInv'
<1> USE DEF IInv, CloneFails, backend, loop, history, counts
<1> DEFINE t == FirstOf(jobs[s].todo)
<1>1. jobs[s].pc = "clone" /\ jobs[s].pc \in Fetching /\ jobs[s].pc \in Begun
  BY DEF Fetching, Begun
<1>2. t \in Targets /\ Counted(s) /\ t \in Repos
  BY <1>1, InHand DEF OnSpec
<1>3. /\ begun' \in [Targets -> Nat] /\ \A x \in Targets \ {t} : begun'[x] = begun[x]
      /\ begun'[t] <= FetchAttempts /\ begun'[t] <= tries[t] + 1
  BY <1>1, <1>2 DEF TypeOK, Counted, Attempts, RetriesEnd
<1>4. disk' = [disk EXCEPT ![t] = "none"] /\ FetchFailed(s, t, FALSE)
  OBVIOUS
<1>5. /\ jobs' \in [Slots -> JobRecords] /\ tries' \in [Targets -> 0..FetchAttempts]
      /\ given' \subseteq Targets
      /\ OneJob' /\ Attempts' /\ Passes' /\ Results'
      /\ \A o \in Slots \ {s} : jobs'[o] = jobs[o]
  BY <1>1, <1>3, <1>4, FailedFetch
<1>6. /\ disk' \in [Targets -> Data]
      /\ \A x \in Targets \ {t} : disk'[x] = disk[x]
      /\ disk'[t] # "half"
  BY <1>2, <1>4 DEF TypeOK, Data
<1>7. TypeOK'
  BY <1>5, <1>6 DEF TypeOK, JobRecords
<1>8. StampsHold'
  BY <1>2, <1>6, TargetsAssumption DEF StampsHold, Targets
<1>9. NothingHalf'
  BY <1>1, <1>5, <1>6 DEF NothingHalf
<1> QED
  BY <1>5, <1>7, <1>8, <1>9

\* The stamp of a file that was put in place is noted.
LEMMA RememberKeeps == ASSUME IInv, NEW s \in Slots, Remember(s) PROVE IInv'
<1> USE DEF IInv, Remember, backend, machine, loop, counts
<1> DEFINE j == jobs[s]
           t == FirstOf(j.todo)
           v == j.spec[t]
<1>1. j.pc = "remember" /\ j.pc \in Fetching /\ j.pc \in Begun
  BY DEF Fetching, Begun
<1>2. /\ j.pc # "over" /\ OnSpec(s) /\ Accounted(s) /\ Counted(s)
      /\ t \in Targets /\ v \in Versions
  BY <1>1, InHand
<1>3. /\ jobs' \in [Slots -> JobRecords]
      /\ \A o \in Slots \ {s} : jobs'[o] = jobs[o] /\ jobs'[o].pc = "over"
      /\ jobs'[s].pc = "next" /\ jobs'[s].spec = j.spec /\ jobs'[s].todo = j.todo
      /\ jobs'[s].miss = j.miss /\ jobs'[s].dead = j.dead /\ jobs'[s].bad = j.bad
  BY <1>2, MovesOn DEF JobPcs
<1>4. /\ verified' = IF disk[t] = "none" THEN verified ELSE [verified EXCEPT ![t] = v]
      /\ raced' = IF disk[t] \in {"none", v} THEN raced ELSE raced \cup {t}
  OBVIOUS
<1>5. verified' \in [Models -> Versions \cup {"none"}] /\ raced' \subseteq Targets
  BY <1>2, <1>4 DEF TypeOK
<1>6. TypeOK'
  BY <1>3, <1>5 DEF TypeOK, JobRecords
<1>7. OnSpec(s)'
  BY <1>1, <1>2, <1>3 DEF OnSpec
<1>8. Accounted(s)'
  BY <1>1, <1>2, <1>3 DEF Accounted, Fetching, Failed
<1>9. Counted(s)'
  BY <1>1, <1>2, <1>3 DEF Counted, Fetching, Begun, NoMore, Behind
<1>10. OneJob'
  BY <1>2, <1>3, <1>7, <1>8, <1>9, OneJobKept
<1>11. Attempts' /\ Passes' /\ Results'
  BY <1>3 DEF Attempts, RetriesEnd, Passes, Results, Failed
<1>12. StampsHold'
  BY <1>4 DEF StampsHold, TypeOK
<1>13. NothingHalf'
  BY <1>1, <1>3, NothingHalfKept
<1> QED
  BY <1>6, <1>10, <1>11, <1>12, <1>13

\* pass after a fetch that succeeded.
LEMMA FetchedKeeps == ASSUME IInv, NEW s \in Slots, Fetched(s) PROVE IInv'
<1> USE DEF IInv, Fetched, backend, machine, loop, counts
<1> DEFINE j == jobs[s]
           t == FirstOf(j.todo)
<1>1. j.pc = "next" /\ j.pc \in Fetching /\ j.pc \in Begun
  BY DEF Fetching, Begun
<1>2. /\ j.pc # "over" /\ s = cur /\ j \in JobRecords /\ OnSpec(s) /\ Accounted(s) /\ Counted(s)
      /\ t \in Targets /\ t \in j.todo
  BY <1>1, InHand
<1>3. CASE j.dead /\ Goes(s, Over) /\ UNCHANGED <<tries, given, begun>>
  <2>1. /\ jobs' \in [Slots -> JobRecords] /\ OneJob'
        /\ \A o \in Slots \ {s} : jobs'[o] = jobs[o]
    BY <1>2, <1>3, JobEnds
  <2>2. NoMore'
    BY <1>2, <1>3 DEF Counted, NoMore
  <2>3. TypeOK'
    BY <1>3, <2>1 DEF TypeOK, JobRecords
  <2>4. Attempts'
    BY <1>3, <2>2 DEF Attempts, RetriesEnd
  <2>5. Passes' /\ Results' /\ StampsHold'
    BY <1>3 DEF Passes, Results, Failed, StampsHold
  <2>6. NothingHalf'
    BY <1>1, <2>1, NothingHalfKept
  <2> QED
    BY <2>1, <2>3, <2>4, <2>5, <2>6
<1>4. CASE /\ ~j.dead
           /\ tries' = [tries EXCEPT ![t] = 0] /\ given' = given \ {t}
           /\ begun' = [begun EXCEPT ![t] = 0]
           /\ Goes(s, Without(j, t))
  <2> DEFINE r == Without(j, t)
  <2>1. /\ r \in JobRecords /\ r.pc = (IF j.todo = {t} THEN "finish" ELSE "fetch")
        /\ r.todo = j.todo \ {t} /\ r.spec = j.spec /\ r.miss = j.miss /\ r.dead = j.dead
        /\ r.bad = j.bad
    BY <1>2 DEF JobRecords, JobPcs, Without
  <2>2. Goes(s, r)
    BY <1>4
  <2> HIDE DEF r
  <2>3. /\ jobs' \in [Slots -> JobRecords] /\ jobs'[s] = r
        /\ \A o \in Slots \ {s} : jobs'[o] = jobs[o] /\ jobs'[o].pc = "over"
    BY <1>2, <2>1, <2>2, GoesOn
  <2>4. /\ tries \in [Targets -> 0..FetchAttempts] /\ begun \in [Targets -> Nat]
        /\ FetchAttempts \in Nat \ {0}
    BY BoundsAssumption DEF TypeOK
  <2>5. /\ tries' \in [Targets -> 0..FetchAttempts] /\ begun' \in [Targets -> Nat]
        /\ tries'[t] = 0 /\ begun'[t] = 0
        /\ \A x \in Targets \ {t} : tries'[x] = tries[x] /\ begun'[x] = begun[x]
    BY <1>2, <1>4, <2>4
  <2>6. Failed \ {t} \subseteq Failed'
    BY <2>5 DEF Failed
  <2>7. Behind' = {}
    <3>1. \A x \in Targets \ {t} : x \notin Behind
      BY <1>1, <1>2 DEF Counted
    <3>2. \A x \in Targets \ {t} : x \notin Behind'
      BY <2>5, <3>1 DEF Behind
    <3>3. t \notin Behind'
      BY <2>5 DEF Behind
    <3> QED
      BY <3>2, <3>3 DEF Behind
  <2>8. TypeOK'
    BY <1>4, <2>3, <2>5 DEF TypeOK, JobRecords
  <2>9. OnSpec(s)'
    BY <1>1, <1>2, <2>1, <2>3 DEF OnSpec, Fetching
  <2>10. Accounted(s)'
    BY <1>1, <1>2, <2>1, <2>3, <2>6 DEF Accounted, Fetching
  <2>11. Counted(s)'
    BY <1>1, <1>2, <1>4, <2>1, <2>3, <2>7 DEF Counted, Fetching, Begun
  <2>12. OneJob'
    BY <1>2, <2>3, <2>9, <2>10, <2>11, OneJobKept
  <2>13. Attempts'
    <3>1. \A x \in Targets : tries'[x] = FetchAttempts => x \in given'
      BY <1>4, <2>4, <2>5 DEF Attempts
    <3>2. RetriesEnd'
      BY <2>4, <2>5 DEF Attempts, RetriesEnd
    <3> QED
      BY <2>7, <3>1, <3>2 DEF Attempts
  <2>14. Passes' /\ Results'
    BY <1>1, <1>2, <2>6 DEF Passes, Results, Accounted
  <2>15. StampsHold'
    BY DEF StampsHold
  <2>16. NothingHalf'
    BY <1>1, <2>3, NothingHalfKept
  <2> QED
    BY <2>8, <2>12, <2>13, <2>14, <2>15, <2>16
<1> QED
  BY <1>3, <1>4

\* The end of run: the look at the context, and the result.
LEMMA EndKeeps == ASSUME IInv, NEW s \in Slots, Finish(s) \/ Settle(s) PROVE IInv'
<1> USE DEF IInv, backend, machine, loop, history, counts
<1> DEFINE j == jobs[s]
<1>1. /\ j.pc \in {"finish", "settle"} /\ j.pc # "over"
      /\ UNCHANGED <<key, cur, tries, given, alive, mpc, mspec, met, begun, unplaced, disk, torn>>
  BY DEF Finish, Settle, manager
<1>2. OnSpec(s) /\ Accounted(s) /\ Counted(s)
  BY <1>1, AtWork
<1>3. Behind = {}
  BY <1>1, <1>2 DEF Counted
<1>4. ASSUME /\ jobs' \in [Slots -> JobRecords] /\ OneJob'
             /\ \A o \in Slots \ {s} : jobs'[o] = jobs[o]
             /\ settled' \in BOOLEAN /\ observed' \in {"none", "downloading", "ready", "error"}
             /\ UNCHANGED <<want, del, up, toMove, verified, raced, changes, edits, crashes>>,
             Results'
      PROVE  IInv'
  <2>1. TypeOK'
    BY <1>1, <1>4 DEF TypeOK, JobRecords
  <2>2. Attempts'
    BY <1>1, <1>3 DEF Attempts, RetriesEnd, Behind
  <2>3. Passes' /\ StampsHold'
    BY <1>1, <1>4 DEF Passes, Failed, StampsHold
  <2>4. NothingHalf'
    BY <1>1, <1>4, NothingHalfKept
  <2> QED
    BY <1>4, <2>1, <2>2, <2>3, <2>4
<1>5. CASE Finish(s) /\ Goes(s, Over)
  <2>1. /\ jobs' \in [Slots -> JobRecords] /\ OneJob'
        /\ \A o \in Slots \ {s} : jobs'[o] = jobs[o]
    BY <1>1, <1>5, JobEnds
  <2>2. Results'
    BY <1>5 DEF Finish, manager, Results, Failed
  <2>3. UNCHANGED <<settled, observed, want, del, up, toMove, verified, raced, changes, edits, crashes>>
    BY <1>5 DEF Finish, manager
  <2>4. settled' \in BOOLEAN /\ observed' \in {"none", "downloading", "ready", "error"}
    BY <2>3 DEF TypeOK
  <2> QED
    BY <1>4, <2>1, <2>2, <2>3, <2>4
<1>6. CASE Finish(s) /\ Goes(s, [j EXCEPT !.pc = "settle"])
  <2>1. /\ jobs' \in [Slots -> JobRecords]
        /\ \A o \in Slots \ {s} : jobs'[o] = jobs[o] /\ jobs'[o].pc = "over"
        /\ jobs'[s].pc = "settle" /\ jobs'[s].spec = j.spec /\ jobs'[s].todo = j.todo
        /\ jobs'[s].miss = j.miss /\ jobs'[s].dead = j.dead /\ jobs'[s].bad = j.bad
    BY <1>1, <1>6, MovesOn DEF JobPcs
  <2>2. j.pc = "finish" /\ UNCHANGED <<settled, observed, want, del, up, toMove, verified, raced, changes, edits, crashes>>
    BY <1>6 DEF Finish, manager
  <2>3. OnSpec(s)'
    BY <1>1, <1>2, <2>1 DEF OnSpec, Fetching
  <2>4. Accounted(s)'
    BY <1>1, <1>2, <2>1, <2>2 DEF Accounted, Fetching, Failed
  <2>5. Counted(s)'
    BY <1>1, <1>2, <2>1, <2>2 DEF Counted, Fetching, Begun, NoMore, Behind
  <2>6. OneJob'
    BY <1>1, <2>1, <2>3, <2>4, <2>5, OneJobKept
  <2>7. Results'
    BY <1>1, <2>2 DEF Results, Failed
  <2>8. settled' \in BOOLEAN /\ observed' \in {"none", "downloading", "ready", "error"}
    BY <2>2 DEF TypeOK
  <2> QED
    BY <1>4, <2>1, <2>2, <2>6, <2>7, <2>8
<1>7. CASE Settle(s)
  <2>1. /\ jobs' \in [Slots -> JobRecords] /\ OneJob'
        /\ \A o \in Slots \ {s} : jobs'[o] = jobs[o]
    BY <1>1, <1>7, JobEnds DEF Settle
  <2>2. settled' = TRUE /\ observed' = IF j.bad THEN "error" ELSE "ready"
    BY <1>7 DEF Settle
  <2>3. Results'
    BY <1>1, <1>2, <2>2 DEF Results, Accounted, Failed
  <2>4. UNCHANGED <<want, del, up, toMove, verified, raced, changes, edits, crashes>>
    BY <1>7 DEF Settle
  <2> QED
    BY <1>4, <2>1, <2>2, <2>3, <2>4
<1> QED
  BY <1>5, <1>6, <1>7 DEF Finish

\* A step of the job.
LEMMA JobStepKeeps == ASSUME IInv, NEW s \in Slots, JobStep(s) PROVE IInv'
BY NoWorkspaceKeeps, LookKeeps, QueueKeeps, BeginKeeps, FillFailsKeeps, RenameKeeps,
   RememberKeeps, ClonedKeeps, CloneFailsKeeps, FetchedKeeps, EndKeeps
   DEF JobStep

-----------------------------------------------------------------------------
(* The main loop.                                                           *)

\* Cancelling leaves the jobs at their steps, with nothing more to come for the spec.
LEMMA CancelKeeps ==
  ASSUME TypeOK, OneJob, Attempts, NothingHalf, NEW S, jobs' = Cancelled(S), NoMore',
         key' \in {key, NoSpec}, UNCHANGED <<cur, disk, torn, met, unplaced, tries, given, begun>>
  PROVE  jobs' \in [Slots -> JobRecords] /\ OneJob' /\ Attempts' /\ NothingHalf'
<1>1. jobs \in [Slots -> JobRecords]
  BY DEF TypeOK, JobRecords
<1>2. ASSUME NEW s \in Slots
      PROVE  /\ jobs'[s] \in JobRecords /\ jobs'[s].pc = jobs[s].pc /\ jobs'[s].spec = jobs[s].spec
             /\ jobs'[s].todo = jobs[s].todo /\ jobs'[s].miss = jobs[s].miss
             /\ jobs'[s].bad = jobs[s].bad
             /\ jobs[s].dead => jobs'[s].dead
  <2>1. jobs'[s] = jobs[s] \/ jobs'[s] = [jobs[s] EXCEPT !.dead = TRUE]
    BY <1>1 DEF Cancelled
  <2>2. jobs[s] \in JobRecords
    BY <1>1
  <2> QED
    BY <2>1, <2>2 DEF JobRecords
<1>3. jobs' \in [Slots -> JobRecords]
  <2>1. jobs' = [s \in Slots |-> jobs'[s]]
    BY DEF Cancelled
  <2> QED
    BY <1>2, <2>1
<1>4. ASSUME NEW s \in Slots PROVE OnSpec(s)' /\ Accounted(s)' /\ Counted(s)'
  <2>1. OnSpec(s) /\ Accounted(s) /\ Counted(s)
    BY DEF OneJob
  <2>2. OnSpec(s)'
    BY <1>2, <2>1 DEF OnSpec
  <2>3. Accounted(s)'
    BY <1>2, <2>1 DEF Accounted, Failed
  <2>4. Counted(s)'
    BY <1>2, <2>1 DEF Counted, Behind
  <2> QED
    BY <2>2, <2>3, <2>4
<1>5. OneJob'
  BY <1>2, <1>4 DEF OneJob
<1>6. Attempts'
  BY DEF Attempts, RetriesEnd
<1>7. NothingHalf'
  BY <1>2 DEF NothingHalf
<1> QED
  BY <1>3, <1>5, <1>6, <1>7

\* With no job at the current slot none is at work.
LEMMA NoneAtWork ==
  ASSUME TypeOK, OneJob, IsOver(cur)
  PROVE  \A s \in Slots : jobs[s].pc = "over"
BY DEF TypeOK, OneJob, IsOver

\* A job is launched when none is at work.
LEMMA Launched ==
  ASSUME TypeOK, OneJob, IsOver(cur), NothingHalf, NEW spec \in Specs, Launch(spec),
         key' = spec, UNCHANGED <<alive, disk, torn>>, alive => Behind' = {}
  PROVE  /\ jobs' \in [Slots -> JobRecords] /\ cur' \in Slots /\ OneJob' /\ NothingHalf'
         /\ \E s \in Slots : jobs'[s].pc # "over"
<1> DEFINE r == [Over EXCEPT !.pc = "plan", !.spec = spec, !.dead = ~alive, !.todo = DOMAIN spec]
<1>1. \A s \in Slots : jobs[s].pc = "over"
  BY NoneAtWork
<1>2. PICK s \in Slots : cur' = s /\ Goes(s, r)
  BY DEF Launch
<1>3. spec \in Wants /\ DOMAIN spec \in SUBSET Targets /\ (~alive) \in BOOLEAN
  <2>1. (~alive) \in BOOLEAN
    OBVIOUS
  <2> QED
    BY <2>1, TargetsAssumption DEF Wants
<1>4. /\ r \in JobRecords /\ r.pc = "plan" /\ r.spec = spec /\ r.todo = DOMAIN spec /\ r.miss = {}
      /\ r.dead = ~alive
  BY <1>3 DEF Over, JobRecords, JobPcs
<1> HIDE DEF r
<1>5. jobs \in [Slots -> JobRecords]
  BY DEF TypeOK, JobRecords
<1>6. /\ jobs' \in [Slots -> JobRecords] /\ jobs'[s] = r
      /\ \A o \in Slots \ {s} : jobs'[o] = jobs[o] /\ jobs'[o].pc = "over"
  BY <1>1, <1>2, <1>4, <1>5 DEF Goes
<1>7. OnSpec(s)'
  BY <1>4, <1>6 DEF OnSpec, Fetching
<1>8. Accounted(s)'
  BY <1>4, <1>6 DEF Accounted, Fetching
<1>9. Counted(s)'
  BY <1>4, <1>6 DEF Counted, Fetching, Begun, NoMore
<1>10. ASSUME NEW o \in Slots, o # s PROVE OnSpec(o)' /\ Accounted(o)' /\ Counted(o)'
  BY <1>6, <1>10 DEF OnSpec, Accounted, Counted, Fetching, Begun
<1>11. OneJob'
  BY <1>2, <1>6, <1>7, <1>8, <1>9, <1>10 DEF OneJob
<1>12. NothingHalf'
  BY <1>1 DEF NothingHalf
<1>13. jobs'[s].pc # "over"
  BY <1>4, <1>6
<1> QED
  BY <1>2, <1>6, <1>11, <1>12, <1>13

\* intake hears of the deletion; the content is dropped; it ends with the instance.
LEMMA StopsKeep == IInv /\ (HearDeletion \/ DropContent \/ Terminate) => IInv'
<1>1. ASSUME IInv, HearDeletion PROVE IInv'
  <2> USE <1>1 DEF IInv, HearDeletion, backend, machine, manager, loop, history, counts
  <2>1. jobs' = Cancelled(Slots) /\ NoMore'
    BY DEF NoMore
  <2>2. jobs' \in [Slots -> JobRecords] /\ OneJob' /\ Attempts' /\ NothingHalf'
    BY <2>1, CancelKeeps
  <2>3. TypeOK'
    BY <2>2 DEF TypeOK, JobRecords
  <2>4. Passes' /\ Results' /\ StampsHold'
    BY DEF Passes, Results, Failed, StampsHold
  <2> QED
    BY <2>2, <2>3, <2>4
<1>2. ASSUME IInv, DropContent PROVE IInv'
  <2> USE <1>2 DEF IInv, DropContent, BeginStop, backend, machine, history, counts
  <2>1. jobs' = Cancelled({cur}) /\ NoMore'
    BY DEF NoMore
  <2>2. jobs' \in [Slots -> JobRecords] /\ OneJob' /\ Attempts' /\ NothingHalf'
    BY <2>1, CancelKeeps
  <2>3. TypeOK'
    BY <2>2 DEF TypeOK, JobRecords, LoopPcs, Wants
  <2>4. Passes' /\ Results' /\ StampsHold'
    BY DEF Passes, Results, StampsHold
  <2> QED
    BY <2>2, <2>3, <2>4
<1>3. ASSUME IInv, Terminate PROVE IInv'
  <2> USE <1>3 DEF IInv, Terminate, BeginStop, backend, machine, history, counts
  <2>1. jobs' = Cancelled({cur}) /\ NoMore'
    BY DEF NoMore
  <2>2. jobs' \in [Slots -> JobRecords] /\ OneJob' /\ Attempts' /\ NothingHalf'
    BY <2>1, CancelKeeps
  <2>3. TypeOK'
    BY <2>2 DEF TypeOK, JobRecords, LoopPcs, Wants
  <2>4. Passes' /\ Results' /\ StampsHold'
    BY DEF Passes, Results, StampsHold
  <2> QED
    BY <2>2, <2>3, <2>4
<1> QED
  BY <1>1, <1>2, <1>3

\* Stop returns; another spec cancels the job of the last.
LEMMA PassKeeps == IInv /\ (Stopped \/ Replace) => IInv'
<1>1. ASSUME IInv, Stopped PROVE IInv'
  <2> USE <1>1 DEF IInv, Stopped, backend, history, counts
  <2>1. \A s \in Slots : jobs[s].pc = "over"
    BY NoneAtWork
  <2>2. TypeOK'
    BY DEF TypeOK, LoopPcs
  <2>3. OneJob'
    BY <2>1 DEF OneJob, OnSpec, Accounted, Counted, Fetching, Begun
  <2>4. Attempts'
    BY <2>1 DEF Attempts, RetriesEnd, NoMore, Behind
  <2>5. Passes' /\ Results' /\ StampsHold' /\ NothingHalf'
    BY DEF Passes, Results, Failed, StampsHold, NothingHalf
  <2> QED
    BY <2>2, <2>3, <2>4, <2>5
<1>2. ASSUME IInv, Replace PROVE IInv'
  <2> USE <1>2 DEF IInv, Replace, backend, machine, manager, history, counts
  <2>1. jobs' = Cancelled({cur}) /\ NoMore'
    BY DEF NoMore
  <2>2. jobs' \in [Slots -> JobRecords] /\ OneJob' /\ Attempts' /\ NothingHalf'
    BY <2>1, CancelKeeps
  <2>3. TypeOK'
    BY <2>2 DEF TypeOK, JobRecords, LoopPcs, Wants
  <2>4. Passes'
    BY DEF Passes, TypeOK, Wants
  <2>5. Results' /\ StampsHold'
    BY DEF Results, Failed, StampsHold
  <2> QED
    BY <2>2, <2>3, <2>4, <2>5
<1> QED
  BY <1>1, <1>2

\* A job is launched for another spec, or for the same once more.
LEMMA LaunchesKeep == IInv /\ (Install \/ Repeat) => IInv'
<1>1. ASSUME IInv, Install PROVE IInv'
  <2> USE <1>1 DEF IInv, Install, backend, machine, counts
  <2>1. /\ tries' = [t \in Targets |-> 0] /\ given' = {} /\ met' = {}
        /\ begun' = [t \in Targets |-> 0] /\ unplaced' = {}
    BY DEF ForgetFailures
  <2>2. Behind' = {}
    BY <2>1 DEF Behind
  <2>3. mspec \in Specs /\ key' = mspec
    BY DEF Passes
  <2>4. /\ jobs' \in [Slots -> JobRecords] /\ cur' \in Slots /\ OneJob' /\ NothingHalf'
    BY <2>2, <2>3, Launched
  <2>5. FetchAttempts \in Nat \ {0}
    BY BoundsAssumption
  <2>6. tries' \in [Targets -> 0..FetchAttempts] /\ begun' \in [Targets -> Nat]
    BY <2>1, <2>5
  <2>7. TypeOK'
    BY <2>1, <2>3, <2>4, <2>6 DEF TypeOK, JobRecords, LoopPcs, Wants
  <2>8. Attempts'
    BY <2>1, <2>2, <2>5 DEF Attempts, RetriesEnd
  <2>9. Passes' /\ Results' /\ StampsHold'
    BY DEF Passes, Results, StampsHold
  <2> QED
    BY <2>4, <2>7, <2>8, <2>9
<1>2. ASSUME IInv, Repeat, ~IsOver(cur), UNCHANGED <<cur, jobs>> PROVE IInv'
  <2> USE <1>2 DEF IInv, Repeat, backend, machine, history, counts
  <2>1. OneJob' /\ Attempts' /\ Results'
    BY JobsUntouched DEF NoMore
  <2>2. TypeOK'
    BY DEF TypeOK, LoopPcs, Wants
  <2>3. Passes' /\ StampsHold' /\ NothingHalf'
    BY DEF Passes, StampsHold, NothingHalf
  <2> QED
    BY <2>1, <2>2, <2>3
<1>3. ASSUME IInv, Repeat, IsOver(cur), Launch(want) PROVE IInv'
  <2> USE <1>3 DEF IInv, Repeat, backend, machine, history, counts
  <2>1. want \in Specs /\ key' = want
    BY DEF TypeOK, Wants
  <2>2. \A s \in Slots : jobs[s].pc = "over"
    BY NoneAtWork
  <2>3. alive => Behind' = {}
    BY <2>2 DEF Attempts, NoMore, Behind
  <2>4. /\ jobs' \in [Slots -> JobRecords] /\ cur' \in Slots /\ OneJob' /\ NothingHalf'
        /\ \E s \in Slots : jobs'[s].pc # "over"
    BY <2>1, <2>3, Launched
  <2>5. TypeOK'
    BY <2>1, <2>4 DEF TypeOK, JobRecords, LoopPcs, Wants
  <2>6. Attempts'
    BY <2>4 DEF Attempts, RetriesEnd
  <2>7. Passes' /\ Results' /\ StampsHold'
    BY DEF Passes, Results, Failed, StampsHold
  <2> QED
    BY <2>4, <2>5, <2>6, <2>7
<1> QED
  BY <1>1, <1>2, <1>3 DEF Repeat

\* The start gate, docker run and the end of the save.
LEMMA GateKeeps == IInv /\ (AskGate \/ RunContainer \/ SaveEnds) => IInv'
<1> SUFFICES ASSUME IInv, AskGate \/ RunContainer \/ SaveEnds PROVE IInv'
  OBVIOUS
<1> USE DEF IInv, AskGate, RunContainer, SaveEnds, backend, machine, manager, history, counts
<1>1. OneJob' /\ Attempts' /\ Results'
  BY JobsUntouched DEF NoMore
<1>2. TypeOK'
  BY DEF TypeOK, LoopPcs
<1>3. Passes'
  BY DEF Passes, GateOpen, Results, Failed
<1>4. StampsHold' /\ NothingHalf'
  BY DEF StampsHold, NothingHalf
<1> QED
  BY <1>1, <1>2, <1>3, <1>4

\* The process dies: nothing is at work, and a clone that was is cut.
LEMMA RestartKeeps == IInv /\ Restart => IInv'
<1> SUFFICES ASSUME IInv, Restart PROVE IInv'
  OBVIOUS
<1> USE TargetsAssumption, BoundsAssumption DEF IInv, Restart, backend
<1>1. TypeOK'
  <2>1. Over \in JobRecords
    BY DEF Over, JobRecords, JobPcs, Wants
  <2>2. jobs' \in [Slots -> JobRecords]
    BY <2>1
  <2>3. tries' \in [Targets -> 0..FetchAttempts] /\ begun' \in [Targets -> Nat]
    OBVIOUS
  <2>4. crashes' \in 0..MaxCrashes /\ torn' \subseteq Targets /\ toMove' \subseteq Saved
    BY DEF TypeOK
  <2> QED
    BY <2>2, <2>3, <2>4 DEF TypeOK, JobRecords, LoopPcs, Wants
<1>2. OneJob'
  BY DEF OneJob, OnSpec, Accounted, Counted, Over, Fetching, Begun
<1>3. Attempts'
  BY DEF Attempts, RetriesEnd, Behind
<1>4. Passes' /\ Results' /\ StampsHold' /\ NothingHalf'
  BY DEF Passes, Results, StampsHold, NothingHalf
<1> QED
  BY <1>1, <1>2, <1>3, <1>4

-----------------------------------------------------------------------------
(* The theorems.                                                            *)

\* Every step keeps the inductive invariant.
LEMMA StepIInv == IInv /\ [Next]_vars => IInv'
<1> SUFFICES ASSUME IInv, [Next]_vars PROVE IInv'
  OBVIOUS
<1>1. CASE UNCHANGED vars
  <2> USE <1>1 DEF IInv, vars, backend, machine, manager, loop, history, counts
  <2>1. OneJob' /\ Attempts' /\ Results'
    BY JobsUntouched DEF NoMore
  <2>2. TypeOK' /\ StampsHold' /\ NothingHalf'
    BY DEF TypeOK, StampsHold, NothingHalf
  <2>3. Passes'
    BY DEF Passes, Failed
  <2> QED
    BY <2>1, <2>2, <2>3
<1>2. CASE Next
  BY <1>2, OthersKeep, JobStepKeeps, StopsKeep, PassKeeps, LaunchesKeep, GateKeeps,
     RestartKeeps
     DEF Next, MainLoop
<1> QED
  BY <1>1, <1>2

\* Only docker run starts the container.
LEMMA OnlyRunStarts ==
  ASSUME Next, ~up, up'
  PROVE  RunContainer
<1>1. ASSUME NEW s \in Slots, JobStep(s) PROVE UNCHANGED up
  BY <1>1
     DEF JobStep, NoWorkspace, Look, Queue, Begin, FillFails, Rename, Remember, Cloned,
         CloneFails, Fetched, Finish, Settle, machine
<1>2. ASSUME MainLoop, ~RunContainer PROVE UNCHANGED up \/ ~up'
  BY <1>2
     DEF MainLoop, DropContent, Terminate, Stopped, Replace, Install, Repeat, AskGate,
         SaveEnds, machine
<1>3. ASSUME ChangeSpec \/ RequestDeletion \/ RestoreMove \/ Edit \/ HearDeletion \/ Restart
      PROVE  UNCHANGED up
  BY <1>3 DEF ChangeSpec, RequestDeletion, RestoreMove, Edit, HearDeletion, Restart, machine
<1> QED
  BY <1>1, <1>2, <1>3 DEF Next

\* The inductive invariant holds of every execution of the content manager, the main
\* loop and those who write to the workspace beside them.
THEOREM Invariance == Spec => []IInv
<1>1. Init => IInv
  BY InitIInv
<1>2. IInv /\ [Next]_vars => IInv'
  BY StepIInv
<1> QED
  BY <1>1, <1>2, PTL DEF Spec

\* Every variable keeps its type: no failure counts more than fetchAttempts (fail).
THEOREM TypeCorrect == Spec => []TypeOK
<1>1. IInv => TypeOK
  BY DEF IInv
<1> QED
  BY <1>1, Invariance, PTL

\* What counts as settled was met or has failed for the spec it is settled for, unless it
\* had nowhere to be put, and for "ready" all was met, whatever jobs were replaced, stopped
\* or cancelled (run, Reconcile).
THEOREM SettledComplete == Spec => []SettledIsComplete
<1>1. IInv => SettledIsComplete
  <2> SUFFICES ASSUME IInv, settled, key # NoSpec PROVE SettledIsComplete
    BY DEF SettledIsComplete
  <2>1. /\ DOMAIN key \subseteq met \cup Failed
        /\ observed = "ready" => DOMAIN key \subseteq met
    BY DEF IInv, Results
  <2>2. \A t \in DOMAIN key : DealtWith(t)
    BY <2>1 DEF Failed, DealtWith
  <2> QED
    BY <2>1, <2>2 DEF SettledIsComplete
<1> QED
  BY <1>1, Invariance, PTL

\* A stamp vouches for the content of its model, unless users changed the file between
\* rename and stat (remember, plan).
THEOREM StampsGood == Spec => []StampsHold
<1>1. IInv => StampsHold
  BY DEF IInv
<1> QED
  BY <1>1, Invariance, PTL

\* No target is fetched more than fetchAttempts times in a row for one spec (fail, pass).
THEOREM RetriesBounded == Spec => []RetriesEnd
<1>1. IInv => RetriesEnd
  BY DEF IInv, Attempts
<1> QED
  BY <1>1, Invariance, PTL

\* No job is at work while the workspace is packed and saved (Stop in terminate).
THEOREM SaveAlone == Spec => []SavesQuiet
<1>1. IInv => SavesQuiet
  <2> SUFFICES ASSUME IInv, mpc = "save" PROVE \A s \in Slots : IsOver(s)
    BY DEF SavesQuiet
  <2>1. cur = 0
    BY DEF IInv, Passes
  <2> QED
    BY <2>1 DEF IInv, OneJob, IsOver, Slots
<1> QED
  BY <1>1, Invariance, PTL

\* The container starts with every target met or failed, but for a pass without a
\* workspace, and with nothing half there, though the gate was asked steps before docker
\* run (handleSpec, container.Reconcile).
THEOREM StartComplete == Spec => StartsComplete
<1>1. IInv /\ [Next]_vars =>
        [~up /\ up' => /\ mspec # NoSpec => \A t \in DOMAIN mspec : DealtWith(t)
                       /\ NothingHalf]_up
  <2> SUFFICES ASSUME IInv, [Next]_vars, ~up, up', up' # up
               PROVE  /\ mspec # NoSpec => \A t \in DOMAIN mspec : DealtWith(t)
                      /\ NothingHalf
    OBVIOUS
  <2>1. Next
    BY DEF vars, machine
  <2>2. mpc = "run"
    BY <2>1, OnlyRunStarts DEF RunContainer
  <2>3. mspec # NoSpec => DOMAIN mspec \subseteq met \cup Failed
    BY <2>2 DEF IInv, Passes
  <2>4. mspec # NoSpec => \A t \in DOMAIN mspec : DealtWith(t)
    BY <2>3 DEF Failed, DealtWith
  <2> QED
    BY <2>4 DEF IInv
<1> QED
  BY <1>1, Invariance, PTL DEF Spec, StartsComplete
=============================================================================
