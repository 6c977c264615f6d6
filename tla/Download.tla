------------------------------ MODULE Download ------------------------------
(***************************************************************************)
(* One file comes from its URL into the workspace: fetch, fill, download,  *)
(* downloadRanged, downloadPart and downloadRange of content/manager.go on *)
(* Get and its idle watch of fetch/fetch.go. A file is a sequence of       *)
(* blocks, each of some version of what the source holds, or a hole.       *)
(***************************************************************************)
EXTENDS Naturals, Sequences

CONSTANTS
  Versions,       \* what may be at the URL
  SizeOf,         \* the blocks of a version
  Tasks,          \* what may be asked for: size or 0, sum (a version) or NoSum, model
  NoSum,
  RangeParts,     \* rangeParts
  RangeMin,       \* rangeMin
  RangeAttempts,  \* rangeAttempts
  FetchAttempts,  \* fetchAttempts
  MaxChanges,     \* bound: changes at the source
  MaxCrashes      \* bound: crashes of the agent

\* What a block is that was not yet written, of a file made at its full size.
Hole == "hole"

ASSUME SourceAssumption ==
  /\ SizeOf \in [Versions -> Nat]
  /\ NoSum \notin Versions /\ Hole \notin Versions
  /\ Tasks \subseteq [size : Nat, sum : Versions \cup {NoSum}, model : BOOLEAN]

\* A file that is fetched in parts has a block for each of them.
ASSUME RangeAssumption ==
  /\ RangeParts \in Nat \ {0} /\ RangeMin \in Nat /\ RangeMin >= RangeParts
  /\ RangeAttempts \in Nat \ {0} /\ FetchAttempts \in Nat \ {0}
  /\ MaxChanges \in Nat /\ MaxCrashes \in Nat

PartIds == 1..RangeParts

VARIABLES
  source,    \* the version at the URL
  task,      \* what is asked for
  phase,     \* where fetch is
  file,      \* the blocks of the .part file
  there,     \* whether that file is in the folder
  place,     \* the blocks of the target, once it is there
  stream,    \* the answer to the first request: version, blocks read, total or 0
  parts,     \* goroutines downloadPart
  cut,       \* partCtx is cancelled
  dead,      \* the job's context is cancelled
  tries,     \* failure.attempts
  moved,     \* history: the source has changed since this fetch began
  changes, crashes

outside == <<source, moved, changes>>
local == <<stream, parts, cut>>
vars == <<outside, local, task, phase, file, there, place, dead, tries, crashes>>

NoStream == [ver |-> NoSum, n |-> 0, total |-> 0]
NoPart == [pc |-> "done", from |-> 1, to |-> 0, ver |-> NoSum, upto |-> 0, att |-> 0]
NoParts == [i \in PartIds |-> NoPart]

Init ==
  /\ source \in Versions /\ task \in Tasks
  /\ phase = "idle" /\ file = <<>> /\ there = FALSE /\ place = <<>>
  /\ stream = NoStream /\ parts = NoParts /\ cut = FALSE /\ dead = FALSE
  /\ tries = 0 /\ moved = FALSE /\ changes = 0 /\ crashes = 0

\* Another version is put at the URL.
Change ==
  /\ changes < MaxChanges /\ changes' = changes + 1
  /\ source' \in Versions \ {source} /\ moved' = TRUE
  /\ UNCHANGED <<local, task, phase, file, there, place, dead, tries, crashes>>

\* Stop, a replaced spec or a deletion cancels the job.
Cancel ==
  /\ ~dead /\ phase \notin {"placed", "given", "off"} /\ dead' = TRUE
  /\ UNCHANGED <<outside, local, task, phase, file, there, place, tries, crashes>>

-----------------------------------------------------------------------------
(* fetch and the first request                                              *)

\* A mutant: a .part file that is there is written over, not emptied.
OpenOver ==
  /\ phase = "idle" /\ phase' = "probe"
  /\ there' = TRUE /\ moved' = FALSE
  /\ UNCHANGED <<source, changes, local, task, file, place, dead, tries, crashes>>

\* fetch opens the .part file, emptied.
Open ==
  /\ phase = "idle" /\ phase' = "probe"
  /\ file' = <<>> /\ there' = TRUE /\ moved' = FALSE
  /\ UNCHANGED <<source, changes, local, task, place, dead, tries, crashes>>

\* A mutant: the end of a cancelled job counts as a failure of the file.
FailCounted(final) ==
  /\ tries' = tries + 1
  /\ phase' = IF dead THEN "off"
              ELSE IF final \/ tries + 1 >= FetchAttempts THEN "given" ELSE "idle"

\* fetch failed, for now or for good, which is counted unless the job was cancelled.
Fail(final) ==
  /\ tries' = IF dead THEN tries ELSE tries + 1
  /\ phase' = IF dead THEN "off"
              ELSE IF final \/ tries + 1 >= FetchAttempts THEN "given" ELSE "idle"

\* It failed with the .part file open, which is removed.
GiveUp(final) ==
  /\ Fail(final)
  /\ file' = <<>> /\ there' = FALSE
  /\ stream' = NoStream /\ parts' = NoParts /\ cut' = FALSE

\* The folder or the .part file cannot be made or opened, for good if the disk is full.
\* One left over from an earlier process stays.
OpenFails ==
  /\ phase = "idle"
  /\ \E final \in BOOLEAN : Fail(final)
  /\ UNCHANGED <<outside, local, task, file, there, place, dead, crashes>>

\* No answer in time, an http error, a file that cannot be given its size (for now) or
\* an html page (for good)
ProbeFails ==
  /\ phase = "probe"
  /\ \E final \in BOOLEAN : GiveUp(final)
  /\ UNCHANGED <<outside, task, place, dead, crashes>>

\* The answer promises another size than asked for, or one the disk has no room for.
Unfit ==
  /\ phase = "probe" /\ SizeOf[source] > 0
  /\ GiveUp(TRUE)
  /\ UNCHANGED <<outside, task, place, dead, crashes>>

\* The size promised is the size asked for.
Fits(total) == total > 0 /\ task.size > 0 => total = task.size

\* A 200 or a small 206: the body of this answer is read. Its length may be unknown.
Stream ==
  /\ phase = "probe" /\ phase' = "stream"
  /\ \E total \in {0, SizeOf[source]} :
       /\ Fits(total)
       /\ stream' = [ver |-> source, n |-> 0, total |-> total]
  /\ UNCHANGED <<outside, parts, cut, task, file, there, place, dead, tries, crashes>>

\* A mutant: the last part is as long as the others.
EvenTo(i, size) == i * (size \div RangeParts)

\* The last block of part i of a file; the last part takes the rest.
To(i, size) == IF i = RangeParts THEN size ELSE i * (size \div RangeParts)

\* The first block of part i of a file
From(i, size) == (i - 1) * (size \div RangeParts) + 1

\* A large 206: its body is not read. The file gets its size, all holes, and a
\* goroutine fetches each part.
Split ==
  /\ phase = "probe" /\ phase' = "parts"
  /\ LET size == SizeOf[source] IN
     /\ size > 0 /\ size >= RangeMin /\ Fits(size)
     /\ file' = [b \in 1..size |-> Hole]
     /\ parts' = [i \in PartIds |-> [pc |-> "ask", from |-> From(i, size), to |-> To(i, size),
                                     ver |-> NoSum, upto |-> 0, att |-> 0]]
  /\ UNCHANGED <<outside, stream, cut, task, there, place, dead, tries, crashes>>

\* The file with version v in block b
Written(b, v) == IF b <= Len(file) THEN [file EXCEPT ![b] = v] ELSE Append(file, v)

-----------------------------------------------------------------------------
(* A single stream                                                          *)

\* The body of one answer is all of one version.
StreamRead ==
  /\ phase = "stream" /\ stream.n < SizeOf[stream.ver]
  /\ stream' = [stream EXCEPT !.n = @ + 1]
  /\ file' = Written(stream.n + 1, stream.ver)
  /\ UNCHANGED <<outside, parts, cut, task, phase, there, place, dead, tries, crashes>>

\* The body ends: with all that was promised, or anywhere when nothing was.
StreamEnds ==
  /\ phase = "stream" /\ phase' = "check"
  /\ stream.total > 0 => stream.n = stream.total
  /\ UNCHANGED <<outside, local, task, file, there, place, dead, tries, crashes>>

\* The body breaks off, nothing comes for idleTimeout, the job is cancelled, or the disk
\* is full (for good).
StreamBreaks ==
  /\ phase = "stream"
  /\ \E final \in BOOLEAN : GiveUp(final)
  /\ UNCHANGED <<outside, task, place, dead, crashes>>

-----------------------------------------------------------------------------
(* Parts                                                                    *)

\* A mutant: a part starts anew when its body ends too early.
AfterRestarted(i, full) ==
  LET p == parts[i]
      cause == IF cut \/ dead THEN "failed" ELSE IF full THEN "full"
               ELSE IF p.att + 1 >= RangeAttempts THEN "failed" ELSE "ask"
  IN IF p.from > p.to THEN [p EXCEPT !.pc = "done"]
     ELSE [p EXCEPT !.pc = cause, !.att = @ + 1, !.from = From(i, Len(file))]

\* A mutant: an attempt that brought some blocks is not counted.
AfterUncounted(i, full) ==
  LET p == parts[i]
      cause == IF cut \/ dead THEN "failed" ELSE IF full THEN "full"
               ELSE IF p.att + 1 >= RangeAttempts THEN "failed" ELSE "ask"
  IN IF p.from > p.to THEN [p EXCEPT !.pc = "done"] ELSE [p EXCEPT !.pc = cause]

\* Part i after an attempt: done, failed, failed over a full disk, or to be tried again
\* from where it is.
After(i, full) ==
  LET p == parts[i]
      cause == IF cut \/ dead THEN "failed" ELSE IF full THEN "full"
               ELSE IF p.att + 1 >= RangeAttempts THEN "failed" ELSE "ask"
  IN IF p.from > p.to THEN [p EXCEPT !.pc = "done"]
     ELSE [p EXCEPT !.pc = cause, !.att = @ + 1]

Broken(p) == p.pc \in {"failed", "full"}

\* An attempt of part i is over. A part that failed cancels the others.
AttemptOver(i, full) ==
  /\ parts' = [parts EXCEPT ![i] = After(i, full)]
  /\ cut' = (cut \/ Broken(After(i, full)))

\* Another answer than 206, or none: so it is where the source has become shorter.
Refused(i) ==
  /\ parts[i].pc = "ask"
  /\ AttemptOver(i, FALSE)
  /\ UNCHANGED <<outside, stream, task, phase, file, there, place, dead, tries, crashes>>

\* The rest of the part is promised, of the version that is at the URL by now.
Ask(i) ==
  /\ parts[i].pc = "ask" /\ ~cut /\ ~dead
  /\ parts[i].from <= SizeOf[source]
  /\ parts' = [parts EXCEPT ![i].pc = "read", ![i].ver = source,
                 ![i].upto = IF SizeOf[source] < parts[i].to
                             THEN SizeOf[source] ELSE parts[i].to]
  /\ UNCHANGED <<outside, stream, cut, task, phase, file, there, place, dead, tries, crashes>>

\* One block is read and written, perhaps as the part is being cancelled.
Read(i) ==
  /\ parts[i].pc = "read" /\ parts[i].from <= parts[i].upto
  /\ file' = Written(parts[i].from, parts[i].ver)
  /\ parts' = [parts EXCEPT ![i].from = @ + 1]
  /\ UNCHANGED <<outside, stream, cut, task, phase, there, place, dead, tries, crashes>>

\* The body is over, breaks off, is silent for idleTimeout or is cancelled, or there is
\* no room for a block of it.
BodyEnds(i) ==
  /\ parts[i].pc = "read"
  /\ \E full \in BOOLEAN : AttemptOver(i, full)
  /\ UNCHANGED <<outside, stream, task, phase, file, there, place, dead, tries, crashes>>

PartOver(i) == parts[i].pc = "done" \/ Broken(parts[i])

\* A mutant: parts not yet begun are not waited for.
JoinEarly ==
  /\ phase = "parts"
  /\ \A i \in PartIds : PartOver(i) \/ (parts[i].pc = "ask" /\ parts[i].att = 0)
  /\ \A i \in PartIds : ~Broken(parts[i])
  /\ phase' = "check"
  /\ UNCHANGED <<outside, local, task, file, there, place, dead, tries, crashes>>

\* wg.Wait, and no part has failed
Join ==
  /\ phase = "parts"
  /\ \A i \in PartIds : parts[i].pc = "done"
  /\ phase' = "check"
  /\ UNCHANGED <<outside, local, task, file, there, place, dead, tries, crashes>>

\* wg.Wait, and some have. The error of the first in the file is the one returned.
JoinFailed ==
  /\ phase = "parts"
  /\ \A i \in PartIds : PartOver(i)
  /\ \E i \in PartIds :
       /\ Broken(parts[i]) /\ \A j \in 1..(i - 1) : ~Broken(parts[j])
       /\ GiveUp(parts[i].pc = "full")
  /\ UNCHANGED <<outside, task, place, dead, crashes>>

-----------------------------------------------------------------------------
(* The checks of fill, and the target                                       *)

\* All of version v
Whole(v) == [b \in 1..SizeOf[v] |-> v]

SizeIsRight == task.size > 0 => Len(file) = task.size
NotEmpty == task.model => file # <<>>
SumIsRight == task.sum # NoSum => file = Whole(task.sum)

Checked ==
  /\ phase = "check" /\ SizeIsRight /\ NotEmpty /\ SumIsRight
  /\ phase' = "checked"
  /\ UNCHANGED <<outside, local, task, file, there, place, dead, tries, crashes>>

\* A wrong size or sum is for good. An empty model is not, nor is a file that cannot be
\* read again for its size or sum, or whose hash is cancelled.
CheckFails ==
  /\ phase = "check"
  /\ \/ ~SizeIsRight /\ GiveUp(TRUE)
     \/ SizeIsRight /\ NotEmpty /\ ~SumIsRight /\ GiveUp(TRUE)
     \/ GiveUp(FALSE)
  /\ UNCHANGED <<outside, task, place, dead, crashes>>

\* renameIn
Rename ==
  /\ phase = "checked" /\ phase' = "placed"
  /\ place' = file /\ file' = <<>> /\ there' = FALSE
  /\ stream' = NoStream /\ parts' = NoParts /\ cut' = FALSE
  /\ UNCHANGED <<outside, task, dead, tries, crashes>>

\* Close or renameIn fails.
RenameFails ==
  /\ phase = "checked"
  /\ \E final \in BOOLEAN : GiveUp(final)
  /\ UNCHANGED <<outside, task, place, dead, crashes>>

\* The agent is killed and started again: the .part file stays as it is.
Restart ==
  /\ phase \notin {"placed", "off"} /\ crashes < MaxCrashes /\ crashes' = crashes + 1
  /\ phase' = "idle" /\ tries' = 0 /\ dead' = FALSE
  /\ stream' = NoStream /\ parts' = NoParts /\ cut' = FALSE
  /\ UNCHANGED <<outside, task, file, there, place>>

Fetch ==
  \/ Open \/ OpenFails \/ ProbeFails \/ Unfit \/ Stream \/ Split
  \/ StreamRead \/ StreamEnds \/ StreamBreaks
  \/ Join \/ JoinFailed \/ Checked \/ CheckFails \/ Rename \/ RenameFails

Part(i) == Refused(i) \/ Ask(i) \/ Read(i) \/ BodyEnds(i)

Next == Change \/ Cancel \/ Fetch \/ (\E i \in PartIds : Part(i)) \/ Restart

Spec == Init /\ [][Next]_vars

\* Goroutines run; a silent source is left after idleTimeout, a backoff ends.
FairSpec == Spec /\ WF_vars(Fetch) /\ \A i \in PartIds : WF_vars(Part(i))

-----------------------------------------------------------------------------
(* What must be true of it.                                                 *)

Ends == {"placed", "given", "off"}
Phases == {"idle", "probe", "stream", "parts", "check", "checked"} \cup Ends
Blocks == Versions \cup {Hole}

\* Every variable keeps its type: no part leaves its range, no attempt is beyond the
\* last, and no file is longer than some version.
TypeOK ==
  /\ source \in Versions /\ task \in Tasks /\ phase \in Phases
  /\ file \in Seq(Blocks) /\ place \in Seq(Blocks) /\ there \in BOOLEAN
  /\ \A f \in {file, place} : f # <<>> => \E v \in Versions : Len(f) <= SizeOf[v]
  /\ stream.ver \in Versions \cup {NoSum} /\ stream.n \in Nat /\ stream.total \in Nat
  /\ \A i \in PartIds :
       /\ parts[i].pc \in {"ask", "read", "done", "failed", "full"}
       /\ parts[i].from \in 1..(parts[i].to + 1)
       /\ parts[i].att \in 0..RangeAttempts
  /\ cut \in BOOLEAN /\ dead \in BOOLEAN /\ moved \in BOOLEAN
  /\ tries \in 0..FetchAttempts
  /\ changes \in 0..MaxChanges /\ crashes \in 0..MaxCrashes

\* No hole of the file that downloadRanged made at its full size is ever in place,
\* whatever parts were cut short, resumed or cancelled, and with no sum to tell.
NoHoles == \A b \in DOMAIN place : place[b] # Hole

\* What is in place is of one version, from its first block on: the one asked for where
\* there is a sum. Without a sum it is a mixture only if the source was changed under
\* the download, for ranges are asked for with no word of the version.
OneVersion ==
  phase = "placed" =>
    IF task.sum # NoSum THEN place = Whole(task.sum)
    ELSE moved \/ \A b \in DOMAIN place : place[b] = place[1]

\* What a target holds is all of one file, with neither a hole nor, of the code's making,
\* a mixture, whatever was cut short, resumed or left over by a crash.
PlacedIsSound == NoHoles /\ OneVersion

\* A block that was fetched is not fetched again by this download: a part that was cut
\* short resumes behind its last block, and parts do not overlap.
NoneTwice ==
  [][phase = "parts" /\ phase' = "parts" =>
       \A b \in DOMAIN file : file[b] # Hole => file'[b] = file[b]]_file

\* From the check on nothing writes to the file, so that what was checked is what is
\* put in place: every part is over before downloadRanged returns.
CheckedIsPlaced == [][(phase \in {"check", "checked"} /\ there') => file' = file]_file

\* No block is lost or changed once it was fetched: not by another part, nor after the check.
BlocksHold == NoneTwice /\ CheckedIsPlaced

\* Seen from outside, the detail above is a file that arrives in one step, as it was asked
\* for, after attempts that are counted and without the failures of a cancelled job
\* (pass and fetch of content/manager.go take it for that; FillFails and Rename of Content).
Target == INSTANCE Arrival WITH
            outcome <- IF phase \in {"placed", "given", "off"} THEN phase ELSE "open"
Arrives == Target!Spec

\* A download comes to its end: parts are not tried for ever, and one that is silent
\* or cancelled is not waited for for ever.
DownloadEnds == <>(phase \in Ends)
=============================================================================
