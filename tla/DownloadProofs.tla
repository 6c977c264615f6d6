--------------------------- MODULE DownloadProofs ---------------------------
(***************************************************************************)
(* Theorems about Download, for any versions and sizes, numbers of parts   *)
(* and attempts, demands, changes at the source and crashes.               *)
(***************************************************************************)
EXTENDS Download, TLAPS

-----------------------------------------------------------------------------
(* The ranges of parts.                                                     *)

\* Multiplication keeps the order.
LEMMA TimesMonotone ==
  ASSUME NEW a \in Nat, NEW b \in Nat, NEW q \in Nat, a <= b
  PROVE  a * q \in Nat /\ b * q \in Nat /\ a * q <= b * q
<1>1. b * q = a * q + (b - a) * q
  OBVIOUS
<1>2. (b - a) * q >= 0
  OBVIOUS
<1> QED
  BY <1>1, <1>2

\* The quotient of a size by the number of parts.
LEMMA Quotient ==
  ASSUME NEW n \in Nat \ {0}, NEW size \in Nat
  PROVE  size \div n \in Nat /\ n * (size \div n) <= size /\ size < n * (size \div n) + n
  OBVIOUS

\* Ranges lie one after the other in the file.
LEMMA RangesAreOrdered ==
  ASSUME NEW size \in Nat
  PROVE  /\ \A i \in PartIds : /\ From(i, size) \in Nat \ {0} /\ To(i, size) \in Nat
                               /\ From(i, size) <= To(i, size) + 1 /\ To(i, size) <= size
         /\ \A i, j \in PartIds : i < j => To(i, size) < From(j, size)
<1> DEFINE q == size \div RangeParts
<1>1. RangeParts \in Nat \ {0}
  BY RangeAssumption
<1>2. q \in Nat /\ RangeParts * q <= size
  BY <1>1, Quotient
<1> HIDE DEF q
<1>3. ASSUME NEW i \in PartIds
      PROVE  /\ i \in Nat /\ i - 1 \in Nat /\ i <= RangeParts
             /\ (i - 1) * q \in Nat /\ i * q \in Nat
             /\ (i - 1) * q <= i * q /\ i * q <= RangeParts * q
  <2>1. i \in Nat /\ i - 1 \in Nat /\ i <= RangeParts
    BY <1>1 DEF PartIds
  <2>2. (i - 1) * q \in Nat /\ i * q \in Nat /\ (i - 1) * q <= i * q
    BY <2>1, <1>2, TimesMonotone
  <2>3. i * q <= RangeParts * q
    BY <2>1, <1>1, <1>2, TimesMonotone
  <2> QED
    BY <2>1, <2>2, <2>3
<1>4. ASSUME NEW i \in PartIds
      PROVE  /\ From(i, size) = (i - 1) * q + 1
             /\ To(i, size) = IF i = RangeParts THEN size ELSE i * q
  BY DEF From, To, q
<1>5. \A i \in PartIds : /\ From(i, size) \in Nat \ {0} /\ To(i, size) \in Nat
                         /\ From(i, size) <= To(i, size) + 1 /\ To(i, size) <= size
  BY <1>1, <1>2, <1>3, <1>4
<1>6. ASSUME NEW i \in PartIds, NEW j \in PartIds, i < j
      PROVE  To(i, size) < From(j, size)
  <2>1. i \in Nat /\ j - 1 \in Nat /\ i <= j - 1 /\ i # RangeParts
    BY <1>1, <1>3, <1>6 DEF PartIds
  <2>2. i * q <= (j - 1) * q
    BY <2>1, <1>2, TimesMonotone
  <2>3. i * q \in Nat /\ (j - 1) * q \in Nat
    BY <1>3
  <2> QED
    BY <2>1, <2>2, <2>3, <1>4
<1> QED
  BY <1>5, <1>6

\* Every block of a file that has at least one block for each part is in some range.
LEMMA RangesCover ==
  ASSUME NEW size \in Nat, size >= RangeParts, NEW b \in 1..size
  PROVE  \E i \in PartIds : From(i, size) <= b /\ b <= To(i, size)
<1> DEFINE q == size \div RangeParts
<1>1. RangeParts \in Nat \ {0}
  BY RangeAssumption
<1>2. q \in Nat /\ RangeParts * q <= size /\ size < RangeParts * q + RangeParts
  BY <1>1, Quotient
<1>3. q # 0
  BY <1>1, <1>2
<1> HIDE DEF q
<1>4. CASE b > (RangeParts - 1) * q
  <2>1. RangeParts \in PartIds
    BY <1>1 DEF PartIds
  <2>2. From(RangeParts, size) = (RangeParts - 1) * q + 1 /\ To(RangeParts, size) = size
    BY DEF From, To, q
  <2>3. (RangeParts - 1) * q \in Nat
    BY <1>1, <1>2
  <2>4. From(RangeParts, size) <= b /\ b <= To(RangeParts, size)
    BY <1>4, <2>2, <2>3
  <2> QED
    BY <2>1, <2>4
<1>5. CASE b <= (RangeParts - 1) * q
  <2> DEFINE k == (b - 1) \div q
  <2>1. b - 1 \in Nat /\ q \in Nat \ {0}
    BY <1>2, <1>3
  <2>2. k \in Nat /\ q * k <= b - 1 /\ b - 1 < q * k + q
    BY <2>1, Quotient
  <2> HIDE DEF k
  <2>3. k < RangeParts - 1
    <3> SUFFICES ASSUME k >= RangeParts - 1 PROVE FALSE
      BY <1>1, <2>2
    <3>1. (RangeParts - 1) * q <= k * q
      BY <1>1, <1>2, <2>2, TimesMonotone
    <3>2. k * q = q * k
      BY <1>2, <2>2
    <3>3. (RangeParts - 1) * q \in Nat /\ q * k \in Nat
      BY <1>1, <1>2, <2>2
    <3> QED
      BY <1>5, <2>2, <3>1, <3>2, <3>3
  <2>4. k + 1 \in PartIds /\ k + 1 # RangeParts
    BY <1>1, <2>2, <2>3 DEF PartIds
  <2>5. From(k + 1, size) = k * q + 1 /\ To(k + 1, size) = (k + 1) * q
    <3>1. (k + 1) - 1 = k
      BY <2>2
    <3> QED
      BY <2>4, <3>1 DEF From, To, q
  <2>6. k * q = q * k /\ (k + 1) * q = q * k + q /\ q * k \in Nat
    BY <1>2, <2>2
  <2> QED
    BY <2>1, <2>2, <2>4, <2>5, <2>6
<1>6. (RangeParts - 1) * q \in Nat
  BY <1>1, <1>2
<1> QED
  BY <1>4, <1>5, <1>6

-----------------------------------------------------------------------------
(* The inductive invariant.                                                 *)

Streams == [ver : Versions \cup {NoSum}, n : Nat, total : Nat]
Parts == [pc : {"ask", "read", "done", "failed", "full"}, from : Nat \ {0}, to : Nat,
          ver : Versions \cup {NoSum}, upto : Nat, att : 0..RangeAttempts]

\* Records and blocks.
Shapes ==
  /\ stream \in Streams /\ parts \in [PartIds -> Parts]
  /\ file \in Seq(Blocks) /\ place \in Seq(Blocks)

Flags == there \in BOOLEAN /\ cut \in BOOLEAN /\ dead \in BOOLEAN /\ moved \in BOOLEAN

\* What is asked for, and what is counted; only what was given up has no attempt left.
Counts ==
  /\ source \in Versions /\ task \in Tasks /\ phase \in Phases
  /\ tries \in 0..FetchAttempts /\ (phase # "given" => tries < FetchAttempts)
  /\ changes \in 0..MaxChanges /\ crashes \in 0..MaxCrashes

\* A file is no longer than some version of it.
Bounded(f) == f # <<>> => \E v \in Versions : Len(f) <= SizeOf[v]

\* A part that is at work has attempts left, and is never outside its range.
PartsAtWork ==
  \A i \in PartIds :
    /\ parts[i].from <= parts[i].to + 1
    /\ parts[i].pc \in {"ask", "read"} => parts[i].att < RangeAttempts
    /\ parts[i].pc = "read" => parts[i].ver \in Versions /\ parts[i].upto <= parts[i].to
    /\ parts[i].pc = "done" => parts[i].from = parts[i].to + 1
    /\ phase # "parts" => parts[i].pc = "done"

\* What part i has fetched is there, what it has not is a hole.
PartFilled(i) ==
  LET p == parts[i] IN
  /\ p.to = To(i, Len(file)) /\ From(i, Len(file)) <= p.from
  /\ \A b \in DOMAIN file :
       /\ From(i, Len(file)) <= b /\ b < p.from => file[b] # Hole
       /\ p.from <= b /\ b <= p.to => file[b] = Hole

PartsFilled == phase = "parts" => Len(file) >= RangeParts /\ \A i \in PartIds : PartFilled(i)

\* The file as it grows with one stream, and when it is to be checked.
FileFilled ==
  /\ phase = "probe" => file = <<>>
  /\ phase = "stream" => /\ stream.ver \in Versions
                         /\ stream.n = Len(file) /\ Len(file) <= SizeOf[stream.ver]
  /\ phase \in {"stream", "check", "checked"} => \A b \in DOMAIN file : file[b] # Hole

\* A target is there at the end only, checked and without holes.
PlaceIsLast ==
  /\ phase # "placed" => place = <<>>
  /\ phase = "checked" => SizeIsRight /\ NotEmpty /\ SumIsRight
  /\ phase = "placed" /\ task.sum # NoSum => place = Whole(task.sum)
  /\ NoHoles

\* Without a change at the source all that comes is of its version.
Unmixed ==
  ~moved =>
    /\ phase = "stream" => stream.ver = source
    /\ \A i \in PartIds : parts[i].pc = "read" => parts[i].ver = source
    /\ \A b \in DOMAIN file : file[b] \in {source, Hole}
    /\ \A b \in DOMAIN place : place[b] \in {source, Hole}

IInv ==
  /\ Shapes /\ Flags /\ Counts /\ Bounded(file) /\ Bounded(place)
  /\ PartsAtWork /\ PartsFilled /\ FileFilled /\ PlaceIsLast /\ Unmixed

\* No stream, no parts and no blocks are such.
LEMMA NothingIsShaped ==
  NoStream \in Streams /\ NoParts \in [PartIds -> Parts] /\ <<>> \in Seq(Blocks)
<1>1. NoPart \in Parts
  <2>1. 0 \in 0..RangeAttempts
    BY RangeAssumption
  <2> QED
    BY <2>1 DEF NoPart, Parts
<1>2. NoParts \in [PartIds -> Parts]
  BY <1>1 DEF NoParts
<1> QED
  BY <1>2 DEF NoStream, Streams

\* The initial states satisfy the invariant.
LEMMA InitIInv == Init => IInv
<1> SUFFICES ASSUME Init PROVE IInv
  OBVIOUS
<1>1. Shapes
  BY NothingIsShaped DEF Init, Shapes
<1>2. Flags /\ Counts
  <2>1. Flags
    BY DEF Init, Flags
  <2>2. source \in Versions /\ task \in Tasks /\ phase = "idle" /\ tries = 0
        /\ changes = 0 /\ crashes = 0
    BY DEF Init
  <2>3. Counts
    BY <2>2, RangeAssumption DEF Counts, Phases
  <2> QED
    BY <2>1, <2>3
<1>3. PartsAtWork
  BY DEF Init, PartsAtWork, NoParts, NoPart
<1>4. file = <<>> /\ place = <<>> /\ phase = "idle"
  BY DEF Init
<1>5. Bounded(file) /\ Bounded(place) /\ PartsFilled /\ FileFilled /\ Unmixed
  BY <1>4 DEF Init, Bounded, PartsFilled, FileFilled, Unmixed, NoParts, NoPart
<1>6. PlaceIsLast
  BY <1>4 DEF PlaceIsLast, NoHoles
<1> QED
  BY <1>1, <1>2, <1>3, <1>5, <1>6 DEF IInv

\* A failure is counted up to the last there may be, and not where the job was cancelled.
LEMMA FailCounts ==
  ASSUME IInv, NEW final \in BOOLEAN, Fail(final), phase # "given",
         UNCHANGED <<source, task, changes, crashes>>
  PROVE  Counts' /\ phase' \in {"off", "given", "idle"}
<1>1. \/ tries' = tries /\ phase' = "off"
      \/ tries' = tries + 1 /\ phase' = "given"
      \/ tries' = tries + 1 /\ tries + 1 < FetchAttempts /\ phase' = "idle"
  <2>1. CASE dead
    BY <2>1 DEF Fail
  <2>2. CASE ~dead
    <3>1. CASE final
      BY <2>2, <3>1 DEF Fail
    <3>2. CASE ~final
      <4>1. /\ tries' = tries + 1
            /\ phase' = IF tries + 1 >= FetchAttempts THEN "given" ELSE "idle"
        BY <2>2, <3>2 DEF Fail
      <4> QED
        BY <4>1, RangeAssumption DEF IInv, Counts
    <3> QED
      BY <3>1, <3>2
  <2> QED
    BY <2>1, <2>2
<1>2. tries < FetchAttempts
  BY DEF IInv, Counts
<1> QED
  BY <1>1, <1>2, RangeAssumption DEF IInv, Counts, Phases, Ends

\* A fetch that is given up leaves nothing behind.
LEMMA GiveUpKeeps ==
  ASSUME IInv, NEW final \in BOOLEAN, GiveUp(final),
         phase \in {"probe", "stream", "parts", "check", "checked"},
         UNCHANGED <<outside, task, place, dead, crashes>>
  PROVE  IInv'
<1> USE DEF outside
<1>1. /\ file' = <<>> /\ stream' = NoStream /\ parts' = NoParts /\ place' = place
      /\ phase' \in {"off", "given", "idle"} /\ place = <<>>
  BY FailCounts DEF GiveUp, IInv, PlaceIsLast
<1>2. Shapes'
  BY <1>1, NothingIsShaped DEF Shapes
<1>3. Flags'
  BY DEF IInv, Flags, GiveUp
<1>4. Counts'
  BY FailCounts DEF GiveUp
<1>5. PartsAtWork'
  BY <1>1 DEF PartsAtWork, NoParts, NoPart
<1>6. Bounded(file)' /\ Bounded(place)' /\ PartsFilled' /\ FileFilled'
  BY <1>1 DEF Bounded, PartsFilled, FileFilled
<1>7. Unmixed'
  BY <1>1 DEF Unmixed, NoParts, NoPart
<1>8. PlaceIsLast'
  BY <1>1 DEF PlaceIsLast, NoHoles
<1> QED
  BY <1>2, <1>3, <1>4, <1>5, <1>6, <1>7, <1>8 DEF IInv

\* Where no file can be opened, one that was left over stays.
LEMMA OpenFailsKeeps == IInv /\ OpenFails => IInv'
<1> SUFFICES ASSUME IInv, OpenFails PROVE IInv'
  OBVIOUS
<1> USE DEF outside, local
<1>1. UNCHANGED <<outside, local, task, file, there, place, dead, crashes>> /\ phase = "idle"
  BY DEF OpenFails
<1>2. PICK final \in BOOLEAN : Fail(final)
  BY DEF OpenFails
<1>3. Counts' /\ phase' \in {"off", "given", "idle"}
  BY <1>1, <1>2, FailCounts
<1>4. Shapes' /\ Flags' /\ Bounded(file)' /\ Bounded(place)'
  BY <1>1 DEF IInv, Shapes, Flags, Bounded
<1>5. PartsAtWork' /\ PartsFilled' /\ FileFilled' /\ PlaceIsLast'
  BY <1>1, <1>3 DEF IInv, PartsAtWork, PartsFilled, FileFilled, PlaceIsLast, NoHoles
<1>6. Unmixed'
  BY <1>1, <1>3 DEF IInv, Unmixed
<1> QED
  BY <1>3, <1>4, <1>5, <1>6 DEF IInv

\* The source, those who cancel, and a crash.
LEMMA OutsideKeeps ==
  ASSUME IInv, Change \/ Cancel \/ Restart
  PROVE  IInv'
<1> USE DEF outside, local
<1>1. CASE Change
  <2>1. UNCHANGED <<local, task, phase, file, there, place, dead, tries, crashes>> /\ moved'
    BY <1>1 DEF Change
  <2>2. Flags' /\ Counts'
    <3>1. Flags'
      BY <2>1 DEF IInv, Flags
    <3>2. UNCHANGED <<task, phase, tries, crashes>>
      BY <2>1
    <3>3. source' \in Versions /\ changes' = changes + 1 /\ changes < MaxChanges
      BY <1>1 DEF Change
    <3>4. Counts'
      BY <3>2, <3>3, RangeAssumption DEF IInv, Counts
    <3> QED
      BY <3>1, <3>4
  <2>3. Unmixed'
    BY <2>1 DEF Unmixed
  <2>4. /\ Shapes' /\ Bounded(file)' /\ Bounded(place)' /\ PartsAtWork' /\ PartsFilled'
        /\ FileFilled' /\ PlaceIsLast'
    BY <2>1 DEF IInv, Shapes, Bounded, PartsAtWork, PartsFilled, PartFilled, FileFilled,
       PlaceIsLast, NoHoles, SizeIsRight, NotEmpty, SumIsRight
  <2> QED
    BY <2>2, <2>3, <2>4 DEF IInv
<1>2. CASE Cancel
  <2>1. UNCHANGED <<outside, local, task, phase, file, there, place, tries, crashes>>
    BY <1>2 DEF Cancel
  <2>2. Flags' /\ Counts'
    <3>1. UNCHANGED <<source, task, phase, tries, changes, crashes>>
      BY <2>1
    <3>2. Counts'
      BY <3>1 DEF IInv, Counts
    <3>3. Flags'
      BY <1>2 DEF IInv, Flags, Cancel
    <3> QED
      BY <3>2, <3>3
  <2>3. /\ Shapes' /\ Bounded(file)' /\ Bounded(place)' /\ PartsAtWork' /\ PartsFilled'
        /\ FileFilled' /\ PlaceIsLast' /\ Unmixed'
    BY <2>1 DEF IInv, Shapes, Bounded, PartsAtWork, PartsFilled, PartFilled, FileFilled,
       PlaceIsLast, NoHoles, SizeIsRight, NotEmpty, SumIsRight, Unmixed
  <2> QED
    BY <2>2, <2>3 DEF IInv
<1>3. CASE Restart
  <2>1. /\ file' = file /\ stream' = NoStream /\ parts' = NoParts /\ place' = place
        /\ phase' = "idle" /\ place = <<>>
    BY <1>3 DEF Restart, IInv, PlaceIsLast
  <2>2. Shapes'
    BY <2>1, NothingIsShaped DEF IInv, Shapes
  <2>3. Flags' /\ Counts'
    <3>1. Flags'
      BY <1>3 DEF IInv, Flags, Restart
    <3>2. /\ UNCHANGED <<source, task, changes>> /\ tries' = 0 /\ phase' = "idle"
          /\ crashes' = crashes + 1 /\ crashes < MaxCrashes
      BY <1>3 DEF Restart
    <3>3. Counts'
      BY <3>2, RangeAssumption DEF IInv, Counts, Phases
    <3> QED
      BY <3>1, <3>3
  <2>4. PartsAtWork'
    BY <2>1 DEF PartsAtWork, NoParts, NoPart
  <2>5. Bounded(file)' /\ Bounded(place)' /\ PartsFilled' /\ FileFilled'
    BY <2>1 DEF IInv, Bounded, PartsFilled, FileFilled
  <2>7. Unmixed'
    BY <1>3, <2>1 DEF IInv, Unmixed, NoParts, NoPart, Restart
  <2>6. PlaceIsLast'
    BY <2>1 DEF PlaceIsLast, NoHoles
  <2> QED
    BY <2>2, <2>3, <2>4, <2>5, <2>6, <2>7 DEF IInv
<1> QED
  BY <1>1, <1>2, <1>3

-----------------------------------------------------------------------------
(* The steps of the fetch.                                                  *)

\* The first request, and a single stream.
LEMMA StreamKeeps ==
  ASSUME IInv, Open \/ Stream \/ StreamRead \/ StreamEnds
  PROVE  IInv'
<1> USE DEF outside, local
<1>1. Flags' /\ Counts'
  <2>1. Flags'
    BY DEF IInv, Flags, Open, Stream, StreamRead, StreamEnds
  <2>2. /\ UNCHANGED <<source, task, tries, changes, crashes>> /\ phase # "given"
        /\ phase' \in {"probe", "stream", "check"}
    BY DEF Open, Stream, StreamRead, StreamEnds
  <2>3. Counts'
    BY <2>2 DEF IInv, Counts, Phases
  <2> QED
    BY <2>1, <2>3
<1>2. /\ phase' # "parts" /\ phase # "parts" /\ parts' = parts /\ place' = place
      /\ place = <<>> /\ phase' \notin {"checked", "placed"}
      /\ source' = source /\ task' = task
  BY DEF IInv, PlaceIsLast, Open, Stream, StreamRead, StreamEnds
<1>3. PartsAtWork' /\ PartsFilled'
  BY <1>2 DEF IInv, PartsAtWork, PartsFilled
<1>4. PlaceIsLast' /\ Bounded(place)'
  BY <1>2 DEF PlaceIsLast, NoHoles, Bounded
<1>5. \A i \in PartIds : parts[i].pc # "read"
  BY <1>2 DEF IInv, PartsAtWork
<1>6. CASE Open
  <2>1. file' = <<>> /\ stream' = stream /\ phase' = "probe"
    BY <1>6 DEF Open
  <2>2. Shapes' /\ Bounded(file)' /\ FileFilled'
    BY <1>2, <2>1, NothingIsShaped DEF IInv, Shapes, Bounded, FileFilled
  <2>3. Unmixed'
    BY <1>2, <1>5, <2>1 DEF Unmixed
  <2> QED
    BY <1>1, <1>3, <1>4, <2>2, <2>3 DEF IInv
<1>7. CASE Stream
  <2>1. PICK total \in {0, SizeOf[source]} : stream' = [ver |-> source, n |-> 0, total |-> total]
    BY <1>7 DEF Stream
  <2>2. file = <<>> /\ file' = <<>> /\ phase' = "stream" /\ source \in Versions
    BY <1>7 DEF Stream, IInv, FileFilled, Counts
  <2>3. SizeOf[source] \in Nat
    BY <2>2, SourceAssumption
  <2>4. Shapes'
    BY <1>2, <2>1, <2>2, <2>3 DEF IInv, Shapes, Streams
  <2>5. Bounded(file)' /\ FileFilled'
    BY <2>1, <2>2, <2>3 DEF Bounded, FileFilled
  <2>6. Unmixed'
    BY <1>2, <1>5, <2>1, <2>2 DEF Unmixed
  <2> QED
    BY <1>1, <1>3, <1>4, <2>4, <2>5, <2>6 DEF IInv
<1>8. CASE StreamRead
  <2>1. /\ phase = "stream" /\ phase' = "stream" /\ moved' = moved
        /\ stream' = [stream EXCEPT !.n = @ + 1]
        /\ stream.ver \in Versions /\ stream.n = Len(file)
        /\ stream.n < SizeOf[stream.ver] /\ SizeOf[stream.ver] \in Nat
        /\ stream \in Streams /\ file \in Seq(Blocks)
    BY <1>8, SourceAssumption DEF StreamRead, IInv, FileFilled, Shapes
  <2>2. file' = Append(file, stream.ver)
    BY <1>8, <2>1 DEF StreamRead, Written
  <2>3. /\ file' \in Seq(Blocks) /\ Len(file') = Len(file) + 1
        /\ DOMAIN file' = 1..(Len(file) + 1) /\ DOMAIN file = 1..Len(file)
        /\ file'[Len(file) + 1] = stream.ver
        /\ \A b \in 1..Len(file) : file'[b] = file[b]
    BY <2>1, <2>2 DEF Blocks
  <2>4. stream' \in Streams /\ stream'.ver = stream.ver /\ stream'.n = Len(file) + 1
    BY <2>1 DEF Streams
  <2>5. Shapes'
    BY <1>2, <2>3, <2>4 DEF IInv, Shapes
  <2>6. stream.ver # Hole
    BY <2>1, SourceAssumption
  <2>7. Bounded(file)' /\ FileFilled'
    BY <2>1, <2>3, <2>4, <2>6 DEF IInv, Bounded, FileFilled
  <2>8. Unmixed'
    BY <1>2, <1>5, <2>1, <2>3, <2>4 DEF IInv, Unmixed
  <2> QED
    BY <1>1, <1>3, <1>4, <2>5, <2>7, <2>8 DEF IInv
<1>9. CASE StreamEnds
  <2>1. /\ UNCHANGED <<outside, local, file, place>>
        /\ phase = "stream" /\ phase' = "check"
    BY <1>9 DEF StreamEnds
  <2>2. Shapes' /\ Bounded(file)' /\ FileFilled' /\ Unmixed'
    BY <2>1 DEF IInv, Shapes, Bounded, FileFilled, Unmixed
  <2> QED
    BY <1>1, <1>3, <1>4, <2>2 DEF IInv
<1> QED
  BY <1>6, <1>7, <1>8, <1>9

\* A file is split into parts.
LEMMA SplitKeeps ==
  ASSUME IInv, Split
  PROVE  IInv'
<1> USE DEF outside, local
<1> DEFINE size == SizeOf[source]
<1>1. /\ phase = "probe" /\ phase' = "parts" /\ size >= RangeMin
      /\ file' = [b \in 1..size |-> Hole]
      /\ UNCHANGED <<outside, stream, cut, task, there, place, dead, tries, crashes>>
      /\ parts' = [i \in PartIds |-> [pc |-> "ask", from |-> From(i, size), to |-> To(i, size),
                                      ver |-> NoSum, upto |-> 0, att |-> 0]]
  BY DEF Split
<1>2. source \in Versions /\ size \in Nat /\ size >= RangeParts
  <2>1. source \in Versions
    BY DEF IInv, Counts
  <2>2. size \in Nat
    BY <2>1, SourceAssumption
  <2> QED
    BY <1>1, <2>1, <2>2, RangeAssumption
<1> HIDE DEF size
<1>3. /\ file' \in Seq(Blocks) /\ Len(file') = size /\ DOMAIN file' = 1..size
      /\ \A b \in 1..size : file'[b] = Hole
  BY <1>1, <1>2 DEF Blocks
<1>4. \A i \in PartIds : /\ From(i, size) \in Nat \ {0} /\ To(i, size) \in Nat
                         /\ From(i, size) <= To(i, size) + 1
  BY <1>2, RangesAreOrdered
<1>5. Flags' /\ Counts'
  <2>1. Flags'
    BY <1>1 DEF IInv, Flags
  <2>2. UNCHANGED <<source, task, tries, changes, crashes>>
    BY <1>1
  <2>3. Counts'
    BY <1>1, <2>2 DEF IInv, Counts, Phases
  <2> QED
    BY <2>1, <2>3
<1>6. Shapes'
  <2>1. 0 \in 0..RangeAttempts
    BY RangeAssumption
  <2>2. parts' \in [PartIds -> Parts]
    BY <1>1, <1>4, <2>1 DEF Parts
  <2> QED
    BY <1>1, <1>3, <2>2 DEF IInv, Shapes
<1>7. Bounded(file)' /\ Bounded(place)'
  <2>1. \E v \in Versions : Len(file') <= SizeOf[v]
    BY <1>2, <1>3 DEF size
  <2> QED
    BY <1>1, <2>1 DEF IInv, Bounded
<1>8. PartsAtWork'
  BY <1>1, <1>4, RangeAssumption DEF PartsAtWork
<1>9. PartsFilled'
  <2>1. ASSUME NEW i \in PartIds PROVE PartFilled(i)'
    <3>1. parts'[i].from = From(i, size) /\ parts'[i].to = To(i, size)
      BY <1>1
    <3> QED
      BY <1>3, <1>4, <3>1 DEF PartFilled
  <2> QED
    BY <1>2, <1>3, <2>1 DEF PartsFilled
<1>10. FileFilled'
  BY <1>1 DEF FileFilled
<1>11. PlaceIsLast'
  BY <1>1 DEF IInv, PlaceIsLast, NoHoles
<1>12. Unmixed'
  <2>1. place = <<>> /\ place' = <<>>
    BY <1>1 DEF IInv, PlaceIsLast
  <2> QED
    BY <1>1, <1>3, <2>1 DEF Unmixed
<1> QED
  BY <1>5, <1>6, <1>7, <1>8, <1>9, <1>10, <1>11, <1>12 DEF IInv

\* The parts are joined, the file is checked and gets its place.
LEMMA JoinKeeps ==
  ASSUME IInv, Join \/ Checked \/ Rename
  PROVE  IInv'
<1> USE DEF outside, local
<1>1. Flags' /\ Counts'
  <2>1. Flags'
    BY DEF IInv, Flags, Join, Checked, Rename
  <2>2. /\ UNCHANGED <<source, task, tries, changes, crashes>> /\ phase # "given"
        /\ phase' \in {"check", "checked", "placed"}
    BY DEF Join, Checked, Rename
  <2>3. Counts'
    BY <2>2 DEF IInv, Counts, Phases, Ends
  <2> QED
    BY <2>1, <2>3
<1>2. CASE Join
  <2>1. /\ UNCHANGED <<outside, local, task, file, place>>
        /\ phase = "parts" /\ phase' = "check" /\ place = <<>>
        /\ \A i \in PartIds : parts[i].pc = "done"
    BY <1>2 DEF Join, IInv, PlaceIsLast
  <2>2. /\ Shapes' /\ Bounded(file)' /\ Bounded(place)' /\ PartsAtWork' /\ PartsFilled'
        /\ Unmixed'
    BY <2>1 DEF IInv, Shapes, Bounded, PartsAtWork, PartsFilled, Unmixed
  <2>3. ASSUME NEW b \in DOMAIN file PROVE file[b] # Hole
    <3>1. Len(file) \in Nat /\ Len(file) >= RangeParts /\ DOMAIN file = 1..Len(file)
      BY <2>1 DEF IInv, Shapes, PartsFilled
    <3>2. PICK i \in PartIds : From(i, Len(file)) <= b /\ b <= To(i, Len(file))
      BY <3>1, RangesCover
    <3>3. PartFilled(i) /\ parts[i].from = parts[i].to + 1
      BY <2>1 DEF IInv, PartsFilled, PartsAtWork
    <3>4. parts[i].to = To(i, Len(file)) /\ To(i, Len(file)) \in Nat /\ b \in Nat
      BY <3>1, <3>3, RangesAreOrdered DEF PartFilled
    <3> QED
      BY <3>2, <3>3, <3>4 DEF PartFilled
  <2>4. FileFilled' /\ PlaceIsLast'
    BY <2>1, <2>3 DEF IInv, FileFilled, PlaceIsLast, NoHoles
  <2> QED
    BY <1>1, <2>2, <2>4 DEF IInv
<1>3. CASE Checked
  <2>1. /\ UNCHANGED <<outside, local, task, file, place>>
        /\ phase = "check" /\ phase' = "checked"
        /\ SizeIsRight /\ NotEmpty /\ SumIsRight
    BY <1>3 DEF Checked
  <2>2. /\ Shapes' /\ Bounded(file)' /\ Bounded(place)' /\ PartsAtWork' /\ PartsFilled'
        /\ Unmixed' /\ FileFilled'
    BY <2>1 DEF IInv, Shapes, Bounded, PartsAtWork, PartsFilled, Unmixed, FileFilled
  <2>3. PlaceIsLast'
    BY <2>1 DEF IInv, PlaceIsLast, NoHoles, SizeIsRight, NotEmpty, SumIsRight
  <2> QED
    BY <1>1, <2>2, <2>3 DEF IInv
<1>4. CASE Rename
  <2>1. /\ phase = "checked" /\ phase' = "placed" /\ place' = file /\ file' = <<>>
        /\ stream' = NoStream /\ parts' = NoParts /\ UNCHANGED <<outside, task>>
    BY <1>4 DEF Rename
  <2>2. Shapes'
    BY <2>1, NothingIsShaped DEF IInv, Shapes
  <2>3. Bounded(file)' /\ Bounded(place)'
    BY <2>1 DEF IInv, Bounded
  <2>4. PartsAtWork'
    BY <2>1 DEF PartsAtWork, NoParts, NoPart
  <2>5. PartsFilled' /\ FileFilled'
    BY <2>1 DEF PartsFilled, FileFilled
  <2>6. PlaceIsLast'
    BY <2>1 DEF IInv, PlaceIsLast, FileFilled, NoHoles, SumIsRight, Whole
  <2>7. Unmixed'
    BY <2>1 DEF IInv, Unmixed, NoParts, NoPart
  <2> QED
    BY <1>1, <2>2, <2>3, <2>4, <2>5, <2>6, <2>7 DEF IInv
<1> QED
  BY <1>2, <1>3, <1>4

-----------------------------------------------------------------------------
(* The steps of a part.                                                     *)

\* What every step of a part leaves alone.
LEMMA PartIsLocal ==
  ASSUME IInv, NEW i \in PartIds, Part(i)
  PROVE  /\ UNCHANGED <<outside, stream, task, phase, there, place, dead, tries, crashes>>
         /\ phase = "parts" /\ parts[i].pc \in {"ask", "read"}
         /\ Flags' /\ Counts' /\ Bounded(place)' /\ FileFilled' /\ PlaceIsLast'
<1> USE DEF outside
<1>1. UNCHANGED <<outside, stream, task, phase, there, place, dead, tries, crashes>>
  BY DEF Part, Refused, Ask, Read, BodyEnds
<1>2. parts[i].pc \in {"ask", "read"}
  BY DEF Part, Refused, Ask, Read, BodyEnds
<1>3. phase = "parts"
  BY <1>2 DEF IInv, PartsAtWork
<1>4. Flags'
  <2>1. cut' \in BOOLEAN
    BY DEF Part, Refused, Ask, Read, BodyEnds, AttemptOver, IInv, Flags
  <2> QED
    BY <1>1, <2>1 DEF IInv, Flags
<1>5. Counts' /\ Bounded(place)'
  BY <1>1 DEF IInv, Counts, Bounded
<1>6. FileFilled' /\ PlaceIsLast'
  BY <1>1, <1>3 DEF IInv, FileFilled, PlaceIsLast, NoHoles
<1> QED
  BY <1>1, <1>2, <1>3, <1>4, <1>5, <1>6

\* An attempt is over, and the file as it was.
LEMMA AttemptKeeps ==
  ASSUME IInv, NEW i \in PartIds, Refused(i) \/ BodyEnds(i)
  PROVE  IInv'
<1> USE DEF outside
<1> DEFINE p == parts[i]
<1>1. /\ UNCHANGED <<outside, stream, task, phase, there, place, dead, tries, crashes>>
      /\ phase = "parts" /\ p.pc \in {"ask", "read"}
      /\ Flags' /\ Counts' /\ Bounded(place)' /\ FileFilled' /\ PlaceIsLast'
  BY PartIsLocal DEF Part
<1>2. file' = file
  BY DEF Refused, BodyEnds
<1> DEFINE cause(full) == IF cut \/ dead THEN "failed" ELSE IF full THEN "full"
                          ELSE IF p.att + 1 >= RangeAttempts THEN "failed" ELSE "ask"
<1>3. /\ parts \in [PartIds -> Parts] /\ p \in Parts
      /\ p.from <= p.to + 1 /\ p.att < RangeAttempts
  BY <1>1 DEF IInv, Shapes, PartsAtWork
<1>4. PICK pc \in {"ask", "done", "failed", "full"}, att \in 0..RangeAttempts :
        /\ parts' = [parts EXCEPT ![i] = [p EXCEPT !.pc = pc, !.att = att]]
        /\ pc = "ask" => att < RangeAttempts
        /\ pc = "done" => p.from = p.to + 1
  <2>1. p.from \in Nat /\ p.to \in Nat /\ p.att \in Nat /\ RangeAttempts \in Nat
    BY <1>3, RangeAssumption DEF Parts
  <2>2. PICK full \in BOOLEAN : AttemptOver(i, full)
    BY DEF Refused, BodyEnds
  <2>3. CASE p.from > p.to
    <3>1. parts' = [parts EXCEPT ![i] = [p EXCEPT !.pc = "done"]]
      BY <2>2, <2>3 DEF AttemptOver, After
    <3>2. [p EXCEPT !.pc = "done"] = [p EXCEPT !.pc = "done", !.att = p.att]
      BY <1>3 DEF Parts
    <3>3. p.from = p.to + 1 /\ p.att \in 0..RangeAttempts
      BY <1>3, <2>1, <2>3
    <3> QED
      BY <3>1, <3>2, <3>3
  <2>4. CASE ~(p.from > p.to)
    <3>1. p.att + 1 \in 0..RangeAttempts
      BY <1>3, <2>1
    <3>2. parts' = [parts EXCEPT ![i] = [p EXCEPT !.pc = cause(full), !.att = p.att + 1]]
      BY <2>2, <2>4 DEF AttemptOver, After
    <3>3. cause(full) \in {"failed", "full", "ask"}
      OBVIOUS
    <3>4. cause(full) = "ask" => ~(p.att + 1 >= RangeAttempts)
      OBVIOUS
    <3>5. ~(p.att + 1 >= RangeAttempts) => p.att + 1 < RangeAttempts
      BY <2>1
    <3> HIDE DEF cause
    <3> QED
      BY <3>1, <3>2, <3>3, <3>4, <3>5
  <2> QED
    BY <2>3, <2>4
<1>5. /\ parts' \in [PartIds -> Parts]
      /\ \A k \in PartIds : /\ parts'[k].from = parts[k].from /\ parts'[k].to = parts[k].to
                            /\ parts'[k].ver = parts[k].ver /\ parts'[k].upto = parts[k].upto
                            /\ k # i => parts'[k] = parts[k]
      /\ parts'[i].pc = pc /\ parts'[i].att = att
  BY <1>3, <1>4 DEF Parts
<1>6. Shapes' /\ Bounded(file)'
  BY <1>1, <1>2, <1>5 DEF IInv, Shapes, Bounded
<1>7. PartsAtWork'
  BY <1>1, <1>4, <1>5 DEF IInv, PartsAtWork
<1>8. PartsFilled'
  BY <1>1, <1>2, <1>5 DEF IInv, PartsFilled, PartFilled
<1>9. Unmixed'
  BY <1>1, <1>2, <1>4, <1>5 DEF IInv, Unmixed
<1> QED
  BY <1>1, <1>6, <1>7, <1>8, <1>9 DEF IInv

\* The rest of a part is promised.
LEMMA AskKeeps ==
  ASSUME IInv, NEW i \in PartIds, Ask(i)
  PROVE  IInv'
<1> USE DEF outside
<1> DEFINE p == parts[i]
           upto == IF SizeOf[source] < p.to THEN SizeOf[source] ELSE p.to
<1>1. /\ UNCHANGED <<outside, stream, task, phase, there, place, dead, tries, crashes>>
      /\ phase = "parts" /\ p.pc \in {"ask", "read"}
      /\ Flags' /\ Counts' /\ Bounded(place)' /\ FileFilled' /\ PlaceIsLast'
  BY PartIsLocal DEF Part
<1>2. /\ file' = file /\ p.pc = "ask"
      /\ parts' = [parts EXCEPT ![i].pc = "read", ![i].ver = source, ![i].upto = upto]
  BY DEF Ask
<1>3. /\ parts \in [PartIds -> Parts] /\ p \in Parts
      /\ source \in Versions /\ SizeOf[source] \in Nat
  BY SourceAssumption DEF IInv, Shapes, Counts
<1>4. upto \in Nat /\ upto <= p.to
  BY <1>3 DEF Parts
<1> HIDE DEF upto
<1>5. /\ parts' \in [PartIds -> Parts]
      /\ \A k \in PartIds : /\ parts'[k].from = parts[k].from /\ parts'[k].to = parts[k].to
                            /\ parts'[k].att = parts[k].att
                            /\ k # i => parts'[k] = parts[k]
      /\ parts'[i].pc = "read" /\ parts'[i].ver = source /\ parts'[i].upto = upto
  BY <1>2, <1>3, <1>4 DEF Parts
<1>6. Shapes' /\ Bounded(file)'
  BY <1>1, <1>2, <1>5 DEF IInv, Shapes, Bounded
<1>7. PartsAtWork'
  BY <1>1, <1>2, <1>3, <1>4, <1>5 DEF IInv, PartsAtWork
<1>8. PartsFilled'
  BY <1>1, <1>2, <1>5 DEF IInv, PartsFilled, PartFilled
<1>9. Unmixed'
  BY <1>1, <1>2, <1>5 DEF IInv, Unmixed
<1> QED
  BY <1>1, <1>6, <1>7, <1>8, <1>9 DEF IInv

\* Where a part writes, and that this is the first of its own holes.
LEMMA ReadFills ==
  ASSUME IInv, NEW i \in PartIds, Read(i)
  PROVE  /\ phase = "parts" /\ parts[i].from \in DOMAIN file
         /\ parts[i].from <= parts[i].to
         /\ file' = [file EXCEPT ![parts[i].from] = parts[i].ver]
         /\ file[parts[i].from] = Hole
<1> DEFINE p == parts[i]
<1>1. phase = "parts" /\ p.pc = "read" /\ p.from <= p.upto
  BY PartIsLocal DEF Part, Read
<1>2. /\ p \in Parts /\ file \in Seq(Blocks) /\ p.upto <= p.to
      /\ PartFilled(i) /\ Len(file) \in Nat
  BY <1>1 DEF IInv, Shapes, PartsAtWork, PartsFilled
<1>3. p.to <= Len(file)
  BY <1>2, RangesAreOrdered DEF PartFilled
<1>4. p.from \in Nat \ {0} /\ p.to \in Nat /\ p.upto \in Nat
  BY <1>2 DEF Parts
<1>5. p.from <= p.to /\ p.from \in DOMAIN file /\ p.from <= Len(file)
  BY <1>1, <1>2, <1>3, <1>4
<1>6. file' = [file EXCEPT ![p.from] = p.ver]
  BY <1>5 DEF Read, Written
<1>7. file[p.from] = Hole
  BY <1>2, <1>4, <1>5 DEF PartFilled
<1> QED
  BY <1>1, <1>5, <1>6, <1>7

\* A block of a part is written.
LEMMA ReadKeeps ==
  ASSUME IInv, NEW i \in PartIds, Read(i)
  PROVE  IInv'
<1> USE DEF outside
<1> DEFINE p == parts[i]
<1>1. /\ UNCHANGED <<outside, stream, task, phase, there, place, dead, tries, crashes>>
      /\ phase = "parts"
      /\ Flags' /\ Counts' /\ Bounded(place)' /\ FileFilled' /\ PlaceIsLast'
  BY PartIsLocal DEF Part
<1>2. /\ p.from \in DOMAIN file /\ p.from <= p.to
      /\ file' = [file EXCEPT ![p.from] = p.ver]
  BY ReadFills
<1>3. /\ parts \in [PartIds -> Parts] /\ p \in Parts /\ file \in Seq(Blocks)
      /\ p.pc = "read" /\ p.ver \in Versions /\ p.ver # Hole
  BY SourceAssumption DEF IInv, Shapes, PartsAtWork, Read
<1>4. p.from \in Nat \ {0} /\ p.to \in Nat
  BY <1>3 DEF Parts
<1>5. /\ file' \in Seq(Blocks) /\ Len(file') = Len(file) /\ DOMAIN file' = DOMAIN file
      /\ DOMAIN file = 1..Len(file) /\ Len(file) \in Nat
      /\ file'[p.from] = p.ver
      /\ \A b \in DOMAIN file : b # p.from => file'[b] = file[b]
  BY <1>2, <1>3 DEF Blocks
<1>6. /\ parts' \in [PartIds -> Parts]
      /\ \A k \in PartIds : k # i => parts'[k] = parts[k]
      /\ parts'[i].from = p.from + 1
      /\ \A k \in PartIds : /\ parts'[k].pc = parts[k].pc /\ parts'[k].to = parts[k].to
                            /\ parts'[k].ver = parts[k].ver /\ parts'[k].att = parts[k].att
                            /\ parts'[k].upto = parts[k].upto
  <2>1. parts' = [parts EXCEPT ![i].from = p.from + 1]
    BY DEF Read
  <2> DEFINE q == [p EXCEPT !.from = p.from + 1]
  <2>2. q \in Parts /\ q.from = p.from + 1
    <3>1. p.from + 1 \in Nat \ {0}
      BY <1>4
    <3>2. p \in Parts
      BY <1>3
    <3> QED
      BY <3>1, <3>2 DEF Parts
  <2>3. q.pc = p.pc /\ q.to = p.to /\ q.ver = p.ver /\ q.att = p.att /\ q.upto = p.upto
    BY <1>3 DEF Parts
  <2>4. parts' = [parts EXCEPT ![i] = q]
    BY <2>1
  <2> HIDE DEF q
  <2> QED
    BY <1>3, <2>2, <2>3, <2>4
<1>7. Shapes' /\ Bounded(file)'
  <2>1. file # <<>> /\ file' # <<>>
    BY <1>2, <1>5
  <2> QED
    BY <1>1, <1>5, <1>6, <2>1 DEF IInv, Shapes, Bounded
<1>8. PartsAtWork'
  <2>1. ASSUME NEW k \in PartIds
        PROVE  /\ parts'[k].from <= parts'[k].to + 1
               /\ parts'[k].pc = "done" => parts'[k].from = parts'[k].to + 1
    <3>1. CASE k = i
      BY <1>2, <1>3, <1>4, <1>6, <3>1
    <3>2. CASE k # i
      BY <1>6, <3>2 DEF IInv, PartsAtWork
    <3> QED
      BY <3>1, <3>2
  <2> QED
    BY <1>1, <1>6, <2>1 DEF IInv, PartsAtWork
<1>9. PartsFilled'
  <2>1. Len(file) >= RangeParts /\ \A k \in PartIds : PartFilled(k)
    BY <1>1 DEF IInv, PartsFilled
  <2>2. ASSUME NEW k \in PartIds PROVE PartFilled(k)'
    <3>1. CASE k = i
      <4>1. p.to = To(i, Len(file)) /\ From(i, Len(file)) <= p.from
        BY <2>1 DEF PartFilled
      <4>2. From(i, Len(file)) \in Nat
        BY <1>5, RangesAreOrdered
      <4>3. ASSUME NEW b \in DOMAIN file
            PROVE  /\ From(i, Len(file)) <= b /\ b < p.from + 1 => file'[b] # Hole
                   /\ p.from + 1 <= b /\ b <= p.to => file'[b] = Hole
        <5>1. b \in Nat
          BY <1>5
        <5>2. CASE b = p.from
          BY <1>3, <1>4, <1>5, <5>2
        <5>3. CASE b # p.from
          <6>1. file'[b] = file[b]
            BY <1>5, <5>3
          <6>2. /\ From(i, Len(file)) <= b /\ b < p.from => file[b] # Hole
                /\ p.from <= b /\ b <= p.to => file[b] = Hole
            BY <2>1 DEF PartFilled
          <6> QED
            BY <1>4, <4>2, <5>1, <5>3, <6>1, <6>2
        <5> QED
          BY <5>2, <5>3
      <4>4. From(i, Len(file)) <= p.from + 1
        BY <1>4, <4>1, <4>2
      <4> QED
        BY <1>5, <1>6, <3>1, <4>1, <4>3, <4>4 DEF PartFilled
    <3>2. CASE k # i
      <4>1. p.to = To(i, Len(file)) /\ From(i, Len(file)) <= p.from
        BY <2>1 DEF PartFilled
      <4>2. parts[k].to = To(k, Len(file)) /\ From(k, Len(file)) <= parts[k].from
        BY <2>1 DEF PartFilled
      <4>3. ~(From(k, Len(file)) <= p.from /\ p.from <= To(k, Len(file)))
        <5>1. i \in Nat /\ k \in Nat /\ (i < k \/ k < i)
          BY <3>2, RangeAssumption DEF PartIds
        <5>2. /\ From(k, Len(file)) \in Nat /\ To(k, Len(file)) \in Nat
              /\ From(i, Len(file)) \in Nat /\ To(i, Len(file)) \in Nat
              /\ i < k => To(i, Len(file)) < From(k, Len(file))
              /\ k < i => To(k, Len(file)) < From(i, Len(file))
          BY <1>5, RangesAreOrdered
        <5> QED
          BY <1>2, <1>4, <4>1, <5>1, <5>2
      <4>4. parts[k].from \in Nat /\ From(k, Len(file)) \in Nat /\ parts[k].from <= parts[k].to + 1
            /\ To(k, Len(file)) \in Nat
        BY <1>3, <1>5, RangesAreOrdered DEF IInv, PartsAtWork, Parts
      <4>5. ASSUME NEW b \in DOMAIN file
            PROVE  /\ From(k, Len(file)) <= b /\ b < parts[k].from => file'[b] # Hole
                   /\ parts[k].from <= b /\ b <= parts[k].to => file'[b] = Hole
        <5>1. b \in Nat
          BY <1>5
        <5>2. /\ From(k, Len(file)) <= b /\ b < parts[k].from => file[b] # Hole
              /\ parts[k].from <= b /\ b <= parts[k].to => file[b] = Hole
          BY <2>1 DEF PartFilled
        <5>3. CASE b = p.from
          BY <1>4, <4>2, <4>3, <4>4, <5>1, <5>3
        <5>4. CASE b # p.from
          BY <1>5, <5>2, <5>4
        <5> QED
          BY <5>3, <5>4
      <4> QED
        BY <1>5, <1>6, <3>2, <4>2, <4>5 DEF PartFilled
    <3> QED
      BY <3>1, <3>2
  <2> QED
    BY <1>5, <2>1, <2>2 DEF PartsFilled
<1>10. Unmixed'
  <2>1. ASSUME ~moved
        PROVE  /\ p.ver = source
               /\ \A b \in DOMAIN file : file'[b] \in {source, Hole}
    <3>1. p.ver = source /\ \A b \in DOMAIN file : file[b] \in {source, Hole}
      BY <1>1, <1>3, <2>1 DEF IInv, Unmixed
    <3> QED
      BY <1>5, <3>1
  <2> QED
    BY <1>1, <1>5, <1>6, <2>1 DEF IInv, Unmixed
<1> QED
  BY <1>1, <1>7, <1>8, <1>9, <1>10 DEF IInv

-----------------------------------------------------------------------------
(* Every step.                                                              *)

\* Every step, and a stutter, keeps the invariant.
LEMMA StepIInv == IInv /\ [Next]_vars => IInv'
<1> SUFFICES ASSUME IInv, [Next]_vars PROVE IInv'
  OBVIOUS
<1>1. CASE Change \/ Cancel \/ Restart
  BY <1>1, OutsideKeeps
<1>2. CASE Open \/ Stream \/ StreamRead \/ StreamEnds
  BY <1>2, StreamKeeps
<1>3. CASE Split
  BY <1>3, SplitKeeps
<1>4. CASE Join \/ Checked \/ Rename
  BY <1>4, JoinKeeps
<1>5. CASE ProbeFails \/ Unfit \/ StreamBreaks \/ JoinFailed \/ CheckFails \/ RenameFails
  <2>1. /\ phase \in {"probe", "stream", "parts", "check", "checked"}
        /\ UNCHANGED <<outside, task, place, dead, crashes>>
        /\ \E final \in BOOLEAN : GiveUp(final)
    BY <1>5 DEF ProbeFails, Unfit, StreamBreaks, JoinFailed, CheckFails, RenameFails
  <2> QED
    BY <2>1, GiveUpKeeps
<1>6. ASSUME NEW i \in PartIds, Part(i) PROVE IInv'
  BY <1>6, AttemptKeeps, AskKeeps, ReadKeeps DEF Part
<1>8. CASE OpenFails
  BY <1>8, OpenFailsKeeps
<1>7. CASE UNCHANGED vars
  BY <1>7 DEF IInv, vars, outside, local, Shapes, Flags, Counts, Bounded, PartsAtWork,
     PartsFilled, PartFilled, FileFilled, PlaceIsLast, NoHoles, SizeIsRight, NotEmpty,
     SumIsRight, Unmixed
<1> QED
  BY <1>1, <1>2, <1>3, <1>4, <1>5, <1>6, <1>7, <1>8 DEF Next, Fetch

\* The ranges of a file split for download are filled from their first blocks on, and
\* by their own parts (downloadRanged, downloadPart).
THEOREM Invariance == Spec => []IInv
<1>1. Init => IInv
  BY InitIInv
<1>2. IInv /\ [Next]_vars => IInv'
  BY StepIInv
<1> QED
  BY <1>1, <1>2, PTL DEF Spec

\* Every variable keeps its type, no part leaves its range and no attempt is beyond the
\* last (downloadPart).
THEOREM TypeCorrect == Spec => []TypeOK
<1>1. IInv => TypeOK
  <2> SUFFICES ASSUME IInv PROVE TypeOK
    OBVIOUS
  <2>1. \A f \in {file, place} : f # <<>> => \E v \in Versions : Len(f) <= SizeOf[v]
    BY DEF IInv, Bounded
  <2>2. stream.ver \in Versions \cup {NoSum} /\ stream.n \in Nat /\ stream.total \in Nat
    BY DEF IInv, Shapes, Streams
  <2>3. ASSUME NEW i \in PartIds
        PROVE  /\ parts[i].pc \in {"ask", "read", "done", "failed", "full"}
               /\ parts[i].from \in 1..(parts[i].to + 1)
               /\ parts[i].att \in 0..RangeAttempts
    <3>1. parts[i] \in Parts /\ parts[i].from <= parts[i].to + 1
      BY DEF IInv, Shapes, PartsAtWork
    <3> QED
      BY <3>1 DEF Parts
  <2>4. /\ source \in Versions /\ task \in Tasks /\ phase \in Phases
        /\ tries \in 0..FetchAttempts
        /\ changes \in 0..MaxChanges /\ crashes \in 0..MaxCrashes
    BY DEF IInv, Counts
  <2>5. file \in Seq(Blocks) /\ place \in Seq(Blocks)
    BY DEF IInv, Shapes
  <2> QED
    BY <2>1, <2>2, <2>3, <2>4, <2>5 DEF TypeOK, IInv, Flags
<1> QED
  BY <1>1, Invariance, PTL

\* What fill puts in place has no holes, and is of one version where there is a sum or
\* the source was left alone (fill, downloadRanged).
THEOREM PlacedSound == Spec => []PlacedIsSound
<1>1. IInv => PlacedIsSound
  <2> SUFFICES ASSUME IInv PROVE PlacedIsSound
    OBVIOUS
  <2>1. NoHoles
    BY DEF IInv, PlaceIsLast
  <2>2. ASSUME phase = "placed", task.sum = NoSum, ~moved, NEW b \in DOMAIN place
        PROVE  place[b] = place[1]
    <3>1. \A k \in DOMAIN place : place[k] = source
      BY <2>1, <2>2 DEF IInv, Unmixed, NoHoles
    <3>2. 1 \in DOMAIN place
      BY DEF IInv, Shapes
    <3> QED
      BY <3>1, <3>2
  <2>3. OneVersion
    BY <2>2 DEF OneVersion, IInv, PlaceIsLast
  <2> QED
    BY <2>1, <2>3 DEF PlacedIsSound
<1> QED
  BY <1>1, Invariance, PTL

\* The actions that change the blocks of the .part file.
LEMMA FileSteps ==
  ASSUME IInv, [Next]_vars, file' # file
  PROVE  \/ Open \/ Split \/ StreamRead \/ Rename
         \/ \E final \in BOOLEAN : GiveUp(final)
         \/ \E i \in PartIds : Read(i)
<1>1. ~(Change \/ Cancel \/ Restart \/ OpenFails \/ Stream \/ StreamEnds \/ Join \/ Checked)
  BY DEF Change, Cancel, Restart, OpenFails, Stream, StreamEnds, Join, Checked
<1>2. ASSUME NEW i \in PartIds, Part(i) PROVE Read(i)
  BY <1>2 DEF Part, Refused, Ask, BodyEnds
<1>3. ASSUME ProbeFails \/ Unfit \/ StreamBreaks \/ JoinFailed \/ CheckFails \/ RenameFails
      PROVE  \E final \in BOOLEAN : GiveUp(final)
  BY <1>3 DEF ProbeFails, Unfit, StreamBreaks, JoinFailed, CheckFails, RenameFails
<1> QED
  BY <1>1, <1>2, <1>3 DEF Next, Fetch, vars

\* Parts do not write over what was fetched, by themselves or by others (downloadPart).
THEOREM FetchedOnce == Spec => NoneTwice
<1>1. IInv /\ [Next]_vars =>
        [phase = "parts" /\ phase' = "parts" =>
           \A b \in DOMAIN file : file[b] # Hole => file'[b] = file[b]]_file
  <2> SUFFICES ASSUME IInv, [Next]_vars, file' # file, phase = "parts", phase' = "parts",
                      NEW b \in DOMAIN file, file[b] # Hole
               PROVE  file'[b] = file[b]
    OBVIOUS
  <2>1. ~(Open \/ Split \/ StreamRead \/ Rename)
    BY DEF Open, Split, StreamRead, Rename
  <2>2. ASSUME NEW final \in BOOLEAN PROVE ~GiveUp(final)
    BY DEF GiveUp, Fail
  <2>3. PICK i \in PartIds : Read(i)
    BY <2>1, <2>2, FileSteps
  <2>4. file' = [file EXCEPT ![parts[i].from] = parts[i].ver] /\ file[parts[i].from] = Hole
    BY <2>3, ReadFills
  <2>5. file \in Seq(Blocks)
    BY DEF IInv, Shapes
  <2> QED
    BY <2>4, <2>5
<1> QED
  BY <1>1, Invariance, PTL DEF Spec, NoneTwice

\* The blocks that were hashed are the blocks that are renamed (fill, renameIn).
THEOREM CheckedPlaced == Spec => CheckedIsPlaced
<1>1. IInv /\ [Next]_vars =>
        [(phase \in {"check", "checked"} /\ there') => file' = file]_file
  <2> SUFFICES ASSUME IInv, [Next]_vars, file' # file, phase \in {"check", "checked"}, there'
               PROVE  FALSE
    OBVIOUS
  <2>1. ~(Open \/ Split \/ StreamRead \/ Rename)
    BY DEF Open, Split, StreamRead, Rename
  <2>2. ASSUME NEW final \in BOOLEAN PROVE ~GiveUp(final)
    BY DEF GiveUp
  <2>3. ASSUME NEW i \in PartIds PROVE ~Read(i)
    BY ReadFills
  <2> QED
    BY <2>1, <2>2, <2>3, FileSteps
<1> QED
  BY <1>1, Invariance, PTL DEF Spec, CheckedIsPlaced

-----------------------------------------------------------------------------
(* Download implements Arrival.                                             *)

\* Without a change at the source no file is longer than what is there.
Fitting ==
  ~moved => Len(file) <= SizeOf[source] /\ Len(place) <= SizeOf[source]

\* Only renameIn touches the target.
LEMMA PlaceSteps == [Next]_vars /\ place' # place => Rename
  BY DEF Next, Fetch, vars, Change, Cancel, Restart, Open, OpenFails, ProbeFails, Unfit,
     Stream, Split, StreamRead, StreamEnds, StreamBreaks, Join, JoinFailed, Checked,
     CheckFails, RenameFails, Part, Refused, Ask, Read, BodyEnds

\* fetch begins with no file; otherwise only a change at the source makes another
\* version of it.
LEMMA SourceSteps ==
  ASSUME [Next]_vars, ~moved'
  PROVE  Open \/ (~moved /\ source' = source)
<1>1. CASE Change \/ Restart \/ Cancel \/ UNCHANGED vars
  BY <1>1 DEF Change, Restart, Cancel, vars, outside
<1>2. CASE Fetch
  BY <1>2 DEF Fetch, outside, Open, OpenFails, ProbeFails, Unfit, Stream, Split, StreamRead,
     StreamEnds, StreamBreaks, Join, JoinFailed, Checked, CheckFails, Rename, RenameFails
<1>3. ASSUME NEW i \in PartIds, Part(i)
      PROVE  UNCHANGED outside
  BY <1>3 DEF Part, Refused, Ask, Read, BodyEnds
<1> QED
  BY <1>1, <1>2, <1>3 DEF Next, outside

\* A download grows to the size of the version at the source and no further (download,
\* downloadRanged).
LEMMA FittingHolds == Spec => []Fitting
<1>1. Init => Fitting
  <2> SUFFICES ASSUME Init PROVE Fitting
    OBVIOUS
  <2>1. file = <<>> /\ place = <<>> /\ SizeOf[source] \in Nat
    BY SourceAssumption DEF Init
  <2> QED
    BY <2>1 DEF Fitting
<1>2. IInv /\ Fitting /\ [Next]_vars => Fitting'
  <2> SUFFICES ASSUME IInv, Fitting, [Next]_vars, ~moved'
               PROVE  Len(file') <= SizeOf[source'] /\ Len(place') <= SizeOf[source']
    BY DEF Fitting
  <2>1. CASE Open
    <3>1. file' = <<>> /\ place' = <<>> /\ SizeOf[source'] \in Nat
      BY <2>1, SourceAssumption DEF Open, IInv, PlaceIsLast, Counts
    <3> QED
      BY <3>1
  <2>2. CASE ~Open
    <3>1. ~moved /\ source' = source
      BY <2>2, SourceSteps
    <3>2. Len(file) <= SizeOf[source] /\ Len(place) <= SizeOf[source] /\ SizeOf[source] \in Nat
      BY <3>1, SourceAssumption DEF Fitting, IInv, Counts
    <3>3. Len(place') <= SizeOf[source]
      BY <3>2, PlaceSteps DEF Rename
    <3>4. ASSUME file' # file PROVE Len(file') <= SizeOf[source]
      <4>1. CASE Split
        BY <4>1, <3>2 DEF Split
      <4>2. CASE StreamRead
        <5>1. stream.ver = source /\ stream.n = Len(file) /\ Len(file) < SizeOf[source]
          BY <4>2, <3>1 DEF StreamRead, IInv, Unmixed, FileFilled
        <5>2. file' = Append(file, source) /\ file \in Seq(Blocks)
          BY <4>2, <5>1 DEF StreamRead, Written, IInv, Shapes
        <5> QED
          BY <5>1, <5>2, <3>2
      <4>3. CASE Rename \/ \E final \in BOOLEAN : GiveUp(final)
        BY <4>3, <3>2 DEF Rename, GiveUp
      <4>4. ASSUME NEW i \in PartIds, Read(i) PROVE Len(file') <= SizeOf[source]
        <5>1. file' = [file EXCEPT ![parts[i].from] = parts[i].ver]
          BY <4>4, ReadFills
        <5>2. file \in Seq(Blocks)
          BY DEF IInv, Shapes
        <5>3. Len(file') = Len(file)
          BY <5>1, <5>2
        <5> QED
          BY <5>3, <3>2
      <4> QED
        BY <3>4, <2>2, <4>1, <4>2, <4>3, <4>4, FileSteps
    <3> QED
      BY <3>1, <3>2, <3>3, <3>4
  <2> QED
    BY <2>1, <2>2
<1> QED
  BY <1>1, <1>2, Invariance, PTL DEF Spec

\* What was checked answers what was asked for.
LEMMA CheckedAnswers == IInv /\ Fitting /\ phase = "checked" => Target!Answers(file)
<1> SUFFICES ASSUME IInv, Fitting, phase = "checked" PROVE Target!Answers(file)
  OBVIOUS
<1>1. SizeIsRight /\ NotEmpty /\ SumIsRight
  BY DEF IInv, PlaceIsLast
<1>2. file \in Seq(Blocks) /\ \A b \in DOMAIN file : file[b] # Hole
  BY DEF IInv, Shapes, FileFilled
<1>3. file \in Seq(Versions)
  BY <1>2 DEF Blocks
<1>4. task.sum # NoSum => file = [b \in 1..SizeOf[task.sum] |-> task.sum]
  BY <1>1 DEF SumIsRight, Whole
<1>5. ~moved => \E v \in Versions : Len(file) <= SizeOf[v] /\ \A b \in DOMAIN file : file[b] = v
  BY <1>2 DEF IInv, Counts, Unmixed, Fitting
<1> QED
  BY <1>1, <1>3, <1>4, <1>5 DEF Target!Answers, SizeIsRight, NotEmpty

\* Arrives holds of every execution: parts, holes, cut attempts and leftovers of a crash
\* are not to be seen from outside (pass and fetch of content/manager.go).
THEOREM Implements == Spec => Arrives
<1>1. Init => Target!Init
  BY DEF Init, Target!Init
<1>2. IInv /\ Fitting /\ [Next]_vars => [Target!Next]_(Target!avars)
  <2> SUFFICES ASSUME IInv, Fitting, [Next]_vars PROVE [Target!Next]_(Target!avars)
    OBVIOUS
  <2>1. CASE Change
    BY <2>1 DEF Change, Target!Next, Target!SourceMoves
  <2>2. CASE Open
    BY <2>2 DEF Open, Target!Next, Target!Begin
  <2>3. CASE Rename
    BY <2>3, CheckedAnswers DEF Rename, outside, Target!Next, Target!Arrive, Target!Answers
  <2>4. CASE Restart
    <3>1. phase \in Phases
      BY DEF IInv, Counts
    <3> QED
      BY <2>4, <3>1 DEF Restart, Phases, Ends, outside, Target!Next, Target!Forget
  <2>5. CASE \/ OpenFails \/ ProbeFails \/ Unfit \/ StreamBreaks \/ JoinFailed \/ CheckFails
             \/ RenameFails
    <3>1. /\ phase \in {"idle", "probe", "stream", "parts", "check", "checked"}
          /\ UNCHANGED <<moved, task, place>>
      BY <2>5 DEF outside, OpenFails, ProbeFails, Unfit, StreamBreaks, JoinFailed, CheckFails,
         RenameFails
    <3>2. PICK final \in BOOLEAN : Fail(final)
      BY <2>5 DEF OpenFails, ProbeFails, Unfit, StreamBreaks, JoinFailed, CheckFails,
         RenameFails, GiveUp
    <3>3. CASE dead
      BY <3>1, <3>2, <3>3 DEF Fail, Target!Next, Target!Leave
    <3>4. CASE ~dead
      <4>1. /\ tries' = tries + 1
            /\ phase' = IF final \/ tries + 1 >= FetchAttempts THEN "given" ELSE "idle"
        BY <3>2, <3>4 DEF Fail
      <4> QED
        BY <3>1, <4>1 DEF Target!Next, Target!Fail
    <3> QED
      BY <3>3, <3>4
  <2>6. CASE Cancel \/ Stream \/ Split \/ StreamRead \/ StreamEnds \/ Join \/ Checked
    BY <2>6 DEF Cancel, Stream, Split, StreamRead, StreamEnds, Join, Checked, outside,
       Target!avars
  <2>7. ASSUME NEW i \in PartIds, Part(i) PROVE UNCHANGED Target!avars
    BY <2>7 DEF Part, Refused, Ask, Read, BodyEnds, outside, Target!avars
  <2>8. CASE UNCHANGED vars
    BY <2>8 DEF vars, outside, Target!avars
  <2> QED
    BY <2>1, <2>2, <2>3, <2>4, <2>5, <2>6, <2>7, <2>8 DEF Next, Fetch
<1> QED
  BY <1>1, <1>2, Invariance, FittingHolds, PTL DEF Spec, Arrives, Target!Spec

\* Blocks are fetched once (downloadPart), and stay as they are from the check of the file
\* to its place (downloadRanged, fetch).
THEOREM BlocksKept == Spec => BlocksHold
BY FetchedOnce, CheckedPlaced DEF BlocksHold
=============================================================================
