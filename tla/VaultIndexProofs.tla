-------------------------- MODULE VaultIndexProofs --------------------------
(***************************************************************************)
(* Proofs about VaultIndex, for any vault, any filenames and any number of *)
(* callers: no change is forgotten, the id map is the one a rebuild would  *)
(* make, and a reindex that had to ask for its build returns a fresh index.*)
(***************************************************************************)
EXTENDS VaultIndex, SequenceTheorems, FiniteSetTheorems, WellFoundedInduction, TLAPS

\* What is on its way for a path apart from what the head of the queue does.
Later(p) ==
  p \in unseen \/ timer[p] # "none" \/ \E k \in 2..Len(queue) : queue[k].path = p
\* Only the head reads, and what it read stays right or is followed by an update.
ReadsFit ==
  /\ queue = <<>> => read = Unread
  /\ \A p \in Paths : read[p] \notin {NotRead, disk[p]} => Later(p)

\* What the watcher reports of a path as it is now.
Report(p) == IF disk[p] = Absent THEN "unlink" ELSE "change"
LastOf(p, k) == queue[k].path = p /\ \A j \in (k + 1)..Len(queue) : queue[j].path # p
\* Where no change is unseen, the last word on a path is what the vault says:
\* its timer's, or else that of its last update in the queue.
LastWord(p) ==
  p \notin unseen =>
    /\ timer[p] # "none" => timer[p] = Report(p)
    /\ timer[p] = "none" => \A k \in 1..Len(queue) : LastOf(p, k) => queue[k].kind = Report(p)

\* One build at a time, and the store knows of it.
BuildOnce ==
  \A k \in 1..Len(queue) : queue[k].kind = "build" =>
    building /\ \A j \in 1..Len(queue) : queue[j].kind = "build" => j = k
\* A build reads nothing before the calls that asked for it; what it read is
\* what the vault holds, or changed after the call.
OwnBuild ==
  \A c \in Callers \ joined : caller[c] = "waiting" /\ Head1("build") =>
    \A p \in Paths : read[p] \notin {NotRead, disk[p]} => p \in touched[c]

IndexInv ==
  TypeOK /\ ReadsFit /\ (\A p \in Paths : LastWord(p)) /\ BuildOnce /\ OwnBuild
-----------------------------------------------------------------------------
(* Sequences and the greatest of a set.                                    *)

\* A finite set of numbers has a greatest one.  By the well-foundedness of strict
\* inclusion: of the sets of elements from one on, the smallest starts there.
LEMMA Greatest ==
  ASSUME NEW S \in SUBSET Nat, IsFiniteSet(S), S # {}
  PROVE  \E n \in S : \A m \in S : m <= n
<1> DEFINE From(x) == {s \in S : x <= s}
           F == {From(x) : x \in S}
<1>1. F \subseteq FiniteSubsetsOf(S) /\ F # {}
  <2>1. F \subseteq SUBSET S /\ F # {}
    OBVIOUS
  <2> HIDE DEF F
  <2> QED BY <2>1, FS_FiniteSubsetsOfFinite
<1>2. IsWellFoundedOn(StrictSubsetOrdering(S), FiniteSubsetsOf(S))
  BY FS_StrictSubsetOrderingWellFounded
<1>3. PICK T \in F : \A U \in F : ~(<<U, T>> \in StrictSubsetOrdering(S))
  <2> HIDE DEF F
  <2> QED BY <1>1, <1>2, WFMin, Zenon
<1>4. PICK x \in S : T = From(x)
  BY <1>3
<1>5. ASSUME NEW y \in S, ~(y <= x) PROVE FALSE
  <2>1. x \in Nat /\ y \in Nat /\ x < y /\ \A s \in S : s \in Nat
    BY <1>5
  <2>2. \A s \in S : y <= s => x <= s
    BY <2>1
  <2>3. From(y) \subseteq From(x)
    BY <2>2
  <2>4. x \in From(x) /\ x \notin From(y)
    BY <2>1
  <2>5. From(x) \in SUBSET S /\ From(y) \in SUBSET S
    OBVIOUS
  <2> HIDE DEF From, F
  <2>6. <<From(y), From(x)>> \in StrictSubsetOrdering(S)
    BY <2>3, <2>4, <2>5 DEF StrictSubsetOrdering
  <2> USE DEF F
  <2> QED BY <1>3, <1>4, <2>6
<1> QED BY <1>5

\* The last of the notes that bear an id.
LEMMA LastFits ==
  ASSUME NEW S \in SUBSET Paths, S # {}
  PROVE  Last(S) \in S /\ \A q \in S : q <= Last(S)
<1>1. S \in SUBSET Nat /\ IsFiniteSet(S)
  BY FS_Subset, VaultIndexAssumption
<1>2. \E p \in S : \A q \in S : q <= p
  BY <1>1, Greatest
<1> QED BY <1>2 DEF Last

\* The last of a set of paths is the greatest.
LEMMA LastIs ==
  ASSUME NEW S \in SUBSET Paths, NEW p \in S, \A q \in S : q <= p PROVE Last(S) = p
<1>1. Last(S) \in S /\ p <= Last(S) /\ Last(S) <= p
  BY LastFits
<1>2. Last(S) \in Nat /\ p \in Nat
  BY <1>1, VaultIndexAssumption
<1> QED BY <1>1, <1>2

\* An id is held by a path or by nobody.
LEMMA HolderType ==
  ASSUME NEW n, NEW i PROVE HolderIn(n, i) \in Paths \union {Nobody}
<1>1. Bearers(n, i) \in SUBSET Paths
  BY DEF Bearers
<1> QED BY <1>1, LastFits DEF HolderIn

\* The queue's entries.
LEMMA Entries ==
  ASSUME TypeOK
  PROVE  /\ Len(queue) \in Nat
         /\ \A k \in 1..Len(queue) : queue[k] \in Work
         /\ queue # <<>> => Len(queue) >= 1 /\ Head(queue) = queue[1]
BY DEF TypeOK

\* Only updates are of a path.
LEMMA WorkFields ==
  ASSUME NEW w \in Work
  PROVE  \/ w.kind = "build" /\ w.path \notin Paths
         \/ w.kind \in {"change", "unlink"} /\ w.path \in Paths
BY VaultIndexAssumption DEF Work, Build, NoPath

\* An item joins the mutation queue.
LEMMA Appended ==
  ASSUME TypeOK, NEW w \in Work, queue' = Append(queue, w)
  PROVE  /\ queue' \in Seq(Work) /\ Len(queue') = Len(queue) + 1 /\ queue' # <<>>
         /\ queue'[Len(queue) + 1] = w
         /\ \A k \in 1..Len(queue) : queue'[k] = queue[k]
BY AppendProperties DEF TypeOK

\* The head of the mutation queue is done.
LEMMA Finished ==
  ASSUME TypeOK, queue # <<>>, queue' = Tail(queue)
  PROVE  /\ queue' \in Seq(Work) /\ Len(queue') = Len(queue) - 1
         /\ \A k \in 1..Len(queue') : queue'[k] = queue[k + 1]
BY HeadTailProperties DEF TypeOK
-----------------------------------------------------------------------------
(* Types.                                                                  *)

LEMMA InitType == ASSUME Init PROVE TypeOK
<1>1. <<>> \in Seq(Work) /\ 0 \in 0..MaxEdits
  BY VaultIndexAssumption
<1> QED BY <1>1 DEF Init, TypeOK, Unread, Empty, File

\* Dropping and adding a note keep the id map's type.
LEMMA MapsType ==
  ASSUME TypeOK, NEW p \in Paths
  PROVE  /\ Drops(ids, p) \in [Ids -> Paths \union {Nobody}]
         /\ Adds(ids, p) \in [Ids -> Paths \union {Nobody}]
         /\ Adds(Drops(ids, p), p) \in [Ids -> Paths \union {Nobody}]
BY DEF TypeOK, Drops, Adds

LEMMA TypeStep == ASSUME TypeOK, [Next]_vars PROVE TypeOK'
<1>1. ASSUME NEW p \in Paths, NEW file \in File, Edit(p, file) PROVE TypeOK'
  <2>1. edits' \in 0..MaxEdits
    BY <1>1, VaultIndexAssumption DEF Edit, TypeOK
  <2>2. touched' \in [Callers -> SUBSET Paths]
    BY <1>1 DEF Edit, TypeOK
  <2> QED BY <1>1, <2>1, <2>2 DEF Edit, TypeOK
<1>2. ASSUME NEW p \in Paths, Notice(p) PROVE TypeOK'
  BY <1>2 DEF Notice, TypeOK, calls
<1>3. ASSUME NEW p \in Paths, Fire(p) PROVE TypeOK'
  <2>1. [kind |-> timer[p], path |-> p] \in Work
    BY <1>3 DEF Fire, TypeOK, Work
  <2>2. queue' \in Seq(Work)
    BY <1>3, <2>1, Appended DEF Fire
  <2> QED BY <1>3, <2>2 DEF Fire, TypeOK, calls
<1>4. ASSUME NEW p \in Paths, Read(p) PROVE TypeOK'
  BY <1>4 DEF Read, TypeOK, watcher, calls
<1>5. ASSUME queue # <<>>, Finishes
      PROVE  queue' \in Seq(Work) /\ read' \in [Paths -> File \union {NotRead}]
  BY <1>5, Finished DEF Finishes, Unread
<1>6. CASE BuildDone
  <2>1. notes' \in [Paths -> File]
    <3>1. read \in [Paths -> File \union {NotRead}] /\ \A p \in Paths : read[p] # NotRead
      BY <1>6 DEF BuildDone, TypeOK
    <3> QED BY <1>6, <3>1 DEF BuildDone
  <2>2. ids' \in [Ids -> Paths \union {Nobody}]
    BY <1>6, HolderType DEF BuildDone
  <2>3. caller' \in [Callers -> {"idle", "waiting", "done"}]
    BY <1>6 DEF BuildDone, TypeOK
  <2> QED BY <1>5, <1>6, <2>1, <2>2, <2>3 DEF BuildDone, Head1, TypeOK, watcher
<1>7. CASE Changed
  <2> DEFINE p == Head(queue).path
  <2>1. p \in Paths
    BY <1>7, Entries, WorkFields DEF Changed, Head1
  <2>2. notes' \in [Paths -> File] /\ ids' \in [Ids -> Paths \union {Nobody}]
    <3>1. CASE UNCHANGED <<notes, ids>>
      BY <3>1 DEF TypeOK
    <3>2. CASE /\ ready /\ read[p] # Absent
               /\ notes' = [notes EXCEPT ![p] = read[p]]
               /\ ids' = Adds(IF notes[p] = Absent THEN ids ELSE Drops(ids, p), p)
      <4>1. read[p] \in File
        BY <1>7, <2>1, <3>2 DEF Changed, TypeOK
      <4> QED BY <2>1, <3>2, <4>1, MapsType DEF TypeOK
    <3> QED BY <1>7, <3>1, <3>2 DEF Changed
  <2>3. orphaned' \in SUBSET Ids
    BY <1>7 DEF Changed, TypeOK, OrphansIn
  <2> QED BY <1>5, <1>7, <2>2, <2>3 DEF Changed, Head1, TypeOK, watcher, calls
<1>8. CASE Unlinked
  <2> DEFINE p == Head(queue).path
  <2>1. p \in Paths
    BY <1>8, Entries, WorkFields DEF Unlinked, Head1
  <2>2. notes' \in [Paths -> File] /\ ids' \in [Ids -> Paths \union {Nobody}]
    BY <1>8, <2>1, MapsType DEF Unlinked, TypeOK, File
  <2>3. orphaned' \in SUBSET Ids
    BY <1>8 DEF Unlinked, TypeOK, OrphansIn
  <2> QED BY <1>5, <1>8, <2>2, <2>3 DEF Unlinked, Head1, TypeOK, watcher, calls
<1>9. ASSUME NEW c \in Callers, ForceReindex(c) PROVE TypeOK'
  <2>1. queue' \in Seq(Work)
    <3>1. Build \in Work
      BY DEF Work
    <3> QED BY <1>9, <3>1, Appended DEF ForceReindex, TypeOK
  <2>2. joined' \in SUBSET Callers
    BY <1>9 DEF ForceReindex, TypeOK
  <2>3. caller' \in [Callers -> {"idle", "waiting", "done"}]
    BY <1>9 DEF ForceReindex, TypeOK
  <2> QED BY <1>9, <2>1, <2>2, <2>3 DEF ForceReindex, TypeOK, watcher
<1>10. CASE UNCHANGED vars
  BY <1>10 DEF vars, TypeOK
<1> QED BY <1>1, <1>2, <1>3, <1>4, <1>6, <1>7, <1>8, <1>9, <1>10 DEF Next, Works

\* The index, its queue and its watcher keep their ranges.
THEOREM TypeCorrect == Spec => []TypeOK
BY InitType, TypeStep, PTL DEF Spec
-----------------------------------------------------------------------------
(* What was read, and the last word on each path.                          *)

\* The steps that leave the head of the queue where it is.
Goes == \/ \E p \in Paths, file \in File : Edit(p, file)
        \/ \E p \in Paths : Notice(p) \/ Fire(p) \/ Read(p)
        \/ \E c \in Callers : ForceReindex(c)
        \/ UNCHANGED vars
Ends == BuildDone \/ Changed \/ Unlinked

\* How a step moves the queue.
LEMMA QueueMoves ==
  ASSUME TypeOK, [Next]_vars
  PROVE  \/ Goes /\ queue' = queue
         \/ Goes /\ \E w \in Work : queue' = Append(queue, w)
         \/ /\ Ends /\ queue # <<>> /\ queue' = Tail(queue) /\ read' = Unread
            /\ UNCHANGED <<disk, watcher>>
<1>1. CASE Ends
  BY <1>1 DEF Ends, BuildDone, Changed, Unlinked, Head1, Finishes
<1>2. CASE Goes
  <2>1. ASSUME NEW p \in Paths, NEW file \in File, Edit(p, file) PROVE queue' = queue
    BY <2>1 DEF Edit
  <2>2. ASSUME NEW p \in Paths, Notice(p) \/ Read(p) PROVE queue' = queue
    BY <2>2 DEF Notice, Read
  <2>3. ASSUME NEW p \in Paths, Fire(p) PROVE \E w \in Work : queue' = Append(queue, w)
    <3>1. [kind |-> timer[p], path |-> p] \in Work
      BY <2>3 DEF Fire, TypeOK, Work
    <3> QED BY <2>3, <3>1 DEF Fire
  <2>4. ASSUME NEW c \in Callers, ForceReindex(c)
        PROVE  queue' = queue \/ \E w \in Work : queue' = Append(queue, w)
    <3>1. Build \in Work
      BY DEF Work
    <3> QED BY <2>4, <3>1 DEF ForceReindex
  <2>5. CASE UNCHANGED vars
    BY <1>2, <2>5 DEF vars
  <2> QED BY <1>2, <2>1, <2>2, <2>3, <2>4, <2>5 DEF Goes
<1> QED BY <1>1, <1>2 DEF Next, Works, Goes, Ends

\* What is on its way for a path stays so until the head is done.
LEMMA LaterStays ==
  ASSUME TypeOK, Goes, queue # <<>>, NEW q \in Paths, Later(q) PROVE Later(q)'
<1>1. Len(queue) \in Nat /\ Len(queue) >= 1
  BY Entries
<1>2. ASSUME queue' = queue \/ \E w \in Work : queue' = Append(queue, w),
             q \in unseen => q \in unseen', timer[q] # "none" => timer'[q] # "none"
      PROVE  Later(q)'
  <2>1. CASE q \in unseen \/ timer[q] # "none"
    BY <1>2, <2>1 DEF Later
  <2>2. CASE \E k \in 2..Len(queue) : queue[k].path = q
    <3>1. PICK k \in 2..Len(queue) : queue[k].path = q
      BY <2>2
    <3>2. k \in 2..Len(queue') /\ queue'[k] = queue[k]
      BY <1>1, <1>2, Appended
    <3> QED BY <3>1, <3>2 DEF Later
  <2> QED BY <2>1, <2>2 DEF Later
<1>3. ASSUME NEW p \in Paths, NEW file \in File, Edit(p, file) PROVE Later(q)'
  BY <1>2, <1>3 DEF Edit
<1>4. ASSUME NEW p \in Paths, Notice(p) PROVE Later(q)'
  <2>1. timer'[p] # "none" /\ \A r \in Paths \ {p} : timer'[r] = timer[r]
    BY <1>4 DEF Notice, TypeOK
  <2>2. CASE p = q
    BY <2>1, <2>2 DEF Later
  <2>3. CASE p # q
    BY <1>2, <1>4, <2>1, <2>3 DEF Notice
  <2> QED BY <2>2, <2>3
<1>5. ASSUME NEW p \in Paths, Fire(p) PROVE Later(q)'
  <2> DEFINE w == [kind |-> timer[p], path |-> p]
  <2>1. w \in Work /\ queue' = Append(queue, w) /\ w.path = p
        /\ \A r \in Paths \ {p} : timer'[r] = timer[r]
    BY <1>5 DEF Fire, TypeOK, Work
  <2> HIDE DEF w
  <2>2. CASE p = q
    <3>1. Len(queue') = Len(queue) + 1 /\ queue'[Len(queue) + 1] = w
      BY <2>1, Appended
    <3> QED BY <1>1, <2>1, <2>2, <3>1 DEF Later
  <2>3. CASE p # q
    BY <1>2, <1>5, <2>1, <2>3 DEF Fire
  <2> QED BY <2>2, <2>3
<1>6. ASSUME NEW p \in Paths, Read(p) PROVE Later(q)'
  BY <1>2, <1>6 DEF Read, watcher
<1>7. ASSUME NEW c \in Callers, ForceReindex(c) PROVE Later(q)'
  <2>1. Build \in Work
    BY DEF Work
  <2> QED BY <1>2, <1>7, <2>1 DEF ForceReindex, watcher
<1>8. CASE UNCHANGED vars
  BY <1>2, <1>8 DEF vars, watcher
<1> QED BY <1>3, <1>4, <1>5, <1>6, <1>7, <1>8 DEF Goes

\* What the head read stays right, or an update follows.
LEMMA ReadsStep == ASSUME IndexInv, [Next]_vars PROVE ReadsFit'
<1>1. TypeOK /\ ReadsFit
  BY DEF IndexInv
<1>2. CASE read' = Unread
  BY <1>2 DEF ReadsFit, Unread
<1>3. CASE Goes /\ (queue' = queue \/ \E w \in Work : queue' = Append(queue, w))
  <2>1. queue' = <<>> => read' = Unread
    <3>1. queue' = <<>> => queue = <<>>
      <4>1. ASSUME NEW w \in Work, queue' = Append(queue, w) PROVE queue' # <<>>
        BY <1>1, <4>1, Appended
      <4> QED BY <1>3, <4>1
    <3>2. queue = <<>> => read' = read
      BY <1>3 DEF Goes, Edit, Notice, Fire, Read, ForceReindex, vars
    <3> QED BY <1>1, <3>1, <3>2 DEF ReadsFit
  <2>2. ASSUME NEW q \in Paths, read'[q] \notin {NotRead, disk'[q]} PROVE Later(q)'
    <3>1. ASSUME read[q] \notin {NotRead, disk[q]} PROVE Later(q)'
      <4>1. queue # <<>> /\ Later(q)
        BY <1>1, <3>1 DEF ReadsFit, Unread
      <4> QED BY <1>1, <1>3, <4>1, LaterStays
    <3>2. ASSUME NEW p \in Paths, NEW file \in File, Edit(p, file) PROVE Later(q)'
      <4>1. CASE p = q
        BY <3>2, <4>1 DEF Edit, Later
      <4>2. CASE p # q
        BY <1>1, <2>2, <3>1, <3>2, <4>2 DEF Edit, TypeOK
      <4> QED BY <4>1, <4>2
    <3>3. ASSUME NEW p \in Paths, Read(p) PROVE Later(q)'
      <4>1. read' = [read EXCEPT ![p] = disk[p]] /\ disk' = disk
        BY <3>3 DEF Read
      <4>2. p # q /\ read'[q] = read[q]
        BY <1>1, <2>2, <4>1 DEF TypeOK
      <4> QED BY <2>2, <3>1, <4>1, <4>2
    <3> QED BY <1>3, <2>2, <3>1, <3>2, <3>3 DEF Goes, Notice, Fire, ForceReindex, vars
  <2> QED BY <2>1, <2>2 DEF ReadsFit
<1> QED BY <1>1, <1>2, <1>3, QueueMoves

\* An update of another path, or a build, is no word on this one.
LEMMA WordKept ==
  ASSUME TypeOK, NEW p \in Paths, LastWord(p), NEW w \in Work, w.path # p,
         queue' = queue \/ queue' = Append(queue, w),
         p \in unseen' <=> p \in unseen, timer'[p] = timer[p], disk'[p] = disk[p]
  PROVE  LastWord(p)'
<1>1. Report(p)' = Report(p)
  BY DEF Report
<1>2. CASE queue' = queue
  BY <1>1, <1>2 DEF LastWord, LastOf
<1>3. CASE queue' = Append(queue, w)
  <2>1. /\ Len(queue) \in Nat /\ Len(queue') = Len(queue) + 1
        /\ queue'[Len(queue) + 1] = w /\ \A k \in 1..Len(queue) : queue'[k] = queue[k]
    BY <1>3, Appended, Entries
  <2>2. ASSUME NEW k \in 1..Len(queue'), LastOf(p, k)'
        PROVE  k \in 1..Len(queue) /\ queue'[k] = queue[k] /\ LastOf(p, k)
    <3>1. queue'[k].path = p /\ \A j \in (k + 1)..Len(queue') : queue'[j].path # p
      BY <2>2 DEF LastOf
    <3>2. k \in 1..Len(queue) /\ queue'[k] = queue[k]
      BY <2>1, <3>1
    <3>3. \A j \in (k + 1)..Len(queue) :
            j \in (k + 1)..Len(queue') /\ j \in 1..Len(queue) /\ queue'[j] = queue[j]
      BY <2>1, <3>2
    <3>4. \A j \in (k + 1)..Len(queue) : queue[j].path # p
      BY <3>1, <3>3
    <3> QED BY <3>1, <3>2, <3>4 DEF LastOf
  <2>3. ASSUME p \notin unseen', timer'[p] # "none" PROVE timer'[p] = Report(p)'
    BY <1>1, <2>3 DEF LastWord
  <2>4. ASSUME p \notin unseen', timer'[p] = "none", NEW k \in 1..Len(queue'), LastOf(p, k)'
        PROVE  queue'[k].kind = Report(p)'
    BY <1>1, <2>2, <2>4 DEF LastWord
  <2> QED BY <2>3, <2>4 DEF LastWord
<1> QED BY <1>2, <1>3

\* The last word on a path stays the vault's.
LEMMA LastWordStep == ASSUME IndexInv, [Next]_vars, NEW p \in Paths PROVE LastWord(p)'
<1>1. TypeOK /\ LastWord(p) /\ Len(queue) \in Nat
  BY Entries DEF IndexInv
<1>2. Build \in Work /\ Build.path # p
  BY WorkFields, VaultIndexAssumption DEF Work, Build, NoPath
<1>3. ASSUME NEW q \in Paths, NEW file \in File, Edit(q, file) PROVE LastWord(p)'
  <2>1. CASE q = p
    BY <1>3, <2>1 DEF Edit, LastWord
  <2>2. CASE q # p
    BY <1>1, <1>2, <1>3, <2>2, WordKept DEF Edit, TypeOK
  <2> QED BY <2>1, <2>2
<1>4. ASSUME NEW q \in Paths, Notice(q) PROVE LastWord(p)'
  <2>1. CASE q = p
    <3>1. timer'[p] = Report(p)' /\ timer'[p] # "none"
      BY <1>1, <1>4, <2>1 DEF Notice, Report, TypeOK
    <3> QED BY <3>1 DEF LastWord
  <2>2. CASE q # p
    BY <1>1, <1>2, <1>4, <2>2, WordKept DEF Notice, TypeOK
  <2> QED BY <2>1, <2>2
<1>5. ASSUME NEW q \in Paths, Fire(q) PROVE LastWord(p)'
  <2> DEFINE w == [kind |-> timer[q], path |-> q]
  <2>1. w \in Work /\ queue' = Append(queue, w) /\ w.path = q /\ w.kind = timer[q]
        /\ timer'[q] = "none"
    BY <1>1, <1>5 DEF Fire, TypeOK, Work
  <2> HIDE DEF w
  <2>2. CASE q = p
    <3>1. /\ Len(queue') = Len(queue) + 1 /\ queue'[Len(queue) + 1] = w
          /\ p \in unseen' <=> p \in unseen
          /\ timer[p] # "none" /\ Report(p)' = Report(p)
      BY <1>1, <1>5, <2>1, <2>2, Appended DEF Fire, Report
    <3>2. ASSUME NEW k \in 1..Len(queue'), LastOf(p, k)' PROVE k = Len(queue) + 1
      BY <1>1, <2>1, <2>2, <3>1, <3>2 DEF LastOf
    <3>3. p \notin unseen => timer[p] = Report(p)
      BY <1>1, <3>1 DEF LastWord
    <3> QED BY <2>1, <2>2, <3>1, <3>2, <3>3 DEF LastWord
  <2>3. CASE q # p
    BY <1>1, <1>5, <2>1, <2>3, WordKept DEF Fire, TypeOK
  <2> QED BY <2>2, <2>3
<1>6. ASSUME NEW q \in Paths, Read(q) PROVE LastWord(p)'
  BY <1>1, <1>2, <1>6, WordKept DEF Read, watcher
<1>7. ASSUME NEW c \in Callers, ForceReindex(c) PROVE LastWord(p)'
  BY <1>1, <1>2, <1>7, WordKept DEF ForceReindex, watcher
<1>8. CASE UNCHANGED vars
  BY <1>1, <1>2, <1>8, WordKept DEF vars, watcher
<1>9. ASSUME queue # <<>>, queue' = Tail(queue), UNCHANGED <<disk, watcher>> PROVE LastWord(p)'
  <2>1. /\ Len(queue') \in Nat /\ Len(queue') = Len(queue) - 1
        /\ \A k \in 1..Len(queue') : k + 1 \in 1..Len(queue) /\ queue'[k] = queue[k + 1]
    BY <1>1, <1>9, Finished, Entries
  <2>2. ASSUME NEW k \in 1..Len(queue'), LastOf(p, k)' PROVE LastOf(p, k + 1)
    <3>1. queue[k + 1].path = p /\ \A j \in (k + 1)..Len(queue') : queue'[j].path # p
      BY <2>1, <2>2 DEF LastOf
    <3>2. ASSUME NEW j \in (k + 2)..Len(queue) PROVE queue[j].path # p
      <4>1. j - 1 \in (k + 1)..Len(queue') /\ j - 1 \in 1..Len(queue') /\ (j - 1) + 1 = j
        BY <1>1, <2>1
      <4> QED BY <2>1, <3>1, <4>1
    <3> QED BY <3>1, <3>2 DEF LastOf
  <2> QED BY <1>1, <1>9, <2>1, <2>2 DEF LastWord, Report, watcher
<1> QED BY <1>1, <1>3, <1>4, <1>5, <1>6, <1>7, <1>8, <1>9, QueueMoves DEF Goes
-----------------------------------------------------------------------------
(* The builds.                                                             *)

IsBuild(k) == queue[k].kind = "build"

\* The head of a queue that grows stays.
LEMMA HeadStays ==
  ASSUME TypeOK, queue # <<>>, queue' = queue \/ \E w \in Work : queue' = Append(queue, w)
  PROVE  queue' # <<>> /\ Head(queue') = Head(queue)
<1>1. Len(queue) \in Nat /\ Len(queue) >= 1
  BY Entries
<1>2. ASSUME NEW w \in Work, queue' = Append(queue, w)
      PROVE  queue' # <<>> /\ Head(queue') = Head(queue)
  <2>1. queue' \in Seq(Work) /\ queue' # <<>> /\ queue'[1] = queue[1]
    BY <1>1, <1>2, Appended
  <2>2. Head(queue') = queue'[1] /\ Head(queue) = queue[1]
    BY <2>1, Entries
  <2> QED BY <2>1, <2>2
<1> QED BY <1>2

\* No second build is queued while there is one.
LEMMA BuildOnceStep == ASSUME IndexInv, [Next]_vars PROVE BuildOnce'
<1>1. TypeOK /\ BuildOnce /\ Len(queue) \in Nat
  BY Entries DEF IndexInv
<1>2. ASSUME queue' = queue, building => building' PROVE BuildOnce'
  BY <1>1, <1>2 DEF BuildOnce
<1>3. ASSUME NEW w \in Work, queue' = Append(queue, w), building => building',
             w.kind = "build" => ~building /\ building'
      PROVE  BuildOnce'
  <2>1. /\ Len(queue') = Len(queue) + 1 /\ queue'[Len(queue) + 1] = w
        /\ \A k \in 1..Len(queue) : queue'[k] = queue[k]
    BY <1>1, <1>3, Appended
  <2>2. CASE w.kind = "build"
    <3>1. \A k \in 1..Len(queue) : ~IsBuild(k)
      BY <1>1, <1>3, <2>2 DEF BuildOnce, IsBuild
    <3>2. \A k \in 1..Len(queue') : IsBuild(k)' => k = Len(queue) + 1
      BY <1>1, <2>1, <3>1 DEF IsBuild
    <3> QED BY <1>3, <2>2, <3>2 DEF BuildOnce, IsBuild
  <2>3. CASE w.kind # "build"
    <3>1. \A k \in 1..Len(queue') : IsBuild(k)' => k \in 1..Len(queue) /\ IsBuild(k)
      BY <1>1, <2>1, <2>3 DEF IsBuild
    <3> QED BY <1>1, <1>3, <3>1 DEF BuildOnce, IsBuild
  <2> QED BY <2>2, <2>3
<1>4. ASSUME queue # <<>>, queue' = Tail(queue), building' = building \/ IsBuild(1) PROVE BuildOnce'
  <2>1. /\ Len(queue') = Len(queue) - 1 /\ 1 \in 1..Len(queue)
        /\ \A k \in 1..Len(queue') : queue'[k] = queue[k + 1]
    BY <1>1, <1>4, Finished, Entries
  <2>2. \A k \in 1..Len(queue') : IsBuild(k)' => k + 1 \in 1..Len(queue) /\ IsBuild(k + 1)
    BY <1>1, <2>1 DEF IsBuild
  <2>3. CASE IsBuild(1)
    <3>1. \A k \in 1..Len(queue) : IsBuild(k) => k = 1
      BY <1>1, <2>1, <2>3 DEF BuildOnce, IsBuild
    <3>2. \A k \in 1..Len(queue') : ~IsBuild(k)'
      BY <2>1, <2>2, <3>1
    <3> QED BY <3>2 DEF BuildOnce, IsBuild
  <2>4. CASE building' = building
    <3>1. ASSUME NEW k \in 1..Len(queue'), IsBuild(k)', NEW j \in 1..Len(queue'), IsBuild(j)'
          PROVE  building' /\ j = k
      <4>1. /\ k + 1 \in 1..Len(queue) /\ IsBuild(k + 1)
            /\ j + 1 \in 1..Len(queue) /\ IsBuild(j + 1)
        BY <2>2, <3>1
      <4>2. building /\ j + 1 = k + 1
        BY <1>1, <4>1 DEF BuildOnce, IsBuild
      <4> QED BY <2>1, <2>4, <4>2
    <3> QED BY <3>1 DEF BuildOnce, IsBuild
  <2> QED BY <1>4, <2>3, <2>4
<1>5. ASSUME NEW p \in Paths, Fire(p) PROVE BuildOnce'
  <2> DEFINE w == [kind |-> timer[p], path |-> p]
  <2>1. w \in Work /\ queue' = Append(queue, w) /\ w.kind # "build"
    BY <1>1, <1>5 DEF Fire, TypeOK, Work
  <2> HIDE DEF w
  <2> QED BY <1>3, <1>5, <2>1 DEF Fire, calls
<1>6. ASSUME NEW c \in Callers, ForceReindex(c) PROVE BuildOnce'
  <2>1. Build \in Work
    BY DEF Work
  <2> QED BY <1>2, <1>3, <1>6, <2>1 DEF ForceReindex
<1>7. CASE Ends
  <2>1. queue # <<>> /\ queue' = Tail(queue) /\ Head(queue) = queue[1]
    BY <1>1, <1>7, Entries DEF Ends, BuildDone, Changed, Unlinked, Head1, Finishes
  <2>2. building' = building \/ IsBuild(1)
    BY <1>7, <2>1 DEF Ends, BuildDone, Changed, Unlinked, Head1, IsBuild, calls
  <2> QED BY <1>4, <2>1, <2>2
<1> QED BY <1>2, <1>5, <1>6, <1>7 DEF Next, Works, Ends, Edit, Notice, Read, vars, calls

\* A build reads nothing before the calls that asked for it.
LEMMA OwnBuildStep == ASSUME IndexInv, [Next]_vars PROVE OwnBuild'
<1>1. TypeOK /\ ReadsFit /\ BuildOnce /\ OwnBuild
  BY DEF IndexInv
<1> SUFFICES ASSUME NEW c \in Callers \ joined', caller'[c] = "waiting", Head1("build")',
                    NEW p \in Paths, read'[p] \notin {NotRead, disk'[p]}
             PROVE  p \in touched'[c]
  BY DEF OwnBuild
<1>2. ASSUME queue # <<>>, Head(queue).kind = "build", c \notin joined, caller[c] = "waiting",
             read[p] \notin {NotRead, disk[p]}, touched[c] \subseteq touched'[c]
      PROVE  p \in touched'[c]
  BY <1>1, <1>2 DEF OwnBuild, Head1
<1>3. ASSUME read' = read PROVE queue # <<>> /\ read[p] # NotRead
  BY <1>1, <1>3 DEF ReadsFit, Unread
<1>4. ASSUME queue' = queue \/ \E w \in Work : queue' = Append(queue, w), queue # <<>>
      PROVE  Head(queue).kind = "build"
  BY <1>1, <1>4, HeadStays DEF Head1
<1>5. ASSUME NEW q \in Paths, NEW file \in File, Edit(q, file) PROVE p \in touched'[c]
  <2>1. /\ read' = read /\ queue' = queue /\ caller' = caller /\ joined' = joined
        /\ disk' = [disk EXCEPT ![q] = file]
        /\ touched'[c] = touched[c] \union {q}
    BY <1>5 DEF Edit
  <2>2. CASE q = p
    BY <2>1, <2>2
  <2>3. CASE q # p
    BY <1>1, <1>2, <1>3, <1>4, <2>1, <2>3 DEF TypeOK
  <2> QED BY <2>2, <2>3
<1>6. ASSUME NEW q \in Paths, Read(q) PROVE p \in touched'[c]
  <2>1. /\ read' = [read EXCEPT ![q] = disk[q]] /\ disk' = disk /\ queue' = queue /\ queue # <<>>
        /\ caller' = caller /\ joined' = joined /\ touched' = touched
    BY <1>6 DEF Read, calls
  <2>2. read'[p] = read[p]
    BY <1>1, <2>1 DEF TypeOK
  <2> QED BY <1>2, <1>4, <2>1, <2>2
<1>7. ASSUME NEW d \in Callers, ForceReindex(d) PROVE p \in touched'[c]
  <2>1. read' = read /\ disk' = disk /\ touched' = touched /\ joined \subseteq joined'
    BY <1>7 DEF ForceReindex
  <2>2. queue # <<>> /\ Head(queue).kind = "build"
    <3>1. Build \in Work
      BY DEF Work
    <3> QED BY <1>3, <1>4, <1>7, <2>1, <3>1 DEF ForceReindex
  <2>3. building
    BY <1>1, <2>2, Entries DEF BuildOnce
  <2>4. d # c
    BY <1>7, <2>3 DEF ForceReindex
  <2>5. caller[c] = "waiting"
    BY <1>1, <1>7, <2>4 DEF ForceReindex, TypeOK
  <2> QED BY <1>2, <2>1, <2>2, <2>5
<1>8. ASSUME UNCHANGED <<read, disk, caller, touched, joined>>,
             queue' = queue \/ \E w \in Work : queue' = Append(queue, w)
      PROVE  p \in touched'[c]
  BY <1>2, <1>3, <1>4, <1>8
<1>9. CASE Ends
  BY <1>9 DEF Ends, BuildDone, Changed, Unlinked, Finishes, Unread
<1>10. ASSUME NEW q \in Paths, Notice(q) \/ Fire(q) PROVE p \in touched'[c]
  <2>1. Goes
    BY <1>10 DEF Goes
  <2>2. UNCHANGED <<read, disk, caller, touched, joined>>
    BY <1>10 DEF Notice, Fire, calls
  <2>3. queue' = queue \/ \E w \in Work : queue' = Append(queue, w)
    <3>1. CASE Notice(q)
      BY <3>1 DEF Notice
    <3>2. CASE Fire(q)
      <4>1. [kind |-> timer[q], path |-> q] \in Work
        BY <1>1, <3>2 DEF Fire, TypeOK, Work
      <4> QED BY <3>2, <4>1 DEF Fire
    <3> QED BY <1>10, <3>1, <3>2
  <2> QED BY <1>8, <2>2, <2>3
<1>11. CASE UNCHANGED vars
  BY <1>8, <1>11 DEF vars
<1> QED BY <1>5, <1>6, <1>7, <1>9, <1>10, <1>11 DEF Next, Works, Ends

LEMMA InitInv == ASSUME Init PROVE IndexInv
<1>1. queue = <<>> /\ read = Unread /\ Len(queue) = 0 /\ 1..0 = {}
  BY DEF Init
<1>2. ReadsFit
  BY <1>1 DEF ReadsFit, Unread
<1>3. (\A p \in Paths : LastWord(p)) /\ BuildOnce /\ OwnBuild
  BY <1>1 DEF Init, LastWord, BuildOnce, OwnBuild, Head1
<1> QED BY <1>2, <1>3, InitType DEF IndexInv

LEMMA InvStep == ASSUME IndexInv, [Next]_vars PROVE IndexInv'
<1>1. TypeOK
  BY DEF IndexInv
<1> QED BY <1>1, TypeStep, ReadsStep, LastWordStep, BuildOnceStep, OwnBuildStep DEF IndexInv

\* What was read is right or followed by an update, the last word on each path
\* is what the vault says, and the one build reads after those who asked for it.
THEOREM IndexInvAlways == Spec => []IndexInv
BY InitInv, InvStep, PTL DEF Spec

\* A reindex that had to ask for a build of its own returns an index that holds
\* whatever changed before the call.
THEOREM OwnReindexesAreFresh == Spec => FreshUnlessJoined
<1>1. ASSUME IndexInv, [Next]_vars, NEW c \in Callers \ joined, caller[c] = "waiting",
             caller'[c] = "done"
      PROVE  Fresh(c)
  <2>1. BuildDone
    <3>1. CASE \E d \in Callers : ForceReindex(d)
      BY <1>1, <3>1 DEF ForceReindex, IndexInv, TypeOK
    <3>2. CASE UNCHANGED caller
      BY <1>1, <3>2
    <3> QED BY <1>1, <3>1, <3>2 DEF Next, Works, Edit, Notice, Fire, Read, Changed, Unlinked, vars, calls
  <2>2. ASSUME NEW p \in Paths \ touched[c] PROVE notes'[p] = disk[p]
    <3>1. Head1("build") /\ notes' = read /\ read[p] # NotRead
      BY <2>1 DEF BuildDone
    <3>2. read[p] \in {NotRead, disk[p]}
      BY <1>1, <2>2, <3>1 DEF IndexInv, OwnBuild
    <3> QED BY <3>1, <3>2
  <2> QED BY <2>2 DEF Fresh
<1>2. IndexInv /\ [Next]_vars =>
        [\A c \in Callers \ joined :
           caller[c] = "waiting" /\ caller'[c] = "done" => Fresh(c)]_vars
  BY <1>1
<1> QED BY <1>2, IndexInvAlways, PTL DEF Spec, FreshUnlessJoined
-----------------------------------------------------------------------------
(* No change is forgotten.                                                 *)

\* What is on its way behind the head is on its way.
LEMMA LaterIsPending == ASSUME TypeOK, NEW q \in Paths, Later(q) PROVE Pending(q)
<1>1. 2..Len(queue) \subseteq DOMAIN queue
  BY Entries DEF TypeOK
<1> QED BY <1>1 DEF Later, Pending

\* What is to come for a path, of a queue that was not worked on.
LEMMA PendingKept ==
  ASSUME TypeOK, NEW q \in Paths, Pending(q),
         queue' = queue \/ \E w \in Work : queue' = Append(queue, w),
         q \in unseen => q \in unseen' \/ timer'[q] # "none",
         timer[q] # "none" => timer'[q] # "none" \/ \E k \in DOMAIN queue' : queue'[k].path = q,
         disk'[q] = disk[q], read'[q] \in {read[q], disk[q]}
  PROVE  Pending(q)'
<1>1. CASE q \in unseen \/ timer[q] # "none"
  BY <1>1 DEF Pending
<1>2. ASSUME NEW k \in DOMAIN queue PROVE k \in DOMAIN queue' /\ queue'[k] = queue[k]
  <2>1. Len(queue) \in Nat /\ DOMAIN queue = 1..Len(queue)
    BY DEF TypeOK
  <2>2. CASE queue' = queue
    BY <2>2
  <2>3. ASSUME NEW w \in Work, queue' = Append(queue, w)
        PROVE  k \in DOMAIN queue' /\ queue'[k] = queue[k]
    <3>1. /\ queue' \in Seq(Work) /\ Len(queue') = Len(queue) + 1
          /\ \A n \in 1..Len(queue) : queue'[n] = queue[n]
      BY <2>3, Appended
    <3>2. DOMAIN queue' = 1..(Len(queue) + 1)
      BY <3>1
    <3> QED BY <2>1, <3>1, <3>2
  <2> QED BY <2>2, <2>3
<1>3. ASSUME NEW k \in DOMAIN queue,
             \/ queue[k].path = q
             \/ queue[k].kind = "build" /\ (k > 1 \/ read[q] \in {NotRead, disk[q]})
      PROVE  Pending(q)'
  BY <1>2, <1>3 DEF Pending
<1> QED BY <1>1, <1>3 DEF Pending

\* A step that only goes on with the queue loses no update it still needs.
LEMMA PendingGoes ==
  ASSUME IndexInv, [Next]_vars, Goes, NEW q \in Paths, Pending(q), disk'[q] = disk[q] PROVE Pending(q)'
<1>1. TypeOK
  BY DEF IndexInv
<1>2. ASSUME NEW p \in Paths, NEW file \in File, Edit(p, file) PROVE Pending(q)'
  BY <1>1, <1>2, PendingKept DEF Edit
<1>3. ASSUME NEW p \in Paths, Notice(p) PROVE Pending(q)'
  <2>1. timer'[p] # "none" /\ \A r \in Paths \ {p} : timer'[r] = timer[r]
    BY <1>1, <1>3 DEF Notice, TypeOK
  <2>2. /\ q \in unseen => q \in unseen' \/ timer'[q] # "none"
        /\ timer[q] # "none" => timer'[q] # "none"
    BY <1>3, <2>1 DEF Notice
  <2> QED BY <1>1, <1>3, <2>2, PendingKept DEF Notice
<1>4. ASSUME NEW p \in Paths, Fire(p) PROVE Pending(q)'
  <2> DEFINE w == [kind |-> timer[p], path |-> p]
  <2>1. w \in Work /\ queue' = Append(queue, w) /\ w.path = p
        /\ \A r \in Paths \ {p} : timer'[r] = timer[r]
    BY <1>1, <1>4 DEF Fire, TypeOK, Work
  <2> HIDE DEF w
  <2>2. Len(queue) + 1 \in DOMAIN queue' /\ queue'[Len(queue) + 1].path = p
    BY <1>1, <2>1, Appended, Entries
  <2> QED BY <1>1, <1>4, <2>1, <2>2, PendingKept DEF Fire
<1>5. ASSUME NEW p \in Paths, Read(p) PROVE Pending(q)'
  <2>1. read'[q] \in {read[q], disk[q]}
    BY <1>1, <1>5 DEF Read, TypeOK
  <2> QED BY <1>1, <1>5, <2>1, PendingKept DEF Read, watcher
<1>6. ASSUME NEW c \in Callers, ForceReindex(c) PROVE Pending(q)'
  <2>1. queue' = queue \/ \E w \in Work : queue' = Append(queue, w)
    <3>1. Build \in Work
      BY DEF Work
    <3> QED BY <1>6, <3>1 DEF ForceReindex
  <2> QED BY <1>1, <1>6, <2>1, PendingKept DEF ForceReindex, watcher
<1>7. CASE UNCHANGED vars
  BY <1>1, <1>7, PendingKept DEF vars
<1> QED BY <1>2, <1>3, <1>4, <1>5, <1>6, <1>7 DEF Goes

\* The head is done: what was on its way apart from it still is.
LEMMA PendingEnds ==
  ASSUME TypeOK, queue # <<>>, queue' = Tail(queue), read' = Unread, UNCHANGED watcher,
         NEW q \in Paths,
         Later(q) \/ (Pending(q) /\ Head(queue).path # q /\ Head(queue).kind # "build")
  PROVE  Pending(q)'
<1>1. /\ Len(queue) \in Nat /\ Len(queue') = Len(queue) - 1 /\ queue' \in Seq(Work)
      /\ \A k \in 1..Len(queue') : queue'[k] = queue[k + 1]
      /\ Head(queue) = queue[1] /\ DOMAIN queue' = 1..Len(queue') /\ DOMAIN queue = 1..Len(queue)
  BY Finished, Entries DEF TypeOK
<1>2. CASE q \in unseen \/ timer[q] # "none"
  BY <1>2 DEF Pending, watcher
<1>3. ASSUME NEW k \in 2..Len(queue), queue[k].path = q \/ queue[k].kind = "build"
      PROVE  Pending(q)'
  <2>1. k - 1 \in DOMAIN queue' /\ queue'[k - 1] = queue[k]
    <3>1. k - 1 \in 1..Len(queue') /\ (k - 1) + 1 = k
      BY <1>1
    <3> QED BY <1>1, <3>1
  <2>2. read'[q] = NotRead
    BY DEF Unread
  <2> QED BY <1>3, <2>1, <2>2 DEF Pending
<1>4. CASE Later(q)
  BY <1>2, <1>3, <1>4 DEF Later
<1>5. CASE Pending(q) /\ Head(queue).path # q /\ Head(queue).kind # "build"
  <2>1. ASSUME NEW k \in DOMAIN queue,
               queue[k].path = q \/ queue[k].kind = "build"
        PROVE  k \in 2..Len(queue)
    BY <1>1, <1>5, <2>1
  <2> QED BY <1>2, <1>3, <1>5, <2>1 DEF Pending
<1> QED BY <1>4, <1>5

\* The head's own path: if it is not the last word, another is on its way.
LEMMA NotTheLastWord ==
  ASSUME IndexInv, queue # <<>>, NEW p \in Paths, Head(queue).path = p, Head(queue).kind # Report(p)
  PROVE  Later(p)
<1>1. /\ TypeOK /\ LastWord(p) /\ Len(queue) \in Nat /\ 1 \in 1..Len(queue) /\ Head(queue) = queue[1]
  BY Entries DEF IndexInv
<1> SUFFICES ASSUME p \notin unseen, timer[p] = "none" PROVE Later(p)
  BY DEF Later
<1>2. ~LastOf(p, 1)
  BY <1>1 DEF LastWord
<1> QED BY <1>1, <1>2 DEF LastOf, Later

\* A wrong note keeps an update on its way, or gets one.
LEMMA ForgottenStep == ASSUME IndexInv, NothingForgotten, [Next]_vars PROVE NothingForgotten'
<1>1. TypeOK /\ ReadsFit
  BY DEF IndexInv
<1> SUFFICES ASSUME ready', NEW q \in Paths, notes'[q] # disk'[q] PROVE Pending(q)'
  BY DEF NothingForgotten, Pending
<1>2. CASE Goes
  <2>1. UNCHANGED <<ready, notes>>
    BY <1>2 DEF Goes, Edit, Notice, Fire, Read, ForceReindex, vars
  <2>2. CASE disk'[q] = disk[q]
    BY <1>2, <2>1, <2>2, PendingGoes DEF NothingForgotten
  <2>3. CASE disk'[q] # disk[q]
    <3>1. PICK p \in Paths, file \in File : Edit(p, file)
      BY <1>2, <2>3 DEF Goes, Notice, Fire, Read, ForceReindex, vars
    <3>2. q = p
      BY <1>1, <2>3, <3>1 DEF Edit, TypeOK
    <3> QED BY <3>1, <3>2 DEF Edit, Pending
  <2> QED BY <2>2, <2>3
<1>3. ASSUME Ends
      PROVE  queue # <<>> /\ queue' = Tail(queue) /\ read' = Unread /\ UNCHANGED <<disk, watcher>>
  BY <1>3 DEF Ends, BuildDone, Changed, Unlinked, Head1, Finishes
<1>4. ASSUME Ends, Later(q) PROVE Pending(q)'
  BY <1>1, <1>3, <1>4, PendingEnds
<1>5. ASSUME Ends, ready, notes'[q] = notes[q], Head(queue).path # q, Head(queue).kind # "build"
      PROVE  Pending(q)'
  <2>1. Pending(q)
    BY <1>3, <1>5 DEF NothingForgotten
  <2> QED BY <1>1, <1>3, <1>5, <2>1, PendingEnds
<1>6. CASE BuildDone
  <2>1. notes' = read /\ read[q] # NotRead /\ disk' = disk
    BY <1>6 DEF BuildDone
  <2> QED BY <1>1, <1>4, <1>6, <2>1 DEF Ends, ReadsFit
<1>7. CASE Changed
  <2> DEFINE p == Head(queue).path
  <2>1. /\ queue # <<>> /\ Head(queue).kind = "change" /\ ready /\ disk' = disk
        /\ read[p] # NotRead
        /\ \/ read[p] # Absent /\ notes' = [notes EXCEPT ![p] = read[p]]
           \/ read[p] = Absent /\ notes' = notes
    BY <1>7 DEF Changed, Head1
  <2>2. p \in Paths
    BY <1>1, <2>1, Entries, WorkFields
  <2> HIDE DEF p
  <2>3. CASE p # q
    <3>1. notes'[q] = notes[q]
      BY <1>1, <2>1, <2>3 DEF TypeOK
    <3> QED BY <1>5, <1>7, <2>1, <2>3, <3>1 DEF Ends, p
  <2>4. CASE p = q /\ read[p] # disk[p]
    <3>1. Later(q)
      BY <1>1, <2>1, <2>2, <2>4 DEF ReadsFit
    <3> QED BY <1>4, <1>7, <3>1 DEF Ends
  <2>5. CASE p = q /\ read[p] = disk[p]
    <3>1. read[p] = Absent
      BY <1>1, <2>1, <2>2, <2>5 DEF TypeOK
    <3>2. Report(p) = "unlink"
      BY <2>5, <3>1 DEF Report
    <3>3. Later(q)
      BY <2>1, <2>2, <2>5, <3>2, NotTheLastWord DEF p
    <3> QED BY <1>4, <1>7, <3>3 DEF Ends
  <2> QED BY <2>3, <2>4, <2>5
<1>8. CASE Unlinked
  <2> DEFINE p == Head(queue).path
  <2>1. /\ queue # <<>> /\ Head(queue).kind = "unlink" /\ ready /\ disk' = disk
        /\ notes' = [notes EXCEPT ![p] = Absent] \/ (notes[p] = Absent /\ notes' = notes)
    BY <1>8 DEF Unlinked, Head1
  <2>2. p \in Paths
    BY <1>1, <2>1, Entries, WorkFields
  <2> HIDE DEF p
  <2>3. CASE p # q
    <3>1. notes'[q] = notes[q]
      BY <1>1, <2>1, <2>3 DEF TypeOK
    <3> QED BY <1>5, <1>8, <2>1, <2>3, <3>1 DEF Ends, p
  <2>4. CASE p = q
    <3>1. notes'[p] = Absent
      BY <1>1, <2>1, <2>2 DEF TypeOK
    <3>2. Report(p) = "change"
      BY <2>1, <2>4, <3>1 DEF Report
    <3>3. Later(q)
      BY <2>1, <2>2, <2>4, <3>2, NotTheLastWord DEF p
    <3> QED BY <1>4, <1>8, <3>3 DEF Ends
  <2> QED BY <2>3, <2>4
<1> QED BY <1>2, <1>6, <1>7, <1>8 DEF Next, Works, Goes

\* Whatever was coalesced, dropped while there was no index, read too early or
\* overtaken by a rebuild: a note the index shows differently from the vault has
\* work to come.
THEOREM ChangesAreNotForgotten == Spec => []NothingForgotten
<1>1. Init => NothingForgotten
  BY DEF Init, NothingForgotten
<1> QED BY <1>1, ForgottenStep, IndexInvAlways, PTL DEF Spec
-----------------------------------------------------------------------------
(* The id map.                                                             *)

\* The holder of an id is the last of its bearers, and 0 is nobody's path.
LEMMA HolderFits ==
  ASSUME NEW n, NEW i
  PROVE  /\ Bearers(n, i) \in SUBSET Paths /\ Nobody \notin Paths
         /\ HolderIn(n, i) = Nobody <=> Bearers(n, i) = {}
         /\ HolderIn(n, i) # Nobody => HolderIn(n, i) \in Bearers(n, i)
         /\ \A q \in Bearers(n, i) : q <= HolderIn(n, i)
         /\ \A p \in Bearers(n, i) :
              (\A q \in Bearers(n, i) : q <= p) => HolderIn(n, i) = p
<1>1. Bearers(n, i) \in SUBSET Paths /\ Nobody \notin Paths
  BY VaultIndexAssumption DEF Bearers, Nobody
<1>2. CASE Bearers(n, i) = {}
  BY <1>1, <1>2 DEF HolderIn
<1>3. CASE Bearers(n, i) # {}
  <2>1. HolderIn(n, i) = Last(Bearers(n, i))
    BY <1>3 DEF HolderIn
  <2>2. HolderIn(n, i) \in Bearers(n, i) /\ \A q \in Bearers(n, i) : q <= HolderIn(n, i)
    BY <1>1, <1>3, <2>1, LastFits
  <2>3. \A p \in Bearers(n, i) :
          (\A q \in Bearers(n, i) : q <= p) => HolderIn(n, i) = p
    BY <1>1, <2>1, LastIs
  <2> QED BY <1>1, <1>3, <2>2, <2>3
<1> QED BY <1>2, <1>3

\* A note is put in place.
LEMMA AddsHolder ==
  ASSUME TypeOK, NEW p \in Paths, NEW file \in File \ {Absent},
         notes' = [notes EXCEPT ![p] = file],
         ids' = Adds(IF notes[p] = Absent THEN ids ELSE Drops(ids, p), p),
         NEW i \in Ids, ids[i] = HolderIn(notes, i)
  PROVE  ids'[i] = HolderIn(notes', i)
<1>1. \A q \in Paths : notes'[q] = IF q = p THEN file ELSE notes[q]
  BY DEF TypeOK
<1>2. CASE i # IdOf[p]
  <2>1. Bearers(notes', i) = Bearers(notes, i)
    BY <1>1, <1>2 DEF Bearers
  <2>2. HolderIn(notes', i) = HolderIn(notes, i)
    BY <2>1 DEF HolderIn
  <2> QED BY <1>2, <2>2 DEF Adds, Drops
<1>3. CASE i = IdOf[p]
  <2> DEFINE h == ids[i]
             B == Bearers(notes, i)
  <2>1. Bearers(notes', i) = B \union {p}
    BY <1>1, <1>3 DEF Bearers
  <2>2. /\ B \in SUBSET Paths /\ p \in Nat /\ h \in Nat /\ Nobody \notin Paths
        /\ h = Nobody <=> B = {}
        /\ h # Nobody => h \in B
        /\ \A q \in B : q <= h /\ q \in Nat
    <3>1. /\ B \in SUBSET Paths /\ Nobody \notin Paths
          /\ HolderIn(notes, i) = Nobody <=> B = {}
          /\ HolderIn(notes, i) # Nobody => HolderIn(notes, i) \in B
          /\ \A q \in B : q <= HolderIn(notes, i)
      BY HolderFits
    <3>2. ids[i] \in Paths \union {Nobody}
      BY DEF TypeOK
    <3>3. Paths \subseteq Nat /\ Nobody \in Nat
      BY VaultIndexAssumption DEF Nobody
    <3> HIDE DEF B
    <3> QED BY <3>1, <3>2, <3>3
  <2>3. ids'[i] = IF h <= p THEN p ELSE h
    <3>1. CASE notes[p] = Absent
      BY <1>3, <3>1 DEF Adds
    <3>2. CASE notes[p] # Absent
      <4>1. p \in B
        BY <1>3, <3>2 DEF Bearers
      <4>2. p <= h
        BY <2>2, <4>1
      <4>3. Drops(ids, p)[i] = IF h = p THEN Nobody ELSE h
        BY <1>3 DEF Drops
      <4>4. ids'[i] = IF Drops(ids, p)[i] <= p THEN p ELSE Drops(ids, p)[i]
        BY <1>3, <3>2 DEF Adds
      <4> QED BY <2>2, <4>2, <4>3, <4>4 DEF Nobody
    <3> QED BY <3>1, <3>2
  <2> HIDE DEF h, B
  <2>4. CASE h <= p
    <3>1. \A q \in B \union {p} : q <= p
      BY <2>2, <2>4
    <3> QED BY <2>1, <2>3, <2>4, <3>1, HolderFits
  <2>5. CASE ~(h <= p)
    <3>1. h \in B
      BY <2>2, <2>5 DEF Nobody
    <3>2. \A q \in B \union {p} : q <= h
      BY <2>2, <2>5
    <3> QED BY <2>1, <2>3, <2>5, <3>1, <3>2, HolderFits
  <2> QED BY <2>4, <2>5
<1> QED BY <1>2, <1>3

\* A note is taken out.
LEMMA DropsHolder ==
  ASSUME TypeOK, NEW p \in Paths, notes' = [notes EXCEPT ![p] = Absent], ids' = Drops(ids, p),
         NEW i \in Ids, ids[i] = HolderIn(notes, i), i \notin OrphansIn(notes', ids')
  PROVE  ids'[i] = HolderIn(notes', i)
<1> DEFINE h == ids[i]
           B == Bearers(notes, i)
<1>1. Bearers(notes', i) = B \ {p}
  BY DEF TypeOK, Bearers
<1>2. /\ B \in SUBSET Paths /\ Nobody \notin Paths
      /\ h = Nobody <=> B = {}
      /\ h # Nobody => h \in B
      /\ \A q \in B : q <= h
  BY HolderFits
<1>3. ids'[i] = IF i = IdOf[p] /\ h = p THEN Nobody ELSE h
  BY DEF Drops
<1> HIDE DEF h, B
<1>4. CASE ids'[i] = Nobody
  <2>1. Bearers(notes', i) = {}
    BY <1>4 DEF OrphansIn
  <2> QED BY <1>4, <2>1, HolderFits
<1>5. CASE ids'[i] # Nobody
  <2>1. ids'[i] = h /\ h \in B /\ h # p
    <3>1. ids'[i] = h /\ h \in B /\ ~(i = IdOf[p] /\ h = p)
      BY <1>2, <1>3, <1>5
    <3>2. IdOf[h] = i
      BY <3>1 DEF B, Bearers
    <3> QED BY <3>1, <3>2
  <2>2. h \in B \ {p} /\ \A q \in B \ {p} : q <= h
    BY <1>2, <2>1
  <2> QED BY <1>1, <2>1, <2>2, HolderFits
<1> QED BY <1>4, <1>5

\* Each update of the id map is the rebuild's, ids whose holder left apart.
LEMMA IdsStep == ASSUME TypeOK, IdsAsRebuilt, [Next]_vars PROVE IdsAsRebuilt'
<1> SUFFICES ASSUME NEW i \in Ids \ orphaned' PROVE ids'[i] = HolderIn(notes', i)
  BY DEF IdsAsRebuilt, HolderIn, Bearers
<1>1. ASSUME i \notin orphaned PROVE ids[i] = HolderIn(notes, i)
  BY <1>1 DEF IdsAsRebuilt
<1>2. CASE UNCHANGED <<notes, ids>> /\ orphaned \subseteq orphaned'
  BY <1>1, <1>2
<1>3. CASE BuildDone
  BY <1>3 DEF BuildDone
<1>4. CASE Changed
  <2> DEFINE p == Head(queue).path
  <2>1. p \in Paths
    BY <1>4, Entries, WorkFields DEF Changed, Head1
  <2>2. i \notin orphaned
    BY <1>4 DEF Changed
  <2>3. CASE /\ ready /\ read[p] # Absent
             /\ notes' = [notes EXCEPT ![p] = read[p]]
             /\ ids' = Adds(IF notes[p] = Absent THEN ids ELSE Drops(ids, p), p)
    <3>1. read[p] \in File \ {Absent}
      BY <1>4, <2>1, <2>3 DEF Changed, TypeOK
    <3> QED BY <1>1, <2>1, <2>2, <2>3, <3>1, AddsHolder
  <2> QED BY <1>2, <1>4, <2>3 DEF Changed
<1>5. CASE Unlinked
  <2> DEFINE p == Head(queue).path
  <2>1. p \in Paths
    BY <1>5, Entries, WorkFields DEF Unlinked, Head1
  <2>2. i \notin orphaned /\ i \notin OrphansIn(notes', ids')
    BY <1>5 DEF Unlinked
  <2>3. CASE notes' = [notes EXCEPT ![p] = Absent] /\ ids' = Drops(ids, p)
    BY <1>1, <2>1, <2>2, <2>3, DropsHolder
  <2> QED BY <1>2, <1>5, <2>3 DEF Unlinked
<1> QED BY <1>2, <1>3, <1>4, <1>5
        DEF Next, Works, Edit, Notice, Fire, Read, ForceReindex, vars

\* The ids kept by single updates are those a rebuild would give, except for an
\* id whose holder left while another note bears it.
THEOREM IdsCorrect == Spec => []IdsAsRebuilt
<1>1. Init => IdsAsRebuilt
  BY DEF Init, IdsAsRebuilt, HolderIn, Bearers, Empty
<1> QED BY <1>1, IdsStep, TypeCorrect, PTL DEF Spec
=============================================================================
