----------------------------- MODULE VaultIndex -----------------------------
(***************************************************************************)
(* The in-memory index of the filesystem backend (core/src/fs-backend/      *)
(* index-store.ts) and the watcher that keeps it up to date                 *)
(* (vault-watcher.ts).  Full rebuilds and single-file updates run one at a  *)
(* time off one queue, but every one of them awaits reads of a vault that   *)
(* others change meanwhile; the watcher reports a change some time later.   *)
(*                                                                         *)
(* A path is a number, in the order the rebuild sorts paths by; it fixes    *)
(* the note's id and its basename.  Of a note's content only its links      *)
(* count.  Aliases and the frontmatter lookup are left out: like the        *)
(* basename lookup they are functions of the indexed notes.                 *)
(***************************************************************************)
EXTENDS Naturals, FiniteSets, Sequences

CONSTANTS
  Paths,
  Contents,
  Absent,     \* no note at the path
  Ids,
  IdOf,       \* the id a path's filename gives, if any
  NoId,
  Callers,    \* calls of obsidian_force_reindex
  MaxEdits    \* bound: changes of the vault

ASSUME VaultIndexAssumption ==
  /\ Paths \subseteq Nat \ {0} /\ IsFiniteSet(Paths)
  /\ Absent \notin Contents
  /\ NoId \notin Ids
  /\ IdOf \in [Paths -> Ids \union {NoId}]
  /\ MaxEdits \in Nat

VARIABLES
  disk,     \* the vault
  unseen,   \* changed paths the file watcher has not reported yet
  timer,    \* the watcher's debounce timers: the last event of each path
  queue,    \* the mutation queue; its head is being worked on
  read,     \* what the head has read of each path so far
  notes,    \* byPath
  ids,      \* byJdId
  ready,    \* status = "ready"
  building, \* inFlightBuild # null
  caller,   \* the reindex calls
  touched,  \* history: paths changed since the call was made
  joined,   \* history: calls that joined a build already under way
  orphaned, \* history: ids that had bearers but no holder since the last rebuild
  edits     \* changes of the vault so far

vars == <<disk, unseen, timer, queue, read, notes, ids, ready, building, caller,
          touched, joined, orphaned, edits>>
watcher == <<unseen, timer>>
calls == <<building, caller, touched, joined>>

Nobody == 0
NoPath == 0
NotRead == {Absent}
File == Contents \union {Absent}
Build == [kind |-> "build", path |-> NoPath]
Work == {Build} \union [kind : {"change", "unlink"}, path : Paths]
Unread == [p \in Paths |-> NotRead]

TypeOK ==
  /\ disk \in [Paths -> File]
  /\ unseen \in SUBSET Paths
  /\ timer \in [Paths -> {"none", "change", "unlink"}]
  /\ queue \in Seq(Work)
  /\ read \in [Paths -> File \union {NotRead}]
  /\ notes \in [Paths -> File]
  /\ ids \in [Ids -> Paths \union {Nobody}]
  /\ ready \in BOOLEAN /\ building \in BOOLEAN
  /\ caller \in [Callers -> {"idle", "waiting", "done"}]
  /\ touched \in [Callers -> SUBSET Paths]
  /\ joined \in SUBSET Callers
  /\ orphaned \in SUBSET Ids
  /\ edits \in 0..MaxEdits

Empty == [p \in Paths |-> Absent]

Init ==
  /\ disk \in [Paths -> File]
  /\ unseen = {}
  /\ timer = [p \in Paths |-> "none"]
  /\ queue = <<>>
  /\ read = Unread
  /\ notes = Empty
  /\ ids = [i \in Ids |-> Nobody]
  /\ ready = FALSE /\ building = FALSE
  /\ caller = [c \in Callers |-> "idle"]
  /\ touched = [c \in Callers |-> {}]
  /\ joined = {}
  /\ orphaned = {}
  /\ edits = 0
-----------------------------------------------------------------------------
(* The vault and its watcher.                                              *)

\* This server, a sync sidecar or a person creates, changes or deletes a note.
Edit(p, file) ==
  /\ edits < MaxEdits
  /\ file # disk[p]
  /\ disk' = [disk EXCEPT ![p] = file]
  /\ unseen' = unseen \union {p}
  /\ touched' = [c \in Callers |->
       IF caller[c] = "waiting" THEN touched[c] \union {p} ELSE touched[c]]
  /\ edits' = edits + 1
  /\ UNCHANGED <<timer, queue, read, notes, ids, ready, building, caller, joined, orphaned>>

\* Seeded fault: the event a timer was set for stays.
NoticeFirst(p) ==
  /\ p \in unseen
  /\ unseen' = unseen \ {p}
  /\ timer' = [timer EXCEPT ![p] = IF @ # "none" THEN @ ELSE
                                  IF disk[p] = Absent THEN "unlink" ELSE "change"]
  /\ UNCHANGED <<disk, queue, read, notes, ids, ready, orphaned, edits, calls>>
\* scheduleMutation: the path's timer starts anew, for the latest event.
Notice(p) ==
  /\ p \in unseen
  /\ unseen' = unseen \ {p}
  /\ timer' = [timer EXCEPT ![p] = IF disk[p] = Absent THEN "unlink" ELSE "change"]
  /\ UNCHANGED <<disk, queue, read, notes, ids, ready, orphaned, edits, calls>>

Fire(p) ==
  /\ timer[p] # "none"
  /\ timer' = [timer EXCEPT ![p] = "none"]
  /\ queue' = Append(queue, [kind |-> timer[p], path |-> p])
  /\ UNCHANGED <<disk, unseen, read, notes, ids, ready, orphaned, edits, calls>>
-----------------------------------------------------------------------------
(* The maps.                                                               *)

Bearers(n, i) == {p \in Paths : n[p] # Absent /\ IdOf[p] = i}
Last(S) == CHOOSE p \in S : \A q \in S : q <= p

\* Of several notes with one id the rebuild keeps the last.
HolderIn(n, i) == IF Bearers(n, i) = {} THEN Nobody ELSE Last(Bearers(n, i))

\* Seeded fault: an id is dropped whoever holds it.
DropsAny(held, p) == [i \in Ids |-> IF i = IdOf[p] THEN Nobody ELSE held[i]]
\* _removeFromForwardMaps: the id goes if this note is the one that holds it.
Drops(held, p) ==
  [i \in Ids |-> IF i = IdOf[p] /\ held[i] = p THEN Nobody ELSE held[i]]

\* _addToForwardMaps: only a later path takes an id from its holder.
Adds(held, p) == [i \in Ids |-> IF i = IdOf[p] /\ held[i] <= p THEN p ELSE held[i]]

\* Ids nobody holds although an indexed note bears them.
OrphansIn(n, held) == {i \in Ids : held[i] = Nobody /\ Bearers(n, i) # {}}
-----------------------------------------------------------------------------
(* The head of the queue is worked on.                                     *)

Head1(kind) == queue # <<>> /\ Head(queue).kind = kind
\* Seeded fault: what was read is kept for the next item.
FinishesKeeping == queue' = Tail(queue) /\ UNCHANGED read
Finishes == queue' = Tail(queue) /\ read' = Unread

\* A file is read: a rebuild reads all there are, an update its own.
Read(p) ==
  /\ queue # <<>> /\ read[p] = NotRead
  /\ Head1("build") \/ (Head1("change") /\ Head(queue).path = p /\ ready)
  /\ read' = [read EXCEPT ![p] = disk[p]]
  /\ UNCHANGED <<disk, watcher, queue, notes, ids, ready, calls, orphaned, edits>>

\* Seeded fault: the build under way is not forgotten when it is over.
BuildLingers ==
  /\ Head1("build")
  /\ \A p \in Paths : read[p] # NotRead
  /\ notes' = read
  /\ ids' = [i \in Ids |-> HolderIn(read, i)]
  /\ ready' = TRUE
  /\ caller' = [c \in Callers |-> IF caller[c] = "waiting" THEN "done" ELSE caller[c]]
  /\ orphaned' = {}
  /\ Finishes
  /\ UNCHANGED <<disk, watcher, building, touched, joined, edits>>
\* The new index is swapped in and everyone who waits for the build returns.
BuildDone ==
  /\ Head1("build")
  /\ \A p \in Paths : read[p] # NotRead
  /\ notes' = read
  /\ ids' = [i \in Ids |-> HolderIn(read, i)]
  /\ ready' = TRUE
  /\ building' = FALSE
  /\ caller' = [c \in Callers |-> IF caller[c] = "waiting" THEN "done" ELSE caller[c]]
  /\ orphaned' = {}
  /\ Finishes
  /\ UNCHANGED <<disk, watcher, touched, joined, edits>>

\* applyAddOrChange: a note is put in place of what the index had; if the file
\* is gone by now nothing happens.
Changed ==
  /\ Head1("change")
  /\ LET p == Head(queue).path IN
     /\ ready => read[p] # NotRead
     /\ \/ /\ ready /\ read[p] # Absent
           /\ notes' = [notes EXCEPT ![p] = read[p]]
           /\ ids' = Adds(IF notes[p] = Absent THEN ids ELSE Drops(ids, p), p)
        \/ /\ ~ready \/ read[p] = Absent
           /\ UNCHANGED <<notes, ids>>
  /\ orphaned' = orphaned \union OrphansIn(notes', ids')
  /\ Finishes
  /\ UNCHANGED <<disk, watcher, ready, calls, edits>>

\* applyUnlink.
Unlinked ==
  /\ Head1("unlink")
  /\ LET p == Head(queue).path IN
     IF ready /\ notes[p] # Absent
     THEN /\ notes' = [notes EXCEPT ![p] = Absent]
          /\ ids' = Drops(ids, p)
     ELSE UNCHANGED <<notes, ids>>
  /\ orphaned' = orphaned \union OrphansIn(notes', ids')
  /\ Finishes
  /\ UNCHANGED <<disk, watcher, ready, calls, edits>>
-----------------------------------------------------------------------------
\* obsidian_force_reindex: callers share a build that is queued or running.
ForceReindex(c) ==
  /\ caller[c] = "idle"
  /\ caller' = [caller EXCEPT ![c] = "waiting"]
  /\ building' = TRUE
  /\ \/ building /\ joined' = joined \union {c} /\ UNCHANGED queue
     \/ ~building /\ queue' = Append(queue, Build) /\ UNCHANGED joined
  /\ UNCHANGED <<disk, watcher, read, notes, ids, ready, touched, orphaned, edits>>

Works ==
  \/ \E p \in Paths : Notice(p) \/ Fire(p) \/ Read(p)
  \/ BuildDone \/ Changed \/ Unlinked

Next ==
  \/ Works
  \/ \E p \in Paths, file \in File : Edit(p, file)
  \/ \E c \in Callers : ForceReindex(c)

Spec == Init /\ [][Next]_vars

\* Timers fire, reads end and the queue is worked off.
FairSpec == Spec /\ WF_vars(Works)
-----------------------------------------------------------------------------
(* Properties.                                                             *)

\* What is still to come for a path: a change to report, a timer, an update,
\* or a rebuild that has yet to read it.
Pending(p) ==
  \/ p \in unseen \/ timer[p] # "none"
  \/ \E k \in DOMAIN queue :
       \/ queue[k].path = p
       \/ queue[k].kind = "build" /\ (k > 1 \/ read[p] \in {NotRead, disk[p]})

\* Latest-wins is enough (vault-watcher.ts 17-24): whatever was coalesced,
\* dropped while there was no index, read too early or overtaken by a rebuild,
\* a note the index shows differently from the vault has work to come.
NothingForgotten == ready => \A p \in Paths : notes[p] # disk[p] => Pending(p)

\* vault-watcher.ts 25-30: the maps kept by single updates are those a rebuild
\* would make of the same notes - except for an id whose holder left or moved
\* on while another note bears it: nobody is looked for to take its place.
IdsAsRebuilt == \A i \in Ids \ orphaned : ids[i] = HolderIn(notes, i)

\* obsidian_force_reindex is the way to wait before a query (tool-registry.ts
\* 268-271): when it returns, what changed before the call is in the index - for
\* every call that had to ask for a build of its own.  One that joined a build
\* begun before it may be told "rebuilt" and find the older index.
Fresh(c) == \A p \in Paths \ touched[c] : notes'[p] = disk[p]
FreshUnlessJoined ==
  [][\A c \in Callers \ joined :
       caller[c] = "waiting" /\ caller'[c] = "done" => Fresh(c)]_vars

\* Every reindex returns.
ReindexReturns == \A c \in Callers : caller[c] = "waiting" ~> caller[c] = "done"
=============================================================================
