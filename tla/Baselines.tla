----------------------------- MODULE Baselines -----------------------------
(***************************************************************************)
(* The baseline store (kernel/governance/baseline-store.ts) and the two     *)
(* ways its records follow their notes: the rename handler of               *)
(* governance/wiring.ts while the program runs, and the reconcile after a   *)
(* start for moves nobody saw (baseline-reconcile.ts).                      *)
(*                                                                         *)
(* A baseline is one acceptance: the note it was given to - its content     *)
(* carries the note's uid - and when.  Each is kept in a map and in a file  *)
(* named after the path; every change of a file is awaited, so accepts,     *)
(* rekeys and reconciles overlap.  A file is overwritten in place: a write  *)
(* that fails may have left the old file, the new one or half of it.        *)
(* Contents are not told apart.                                             *)
(***************************************************************************)
EXTENDS Naturals, FiniteSets

CONSTANTS
  Paths,
  Notes,       \* notes, named by their uid
  NoNote,      \* nothing lives at a path
  None,        \* no baseline
  Torn,        \* a file that does not read back
  Tasks,       \* bound: accepts and rekeys under way at a time
  MaxAccepts,  \* bound: acceptances
  MaxMoves,    \* bound: renames, copies and deletions
  MaxFaults,   \* bound: file operations that fail
  Home         \* where the notes are at first

ASSUME BaselinesAssumption ==
  /\ NoNote \notin Notes
  /\ IsFiniteSet(Tasks)
  /\ {None, Torn} \intersect [note : Notes, when : 1..MaxAccepts] = {}
  /\ None # Torn
  /\ MaxAccepts \in Nat /\ MaxMoves \in Nat /\ MaxFaults \in Nat
  /\ Home \in [Paths -> Notes \union {NoNote}]

VARIABLES
  at,        \* the vault: the note at each path
  cache,     \* BaselineStore.cache
  disk,      \* the baseline files
  task,      \* accepts and rekeys under way
  mounted,   \* "no", "loaded", or "resolved" once the reconcile was planned
  plan,      \* the repoints the reconcile still has to do
  clock,     \* acceptances so far
  moves,     \* renames, copies and deletions so far
  faults,    \* failed file operations so far
  overlapped,  \* history: an operation began on a path another was busy with
  stale        \* history: vault or acceptances changed since the plan was made

vars == <<at, cache, disk, task, mounted, plan, clock, moves, faults,
          overlapped, stale>>

Baseline == [note : Notes, when : 1..MaxAccepts]

Idle == [kind |-> "idle"]
\* An accept is busy with one path, a rekey with two; `repair' tells the
\* reconcile's rekeys from the rename handler's.
TaskRecords ==
  {Idle}
    \union [kind : {"saving", "saved"}, from : Paths, to : Paths, baseline : Baseline]
    \union [kind : {"moving", "removing"}, from : Paths, to : Paths,
            baseline : Baseline, repair : BOOLEAN]

TypeOK ==
  /\ at \in [Paths -> Notes \union {NoNote}]
  /\ cache \in [Paths -> Baseline \union {None}]
  /\ disk \in [Paths -> Baseline \union {None, Torn}]
  /\ task \in [Tasks -> TaskRecords]
  /\ mounted \in {"no", "loaded", "resolved"}
  /\ plan \in SUBSET (Paths \X Paths)
  /\ clock \in 0..MaxAccepts
  /\ moves \in 0..MaxMoves
  /\ faults \in 0..MaxFaults
  /\ overlapped \in BOOLEAN
  /\ stale \in BOOLEAN

Init ==
  /\ at = Home
  /\ cache = [p \in Paths |-> None]
  /\ disk = [p \in Paths |-> None]
  /\ task = [t \in Tasks |-> Idle]
  /\ mounted = "resolved"
  /\ plan = {}
  /\ clock = 0 /\ moves = 0 /\ faults = 0
  /\ overlapped = FALSE /\ stale = FALSE

Busy(p) == \E t \in Tasks : task[t] # Idle /\ p \in {task[t].from, task[t].to}
Repairing == \E t \in Tasks : task[t].kind \in {"moving", "removing"} /\ task[t].repair
Faults == faults < MaxFaults /\ faults' = faults + 1
\* A write over the file of p that fails: nothing, half or all of it was written.
FailsToWrite(p, b) == \E f \in {disk[p], Torn, b} : disk' = [disk EXCEPT ![p] = f]
Ends(t) == task' = [task EXCEPT ![t] = Idle]
-----------------------------------------------------------------------------
\* setBaseline for what was just read at the path: Accept, adopt, a silent advance.
Accept(t, p) ==
  /\ mounted # "no" /\ task[t] = Idle
  /\ at[p] # NoNote
  /\ clock < MaxAccepts
  /\ clock' = clock + 1
  /\ task' = [task EXCEPT ![t] = [kind |-> "saving", from |-> p, to |-> p,
                                  baseline |-> [note |-> at[p], when |-> clock + 1]]]
  /\ overlapped' = (overlapped \/ Busy(p))
  /\ UNCHANGED <<at, cache, disk, mounted, plan, moves, faults, stale>>

\* The file is written, under the path captured at the start.
AcceptWritten(t) ==
  /\ task[t].kind = "saving"
  /\ \/ /\ disk' = [disk EXCEPT ![task[t].to] = task[t].baseline]
        /\ task' = [task EXCEPT ![t] = [kind |-> "saved", from |-> task[t].to,
                                        to |-> task[t].to, baseline |-> task[t].baseline]]
        /\ UNCHANGED faults
     \/ Faults /\ Ends(t) /\ FailsToWrite(task[t].to, task[t].baseline)
  /\ UNCHANGED <<at, cache, mounted, plan, clock, moves, overlapped, stale>>

\* ... and then the map is set.
AcceptCached(t) ==
  /\ task[t].kind = "saved"
  /\ cache' = [cache EXCEPT ![task[t].to] = task[t].baseline]
  /\ stale' = TRUE
  /\ Ends(t)
  /\ UNCHANGED <<at, disk, mounted, plan, clock, moves, faults, overlapped>>

\* Seeded fault: the destination is not looked at.
MayRekeyOver(p, q) == p # q /\ cache[p] # None
\* rekey's guards: there is something to move, and the destination is free.
MayRekey(p, q) == p # q /\ cache[p] # None /\ cache[q] = None

\* rekey up to its first await: the map follows at once.
Rekeys(t, p, q, repair) ==
  /\ task[t] = Idle
  /\ cache' = [cache EXCEPT ![q] = cache[p], ![p] = None]
  /\ task' = [task EXCEPT ![t] = [kind |-> "moving", from |-> p, to |-> q,
                                  baseline |-> cache[p], repair |-> repair]]
  /\ overlapped' = (overlapped \/ Busy(p) \/ Busy(q))

\* The file under the new path is written.
Written(t) ==
  /\ disk' = [disk EXCEPT ![task[t].to] = task[t].baseline]
  /\ task' = [task EXCEPT ![t] = [kind |-> "removing", from |-> task[t].from,
                                  to |-> task[t].to, baseline |-> task[t].baseline,
                                  repair |-> task[t].repair]]
  /\ UNCHANGED <<cache, plan, faults, stale>>

\* Seeded fault: a failed write is swallowed and the claim kept.
KeepsTheClaim(t) ==
  /\ Faults
  /\ Ends(t)
  /\ FailsToWrite(task[t].to, task[t].baseline)
  /\ UNCHANGED <<cache, plan, stale>>

\* The write fails: the claim is rolled back; a reconcile is over.
RolledBack(t) ==
  /\ Faults
  /\ cache' = [cache EXCEPT ![task[t].to] = None, ![task[t].from] = task[t].baseline]
  /\ plan' = IF task[t].repair THEN {} ELSE plan
  /\ stale' = TRUE
  /\ Ends(t)
  /\ FailsToWrite(task[t].to, task[t].baseline)

MoveWritten(t) ==
  /\ task[t].kind = "moving"
  /\ Written(t) \/ RolledBack(t)
  /\ UNCHANGED <<at, mounted, clock, moves, overlapped>>

\* The file under the old path is removed, whatever it holds by now.
OldRemoved(t) ==
  /\ task[t].kind = "removing"
  /\ \/ disk' = [disk EXCEPT ![task[t].from] = None] /\ UNCHANGED faults
     \/ Faults /\ UNCHANGED disk
  /\ Ends(t)
  /\ UNCHANGED <<at, cache, mounted, plan, clock, moves, overlapped, stale>>
-----------------------------------------------------------------------------
(* Notes move, are copied and are deleted; the handler sees only renames.  *)

Moved == moves < MaxMoves /\ moves' = moves + 1 /\ stale' = TRUE

Rename(p, q) ==
  /\ at[p] # NoNote /\ at[q] = NoNote
  /\ Moved
  /\ at' = [at EXCEPT ![q] = at[p], ![p] = NoNote]
  /\ \/ mounted # "no" /\ MayRekey(p, q) /\ \E t \in Tasks : Rekeys(t, p, q, FALSE)
     \/ (mounted = "no" \/ ~MayRekey(p, q)) /\ UNCHANGED <<cache, task, overlapped>>
  /\ UNCHANGED <<disk, mounted, plan, clock, faults>>

Copy(p, q) ==
  /\ at[p] # NoNote /\ at[q] = NoNote
  /\ Moved
  /\ at' = [at EXCEPT ![q] = at[p]]
  /\ UNCHANGED <<cache, disk, task, mounted, plan, clock, faults, overlapped>>

Delete(p) ==
  /\ at[p] # NoNote
  /\ Moved
  /\ at' = [at EXCEPT ![p] = NoNote]
  /\ UNCHANGED <<cache, disk, task, mounted, plan, clock, faults, overlapped>>
-----------------------------------------------------------------------------
(* The program stops, starts and repairs.                                  *)

\* A file being written may be left half written.
Stop ==
  /\ mounted # "no"
  /\ mounted' = "no"
  /\ \E torn \in SUBSET {t \in Tasks : task[t].kind \in {"saving", "moving"}} :
       /\ faults + Cardinality(torn) <= MaxFaults
       /\ faults' = faults + Cardinality(torn)
       /\ disk' = [p \in Paths |-> IF \E t \in torn : task[t].to = p THEN Torn ELSE disk[p]]
  /\ cache' = [p \in Paths |-> None]
  /\ task' = [t \in Tasks |-> Idle]
  /\ plan' = {}
  /\ UNCHANGED <<at, clock, moves, overlapped, stale>>

\* wireGovernance: store.load() before anything listens; it skips torn files.
Start ==
  /\ mounted = "no"
  /\ mounted' = "loaded"
  /\ cache' = [p \in Paths |-> IF disk[p] = Torn THEN None ELSE disk[p]]
  /\ UNCHANGED <<at, disk, task, plan, clock, moves, faults, overlapped, stale>>

Lives(n) == {p \in Paths : at[p] = n}

\* The note at the path is not the one the baseline was given to.
Drifted(p) == cache[p] # None /\ at[p] # cache[p].note

\* Seeded fault: any note with the uid will do.
ResolvesToAny(p, q) == Drifted(p) /\ q \in Lives(cache[p].note) /\ cache[q] = None
\* The baseline at p can be told to belong at q, which has none.
Resolves(p, q) == Drifted(p) /\ Lives(cache[p].note) = {q} /\ cache[q] = None

\* planBaselineReconcile: of several that resolve to one note, the latest.
Repoints ==
  {r \in Paths \X Paths : Resolves(r[1], r[2]) /\
     \A p \in Paths : Resolves(p, r[2]) => cache[p].when <= cache[r[1]].when}

\* The metadata cache is complete: the reconcile is planned from one snapshot.
Resolved ==
  /\ mounted = "loaded"
  /\ mounted' = "resolved"
  /\ plan' = Repoints
  /\ stale' = FALSE
  /\ UNCHANGED <<at, cache, disk, task, clock, moves, faults, overlapped>>

\* ... and carried out one rekey at a time, each looking at the store again.
Repoint(r) ==
  /\ r \in plan /\ ~Repairing
  /\ plan' = plan \ {r}
  /\ \/ MayRekey(r[1], r[2]) /\ \E t \in Tasks : Rekeys(t, r[1], r[2], TRUE)
     \/ ~MayRekey(r[1], r[2]) /\ UNCHANGED <<cache, task, overlapped>>
  /\ UNCHANGED <<at, disk, mounted, clock, moves, faults, stale>>
-----------------------------------------------------------------------------
Continue == \E t \in Tasks :
  AcceptWritten(t) \/ AcceptCached(t) \/ MoveWritten(t) \/ OldRemoved(t)

Next ==
  \/ Continue
  \/ \E t \in Tasks, p \in Paths : Accept(t, p)
  \/ \E p, q \in Paths : Rename(p, q) \/ Copy(p, q)
  \/ \E p \in Paths : Delete(p)
  \/ Stop \/ Start \/ Resolved
  \/ \E r \in Paths \X Paths : Repoint(r)

Spec == Init /\ [][Next]_vars
-----------------------------------------------------------------------------
(* Properties.                                                             *)

HasFile(b) == \E p \in Paths : disk[p] = b
\* Where the file of the acceptance of p is: a rekey on its way to p has not
\* written there yet.
MovingTo(p) == {t \in Tasks : task[t].kind = "moving" /\ task[t].to = p}
FiledAt(p) == IF MovingTo(p) = {} THEN {p} ELSE {task[t].from : t \in MovingTo(p)}
\* A write over that file failed half-way, or put a later acceptance there.
TornOver(p) == \E q \in FiledAt(p) : disk[q] = Torn
Newer(f, b) == f \in Baseline /\ f.when > b.when
Superseded(p, b) == \E q \in FiledAt(p) : Newer(disk[q], b)

NoGap ==
  \A p \in Paths : cache[p] # None =>
    HasFile(cache[p]) \/ Superseded(p, cache[p]) \/ TornOver(p)

\* baseline-store.ts 28-29, 117-118: a file is removed only after its
\* replacement was written.  The removal takes no notice of what was written
\* under the old name since, so an acceptance can be left without a file.  But
\* as long as no operation began on a path another one was busy with, every
\* acceptance in the map has a file, through crashes, failed removals and
\* rekeys that fail: it lacks one only if a later acceptance was written over its
\* file, or half written by a write that failed.
NoGapUnlessOverlapped == ~overlapped => NoGap

\* An acceptance on record - in the map, or in the files while the program is
\* stopped - is given up only to a newer one.  It survives rekeys that fail or
\* are half done, restarts and repairs.  What takes it is a stop that finds its
\* file torn by a write of a newer acceptance over it, one that failed or one
\* the stop itself cut off; a torn file of any other path takes nothing.
OnRecord(p, b) == IF mounted = "no" THEN disk[p] = b ELSE cache[p] = b
AcceptancesSurvive ==
  [][\A p \in Paths, b \in Baseline : OnRecord(p, b) /\ ~overlapped' =>
       \/ \E q \in Paths : OnRecord(q, b)'
       \/ \E c \in Baseline, q \in {p} \union FiledAt(p) : c.when > b.when /\ OnRecord(q, c)'
       \/ mounted' = "no" /\ \E q \in FiledAt(p) : disk'[q] = Torn]_vars

\* A repair attaches an acceptance only to the one note it was given to, unless
\* notes or acceptances changed after the plan: the rekeys look at the store
\* again, never at the vault or at which acceptance they are moving.
Repairs(t) == task[t].kind = "moving" /\ task[t].repair
RepairsFollowTheNote ==
  [][\A t \in Tasks : task[t] = Idle /\ Repairs(t)' /\ ~stale =>
       Lives(task'[t].baseline.note) = {task'[t].to}]_vars

\* rekey's comment, baseline-store.ts 113-116: a refused rename protects a live
\* acceptance of the note now at that path.  The baseline found there may be
\* one a deleted note left behind.
RefusalProtectsTheOccupant ==
  [][\A p, q \in Paths :
       mounted # "no" /\ Rename(p, q) /\ cache[p] # None /\ cache[q] # None
         => cache[q].note = at'[q]]_vars

\* baseline-reconcile.ts 36-43: if runs keep being completed, a time comes from
\* which a completed run leaves no acceptance detached from its note although
\* the note is known and has none of its own.
Detached(p, q) ==
  cache[p] # None /\ Lives(cache[p].note) = {q} /\ p # q /\ cache[q] = None
RunCompleted == mounted = "resolved" /\ plan = {} /\ ~Repairing
=============================================================================
