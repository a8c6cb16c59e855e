-------------------------- MODULE BaselinesProofs --------------------------
(***************************************************************************)
(* Proofs about Baselines: typing, the inductive invariant that relates the *)
(* map, the files and the operations under way, and from it that no file is *)
(* missing, that acceptances survive and that repairs follow the note.      *)
(***************************************************************************)
EXTENDS Baselines, FiniteSetTheorems, TLAPS

Of(t) == {task[t].from, task[t].to}
Active(t) == task[t] # Idle

\* No two operations are busy with one path.
Alone == \A t, u \in Tasks : t # u /\ Active(t) /\ Active(u) => Of(t) \cap Of(u) = {}

\* The file of an acceptance: it holds it, or a later one was written over it,
\* or half of a later one.
Held(f, b) == f = b \/ f = Torn \/ Newer(f, b)

\* What an operation under way may rely on, by how far it has come.
SavingSound(t) == task[t].kind = "saving" =>
  /\ task[t].from = task[t].to
  /\ cache[task[t].to] # None =>
       Held(disk[task[t].to], cache[task[t].to]) /\ cache[task[t].to].when < task[t].baseline.when
SavedSound(t) == task[t].kind = "saved" =>
  /\ task[t].from = task[t].to
  /\ disk[task[t].to] = task[t].baseline
  /\ cache[task[t].to] # None => cache[task[t].to].when < task[t].baseline.when
MoveSound(t) == task[t].kind \in {"moving", "removing"} =>
  /\ task[t].from # task[t].to
  /\ cache[task[t].from] = None
  /\ cache[task[t].to] = task[t].baseline
  /\ task[t].kind = "moving" => Held(disk[task[t].from], task[t].baseline)
  /\ task[t].kind = "removing" => disk[task[t].to] = task[t].baseline
Sound(t) == SavingSound(t) /\ SavedSound(t) /\ MoveSound(t)

\* A path nobody is busy with has its acceptance in its file.
AtRest == \A p \in Paths : ~Busy(p) /\ cache[p] # None => Held(disk[p], cache[p])

\* No acceptance is from the future.
Clocked ==
  /\ \A p \in Paths : cache[p] # None => cache[p].when <= clock
  /\ \A p \in Paths : disk[p] \in Baseline => disk[p].when <= clock
  /\ \A t \in Tasks : Active(t) => task[t].baseline.when <= clock

Stopped == mounted = "no" =>
  /\ \A p \in Paths : cache[p] = None
  /\ \A t \in Tasks : task[t] = Idle
  /\ plan = {}

PathInv == ~overlapped => Alone /\ (\A t \in Tasks : Sound(t)) /\ AtRest
IInv == TypeOK /\ Clocked /\ Stopped /\ PathInv

PlanInv == ~stale =>
  \A r \in plan : /\ cache[r[1]] # None
                  /\ Lives(cache[r[1]].note) = {r[2]}
                  /\ \A s \in plan : (r[1] = s[1] => r = s) /\ r[2] # s[1]
-----------------------------------------------------------------------------
(* Typing.                                                                 *)

\* An operation under way names paths and an acceptance.
LEMMA Fields ==
  ASSUME TypeOK, NEW t \in Tasks, task[t].kind # "idle"
  PROVE  /\ task[t].from \in Paths /\ task[t].to \in Paths
         /\ task[t].baseline \in Baseline
         /\ task[t].kind \in {"moving", "removing"} => task[t].repair \in BOOLEAN
BY DEF TypeOK, TaskRecords, Idle

\* Idle is told by its kind, and is well formed.
LEMMA IdleKind ==
  ASSUME TypeOK
  PROVE  /\ Idle \in TaskRecords
         /\ \A t \in Tasks : Active(t) <=> task[t].kind # "idle"
BY DEF TypeOK, TaskRecords, Idle, Active

\* A baseline is of a note and has a time; having none is not one.
LEMMA BaselineFields ==
  /\ None \notin Baseline /\ Torn \notin Baseline /\ None # Torn
  /\ \A b \in Baseline : b.note \in Notes /\ b.when \in Nat /\ b # None /\ b # Torn
BY BaselinesAssumption DEF Baseline

\* A write that fails changes one file at most, to half a line or to what was
\* to be written.
LEMMA FailedWrite ==
  ASSUME TypeOK, NEW p \in Paths, NEW b \in Baseline, FailsToWrite(p, b)
  PROVE  /\ disk' \in [Paths -> Baseline \union {None, Torn}]
         /\ \A q \in Paths : q # p => disk'[q] = disk[q]
         /\ disk'[p] \in {disk[p], Torn, b}
<1>1. PICK f \in {disk[p], Torn, b} : disk' = [disk EXCEPT ![p] = f]
  BY DEF FailsToWrite
<1>2. f \in Baseline \union {None, Torn}
  BY DEF TypeOK
<1> QED BY <1>1, <1>2 DEF TypeOK

\* The file of an acceptance stays its file when a later one is written over it,
\* wholly or in part.
LEMMA HeldStays ==
  ASSUME NEW b \in Baseline, NEW c \in Baseline, b.when < c.when,
         NEW f, NEW g \in {f, Torn, c}, Held(f, b)
  PROVE  Held(g, b)
BY BaselineFields DEF Held, Newer

\* The records the operations move on to.
LEMMA NextRecords ==
  ASSUME NEW p \in Paths, NEW q \in Paths, NEW b \in Baseline, NEW r \in BOOLEAN
  PROVE  /\ [kind |-> "saving", from |-> p, to |-> p, baseline |-> b] \in TaskRecords
         /\ [kind |-> "saved", from |-> p, to |-> p, baseline |-> b] \in TaskRecords
         /\ [kind |-> "moving", from |-> p, to |-> q, baseline |-> b, repair |-> r] \in TaskRecords
         /\ [kind |-> "removing", from |-> p, to |-> q, baseline |-> b, repair |-> r] \in TaskRecords
BY DEF TaskRecords

\* A call that ends leaves an idle task.
LEMMA EndsType ==
  ASSUME TypeOK, NEW t \in Tasks, Ends(t)
  PROVE  task' \in [Tasks -> TaskRecords]
BY IdleKind DEF Ends, TypeOK

LEMMA FaultsType == ASSUME TypeOK, Faults PROVE faults' \in 0..MaxFaults
BY BaselinesAssumption DEF TypeOK, Faults

LEMMA MovedType == ASSUME TypeOK, Moved PROVE moves' \in 0..MaxMoves /\ stale' \in BOOLEAN
BY BaselinesAssumption DEF TypeOK, Moved

LEMMA RekeysType ==
  ASSUME TypeOK, NEW t \in Tasks, NEW p \in Paths, NEW q \in Paths, NEW r \in BOOLEAN,
         MayRekey(p, q), Rekeys(t, p, q, r)
  PROVE  /\ cache' \in [Paths -> Baseline \union {None}]
         /\ task' \in [Tasks -> TaskRecords]
         /\ overlapped' \in BOOLEAN
<1>1. cache[p] \in Baseline
  BY DEF MayRekey, TypeOK
<1>2. [kind |-> "moving", from |-> p, to |-> q, baseline |-> cache[p], repair |-> r] \in TaskRecords
  BY <1>1, NextRecords
<1>3. task' \in [Tasks -> TaskRecords]
  BY <1>2 DEF Rekeys, TypeOK
<1>4. cache' \in [Paths -> Baseline \union {None}]
  BY <1>1 DEF Rekeys, TypeOK
<1>5. overlapped' \in BOOLEAN
  BY DEF Rekeys, TypeOK, Busy
<1> QED BY <1>3, <1>4, <1>5

LEMMA AcceptType ==
  ASSUME TypeOK, NEW t \in Tasks, NEW p \in Paths, Accept(t, p) PROVE TypeOK'
<1> DEFINE b == [note |-> at[p], when |-> clock + 1]
<1>1. b \in Baseline /\ clock' \in 0..MaxAccepts
  <2>1. at[p] \in Notes /\ clock + 1 \in 1..MaxAccepts
    BY BaselinesAssumption DEF Accept, TypeOK
  <2> QED BY <2>1 DEF Baseline, Accept
<1>2. [kind |-> "saving", from |-> p, to |-> p, baseline |-> b] \in TaskRecords
  BY <1>1, NextRecords
<1>3. task' \in [Tasks -> TaskRecords]
  BY <1>2 DEF Accept, TypeOK
<1>4. overlapped' \in BOOLEAN
  BY DEF Accept, TypeOK, Busy
<1> QED BY <1>1, <1>3, <1>4 DEF TypeOK, Accept

LEMMA ContinueType ==
  ASSUME TypeOK, NEW t \in Tasks,
         AcceptWritten(t) \/ AcceptCached(t) \/ MoveWritten(t) \/ OldRemoved(t)
  PROVE  TypeOK'
<1>1. CASE AcceptWritten(t)
  <2>1. task[t].to \in Paths /\ task[t].baseline \in Baseline
    BY <1>1, Fields DEF AcceptWritten
  <2>4. [kind |-> "saved", from |-> task[t].to, to |-> task[t].to,
         baseline |-> task[t].baseline] \in TaskRecords
    BY <2>1, NextRecords
  <2>2. task' \in [Tasks -> TaskRecords]
    BY <1>1, <2>4, EndsType DEF AcceptWritten, TypeOK
  <2>5. disk' \in [Paths -> Baseline \union {None, Torn}]
    BY <1>1, <2>1, FailedWrite DEF AcceptWritten, TypeOK
  <2>3. disk' \in [Paths -> Baseline \union {None, Torn}] /\ faults' \in 0..MaxFaults
    BY <1>1, <2>5, FaultsType DEF AcceptWritten, TypeOK
  <2> QED BY <1>1, <2>2, <2>3 DEF AcceptWritten, TypeOK
<1>2. CASE AcceptCached(t)
  <2>1. task[t].to \in Paths /\ task[t].baseline \in Baseline
    BY <1>2, Fields DEF AcceptCached
  <2> QED BY <1>2, <2>1, EndsType DEF AcceptCached, TypeOK
<1>3. CASE MoveWritten(t)
  <2>1. /\ task[t].to \in Paths /\ task[t].from \in Paths
        /\ task[t].baseline \in Baseline /\ task[t].repair \in BOOLEAN
    BY <1>3, Fields DEF MoveWritten
  <2>2. CASE Written(t)
    <3>1. task' \in [Tasks -> TaskRecords]
      BY <2>1, <2>2, NextRecords DEF Written, TypeOK
    <3> QED BY <1>3, <2>1, <2>2, <3>1 DEF Written, MoveWritten, TypeOK
  <2>3. CASE RolledBack(t)
    <3>1. plan' \in SUBSET (Paths \X Paths)
      BY <2>3 DEF RolledBack, TypeOK
    <3>2. disk' \in [Paths -> Baseline \union {None, Torn}]
      BY <2>1, <2>3, FailedWrite DEF RolledBack
    <3> QED BY <1>3, <2>1, <2>3, <3>1, <3>2, EndsType, FaultsType DEF RolledBack, MoveWritten, TypeOK
  <2> QED BY <1>3, <2>2, <2>3 DEF MoveWritten
<1>4. CASE OldRemoved(t)
  BY <1>4, EndsType, FaultsType DEF OldRemoved, TypeOK
<1> QED BY <1>1, <1>2, <1>3, <1>4

LEMMA MoveType ==
  ASSUME TypeOK, NEW p \in Paths, NEW q \in Paths, Rename(p, q) \/ Copy(p, q) \/ Delete(p)
  PROVE  TypeOK'
<1>1. CASE Rename(p, q)
  <2>1. /\ cache' \in [Paths -> Baseline \union {None}]
        /\ task' \in [Tasks -> TaskRecords]
        /\ overlapped' \in BOOLEAN
    BY <1>1, RekeysType DEF Rename, TypeOK
  <2>2. moves' \in 0..MaxMoves /\ stale' \in BOOLEAN
    BY <1>1, MovedType DEF Rename
  <2> QED BY <1>1, <2>1, <2>2 DEF Rename, TypeOK
<1>2. CASE Copy(p, q)
  BY <1>2, MovedType DEF Copy, TypeOK
<1>3. CASE Delete(p)
  BY <1>3, MovedType DEF Delete, TypeOK
<1> QED BY <1>1, <1>2, <1>3

LEMMA RestType ==
  ASSUME TypeOK, Stop \/ Start \/ Resolved \/ \E r \in Paths \X Paths : Repoint(r)
  PROVE  TypeOK'
<1>1. CASE Stop
  <2>1. disk' \in [Paths -> Baseline \union {None, Torn}]
    BY <1>1 DEF Stop, TypeOK
  <2>2. faults' \in 0..MaxFaults
    <3>1. PICK torn \in SUBSET {t \in Tasks : task[t].kind \in {"saving", "moving"}} :
            faults + Cardinality(torn) <= MaxFaults /\ faults' = faults + Cardinality(torn)
      BY <1>1 DEF Stop
    <3>2. IsFiniteSet(torn)
      BY FS_Subset, BaselinesAssumption
    <3>3. Cardinality(torn) \in Nat
      BY <3>2, FS_CardinalityType
    <3> QED BY <3>1, <3>3, BaselinesAssumption DEF TypeOK
  <2> QED BY <1>1, <2>1, <2>2, IdleKind DEF Stop, TypeOK
<1>2. CASE Start
  BY <1>2 DEF Start, TypeOK
<1>3. CASE Resolved
  <2>1. Repoints \in SUBSET (Paths \X Paths)
    BY DEF Repoints
  <2> QED BY <1>3, <2>1 DEF Resolved, TypeOK
<1>4. ASSUME NEW r \in Paths \X Paths, Repoint(r) PROVE TypeOK'
  <2>1. /\ cache' \in [Paths -> Baseline \union {None}]
        /\ task' \in [Tasks -> TaskRecords]
        /\ overlapped' \in BOOLEAN
    BY <1>4, RekeysType DEF Repoint, TypeOK
  <2> QED BY <1>4, <2>1 DEF Repoint, TypeOK
<1> QED BY <1>1, <1>2, <1>3, <1>4

\* The map, the files and the operations stay well formed.
LEMMA InitType == ASSUME Init PROVE TypeOK
<1>1. at \in [Paths -> Notes \union {NoNote}]
  BY BaselinesAssumption DEF Init
<1>2. task \in [Tasks -> TaskRecords]
  BY DEF Init, TaskRecords
<1>3. clock \in 0..MaxAccepts /\ moves \in 0..MaxMoves /\ faults \in 0..MaxFaults
  BY BaselinesAssumption DEF Init
<1> QED BY <1>1, <1>2, <1>3 DEF Init, TypeOK

LEMMA NextType == ASSUME TypeOK, [Next]_vars PROVE TypeOK'
<1>1. CASE Next
  <2>1. CASE Continue
    BY <2>1, ContinueType DEF Continue
  <2>2. CASE \E t \in Tasks, p \in Paths : Accept(t, p)
    BY <2>2, AcceptType
  <2>3. CASE \E p, q \in Paths : Rename(p, q) \/ Copy(p, q) \/ Delete(p)
    BY <2>3, MoveType
  <2>4. CASE Stop \/ Start \/ Resolved \/ \E r \in Paths \X Paths : Repoint(r)
    BY <2>4, RestType
  <2> QED BY <1>1, <2>1, <2>2, <2>3, <2>4 DEF Next
<1>2. CASE UNCHANGED vars
  BY <1>2 DEF vars, TypeOK
<1> QED BY <1>1, <1>2

\* The baseline store's map, files and calls under way keep their types.
THEOREM TypeCorrect == Spec => []TypeOK
BY InitType, NextType, PTL DEF Spec
-----------------------------------------------------------------------------
(* No acceptance is from the future, and nothing runs while stopped.       *)

LEMMA ClockedStep == ASSUME TypeOK, Clocked, Next PROVE Clocked'
<1>. USE IdleKind, NextType, Fields, BaselineFields
<1>1. ASSUME NEW t \in Tasks, NEW p \in Paths, Accept(t, p) PROVE Clocked'
  <2>1. /\ task'[t].baseline.when = clock + 1 /\ clock' = clock + 1
        /\ \A u \in Tasks : u # t => task'[u] = task[u]
    BY <1>1 DEF Accept, TypeOK
  <2>2. clock \in Nat
    BY BaselinesAssumption DEF TypeOK
  <2>3. \A u \in Tasks : Active(u)' => task'[u].baseline.when <= clock'
    BY <2>1, <2>2 DEF Clocked, Active, TypeOK
  <2> QED BY <1>1, <2>1, <2>2, <2>3 DEF Clocked, Accept, TypeOK
<1>2. ASSUME NEW t \in Tasks, AcceptWritten(t) PROVE Clocked'
  <2>1. /\ \A u \in Tasks : Active(u)' => Active(u) /\ task'[u].baseline = task[u].baseline
        /\ Active(t)
    BY <1>2 DEF AcceptWritten, Ends, Active, TypeOK
  <2>2. task[t].to \in Paths /\ task[t].baseline \in Baseline /\ task[t].baseline.when <= clock
    BY <1>2, <2>1 DEF Clocked, AcceptWritten
  <2>3. \A p \in Paths : disk'[p] \in {disk[p], Torn, task[t].baseline}
    BY <1>2, <2>2, FailedWrite DEF AcceptWritten, TypeOK
  <2>4. \A p \in Paths : disk'[p] \in Baseline => disk'[p].when <= clock
    BY <2>2, <2>3 DEF Clocked
  <2>5. UNCHANGED <<cache, clock>>
    BY <1>2 DEF AcceptWritten
  <2> QED BY <2>1, <2>4, <2>5 DEF Clocked
<1>3. ASSUME NEW t \in Tasks, AcceptCached(t) PROVE Clocked'
  <2>1. /\ \A u \in Tasks : Active(u)' => Active(u) /\ task'[u] = task[u]
        /\ Active(t)
    BY <1>3 DEF AcceptCached, Ends, Active, TypeOK
  <2> QED BY <1>3, <2>1 DEF Clocked, AcceptCached, TypeOK
<1>4. ASSUME NEW t \in Tasks, MoveWritten(t) PROVE Clocked'
  <2>1. /\ \A u \in Tasks : Active(u)' => Active(u) /\ task'[u].baseline = task[u].baseline
        /\ Active(t)
    BY <1>4 DEF MoveWritten, Written, RolledBack, Ends, Active, TypeOK
  <2>2. task[t].baseline.when <= clock /\ clock' = clock
    BY <1>4, <2>1 DEF Clocked, MoveWritten
  <2>3. CASE Written(t)
    BY <1>4, <2>1, <2>2, <2>3 DEF Clocked, Written, TypeOK
  <2>4. CASE RolledBack(t)
    <3>1. \A p \in Paths : disk'[p] \in {disk[p], Torn, task[t].baseline}
      BY <1>4, <2>4, FailedWrite DEF RolledBack, MoveWritten
    <3>2. \A p \in Paths : disk'[p] \in Baseline => disk'[p].when <= clock
      BY <2>2, <3>1 DEF Clocked
    <3>3. \A p \in Paths : cache'[p] # None => cache'[p].when <= clock
      BY <1>4, <2>2, <2>4 DEF Clocked, RolledBack, TypeOK
    <3> QED BY <2>1, <2>2, <3>2, <3>3 DEF Clocked
  <2> QED BY <1>4, <2>3, <2>4 DEF MoveWritten
<1>5. ASSUME NEW t \in Tasks, OldRemoved(t) PROVE Clocked'
  <2>1. \A u \in Tasks : Active(u)' => Active(u) /\ task'[u] = task[u]
    BY <1>5 DEF OldRemoved, Ends, Active, TypeOK
  <2> QED BY <1>5, <2>1 DEF Clocked, OldRemoved, TypeOK
<1>6. ASSUME NEW t \in Tasks, NEW p \in Paths, NEW q \in Paths, NEW r \in BOOLEAN,
             MayRekey(p, q), Rekeys(t, p, q, r), UNCHANGED <<disk, clock>>
      PROVE  Clocked'
  <2>1. /\ task'[t].baseline = cache[p]
        /\ \A u \in Tasks : u # t => task'[u] = task[u]
    BY <1>6 DEF Rekeys, TypeOK
  <2>2. cache[p] # None /\ cache[p].when <= clock
    BY <1>6 DEF MayRekey, Clocked
  <2>3. \A u \in Tasks : Active(u)' => task'[u].baseline.when <= clock'
    BY <1>6, <2>1, <2>2 DEF Clocked, Active
  <2>4. \A s \in Paths : cache'[s] # None => cache'[s].when <= clock'
    BY <1>6, <2>2 DEF Clocked, Rekeys, TypeOK
  <2> QED BY <1>6, <2>3, <2>4 DEF Clocked
<1>7. ASSUME NEW p \in Paths, NEW q \in Paths, Rename(p, q) PROVE Clocked'
  <2>1. CASE UNCHANGED <<cache, task>>
    BY <1>7, <2>1 DEF Rename, Clocked, Active
  <2> QED BY <1>6, <1>7, <2>1 DEF Rename
<1>8. ASSUME NEW r \in Paths \X Paths, Repoint(r) PROVE Clocked'
  <2>1. CASE UNCHANGED <<cache, task>>
    BY <1>8, <2>1 DEF Repoint, Clocked, Active
  <2> QED BY <1>6, <1>8, <2>1 DEF Repoint
<1>9. ASSUME NEW p \in Paths, NEW q \in Paths, Copy(p, q) \/ Delete(p) PROVE Clocked'
  BY <1>9 DEF Copy, Delete, Clocked, Active
<1>10. CASE Stop
  BY <1>10 DEF Stop, Clocked, Active, TypeOK
<1>11. CASE Start \/ Resolved
  BY <1>11 DEF Start, Resolved, Clocked, Active, TypeOK
<1> QED BY <1>1, <1>2, <1>3, <1>4, <1>5, <1>7, <1>8, <1>9, <1>10, <1>11 DEF Next, Continue

LEMMA StoppedStep == ASSUME TypeOK, Stopped, Next PROVE Stopped'
<1>. USE IdleKind
<1>1. CASE mounted = "no" /\ mounted' = "no"
  <2>1. plan = {} /\ (\A t \in Tasks : task[t].kind = "idle")
    BY <1>1 DEF Stopped, Idle
  <2>2. UNCHANGED <<cache, task, plan>>
    BY <1>1, <2>1 DEF Next, Continue, AcceptWritten, AcceptCached, MoveWritten, OldRemoved,
          Accept, Rename, Copy, Delete, Stop, Start, Resolved, Repoint
  <2> QED BY <1>1, <2>2 DEF Stopped
<1>2. CASE mounted # "no" /\ mounted' = "no"
  <2>1. Stop
    BY <1>2 DEF Next, Continue, AcceptWritten, AcceptCached, MoveWritten, OldRemoved,
          Accept, Rename, Copy, Delete, Start, Resolved, Repoint
  <2> QED BY <2>1 DEF Stop, Stopped
<1> QED BY <1>1, <1>2 DEF Stopped
-----------------------------------------------------------------------------
(* The map, the files and the operations under way.                        *)

\* An overlap is never taken back.
LEMMA OverlapStays == ASSUME TypeOK, Next, ~overlapped' PROVE ~overlapped
BY DEF Next, Continue, AcceptWritten, AcceptCached, MoveWritten, Written, RolledBack,
       OldRemoved, Accept, Rename, Rekeys, Copy, Delete, Stop, Start, Resolved, Repoint, TypeOK

\* An operation that ends, or goes on under the same names, leaves the others
\* alone, and what they rely on is untouched if only its own paths change.
LEMMA OthersSound ==
  ASSUME TypeOK, Alone, NEW t \in Tasks, Active(t),
         \A u \in Tasks : u # t => task'[u] = task[u] /\ Sound(u),
         \A p \in Paths \ Of(t) : cache'[p] = cache[p] /\ disk'[p] = disk[p],
         Active(t)' => Of(t)' = Of(t)
  PROVE  Alone' /\ \A u \in Tasks \ {t} : Sound(u)'
<1>1. Alone'
  BY DEF Alone, Active, Of
<1>2. ASSUME NEW u \in Tasks \ {t} PROVE Sound(u)'
  <2>1. CASE ~Active(u)
    BY <2>1, IdleKind DEF Sound, SavingSound, SavedSound, MoveSound
  <2>2. CASE Active(u)
    <3>1. task[u].from \in Paths \ Of(t) /\ task[u].to \in Paths \ Of(t)
      BY <2>2, Fields, IdleKind DEF Alone, Of
    <3>2. Sound(u) /\ task'[u] = task[u]
      OBVIOUS
    <3> QED BY <3>1, <3>2 DEF Sound, SavingSound, SavedSound, MoveSound
  <2> QED BY <2>1, <2>2
<1> QED BY <1>1, <1>2

\* Paths the operation is not busy with are at rest after it if they were.
LEMMA OthersAtRest ==
  ASSUME TypeOK, AtRest, NEW t \in Tasks, Active(t),
         \A u \in Tasks : u # t => task'[u] = task[u],
         \A p \in Paths \ Of(t) : cache'[p] = cache[p] /\ disk'[p] = disk[p]
  PROVE  \A p \in Paths \ Of(t) : ~Busy(p)' /\ cache'[p] # None => Held(disk'[p], cache'[p])
<1> SUFFICES ASSUME NEW p \in Paths \ Of(t), ~Busy(p)' PROVE ~Busy(p)
  BY DEF AtRest
<1> QED BY DEF Busy, Of

\* An accept begins.
LEMMA AcceptPath ==
  ASSUME IInv, NEW t \in Tasks, NEW p \in Paths, Accept(t, p), ~overlapped' PROVE PathInv'
<1>. USE IdleKind, Fields, BaselineFields DEF IInv
<1>1. /\ task'[t] = [kind |-> "saving", from |-> p, to |-> p,
                     baseline |-> [note |-> at[p], when |-> clock + 1]]
      /\ \A u \in Tasks : u # t => task'[u] = task[u]
      /\ task[t] = Idle /\ UNCHANGED <<cache, disk>>
      /\ ~Busy(p) /\ ~overlapped
  BY DEF Accept, TypeOK
<1>2. Alone /\ (\A u \in Tasks : Sound(u)) /\ AtRest
  BY <1>1 DEF PathInv
<1>3. \A u \in Tasks \ {t} : Active(u) => p \notin Of(u)
  BY <1>1 DEF Busy, Of, Active
<1>4. Alone'
  BY <1>1, <1>2, <1>3 DEF Alone, Of, Active
<1>5. cache[p] # None => Held(disk[p], cache[p]) /\ cache[p].when < clock + 1
  <2>1. cache[p] # None => cache[p].when \in Nat /\ cache[p].when <= clock /\ clock \in Nat
    BY BaselinesAssumption DEF Clocked, TypeOK
  <2> QED BY <1>1, <1>2, <2>1 DEF AtRest
<1>6. Sound(t)'
  BY <1>1, <1>5 DEF Sound, SavingSound, SavedSound, MoveSound
<1>7. \A u \in Tasks \ {t} : Sound(u)'
  BY <1>1, <1>2 DEF Sound, SavingSound, SavedSound, MoveSound
<1>8. AtRest'
  BY <1>1, <1>2 DEF AtRest, Busy
<1> QED BY <1>4, <1>6, <1>7, <1>8 DEF PathInv

\* A rekey begins.
LEMMA RekeysPath ==
  ASSUME IInv, NEW t \in Tasks, NEW p \in Paths, NEW q \in Paths, NEW r \in BOOLEAN,
         MayRekey(p, q), Rekeys(t, p, q, r), disk' = disk, ~overlapped'
  PROVE  PathInv'
<1>. USE IdleKind, Fields, BaselineFields DEF IInv
<1>1. /\ task'[t] = [kind |-> "moving", from |-> p, to |-> q,
                     baseline |-> cache[p], repair |-> r]
      /\ \A u \in Tasks : u # t => task'[u] = task[u]
      /\ task[t] = Idle
      /\ ~Busy(p) /\ ~Busy(q) /\ ~overlapped
      /\ cache'[q] = cache[p] /\ cache'[p] = None
      /\ \A s \in Paths \ {p, q} : cache'[s] = cache[s]
      /\ p # q /\ cache[p] # None
  BY DEF Rekeys, MayRekey, TypeOK
<1>2. Alone /\ (\A u \in Tasks : Sound(u)) /\ AtRest
  BY <1>1 DEF PathInv
<1>3. \A u \in Tasks \ {t} : Active(u) => p \notin Of(u) /\ q \notin Of(u)
  BY <1>1 DEF Busy, Of, Active
<1>4. Alone'
  BY <1>1, <1>2, <1>3 DEF Alone, Of, Active
<1>5. Held(disk[p], cache[p])
  BY <1>1, <1>2 DEF AtRest
<1>6. Sound(t)'
  BY <1>1, <1>5 DEF Sound, SavingSound, SavedSound, MoveSound
<1>7. ASSUME NEW u \in Tasks \ {t} PROVE Sound(u)'
  <2>1. CASE ~Active(u)
    BY <1>1, <2>1 DEF Sound, SavingSound, SavedSound, MoveSound
  <2>2. CASE Active(u)
    <3>1. task[u].from \in Paths \ {p, q} /\ task[u].to \in Paths \ {p, q}
      BY <1>3, <2>2 DEF Of
    <3> QED BY <1>1, <1>2, <3>1 DEF Sound, SavingSound, SavedSound, MoveSound
  <2> QED BY <2>1, <2>2
<1>8. AtRest'
  <2> SUFFICES ASSUME NEW s \in Paths, ~Busy(s)' PROVE s \notin {p, q} /\ ~Busy(s)
    BY <1>1, <1>2 DEF AtRest
  <2>1. task'[t] # Idle /\ task'[t].from = p /\ task'[t].to = q
    BY <1>1 DEF Idle
  <2>2. s \notin {p, q}
    BY <2>1 DEF Busy
  <2>3. ~Busy(s)
    BY <1>1 DEF Busy
  <2> QED BY <2>2, <2>3
<1> QED BY <1>4, <1>6, <1>7, <1>8 DEF PathInv

\* An operation goes on or ends.
LEMMA ContinuePath ==
  ASSUME IInv, NEW t \in Tasks,
         AcceptWritten(t) \/ AcceptCached(t) \/ MoveWritten(t) \/ OldRemoved(t), ~overlapped'
  PROVE  PathInv'
<1>. USE IdleKind, Fields, BaselineFields DEF IInv
<1>1. ~overlapped /\ Active(t)
  BY DEF AcceptWritten, AcceptCached, MoveWritten, OldRemoved, TypeOK
<1>2. Alone /\ (\A u \in Tasks : Sound(u)) /\ AtRest
  BY <1>1 DEF PathInv
<1>3. /\ \A u \in Tasks : u # t => task'[u] = task[u]
      /\ Active(t)' => Of(t)' = Of(t)
  <2>1. AcceptWritten(t) => task[t].from = task[t].to
    BY <1>2 DEF AcceptWritten, Sound, SavingSound
  <2> QED BY <2>1 DEF AcceptWritten, AcceptCached, MoveWritten, Written, RolledBack, OldRemoved,
        Ends, Active, Of, TypeOK
<1>4. \A p \in Paths \ Of(t) : cache'[p] = cache[p] /\ disk'[p] = disk[p]
  <2>1. task[t].from \in Paths /\ task[t].to \in Paths /\ task[t].baseline \in Baseline
    BY <1>1
  <2>2. FailsToWrite(task[t].to, task[t].baseline) => \A p \in Paths \ Of(t) : disk'[p] = disk[p]
    BY <2>1, FailedWrite DEF Of
  <2> QED BY <2>1, <2>2 DEF AcceptWritten, AcceptCached, MoveWritten, Written, RolledBack,
        OldRemoved, Of, TypeOK
<1>5. /\ Alone' /\ \A u \in Tasks \ {t} : Sound(u)'
      /\ \A p \in Paths \ Of(t) : ~Busy(p)' /\ cache'[p] # None => Held(disk'[p], cache'[p])
  BY <1>1, <1>2, <1>3, <1>4, OthersSound, OthersAtRest
<1>6. Sound(t)' /\ (Active(t)' \/ \A p \in Of(t) : cache'[p] # None => Held(disk'[p], cache'[p]))
  <2>0. task'[t] = Idle => Sound(t)'
    BY DEF Idle, Sound, SavingSound, SavedSound, MoveSound
  <2>6. task[t].from \in Paths /\ task[t].to \in Paths /\ task[t].baseline \in Baseline
    BY <1>1
  <2>7. \A b \in Baseline : Held(b, b)
    BY DEF Held
  <2>1. CASE AcceptWritten(t)
    <3>1. /\ task[t].from = task[t].to
          /\ cache[task[t].to] # None =>
               Held(disk[task[t].to], cache[task[t].to])
               /\ cache[task[t].to].when < task[t].baseline.when
          /\ cache' = cache
      BY <1>2, <2>1 DEF AcceptWritten, Sound, SavingSound
    <3>2. CASE Ends(t) /\ FailsToWrite(task[t].to, task[t].baseline)
      <4>1. disk'[task[t].to] \in {disk[task[t].to], Torn, task[t].baseline} /\ task'[t] = Idle
        BY <2>6, <3>2, FailedWrite DEF Ends, TypeOK
      <4>2. cache[task[t].to] # None => cache[task[t].to] \in Baseline
        BY <2>6 DEF TypeOK
      <4>3. cache[task[t].to] # None => Held(disk'[task[t].to], cache[task[t].to])
        BY <2>6, <3>1, <4>1, <4>2, HeldStays
      <4> QED BY <2>0, <3>1, <4>1, <4>3 DEF Of
    <3>3. CASE ~(Ends(t) /\ FailsToWrite(task[t].to, task[t].baseline))
      <4>1. /\ task'[t] = [kind |-> "saved", from |-> task[t].to, to |-> task[t].to,
                           baseline |-> task[t].baseline]
            /\ disk'[task[t].to] = task[t].baseline
        BY <1>1, <2>1, <3>3 DEF AcceptWritten, TypeOK
      <4> QED BY <3>1, <4>1 DEF Sound, SavingSound, SavedSound, MoveSound, Active, Idle
    <3> QED BY <3>2, <3>3
  <2>2. CASE AcceptCached(t)
    <3>1. /\ task[t].from = task[t].to
          /\ disk'[task[t].to] = task[t].baseline
          /\ cache'[task[t].to] = task[t].baseline
          /\ task'[t] = Idle
      BY <1>1, <1>2, <2>2 DEF AcceptCached, Ends, Sound, SavedSound, TypeOK
    <3> QED BY <2>0, <2>6, <2>7, <3>1 DEF Of
  <2>3. CASE MoveWritten(t) /\ Written(t)
    <3>1. /\ task[t].from # task[t].to
          /\ cache[task[t].from] = None /\ cache[task[t].to] = task[t].baseline
      BY <1>2, <2>3 DEF MoveWritten, Sound, MoveSound
    <3>2. /\ task'[t] = [kind |-> "removing", from |-> task[t].from, to |-> task[t].to,
                         baseline |-> task[t].baseline, repair |-> task[t].repair]
          /\ disk'[task[t].to] = task[t].baseline
          /\ cache' = cache
      BY <2>3, <2>6 DEF Written, TypeOK
    <3> QED BY <3>1, <3>2 DEF Sound, SavingSound, SavedSound, MoveSound, Active, Idle
  <2>4. CASE MoveWritten(t) /\ RolledBack(t)
    <3>1. /\ task[t].from # task[t].to
          /\ Held(disk'[task[t].from], task[t].baseline)
          /\ cache'[task[t].from] = task[t].baseline /\ cache'[task[t].to] = None
          /\ task'[t] = Idle
      <4>1. task[t].from # task[t].to /\ Held(disk[task[t].from], task[t].baseline)
        BY <1>2, <2>4 DEF MoveWritten, Sound, MoveSound
      <4>2. disk'[task[t].from] = disk[task[t].from]
        BY <2>4, <2>6, <4>1, FailedWrite DEF RolledBack
      <4> QED BY <2>4, <2>6, <4>1, <4>2 DEF MoveWritten, RolledBack, Ends, TypeOK
    <3> QED BY <2>0, <2>6, <2>7, <3>1 DEF Of
  <2>5. CASE OldRemoved(t)
    <3>1. /\ task[t].from # task[t].to
          /\ disk'[task[t].to] = task[t].baseline
          /\ cache'[task[t].to] = task[t].baseline /\ cache'[task[t].from] = None
          /\ task'[t] = Idle
      BY <1>1, <1>2, <2>5 DEF OldRemoved, Ends, Sound, MoveSound, TypeOK
    <3> QED BY <2>0, <2>6, <2>7, <3>1 DEF Of
  <2> QED BY <2>1, <2>2, <2>3, <2>4, <2>5 DEF MoveWritten
<1>7. AtRest'
  <2> SUFFICES ASSUME NEW p \in Paths, ~Busy(p)', cache'[p] # None
               PROVE  Held(disk'[p], cache'[p])
    BY DEF AtRest
  <2>1. CASE p \in Of(t)
    <3>1. ~Active(t)'
      BY <1>3, <2>1 DEF Busy, Of, Active
    <3> QED BY <1>6, <2>1, <3>1
  <2>2. CASE p \notin Of(t)
    BY <1>5, <2>2
  <2> QED BY <2>1, <2>2
<1> QED BY <1>5, <1>6, <1>7 DEF PathInv

\* What the map, the files and the calls say of each path goes together after a step.
LEMMA PathStep == ASSUME IInv, Next PROVE PathInv'
<1> SUFFICES ASSUME ~overlapped' PROVE PathInv'
  BY DEF PathInv
<1>0. ~overlapped
  BY OverlapStays DEF IInv
<1>1. ASSUME UNCHANGED <<cache, disk, task>> PROVE PathInv'
  BY <1>0, <1>1 DEF IInv, PathInv, Alone, Active, Of, Sound, SavingSound, SavedSound, MoveSound,
     AtRest, Busy
<1>2. ASSUME NEW p \in Paths, NEW q \in Paths, Rename(p, q) PROVE PathInv'
  BY <1>1, <1>2, RekeysPath DEF Rename
<1>3. ASSUME NEW r \in Paths \X Paths, Repoint(r) PROVE PathInv'
  BY <1>1, <1>3, RekeysPath DEF Repoint
<1>4. ASSUME NEW p \in Paths, NEW q \in Paths, Copy(p, q) \/ Delete(p) PROVE PathInv'
  BY <1>1, <1>4 DEF Copy, Delete
<1>5. ASSUME Stop \/ Start PROVE PathInv'
  <2>1. /\ \A p \in Paths : cache'[p] # None => Held(disk'[p], cache'[p])
        /\ \A t \in Tasks : ~Active(t)' /\ task'[t].kind = "idle"
    BY <1>5 DEF IInv, Stopped, Stop, Start, Active, Idle, TypeOK, Held
  <2> QED BY <2>1 DEF PathInv, Alone, Sound, SavingSound, SavedSound, MoveSound, AtRest
<1>6. ASSUME Resolved PROVE PathInv'
  BY <1>1, <1>6 DEF Resolved
<1>7. ASSUME Continue PROVE PathInv'
  BY <1>7, ContinuePath DEF Continue
<1>8. ASSUME NEW t \in Tasks, NEW p \in Paths, Accept(t, p) PROVE PathInv'
  BY <1>8, AcceptPath
<1> QED BY <1>2, <1>3, <1>4, <1>5, <1>6, <1>7, <1>8 DEF Next
-----------------------------------------------------------------------------
(* The inductive invariant, and what follows from it.                      *)

LEMMA InitInv == ASSUME Init PROVE IInv
<1>1. TypeOK
  BY InitType
<1>2. Clocked /\ Stopped
  BY BaselineFields DEF Init, Clocked, Stopped, Active
<1>3. PathInv
  BY DEF Init, PathInv, Alone, Active, Sound, SavingSound, SavedSound, MoveSound, Idle, AtRest
<1> QED BY <1>1, <1>2, <1>3 DEF IInv

LEMMA InvStep == ASSUME IInv, [Next]_vars PROVE IInv'
<1>1. CASE Next
  BY <1>1, NextType, ClockedStep, StoppedStep, PathStep DEF IInv
<1>2. CASE UNCHANGED vars
  <2>1. TypeOK'
    BY <1>2, NextType DEF IInv
  <2>2. Clocked' /\ Stopped'
    BY <1>2 DEF IInv, vars, Clocked, Stopped, Active
  <2>3. PathInv'
    BY <1>2 DEF IInv, vars, PathInv, Alone, Active, Of, Sound, SavingSound, SavedSound,
       MoveSound, AtRest, Busy
  <2> QED BY <2>1, <2>2, <2>3 DEF IInv
<1> QED BY <1>1, <1>2

\* While no operation overlapped another on its path, map, files and the calls
\* under way agree about every path, whatever crashed or failed.
THEOREM InvCorrect == Spec => []IInv
BY InitInv, InvStep, PTL DEF Spec

\* What is in the files for a path an operation is busy with.
LEMMA BusyPath ==
  ASSUME IInv, ~overlapped, NEW p \in Paths, cache[p] # None,
         NEW t \in Tasks, Active(t), p \in Of(t)
  PROVE  /\ task[t].from \in Paths /\ task[t].to = p
         /\ task[t].baseline \in Baseline
         /\ task[t].kind \in {"saving", "saved", "moving", "removing"}
         /\ task[t].kind = "saving" => Held(disk[p], cache[p])
         /\ task[t].kind = "saved" =>
              disk[p] = task[t].baseline /\ cache[p].when < task[t].baseline.when
         /\ task[t].kind = "moving" => task[t].from # p /\ Held(disk[task[t].from], cache[p])
         /\ task[t].kind = "removing" => disk[p] = cache[p]
<1>1. task[t].kind # "idle" /\ Sound(t)
  BY IdleKind DEF IInv, PathInv
<1>2. /\ task[t].from \in Paths /\ task[t].to \in Paths /\ task[t].baseline \in Baseline
      /\ task[t].kind \in {"saving", "saved", "moving", "removing"}
  BY <1>1, Fields DEF IInv, TypeOK, TaskRecords, Idle
<1>3. task[t].to = p
  BY <1>1, <1>2 DEF Sound, SavingSound, SavedSound, MoveSound, Of
<1> QED BY <1>1, <1>2, <1>3 DEF Sound, SavingSound, SavedSound, MoveSound

\* Where the file of an acceptance is.
LEMMA FiledPath ==
  ASSUME IInv, ~overlapped, NEW p \in Paths, cache[p] # None
  PROVE  /\ ~Busy(p) => FiledAt(p) = {p}
         /\ \A t \in Tasks : Active(t) /\ p \in Of(t) =>
              FiledAt(p) = IF task[t].kind = "moving" THEN {task[t].from} ELSE {p}
<1>1. \A t \in MovingTo(p) : t \in Tasks /\ Active(t) /\ p \in Of(t) /\ task[t].kind = "moving"
  BY IdleKind DEF MovingTo, Of, IInv
<1>2. ~Busy(p) => MovingTo(p) = {}
  BY <1>1 DEF Busy, Active, Of
<1>3. ASSUME NEW t \in Tasks, Active(t), p \in Of(t)
      PROVE  MovingTo(p) = IF task[t].kind = "moving" THEN {t} ELSE {}
  <2>1. \A u \in Tasks : Active(u) /\ p \in Of(u) => u = t
    BY <1>3 DEF IInv, PathInv, Alone
  <2>2. MovingTo(p) \subseteq {t}
    BY <1>1, <2>1
  <2>3. task[t].kind = "moving" => t \in MovingTo(p)
    BY <1>3, BusyPath DEF MovingTo
  <2> QED BY <1>1, <2>2, <2>3
<1> QED BY <1>2, <1>3 DEF FiledAt

\* On every path the file of the acceptance holds it, is torn or was superseded,
\* or the acceptance has been written elsewhere.
LEMMA WhereFiled ==
  ASSUME IInv, ~overlapped, NEW p \in Paths, cache[p] # None
  PROVE  \E q \in FiledAt(p) : q \in Paths /\ Held(disk[q], cache[p])
<1>1. CASE ~Busy(p)
  BY <1>1, FiledPath DEF IInv, PathInv, AtRest
<1>2. CASE Busy(p)
  <2>1. PICK t \in Tasks : Active(t) /\ p \in Of(t)
    BY <1>2 DEF Busy, Active, Of
  <2>2. CASE task[t].kind = "saved"
    <3>1. cache[p] \in Baseline
      BY DEF IInv, TypeOK
    <3>2. Held(disk[p], cache[p])
      BY <2>1, <2>2, <3>1, BusyPath, BaselineFields DEF Held, Newer
    <3> QED BY <2>1, <2>2, <3>2, FiledPath
  <2>3. CASE task[t].kind = "moving"
    BY <2>1, <2>3, FiledPath, BusyPath
  <2>4. CASE task[t].kind \in {"saving", "removing"}
    <3>1. Held(disk[p], cache[p])
      BY <2>1, <2>4, BusyPath DEF Held
    <3> QED BY <2>1, <2>4, <3>1, FiledPath
  <2> QED BY <2>1, <2>2, <2>3, <2>4, BusyPath
<1> QED BY <1>1, <1>2

LEMMA NoGapInv == ASSUME IInv PROVE NoGapUnlessOverlapped
<1> SUFFICES ASSUME ~overlapped, NEW p \in Paths, cache[p] # None
             PROVE  HasFile(cache[p]) \/ Superseded(p, cache[p]) \/ TornOver(p)
  BY DEF NoGapUnlessOverlapped, NoGap
<1> QED BY WhereFiled DEF Held, HasFile, Superseded, TornOver

\* As long as no two operations overlapped, no acceptance is without a file but
\* for a later one written, or half written, over it.
THEOREM NoGapCorrect == Spec => []NoGapUnlessOverlapped
BY InvCorrect, NoGapInv, PTL
-----------------------------------------------------------------------------
(* Acceptances survive.                                                    *)

\* What may become of the acceptance of a path.
Survives(p, b) ==
  \/ \E q \in Paths : OnRecord(q, b)'
  \/ \E c \in Baseline, q \in {p} \union FiledAt(p) : c.when > b.when /\ OnRecord(q, c)'
  \/ mounted' = "no" /\ \E q \in FiledAt(p) : disk'[q] = Torn

\* A crash.
LEMMA StopSurvives ==
  ASSUME IInv, NEW p \in Paths, NEW b \in Baseline, OnRecord(p, b), Stop, ~overlapped'
  PROVE  Survives(p, b)
<1>1. cache[p] = b /\ b # None /\ ~overlapped /\ mounted' = "no"
  BY BaselineFields DEF Stop, OnRecord
<1>2. PICK q \in FiledAt(p) : q \in Paths /\ Held(disk[q], b)
  BY <1>1, WhereFiled
<1>3. disk'[q] \in {disk[q], Torn}
  BY <1>2 DEF Stop
<1>4. CASE disk'[q] = Torn
  BY <1>1, <1>2, <1>4 DEF Survives
<1>5. CASE disk'[q] = b
  BY <1>1, <1>2, <1>5 DEF Survives, OnRecord
<1>6. CASE Newer(disk'[q], b)
  BY <1>1, <1>2, <1>6 DEF Survives, OnRecord, Newer
<1> QED BY <1>2, <1>3, <1>4, <1>5, <1>6 DEF Held

\* A rekey begins.
LEMMA RekeysSurvives ==
  ASSUME IInv, NEW p \in Paths, NEW b \in Baseline, OnRecord(p, b), mounted # "no",
         mounted' = mounted, NEW t \in Tasks, NEW s \in Paths, NEW q \in Paths,
         NEW r \in BOOLEAN, MayRekey(s, q), Rekeys(t, s, q, r)
  PROVE  Survives(p, b)
<1>1. cache[p] = b /\ b # None
  BY BaselineFields DEF OnRecord
<1>2. p = s => cache'[q] = b
  BY <1>1 DEF MayRekey, Rekeys, IInv, TypeOK
<1>3. p # s => cache'[p] = b
  BY <1>1 DEF MayRekey, Rekeys, IInv, TypeOK
<1> QED BY <1>2, <1>3 DEF Survives, OnRecord

\* A call that continues gives up no acceptance, its own new one apart.
LEMMA ContinueSurvives ==
  ASSUME IInv, NEW p \in Paths, NEW b \in Baseline, OnRecord(p, b), Continue, ~overlapped'
  PROVE  Survives(p, b)
<1>1. PICK t \in Tasks : AcceptWritten(t) \/ AcceptCached(t) \/ MoveWritten(t) \/ OldRemoved(t)
  BY DEF Continue
<1>2. task[t].kind # "idle" /\ Active(t) /\ ~overlapped /\ mounted' = mounted
  BY <1>1, IdleKind DEF AcceptWritten, AcceptCached, MoveWritten, OldRemoved, IInv
<1>3. Sound(t) /\ mounted # "no" /\ cache[p] = b /\ b # None
  BY <1>2, BaselineFields DEF IInv, PathInv, Stopped, Active, OnRecord
<1>4. task[t].from \in Paths /\ task[t].to \in Paths /\ task[t].baseline \in Baseline
  BY <1>2, Fields DEF IInv
<1>5. CASE UNCHANGED cache
  BY <1>2, <1>3, <1>5 DEF Survives, OnRecord
<1>6. CASE AcceptCached(t)
  <2>1. cache' = [cache EXCEPT ![task[t].to] = task[t].baseline]
    BY <1>6 DEF AcceptCached
  <2>2. CASE p = task[t].to
    <3>1. cache'[p] = task[t].baseline
      BY <2>1, <2>2, <1>4 DEF IInv, TypeOK
    <3>2. task[t].baseline.when > b.when
      <4>1. b.when < task[t].baseline.when
        BY <1>3, <1>6, <2>2 DEF Sound, SavedSound, AcceptCached
      <4> QED BY <4>1, <1>4, BaselineFields
    <3> QED BY <1>2, <1>3, <1>4, <3>1, <3>2 DEF Survives, OnRecord
  <2>3. CASE p # task[t].to
    <3>1. cache'[p] = b
      BY <1>3, <2>1, <2>3 DEF IInv, TypeOK
    <3> QED BY <1>2, <1>3, <3>1 DEF Survives, OnRecord
  <2> QED BY <2>2, <2>3
<1>7. CASE MoveWritten(t) /\ RolledBack(t)
  <2>1. cache' = [cache EXCEPT ![task[t].to] = None, ![task[t].from] = task[t].baseline]
    BY <1>7 DEF RolledBack
  <2>2. /\ cache[task[t].from] = None /\ cache[task[t].to] = task[t].baseline
        /\ task[t].from # task[t].to
    BY <1>3, <1>7 DEF Sound, MoveSound, MoveWritten
  <2>3. p # task[t].from /\ (p = task[t].to => cache'[task[t].from] = b)
    BY <1>3, <1>4, <2>1, <2>2 DEF IInv, TypeOK
  <2>4. p # task[t].to => cache'[p] = b
    BY <1>3, <2>1, <2>3 DEF IInv, TypeOK
  <2> QED BY <1>2, <1>3, <1>4, <2>3, <2>4 DEF Survives, OnRecord
<1> QED BY <1>1, <1>5, <1>6, <1>7 DEF AcceptWritten, MoveWritten, Written, OldRemoved

\* Nor does any other step.
LEMMA SurvivesStep ==
  ASSUME IInv, [Next]_vars, NEW p \in Paths, NEW b \in Baseline, OnRecord(p, b), ~overlapped'
  PROVE  Survives(p, b)
<1>1. ASSUME UNCHANGED <<cache, disk, mounted>> PROVE Survives(p, b)
  BY <1>1 DEF Survives, OnRecord
<1>2. CASE Continue
  BY <1>2, ContinueSurvives
<1>3. CASE \E t \in Tasks, s \in Paths : Accept(t, s)
  BY <1>1, <1>3 DEF Accept
<1>4. ASSUME NEW s \in Paths, NEW q \in Paths, Rename(s, q) PROVE Survives(p, b)
  BY <1>1, <1>4, RekeysSurvives DEF Rename
<1>5. CASE \E s, q \in Paths : Copy(s, q) \/ Delete(s)
  BY <1>1, <1>5 DEF Copy, Delete
<1>6. CASE Stop
  BY <1>6, StopSurvives
<1>7. CASE Start
  <2>1. disk[p] = b /\ b # Torn /\ mounted' = "loaded"
    BY <1>7, BaselineFields DEF Start, OnRecord
  <2>2. cache'[p] = b
    BY <1>7, <2>1 DEF Start
  <2> QED BY <2>1, <2>2 DEF Survives, OnRecord
<1>8. CASE Resolved
  <2>1. mounted # "no" /\ mounted' # "no" /\ cache' = cache
    BY <1>8 DEF Resolved
  <2> QED BY <2>1 DEF Survives, OnRecord
<1>9. ASSUME NEW r \in Paths \X Paths, Repoint(r) PROVE Survives(p, b)
  <2>1. mounted # "no" /\ mounted' = mounted
    BY <1>9 DEF Repoint, IInv, Stopped
  <2> QED BY <1>1, <1>9, <2>1, RekeysSurvives DEF Repoint
<1>10. CASE UNCHANGED vars
  BY <1>1, <1>10 DEF vars
<1> QED BY <1>2, <1>3, <1>4, <1>5, <1>6, <1>7, <1>8, <1>9, <1>10 DEF Next

\* As long as no two operations overlapped, failed and half-done rekeys, crashes,
\* restarts and repairs give an acceptance up only to a newer one, or at a stop
\* that finds its own file torn by a write of a newer one over it.
THEOREM SurviveCorrect == Spec => AcceptancesSurvive
<1>1. IInv /\ [Next]_vars =>
        [\A p \in Paths, b \in Baseline : OnRecord(p, b) /\ ~overlapped' =>
           \/ \E q \in Paths : OnRecord(q, b)'
           \/ \E c \in Baseline, q \in {p} \union FiledAt(p) : c.when > b.when /\ OnRecord(q, c)'
           \/ mounted' = "no" /\ \E q \in FiledAt(p) : disk'[q] = Torn]_vars
  BY SurvivesStep DEF Survives
<1> QED BY <1>1, InvCorrect, PTL DEF Spec, AcceptancesSurvive
-----------------------------------------------------------------------------
(* Repairs.                                                                *)

\* Until something changes, the plan stays right.
LEMMA PlanStep == ASSUME IInv, PlanInv, [Next]_vars PROVE PlanInv'
<1> SUFFICES ASSUME ~stale' PROVE PlanInv'
  BY DEF PlanInv
<1>1. ASSUME UNCHANGED <<at, cache, plan, stale>> PROVE PlanInv'
  BY <1>1 DEF PlanInv, Lives
<1>2. ASSUME plan' = {} PROVE PlanInv'
  BY <1>2 DEF PlanInv
<1>3. CASE Continue
  BY <1>1, <1>3 DEF Continue, AcceptWritten, AcceptCached, MoveWritten, Written, RolledBack, OldRemoved
<1>4. CASE \E t \in Tasks, p \in Paths : Accept(t, p)
  BY <1>1, <1>4 DEF Accept
<1>5. CASE \E p, q \in Paths : Rename(p, q) \/ Copy(p, q) \/ Delete(p)
  BY <1>5 DEF Rename, Copy, Delete, Moved
<1>6. CASE Stop \/ Start
  BY <1>2, <1>6 DEF Stop, Start, IInv, Stopped
<1>7. CASE Resolved
  <2>1. /\ \A p \in Paths : Lives(p)' = Lives(p)
        /\ plan' = Repoints /\ UNCHANGED <<at, cache>>
    BY <1>7 DEF Resolved, Lives
  <2>2. ASSUME NEW r \in Repoints
        PROVE  /\ cache[r[1]] # None /\ Lives(cache[r[1]].note) = {r[2]} /\ cache[r[2]] = None
               /\ r = <<r[1], r[2]>>
    BY DEF Repoints, Resolves, Drifted
  <2>3. ASSUME NEW r \in Repoints, NEW s \in Repoints
        PROVE  (r[1] = s[1] => r = s) /\ r[2] # s[1]
    <3>1. r[1] = s[1] => {r[2]} = {s[2]}
      BY <2>2
    <3>2. r[1] = s[1] => r[2] = s[2]
      BY <3>1
    <3> QED BY <2>2, <3>2
  <2> QED BY <2>1, <2>2, <2>3 DEF PlanInv, Lives
<1>8. ASSUME NEW r \in Paths \X Paths, Repoint(r) PROVE PlanInv'
  <2>1. ~stale /\ r \in plan /\ plan' = plan \ {r} /\ at' = at
    BY <1>8 DEF Repoint
  <2>2. ASSUME NEW s \in plan' PROVE cache'[s[1]] = cache[s[1]]
    <3>1. s \in plan /\ s # r /\ s[1] \in Paths
      BY <2>1 DEF IInv, TypeOK
    <3>2. s[1] # r[1] /\ s[1] # r[2]
      BY <2>1, <3>1 DEF PlanInv
    <3> QED BY <1>8, <3>1, <3>2 DEF Repoint, Rekeys, IInv, TypeOK
  <2> QED BY <2>1, <2>2 DEF PlanInv, Lives
<1>9. CASE UNCHANGED vars
  BY <1>1, <1>9 DEF vars
<1> QED BY <1>3, <1>4, <1>5, <1>6, <1>7, <1>8, <1>9 DEF Next

\* A repair that begins as planned moves a baseline to the one note it was given to.
LEMMA RepairStep ==
  ASSUME IInv, PlanInv, [Next]_vars, NEW t \in Tasks, task[t] = Idle, Repairs(t)', ~stale
  PROVE  Lives(task'[t].baseline.note) = {task'[t].to}
<1>1. task'[t] # Idle /\ task'[t].kind = "moving" /\ task'[t].repair = TRUE
  <2>1. task' \in [Tasks -> TaskRecords] /\ task'[t].kind = "moving" /\ task'[t].repair
    BY NextType DEF IInv, TypeOK, Repairs
  <2> QED BY <2>1 DEF TaskRecords, Idle
<1>2. ASSUME NEW u \in Tasks, NEW p \in Paths, NEW q \in Paths, NEW r \in BOOLEAN,
             Rekeys(u, p, q, r)
      PROVE  u = t /\ r = TRUE /\ task'[t].baseline = cache[p] /\ task'[t].to = q
  <2>1. /\ \A v \in Tasks \ {u} : task'[v] = task[v]
        /\ task'[u] = [kind |-> "moving", from |-> p, to |-> q, baseline |-> cache[p], repair |-> r]
    BY <1>2 DEF Rekeys, IInv, TypeOK
  <2> QED BY <1>1, <2>1
<1>3. task' # task /\ task'[t].kind # "saving"
  BY <1>1
<1>4. ASSUME NEW u \in Tasks, task[u].kind # "idle", \A v \in Tasks \ {u} : task'[v] = task[v]
      PROVE  FALSE
  BY <1>1, <1>4 DEF Idle
<1>5. ~Continue
  <2> SUFFICES ASSUME NEW u \in Tasks,
                      AcceptWritten(u) \/ AcceptCached(u) \/ MoveWritten(u) \/ OldRemoved(u)
               PROVE  FALSE
    BY DEF Continue
  <2>1. task[u].kind # "idle"
    BY DEF AcceptWritten, AcceptCached, MoveWritten, OldRemoved
  <2>2. \A v \in Tasks \ {u} : task'[v] = task[v]
    BY DEF AcceptWritten, AcceptCached, MoveWritten, Written, RolledBack, OldRemoved, Ends,
       IInv, TypeOK
  <2> QED BY <1>4, <2>1, <2>2
<1>6. ~(\E u \in Tasks, p \in Paths : Accept(u, p))
  <2> SUFFICES ASSUME NEW u \in Tasks, NEW p \in Paths, Accept(u, p) PROVE FALSE
    OBVIOUS
  <2>1. task'[u].kind = "saving" /\ \A v \in Tasks \ {u} : task'[v] = task[v]
    BY DEF Accept, IInv, TypeOK
  <2> QED BY <1>1, <1>3, <2>1
<1>7. ~(\E p, q \in Paths : Rename(p, q) \/ Copy(p, q) \/ Delete(p))
  BY <1>2, <1>3 DEF Rename, Copy, Delete
<1>8. ~Stop /\ ~Start /\ ~Resolved /\ ~UNCHANGED vars
  BY <1>1, <1>3 DEF Stop, Start, Resolved, vars
<1>9. ASSUME NEW r \in Paths \X Paths, Repoint(r)
      PROVE  Lives(task'[t].baseline.note) = {task'[t].to}
  <2>1. r \in plan /\ \E u \in Tasks : Rekeys(u, r[1], r[2], TRUE)
    BY <1>3, <1>9 DEF Repoint
  <2>2. task'[t].baseline = cache[r[1]] /\ task'[t].to = r[2]
    BY <1>2, <2>1
  <2> QED BY <2>1, <2>2 DEF PlanInv
<1> QED BY <1>5, <1>6, <1>7, <1>8, <1>9 DEF Next

\* While nothing moved and nothing was accepted since the plan, every repoint,
\* however many went before it, moves an acceptance to the one note it was given to.
THEOREM RepairsCorrect == Spec => RepairsFollowTheNote
<1>1. Init => PlanInv
  BY DEF Init, PlanInv
<1>2. Spec => []PlanInv
  BY <1>1, InvCorrect, PlanStep, PTL DEF Spec
<1>3. IInv /\ PlanInv /\ [Next]_vars =>
        [\A t \in Tasks : task[t] = Idle /\ Repairs(t)' /\ ~stale =>
           Lives(task'[t].baseline.note) = {task'[t].to}]_vars
  BY RepairStep
<1> QED BY <1>2, <1>3, InvCorrect, PTL DEF Spec, RepairsFollowTheNote
=============================================================================
