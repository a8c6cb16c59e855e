------------------------------- MODULE Kernel -------------------------------
(***************************************************************************)
(* Kernel.runMutation, kernel/index.ts: every mutating tool call, from its *)
(* idempotency claim through the write queue and the checks at dequeue to  *)
(* its journal record and the release of its key, with the corrective      *)
(* record of an operation that settles after the queue abandoned it.       *)
(*                                                                         *)
(* The vault is one note.  Its revision (the mtime) only serves to be       *)
(* compared, so it is named by the write that made it: a call, or the n-th *)
(* write from outside - the editor, the acceptance gestures - which never  *)
(* queues.  A handler writes the note at most once, at any time after it   *)
(* started, also after its call was abandoned: the queue cannot cancel it. *)
(*                                                                         *)
(* The journal is kept per call: journal[c] holds the records of call c in *)
(* append order.  A record refers to another by its ts; here, by the call  *)
(* whose own record it is.                                                 *)
(***************************************************************************)
EXTENDS WriteQueue, IdempotencyStore, FiniteSets

CONSTANTS
  NoKey,     \* the call carries no idempotency_key
  NoRev,     \* the call carries no if_rev
  Args,      \* what tells two requests apart, besides if_rev
  Preconditions, \* bound: whether calls may carry an if_rev at all
  Writers,   \* bound: the calls whose handler may write the note
  MaxEdits   \* bound: writes by outsiders

ASSUME KernelAssumption ==
  /\ NoKey \notin Keys
  /\ Calls = Ops
  /\ Preconditions \in BOOLEAN
  /\ Writers \subseteq Ops
  /\ MaxEdits \in Nat
  /\ Ops \intersect Nat = {}
  /\ [args : Args, ifRev : {NoRev} \union Ops \union 0..MaxEdits] \subseteq Identities

VARIABLES
  phase,     \* where runMutation stands for each call
  request,   \* the key and identity each call presents
  waitsFor,  \* the owner whose settlement a waiter awaits
  verdict,   \* how the queued closure ended: see Verdicts
  result,    \* what the call returned or threw to its caller
  stamped,   \* calls whose own record has a ts
  journal,   \* the records of each call, in append order
  rev,       \* the note's revision
  wrote,     \* calls whose handler wrote the note
  edits      \* writes by outsiders so far

callvars == <<phase, request, waitsFor, verdict, result, stamped, journal>>
vault == <<rev, wrote, edits>>
vars == <<qvars, svars, callvars, vault>>

Phases == {"idle", "waiting", "awaiting", "done"}
\* "failed" is a returned isError envelope; the two after it are thrown.
Verdicts == {"ok", "failed", "conflict", "thrown"}
Results == Verdicts \union {"timeout", "mismatch"}
RecordOutcomes == {"ok", "error", "conflict", "deduped", "late-ok", "late-error"}
Revs == Ops \union 0..MaxEdits
Requests == [key : Keys \union {NoKey}, identity : Identities]
Records == [outcome : RecordOutcomes, refers : Ops \union {NoOp}]

TypeOK ==
  /\ QTypeOK
  /\ StoreTypeOK
  /\ phase \in [Ops -> Phases]
  /\ request \in [Ops -> Requests \union {NoKey}]
  /\ \A c \in Ops : phase[c] # "idle" => request[c] \in Requests
  /\ waitsFor \in [Ops -> Ops \union {NoOp}]
  /\ \A c \in Ops : phase[c] = "waiting" => waitsFor[c] \in Ops
  /\ verdict \in [Ops -> Verdicts \union {"none"}]
  /\ result \in [Ops -> Results \union {"none"}]
  /\ stamped \in SUBSET Ops
  /\ journal \in [Ops -> Seq(Records)]
  /\ rev \in Revs
  /\ wrote \in SUBSET Ops
  /\ edits \in 0..MaxEdits

Init ==
  /\ QInit
  /\ StoreInit
  /\ phase = [c \in Ops |-> "idle"]
  /\ request = [c \in Ops |-> NoKey]
  /\ waitsFor = [c \in Ops |-> NoOp]
  /\ verdict = [c \in Ops |-> "none"]
  /\ result = [c \in Ops |-> "none"]
  /\ stamped = {}
  /\ journal = [c \in Ops |-> <<>>]
  /\ rev = 0
  /\ wrote = {}
  /\ edits = 0

\* Seeded fault: records never refer to each other.
RecordUnlinked(c, out, d) ==
  journal' = [journal EXCEPT ![c] = Append(@, [outcome |-> out, refers |-> NoOp])]

\* journal.append; the ts of d's record is undefined until d is stamped.
Record(c, out, d) ==
  journal' = [journal EXCEPT ![c] =
    Append(@, [outcome |-> out, refers |-> IF d \in stamped THEN d ELSE NoOp])]

\* The call ends: its caller gets the result.
Ends(c, res) ==
  /\ phase' = [phase EXCEPT ![c] = "done"]
  /\ result' = [result EXCEPT ![c] = res]
-----------------------------------------------------------------------------
(* Entry to runMutation: synchronous up to queue.run or the first await.   *)

\* No key, or the key is ours: enqueue.
Enqueues(c, k, identity) ==
  /\ \/ k = NoKey /\ UNCHANGED svars
     \/ k # NoKey /\ Owns(k) /\ Reserve(k, c, identity)
  /\ Run(c)
  /\ phase' = [phase EXCEPT ![c] = "awaiting"]
  /\ UNCHANGED <<waitsFor, result, journal>>

\* The key is in flight for this very request: await its owner.
Waits(c, k, identity) ==
  /\ k # NoKey /\ MustWait(k, identity)
  /\ phase' = [phase EXCEPT ![c] = "waiting"]
  /\ waitsFor' = [waitsFor EXCEPT ![c] = reserved[k].owner]
  /\ UNCHANGED <<qvars, svars, result, journal>>

\* The key completed: its owner's result is returned, and recorded as such.
Replay(c, k, identity) ==
  /\ k # NoKey /\ Replays(k, identity)
  /\ LookUp(k)
  /\ \E e \in LiveEntries(k) :
       /\ Ends(c, result[e.owner])
       /\ Record(c, "deduped", e.owner)
  /\ UNCHANGED <<qvars, reserved, waitsFor>>

\* The key stands for another request: refused, nothing runs.
Mismatch(c, k, identity) ==
  /\ k # NoKey /\ Mismatches(k, identity)
  /\ LookUp(k)
  /\ Ends(c, "mismatch")
  /\ Record(c, "error", NoOp)
  /\ UNCHANGED <<qvars, reserved, waitsFor>>

\* What callers ask: something unconditional, something conditional on the
\* revision just read, or again what another call already asked.
Asked ==
  LET preconditions == IF Preconditions THEN {NoRev, rev} ELSE {NoRev}
  IN  [args : Args, ifRev : preconditions]
        \union {request[d].identity : d \in {d \in Ops : phase[d] # "idle"}}

Call(c) ==
  /\ phase[c] = "idle"
  /\ \E k \in Keys \union {NoKey}, identity \in Asked :
       /\ request' = [request EXCEPT ![c] = [key |-> k, identity |-> identity]]
       /\ \/ Enqueues(c, k, identity)
          \/ Waits(c, k, identity)
          \/ Replay(c, k, identity)
          \/ Mismatch(c, k, identity)
  /\ UNCHANGED <<verdict, stamped, vault>>
-----------------------------------------------------------------------------
(* The queued closure.                                                     *)

IfRev(c) == request[c].identity.ifRev

\* Seeded fault: the precondition is never evaluated.
RevUnchecked(c) == c \notin Ops
RevConflict(c) == IfRev(c) # NoRev /\ IfRev(c) # rev

\* Dequeue passes every check and the handler starts.
DequeueRuns(c) ==
  /\ FnStarts(c, "running")
  /\ ~RevConflict(c)
  /\ UNCHANGED verdict

\* Dequeue throws: the probe failed or the note is an immutable record (both
\* come before the revision check, whatever it would say), or if_rev is stale.
DequeueRefuses(c) ==
  /\ FnStarts(c, "rejecting")
  /\ \/ verdict' = [verdict EXCEPT ![c] = "thrown"]
     \/ RevConflict(c) /\ verdict' = [verdict EXCEPT ![c] = "conflict"]

Dequeue(c) ==
  /\ DequeueRuns(c) \/ DequeueRefuses(c)
  /\ UNCHANGED <<svars, phase, request, waitsFor, result, stamped, journal, vault>>

\* The handler returns an envelope (a success or a failure), or throws.
HandlerEnds(c) ==
  /\ \/ FnSettles(c, "resolving") /\ \E v \in {"ok", "failed"} : verdict' = [verdict EXCEPT ![c] = v]
     \/ FnSettles(c, "rejecting") /\ verdict' = [verdict EXCEPT ![c] = "thrown"]
  /\ UNCHANGED <<svars, phase, request, waitsFor, result, stamped, journal, vault>>

\* The queue's reaction; for an abandoned call it is onLate, whose corrective
\* record refers to the call's own record if that has been written.
Reaction(c) ==
  /\ FnReaction(c)
  /\ \/ outcome[c] = "none" /\ UNCHANGED journal
     \/ outcome[c] # "none"
        /\ Record(c, IF verdict[c] = "ok" THEN "late-ok" ELSE "late-error", c)
  /\ UNCHANGED <<svars, phase, request, waitsFor, verdict, result, stamped, vault>>
-----------------------------------------------------------------------------
(* Back in runMutation: the catch and finally blocks.                      *)

Ended(c) == IF outcome[c] = "timeout" THEN "timeout" ELSE verdict[c]

OutcomeOf(res) == IF res \in {"ok", "conflict"} THEN res ELSE "error"

\* Seeded fault: a call may go through its finally block again.
DueAgain(c) == outcome[c] # "none"
\* The queue rejected or resolved, and the call has not gone on yet.
Due(c) == phase[c] = "awaiting" /\ outcome[c] # "none"

\* One record, then the key: stored if the call returned, freed if it threw.
Finally(c) ==
  /\ Due(c)
  /\ Ends(c, Ended(c))
  /\ stamped' = stamped \union {c}
  /\ Record(c, OutcomeOf(Ended(c)), NoOp)
  /\ LET k == request[c].key
     IN  \/ k # NoKey /\ SettleKey(k, c, outcome[c] = "resolved")
         \/ k = NoKey /\ UNCHANGED svars
  /\ UNCHANGED <<qvars, request, waitsFor, verdict, vault>>

\* Seeded fault: only a successful owner settles its key.
OwnerSucceeded(c) ==
  phase[c] = "waiting" /\ phase[waitsFor[c]] = "done" /\ outcome[waitsFor[c]] = "resolved"
OwnerSettled(c) == phase[c] = "waiting" /\ phase[waitsFor[c]] = "done"

\* The owner settled: a waiter adopts its outcome verbatim.
WaiterWakes(c) ==
  /\ OwnerSettled(c)
  /\ Ends(c, result[waitsFor[c]])
  /\ Record(c, "deduped", waitsFor[c])
  /\ UNCHANGED <<qvars, svars, request, waitsFor, verdict, stamped, vault>>
-----------------------------------------------------------------------------
(* The vault and the clock move between tasks, once microtasks have run.   *)

Quiet == Drained /\ \A c \in Ops : ~Due(c) /\ ~OwnerSettled(c)

\* The handler's write reaches the vault, whoever holds the slot by then.
HandlerWrites(c) ==
  /\ Quiet
  /\ handler[c] = "running" /\ c \in Writers \ wrote
  /\ wrote' = wrote \union {c}
  /\ rev' = c
  /\ UNCHANGED <<qvars, svars, callvars, edits>>

OutsideEdit ==
  /\ Quiet
  /\ edits < MaxEdits
  /\ edits' = edits + 1
  /\ rev' = edits + 1
  /\ UNCHANGED <<qvars, svars, callvars, wrote>>

ClockTicks ==
  /\ Quiet
  /\ \/ Tick
     \/ UNCHANGED qvars /\ (current = NoOp \/ elapsed = Timeout)
  /\ entries' = Aged
  /\ UNCHANGED <<reserved, callvars, vault>>

QueueMoves ==
  /\ Nudge \/ PumpMicrotask \/ (TimerFires /\ Quiet)
  /\ UNCHANGED <<svars, callvars, vault>>

Next ==
  \/ \E c \in Ops : Call(c)
  \/ \E c \in Ops : Dequeue(c)
  \/ \E c \in Ops : HandlerWrites(c)
  \/ \E c \in Ops : HandlerEnds(c)
  \/ \E c \in Ops : Reaction(c)
  \/ \E c \in Ops : Finally(c)
  \/ \E c \in Ops : WaiterWakes(c)
  \/ QueueMoves
  \/ OutsideEdit
  \/ ClockTicks

Spec == Init /\ [][Next]_vars

Microtask ==
  \/ \E c \in Ops : Dequeue(c) \/ Reaction(c) \/ Finally(c) \/ WaiterWakes(c)
  \/ PumpMicrotask /\ UNCHANGED <<svars, callvars, vault>>

\* Microtasks run, time passes and the queue keeps being nudged by other activity;
\* no handler is assumed to end and no timer to fire.
Fairness ==
  /\ WF_vars(Microtask)
  /\ WF_vars(Nudge /\ UNCHANGED <<svars, callvars, vault>>)
  /\ WF_vars(ClockTicks)

FairSpec == Spec /\ Fairness
-----------------------------------------------------------------------------
LateOutcomes == {"late-ok", "late-error"}

Count(c, outcomes) ==
  Cardinality({i \in 1..Len(journal[c]) : journal[c][i].outcome \in outcomes})

\* Every call is journaled exactly once, when it ends, and once more exactly
\* when its handler settles after the queue gave it up (index.ts 378-386).
JournaledOnce ==
  \A c \in Ops :
    /\ Count(c, RecordOutcomes \ LateOutcomes) = IF phase[c] = "done" THEN 1 ELSE 0
    /\ Count(c, LateOutcomes) = IF c \in late THEN 1 ELSE 0

\* A corrective record amends a call that was told timeout: it comes after that
\* call's own record and names it, unless the handler settled before the call had
\* been journaled.  Then it comes first and names nothing, and the call's own
\* record is still written after it (548-578, 594-627).
CorrectsATimeout ==
  \A c \in Ops : \A i \in 1..Len(journal[c]) :
    journal[c][i].outcome \in LateOutcomes =>
      /\ outcome[c] = "timeout"
      /\ journal[c][i].refers = c <=> i = 2
      /\ i = 2 => journal[c][1].outcome = "error"
      /\ i = 1 /\ phase[c] = "done" => Len(journal[c]) = 2 /\ journal[c][2].outcome = "error"

\* docs/kernel-v0.md 74-77, journal.ts 24-26: the original line stands, and the
\* corrective record appended to it names the record it amends.
CorrectionNamesItsRecord ==
  \A c \in Ops : \A i \in 1..Len(journal[c]) :
    journal[c][i].outcome \in LateOutcomes => i = 2 /\ journal[c][i].refers = c

\* A "deduped" record names the earlier record of a call that presented the
\* same key for the same request and ended the same way; the deduped call
\* itself never reached the queue (430-446).
DedupedTellsTheStory ==
  \A c \in Ops : \A i \in 1..Len(journal[c]) :
    journal[c][i].outcome = "deduped" =>
      /\ handler[c] = "idle"
      /\ \E d \in stamped \ {c} :
           /\ journal[c][i].refers = d
           /\ request[d] = request[c]
           /\ result[d] = result[c]

Forgotten(c) == phase[c] = "done" /\ \A i \in 1..Len(entries) : entries[i].owner # c

\* Retries of one key run one after the other at most, and a second one runs
\* only after the store has let go of the first (401-448).
RetryNeverRepeats ==
  \A c, d \in Ops :
    (c # d /\ Started(c) /\ Started(d)
       /\ request[c].key = request[d].key /\ request[c].key # NoKey)
      => Forgotten(c) \/ Forgotten(d)

Owners(es) == {es[i].owner : i \in 1..Len(es)}

\* The store lets go of a completed call only past its TTL, or, when full, to
\* make room for the newest, the oldest first (idempotency.ts 244-254, 319-327).
KeptUntilExpiry ==
  [][\A i \in 1..Len(entries) :
       entries[i].age < Ttl =>
         \/ entries[i].owner \in Owners(entries')
         \/ i = 1 /\ Len(entries) = MaxEntries /\ Owners(entries') \ Owners(entries) # {}]_entries

WritesNow(c) == c \in wrote' \ wrote

\* A write made under if_rev lands on the revision it named (docs/kernel-v0.md 87-95).
ConditionalWriteIsCurrent ==
  [][\A c \in Ops : WritesNow(c) => IfRev(c) \in {NoRev, rev}]_wrote

\* Among calls the queue did not abandon it always does: a conditional write
\* overwrites a revision it did not name only if it was abandoned itself, or
\* the revision was made by an abandoned call or outside the queue (520-526).
OnlyBypassersLoseUpdates ==
  [][\A c \in Ops : WritesNow(c) =>
       \/ IfRev(c) \in {NoRev, rev}
       \/ outcome[c] = "timeout"
       \/ rev \notin Ops
       \/ outcome[rev] = "timeout"]_wrote

\* Every call ends, its waiters' too, though handlers may hang and timers sleep.
EveryCallEnds ==
  \A c \in Ops : phase[c] # "idle" ~> phase[c] = "done"
=============================================================================
