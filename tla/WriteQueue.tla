----------------------------- MODULE WriteQueue -----------------------------
(***************************************************************************)
(* The plugin's serialized write queue, kernel/write-queue.ts.             *)
(*                                                                         *)
(* One renderer thread, so every action below is a run-to-completion step: *)
(* a call (run, nudge), a timer, or one promise reaction (microtask).      *)
(* The code's wall-clock test now() - startedAt >= timeoutMs is all that   *)
(* reads the clock, so the state keeps the holder's elapsed time, capped   *)
(* at Timeout, in place of the two instants: no bound on time is needed.   *)
(*                                                                         *)
(* Timers may fire late or never (a suspended renderer, write-queue.ts     *)
(* lines 19-30), so TimerFires is never assumed fair.                      *)
(***************************************************************************)
EXTENDS Naturals, Sequences

CONSTANTS
  Ops,      \* operations handed to run(), each at most once
  NoOp,     \* this.current === null
  Timeout   \* timeoutMs, in clock ticks

ASSUME QueueAssumption == NoOp \notin Ops /\ Timeout \in Nat \ {0}

VARIABLES
  pending,   \* this.pending: operations waiting behind the holder, FIFO
  current,   \* this.current: the operation holding the slot, or NoOp
  elapsed,   \* now() - current.startedAt, capped at Timeout
  handler,   \* where each operation's fn stands, see HandlerStates
  outcome,   \* what the promise returned by run() settled with
  late,      \* operations whose onLate was called
  pumpsOwed  \* pump() microtasks queued by claim() and not yet run

qvars == <<pending, current, elapsed, handler, outcome, late, pumpsOwed>>

\* "scheduled": pump() took it, fn runs in the next microtask (188).
\* "resolving"/"rejecting": fn's promise settled, the reaction at 189-192 is due.
HandlerStates ==
  {"idle", "queued", "scheduled", "running", "resolving", "rejecting", "settled"}
Outcomes == {"resolved", "rejected", "timeout"}

QTypeOK ==
  /\ pending \in Seq(Ops)
  /\ current \in Ops \union {NoOp}
  /\ elapsed \in 0..Timeout
  /\ handler \in [Ops -> HandlerStates]
  /\ outcome \in [Ops -> Outcomes \union {"none"}]
  /\ late \in SUBSET Ops
  /\ pumpsOwed \in Nat

QInit ==
  /\ pending = <<>>
  /\ current = NoOp
  /\ elapsed = 0
  /\ handler = [o \in Ops |-> "idle"]
  /\ outcome = [o \in Ops |-> "none"]
  /\ late = {}
  /\ pumpsOwed = 0

Overdue == current # NoOp /\ elapsed >= Timeout

\* No microtask of the queue is due: only then does the event loop turn.
Drained ==
  /\ pumpsOwed = 0
  /\ \A o \in Ops : handler[o] \notin {"scheduled", "resolving", "rejecting"}

\* The head of the line q takes the free slot; its fn is scheduled.
Takes(q, h) ==
  /\ current' = Head(q)
  /\ elapsed' = 0
  /\ handler' = [h EXCEPT ![Head(q)] = "scheduled"]

Shift(q, h) == Takes(q, h) /\ pending' = Tail(q)

\* pump() over the line q and handler states h, the slot being free or not.
Pumped(free, q, h) ==
  \/ free /\ q # <<>> /\ Shift(q, h)
  \/ /\ free /\ q = <<>>
     /\ current' = NoOp
     /\ elapsed' = 0
     /\ pending' = q
     /\ handler' = h
  \/ /\ ~free
     /\ pending' = q
     /\ handler' = h
     /\ UNCHANGED <<current, elapsed>>

\* Seeded fault: no pump is scheduled after a release.
ClaimedQuietly(out) ==
  outcome' = [outcome EXCEPT ![current] = out] /\ UNCHANGED pumpsOwed

\* claim() won for the holder: one outcome, the slot freed, one pump owed.
Claimed(out) ==
  /\ outcome' = [outcome EXCEPT ![current] = out]
  /\ pumpsOwed' = pumpsOwed + 1

\* nudge(): abandon the holder if its budget is spent, then pump.
Nudged(q, h) ==
  /\ \/ Overdue /\ Claimed("timeout")
     \/ ~Overdue /\ UNCHANGED <<outcome, pumpsOwed>>
  /\ Pumped(Overdue \/ current = NoOp, q, h)
  /\ UNCHANGED late

\* Seeded fault: a newcomer is served first.
RunFirst(o) ==
  /\ handler[o] = "idle"
  /\ Nudged(<<o>> \o pending, [handler EXCEPT ![o] = "queued"])

\* run(): enqueue, then nudge, in one synchronous step.
Run(o) ==
  /\ handler[o] = "idle"
  /\ Nudged(Append(pending, o), [handler EXCEPT ![o] = "queued"])

\* nudge() called from outside, after a journal append.
Nudge == Nudged(pending, handler)

\* The microtask claim() scheduled.
PumpMicrotask ==
  /\ pumpsOwed > 0
  /\ pumpsOwed' = pumpsOwed - 1
  /\ Pumped(current = NoOp, pending, handler)
  /\ UNCHANGED <<outcome, late>>

\* setTimeout(abandon, timeoutMs), where the renderer's timers still run.
TimerFires ==
  /\ Overdue /\ Drained
  /\ Claimed("timeout")
  /\ current' = NoOp
  /\ elapsed' = 0
  /\ UNCHANGED <<pending, handler, late>>

FnMoves(o, from, to) ==
  /\ handler[o] = from
  /\ handler' = [handler EXCEPT ![o] = to]

\* fn() is called: it runs on, possibly to wait forever on the vault, or throws
\* at once, which Promise.resolve().then turns into a rejection (185-188).
FnStarts(o, how) ==
  /\ FnMoves(o, "scheduled", how)
  /\ UNCHANGED <<pending, current, elapsed, outcome, late, pumpsOwed>>

\* fn's promise settles.
FnSettles(o, how) ==
  /\ FnMoves(o, "running", how)
  /\ UNCHANGED <<pending, current, elapsed, outcome, late, pumpsOwed>>

\* claim()'s "settled" flag is still down.
Unclaimed(o) == outcome[o] = "none"

\* The reaction to fn's promise: claim() is still to be won ...
Settle(o) ==
  /\ Unclaimed(o)
  /\ outcome' = [outcome EXCEPT
                   ![o] = IF handler[o] = "resolving" THEN "resolved" ELSE "rejected"]
  /\ pumpsOwed' = pumpsOwed + 1
  /\ current' = NoOp
  /\ elapsed' = 0
  /\ UNCHANGED <<pending, late>>

\* ... or the operation was abandoned, and its settlement goes to onLate.
SettleLate(o) ==
  /\ ~Unclaimed(o)
  /\ late' = late \union {o}
  /\ UNCHANGED <<pending, current, elapsed, outcome, pumpsOwed>>

FnReaction(o) ==
  /\ handler[o] \in {"resolving", "rejecting"}
  /\ handler' = [handler EXCEPT ![o] = "settled"]
  /\ Settle(o) \/ SettleLate(o)

\* Time passes between tasks; past the deadline it no longer matters how much.
Tick ==
  /\ current # NoOp /\ elapsed < Timeout
  /\ Drained
  /\ elapsed' = elapsed + 1
  /\ UNCHANGED <<pending, current, handler, outcome, late, pumpsOwed>>

QNext ==
  \/ \E o \in Ops : Run(o)
  \/ Nudge
  \/ PumpMicrotask
  \/ TimerFires
  \/ \E o \in Ops, how \in {"running", "rejecting"} : FnStarts(o, how)
  \/ \E o \in Ops, how \in {"resolving", "rejecting"} : FnSettles(o, how)
  \/ \E o \in Ops : FnReaction(o)
  \/ Tick

QSpec == QInit /\ [][QNext]_qvars
-----------------------------------------------------------------------------
InLine(o) == \E i \in 1..Len(pending) : pending[i] = o

Started(o) == handler[o] \notin {"idle", "queued"}

\* The line holds each queued operation once, and nothing else.
LineInv ==
  /\ \A o \in Ops : handler[o] = "queued" <=> InLine(o)
  /\ \A i, j \in 1..Len(pending) : pending[i] = pending[j] => i = j

\* The slot belongs to the one started operation whose caller has no outcome
\* yet: it is released exactly once, also when an abandoned fn settles later
\* (claim(), write-queue.ts 147-160).
SlotInv ==
  /\ \A o \in Ops : (Started(o) /\ outcome[o] = "none") <=> current = o
  /\ \A o \in Ops : outcome[o] # "none" => Started(o)
  /\ current = NoOp => elapsed = 0

\* No lost wake-up: whenever the slot is free and somebody waits, a pump is
\* on its way (the microtask of claim(), write-queue.ts 156-158).
NoLostWakeup == current = NoOp /\ pending # <<>> => pumpsOwed > 0

\* onLate is called if, and only if, an abandoned fn settles, and then the
\* caller has been told "timeout" (run(), write-queue.ts 107-110).
LateMeansAbandoned ==
  \A o \in Ops : o \in late <=> handler[o] = "settled" /\ outcome[o] = "timeout"

\* What the queue implements: see SerialQueue.
Promise == INSTANCE SerialQueue
             WITH line <- pending, holder <- current, done <- outcome, Pending <- "none"
ServesInOrder == Promise!Spec
=============================================================================
