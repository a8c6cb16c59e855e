---------------------------- MODULE KernelProofs ----------------------------
(***************************************************************************)
(* The write queue and the kernel that runs every mutation off it, for any *)
(* number of calls, keys, TTLs and capacities.                             *)
(*                                                                         *)
(* The queue first: its inductive invariant is QInv - the line, the slot   *)
(* and the handler states are three views of one fact, and none is         *)
(* inductive alone - and it implements SerialQueue.  The kernel only ever  *)
(* drives the queue as WriteQueue allows, so every theorem about the queue *)
(* holds of it; on top of that stand what it promises its callers about    *)
(* conditional writes, idempotency keys and the journal.                   *)
(***************************************************************************)
EXTENDS Kernel, SequenceTheorems, FiniteSetTheorems, TLAPS

(* The write queue.                                                        *)

QInv == QTypeOK /\ LineInv /\ SlotInv

\* LineInv and SlotInv of a line, handler states, holder and outcomes that may
\* be intermediate values of one step.
LineOf(q, h) ==
  /\ \A o \in Ops : h[o] = "queued" <=> \E i \in 1..Len(q) : q[i] = o
  /\ \A i, j \in 1..Len(q) : q[i] = q[j] => i = j

SlotOf(holder, h, out) ==
  /\ \A o \in Ops : (h[o] \notin {"idle", "queued"} /\ out[o] = "none") <=> holder = o
  /\ \A o \in Ops : out[o] # "none" => h[o] \notin {"idle", "queued"}

\* A pump over a consistent line and slot leaves them consistent: the head of
\* the line leaves it and takes the slot exactly when the slot was free.
LEMMA PumpedKeeps ==
  ASSUME NEW free \in BOOLEAN, NEW q \in Seq(Ops), NEW h \in [Ops -> HandlerStates],
         current \in Ops \union {NoOp}, elapsed \in 0..Timeout,
         outcome' \in [Ops -> Outcomes \union {"none"}],
         LineOf(q, h), SlotOf(IF free THEN NoOp ELSE current, h, outcome'),
         ~free => current # NoOp,
         Pumped(free, q, h)
  PROVE  /\ pending' \in Seq(Ops) /\ current' \in Ops \union {NoOp}
         /\ elapsed' \in 0..Timeout /\ handler' \in [Ops -> HandlerStates]
         /\ LineInv' /\ SlotInv'
<1> USE QueueAssumption
<1>1. CASE free /\ q # <<>> /\ Shift(q, h)
  <2>1. /\ Len(q) \in Nat /\ Len(q) > 0 /\ Head(q) = q[1] /\ Head(q) \in Ops
        /\ Tail(q) \in Seq(Ops) /\ Len(Tail(q)) = Len(q) - 1
        /\ \A i \in 1..Len(q) - 1 : Tail(q)[i] = q[i + 1]
    BY <1>1
  <2>2. /\ pending' = Tail(q) /\ current' = Head(q) /\ elapsed' = 0
        /\ handler' = [h EXCEPT ![Head(q)] = "scheduled"]
    BY <1>1 DEF Shift, Takes
  <2>3. handler' \in [Ops -> HandlerStates] /\ elapsed' \in 0..Timeout
    BY <2>1, <2>2 DEF HandlerStates
  <2>4. h[Head(q)] = "queued"
    BY <2>1 DEF LineOf
  <2>5. LineInv'
    <3>1. ASSUME NEW o \in Ops PROVE handler'[o] = "queued" <=> \E i \in 1..Len(Tail(q)) : Tail(q)[i] = o
      <4>1. CASE o = Head(q)
        BY <4>1, <2>1, <2>2 DEF LineOf
      <4>2. CASE o # Head(q)
        <5>1. handler'[o] = h[o]
          BY <4>2, <2>2, <2>1
        <5>2. ASSUME NEW i \in 1..Len(q), q[i] = o PROVE \E j \in 1..Len(Tail(q)) : Tail(q)[j] = o
          <6>1. i - 1 \in 1..Len(Tail(q)) /\ Tail(q)[i - 1] = o
            BY <5>2, <4>2, <2>1
          <6> QED BY <6>1
        <5>3. ASSUME NEW j \in 1..Len(Tail(q)), Tail(q)[j] = o PROVE \E i \in 1..Len(q) : q[i] = o
          <6>1. j + 1 \in 1..Len(q) /\ q[j + 1] = o
            BY <5>3, <2>1
          <6> QED BY <6>1
        <5> QED BY <5>1, <5>2, <5>3 DEF LineOf
      <4> QED BY <4>1, <4>2
    <3>2. ASSUME NEW i \in 1..Len(Tail(q)), NEW j \in 1..Len(Tail(q)), Tail(q)[i] = Tail(q)[j]
          PROVE  i = j
      <4>1. i + 1 \in 1..Len(q) /\ j + 1 \in 1..Len(q) /\ q[i + 1] = q[j + 1]
        BY <3>2, <2>1
      <4>2. i + 1 = j + 1
        BY <4>1 DEF LineOf
      <4> QED BY <4>2
    <3> QED BY <3>1, <3>2, <2>2 DEF LineInv, InLine
  <2>6. SlotInv'
    BY <1>1, <2>1, <2>2, <2>4 DEF SlotInv, SlotOf, Started
  <2> QED BY <2>1, <2>2, <2>3, <2>5, <2>6
<1>2. CASE free /\ q = <<>> /\ current' = NoOp /\ elapsed' = 0 /\ pending' = q /\ handler' = h
  BY <1>2 DEF LineInv, InLine, LineOf, SlotInv, SlotOf, Started
<1>3. CASE ~free /\ pending' = q /\ handler' = h /\ UNCHANGED <<current, elapsed>>
  BY <1>3 DEF LineInv, InLine, LineOf, SlotInv, SlotOf, Started
<1> QED BY <1>1, <1>2, <1>3 DEF Pumped

\* A nudge over a line and handler states that keep every operation started or
\* not leaves a consistent queue, whether or not it abandons the holder.
LEMMA NudgedKeeps ==
  ASSUME QInv, NEW q \in Seq(Ops), NEW h \in [Ops -> HandlerStates],
         LineOf(q, h), \A o \in Ops : h[o] \notin {"idle", "queued"} <=> Started(o),
         Nudged(q, h)
  PROVE  QInv'
<1> USE QueueAssumption
<1>1. /\ current \in Ops \union {NoOp} /\ elapsed \in 0..Timeout /\ pumpsOwed \in Nat
      /\ late' \in SUBSET Ops
  BY DEF QInv, QTypeOK, Nudged
<1>2. /\ outcome' \in [Ops -> Outcomes \union {"none"}] /\ pumpsOwed' \in Nat
      /\ SlotOf(IF Overdue \/ current = NoOp THEN NoOp ELSE current, h, outcome')
  <2>1. CASE Overdue /\ Claimed("timeout")
    BY <2>1, <1>1 DEF QInv, QTypeOK, Outcomes, SlotInv, SlotOf, Overdue, Claimed
  <2>2. CASE ~Overdue /\ UNCHANGED <<outcome, pumpsOwed>>
    BY <2>2, <1>1 DEF QInv, QTypeOK, SlotInv, SlotOf
  <2> QED BY <2>1, <2>2 DEF Nudged
<1>3. Pumped(Overdue \/ current = NoOp, q, h)
  BY DEF Nudged
<1>4. /\ pending' \in Seq(Ops) /\ current' \in Ops \union {NoOp}
      /\ elapsed' \in 0..Timeout /\ handler' \in [Ops -> HandlerStates]
      /\ LineInv' /\ SlotInv'
  BY <1>1, <1>2, <1>3, PumpedKeeps
<1> QED BY <1>1, <1>2, <1>4 DEF QInv, QTypeOK
-----------------------------------------------------------------------------
\* Enqueueing: an operation that was idle joins the end of the line.
LEMMA AppendKeeps ==
  ASSUME QInv, NEW o \in Ops, handler[o] = "idle"
  PROVE  /\ Append(pending, o) \in Seq(Ops)
         /\ [handler EXCEPT ![o] = "queued"] \in [Ops -> HandlerStates]
         /\ LineOf(Append(pending, o), [handler EXCEPT ![o] = "queued"])
         /\ \A p \in Ops : [handler EXCEPT ![o] = "queued"][p] \notin {"idle", "queued"} <=> Started(p)
<1> DEFINE q == Append(pending, o)
           h == [handler EXCEPT ![o] = "queued"]
<1>1. /\ pending \in Seq(Ops) /\ handler \in [Ops -> HandlerStates]
      /\ \A p \in Ops : handler[p] = "queued" <=> \E i \in 1..Len(pending) : pending[i] = p
      /\ \A i, j \in 1..Len(pending) : pending[i] = pending[j] => i = j
  BY DEF QInv, QTypeOK, LineInv, InLine
<1>2. /\ q \in Seq(Ops) /\ Len(pending) \in Nat /\ Len(q) = Len(pending) + 1
      /\ q[Len(pending) + 1] = o /\ \A i \in 1..Len(pending) : q[i] = pending[i]
  BY <1>1
<1>3. h \in [Ops -> HandlerStates] /\ \A p \in Ops : h[p] = IF p = o THEN "queued" ELSE handler[p]
  BY <1>1 DEF HandlerStates
<1>4. \A i \in 1..Len(pending) : pending[i] # o
  BY <1>1
<1>5. \A p \in Ops : h[p] = "queued" <=> \E i \in 1..Len(q) : q[i] = p
  <2>1. ASSUME NEW p \in Ops, p # o, h[p] = "queued" PROVE \E i \in 1..Len(q) : q[i] = p
    <3>1. PICK i \in 1..Len(pending) : pending[i] = p
      BY <2>1, <1>1, <1>3
    <3>2. i \in 1..Len(q) /\ q[i] = p
      BY <3>1, <1>2
    <3> QED BY <3>2
  <2>2. ASSUME NEW p \in Ops, p # o, NEW i \in 1..Len(q), q[i] = p PROVE h[p] = "queued"
    <3>1. i \in 1..Len(pending) /\ pending[i] = p
      BY <2>2, <1>2
    <3> QED BY <3>1, <2>2, <1>1, <1>3
  <2>3. h[o] = "queued" /\ Len(q) \in 1..Len(q) /\ q[Len(q)] = o
    BY <1>2, <1>3
  <2> QED BY <2>1, <2>2, <2>3
<1>6. \A i, j \in 1..Len(q) : q[i] = q[j] => i = j
  BY <1>1, <1>2, <1>4
<1>7. \A p \in Ops : h[p] \notin {"idle", "queued"} <=> Started(p)
  BY <1>3 DEF Started
<1> HIDE DEF q, h
<1>8. LineOf(q, h)
  BY <1>5, <1>6 DEF LineOf
<1> QED BY <1>2, <1>3, <1>7, <1>8 DEF q, h

\* One step of the queue preserves the inductive invariant.
LEMMA QInvStep == QInv /\ [QNext]_qvars => QInv'
<1> SUFFICES ASSUME QInv, [QNext]_qvars PROVE QInv'
  OBVIOUS
<1> USE QueueAssumption
<1>1. /\ pending \in Seq(Ops) /\ handler \in [Ops -> HandlerStates]
      /\ LineOf(pending, handler) /\ pumpsOwed \in Nat
      /\ SlotOf(current, handler, outcome)
  BY DEF QInv, QTypeOK, LineInv, InLine, LineOf, SlotInv, Started, SlotOf
<1>2. ASSUME NEW o \in Ops, Run(o) PROVE QInv'
  BY <1>2, AppendKeeps, NudgedKeeps DEF Run
<1>3. CASE Nudge
  BY <1>1, <1>3, NudgedKeeps DEF Nudge, Started
<1>4. CASE PumpMicrotask
  <2>1. /\ outcome' \in [Ops -> Outcomes \union {"none"}] /\ late' \in SUBSET Ops
        /\ pumpsOwed' \in Nat /\ elapsed \in 0..Timeout /\ current \in Ops \union {NoOp}
        /\ SlotOf(IF current = NoOp THEN NoOp ELSE current, handler, outcome')
        /\ Pumped(current = NoOp, pending, handler)
    BY <1>1, <1>4 DEF PumpMicrotask, QInv, QTypeOK
  <2>2. /\ pending' \in Seq(Ops) /\ current' \in Ops \union {NoOp}
        /\ elapsed' \in 0..Timeout /\ handler' \in [Ops -> HandlerStates]
        /\ LineInv' /\ SlotInv'
    BY <1>1, <2>1, PumpedKeeps
  <2> QED BY <2>1, <2>2 DEF QInv, QTypeOK
<1>5. CASE TimerFires
  BY <1>5 DEF TimerFires, Overdue, Claimed, QInv, QTypeOK, Outcomes, LineInv, InLine, SlotInv, Started
<1>6. ASSUME NEW o \in Ops, NEW how \in {"running", "rejecting"}, FnStarts(o, how) PROVE QInv'
  BY <1>6 DEF FnStarts, FnMoves, QInv, QTypeOK, HandlerStates, LineInv, InLine, SlotInv, Started
<1>7. ASSUME NEW o \in Ops, NEW how \in {"resolving", "rejecting"}, FnSettles(o, how) PROVE QInv'
  BY <1>7 DEF FnSettles, FnMoves, QInv, QTypeOK, HandlerStates, LineInv, InLine, SlotInv, Started
<1>8. ASSUME NEW o \in Ops, FnReaction(o) PROVE QInv'
  <2>1. CASE Settle(o)
    BY <1>8, <2>1 DEF FnReaction, Settle, Unclaimed, QInv, QTypeOK, HandlerStates, Outcomes,
                      LineInv, InLine, SlotInv, Started
  <2>2. CASE SettleLate(o)
    BY <1>8, <2>2 DEF FnReaction, SettleLate, Unclaimed, QInv, QTypeOK, HandlerStates,
                      LineInv, InLine, SlotInv, Started
  <2> QED BY <1>8, <2>1, <2>2 DEF FnReaction
<1>9. CASE Tick
  BY <1>9 DEF Tick, QInv, QTypeOK, LineInv, InLine, SlotInv, Started
<1>10. CASE UNCHANGED qvars
  BY <1>10 DEF qvars, QInv, QTypeOK, LineInv, InLine, SlotInv, Started
<1> QED BY <1>2, <1>3, <1>4, <1>5, <1>6, <1>7, <1>8, <1>9, <1>10 DEF QNext

\* The inductive invariant of the queue holds at start.
LEMMA QInvInit == QInit => QInv
BY QueueAssumption DEF QInit, QInv, QTypeOK, HandlerStates, LineInv, InLine, SlotInv, Started

\* The inductive invariant of the queue.
THEOREM QInvAlways == QSpec => []QInv
BY QInvInit, QInvStep, PTL DEF QSpec

\* The queue's state keeps its types.
THEOREM QTypeCorrect == QSpec => []QTypeOK
BY QInvAlways, PTL DEF QInv

\* The slot is held by one operation at a time, the only started one whose
\* caller waits, and is released exactly once for each.
THEOREM SlotExclusive == QSpec => []SlotInv
BY QInvAlways, PTL DEF QInv

\* The line holds each queued operation exactly once: none is lost or repeated.
THEOREM LineExact == QSpec => []LineInv
BY QInvAlways, PTL DEF QInv
-----------------------------------------------------------------------------
\* No wake-up is lost: a free slot with a line behind it has a pump on its way.
THEOREM NoWakeupLost == QSpec => []NoLostWakeup
<1> USE QueueAssumption
<1>1. QInit => NoLostWakeup
  BY DEF QInit, NoLostWakeup
<1>2. ASSUME NEW free \in BOOLEAN, NEW q \in Seq(Ops), NEW h,
             Pumped(free, q, h), ~free => current # NoOp
      PROVE  current' = NoOp => pending' = <<>>
  BY <1>2 DEF Pumped, Shift, Takes
<1>3. QInv /\ NoLostWakeup /\ [QNext]_qvars => NoLostWakeup'
  <2> SUFFICES ASSUME QInv, NoLostWakeup, [QNext]_qvars PROVE NoLostWakeup'
    OBVIOUS
  <2>1. pending \in Seq(Ops) /\ pumpsOwed \in Nat /\ \A o \in Ops : Append(pending, o) \in Seq(Ops)
    BY DEF QInv, QTypeOK
  <2>2. ASSUME NEW q \in Seq(Ops), NEW h, Nudged(q, h) PROVE NoLostWakeup'
    <3>1. Pumped(Overdue \/ current = NoOp, q, h)
      BY <2>2 DEF Nudged
    <3>2. current' = NoOp => pending' = <<>>
      BY <3>1, <1>2
    <3> QED BY <3>2 DEF NoLostWakeup
  <2>3. ASSUME NEW o \in Ops, Run(o) PROVE NoLostWakeup'
    BY <2>1, <2>2, <2>3 DEF Run
  <2>4. CASE Nudge
    BY <2>1, <2>2, <2>4 DEF Nudge
  <2>5. CASE PumpMicrotask
    <3>1. Pumped(current = NoOp, pending, handler)
      BY <2>5 DEF PumpMicrotask
    <3>2. current' = NoOp => pending' = <<>>
      BY <3>1, <2>1, <1>2
    <3> QED BY <3>2 DEF NoLostWakeup
  <2>6. CASE TimerFires
    BY <2>1, <2>6 DEF TimerFires, Claimed, NoLostWakeup
  <2>7. ASSUME NEW o \in Ops, NEW how, FnStarts(o, how) \/ FnSettles(o, how) PROVE NoLostWakeup'
    BY <2>7 DEF FnStarts, FnSettles, NoLostWakeup
  <2>8. ASSUME NEW o \in Ops, FnReaction(o) PROVE NoLostWakeup'
    BY <2>1, <2>8 DEF FnReaction, Settle, SettleLate, NoLostWakeup
  <2>9. CASE Tick \/ UNCHANGED qvars
    BY <2>9 DEF Tick, qvars, NoLostWakeup
  <2> QED BY <2>3, <2>4, <2>5, <2>6, <2>7, <2>8, <2>9 DEF QNext
<1> QED BY <1>1, <1>3, QInvAlways, PTL DEF QSpec

\* An fn that settled gave its caller an outcome, and only such an fn gave it
\* an outcome other than "timeout": what makes LateMeansAbandoned inductive.
SettledInv ==
  \A o \in Ops : /\ handler[o] = "settled" => outcome[o] # "none"
                 /\ outcome[o] \in {"resolved", "rejected"} => handler[o] = "settled"

\* Steps that neither settle an fn nor call onLate keep the two, as long as the
\* outcomes they give are timeouts.
LEMMA LateKept ==
  ASSUME QInv, SettledInv, LateMeansAbandoned, QInv', UNCHANGED late,
         \A o \in Ops : handler'[o] = "settled" <=> handler[o] = "settled",
         \A o \in Ops : outcome'[o] # outcome[o] => outcome[o] = "none" /\ outcome'[o] = "timeout"
  PROVE  SettledInv' /\ LateMeansAbandoned'
<1>1. ASSUME NEW o \in Ops PROVE handler[o] = "settled" => outcome'[o] = outcome[o]
  BY <1>1 DEF SettledInv
<1> QED BY <1>1 DEF SettledInv, LateMeansAbandoned

\* SettledInv makes LateMeansAbandoned inductive: both always hold.
LEMMA SettledAlways == QSpec => [](SettledInv /\ LateMeansAbandoned)
<1> USE QueueAssumption
<1>1. QInit => SettledInv /\ LateMeansAbandoned
  BY DEF QInit, SettledInv, LateMeansAbandoned
<1>2. ASSUME QInv, NEW q, NEW h \in [Ops -> HandlerStates], Nudged(q, h),
             \A o \in Ops : h[o] = "settled" <=> handler[o] = "settled",
             q # <<>> => Head(q) \in Ops /\ h[Head(q)] # "settled"
      PROVE  /\ \A o \in Ops : handler'[o] = "settled" <=> handler[o] = "settled"
             /\ \A o \in Ops : outcome'[o] # outcome[o] => outcome[o] = "none" /\ outcome'[o] = "timeout"
             /\ UNCHANGED late
  BY <1>2 DEF QInv, QTypeOK, SlotInv, Nudged, Claimed, Overdue, Pumped, Shift, Takes
<1>3. QInv /\ QInv' /\ SettledInv /\ LateMeansAbandoned /\ [QNext]_qvars
        => SettledInv' /\ LateMeansAbandoned'
  <2> SUFFICES ASSUME QInv, QInv', SettledInv, LateMeansAbandoned, [QNext]_qvars
               PROVE  SettledInv' /\ LateMeansAbandoned'
    OBVIOUS
  <2>1. /\ pending \in Seq(Ops) /\ handler \in [Ops -> HandlerStates]
        /\ outcome \in [Ops -> Outcomes \union {"none"}] /\ late \in SUBSET Ops
    BY DEF QInv, QTypeOK
  <2>2. pending # <<>> => Head(pending) \in Ops /\ handler[Head(pending)] = "queued"
    BY <2>1 DEF QInv, LineInv, InLine
  <2>3. ASSUME NEW o \in Ops, Run(o) PROVE SettledInv' /\ LateMeansAbandoned'
    <3> DEFINE q == Append(pending, o)
               h == [handler EXCEPT ![o] = "queued"]
    <3>1. handler[o] = "idle" /\ Nudged(q, h)
      BY <2>3 DEF Run
    <3>2. q # <<>> /\ Head(q) \in Ops /\ Head(q) = IF pending = <<>> THEN o ELSE Head(pending)
      BY <2>1
    <3>3. /\ h \in [Ops -> HandlerStates]
          /\ \A p \in Ops : h[p] = "settled" <=> handler[p] = "settled"
          /\ h[Head(q)] = "queued"
      BY <3>1, <3>2, <2>1, <2>2 DEF HandlerStates
    <3> HIDE DEF q, h
    <3> QED BY <1>2, <3>1, <3>2, <3>3, LateKept
  <2>4. CASE Nudge
    BY <1>2, <2>1, <2>2, <2>4, LateKept DEF Nudge
  <2>5. CASE PumpMicrotask
    <3>1. \A o \in Ops : handler'[o] = "settled" <=> handler[o] = "settled"
      BY <2>1, <2>2, <2>5 DEF PumpMicrotask, Pumped, Shift, Takes
    <3> QED BY <2>5, <3>1, LateKept DEF PumpMicrotask
  <2>6. CASE TimerFires
    BY <2>1, <2>6, LateKept DEF TimerFires, Claimed, Overdue, QInv, SlotInv
  <2>7. ASSUME NEW o \in Ops, NEW how \in {"running", "rejecting", "resolving"},
               FnStarts(o, how) \/ FnSettles(o, how)
        PROVE  SettledInv' /\ LateMeansAbandoned'
    BY <2>1, <2>7, LateKept DEF FnStarts, FnSettles, FnMoves
  <2>8. ASSUME NEW o \in Ops, FnReaction(o) PROVE SettledInv' /\ LateMeansAbandoned'
    <3>1. CASE Settle(o)
      BY <2>1, <2>8, <3>1 DEF FnReaction, Settle, Unclaimed, SettledInv, LateMeansAbandoned
    <3>2. CASE SettleLate(o)
      BY <2>1, <2>8, <3>2 DEF FnReaction, SettleLate, Unclaimed, SettledInv, LateMeansAbandoned, Outcomes
    <3> QED BY <2>8, <3>1, <3>2 DEF FnReaction
  <2>9. CASE Tick \/ UNCHANGED qvars
    BY <2>9 DEF Tick, qvars, SettledInv, LateMeansAbandoned
  <2> QED BY <2>3, <2>4, <2>5, <2>6, <2>7, <2>8, <2>9 DEF QNext
<1> QED BY <1>1, <1>3, QInvAlways, PTL DEF QSpec

\* onLate is called if and only if an abandoned fn settles.
THEOREM LateIffAbandoned == QSpec => []LateMeansAbandoned
BY SettledAlways, PTL
-----------------------------------------------------------------------------
\* A pump over the line q is a hold, a release or a grant of the abstract queue,
\* provided the holder's departure, if it departs, is a Leave.
LEMMA PumpedIsAStep ==
  ASSUME NEW free \in BOOLEAN, NEW q, NEW h, Pumped(free, q, h),
         free => Promise!Leave, ~free => UNCHANGED outcome
  PROVE  Promise!Step(q)
BY DEF Pumped, Shift, Takes, Promise!Step, Promise!Hold, Promise!Release, Promise!Grant

\* A nudge is one too: it abandons the holder exactly when it frees the slot.
LEMMA NudgedIsAStep ==
  ASSUME QInv, NEW q, NEW h, Nudged(q, h)
  PROVE  Promise!Step(q)
<1>1. CASE Overdue /\ Claimed("timeout")
  <2>1. Promise!Leave
    BY <1>1 DEF Overdue, Claimed, Promise!Leave, Outcomes
  <2> QED BY <1>1, <2>1, PumpedIsAStep DEF Nudged
<1>2. CASE ~Overdue /\ UNCHANGED outcome
  <2>1. current = NoOp => Promise!Leave
    BY <1>2 DEF Promise!Leave
  <2> QED BY <1>2, <2>1, PumpedIsAStep DEF Nudged
<1> QED BY <1>1, <1>2 DEF Nudged

\* The queue implements SerialQueue: operations are served in arrival order, one
\* at a time, and each gets its one outcome while it holds the slot, whatever the
\* handlers, the nudges and the timer do.
THEOREM QueueServesInOrder == QSpec => ServesInOrder
<1> USE QueueAssumption
<1>1. QInit => Promise!Init
  BY DEF QInit, Promise!Init
<1>2. QInv /\ [QNext]_qvars => [Promise!Next]_(Promise!vars)
  <2> SUFFICES ASSUME QInv, [QNext]_qvars
               PROVE  Promise!Next \/ UNCHANGED Promise!vars
    OBVIOUS
  <2>1. /\ pending \in Seq(Ops) /\ handler \in [Ops -> HandlerStates]
        /\ outcome \in [Ops -> Outcomes \union {"none"}]
    BY DEF QInv, QTypeOK
  <2>2. ASSUME NEW o \in Ops, Run(o) PROVE Promise!Next
    <3>1. handler[o] = "idle" /\ Nudged(Append(pending, o), [handler EXCEPT ![o] = "queued"])
      BY <2>2 DEF Run
    <3>2. Promise!Fresh(o)
      BY <3>1 DEF QInv, LineInv, InLine, SlotInv, Started, Promise!Fresh, Promise!InLine
    <3>3. Promise!Step(Append(pending, o))
      BY <3>1, NudgedIsAStep
    <3> QED BY <3>2, <3>3 DEF Promise!Next
  <2>3. CASE Nudge
    BY <2>3, NudgedIsAStep DEF Nudge, Promise!Next
  <2>4. CASE PumpMicrotask
    <3>1. current = NoOp => Promise!Leave
      BY <2>4 DEF PumpMicrotask, Promise!Leave
    <3>2. Promise!Step(pending)
      BY <2>4, <3>1, PumpedIsAStep DEF PumpMicrotask
    <3> QED BY <3>2 DEF Promise!Next
  <2>5. CASE TimerFires
    <3>1. Promise!Leave
      BY <2>5 DEF TimerFires, Overdue, Claimed, Promise!Leave, Outcomes
    <3> QED BY <2>5, <3>1 DEF TimerFires, Promise!Next, Promise!Step, Promise!Release
  <2>6. ASSUME NEW o \in Ops, NEW how, FnStarts(o, how) \/ FnSettles(o, how)
        PROVE  UNCHANGED Promise!vars
    BY <2>6 DEF FnStarts, FnSettles, Promise!vars
  <2>7. ASSUME NEW o \in Ops, FnReaction(o) PROVE Promise!Next \/ UNCHANGED Promise!vars
    <3>1. CASE Settle(o)
      <4>1. current = o
        BY <2>7, <3>1 DEF FnReaction, Settle, Unclaimed, QInv, SlotInv, Started
      <4>2. \E out \in Outcomes : outcome' = [outcome EXCEPT ![o] = out]
        BY <3>1 DEF Settle, Outcomes
      <4>3. Promise!Leave
        BY <4>1, <4>2 DEF Promise!Leave
      <4> QED BY <3>1, <4>3 DEF Settle, Promise!Next, Promise!Step, Promise!Release
    <3>2. CASE SettleLate(o)
      BY <3>2 DEF SettleLate, Promise!vars
    <3> QED BY <2>7, <3>1, <3>2 DEF FnReaction
  <2>8. CASE Tick \/ UNCHANGED qvars
    BY <2>8 DEF Tick, qvars, Promise!vars
  <2> QED BY <2>2, <2>3, <2>4, <2>5, <2>6, <2>7, <2>8 DEF QNext
<1> QED BY <1>1, <1>2, QInvAlways, PTL DEF QSpec, ServesInOrder, Promise!Spec
-----------------------------------------------------------------------------
(* The kernel drives the queue.                                            *)

\* Whatever the kernel does is a step of the queue, or leaves it alone.
LEMMA KernelDrivesQueue == [Next]_vars => [QNext]_qvars
<1> SUFFICES ASSUME [Next]_vars PROVE [QNext]_qvars
  OBVIOUS
<1>1. ASSUME NEW c \in Ops, Call(c) PROVE [QNext]_qvars
  BY <1>1 DEF Call, Enqueues, Waits, Replay, Mismatch, QNext
<1>2. ASSUME NEW c \in Ops, Dequeue(c) PROVE [QNext]_qvars
  BY <1>2 DEF Dequeue, DequeueRuns, DequeueRefuses, QNext
<1>3. ASSUME NEW c \in Ops, HandlerEnds(c) PROVE [QNext]_qvars
  BY <1>3 DEF HandlerEnds, QNext
<1>4. ASSUME NEW c \in Ops, Reaction(c) PROVE [QNext]_qvars
  BY <1>4 DEF Reaction, QNext
<1>5. ASSUME NEW c \in Ops, HandlerWrites(c) \/ Finally(c) \/ WaiterWakes(c) PROVE [QNext]_qvars
  BY <1>5 DEF HandlerWrites, Finally, WaiterWakes
<1>6. CASE QueueMoves
  BY <1>6 DEF QueueMoves, QNext
<1>7. CASE OutsideEdit \/ UNCHANGED vars
  BY <1>7 DEF OutsideEdit, vars
<1>8. CASE ClockTicks
  BY <1>8 DEF ClockTicks, QNext
<1> QED BY <1>1, <1>2, <1>3, <1>4, <1>5, <1>6, <1>7, <1>8 DEF Next

\* The kernel is a client of the queue, and nothing more: every behaviour of the
\* kernel is one of the queue.
THEOREM KernelIsAQueueClient == Spec => QSpec
BY KernelDrivesQueue, PTL DEF Spec, Init, QSpec

\* Mutations reach their handlers in arrival order and one at a time.
THEOREM KernelServesInOrder == Spec => ServesInOrder
BY KernelIsAQueueClient, QueueServesInOrder, PTL
-----------------------------------------------------------------------------
\* Once a call got its outcome, it keeps it.
LEMMA OutcomeStays ==
  ASSUME QInv, [QNext]_qvars
  PROVE  \A o \in Ops : outcome[o] # "none" => outcome'[o] = outcome[o]
<1>1. outcome \in [Ops -> Outcomes \union {"none"}]
  BY DEF QInv, QTypeOK
<1>2. \A o \in Ops : current = o => outcome[o] = "none"
  BY DEF QInv, SlotInv
<1>3. ASSUME NEW o \in Ops, Run(o) PROVE \A p \in Ops : outcome[p] # "none" => outcome'[p] = outcome[p]
  BY <1>1, <1>2, <1>3 DEF Run, Nudged, Claimed
<1>4. CASE Nudge \/ TimerFires
  BY <1>1, <1>2, <1>4 DEF Nudge, TimerFires, Nudged, Claimed
<1>5. ASSUME NEW o \in Ops, FnReaction(o) PROVE \A p \in Ops : outcome[p] # "none" => outcome'[p] = outcome[p]
  BY <1>1, <1>5 DEF FnReaction, Settle, SettleLate, Unclaimed
<1>6. ASSUME NEW o, NEW how, FnStarts(o, how) \/ FnSettles(o, how) PROVE UNCHANGED outcome
  BY <1>6 DEF FnStarts, FnSettles
<1>7. CASE PumpMicrotask \/ Tick \/ UNCHANGED qvars
  BY <1>7 DEF PumpMicrotask, Tick, qvars
<1> QED BY <1>3, <1>4, <1>5, <1>6, <1>7 DEF QNext

\* A handler is only ever started by FnStarts.
LEMMA RunningCameFrom ==
  ASSUME QInv, [QNext]_qvars, NEW c \in Ops, handler'[c] = "running"
  PROVE  handler[c] = "running" \/ FnStarts(c, "running")
<1>1. handler \in [Ops -> HandlerStates] /\ pending \in Seq(Ops)
  BY DEF QInv, QTypeOK
<1>2. ASSUME NEW free, NEW q, NEW h \in [Ops -> HandlerStates], Pumped(free, q, h) PROVE handler'[c] # h[c] => handler'[c] = "scheduled"
  BY <1>2 DEF Pumped, Shift, Takes
<1>3. ASSUME NEW o \in Ops, Run(o) PROVE handler[c] = "running"
  <2> DEFINE h == [handler EXCEPT ![o] = "queued"]
  <2>1. h \in [Ops -> HandlerStates] /\ (h[c] = "running" => handler[c] = "running")
    BY <1>1 DEF HandlerStates
  <2>2. Pumped(Overdue \/ current = NoOp, Append(pending, o), h)
    BY <1>3 DEF Run, Nudged
  <2> HIDE DEF h
  <2> QED BY <1>2, <2>1, <2>2
<1>4. CASE Nudge \/ PumpMicrotask
  <2>1. PICK free : Pumped(free, pending, handler)
    BY <1>4 DEF Nudge, Nudged, PumpMicrotask
  <2> QED BY <1>1, <1>2, <2>1
<1>5. ASSUME NEW o \in Ops, NEW how \in {"running", "rejecting"}, FnStarts(o, how)
      PROVE  handler[c] = "running" \/ FnStarts(c, "running")
  <2>1. CASE o = c
    <3>1. how = "running"
      BY <1>1, <1>5, <2>1 DEF FnStarts, FnMoves
    <3> QED BY <1>5, <2>1, <3>1
  <2>2. CASE o # c
    BY <1>1, <1>5, <2>2 DEF FnStarts, FnMoves
  <2> QED BY <2>1, <2>2
<1>6. ASSUME NEW o \in Ops, NEW how \in {"resolving", "rejecting"}, FnSettles(o, how) PROVE handler[c] = "running"
  BY <1>1, <1>6 DEF FnSettles, FnMoves
<1>7. ASSUME NEW o \in Ops, FnReaction(o) PROVE handler[c] = "running"
  BY <1>1, <1>7 DEF FnReaction
<1>8. CASE TimerFires \/ Tick \/ UNCHANGED qvars
  BY <1>8 DEF TimerFires, Tick, qvars
<1> QED BY <1>3, <1>4, <1>5, <1>6, <1>7, <1>8 DEF QNext
-----------------------------------------------------------------------------
\* What is left when one element is taken out of a sequence.
LEMMA Removal ==
  ASSUME NEW S, NEW s \in Seq(S), NEW i \in 1..Len(s)
  PROVE  LET r == SubSeq(s, 1, i - 1) \o SubSeq(s, i + 1, Len(s))
         IN  /\ r \in Seq(S) /\ Len(r) = Len(s) - 1
             /\ \A j \in 1..Len(s) - 1 : r[j] = IF j < i THEN s[j] ELSE s[j + 1]
<1> DEFINE a == SubSeq(s, 1, i - 1)
           b == SubSeq(s, i + 1, Len(s))
<1>1. Len(s) \in Nat /\ \A j \in 1..Len(s) : s[j] \in S
  BY LenProperties, ElementOfSeq
<1>2. a \in Seq(S) /\ Len(a) = i - 1 /\ \A j \in 1..i - 1 : a[j] = s[j]
  <2>1. 1 \in Int /\ i - 1 \in Int /\ \A j \in 1..i - 1 : s[j] \in S
    BY <1>1
  <2> QED BY <1>1, <2>1, SubSeqProperties
<1>3. b \in Seq(S) /\ Len(b) = Len(s) - i /\ \A j \in 1..Len(s) - i : b[j] = s[i + j]
  <2>1. i + 1 \in Int /\ Len(s) \in Int /\ \A j \in i + 1..Len(s) : s[j] \in S
    BY <1>1
  <2> QED BY <1>1, <2>1, SubSeqProperties
<1> HIDE DEF a, b
<1>4. /\ a \o b \in Seq(S) /\ Len(a \o b) = Len(a) + Len(b)
      /\ \A j \in 1..Len(a) + Len(b) : (a \o b)[j] = IF j <= Len(a) THEN a[j] ELSE b[j - Len(a)]
  BY <1>2, <1>3, ConcatProperties
<1>5. ASSUME NEW j \in 1..Len(s) - 1 PROVE (a \o b)[j] = IF j < i THEN s[j] ELSE s[j + 1]
  <2>1. CASE j < i
    BY <1>1, <1>2, <1>3, <1>4, <2>1
  <2>2. CASE ~(j < i)
    <3>1. j - (i - 1) \in 1..Len(s) - i /\ i + (j - (i - 1)) = j + 1
      BY <1>1, <2>2
    <3>2. ~(j <= Len(a)) /\ j \in 1..Len(a) + Len(b) /\ j - Len(a) = j - (i - 1)
      BY <1>1, <1>2, <1>3, <2>2
    <3>3. (a \o b)[j] = b[j - (i - 1)]
      BY <1>4, <3>2
    <3>4. b[j - (i - 1)] = s[i + (j - (i - 1))]
      BY <1>3, <3>1
    <3> QED BY <2>2, <3>1, <3>3, <3>4
  <2> QED BY <2>1, <2>2
<1>6. Len(a \o b) = Len(s) - 1
  BY <1>1, <1>2, <1>3, <1>4
<1> QED BY <1>4, <1>5, <1>6 DEF a, b

\* Dropping the entry of one key leaves completed entries, no more than before.
LEMMA WithoutType ==
  ASSUME StoreTypeOK, NEW k
  PROVE  Without(k) \in Seq(Entries) /\ Len(Without(k)) <= Len(entries)
<1>1. entries \in Seq(Entries) /\ Len(entries) \in Nat
  BY DEF StoreTypeOK
<1>2. CASE Places(k) = {}
  BY <1>1, <1>2 DEF Without
<1>3. CASE Places(k) # {}
  <2>1. PICK i \in 1..Len(entries) :
               Without(k) = SubSeq(entries, 1, i - 1) \o SubSeq(entries, i + 1, Len(entries))
    BY <1>3 DEF Places, Without
  <2>2. Without(k) \in Seq(Entries) /\ Len(Without(k)) = Len(entries) - 1
    BY <1>1, <2>1, Removal
  <2> QED BY <1>1, <2>2
<1> QED BY <1>2, <1>3

\* What a look-up leaves is a list of completed entries.
LEMMA LookUpType ==
  ASSUME StoreTypeOK, NEW k, LookUp(k)
  PROVE  entries' \in Seq(Entries)
<1>1. entries \in Seq(Entries) /\ \A i \in 1..Len(entries) : entries[i] \in Entries
  BY ElementOfSeq DEF StoreTypeOK
<1>2. Without(k) \in Seq(Entries)
  BY WithoutType
<1>3. LiveEntries(k) # {} => (CHOOSE e \in LiveEntries(k) : TRUE) \in Entries
  BY <1>1 DEF LiveEntries, EntriesOf, Places
<1>4. Looked(k) \in Seq(Entries)
  BY <1>2, <1>3, AppendProperties DEF Looked
<1> QED BY <1>1, <1>4 DEF LookUp

\* Storing an envelope, evicting if it must, leaves completed entries.
LEMMA StoredType ==
  ASSUME StoreTypeOK, NEW e \in Entries, MaxEntries \in Nat \ {0}
  PROVE  Stored(e) \in Seq(Entries) /\ Len(Stored(e)) <= MaxEntries
<1> DEFINE all == Append(Without(e.key), e)
<1>1. all \in Seq(Entries) /\ Len(all) \in Nat /\ \A i \in 1..Len(all) : all[i] \in Entries
  BY WithoutType, AppendProperties, ElementOfSeq
<1>2. Stored(e) = IF Len(all) > MaxEntries THEN SubSeq(all, Len(all) - MaxEntries + 1, Len(all)) ELSE all
  BY DEF Stored
<1> HIDE DEF all
<1>3. CASE Len(all) > MaxEntries
  <2> DEFINE m == Len(all) - MaxEntries + 1
  <2>1. m \in Int /\ Len(all) \in Int /\ m <= Len(all) /\ \A i \in m..Len(all) : all[i] \in Entries
    BY <1>1, <1>3
  <2>2. SubSeq(all, m, Len(all)) \in Seq(Entries) /\ Len(SubSeq(all, m, Len(all))) = Len(all) - m + 1
    BY <2>1, SubSeqProperties
  <2> QED BY <1>1, <1>2, <1>3, <2>2
<1>4. CASE ~(Len(all) > MaxEntries)
  BY <1>1, <1>2, <1>4
<1> QED BY <1>3, <1>4

\* Settling a reservation keeps the store's types.
LEMMA SettleKeyType ==
  ASSUME StoreTypeOK, StoreAssumption, NEW k \in Keys, NEW c \in Calls, NEW returned,
         SettleKey(k, c, returned)
  PROVE  StoreTypeOK'
<1>1. CASE /\ reserved[k] # Free /\ reserved[k].owner = c
           /\ reserved' = [reserved EXCEPT ![k] = Free]
           /\ entries' = IF returned
                         THEN Stored([key |-> k, owner |-> c,
                                      identity |-> reserved[k].identity, age |-> 0])
                         ELSE entries
  <2>1. reserved[k].identity \in Identities /\ reserved' \in [Keys -> Reservations \union {Free}]
    BY <1>1 DEF StoreTypeOK, Reservations
  <2> DEFINE e == [key |-> k, owner |-> c, identity |-> reserved[k].identity, age |-> 0]
  <2>2. e \in Entries
    BY <2>1 DEF Entries, StoreAssumption
  <2> HIDE DEF e
  <2>3. Stored(e) \in Seq(Entries) /\ entries \in Seq(Entries)
    BY <2>2, StoredType DEF StoreAssumption, StoreTypeOK
  <2>4. entries' = IF returned THEN Stored(e) ELSE entries
    BY <1>1 DEF e
  <2> QED BY <2>1, <2>3, <2>4 DEF StoreTypeOK
<1>2. CASE UNCHANGED svars
  BY <1>2 DEF svars, StoreTypeOK
<1> QED BY <1>1, <1>2 DEF SettleKey

\* The passage of time keeps every age within the TTL.
LEMMA AgedType ==
  ASSUME StoreTypeOK, StoreAssumption
  PROVE  Aged \in Seq(Entries)
<1>1. \A i \in 1..Len(entries) : entries[i] \in Entries
  BY ElementOfSeq DEF StoreTypeOK
<1>2. \A i \in 1..Len(entries) : Older(entries[i]) \in Entries
  BY <1>1 DEF Older, Entries, StoreAssumption
<1>3. Len(entries) \in Nat
  BY DEF StoreTypeOK
<1> QED BY <1>2, <1>3, IsASeq DEF Aged
-----------------------------------------------------------------------------
\* A record of a call is a journal record.
LEMMA RecordType ==
  ASSUME TypeOK, NEW c \in Ops, NEW out \in RecordOutcomes, NEW d \in Ops \union {NoOp}, Record(c, out, d)
  PROVE  journal' \in [Ops -> Seq(Records)]
<1>1. stamped \in SUBSET Ops /\ journal \in [Ops -> Seq(Records)]
  BY DEF TypeOK
<1>2. [outcome |-> out, refers |-> IF d \in stamped THEN d ELSE NoOp] \in Records
  BY <1>1 DEF Records
<1>3. Append(journal[c], [outcome |-> out, refers |-> IF d \in stamped THEN d ELSE NoOp]) \in Seq(Records)
  BY <1>1, <1>2, AppendProperties
<1> QED BY <1>1, <1>3 DEF Record

\* A call that ends keeps the types of what it ends with.
LEMMA EndsType ==
  ASSUME TypeOK, NEW c \in Ops, NEW res \in Results \union {"none"}, Ends(c, res)
  PROVE  /\ phase' \in [Ops -> Phases] /\ result' \in [Ops -> Results \union {"none"}]
         /\ phase' = [phase EXCEPT ![c] = "done"]
BY DEF TypeOK, Ends, Phases

\* The types hold at start.
LEMMA TypeOKInit == Init => TypeOK
<1> SUFFICES ASSUME Init PROVE TypeOK
  OBVIOUS
<1>1. QTypeOK
  BY QInvInit DEF Init, QInv
<1>2. StoreTypeOK
  BY EmptySeq DEF Init, StoreInit, StoreTypeOK
<1>3. journal \in [Ops -> Seq(Records)]
  BY EmptySeq DEF Init
<1> QED BY <1>1, <1>2, <1>3, KernelAssumption DEF Init, TypeOK, Phases, Revs

\* What a caller may ask is an identity.
LEMMA AskedType ==
  ASSUME TypeOK
  PROVE  Asked \in SUBSET Identities
<1>1. \A a \in Args, r \in {NoRev} \union Revs : [args |-> a, ifRev |-> r] \in Identities
  BY KernelAssumption DEF Revs
<1>2. [args : Args, ifRev : IF Preconditions THEN {NoRev, rev} ELSE {NoRev}] \in SUBSET Identities
  BY <1>1 DEF TypeOK
<1>3. \A d \in Ops : phase[d] # "idle" => request[d].identity \in Identities
  BY DEF TypeOK, Requests
<1> QED BY <1>2, <1>3 DEF Asked

\* One step of the kernel keeps its types.
LEMMA TypeOKStep == QInv /\ TypeOK /\ [Next]_vars => TypeOK'
<1> SUFFICES ASSUME QInv, TypeOK, [Next]_vars PROVE TypeOK'
  OBVIOUS
<1> USE KernelAssumption
<1>0. QTypeOK'
  BY KernelDrivesQueue, QInvStep DEF QInv
<1>1. ASSUME NEW c \in Ops, Call(c) PROVE TypeOK'
  <2>1. PICK k \in Keys \union {NoKey}, identity \in Asked :
          /\ request' = [request EXCEPT ![c] = [key |-> k, identity |-> identity]]
          /\ \/ Enqueues(c, k, identity)
             \/ Waits(c, k, identity)
             \/ Replay(c, k, identity)
             \/ Mismatch(c, k, identity)
    BY <1>1 DEF Call
  <2>2. identity \in Identities /\ [key |-> k, identity |-> identity] \in Requests
    BY AskedType DEF Requests
  <2>3. request' \in [Ops -> Requests \union {NoKey}] /\ request'[c] \in Requests
        /\ \A d \in Ops : d # c => request'[d] = request[d]
    BY <2>1, <2>2 DEF TypeOK
  <2>4. /\ verdict' \in [Ops -> Verdicts \union {"none"}] /\ stamped' \in SUBSET Ops
        /\ rev' \in Revs /\ wrote' \in SUBSET Ops /\ edits' \in 0..MaxEdits
    BY <1>1 DEF Call, vault, TypeOK
  <2>5. CASE Enqueues(c, k, identity)
    <3>1. StoreTypeOK'
      <4>1. CASE UNCHANGED svars
        BY <4>1 DEF svars, TypeOK, StoreTypeOK
      <4>2. CASE k # NoKey /\ Reserve(k, c, identity)
        <5>1. entries' \in Seq(Entries)
          BY <4>2, LookUpType DEF Reserve, TypeOK
        <5>2. reserved' \in [Keys -> Reservations \union {Free}]
          BY <4>2, <2>2 DEF Reserve, TypeOK, StoreTypeOK, Reservations
        <5> QED BY <5>1, <5>2 DEF StoreTypeOK
      <4> QED BY <2>5, <4>1, <4>2 DEF Enqueues
    <3>2. /\ phase' = [phase EXCEPT ![c] = "awaiting"] /\ phase' \in [Ops -> Phases]
          /\ UNCHANGED <<waitsFor, result, journal>>
      BY <2>5 DEF Enqueues, TypeOK, Phases
    <3> QED BY <1>0, <2>3, <2>4, <3>1, <3>2 DEF TypeOK
  <2>6. CASE Waits(c, k, identity)
    <3>1. k \in Keys /\ reserved[k] \in Reservations
      BY <2>6 DEF Waits, MustWait, TypeOK, StoreTypeOK
    <3>2. /\ waitsFor' \in [Ops -> Ops \union {NoOp}] /\ waitsFor'[c] \in Ops
          /\ \A d \in Ops : d # c => waitsFor'[d] = waitsFor[d]
      BY <2>6, <3>1 DEF Waits, Reservations, TypeOK
    <3>3. /\ phase' = [phase EXCEPT ![c] = "waiting"] /\ phase' \in [Ops -> Phases]
          /\ UNCHANGED <<result, journal, reserved, entries>>
      BY <2>6 DEF Waits, TypeOK, Phases, svars
    <3> QED BY <1>0, <2>3, <2>4, <3>2, <3>3 DEF TypeOK, StoreTypeOK
  <2>7. CASE Replay(c, k, identity)
    <3>1. PICK e \in LiveEntries(k) : Ends(c, result[e.owner]) /\ Record(c, "deduped", e.owner)
      BY <2>7 DEF Replay
    <3>2. e \in Entries
      BY ElementOfSeq DEF LiveEntries, EntriesOf, Places, TypeOK, StoreTypeOK
    <3>3. e.owner \in Ops /\ result[e.owner] \in Results \union {"none"}
      BY <3>2 DEF Entries, TypeOK
    <3>4. /\ phase' \in [Ops -> Phases] /\ result' \in [Ops -> Results \union {"none"}]
          /\ phase' = [phase EXCEPT ![c] = "done"]
      BY <3>1, <3>3, EndsType
    <3>5. journal' \in [Ops -> Seq(Records)]
      BY <3>1, <3>3, RecordType DEF RecordOutcomes
    <3>6. StoreTypeOK'
      BY <2>7, LookUpType DEF Replay, TypeOK, StoreTypeOK
    <3>7. UNCHANGED waitsFor
      BY <2>7 DEF Replay
    <3> QED BY <1>0, <2>3, <2>4, <3>4, <3>5, <3>6, <3>7 DEF TypeOK
  <2>8. CASE Mismatch(c, k, identity)
    <3>1. /\ phase' \in [Ops -> Phases] /\ result' \in [Ops -> Results \union {"none"}]
          /\ phase' = [phase EXCEPT ![c] = "done"]
      BY <2>8, EndsType DEF Mismatch, Results
    <3>2. journal' \in [Ops -> Seq(Records)]
      BY <2>8, RecordType DEF Mismatch, RecordOutcomes
    <3>3. StoreTypeOK' /\ UNCHANGED waitsFor
      BY <2>8, LookUpType DEF Mismatch, TypeOK, StoreTypeOK
    <3> QED BY <1>0, <2>3, <2>4, <3>1, <3>2, <3>3 DEF TypeOK
  <2> QED BY <2>1, <2>5, <2>6, <2>7, <2>8
<1>2. ASSUME NEW c \in Ops, Dequeue(c) \/ HandlerEnds(c) PROVE TypeOK'
  <2>1. verdict' \in [Ops -> Verdicts \union {"none"}]
    BY <1>2 DEF Dequeue, DequeueRuns, DequeueRefuses, HandlerEnds, TypeOK, Verdicts
  <2> QED BY <1>0, <1>2, <2>1 DEF Dequeue, HandlerEnds, TypeOK, StoreTypeOK, svars, vault
<1>3. ASSUME NEW c \in Ops, Reaction(c) PROVE TypeOK'
  <2>1. journal' \in [Ops -> Seq(Records)]
    BY <1>3, RecordType DEF Reaction, RecordOutcomes, TypeOK
  <2> QED BY <1>0, <1>3, <2>1 DEF Reaction, TypeOK, StoreTypeOK, svars, vault
<1>4. ASSUME NEW c \in Ops, Finally(c) PROVE TypeOK'
  <2>1. Ended(c) \in Results \union {"none"}
    BY DEF Ended, TypeOK, Results
  <2>2. /\ phase' \in [Ops -> Phases] /\ result' \in [Ops -> Results \union {"none"}]
        /\ phase' = [phase EXCEPT ![c] = "done"]
    BY <1>4, <2>1, EndsType DEF Finally
  <2>3. OutcomeOf(Ended(c)) \in RecordOutcomes
    BY DEF OutcomeOf, RecordOutcomes
  <2>4. journal' \in [Ops -> Seq(Records)]
    BY <1>4, <2>3, RecordType DEF Finally
  <2>5. request[c] \in Requests
    BY <1>4 DEF Finally, Due, TypeOK
  <2>6. StoreTypeOK'
    <3>1. CASE request[c].key # NoKey
      BY <1>4, <2>5, <3>1, SettleKeyType, StoreAssumption DEF Finally, Requests, TypeOK
    <3>2. CASE request[c].key = NoKey
      BY <1>4, <3>2 DEF Finally, svars, TypeOK, StoreTypeOK
    <3> QED BY <3>1, <3>2
  <2>7. stamped' \in SUBSET Ops /\ UNCHANGED <<request, waitsFor, verdict, rev, wrote, edits>>
    BY <1>4 DEF Finally, vault, TypeOK
  <2>8. \A d \in Ops : phase'[d] # "idle" => request'[d] \in Requests
    BY <2>2, <2>5, <2>7 DEF TypeOK
  <2> QED BY <1>0, <2>2, <2>4, <2>6, <2>7, <2>8 DEF TypeOK
<1>5. ASSUME NEW c \in Ops, WaiterWakes(c) PROVE TypeOK'
  <2>1. waitsFor[c] \in Ops /\ result[waitsFor[c]] \in Results \union {"none"}
    BY <1>5 DEF WaiterWakes, OwnerSettled, TypeOK
  <2>2. /\ phase' \in [Ops -> Phases] /\ result' \in [Ops -> Results \union {"none"}]
        /\ phase' = [phase EXCEPT ![c] = "done"]
    BY <1>5, <2>1, EndsType DEF WaiterWakes
  <2>3. journal' \in [Ops -> Seq(Records)]
    BY <1>5, <2>1, RecordType DEF WaiterWakes, RecordOutcomes
  <2>4. request[c] \in Requests
    BY <1>5 DEF WaiterWakes, OwnerSettled, TypeOK
  <2> QED BY <1>0, <1>5, <2>2, <2>3, <2>4 DEF WaiterWakes, TypeOK, StoreTypeOK, svars, vault
<1>6. ASSUME NEW c \in Ops, HandlerWrites(c) PROVE TypeOK'
  BY <1>0, <1>6 DEF HandlerWrites, TypeOK, StoreTypeOK, svars, callvars, Revs
<1>7. CASE OutsideEdit
  BY <1>0, <1>7 DEF OutsideEdit, TypeOK, StoreTypeOK, svars, callvars, Revs
<1>8. CASE ClockTicks
  <2>1. entries' \in Seq(Entries) /\ UNCHANGED reserved
    BY <1>8, AgedType, StoreAssumption DEF ClockTicks, TypeOK
  <2> QED BY <1>0, <1>8, <2>1 DEF ClockTicks, TypeOK, StoreTypeOK, callvars, vault
<1>9. CASE QueueMoves
  BY <1>0, <1>9 DEF QueueMoves, TypeOK, StoreTypeOK, svars, callvars, vault
<1>10. CASE UNCHANGED vars
  BY <1>0, <1>10 DEF vars, TypeOK, StoreTypeOK, svars, callvars, vault
<1> QED BY <1>1, <1>2, <1>3, <1>4, <1>5, <1>6, <1>7, <1>8, <1>9, <1>10 DEF Next

\* The kernel's state keeps its types, the idempotency store's and the journal's
\* included.
THEOREM KernelTypeCorrect == Spec => []TypeOK
<1>1. Spec => []QInv
  BY KernelIsAQueueClient, QInvAlways, PTL
<1> QED BY <1>1, TypeOKInit, TypeOKStep, PTL DEF Spec
-----------------------------------------------------------------------------
\* What each invariant below sees of a step, proved once: a call is in the queue
\* from its own Enqueues on, whatever the queue does with it.
Queued(c) == handler[c] # "idle"

\* A pump moves nobody in or out of the queue.
LEMMA PumpedIdle ==
  ASSUME NEW free, NEW q \in Seq(Ops), NEW h \in [Ops -> HandlerStates],
         LineOf(q, h), Pumped(free, q, h), NEW c \in Ops
  PROVE  handler'[c] = "idle" <=> h[c] = "idle"
<1>1. CASE free /\ q # <<>> /\ Shift(q, h)
  <2>1. Head(q) = q[1] /\ Len(q) \in Nat /\ 1 \in 1..Len(q) /\ Head(q) \in Ops
    BY <1>1
  <2>2. h[Head(q)] = "queued"
    BY <2>1 DEF LineOf
  <2> QED BY <1>1, <2>1, <2>2 DEF Shift, Takes
<1>2. CASE handler' = h
  BY <1>2
<1> QED BY <1>1, <1>2 DEF Pumped

\* Enqueueing is the only way into the queue, and there is none out of it.
LEMMA QueuedMoves ==
  ASSUME QInv, TypeOK, [Next]_vars
  PROVE  \A d \in Ops :
           Queued(d)' <=> Queued(d) \/ (phase[d] = "idle" /\ phase'[d] = "awaiting")
<1> USE KernelAssumption
<1>1. /\ phase \in [Ops -> Phases] /\ handler \in [Ops -> HandlerStates] /\ pending \in Seq(Ops)
      /\ LineOf(pending, handler)
  BY DEF TypeOK, QInv, QTypeOK, LineInv, InLine, LineOf
<1>2. ASSUME UNCHANGED phase, \A d \in Ops : handler'[d] = "idle" <=> handler[d] = "idle"
      PROVE  \A d \in Ops : Queued(d)' <=> Queued(d) \/ (phase[d] = "idle" /\ phase'[d] = "awaiting")
  BY <1>2 DEF Queued
<1>3. ASSUME NEW c \in Ops, Call(c)
      PROVE  \A d \in Ops : Queued(d)' <=> Queued(d) \/ (phase[d] = "idle" /\ phase'[d] = "awaiting")
  <2>1. PICK k \in Keys \union {NoKey}, identity \in Asked :
          \/ Enqueues(c, k, identity) \/ Waits(c, k, identity)
          \/ Replay(c, k, identity) \/ Mismatch(c, k, identity)
    BY <1>3 DEF Call
  <2>2. CASE Enqueues(c, k, identity)
    <3> DEFINE h == [handler EXCEPT ![c] = "queued"]
    <3>1. /\ Append(pending, c) \in Seq(Ops) /\ h \in [Ops -> HandlerStates]
          /\ LineOf(Append(pending, c), h)
      BY <2>2, AppendKeeps DEF Enqueues, Run
    <3>2. \A d \in Ops : h[d] = "idle" <=> handler[d] = "idle" /\ d # c
      BY <1>1
    <3>3. Pumped(Overdue \/ current = NoOp, Append(pending, c), h)
      BY <2>2 DEF Enqueues, Run, Nudged
    <3>4. phase' = [phase EXCEPT ![c] = "awaiting"] /\ phase[c] = "idle"
      BY <1>3, <2>2 DEF Enqueues, Call
    <3> HIDE DEF h
    <3>5. \A d \in Ops : handler'[d] = "idle" <=> handler[d] = "idle" /\ d # c
      BY <3>1, <3>2, <3>3, PumpedIdle
    <3> QED BY <1>1, <3>4, <3>5 DEF Queued
  <2>3. CASE Waits(c, k, identity) \/ Replay(c, k, identity) \/ Mismatch(c, k, identity)
    BY <1>1, <2>3 DEF Waits, Replay, Mismatch, Ends, qvars, Queued
  <2> QED BY <2>1, <2>2, <2>3
<1>4. ASSUME NEW c \in Ops, Dequeue(c) \/ HandlerEnds(c) PROVE UNCHANGED phase /\ \A d \in Ops : handler'[d] = "idle" <=> handler[d] = "idle"
  BY <1>1, <1>4 DEF Dequeue, DequeueRuns, DequeueRefuses, HandlerEnds, FnStarts, FnSettles, FnMoves
<1>5. ASSUME NEW c \in Ops, Reaction(c) PROVE UNCHANGED phase /\ \A d \in Ops : handler'[d] = "idle" <=> handler[d] = "idle"
  BY <1>1, <1>5 DEF Reaction, FnReaction
<1>6. ASSUME NEW c \in Ops, Finally(c) \/ WaiterWakes(c)
      PROVE  \A d \in Ops : Queued(d)' <=> Queued(d) \/ (phase[d] = "idle" /\ phase'[d] = "awaiting")
  BY <1>1, <1>6 DEF Finally, WaiterWakes, Ends, qvars, Queued
<1>7. CASE QueueMoves
  <2>1. UNCHANGED phase
    BY <1>7 DEF QueueMoves, callvars
  <2>2. CASE Nudge \/ PumpMicrotask
    <3>1. PICK free : Pumped(free, pending, handler)
      BY <2>2 DEF Nudge, Nudged, PumpMicrotask
    <3> QED BY <1>1, <1>2, <2>1, <3>1, PumpedIdle
  <2>3. CASE TimerFires
    BY <1>2, <2>1, <2>3 DEF TimerFires
  <2> QED BY <1>7, <2>2, <2>3 DEF QueueMoves
<1>8. CASE (\E c \in Ops : HandlerWrites(c)) \/ OutsideEdit \/ ClockTicks \/ UNCHANGED vars
  BY <1>2, <1>8 DEF HandlerWrites, OutsideEdit, ClockTicks, Tick, vars, qvars, callvars
<1> QED BY <1>2, <1>3, <1>4, <1>5, <1>6, <1>7, <1>8 DEF Next

\* The steps that show neither in the calls nor in the journal: handlers, the
\* vault, the queue and the clock.
Calm ==
  /\ UNCHANGED <<phase, request, waitsFor, result, stamped, journal, late, reserved>>
  /\ entries' \in {entries, Aged}

\* The reaction of an abandoned operation.
Amends(c) == Reaction(c) /\ outcome[c] # "none"

\* Every step of the kernel is calm or is the step of one call.
LEMMA KernelMoves ==
  ASSUME [Next]_vars
  PROVE  Calm \/ \E c \in Ops : Call(c) \/ Amends(c) \/ Finally(c) \/ WaiterWakes(c)
<1>1. ASSUME NEW c \in Ops, Dequeue(c) \/ HandlerEnds(c) PROVE Calm
  BY <1>1 DEF Dequeue, DequeueRuns, DequeueRefuses, HandlerEnds, FnStarts, FnSettles, svars, Calm
<1>2. ASSUME NEW c \in Ops, Reaction(c), outcome[c] = "none" PROVE Calm
  BY <1>2 DEF Reaction, FnReaction, Settle, SettleLate, Unclaimed, svars, Calm
<1>3. ASSUME NEW c \in Ops, HandlerWrites(c) PROVE Calm
  BY <1>3 DEF HandlerWrites, svars, qvars, callvars, Calm
<1>4. CASE OutsideEdit \/ UNCHANGED vars
  BY <1>4 DEF OutsideEdit, vars, svars, qvars, callvars, Calm
<1>5. CASE ClockTicks
  BY <1>5 DEF ClockTicks, Tick, qvars, callvars, Calm
<1>6. CASE QueueMoves
  BY <1>6 DEF QueueMoves, Nudge, Nudged, PumpMicrotask, TimerFires, svars, callvars, Calm
<1> QED BY <1>1, <1>2, <1>3, <1>4, <1>5, <1>6 DEF Next, Amends

\* What every way to enter runMutation has in common.
LEMMA CallDoes ==
  ASSUME TypeOK, NEW c \in Ops, Call(c)
  PROVE  /\ phase[c] = "idle"
         /\ UNCHANGED <<stamped, late>>
         /\ \E k \in Keys \union {NoKey}, identity \in Identities :
              /\ request' = [request EXCEPT ![c] = [key |-> k, identity |-> identity]]
              /\ request'[c] = [key |-> k, identity |-> identity]
              /\ \A d \in Ops : d # c => request'[d] = request[d]
              /\ \/ Enqueues(c, k, identity) \/ Waits(c, k, identity)
                 \/ Replay(c, k, identity) \/ Mismatch(c, k, identity)
<1>1. PICK k \in Keys \union {NoKey}, identity \in Asked :
        /\ request' = [request EXCEPT ![c] = [key |-> k, identity |-> identity]]
        /\ \/ Enqueues(c, k, identity) \/ Waits(c, k, identity)
           \/ Replay(c, k, identity) \/ Mismatch(c, k, identity)
  BY DEF Call
<1>2. identity \in Identities
  BY AskedType
<1>3. UNCHANGED late
  BY <1>1 DEF Enqueues, Run, Nudged, Waits, Replay, Mismatch, qvars
<1>4. request \in [Ops -> Requests \union {NoKey}]
  BY DEF TypeOK
<1> QED BY <1>1, <1>2, <1>3, <1>4 DEF Call
-----------------------------------------------------------------------------
\* Where a call stands in runMutation and where its operation stands in the
\* queue; a call with a record of its own went through the queue, and a waiter's
\* owner is in it or has been, for the very same request.
CallInv ==
  \A c \in Ops :
    /\ phase[c] \in {"idle", "waiting"} => ~Queued(c)
    /\ phase[c] = "awaiting" => Queued(c)
    /\ c \in stamped <=> phase[c] = "done" /\ Queued(c)
    /\ c \in stamped => outcome[c] # "none"
    /\ phase[c] = "waiting" =>
         /\ phase[waitsFor[c]] \in {"awaiting", "done"}
         /\ Queued(waitsFor[c])
         /\ request[waitsFor[c]] = request[c]

\* A reservation is held by the awaiting call that presented it, a completed
\* entry by the stamped one, and no key has both, or two of either.
Contents(es) == {es[i] : i \in 1..Len(es)}
KeysOnce(es) == \A i, j \in 1..Len(es) : es[i].key = es[j].key => i = j
Presented(c, k, identity) == request[c] = [key |-> k, identity |-> identity]
Matches(e) ==
  e.owner \in stamped /\ Presented(e.owner, e.key, e.identity) /\ reserved[e.key] = Free

EntriesInv ==
  /\ KeysOnce(entries)
  /\ Len(entries) <= MaxEntries
  /\ \A e \in Contents(entries) : Matches(e)

ReservedInv ==
  /\ \A k \in Keys : reserved[k] # Free =>
       phase[reserved[k].owner] = "awaiting" /\ Presented(reserved[k].owner, k, reserved[k].identity)
  /\ \A c \in Ops : phase[c] = "awaiting" /\ request[c].key # NoKey =>
       reserved[request[c].key] # Free /\ reserved[request[c].key].owner = c

\* One step of the kernel keeps CallInv.
LEMMA CallInvStep ==
  ASSUME QInv, QInv', TypeOK, TypeOK', CallInv, ReservedInv, [Next]_vars
  PROVE  CallInv'
<1> USE KernelAssumption
<1>1. \A d \in Ops : Queued(d)' <=> Queued(d) \/ (phase[d] = "idle" /\ phase'[d] = "awaiting")
  BY QueuedMoves
<1>2. \A o \in Ops : outcome[o] # "none" => outcome'[o] = outcome[o]
  BY KernelDrivesQueue, OutcomeStays
<1>3. /\ phase \in [Ops -> Phases] /\ stamped \in SUBSET Ops /\ request \in [Ops -> Requests \union {NoKey}]
      /\ \A d \in Ops : phase[d] = "waiting" => waitsFor[d] \in Ops
      /\ \A k \in Keys : reserved[k] # Free => reserved[k].owner \in Ops
  BY DEF TypeOK, StoreTypeOK, Reservations
<1>4. CASE Calm
  BY <1>1, <1>2, <1>3, <1>4 DEF Calm, CallInv
<1>5. ASSUME NEW c \in Ops, Call(c) PROVE CallInv'
  <2>1. PICK k \in Keys \union {NoKey}, identity \in Identities :
          /\ request'[c] = [key |-> k, identity |-> identity]
          /\ \A d \in Ops : d # c => request'[d] = request[d]
          /\ \/ Enqueues(c, k, identity) \/ Waits(c, k, identity)
             \/ Replay(c, k, identity) \/ Mismatch(c, k, identity)
    BY <1>5, CallDoes
  <2>2. phase[c] = "idle" /\ ~Queued(c) /\ stamped' = stamped /\ c \notin stamped
    BY <1>5, CallDoes DEF CallInv
  <2>3. \A d \in Ops : phase[d] = "waiting" => waitsFor[d] # c
    BY <2>2 DEF CallInv
  <2>4. CASE Enqueues(c, k, identity)
    <3>1. phase' = [phase EXCEPT ![c] = "awaiting"] /\ waitsFor' = waitsFor
      BY <2>4 DEF Enqueues
    <3> QED BY <1>1, <1>2, <1>3, <2>1, <2>2, <2>3, <3>1 DEF CallInv
  <2>5. CASE Waits(c, k, identity)
    <3>1. /\ phase' = [phase EXCEPT ![c] = "waiting"]
          /\ waitsFor' = [waitsFor EXCEPT ![c] = reserved[k].owner]
          /\ reserved[k] # Free /\ reserved[k].identity = identity /\ k \in Keys
      BY <2>5 DEF Waits, MustWait
    <3>2. /\ reserved[k].owner \in Ops /\ phase[reserved[k].owner] = "awaiting"
          /\ request[reserved[k].owner] = [key |-> k, identity |-> identity]
      BY <1>3, <3>1 DEF ReservedInv, Presented
    <3>3. waitsFor'[c] = reserved[k].owner /\ \A d \in Ops : d # c => waitsFor'[d] = waitsFor[d]
      BY <3>1 DEF TypeOK
    <3> QED BY <1>1, <1>2, <1>3, <2>1, <2>2, <2>3, <3>1, <3>2, <3>3 DEF CallInv
  <2>6. CASE Replay(c, k, identity) \/ Mismatch(c, k, identity)
    <3>1. phase' = [phase EXCEPT ![c] = "done"] /\ waitsFor' = waitsFor
      BY <2>6 DEF Replay, Mismatch, Ends
    <3> QED BY <1>1, <1>2, <1>3, <2>1, <2>2, <2>3, <3>1 DEF CallInv
  <2> QED BY <2>1, <2>4, <2>5, <2>6
<1>6. ASSUME NEW c \in Ops, Amends(c) PROVE CallInv'
  <2>1. UNCHANGED <<phase, request, waitsFor, stamped>>
    BY <1>6 DEF Amends, Reaction
  <2> QED BY <1>1, <1>2, <1>3, <2>1 DEF CallInv
<1>7. ASSUME NEW c \in Ops, Finally(c) PROVE CallInv'
  <2>1. /\ phase' = [phase EXCEPT ![c] = "done"] /\ stamped' = stamped \union {c}
        /\ UNCHANGED <<request, waitsFor>> /\ phase[c] = "awaiting" /\ outcome[c] # "none"
    BY <1>7 DEF Finally, Ends, Due
  <2> QED BY <1>1, <1>2, <1>3, <2>1 DEF CallInv
<1>8. ASSUME NEW c \in Ops, WaiterWakes(c) PROVE CallInv'
  <2>1. /\ phase' = [phase EXCEPT ![c] = "done"] /\ UNCHANGED <<request, waitsFor, stamped>>
        /\ phase[c] = "waiting"
    BY <1>8 DEF WaiterWakes, Ends, OwnerSettled
  <2> QED BY <1>1, <1>2, <1>3, <2>1 DEF CallInv
<1> QED BY KernelMoves, <1>4, <1>5, <1>6, <1>7, <1>8
-----------------------------------------------------------------------------
\* Dropping the entry of a key from a map drops that entry and no other.
LEMMA WithoutKeeps ==
  ASSUME StoreTypeOK, KeysOnce(entries), NEW k
  PROVE  /\ Without(k) \in Seq(Entries) /\ Len(Without(k)) <= Len(entries)
         /\ KeysOnce(Without(k))
         /\ Contents(Without(k)) = {e \in Contents(entries) : e.key # k}
         /\ Places(k) = {} => Without(k) = entries
<1>1. entries \in Seq(Entries) /\ Len(entries) \in Nat
  BY DEF StoreTypeOK
<1>2. CASE Places(k) = {}
  <2>1. Without(k) = entries
    BY <1>2 DEF Without
  <2>2. \A i \in 1..Len(entries) : entries[i].key # k
    BY <1>2 DEF Places
  <2> QED BY <1>1, <2>1, <2>2 DEF Contents
<1>3. CASE Places(k) # {}
  <2>1. PICK i \in Places(k) :
               Without(k) = SubSeq(entries, 1, i - 1) \o SubSeq(entries, i + 1, Len(entries))
    BY <1>3 DEF Without
  <2> DEFINE r == Without(k)
  <2>2. i \in 1..Len(entries) /\ entries[i].key = k
    BY <2>1 DEF Places
  <2>3. /\ r \in Seq(Entries) /\ Len(r) = Len(entries) - 1
        /\ \A j \in 1..Len(entries) - 1 : r[j] = IF j < i THEN entries[j] ELSE entries[j + 1]
    <3>1. r = SubSeq(entries, 1, i - 1) \o SubSeq(entries, i + 1, Len(entries))
      BY <2>1
    <3> HIDE DEF r
    <3> QED BY <1>1, <2>2, <3>1, Removal
  <2> HIDE DEF r
  <2>4. \A j \in 1..Len(r) : \E m \in 1..Len(entries) : m = (IF j < i THEN j ELSE j + 1) /\ m # i /\ r[j] = entries[m]
    <3> SUFFICES ASSUME NEW j \in 1..Len(r)
                 PROVE  \E m \in 1..Len(entries) : m = (IF j < i THEN j ELSE j + 1) /\ m # i /\ r[j] = entries[m]
      OBVIOUS
    <3>1. (IF j < i THEN j ELSE j + 1) \in 1..Len(entries) /\ (IF j < i THEN j ELSE j + 1) # i
      BY <1>1, <2>2, <2>3
    <3> QED BY <2>3, <3>1
  <2>5. ASSUME NEW m \in 1..Len(entries), m # i PROVE \E j \in 1..Len(r) : r[j] = entries[m]
    <3>1. CASE m < i
      <4>1. m \in 1..Len(r) /\ r[m] = entries[m]
        BY <1>1, <2>2, <2>3, <3>1
      <4> QED BY <4>1
    <3>2. CASE m > i
      <4>1. m - 1 \in 1..Len(r) /\ r[m - 1] = entries[m]
        BY <1>1, <2>2, <2>3, <3>2
      <4> QED BY <4>1
    <3> QED BY <1>1, <2>2, <2>5, <3>1, <3>2
  <2>6. \A m \in 1..Len(entries) : entries[m].key = k <=> m = i
    BY <2>2 DEF KeysOnce
  <2>7. KeysOnce(r)
    <3> SUFFICES ASSUME NEW j \in 1..Len(r), NEW l \in 1..Len(r), r[j].key = r[l].key PROVE j = l
      BY DEF KeysOnce
    <3>1. PICK m \in 1..Len(entries) : m = (IF j < i THEN j ELSE j + 1) /\ m # i /\ r[j] = entries[m]
      BY <2>4
    <3>2. PICK n \in 1..Len(entries) : n = (IF l < i THEN l ELSE l + 1) /\ n # i /\ r[l] = entries[n]
      BY <2>4
    <3>3. m = n
      BY <3>1, <3>2 DEF KeysOnce
    <3>4. i \in Nat /\ j \in Nat /\ l \in Nat
      BY <1>1, <2>2, <2>3
    <3>5. (IF j < i THEN j ELSE j + 1) = (IF l < i THEN l ELSE l + 1)
      BY <3>1, <3>2, <3>3
    <3> QED BY <3>4, <3>5
  <2>8. Contents(r) = {e \in Contents(entries) : e.key # k}
    <3>1. ASSUME NEW j \in 1..Len(r) PROVE r[j] \in Contents(entries) /\ r[j].key # k
      BY <2>4, <2>6 DEF Contents
    <3>2. ASSUME NEW m \in 1..Len(entries), entries[m].key # k PROVE entries[m] \in Contents(r)
      BY <2>5, <2>6, <3>2 DEF Contents
    <3>3. Contents(r) \subseteq {e \in Contents(entries) : e.key # k}
      BY <3>1 DEF Contents
    <3>4. {e \in Contents(entries) : e.key # k} \subseteq Contents(r)
      BY <3>2 DEF Contents
    <3> QED BY <3>3, <3>4
  <2>9. Len(r) <= Len(entries)
    BY <1>1, <2>3
  <2>10. Without(k) = r
    BY DEF r
  <2> QED BY <1>3, <2>3, <2>7, <2>8, <2>9, <2>10
<1> QED BY <1>2, <1>3

\* A new last element joins the contents, under a key of its own.
LEMMA AppendContents ==
  ASSUME NEW s \in Seq(Entries), NEW e \in Entries, KeysOnce(s),
         \A x \in Contents(s) : x.key # e.key
  PROVE  /\ Append(s, e) \in Seq(Entries) /\ Len(Append(s, e)) = Len(s) + 1
         /\ KeysOnce(Append(s, e))
         /\ Contents(Append(s, e)) = Contents(s) \union {e}
<1> DEFINE t == Append(s, e)
<1>1. /\ t \in Seq(Entries) /\ Len(s) \in Nat /\ Len(t) = Len(s) + 1
      /\ t[Len(s) + 1] = e /\ \A i \in 1..Len(s) : t[i] = s[i]
  BY AppendProperties, LenProperties
<1> HIDE DEF t
<1>2. Contents(t) = Contents(s) \union {e}
  <2>1. \A i \in 1..Len(t) : i \in 1..Len(s) \/ i = Len(s) + 1
    BY <1>1
  <2>2. \A i \in 1..Len(s) + 1 : i \in 1..Len(t)
    BY <1>1
  <2>3. Contents(t) \subseteq Contents(s) \union {e}
    BY <1>1, <2>1 DEF Contents
  <2>4. Contents(s) \subseteq Contents(t) /\ e \in Contents(t)
    BY <1>1, <2>2 DEF Contents
  <2> QED BY <2>3, <2>4
<1>3. KeysOnce(t)
  <2> SUFFICES ASSUME NEW i \in 1..Len(t), NEW j \in 1..Len(t), t[i].key = t[j].key PROVE i = j
    BY DEF KeysOnce
  <2>1. \A m \in 1..Len(s) : s[m].key # e.key
    BY DEF Contents
  <2> QED BY <1>1, <2>1 DEF KeysOnce
<1> QED BY <1>1, <1>2, <1>3 DEF t

\* A look-up loses no entry whose TTL runs and brings none: it only moves the
\* one it finds to the end, and drops it if it has expired.
LEMMA LookUpKeeps ==
  ASSUME StoreTypeOK, KeysOnce(entries), NEW k, LookUp(k)
  PROVE  /\ KeysOnce(entries') /\ Len(entries') <= Len(entries)
         /\ Contents(entries') \subseteq Contents(entries)
         /\ \A e \in Contents(entries) : e.age < Ttl => e \in Contents(entries')
         /\ reserved[k] = Free /\ LiveEntries(k) = {} => \A e \in Contents(entries') : e.key # k
<1>1. entries \in Seq(Entries) /\ Len(entries) \in Nat /\ \A i \in 1..Len(entries) : entries[i] \in Entries
  BY ElementOfSeq DEF StoreTypeOK
<1>2. /\ Without(k) \in Seq(Entries) /\ Len(Without(k)) <= Len(entries) /\ KeysOnce(Without(k))
      /\ Contents(Without(k)) = {e \in Contents(entries) : e.key # k}
  BY WithoutKeeps
<1>3. \A e \in Contents(entries) : e.key = k /\ e.age < Ttl => e \in LiveEntries(k)
  BY DEF Contents, LiveEntries, EntriesOf, Places
<1>4. CASE reserved[k] # Free
  BY <1>1, <1>4 DEF LookUp
<1>5. CASE reserved[k] = Free /\ LiveEntries(k) = {}
  <2>1. entries' = Without(k)
    BY <1>5 DEF LookUp, Looked
  <2> QED BY <1>2, <1>3, <1>5, <2>1
<1>6. CASE reserved[k] = Free /\ LiveEntries(k) # {}
  <2>1. PICK e \in LiveEntries(k) : entries' = Append(Without(k), e)
    BY <1>6 DEF LookUp, Looked
  <2>2. PICK i \in 1..Len(entries) : e = entries[i] /\ e.key = k
    BY <2>1 DEF LiveEntries, EntriesOf, Places
  <2>3. e \in Entries /\ e \in Contents(entries) /\ \A x \in Contents(Without(k)) : x.key # e.key
    BY <1>1, <1>2, <2>2 DEF Contents
  <2>4. /\ Len(entries') = Len(Without(k)) + 1 /\ KeysOnce(entries')
        /\ Contents(entries') = Contents(Without(k)) \union {e}
    BY <1>2, <2>1, <2>3, AppendContents
  <2>5. \A x \in Contents(entries) : x.key = k => x = e
    BY <2>2 DEF Contents, KeysOnce
  <2>6. Len(Without(k)) < Len(entries)
    <3>1. Places(k) # {}
      BY <2>2 DEF Places
    <3>2. PICK j \in Places(k) :
                 Without(k) = SubSeq(entries, 1, j - 1) \o SubSeq(entries, j + 1, Len(entries))
      BY <3>1 DEF Without
    <3>3. j \in 1..Len(entries)
      BY <3>2 DEF Places
    <3>4. Len(Without(k)) = Len(entries) - 1
      BY <1>1, <3>2, <3>3, Removal
    <3> QED BY <1>1, <3>4
  <2>7. Len(Without(k)) \in Nat
    BY <1>2, LenProperties
  <2> QED BY <1>1, <1>2, <1>6, <2>3, <2>4, <2>5, <2>6, <2>7
<1> QED BY <1>4, <1>5, <1>6

\* Storing the envelope of a key not in the map: it joins, and the oldest entry
\* goes if, and only if, the map was full.
LEMMA StoredKeeps ==
  ASSUME StoreTypeOK, KeysOnce(entries), Len(entries) <= MaxEntries, MaxEntries \in Nat \ {0},
         NEW e \in Entries, Places(e.key) = {}
  PROVE  /\ KeysOnce(Stored(e)) /\ Len(Stored(e)) <= MaxEntries
         /\ Contents(Stored(e)) \subseteq Contents(entries) \union {e}
         /\ e \in Contents(Stored(e))
         /\ \A i \in 1..Len(entries) :
              entries[i] \in Contents(Stored(e)) \/ (i = 1 /\ Len(entries) = MaxEntries)
<1> DEFINE all == Append(entries, e)
<1>1. entries \in Seq(Entries) /\ Len(entries) \in Nat /\ Without(e.key) = entries
  BY WithoutKeeps DEF StoreTypeOK
<1>2. \A x \in Contents(entries) : x.key # e.key
  BY DEF Contents, Places
<1>3. /\ all \in Seq(Entries) /\ Len(all) = Len(entries) + 1 /\ KeysOnce(all)
      /\ Contents(all) = Contents(entries) \union {e} /\ \A i \in 1..Len(all) : all[i] \in Entries
      /\ all[Len(all)] = e /\ \A i \in 1..Len(entries) : all[i] = entries[i]
  BY <1>1, <1>2, AppendContents, AppendProperties, ElementOfSeq
<1>4. Stored(e) = IF Len(all) > MaxEntries THEN SubSeq(all, Len(all) - MaxEntries + 1, Len(all)) ELSE all
  BY <1>1 DEF Stored
<1> HIDE DEF all
<1>5. CASE Len(entries) < MaxEntries
  <2>1. Stored(e) = all
    BY <1>1, <1>3, <1>4, <1>5
  <2>2. \A i \in 1..Len(entries) : entries[i] \in Contents(entries)
    BY DEF Contents
  <2> QED BY <1>1, <1>3, <1>5, <2>1, <2>2
<1>6. CASE Len(entries) = MaxEntries
  <2> DEFINE s == SubSeq(all, 2, Len(all))
  <2>1. Stored(e) = s
    BY <1>1, <1>3, <1>4, <1>6
  <2>2. Len(s) = MaxEntries /\ \A j \in 1..MaxEntries : s[j] = all[j + 1]
    <3>1. 2 \in Int /\ Len(all) \in Int /\ 2 <= Len(all) /\ \A i \in 2..Len(all) : all[i] \in Entries
      BY <1>1, <1>3, <1>6
    <3>2. /\ Len(s) = Len(all) - 2 + 1
          /\ \A j \in 1..Len(all) - 2 + 1 : s[j] = all[2 + j - 1]
      BY <3>1, SubSeqProperties
    <3>3. Len(all) - 2 + 1 = MaxEntries /\ \A j \in 1..MaxEntries : 2 + j - 1 = j + 1
      BY <1>3, <1>6
    <3> QED BY <3>2, <3>3
  <2> HIDE DEF s
  <2>3. \A j \in 1..Len(s) : j + 1 \in 1..Len(all)
    BY <1>1, <1>3, <1>6, <2>2
  <2>4. Contents(s) \subseteq Contents(all)
    BY <2>2, <2>3 DEF Contents
  <2>5. KeysOnce(s)
    <3> SUFFICES ASSUME NEW i \in 1..Len(s), NEW j \in 1..Len(s), s[i].key = s[j].key PROVE i = j
      BY DEF KeysOnce
    <3>1. i + 1 = j + 1
      BY <1>3, <2>2, <2>3 DEF KeysOnce
    <3> QED BY <3>1
  <2>6. \A i \in 2..Len(all) : all[i] \in Contents(s)
    <3> SUFFICES ASSUME NEW i \in 2..Len(all) PROVE all[i] \in Contents(s)
      OBVIOUS
    <3>1. i - 1 \in 1..Len(s) /\ s[i - 1] = all[i]
      BY <1>1, <1>3, <1>6, <2>2
    <3> QED BY <3>1 DEF Contents
  <2>7. e \in Contents(s)
    BY <1>1, <1>3, <1>6, <2>6
  <2>8. \A i \in 1..Len(entries) : entries[i] \in Contents(s) \/ i = 1
    BY <1>1, <1>3, <2>6
  <2> QED BY <1>3, <1>6, <2>1, <2>2, <2>4, <2>5, <2>7, <2>8
<1> QED BY <1>1, <1>5, <1>6
-----------------------------------------------------------------------------
\* Ageing changes nothing of an entry but its age.
LEMMA AgedKeeps ==
  ASSUME StoreTypeOK
  PROVE  /\ Len(Aged) = Len(entries)
         /\ \A i \in 1..Len(entries) :
              /\ Aged[i].key = entries[i].key /\ Aged[i].owner = entries[i].owner
              /\ Aged[i].identity = entries[i].identity
<1>1. entries \in Seq(Entries) /\ Len(entries) \in Nat /\ \A i \in 1..Len(entries) : entries[i] \in Entries
  BY ElementOfSeq DEF StoreTypeOK
<1>2. Len(Aged) = Len(entries)
  BY <1>1 DEF Aged
<1>3. \A i \in 1..Len(entries) : Aged[i] = Older(entries[i])
  BY <1>1 DEF Aged
<1>4. \A e \in Entries : Older(e).key = e.key /\ Older(e).owner = e.owner /\ Older(e).identity = e.identity
  BY DEF Older, Entries
<1> QED BY <1>1, <1>2, <1>3, <1>4

\* A call that returns settles the key it reserved, whatever became of the rest.
LEMMA FinallySettles ==
  ASSUME TypeOK, EntriesInv, ReservedInv, NEW c \in Ops, Finally(c), request[c].key # NoKey
  PROVE  LET k == request[c].key
             e == [key |-> k, owner |-> c, identity |-> request[c].identity, age |-> 0]
         IN  /\ k \in Keys /\ e \in Entries /\ Places(k) = {}
             /\ request[c] = [key |-> k, identity |-> request[c].identity]
             /\ reserved' = [reserved EXCEPT ![k] = Free]
             /\ entries' = IF outcome[c] = "resolved" THEN Stored(e) ELSE entries
<1> DEFINE k == request[c].key
           e == [key |-> k, owner |-> c, identity |-> request[c].identity, age |-> 0]
<1>1. phase[c] = "awaiting" /\ SettleKey(k, c, outcome[c] = "resolved")
  BY DEF Finally, Due
<1>2. request[c] \in Requests /\ request[c].key \in Keys /\ request[c].identity \in Identities
  BY <1>1 DEF TypeOK, Requests
<1>3. reserved[k] # Free /\ reserved[k].owner = c
  BY <1>1 DEF ReservedInv
<1>4. request[c] = [key |-> k, identity |-> reserved[k].identity]
  BY <1>2, <1>3 DEF ReservedInv, Presented
<1>5. reserved[k].identity = request[c].identity
  BY <1>4
<1>6. Places(k) = {}
  BY <1>3 DEF EntriesInv, Matches, Contents, Places
<1>7. e \in Entries
  BY <1>2, StoreAssumption, KernelAssumption DEF Entries
<1>8. /\ reserved' = [reserved EXCEPT ![k] = Free]
      /\ entries' = IF outcome[c] = "resolved" THEN Stored(e) ELSE entries
  BY <1>1, <1>3, <1>5 DEF SettleKey
<1> QED BY <1>2, <1>4, <1>5, <1>6, <1>7, <1>8

\* Entries nobody touches go on matching the calls they belong to.
LEMMA EntriesUntouched ==
  ASSUME EntriesInv, entries' = entries, stamped \subseteq stamped',
         \A o \in stamped : request'[o] = request[o],
         \A e \in Contents(entries) : reserved'[e.key] = Free
  PROVE  EntriesInv'
<1>1. KeysOnce(entries') /\ Len(entries') <= MaxEntries
  BY DEF EntriesInv
<1>2. ASSUME NEW e \in Contents(entries') PROVE Matches(e)'
  <2>1. e \in Contents(entries) /\ Matches(e)
    BY <1>2 DEF EntriesInv
  <2> QED BY <2>1 DEF Matches, Presented
<1> QED BY <1>1, <1>2 DEF EntriesInv

\* One step of the kernel keeps EntriesInv and ReservedInv.
LEMMA StoreInvStep ==
  ASSUME QInv, TypeOK, TypeOK', CallInv, EntriesInv, ReservedInv, [Next]_vars
  PROVE  EntriesInv' /\ ReservedInv'
<1> USE KernelAssumption
<1>1. /\ phase \in [Ops -> Phases] /\ stamped \in SUBSET Ops /\ request \in [Ops -> Requests \union {NoKey}]
      /\ reserved \in [Keys -> Reservations \union {Free}] /\ StoreTypeOK
      /\ \A k \in Keys : reserved[k] # Free => reserved[k].owner \in Ops
      /\ \A e \in Contents(entries) : e \in Entries /\ e.key \in Keys /\ e.owner \in Ops
  <2>1. \A i \in 1..Len(entries) : entries[i] \in Entries
    BY ElementOfSeq DEF TypeOK, StoreTypeOK
  <2>2. \A e \in Contents(entries) : e \in Entries
    BY <2>1 DEF Contents
  <2>3. \A e \in Entries : e.key \in Keys /\ e.owner \in Ops
    BY DEF Entries
  <2> QED BY <2>2, <2>3 DEF TypeOK, StoreTypeOK, Reservations
<1>2. MaxEntries \in Nat \ {0} /\ Len(entries) \in Nat
  BY <1>1, StoreAssumption DEF StoreTypeOK
<1>3. CASE Calm
  <2>1. /\ UNCHANGED <<phase, request, stamped, reserved>>
        /\ entries' = entries \/ entries' = Aged
    BY <1>3 DEF Calm
  <2>2. ReservedInv'
    BY <2>1 DEF ReservedInv, Presented
  <2>3. CASE entries' = entries
    <3>1. EntriesInv'
      BY <2>1, <2>3, EntriesUntouched DEF EntriesInv, Matches
    <3> QED BY <2>2, <3>1
  <2>4. CASE entries' = Aged
    <3>1. /\ Len(entries') = Len(entries)
          /\ \A i \in 1..Len(entries) :
               /\ entries'[i].key = entries[i].key /\ entries'[i].owner = entries[i].owner
               /\ entries'[i].identity = entries[i].identity
      BY <1>1, <2>4, AgedKeeps
    <3>2. KeysOnce(entries') /\ Len(entries') <= MaxEntries
      BY <3>1 DEF EntriesInv, KeysOnce
    <3>3. ASSUME NEW i \in 1..Len(entries) PROVE Matches(entries'[i])
      BY <3>1 DEF EntriesInv, Matches, Presented, Contents
    <3>4. ASSUME NEW e \in Contents(entries') PROVE Matches(e)'
      <4>1. Matches(e)
        BY <3>1, <3>3, <3>4 DEF Contents
      <4> QED BY <2>1, <4>1 DEF Matches, Presented
    <3> QED BY <2>2, <3>2, <3>4 DEF EntriesInv
  <2> QED BY <2>1, <2>3, <2>4
<1>4. ASSUME NEW c \in Ops, Call(c) PROVE EntriesInv' /\ ReservedInv'
  <2>1. PICK k \in Keys \union {NoKey}, identity \in Identities :
          /\ request'[c] = [key |-> k, identity |-> identity]
          /\ \A d \in Ops : d # c => request'[d] = request[d]
          /\ \/ Enqueues(c, k, identity) \/ Waits(c, k, identity)
             \/ Replay(c, k, identity) \/ Mismatch(c, k, identity)
    BY <1>4, CallDoes
  <2>2. phase[c] = "idle" /\ c \notin stamped /\ stamped' = stamped
    BY <1>4, CallDoes DEF CallInv
  <2>3. ASSUME reserved' = reserved, KeysOnce(entries'), Len(entries') <= Len(entries),
               Contents(entries') \subseteq Contents(entries)
        PROVE  EntriesInv'
    BY <1>1, <1>2, <2>1, <2>2, <2>3 DEF EntriesInv, Matches, Presented
  <2>4. ASSUME reserved' = reserved,
               \A d \in Ops : phase'[d] = "awaiting" => (d = c /\ k = NoKey) \/ phase[d] = "awaiting",
               \A d \in Ops : phase[d] = "awaiting" => phase'[d] = "awaiting"
        PROVE  ReservedInv'
    BY <1>1, <2>1, <2>2, <2>4 DEF ReservedInv, Presented
  <2>5. CASE Enqueues(c, k, identity)
    <3>1. phase' = [phase EXCEPT ![c] = "awaiting"]
      BY <2>5 DEF Enqueues
    <3>2. CASE k = NoKey /\ UNCHANGED svars
      <4>1. reserved' = reserved /\ entries' = entries
        BY <3>2 DEF svars
      <4> QED BY <1>1, <1>2, <2>3, <2>4, <3>1, <3>2, <4>1 DEF EntriesInv
    <3>3. CASE k # NoKey /\ Owns(k) /\ Reserve(k, c, identity)
      <4>1. /\ k \in Keys /\ reserved[k] = Free /\ LiveEntries(k) = {} /\ LookUp(k)
            /\ reserved' = [reserved EXCEPT ![k] = [owner |-> c, identity |-> identity]]
        BY <3>3 DEF Owns, Reserve
      <4>2. /\ KeysOnce(entries') /\ Len(entries') <= Len(entries)
            /\ Contents(entries') \subseteq Contents(entries)
            /\ \A e \in Contents(entries') : e.key # k
        BY <1>1, <4>1, LookUpKeeps DEF EntriesInv
      <4>3. reserved'[k] = [owner |-> c, identity |-> identity]
            /\ \A l \in Keys : l # k => reserved'[l] = reserved[l]
        BY <1>1, <4>1
      <4>4. EntriesInv'
        BY <1>1, <1>2, <2>1, <2>2, <4>2, <4>3 DEF EntriesInv, Matches, Presented
      <4>5. ReservedInv'
        <5>1. ASSUME NEW l \in Keys, reserved'[l] # Free
              PROVE  phase'[reserved'[l].owner] = "awaiting" /\ Presented(reserved[l].owner, l, reserved[l].identity)'
          BY <1>1, <2>1, <2>2, <3>1, <4>3, <5>1 DEF ReservedInv, Presented
        <5>2. ASSUME NEW d \in Ops, phase'[d] = "awaiting", request'[d].key # NoKey
              PROVE  reserved'[request'[d].key] # Free /\ reserved'[request'[d].key].owner = d
          <6>1. CASE d = c
            <7>1. reserved'[k] # Free
              BY <4>3, StoreAssumption
            <7> QED BY <2>1, <4>3, <6>1, <7>1
          <6>2. CASE d # c
            <7>1. phase[d] = "awaiting" /\ request'[d] = request[d]
              BY <1>1, <2>1, <3>1, <5>2, <6>2
            <7>2. request[d].key \in Keys
              BY <5>2, <7>1 DEF TypeOK, Requests
            <7> QED BY <4>1, <4>3, <5>2, <7>1, <7>2 DEF ReservedInv
          <6> QED BY <6>1, <6>2
        <5> QED BY <5>1, <5>2 DEF ReservedInv
      <4> QED BY <4>4, <4>5
    <3> QED BY <2>5, <3>2, <3>3 DEF Enqueues
  <2>6. CASE Waits(c, k, identity)
    <3>1. reserved' = reserved /\ entries' = entries /\ phase' = [phase EXCEPT ![c] = "waiting"]
      BY <2>6 DEF Waits, svars
    <3> QED BY <1>1, <1>2, <2>2, <2>3, <2>4, <3>1 DEF EntriesInv
  <2>7. CASE Replay(c, k, identity) \/ Mismatch(c, k, identity)
    <3>1. LookUp(k) /\ reserved' = reserved /\ phase' = [phase EXCEPT ![c] = "done"]
      BY <2>7 DEF Replay, Mismatch, Ends
    <3>2. /\ KeysOnce(entries') /\ Len(entries') <= Len(entries)
          /\ Contents(entries') \subseteq Contents(entries)
      BY <1>1, <3>1, LookUpKeeps DEF EntriesInv
    <3> QED BY <1>1, <2>2, <2>3, <2>4, <3>1, <3>2
  <2> QED BY <2>1, <2>5, <2>6, <2>7
<1>5. ASSUME NEW c \in Ops, Amends(c) PROVE EntriesInv' /\ ReservedInv'
  <2>1. UNCHANGED <<phase, request, stamped, reserved, entries>>
    BY <1>5 DEF Amends, Reaction, svars
  <2>2. EntriesInv'
    BY <2>1, EntriesUntouched DEF EntriesInv, Matches
  <2> QED BY <2>1, <2>2 DEF ReservedInv, Presented
<1>6. ASSUME NEW c \in Ops, Finally(c) PROVE EntriesInv' /\ ReservedInv'
  <2>1. /\ phase' = [phase EXCEPT ![c] = "done"] /\ stamped' = stamped \union {c}
        /\ request' = request /\ phase[c] = "awaiting"
    BY <1>6 DEF Finally, Ends, Due
  <2>2. CASE request[c].key = NoKey
    <3>1. reserved' = reserved /\ entries' = entries
      BY <1>6, <2>2 DEF Finally, svars
    <3>2. ASSUME NEW k \in Keys, reserved[k] # Free PROVE reserved[k].owner # c
      <4>1. request[reserved[k].owner] = [key |-> k, identity |-> reserved[k].identity]
        BY <3>2 DEF ReservedInv, Presented
      <4>2. request[reserved[k].owner].key = k
        BY <4>1
      <4> QED BY <2>2, <4>2
    <3>3. EntriesInv'
      BY <2>1, <3>1, EntriesUntouched DEF EntriesInv, Matches
    <3>4. ReservedInv'
      BY <1>1, <2>1, <2>2, <3>1, <3>2 DEF ReservedInv, Presented
    <3> QED BY <3>3, <3>4
  <2>3. CASE request[c].key # NoKey
    <3> DEFINE k == request[c].key
               e == [key |-> k, owner |-> c, identity |-> request[c].identity, age |-> 0]
    <3>1. /\ k \in Keys /\ e \in Entries /\ Places(k) = {}
          /\ request[c] = [key |-> k, identity |-> request[c].identity]
          /\ reserved' = [reserved EXCEPT ![k] = Free]
          /\ entries' = IF outcome[c] = "resolved" THEN Stored(e) ELSE entries
      BY <1>6, <2>3, FinallySettles
    <3>2. reserved'[k] = Free /\ \A l \in Keys : l # k => reserved'[l] = reserved[l]
      BY <1>1, <3>1
    <3>3. ReservedInv'
      <4>1. ASSUME NEW l \in Keys, reserved'[l] # Free
            PROVE  phase'[reserved'[l].owner] = "awaiting" /\ Presented(reserved[l].owner, l, reserved[l].identity)'
        <5>1. l # k /\ reserved'[l] = reserved[l] /\ reserved[l] # Free
          BY <3>2, <4>1
        <5>2. /\ phase[reserved[l].owner] = "awaiting"
              /\ request[reserved[l].owner] = [key |-> l, identity |-> reserved[l].identity]
          BY <5>1 DEF ReservedInv, Presented
        <5>3. reserved[l].owner # c
          BY <5>1, <5>2
        <5> QED BY <1>1, <2>1, <5>1, <5>2, <5>3 DEF ReservedInv, Presented
      <4>2. ASSUME NEW d \in Ops, phase'[d] = "awaiting", request'[d].key # NoKey
            PROVE  reserved'[request'[d].key] # Free /\ reserved'[request'[d].key].owner = d
        <5>1. d # c /\ phase[d] = "awaiting"
          BY <1>1, <2>1, <4>2
        <5>2. request[d].key \in Keys /\ reserved[request[d].key].owner = d
          BY <2>1, <4>2, <5>1 DEF ReservedInv, TypeOK, Requests
        <5>3. reserved[k].owner = c
          BY <2>1, <2>3 DEF ReservedInv
        <5> QED BY <2>1, <3>2, <4>2, <5>1, <5>2, <5>3 DEF ReservedInv
      <4> QED BY <4>1, <4>2 DEF ReservedInv
    <3>4. /\ KeysOnce(entries') /\ Len(entries') <= MaxEntries
          /\ Contents(entries') \subseteq Contents(entries) \union {e}
      <4> HIDE DEF e
      <4>1. Places(e.key) = {}
        BY <3>1 DEF e
      <4>2. /\ KeysOnce(Stored(e)) /\ Len(Stored(e)) <= MaxEntries
            /\ Contents(Stored(e)) \subseteq Contents(entries) \union {e}
        BY <1>1, <1>2, <3>1, <4>1, StoredKeeps DEF EntriesInv
      <4> QED BY <3>1, <4>2 DEF EntriesInv
    <3>5. ASSUME NEW x \in Contents(entries') PROVE Matches(x)'
      <4>1. CASE x = e
        BY <2>1, <3>1, <3>2, <4>1 DEF Matches, Presented
      <4>2. CASE x \in Contents(entries)
        <5>1. x.key # k
          BY <3>1, <4>2 DEF Places, Contents
        <5> QED BY <1>1, <2>1, <3>2, <4>2, <5>1 DEF Matches, EntriesInv, Presented
      <4> QED BY <3>4, <3>5, <4>1, <4>2
    <3> QED BY <3>3, <3>4, <3>5 DEF EntriesInv
  <2> QED BY <2>2, <2>3
<1>7. ASSUME NEW c \in Ops, WaiterWakes(c) PROVE EntriesInv' /\ ReservedInv'
  <2>1. /\ phase' = [phase EXCEPT ![c] = "done"] /\ UNCHANGED <<request, stamped, reserved, entries>>
        /\ phase[c] = "waiting"
    BY <1>7 DEF WaiterWakes, Ends, OwnerSettled, svars
  <2>2. EntriesInv'
    BY <2>1, EntriesUntouched DEF EntriesInv, Matches
  <2> QED BY <1>1, <2>1, <2>2 DEF ReservedInv, Presented
<1> QED BY KernelMoves, <1>3, <1>4, <1>5, <1>6, <1>7
-----------------------------------------------------------------------------
\* What holds of the queue, the calls and the store in every state.
KInv ==
  /\ QInv /\ SettledInv /\ LateMeansAbandoned
  /\ TypeOK /\ CallInv /\ EntriesInv /\ ReservedInv

\* The calls and the idempotency store stay consistent with each other and with
\* the queue.
LEMMA KInvAlways == Spec => []KInv
<1> USE KernelAssumption
<1>1. Init => CallInv
  BY DEF Init, QInit, CallInv, Queued
<1>2. Init => EntriesInv /\ ReservedInv
  <2> SUFFICES ASSUME Init PROVE EntriesInv /\ ReservedInv
    OBVIOUS
  <2>1. entries = <<>> /\ Len(entries) = 0 /\ reserved = [k \in Keys |-> Free] /\ phase = [c \in Ops |-> "idle"]
    BY DEF Init, StoreInit
  <2> QED BY <2>1, StoreAssumption DEF EntriesInv, ReservedInv, KeysOnce, Contents
<1>3. QInv /\ QInv' /\ TypeOK /\ TypeOK' /\ CallInv /\ EntriesInv /\ ReservedInv /\ [Next]_vars
        => CallInv' /\ EntriesInv' /\ ReservedInv'
  BY CallInvStep, StoreInvStep
<1>4. Spec => [](QInv /\ SettledInv /\ LateMeansAbandoned)
  BY KernelIsAQueueClient, QInvAlways, SettledAlways, PTL
<1> QED BY <1>1, <1>2, <1>3, <1>4, KernelTypeCorrect, PTL DEF Spec, KInv

\* A call that is done is left alone, but for a late settlement.
LEMMA DoneStays ==
  ASSUME KInv, KInv', [Next]_vars
  PROVE  /\ stamped \subseteq stamped'
         /\ \A d \in Ops : phase[d] = "done" =>
              /\ phase'[d] = "done" /\ (Queued(d)' <=> Queued(d)) /\ outcome'[d] = outcome[d]
              /\ request'[d] = request[d] /\ result'[d] = result[d]
<1>1. \A d \in Ops : Queued(d)' <=> Queued(d) \/ (phase[d] = "idle" /\ phase'[d] = "awaiting")
  BY QueuedMoves DEF KInv
<1>2. \A o \in Ops : outcome[o] # "none" => outcome'[o] = outcome[o]
  BY KernelDrivesQueue, OutcomeStays DEF KInv
<1>3. phase \in [Ops -> Phases] /\ result \in [Ops -> Results \union {"none"}]
  BY DEF KInv, TypeOK
<1>4. ASSUME NEW d \in Ops, phase[d] = "done" PROVE (Queued(d)' <=> Queued(d)) /\ outcome'[d] = outcome[d]
  <2>1. Queued(d)' <=> Queued(d)
    BY <1>1, <1>4
  <2>2. CASE Queued(d)
    BY <1>2, <1>4, <2>1, <2>2 DEF KInv, CallInv
  <2>3. CASE ~Queued(d)
    <3>1. handler[d] = "idle" /\ handler'[d] = "idle"
      BY <2>1, <2>3 DEF Queued
    <3>2. outcome[d] = "none" /\ outcome'[d] = "none"
      BY <3>1 DEF KInv, QInv, SlotInv, Started
    <3> QED BY <2>1, <3>2
  <2> QED BY <2>1, <2>2, <2>3
<1>5. ASSUME NEW c \in Ops, NEW res, Ends(c, res), phase[c] # "done"
      PROVE  \A d \in Ops : phase[d] = "done" => phase'[d] = "done" /\ result'[d] = result[d]
  BY <1>3, <1>5 DEF Ends
<1>6. CASE Calm
  BY <1>4, <1>6 DEF Calm
<1>7. ASSUME NEW c \in Ops, Call(c)
      PROVE  /\ stamped' = stamped
             /\ \A d \in Ops : phase[d] = "done" =>
                  phase'[d] = "done" /\ request'[d] = request[d] /\ result'[d] = result[d]
  <2>1. PICK k, identity :
          /\ \A d \in Ops : d # c => request'[d] = request[d]
          /\ \/ Enqueues(c, k, identity) \/ Waits(c, k, identity)
             \/ Replay(c, k, identity) \/ Mismatch(c, k, identity)
    BY <1>7, CallDoes DEF KInv
  <2>2. phase[c] = "idle" /\ stamped' = stamped
    BY <1>7, CallDoes DEF KInv
  <2>3. CASE Enqueues(c, k, identity) \/ Waits(c, k, identity)
    BY <1>3, <2>1, <2>2, <2>3 DEF Enqueues, Waits
  <2>4. CASE Replay(c, k, identity) \/ Mismatch(c, k, identity)
    BY <1>5, <2>1, <2>2, <2>4 DEF Replay, Mismatch
  <2> QED BY <2>1, <2>3, <2>4
<1>8. ASSUME NEW c \in Ops, Amends(c) PROVE UNCHANGED <<phase, request, result, stamped>>
  BY <1>8 DEF Amends, Reaction
<1>9. ASSUME NEW c \in Ops, Finally(c) \/ WaiterWakes(c)
      PROVE  /\ stamped \subseteq stamped' /\ request' = request
             /\ \A d \in Ops : phase[d] = "done" => phase'[d] = "done" /\ result'[d] = result[d]
  BY <1>5, <1>9 DEF Finally, WaiterWakes, Due, OwnerSettled
<1> QED BY KernelMoves, <1>4, <1>6, <1>7, <1>8, <1>9

\* What a record adds to the journal.
LEMMA RecordAppends ==
  ASSUME TypeOK, NEW c \in Ops, NEW out \in RecordOutcomes, NEW d \in Ops \union {NoOp}, Record(c, out, d)
  PROVE  /\ Len(journal[c]) \in Nat /\ Len(journal'[c]) = Len(journal[c]) + 1
         /\ journal'[c][Len(journal[c]) + 1] = [outcome |-> out, refers |-> IF d \in stamped THEN d ELSE NoOp]
         /\ \A i \in 1..Len(journal[c]) : journal'[c][i] = journal[c][i]
         /\ \A o \in Ops : o # c => journal'[o] = journal[o]
<1> DEFINE r == [outcome |-> out, refers |-> IF d \in stamped THEN d ELSE NoOp]
<1>1. journal \in [Ops -> Seq(Records)] /\ journal[c] \in Seq(Records)
  BY DEF TypeOK
<1>2. r \in Records
  BY DEF Records
<1>3. journal' = [journal EXCEPT ![c] = Append(journal[c], r)]
  BY DEF Record
<1> HIDE DEF r
<1>4. journal'[c] = Append(journal[c], r) /\ \A o \in Ops : o # c => journal'[o] = journal[o]
  BY <1>1, <1>3
<1> QED BY <1>1, <1>2, <1>4, AppendProperties, LenProperties DEF r
-----------------------------------------------------------------------------
\* The journal of a call: its own record once it is done, which says "error" of
\* a timeout, and the corrective record once its operation settled late, which
\* names the own record if that was there first.
OwnAt(c, i) ==
  /\ journal[c][i].outcome \notin LateOutcomes
  /\ outcome[c] = "timeout" => journal[c][i].outcome = "error"
LateAt(c, i) == journal[c][i].outcome \in LateOutcomes

JournalInv ==
  \A c \in Ops :
    /\ phase[c] # "done" /\ c \notin late => Len(journal[c]) = 0
    /\ phase[c] = "done" /\ c \notin late => Len(journal[c]) = 1 /\ OwnAt(c, 1)
    /\ phase[c] # "done" /\ c \in late =>
         Len(journal[c]) = 1 /\ LateAt(c, 1) /\ journal[c][1].refers # c
    /\ phase[c] = "done" /\ c \in late =>
         /\ Len(journal[c]) = 2
         /\ \/ OwnAt(c, 1) /\ LateAt(c, 2) /\ journal[c][2].refers = c
            \/ LateAt(c, 1) /\ journal[c][1].refers # c /\ OwnAt(c, 2)

\* The journal of a call a step has nothing to do with.
LEMMA JournalUntouched ==
  ASSUME KInv, KInv', [Next]_vars, JournalInv, NEW c \in Ops,
         journal'[c] = journal[c], phase'[c] = "done" <=> phase[c] = "done",
         c \in late' <=> c \in late
  PROVE  /\ phase'[c] # "done" /\ c \notin late' => Len(journal'[c]) = 0
         /\ phase'[c] = "done" /\ c \notin late' => Len(journal'[c]) = 1 /\ OwnAt(c, 1)'
         /\ phase'[c] # "done" /\ c \in late' =>
              Len(journal'[c]) = 1 /\ LateAt(c, 1)' /\ journal'[c][1].refers # c
         /\ phase'[c] = "done" /\ c \in late' =>
              /\ Len(journal'[c]) = 2
              /\ \/ OwnAt(c, 1)' /\ LateAt(c, 2)' /\ journal'[c][2].refers = c
                 \/ LateAt(c, 1)' /\ journal'[c][1].refers # c /\ OwnAt(c, 2)'
<1>1. phase[c] = "done" => outcome'[c] = outcome[c]
  BY DoneStays
<1>2. \A i : phase[c] = "done" /\ OwnAt(c, i) => OwnAt(c, i)'
  BY <1>1 DEF OwnAt
<1>3. \A i : LateAt(c, i)' <=> LateAt(c, i)
  BY DEF LateAt
<1> QED BY <1>2, <1>3 DEF JournalInv

\* A call that ends writes its own record, whatever was written of it before.
LEMMA EndKeepsJournal ==
  ASSUME KInv, KInv', [Next]_vars, JournalInv,
         NEW c \in Ops, NEW res, Ends(c, res), phase[c] # "done", UNCHANGED late,
         NEW out \in RecordOutcomes \ LateOutcomes, NEW d \in Ops \union {NoOp}, Record(c, out, d),
         outcome'[c] = "timeout" => out = "error"
  PROVE  JournalInv'
<1>1. PICK n \in Nat : n = Len(journal[c])
  BY RecordAppends DEF KInv
<1>2. /\ Len(journal'[c]) = n + 1
      /\ journal'[c][n + 1] = [outcome |-> out, refers |-> IF d \in stamped THEN d ELSE NoOp]
      /\ \A i \in 1..n : journal'[c][i] = journal[c][i]
      /\ \A o \in Ops : o # c => journal'[o] = journal[o]
  BY <1>1, RecordAppends DEF KInv
<1>3. phase'[c] = "done" /\ \A o \in Ops : o # c => phase'[o] = phase[o]
  BY DEF Ends, KInv, TypeOK
<1>4. OwnAt(c, n + 1)'
  BY <1>2 DEF OwnAt
<1>5. CASE c \notin late
  <2>1. n = 0
    BY <1>1, <1>5 DEF JournalInv
  <2>2. Len(journal'[c]) = 1 /\ OwnAt(c, 1)'
    BY <1>2, <1>4, <2>1
  <2> QED BY <1>2, <1>3, <1>5, <2>2, JournalUntouched DEF JournalInv
<1>6. CASE c \in late
  <2>1. n = 1 /\ LateAt(c, 1) /\ journal[c][1].refers # c
    BY <1>1, <1>6 DEF JournalInv
  <2>2. journal'[c][1] = journal[c][1]
    BY <1>2, <2>1
  <2>3. Len(journal'[c]) = 2 /\ LateAt(c, 1)' /\ journal'[c][1].refers # c /\ OwnAt(c, 2)'
    BY <1>2, <1>4, <2>1, <2>2 DEF LateAt
  <2> QED BY <1>2, <1>3, <1>6, <2>3, JournalUntouched DEF JournalInv
<1> QED BY <1>5, <1>6

\* A late settlement writes the corrective record, whatever was written before.
LEMMA AmendKeepsJournal ==
  ASSUME KInv, KInv', [Next]_vars, JournalInv, NEW c \in Ops, Amends(c)
  PROVE  JournalInv'
<1> USE KernelAssumption
<1>1. PICK out \in LateOutcomes : Record(c, out, c)
  BY DEF Amends, Reaction, LateOutcomes
<1>2. PICK n \in Nat : n = Len(journal[c])
  BY <1>1, RecordAppends DEF KInv, LateOutcomes, RecordOutcomes
<1>3. /\ Len(journal'[c]) = n + 1
      /\ journal'[c][n + 1] = [outcome |-> out, refers |-> IF c \in stamped THEN c ELSE NoOp]
      /\ \A i \in 1..n : journal'[c][i] = journal[c][i]
      /\ \A o \in Ops : o # c => journal'[o] = journal[o]
  BY <1>1, <1>2, RecordAppends DEF KInv, LateOutcomes, RecordOutcomes
<1>4. phase' = phase /\ outcome' = outcome /\ late' = late \union {c} /\ handler[c] \in {"resolving", "rejecting"}
  BY DEF Amends, Reaction, FnReaction, Settle, SettleLate, Unclaimed
<1>5. c \notin late /\ Queued(c) /\ outcome[c] = "timeout"
  <2>1. outcome[c] \notin {"resolved", "rejected"}
    BY <1>4 DEF KInv, SettledInv
  <2>2. outcome[c] \in {"resolved", "rejected", "timeout"}
    BY DEF Amends, KInv, QInv, QTypeOK, Outcomes
  <2> QED BY <1>4, <2>1, <2>2 DEF KInv, LateMeansAbandoned, Queued
<1>6. LateAt(c, n + 1)'
  BY <1>3 DEF LateAt
<1>7. CASE phase[c] = "done"
  <2>1. n = 1 /\ OwnAt(c, 1) /\ c \in stamped
    BY <1>2, <1>5, <1>7 DEF JournalInv, KInv, CallInv
  <2>2. OwnAt(c, 1)'
    BY <1>3, <1>4, <2>1 DEF OwnAt
  <2>3. Len(journal'[c]) = 2 /\ LateAt(c, 2)' /\ journal'[c][2].refers = c
    BY <1>3, <1>6, <2>1
  <2> QED BY <1>3, <1>4, <1>7, <2>2, <2>3, JournalUntouched DEF JournalInv
<1>8. CASE phase[c] # "done"
  <2>1. n = 0 /\ c \notin stamped
    BY <1>2, <1>5, <1>8 DEF JournalInv, KInv, CallInv
  <2>2. Len(journal'[c]) = 1 /\ LateAt(c, 1)' /\ journal'[c][1].refers # c
    BY <1>3, <1>6, <2>1, QueueAssumption
  <2> QED BY <1>3, <1>4, <1>8, <2>2, JournalUntouched DEF JournalInv
<1> QED BY <1>7, <1>8

\* One step of the kernel keeps JournalInv.
LEMMA JournalInvStep ==
  ASSUME KInv, KInv', [Next]_vars, JournalInv
  PROVE  JournalInv'
<1> USE KernelAssumption
<1>1. phase \in [Ops -> Phases] /\ \A c \in Ops : ~Queued(c) => outcome[c] = "none"
  BY DEF KInv, TypeOK, QInv, SlotInv, Started, Queued
<1>2. CASE Calm
  BY <1>2, JournalUntouched DEF Calm, JournalInv
<1>3. ASSUME NEW c \in Ops, Call(c) PROVE JournalInv'
  <2>1. PICK k, identity : \/ Enqueues(c, k, identity) \/ Waits(c, k, identity)
                           \/ Replay(c, k, identity) \/ Mismatch(c, k, identity)
    BY <1>3, CallDoes DEF KInv
  <2>2. phase[c] = "idle" /\ late' = late
    BY <1>3, CallDoes DEF KInv
  <2>3. CASE Enqueues(c, k, identity) \/ Waits(c, k, identity)
    <3>1. journal' = journal /\ \A d \in Ops : phase'[d] = "done" <=> phase[d] = "done"
      BY <1>1, <2>2, <2>3 DEF Enqueues, Waits
    <3> QED BY <2>2, <3>1, JournalUntouched DEF JournalInv
  <2>4. CASE Replay(c, k, identity)
    <3>1. PICK e \in LiveEntries(k) : Ends(c, result[e.owner]) /\ Record(c, "deduped", e.owner)
      BY <2>4 DEF Replay
    <3>2. e.owner \in Ops
      BY <3>1 DEF LiveEntries, EntriesOf, Places, KInv, EntriesInv, Contents, Matches, TypeOK
    <3>3. outcome'[c] = "none"
      BY <1>1, <2>2, <2>4 DEF Replay, qvars, KInv, CallInv
    <3> QED BY <2>2, <3>1, <3>2, <3>3, EndKeepsJournal DEF RecordOutcomes, LateOutcomes
  <2>5. CASE Mismatch(c, k, identity)
    <3>1. Ends(c, "mismatch") /\ Record(c, "error", NoOp)
      BY <2>5 DEF Mismatch
    <3> QED BY <2>2, <3>1, EndKeepsJournal DEF RecordOutcomes, LateOutcomes
  <2> QED BY <2>1, <2>3, <2>4, <2>5
<1>4. ASSUME NEW c \in Ops, Amends(c) PROVE JournalInv'
  BY <1>4, AmendKeepsJournal
<1>5. ASSUME NEW c \in Ops, Finally(c) PROVE JournalInv'
  <2>1. /\ Ends(c, Ended(c)) /\ Record(c, OutcomeOf(Ended(c)), NoOp)
        /\ phase[c] # "done" /\ late' = late /\ outcome' = outcome
    BY <1>5 DEF Finally, Due, qvars
  <2>2. OutcomeOf(Ended(c)) \in RecordOutcomes \ LateOutcomes
    BY DEF OutcomeOf, RecordOutcomes, LateOutcomes
  <2>3. outcome[c] = "timeout" => OutcomeOf(Ended(c)) = "error"
    BY DEF Ended, OutcomeOf
  <2> QED BY <2>1, <2>2, <2>3, EndKeepsJournal
<1>6. ASSUME NEW c \in Ops, WaiterWakes(c) PROVE JournalInv'
  <2>1. /\ Ends(c, result[waitsFor[c]]) /\ Record(c, "deduped", waitsFor[c])
        /\ phase[c] = "waiting" /\ late' = late /\ outcome' = outcome
    BY <1>6 DEF WaiterWakes, OwnerSettled, qvars
  <2>2. outcome[c] = "none" /\ waitsFor[c] \in Ops
    BY <1>1, <2>1 DEF KInv, CallInv, TypeOK
  <2> QED BY <2>1, <2>2, EndKeepsJournal DEF RecordOutcomes, LateOutcomes
<1> QED BY KernelMoves, <1>2, <1>3, <1>4, <1>5, <1>6
-----------------------------------------------------------------------------
\* A "deduped" record goes on telling the story of an earlier call, because both
\* calls are done.
LEMMA StoryStep ==
  ASSUME KInv, KInv', [Next]_vars, JournalInv, DedupedTellsTheStory
  PROVE  DedupedTellsTheStory'
<1> USE KernelAssumption
<1>1. \A d \in stamped : d \in Ops /\ phase[d] = "done" /\ Queued(d)
  BY DEF KInv, TypeOK, CallInv
<1>2. ASSUME NEW c \in Ops, NEW i \in 1..Len(journal[c]), journal[c][i].outcome = "deduped",
             journal'[c][i] = journal[c][i]
      PROVE  /\ handler'[c] = "idle"
             /\ \E d \in stamped' \ {c} :
                  journal'[c][i].refers = d /\ request'[d] = request'[c] /\ result'[d] = result'[c]
  <2>1. ~LateAt(c, i)
    BY <1>2 DEF LateAt, LateOutcomes
  <2>2. phase[c] = "done"
    <3> SUFFICES ASSUME phase[c] # "done" PROVE FALSE
      OBVIOUS
    <3>1. CASE c \notin late
      <4>1. Len(journal[c]) = 0
        BY <3>1 DEF JournalInv
      <4> QED BY <1>2, <4>1
    <3>2. CASE c \in late
      <4>1. Len(journal[c]) = 1 /\ LateAt(c, 1)
        BY <3>2 DEF JournalInv
      <4>2. i = 1
        BY <1>2, <4>1
      <4> QED BY <2>1, <4>1, <4>2
    <3> QED BY <3>1, <3>2
  <2>3. handler[c] = "idle"
    BY <1>2 DEF DedupedTellsTheStory
  <2>4. PICK d \in stamped \ {c} :
               journal[c][i].refers = d /\ request[d] = request[c] /\ result[d] = result[c]
    BY <1>2 DEF DedupedTellsTheStory
  <2>5. handler'[c] = "idle"
    BY <2>2, <2>3, DoneStays DEF Queued
  <2>6. d \in stamped' /\ request'[d] = request'[c] /\ result'[d] = result'[c]
    BY <1>1, <2>2, <2>4, DoneStays
  <2> QED BY <1>2, <2>4, <2>5, <2>6
<1>3. ASSUME journal' = journal PROVE DedupedTellsTheStory'
  BY <1>2, <1>3 DEF DedupedTellsTheStory
<1>4. ASSUME NEW c \in Ops, NEW out \in RecordOutcomes, NEW d \in Ops \union {NoOp}, Record(c, out, d),
             out = "deduped" =>
               handler'[c] = "idle" /\ d \in stamped' \ {c} /\ d \in stamped
               /\ request'[d] = request'[c] /\ result'[d] = result'[c]
      PROVE  DedupedTellsTheStory'
  <2>1. PICK n \in Nat : n = Len(journal[c])
    BY <1>4, RecordAppends DEF KInv
  <2>2. /\ Len(journal'[c]) = n + 1
        /\ journal'[c][n + 1] = [outcome |-> out, refers |-> IF d \in stamped THEN d ELSE NoOp]
        /\ \A i \in 1..n : journal'[c][i] = journal[c][i]
        /\ \A o \in Ops : o # c => journal'[o] = journal[o]
    BY <1>4, <2>1, RecordAppends DEF KInv
  <2> SUFFICES ASSUME NEW o \in Ops, NEW i \in 1..Len(journal'[o]), journal'[o][i].outcome = "deduped"
               PROVE  /\ handler'[o] = "idle"
                      /\ \E p \in stamped' \ {o} :
                           journal'[o][i].refers = p /\ request'[p] = request'[o] /\ result'[p] = result'[o]
    BY DEF DedupedTellsTheStory
  <2>3. CASE o # c
    BY <1>2, <2>2, <2>3
  <2>4. CASE o = c /\ i # n + 1
    <3>1. i \in 1..n
      BY <2>2, <2>4
    <3> QED BY <1>2, <2>1, <2>2, <2>4, <3>1
  <2>5. CASE o = c /\ i = n + 1
    BY <1>4, <2>2, <2>5
  <2> QED BY <2>3, <2>4, <2>5
<1>5. CASE Calm
  BY <1>3, <1>5 DEF Calm
<1>6. ASSUME NEW c \in Ops, Call(c) PROVE DedupedTellsTheStory'
  <2>1. PICK k \in Keys \union {NoKey}, identity \in Identities :
          /\ request'[c] = [key |-> k, identity |-> identity]
          /\ \/ Enqueues(c, k, identity) \/ Waits(c, k, identity)
             \/ Replay(c, k, identity) \/ Mismatch(c, k, identity)
    BY <1>6, CallDoes DEF KInv
  <2>2. phase[c] = "idle" /\ c \notin stamped
    BY <1>1, <1>6, CallDoes DEF KInv
  <2>3. CASE Enqueues(c, k, identity) \/ Waits(c, k, identity)
    BY <1>3, <2>3 DEF Enqueues, Waits
  <2>4. CASE Replay(c, k, identity)
    <3>1. PICK e \in LiveEntries(k) : Ends(c, result[e.owner]) /\ Record(c, "deduped", e.owner)
      BY <2>4 DEF Replay
    <3>2. PICK x \in LiveEntries(k) : x.identity = identity
      BY <2>4 DEF Replay, Replays
    <3>3. e \in Contents(entries) /\ x \in Contents(entries) /\ e.key = k /\ x.key = k
      BY <3>1, <3>2 DEF LiveEntries, EntriesOf, Places, Contents
    <3>4. e = x
      BY <3>3 DEF Contents, KeysOnce, KInv, EntriesInv
    <3>5. e.owner \in stamped /\ request[e.owner] = [key |-> k, identity |-> identity]
      BY <3>2, <3>3, <3>4 DEF KInv, EntriesInv, Matches, Presented
    <3>6. e.owner \in Ops /\ e.owner # c /\ phase[e.owner] = "done" /\ e.owner \in stamped'
      BY <1>1, <2>2, <3>5, DoneStays
    <3>7. request'[e.owner] = request'[c]
      BY <2>1, <3>5, <3>6, DoneStays
    <3>8. result'[e.owner] = result'[c]
      BY <3>1, <3>6 DEF Ends, KInv, TypeOK
    <3>9. handler'[c] = "idle"
      BY <2>2, <2>4 DEF Replay, qvars, KInv, CallInv, Queued
    <3> QED BY <1>4, <3>1, <3>5, <3>6, <3>7, <3>8, <3>9 DEF RecordOutcomes
  <2>5. CASE Mismatch(c, k, identity)
    BY <1>4, <2>5 DEF Mismatch, RecordOutcomes
  <2> QED BY <2>1, <2>3, <2>4, <2>5
<1>7. ASSUME NEW c \in Ops, Amends(c) PROVE DedupedTellsTheStory'
  BY <1>4, <1>7 DEF Amends, Reaction, RecordOutcomes
<1>8. ASSUME NEW c \in Ops, Finally(c) PROVE DedupedTellsTheStory'
  <2>1. OutcomeOf(Ended(c)) \in RecordOutcomes /\ OutcomeOf(Ended(c)) # "deduped"
    BY DEF OutcomeOf, RecordOutcomes
  <2> QED BY <1>4, <1>8, <2>1 DEF Finally
<1>9. ASSUME NEW c \in Ops, WaiterWakes(c) PROVE DedupedTellsTheStory'
  <2> DEFINE d == waitsFor[c]
  <2>1. /\ Ends(c, result[d]) /\ Record(c, "deduped", d) /\ request' = request /\ stamped' = stamped
        /\ phase[c] = "waiting" /\ phase[d] = "done" /\ handler' = handler
    BY <1>9 DEF WaiterWakes, OwnerSettled, qvars
  <2>2. d \in Ops /\ d # c /\ Queued(d) /\ request[d] = request[c] /\ handler[c] = "idle"
    BY <2>1 DEF KInv, TypeOK, CallInv, Queued
  <2>3. d \in stamped
    BY <2>1, <2>2 DEF KInv, CallInv
  <2>4. result'[d] = result'[c]
    BY <2>1, <2>2 DEF Ends, KInv, TypeOK
  <2> HIDE DEF d
  <2> QED BY <1>4, <2>1, <2>2, <2>3, <2>4 DEF RecordOutcomes
<1> QED BY KernelMoves, <1>5, <1>6, <1>7, <1>8, <1>9

\* Every call's journal has its shape in every state.
LEMMA JournalAlways == Spec => [](KInv /\ JournalInv /\ DedupedTellsTheStory)
<1>1. Init => JournalInv /\ DedupedTellsTheStory
  BY DEF Init, QInit, JournalInv, DedupedTellsTheStory
<1>2. KInv /\ KInv' /\ JournalInv /\ DedupedTellsTheStory /\ [Next]_vars => JournalInv' /\ DedupedTellsTheStory'
  BY JournalInvStep, StoryStep
<1> QED BY <1>1, <1>2, KInvAlways, PTL DEF Spec

\* Every call is journaled exactly once, when it ends, and once more exactly when
\* its handler settles after the queue gave it up.
THEOREM EachCallJournaledOnce == Spec => []JournaledOnce
<1>1. KInv /\ JournalInv => JournaledOnce
  <2> SUFFICES ASSUME KInv, JournalInv, NEW c \in Ops
               PROVE  /\ Count(c, RecordOutcomes \ LateOutcomes) = IF phase[c] = "done" THEN 1 ELSE 0
                      /\ Count(c, LateOutcomes) = IF c \in late THEN 1 ELSE 0
    BY DEF JournaledOnce
  <2> DEFINE own == {i \in 1..Len(journal[c]) : journal[c][i].outcome \in RecordOutcomes \ LateOutcomes}
             amending == {i \in 1..Len(journal[c]) : journal[c][i].outcome \in LateOutcomes}
  <2>1. journal[c] \in Seq(Records) /\ Len(journal[c]) \in Nat /\ \A i \in 1..Len(journal[c]) : journal[c][i] \in Records
    BY ElementOfSeq, LenProperties DEF KInv, TypeOK
  <2>2. \A i \in 1..Len(journal[c]) : i \in own <=> ~LateAt(c, i)
    BY <2>1 DEF LateAt, Records
  <2>3. \A i \in 1..Len(journal[c]) : i \in amending <=> LateAt(c, i)
    BY DEF LateAt
  <2>4. own \subseteq 1..Len(journal[c]) /\ amending \subseteq 1..Len(journal[c])
    OBVIOUS
  <2>5. \A i : OwnAt(c, i) => ~LateAt(c, i)
    BY DEF OwnAt, LateAt
  <2> HIDE DEF own, amending
  <2>6. \/ phase[c] # "done" /\ c \notin late /\ own = {} /\ amending = {}
        \/ phase[c] = "done" /\ c \notin late /\ own = {1} /\ amending = {}
        \/ phase[c] # "done" /\ c \in late /\ own = {} /\ amending = {1}
        \/ phase[c] = "done" /\ c \in late /\ own = {1} /\ amending = {2}
        \/ phase[c] = "done" /\ c \in late /\ own = {2} /\ amending = {1}
    <3>1. CASE Len(journal[c]) = 0 /\ phase[c] # "done" /\ c \notin late
      <4>1. 1..Len(journal[c]) = {}
        BY <3>1
      <4> QED BY <2>4, <3>1, <4>1
    <3>2. CASE Len(journal[c]) = 1 /\ (phase[c] = "done") # (c \in late)
      <4>1. 1..Len(journal[c]) = {1}
        BY <3>2
      <4>2. /\ phase[c] = "done" => OwnAt(c, 1) /\ c \notin late
            /\ phase[c] # "done" => LateAt(c, 1) /\ c \in late
        BY <3>2 DEF JournalInv
      <4>3. CASE phase[c] = "done"
        <5>1. ~LateAt(c, 1)
          BY <2>5, <4>2, <4>3
        <5>2. own = {1} /\ amending = {}
          BY <2>2, <2>3, <2>4, <4>1, <5>1
        <5> QED BY <4>2, <4>3, <5>2
      <4>4. CASE phase[c] # "done"
        <5>1. own = {} /\ amending = {1}
          BY <2>2, <2>3, <2>4, <4>1, <4>2, <4>4
        <5> QED BY <4>2, <4>4, <5>1
      <4> QED BY <4>3, <4>4
    <3>3. CASE Len(journal[c]) = 2 /\ phase[c] = "done" /\ c \in late
      <4>1. 1..Len(journal[c]) = {1, 2}
        BY <3>3
      <4>2. (OwnAt(c, 1) /\ LateAt(c, 2)) \/ (LateAt(c, 1) /\ OwnAt(c, 2))
        BY <3>3 DEF JournalInv
      <4>3. CASE ~LateAt(c, 1) /\ LateAt(c, 2)
        <5>1. own = {1} /\ amending = {2}
          BY <2>2, <2>3, <2>4, <4>1, <4>3
        <5> QED BY <3>3, <5>1
      <4>4. CASE LateAt(c, 1) /\ ~LateAt(c, 2)
        <5>1. own = {2} /\ amending = {1}
          BY <2>2, <2>3, <2>4, <4>1, <4>4
        <5> QED BY <3>3, <5>1
      <4> QED BY <2>5, <4>2, <4>3, <4>4
    <3> QED BY <3>1, <3>2, <3>3 DEF JournalInv
  <2>7. Cardinality({}) = 0 /\ Cardinality({1}) = 1 /\ Cardinality({2}) = 1
    BY FS_EmptySet, FS_Singleton
  <2>8. Count(c, RecordOutcomes \ LateOutcomes) = Cardinality(own) /\ Count(c, LateOutcomes) = Cardinality(amending)
    BY DEF Count, own, amending
  <2> QED BY <2>6, <2>7, <2>8
<1> QED BY <1>1, JournalAlways, PTL

\* A corrective record amends a timeout and names the record it corrects, unless
\* it overtook it: then that record follows.
THEOREM CorrectionsNameTheirRecord == Spec => []CorrectsATimeout
<1>1. KInv /\ JournalInv => CorrectsATimeout
  <2> SUFFICES ASSUME KInv, JournalInv, NEW c \in Ops, NEW i \in 1..Len(journal[c]), LateAt(c, i)
               PROVE  /\ outcome[c] = "timeout"
                      /\ journal[c][i].refers = c <=> i = 2
                      /\ i = 2 => journal[c][1].outcome = "error"
                      /\ i = 1 /\ phase[c] = "done" =>
                           Len(journal[c]) = 2 /\ journal[c][2].outcome = "error"
    BY DEF CorrectsATimeout, LateAt
  <2>1. OwnAt(c, i) => FALSE
    BY DEF OwnAt, LateAt
  <2>2. Len(journal[c]) \in {0, 1, 2} /\ (Len(journal[c]) = 2 => phase[c] = "done" /\ c \in late)
    BY DEF JournalInv
  <2>3. i \in {1, 2} /\ (i = 2 => Len(journal[c]) = 2)
    <3>1. PICK n \in {0, 1, 2} : n = Len(journal[c])
      BY <2>2
    <3>2. n \in Int /\ i \in Int /\ 1 <= i /\ i <= n
      BY <3>1
    <3>3. CASE n = 2
      BY <3>1, <3>2, <3>3
    <3>4. CASE n = 0 \/ n = 1
      BY <3>2, <3>4
    <3> QED BY <3>1, <3>3, <3>4
  <2>4. c \in late
    BY <2>1, <2>2, <2>3 DEF JournalInv
  <2>5. outcome[c] = "timeout"
    BY <2>4 DEF KInv, LateMeansAbandoned
  <2>6. CASE i = 2
    BY <2>1, <2>3, <2>5, <2>6 DEF JournalInv, OwnAt
  <2>7. CASE i = 1
    <3>1. ~OwnAt(c, 1)
      BY <2>1, <2>7
    <3>2. phase[c] = "done" => Len(journal[c]) = 2 /\ OwnAt(c, 2)
      BY <2>4, <3>1 DEF JournalInv
    <3>3. journal[c][1].refers # c
      BY <2>4, <3>1 DEF JournalInv
    <3> QED BY <2>5, <2>7, <3>2, <3>3 DEF OwnAt
  <2> QED BY <2>3, <2>5, <2>6, <2>7
<1> QED BY <1>1, JournalAlways, PTL

\* A "deduped" record names a call that presented the same key for the same request
\* and ended the same way, and the deduped call never reached the queue.
THEOREM DedupedRecordsAreTrue == Spec => []DedupedTellsTheStory
BY JournalAlways, PTL
-----------------------------------------------------------------------------
\* The body of KeptUntilExpiry, of the entry at place i.
Keeps(i) ==
  entries[i].age < Ttl =>
    \/ entries[i].owner \in Owners(entries')
    \/ i = 1 /\ Len(entries) = MaxEntries /\ Owners(entries') \ Owners(entries) # {}

\* How a step changes the completed entries: it brings none but that of a call
\* that awaited its turn, and takes away the expired and the evicted only.
LEMMA EntriesMove ==
  ASSUME KInv, KInv', [Next]_vars
  PROVE  /\ \A e \in Contents(entries') : e.owner \in Owners(entries) \/ phase[e.owner] = "awaiting"
         /\ \A i \in 1..Len(entries) : Keeps(i)
<1> USE KernelAssumption
<1>1. /\ StoreTypeOK /\ KeysOnce(entries) /\ Len(entries) <= MaxEntries /\ Len(entries) \in Nat
      /\ MaxEntries \in Nat \ {0}
  BY StoreAssumption DEF KInv, TypeOK, EntriesInv, StoreTypeOK
<1>2. /\ \A e \in Contents(entries) : e.owner \in Owners(entries)
      /\ \A e \in Contents(entries') : e.owner \in Owners(entries')
      /\ \A i \in 1..Len(entries) : entries[i] \in Contents(entries)
  BY DEF Contents, Owners
<1>3. ASSUME Contents(entries') \subseteq Contents(entries),
             \A e \in Contents(entries) : e.age < Ttl => e \in Contents(entries')
      PROVE  /\ \A e \in Contents(entries') : e.owner \in Owners(entries) \/ phase[e.owner] = "awaiting"
             /\ \A i \in 1..Len(entries) : Keeps(i)
  BY <1>2, <1>3 DEF Keeps
<1>4. ASSUME entries' = entries
      PROVE  /\ \A e \in Contents(entries') : e.owner \in Owners(entries) \/ phase[e.owner] = "awaiting"
             /\ \A i \in 1..Len(entries) : Keeps(i)
  BY <1>3, <1>4
<1>5. CASE entries' = Aged
  <2>1. Len(entries') = Len(entries) /\ \A i \in 1..Len(entries) : entries'[i].owner = entries[i].owner
    BY <1>1, <1>5, AgedKeeps
  <2>2. Owners(entries') = Owners(entries)
    BY <2>1 DEF Owners
  <2>3. \A i \in 1..Len(entries) : Keeps(i)
    BY <1>2, <2>2 DEF Keeps
  <2> QED BY <1>2, <2>2, <2>3
<1>6. CASE Calm
  BY <1>4, <1>5, <1>6 DEF Calm
<1>7. ASSUME NEW c \in Ops, Call(c)
      PROVE  /\ \A e \in Contents(entries') : e.owner \in Owners(entries) \/ phase[e.owner] = "awaiting"
             /\ \A i \in 1..Len(entries) : Keeps(i)
  <2>1. PICK k, identity : \/ Enqueues(c, k, identity) \/ Waits(c, k, identity)
                           \/ Replay(c, k, identity) \/ Mismatch(c, k, identity)
    BY <1>7, CallDoes DEF KInv
  <2>2. entries' = entries \/ LookUp(k)
    BY <2>1 DEF Enqueues, Reserve, Waits, Replay, Mismatch, svars
  <2>3. CASE LookUp(k)
    BY <1>1, <1>3, <2>3, LookUpKeeps
  <2> QED BY <1>4, <2>2, <2>3
<1>8. ASSUME NEW c \in Ops, Amends(c) \/ WaiterWakes(c) PROVE entries' = entries
  BY <1>8 DEF Amends, Reaction, WaiterWakes, svars
<1>9. ASSUME NEW c \in Ops, Finally(c)
      PROVE  /\ \A e \in Contents(entries') : e.owner \in Owners(entries) \/ phase[e.owner] = "awaiting"
             /\ \A i \in 1..Len(entries) : Keeps(i)
  <2>1. phase[c] = "awaiting"
    BY <1>9 DEF Finally, Due
  <2>2. CASE request[c].key = NoKey \/ outcome[c] # "resolved"
    <3>1. CASE request[c].key = NoKey
      BY <1>4, <1>9, <3>1 DEF Finally, svars
    <3>2. CASE request[c].key # NoKey /\ outcome[c] # "resolved"
      BY <1>4, <1>9, <3>2, FinallySettles DEF KInv
    <3> QED BY <2>2, <3>1, <3>2
  <2>3. CASE request[c].key # NoKey /\ outcome[c] = "resolved"
    <3> DEFINE e == [key |-> request[c].key, owner |-> c, identity |-> request[c].identity, age |-> 0]
    <3>1. e \in Entries /\ Places(e.key) = {} /\ e.owner = c /\ entries' = Stored(e)
      BY <1>9, <2>3, FinallySettles DEF KInv
    <3> HIDE DEF e
    <3>2. /\ Contents(entries') \subseteq Contents(entries) \union {e} /\ e \in Contents(entries')
          /\ \A i \in 1..Len(entries) :
               entries[i] \in Contents(entries') \/ (i = 1 /\ Len(entries) = MaxEntries)
      BY <1>1, <3>1, StoredKeeps
    <3>3. \A x \in Contents(entries) : x.owner \in stamped
      BY DEF KInv, EntriesInv, Matches
    <3>4. \A i \in 1..Len(entries) : entries[i].owner \in stamped
      BY <1>2, <3>3
    <3>5. c \notin Owners(entries)
      BY <2>1, <3>4 DEF Owners, KInv, CallInv
    <3>6. Owners(entries') \ Owners(entries) # {}
      BY <1>2, <3>1, <3>2, <3>5
    <3>7. \A i \in 1..Len(entries) : Keeps(i)
      BY <1>2, <3>2, <3>6 DEF Keeps
    <3> QED BY <1>2, <2>1, <3>1, <3>2, <3>7
  <2> QED BY <2>2, <2>3
<1> QED BY KernelMoves, <1>4, <1>6, <1>7, <1>8, <1>9

\* The store lets go of a completed call only past its TTL, or, when full, to make
\* room for the newest, the oldest first.
THEOREM EntriesKeptUntilExpiry == Spec => KeptUntilExpiry
<1>1. KInv /\ KInv' /\ [Next]_vars =>
        [\A i \in 1..Len(entries) :
           entries[i].age < Ttl =>
             \/ entries[i].owner \in Owners(entries')
             \/ i = 1 /\ Len(entries) = MaxEntries /\ Owners(entries') \ Owners(entries) # {}]_entries
  BY EntriesMove DEF Keeps
<1> QED BY <1>1, KInvAlways, PTL DEF Spec, KeptUntilExpiry
-----------------------------------------------------------------------------
\* Of two calls of one key that went through the queue, or are in it, the store
\* has let go of one.
TurnInv ==
  \A c, d \in Ops :
    (c # d /\ Queued(c) /\ Queued(d)
       /\ request[c].key = request[d].key /\ request[c].key # NoKey)
      => Forgotten(c) \/ Forgotten(d)

\* The store never comes back to a call it has let go of.
LEMMA ForgottenStays ==
  ASSUME KInv, KInv', [Next]_vars, NEW c \in Ops, Forgotten(c)
  PROVE  Forgotten(c)'
<1>1. phase[c] = "done" /\ c \notin Owners(entries)
  BY DEF Forgotten, Owners
<1>2. phase'[c] = "done"
  BY <1>1, DoneStays
<1>3. \A e \in Contents(entries') : e.owner # c
  BY <1>1, EntriesMove
<1> QED BY <1>2, <1>3 DEF Forgotten, Contents

\* A call takes its key into the queue only when every earlier call of the key is
\* done and forgotten.
LEMMA EnqueuesForgotten ==
  ASSUME KInv, KInv', [Next]_vars, NEW c \in Ops, phase[c] = "idle", phase'[c] = "awaiting",
         NEW d \in Ops, d # c, Queued(d)', request'[c].key = request'[d].key, request'[c].key # NoKey
  PROVE  Forgotten(d)'
<1>1. phase \in [Ops -> Phases] /\ \A o \in Ops : Queued(o) => phase[o] \in {"awaiting", "done"}
  BY DEF KInv, TypeOK, CallInv, Phases
<1>2. ~Calm
  BY DEF Calm
<1>3. PICK o \in Ops : Call(o) \/ Amends(o) \/ Finally(o) \/ WaiterWakes(o)
  BY <1>2, KernelMoves
<1>4. Call(c)
  <2>1. ASSUME Amends(o) PROVE FALSE
    BY <2>1 DEF Amends, Reaction
  <2>2. ASSUME Finally(o) \/ WaiterWakes(o) PROVE FALSE
    <3>1. phase' = [phase EXCEPT ![o] = "done"]
      BY <2>2 DEF Finally, WaiterWakes, Ends
    <3> QED BY <1>1, <3>1
  <2>3. Call(o)
    BY <1>3, <2>1, <2>2
  <2>4. o = c
    <3>1. PICK k, identity : \/ Enqueues(o, k, identity) \/ Waits(o, k, identity)
                             \/ Replay(o, k, identity) \/ Mismatch(o, k, identity)
      BY <2>3, CallDoes DEF KInv
    <3>2. \A p \in Ops : p # o => phase'[p] = phase[p]
      BY <1>1, <3>1 DEF Enqueues, Waits, Replay, Mismatch, Ends
    <3> QED BY <3>2
  <2> QED BY <2>3, <2>4
<1>5. PICK k \in Keys \union {NoKey}, identity \in Identities :
        /\ request'[c] = [key |-> k, identity |-> identity]
        /\ \A p \in Ops : p # c => request'[p] = request[p]
        /\ \/ Enqueues(c, k, identity) \/ Waits(c, k, identity)
           \/ Replay(c, k, identity) \/ Mismatch(c, k, identity)
  BY <1>4, CallDoes DEF KInv
<1>6. Enqueues(c, k, identity)
  BY <1>1, <1>5 DEF Waits, Replay, Mismatch, Ends
<1>7. k # NoKey /\ request[d].key = k /\ phase' = [phase EXCEPT ![c] = "awaiting"]
  BY <1>5, <1>6 DEF Enqueues
<1>8. reserved[k] = Free /\ LiveEntries(k) = {} /\ LookUp(k)
  BY <1>6, <1>7 DEF Enqueues, Owns, Reserve
<1>9. Queued(d)
  BY <1>1, <1>7, QueuedMoves DEF KInv
<1>10. phase[d] = "done"
  BY <1>1, <1>7, <1>8, <1>9 DEF KInv, ReservedInv
<1>11. \A e \in Contents(entries') : e \in Contents(entries) /\ e.key # k
  BY <1>8, LookUpKeeps DEF KInv, TypeOK, EntriesInv
<1>12. ASSUME NEW e \in Contents(entries'), e.owner = d PROVE FALSE
  <2>1. request[d] = [key |-> e.key, identity |-> e.identity]
    BY <1>11, <1>12 DEF KInv, EntriesInv, Matches, Presented
  <2>2. request[d].key = e.key
    BY <2>1
  <2> QED BY <1>7, <1>11, <2>2
<1>13. phase'[d] = "done"
  BY <1>1, <1>7, <1>10
<1> QED BY <1>12, <1>13 DEF Forgotten, Contents

\* Retries of one key run one after the other at most, and a second one only after
\* the store has let go of the first.
THEOREM RetriesNeverRepeat == Spec => []RetryNeverRepeats
<1>1. Init => TurnInv
  BY DEF Init, QInit, TurnInv, Queued
<1>2. KInv /\ KInv' /\ TurnInv /\ [Next]_vars => TurnInv'
  <2> SUFFICES ASSUME KInv, KInv', TurnInv, [Next]_vars, NEW c \in Ops, NEW d \in Ops, c # d,
                      Queued(c)', Queued(d)', request'[c].key = request'[d].key, request'[c].key # NoKey
               PROVE  Forgotten(c)' \/ Forgotten(d)'
    BY DEF TurnInv
  <2>1. \A o \in Ops : Queued(o)' => Queued(o) \/ (phase[o] = "idle" /\ phase'[o] = "awaiting")
    BY QueuedMoves DEF KInv
  <2>2. CASE Queued(c) /\ Queued(d)
    <3>1. \A o \in Ops : Queued(o) => phase[o] # "idle"
      BY DEF KInv, CallInv
    <3>2. ASSUME NEW o \in Ops, phase[o] # "idle" PROVE request'[o] = request[o]
      <4>1. ASSUME NEW p \in Ops, Call(p) PROVE request'[o] = request[o]
        BY <3>2, <4>1, CallDoes DEF KInv
      <4> QED BY <4>1, KernelMoves DEF Calm, Amends, Reaction, Finally, WaiterWakes
    <3>3. Forgotten(c) \/ Forgotten(d)
      BY <2>2, <3>1, <3>2 DEF TurnInv
    <3> QED BY <3>3, ForgottenStays
  <2>3. CASE ~Queued(c)
    BY <2>1, <2>3, EnqueuesForgotten
  <2>4. CASE ~Queued(d)
    BY <2>1, <2>4, EnqueuesForgotten
  <2> QED BY <2>2, <2>3, <2>4
<1>3. TurnInv => RetryNeverRepeats
  BY DEF TurnInv, RetryNeverRepeats, Started, Queued
<1> QED BY <1>1, <1>2, <1>3, KInvAlways, PTL DEF Spec
-----------------------------------------------------------------------------
\* The revision a conditional call named is still there until it writes, unless
\* somebody the queue does not hold back - an abandoned call, an outsider - made
\* the one that is.
RevInv ==
  \A c \in Ops :
    handler[c] = "running" /\ c \notin wrote =>
      \/ IfRev(c) \in {NoRev, rev}
      \/ outcome[c] = "timeout"
      \/ rev \notin Ops
      \/ outcome[rev] = "timeout"

\* A step that leaves the note, the started handlers and their requests alone
\* keeps the revision of every running conditional call as current as it was.
LEMMA RevKept ==
  ASSUME TypeOK, RevInv, rev' = rev, wrote' = wrote,
         \A c \in Ops : handler'[c] = "running" => handler[c] = "running" /\ request'[c] = request[c],
         \A o \in Ops : outcome[o] # "none" => outcome'[o] = outcome[o]
  PROVE  RevInv'
BY DEF RevInv, IfRev

\* Among calls the queue did not abandon, a write made under if_rev lands on the
\* revision it named: of the check at dequeue nothing else in the kernel can make
\* a stale one.
THEOREM ConditionalWritesHold == Spec => OnlyBypassersLoseUpdates
<1> USE KernelAssumption
<1>1. Init => RevInv
  BY DEF Init, QInit, RevInv
<1>2. KInv /\ RevInv /\ [Next]_vars => RevInv'
  <2> SUFFICES ASSUME QInv, TypeOK, SettledInv, CallInv, RevInv, [Next]_vars PROVE RevInv'
    BY DEF KInv
  <2>1. \A o \in Ops : outcome[o] # "none" => outcome'[o] = outcome[o]
    BY KernelDrivesQueue, OutcomeStays
  <2>2. ASSUME NEW c \in Ops, handler'[c] = "running" PROVE handler[c] = "running" \/ FnStarts(c, "running")
    BY <2>2, KernelDrivesQueue, RunningCameFrom
  <2>3. /\ handler \in [Ops -> HandlerStates] /\ outcome \in [Ops -> Outcomes \union {"none"}]
        /\ request \in [Ops -> Requests \union {NoKey}]
    BY DEF TypeOK, QInv, QTypeOK
  <2>4. ASSUME NEW c \in Ops, Call(c) PROVE RevInv'
    <3>1. \A d \in Ops : d # c => request'[d] = request[d]
      BY <2>3, <2>4 DEF Call
    <3>2. handler[c] = "idle"
      BY <2>4 DEF Call, CallInv, Queued
    <3>3. \A d \in Ops : ~FnStarts(d, "running")
      <4>2. UNCHANGED qvars \/ Run(c)
        BY <2>4 DEF Call, Enqueues, Waits, Replay, Mismatch
      <4>3. ASSUME NEW d \in Ops, FnStarts(d, "running"), Run(c) PROVE FALSE
        <5>1. pending' = pending /\ handler[d] = "scheduled" /\ handler' = [handler EXCEPT ![d] = "running"]
          BY <4>3 DEF FnStarts, FnMoves
        <5>2. handler'[c] = "idle"
          BY <2>3, <3>2, <5>1
        <5>3. Pumped(Overdue \/ current = NoOp, Append(pending, c), [handler EXCEPT ![c] = "queued"])
          BY <4>3 DEF Run, Nudged
        <5>4. handler'[c] # "idle"
          BY <2>3, <5>3 DEF Pumped, Shift, Takes
        <5> QED BY <5>2, <5>4
      <4>4. ASSUME NEW d \in Ops, FnStarts(d, "running"), UNCHANGED qvars PROVE FALSE
        BY <2>3, <4>4 DEF FnStarts, FnMoves, qvars
      <4> QED BY <4>2, <4>3, <4>4
    <3>4. rev' = rev /\ wrote' = wrote
      BY <2>4 DEF Call, vault
    <3> QED BY <2>1, <2>2, <3>1, <3>2, <3>3, <3>4, RevKept
  <2>5. ASSUME NEW c \in Ops, Dequeue(c) PROVE RevInv'
    <3>1. UNCHANGED <<request, rev, wrote, outcome>>
      BY <2>5 DEF Dequeue, DequeueRuns, DequeueRefuses, FnStarts, vault
    <3>2. CASE DequeueRuns(c)
      <4>1. ~RevConflict(c) /\ handler' = [handler EXCEPT ![c] = "running"]
        BY <3>2 DEF DequeueRuns, FnStarts, FnMoves
      <4> QED BY <2>3, <3>1, <4>1 DEF RevInv, RevConflict, IfRev
    <3>3. CASE DequeueRefuses(c)
      <4>1. handler' = [handler EXCEPT ![c] = "rejecting"]
        BY <3>3 DEF DequeueRefuses, FnStarts, FnMoves
      <4> QED BY <2>3, <3>1, <4>1 DEF RevInv, IfRev
    <3> QED BY <2>5, <3>2, <3>3 DEF Dequeue
  <2>6. ASSUME NEW c \in Ops, HandlerWrites(c) PROVE RevInv'
    <3>1. /\ handler[c] = "running" /\ wrote' = wrote \union {c} /\ rev' = c
          /\ UNCHANGED <<handler, outcome, request>>
      BY <2>6 DEF HandlerWrites, qvars, callvars
    <3>2. ASSUME NEW d \in Ops, handler[d] = "running", d # c
          PROVE  outcome[d] = "timeout" \/ outcome[c] = "timeout"
      <4>1. outcome[c] \in {"none", "timeout"} /\ outcome[d] \in {"none", "timeout"}
        BY <2>3, <3>1, <3>2 DEF SettledInv, Outcomes
      <4>2. ~(outcome[c] = "none" /\ outcome[d] = "none")
        BY <3>1, <3>2 DEF QInv, SlotInv, Started
      <4> QED BY <4>1, <4>2
    <3> QED BY <3>1, <3>2 DEF RevInv, IfRev
  <2>7. CASE OutsideEdit
    <3>1. rev' = edits + 1 /\ UNCHANGED <<handler, outcome, request, wrote>>
      BY <2>7 DEF OutsideEdit, qvars, callvars
    <3>2. rev' \in Nat
      BY <3>1 DEF TypeOK
    <3> QED BY <3>1, <3>2 DEF RevInv
  <2>8. ASSUME UNCHANGED <<request, rev, wrote>>,
               \A c \in Ops : handler'[c] = "running" => handler[c] = "running"
        PROVE  RevInv'
    BY <2>1, <2>8, RevKept
  <2>9. ASSUME NEW c \in Ops, HandlerEnds(c) \/ Reaction(c) PROVE RevInv'
    BY <2>3, <2>8, <2>9 DEF HandlerEnds, Reaction, FnSettles, FnMoves, FnReaction, vault
  <2>10. ASSUME NEW c \in Ops, Finally(c) \/ WaiterWakes(c) PROVE RevInv'
    BY <2>8, <2>10 DEF Finally, WaiterWakes, qvars, vault
  <2>11. CASE QueueMoves
    <3>1. \A c \in Ops : handler'[c] = "running" => handler[c] = "running"
      BY <2>3, <2>11 DEF QueueMoves, Nudge, Nudged, PumpMicrotask, TimerFires, Pumped, Shift, Takes
    <3> QED BY <2>8, <2>11, <3>1 DEF QueueMoves, callvars, vault
  <2>12. CASE ClockTicks \/ UNCHANGED vars
    BY <2>8, <2>12 DEF ClockTicks, Tick, vars, qvars, callvars, vault
  <2> QED BY <2>4, <2>5, <2>6, <2>7, <2>9, <2>10, <2>11, <2>12 DEF Next
<1>3. RevInv /\ [Next]_vars =>
        [\A c \in Ops : WritesNow(c) =>
            \/ IfRev(c) \in {NoRev, rev}
            \/ outcome[c] = "timeout"
            \/ rev \notin Ops
            \/ outcome[rev] = "timeout"]_wrote
  <2> SUFFICES ASSUME RevInv, Next, wrote' # wrote, NEW c \in Ops, WritesNow(c)
               PROVE  handler[c] = "running" /\ c \notin wrote
    BY DEF RevInv, vars, vault
  <2>1. PICK d \in Ops : HandlerWrites(d)
    BY DEF Next, Call, Dequeue, HandlerEnds, Reaction, Finally, WaiterWakes, QueueMoves, OutsideEdit, ClockTicks, vault
  <2> QED BY <2>1 DEF HandlerWrites, WritesNow
<1>4. Spec => []RevInv
  BY <1>1, <1>2, KInvAlways, PTL DEF Spec
<1> QED BY <1>3, <1>4, PTL DEF Spec, OnlyBypassersLoseUpdates
=============================================================================
