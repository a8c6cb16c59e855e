---------------------------- MODULE SerialQueue ----------------------------
(***************************************************************************)
(* What the write queue promises its callers, with none of its machinery:  *)
(* operations wait in one line, at most one of them holds the queue, the   *)
(* line is served in order, and an operation gets its one and only outcome *)
(* while it holds the queue.  A single step of the queue may combine an    *)
(* arrival, the holder's release and the grant to the head of the line,    *)
(* because one enqueue does all three without yielding.                    *)
(***************************************************************************)
EXTENDS Naturals, Sequences

CONSTANTS
  Ops,      \* the operations ever submitted
  NoOp,     \* "nobody": not one of them
  Pending,  \* the outcome of an operation that has none yet: not one of them
  Outcomes  \* the outcomes an operation can get

VARIABLES
  line,     \* operations waiting, in arrival order
  holder,   \* the operation the queue is granted to, or NoOp
  done      \* the outcome of each operation

vars == <<line, holder, done>>

Init ==
  /\ line = <<>>
  /\ holder = NoOp
  /\ done = [o \in Ops |-> Pending]

InLine(o) == \E i \in 1..Len(line) : line[i] = o

\* An operation that never entered the line: neither waiting, nor served.
Fresh(o) == ~InLine(o) /\ holder # o /\ done[o] = Pending

\* The holder keeps the queue; the line only grows at its end.
Hold(q) == line' = q /\ UNCHANGED <<holder, done>>

\* The holder, if there is one, leaves with an outcome.
Leave ==
  \/ /\ holder = NoOp
     /\ UNCHANGED done
  \/ /\ holder # NoOp
     /\ \E out \in Outcomes : done' = [done EXCEPT ![holder] = out]

\* The queue is left free.
Release(q) == Leave /\ holder' = NoOp /\ line' = q

\* The queue passes to the head of the line, never past it.
Grant(q) == Leave /\ q # <<>> /\ holder' = Head(q) /\ line' = Tail(q)

Step(q) == Hold(q) \/ Release(q) \/ Grant(q)

Next ==
  \/ Step(line)
  \/ \E o \in Ops : Fresh(o) /\ Step(Append(line, o))

Spec == Init /\ [][Next]_vars
=============================================================================
