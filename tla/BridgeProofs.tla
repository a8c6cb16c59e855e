---------------------------- MODULE BridgeProofs ----------------------------
(***************************************************************************)
(* Proofs about the relay.  What it books as outstanding is what the client *)
(* awaits, and from that, that no request is answered twice, none vanishes, *)
(* and nobody waits past the grace.  What it wrote and what it queues are   *)
(* parts of the client's lines, in their order, and from that, that the     *)
(* vault is handed them once, in order, behind the handshake.              *)
(***************************************************************************)
EXTENDS Bridge, SequenceTheorems, WellFoundedInduction, TLAPS

\* The books: what the client gave and awaits, and what is known of its handshake.
Booked ==
  /\ \A r \in Requests : answers[r] <= 1 /\ (answers[r] # 0 => r \in Received)
  /\ outstanding = Unanswered
  /\ captured = Received \intersect Handshake
  /\ initResponseSeen <=> answers[Initialize] # 0

\* The queue holds what the client gave, and of requests only unanswered ones.
QueueSound ==
  /\ Queued \subseteq Received
  /\ Queued \intersect Requests \subseteq Unanswered

\* What the vault owes and answered is unanswered yet, a replayed initialize apart.
WireSound ==
  /\ owed \intersect replies = {}
  /\ owed \union replies \subseteq Received
  /\ (owed \union replies) \ {Initialize} \subseteq Unanswered
  /\ awaitingReplayResponse => initResponseSeen
  /\ Initialize \in owed \union replies /\ ~awaitingReplayResponse => Initialize \in Unanswered

\* How the connection, its timer, its queue and the exit go together.
LinkSound ==
  /\ sockUp => /\ pending = <<>> /\ ~graceTimer /\ ~graceExpired
               /\ ~reconnecting /\ ~clientPausedForQueue
  /\ ~sockUp => /\ owed = {} /\ replies = {}
                /\ clientPaused => clientPausedForQueue
  /\ halfClosed => clientEnded
  /\ clientEnded => ~clientPaused /\ (sockUp => halfClosed)
  /\ graceTimer \/ graceExpired => ~halfClosed
  /\ status = "up" /\ ~sockUp => reconnecting /\ ~clientEnded

IInv ==
  /\ TypeOK /\ Booked /\ QueueSound /\ WireSound /\ LinkSound
  /\ NothingVanishes /\ NobodyWaitsPastTheGrace

\* Of which of the client's lines t a line is, whole or what is left of it.
PartOf(t, line, i) == i \in 1..Len(t) /\ line # {} /\ line \subseteq t[i]
IsPart(t, line) == \E i \in 1..Len(t) : PartOf(t, line, i)
\* The client gave line l before line m.
Before(t, l, m) == \A i, j \in 1..Len(t) : PartOf(t, l, i) /\ PartOf(t, m, j) => i < j

\* The places on the connections w, and what is there.
Spots(w) == {s \in Nat \X Nat : s[1] \in 1..Len(w) /\ s[2] \in 1..Len(w[s[1]])}
At(w, s) == w[s[1]][s[2]]
Payload(line) == line \subseteq Calls \union Notes

\* The client begins with its initialize and repeats nothing.
TakenOnce(t) ==
  /\ t # <<>> => t[1] = {Initialize}
  /\ \A i, j \in 1..Len(t) : t[i] = t[j] => i = j
\* A connection carries the preamble, in its place, and parts of the client's lines.
Wired(t, w) ==
  /\ w \in Seq(Seq(SUBSET (Messages \union {Preamble}))) /\ w # <<>>
  /\ CodeMode => \A c \in 1..Len(w) : w[c] # <<>>
  /\ \A s \in Spots(w) :
       IF CodeMode /\ s[2] = 1 THEN At(w, s) = {Preamble} ELSE IsPart(t, At(w, s))
\* So does the queue q, in the client's order ...
InQueueOrder(t, q) ==
  /\ \A k \in 1..Len(q) : q[k] # {} => IsPart(t, q[k])
  /\ \A k, l \in 1..Len(q) : k < l => Before(t, q[k], q[l])
\* ... the connections carry later lines later ...
InWireOrder(t, w) ==
  \A p, s \in Spots(w) :
    Precedes(p, s) /\ Payload(At(w, p)) /\ Payload(At(w, s)) => Before(t, At(w, p), At(w, s))
\* ... and what is queued is later than what was written.
WireFirst(t, w, q) ==
  \A s \in Spots(w), k \in 1..Len(q) : Payload(At(w, s)) => Before(t, At(w, s), q[k])
\* No notification vanishes.
NotesKept == Received \intersect Notes \subseteq Written \union Queued \union discarded

OrderInv ==
  /\ IInv /\ TakenOnce(taken) /\ Wired(taken, wire)
  /\ InQueueOrder(taken, pending) /\ InWireOrder(taken, wire) /\ WireFirst(taken, wire, pending)
  /\ NotesKept /\ WiresGreeted
-----------------------------------------------------------------------------
(* Lines.                                                                  *)

\* Two different lines have no message in common.
LEMMA LinesApart ==
  ASSUME NEW l \in Lines, NEW m \in Lines, l # m
  PROVE  l \intersect m = {}
<1>1. \A b, c \in Batches : b # c => b \intersect c = {} BY BridgeAssumption
<1>2. \A b \in Batches : b \intersect Handshake = {}
  <2>1. Batches \subseteq SUBSET (Calls \union Notes) BY BridgeAssumption
  <2>2. (Calls \union Notes) \intersect Handshake = {} BY BridgeAssumption
  <2> QED BY <2>1, <2>2
<1>3. l \in Batches \/ \E h \in Handshake : l = {h} BY DEF Lines
<1>4. m \in Batches \/ \E h \in Handshake : m = {h} BY DEF Lines
<1> QED BY <1>1, <1>2, <1>3, <1>4

\* A line holds messages.
LEMMA LinesHoldMessages == ASSUME NEW l \in Lines PROVE l \subseteq Messages /\ l # {}
BY BridgeAssumption DEF Lines, Messages, Handshake

\* Of the handshake the initialize is a request, and no notification is.
LEMMA InitializeIsRequest ==
  /\ Initialize \in Requests /\ Initialize \in Handshake
  /\ Requests \intersect Handshake = {Initialize}
  /\ Requests \subseteq Messages /\ Notes \intersect Requests = {}
BY BridgeAssumption DEF Requests, Handshake, Messages

\* A line that is taken is new, and adds its messages to those received.
LEMMA TakeAdds ==
  ASSUME TypeOK, NEW line \in Lines, Take(line)
  PROVE  /\ taken' \in Seq(Lines)
         /\ Received' = Received \union line
         /\ Received \intersect line = {}
<1>1. taken \in Seq(Lines) BY DEF TypeOK
<1>2. taken' = Append(taken, line) BY DEF Take
<1>3. taken' \in Seq(Lines) BY <1>1, <1>2
<1>4. Received' = Received \union line BY <1>1, <1>2 DEF Received
<1>5. Received \intersect line = {}
  <2>1. \A i \in 1..Len(taken) : taken[i] # line BY DEF Take, MaySend
  <2>2. \A i \in 1..Len(taken) : taken[i] \in Lines BY <1>1
  <2>3. \A i \in 1..Len(taken) : taken[i] \intersect line = {} BY <2>1, <2>2, LinesApart
  <2> QED BY <2>3 DEF Received
<1> QED BY <1>3, <1>4, <1>5

LEMMA SameTaken == taken' = taken => Received' = Received
BY DEF Received

\* What the queue holds: of a line added, of the queue emptied, after failing.
LEMMA QueueAdds ==
  ASSUME TypeOK, NEW line \in SUBSET Messages, pending' = Append(pending, line)
  PROVE  pending' \in Seq(SUBSET Messages) /\ Queued' = Queued \union line
<1>1. pending \in Seq(SUBSET Messages) BY DEF TypeOK
<1> QED BY <1>1 DEF Queued

LEMMA QueueEmpty == pending = <<>> => Queued = {}
BY DEF Queued

LEMMA QueueSame == pending' = pending => Queued' = Queued
BY DEF Queued

\* The queue, with its requests failed.
LEMMA QueueFails ==
  ASSUME TypeOK, pending' = [i \in 1..Len(pending) |-> Kept(pending[i])]
  PROVE  pending' \in Seq(SUBSET Messages) /\ Queued' = Queued \ Failable(Queued)
<1>1. pending \in Seq(SUBSET Messages) BY DEF TypeOK
<1>2. \A i \in 1..Len(pending) : Kept(pending[i]) \in SUBSET Messages BY <1>1 DEF Kept
<1>3. /\ Len(pending') = Len(pending)
      /\ pending' \in Seq(SUBSET Messages)
      /\ \A i \in 1..Len(pending) : pending'[i] = Kept(pending[i])
  BY <1>1, <1>2
<1>4. \A i \in 1..Len(pending) :
        Kept(pending[i]) = pending[i] \ Failable(Queued)
  BY DEF Kept, Failable, Queued
<1>5. Queued' = UNION {pending'[i] : i \in 1..Len(pending)} BY <1>3 DEF Queued
<1>6. Queued' = UNION {pending[i] \ Failable(Queued) : i \in 1..Len(pending)} BY <1>3, <1>4, <1>5
<1>7. \A m : m \in Queued' <=> \E i \in 1..Len(pending) : m \in pending[i] \ Failable(Queued)
  BY <1>6
<1>8. \A m : m \in Queued <=> \E i \in 1..Len(pending) : m \in pending[i] BY DEF Queued
<1>9. Queued' = Queued \ Failable(Queued) BY <1>7, <1>8
<1> QED BY <1>3, <1>9
-----------------------------------------------------------------------------
(* The books.                                                              *)

\* Answering requests that await an answer keeps the books.
LEMMA AnswerStep ==
  ASSUME TypeOK, Booked, NEW L, NEW S,
         Received' = Received \union L, Received \intersect L = {},
         S \subseteq Unanswered \union (L \intersect Requests),
         Answer(S)
  PROVE  /\ answers' \in [Requests -> Nat]
         /\ \A r \in Requests : answers'[r] <= 1 /\ (answers'[r] # 0 => r \in Received')
         /\ Unanswered' = (Unanswered \union (L \intersect Requests)) \ S
         /\ \A r \in Requests : answers'[r] # 0 <=> answers[r] # 0 \/ r \in S
<1>1. answers \in [Requests -> Nat] BY DEF TypeOK
<1>2. answers' \in [Requests -> Nat] /\ \A r \in Requests :
        answers'[r] = IF r \in S THEN answers[r] + 1 ELSE answers[r]
  BY <1>1 DEF Answer
<1>3. \A r \in S : r \in Requests /\ answers[r] = 0
  <2> SUFFICES ASSUME NEW r \in S PROVE r \in Requests /\ answers[r] = 0 OBVIOUS
  <2>1. CASE r \in Unanswered BY <2>1 DEF Unanswered
  <2>2. CASE r \in L \intersect Requests BY <2>2 DEF Booked
  <2> QED BY <2>1, <2>2
<1>4. \A r \in Requests : answers[r] \in Nat /\ answers[r] <= 1 /\ (answers[r] # 0 => r \in Received)
  BY <1>1 DEF Booked
<1>5. \A r \in Requests : answers'[r] # 0 <=> answers[r] # 0 \/ r \in S BY <1>2, <1>4
<1>6. \A r \in Requests : answers'[r] <= 1 /\ (answers'[r] # 0 => r \in Received')
  <2> SUFFICES ASSUME NEW r \in Requests
      PROVE answers'[r] <= 1 /\ (answers'[r] # 0 => r \in Received')
    OBVIOUS
  <2>1. CASE r \in S
    <3>1. answers'[r] = 1 BY <2>1, <1>2, <1>3
    <3>2. r \in Received' BY <2>1 DEF Unanswered
    <3> QED BY <3>1, <3>2
  <2>2. CASE r \notin S
    <3>1. answers'[r] = answers[r] BY <2>2, <1>2
    <3> QED BY <3>1, <1>4
  <2> QED BY <2>1, <2>2
<1>7. Unanswered' = (Unanswered \union (L \intersect Requests)) \ S
  <2>1. Unanswered' = {r \in Requests \intersect Received' : answers'[r] = 0} BY DEF Unanswered
  <2>2. \A r \in Requests : answers'[r] = 0 <=> answers[r] = 0 /\ r \notin S BY <1>5
  <2>3. \A r \in L \intersect Requests : answers[r] = 0 BY DEF Booked
  <2> QED BY <2>1, <2>2, <2>3 DEF Unanswered
<1> QED BY <1>2, <1>5, <1>6, <1>7

\* Requests taken and not answered yet are unanswered.
LEMMA TakeStep ==
  ASSUME TypeOK, Booked, NEW L,
         Received' = Received \union L, Received \intersect L = {},
         answers' = answers
  PROVE  /\ \A r \in Requests : answers'[r] <= 1 /\ (answers'[r] # 0 => r \in Received')
         /\ Unanswered' = Unanswered \union (L \intersect Requests)
<1>1. \A r \in L \intersect Requests : answers[r] = 0 BY DEF Booked
<1>2. Unanswered' = {r \in Requests \intersect Received' : answers[r] = 0} BY DEF Unanswered
<1>3. Unanswered' = Unanswered \union (L \intersect Requests) BY <1>1, <1>2 DEF Unanswered
<1> QED BY <1>3 DEF Booked

\* Nothing said to the client and nothing taken.
LEMMA BooksSame ==
  ASSUME taken' = taken, answers' = answers
  PROVE  Received' = Received /\ Unanswered' = Unanswered
BY DEF Received, Unanswered

\* Requests can be failed, the initialize only once it was answered.
LEMMA FailableFacts ==
  ASSUME NEW S
  PROVE  /\ Failable(S) \subseteq S \intersect Requests
         /\ Initialize \in Failable(S) => initResponseSeen
         /\ S \intersect Requests \subseteq Failable(S) \union {Initialize}
BY DEF Failable, Exempt
-----------------------------------------------------------------------------
(* The client's steps keep the invariant.                                  *)

LEMMA InitInv == Init => IInv
<1> SUFFICES ASSUME Init PROVE IInv OBVIOUS
<1>1. Received = {} /\ Queued = {} /\ Unanswered = {}
  <2>1. Received = {} BY DEF Init, Received
  <2>2. Queued = {} BY QueueEmpty DEF Init
  <2> QED BY <2>1, <2>2 DEF Unanswered
<1>2. TypeOK
  <2>1. <<>> \in Seq(SUBSET Messages) /\ <<>> \in Seq(Lines) OBVIOUS
  <2>2. answers \in [Requests -> Nat] BY DEF Init
  <2> QED BY <2>1, <2>2 DEF Init, TypeOK
<1>3. Booked BY <1>1, InitializeIsRequest DEF Init, Booked
<1>4. QueueSound /\ WireSound BY <1>1 DEF Init, QueueSound, WireSound
<1>5. LinkSound BY DEF Init, LinkSound
<1>6. NothingVanishes /\ NobodyWaitsPastTheGrace
  BY <1>1 DEF Init, NothingVanishes, NobodyWaitsPastTheGrace
<1> QED BY <1>2, <1>3, <1>4, <1>5, <1>6 DEF IInv

\* A line is forwarded, queued, or failed past the grace.
LEMMA ForwardStep ==
  ASSUME IInv, NEW line \in Lines, Forward(line)
  PROVE  IInv'
<1> USE DEF IInv
<1>1. /\ Received' = Received \union line /\ Received \intersect line = {}
      /\ taken' \in Seq(Lines)
  BY TakeAdds DEF Forward
<1>2. /\ \A r \in Requests : answers'[r] <= 1 /\ (answers'[r] # 0 => r \in Received')
      /\ Unanswered' = Unanswered \union (line \intersect Requests)
  BY <1>1, TakeStep DEF Forward
<1>3. /\ sockUp /\ sockUp' /\ Queued = {} /\ Queued' = {}
      /\ captured' = captured \union (line \intersect Handshake)
  BY QueueEmpty, QueueSame DEF Forward, LinkSound, queue, Take
<1>4. TypeOK'
  BY <1>1, <1>3 DEF Forward, Take, TypeOK, queue
<1>5. Booked'
  BY <1>1, <1>2, <1>3 DEF Forward, Booked
<1>6. QueueSound' BY <1>3 DEF QueueSound
<1>7. WireSound'
  <2>1. Initialize \in line => ~awaitingReplayResponse
    BY <1>1, InitializeIsRequest DEF Booked, WireSound
  <2> QED BY <1>1, <1>2, <2>1 DEF Forward, WireSound
<1>8. LinkSound' BY <1>3 DEF Forward, LinkSound, queue, Take
<1>9. NothingVanishes' BY <1>2, <1>3 DEF Forward, NothingVanishes
<1>10. NobodyWaitsPastTheGrace' BY <1>3 DEF Forward, NobodyWaitsPastTheGrace, LinkSound, queue
<1> QED BY <1>4, <1>5, <1>6, <1>7, <1>8, <1>9, <1>10

LEMMA EnqueueStep ==
  ASSUME IInv, NEW line \in Lines, Enqueue(line)
  PROVE  IInv'
<1> USE DEF IInv
<1>1. /\ Received' = Received \union line /\ Received \intersect line = {}
      /\ taken' \in Seq(Lines)
  BY TakeAdds DEF Enqueue
<1>2. /\ \A r \in Requests : answers'[r] <= 1 /\ (answers'[r] # 0 => r \in Received')
      /\ Unanswered' = Unanswered \union (line \intersect Requests)
  BY <1>1, TakeStep DEF Enqueue
<1>3. pending' \in Seq(SUBSET Messages) /\ Queued' = Queued \union line
  BY QueueAdds, LinesHoldMessages DEF Enqueue
<1>4. /\ ~sockUp /\ ~sockUp' /\ ~graceExpired /\ ~graceExpired'
      /\ captured' = captured \union (line \intersect Handshake)
      /\ clientPausedForQueue' = clientPaused' /\ clientPaused' \in BOOLEAN
  BY DEF Enqueue, link, Take
<1>5. TypeOK'
  BY <1>1, <1>3, <1>4 DEF Enqueue, Take, TypeOK, link, vault
<1>6. Booked'
  BY <1>1, <1>2, <1>4 DEF Enqueue, Booked
<1>7. QueueSound' BY <1>1, <1>2, <1>3 DEF QueueSound
<1>8. WireSound' BY <1>1, <1>2, <1>4 DEF Enqueue, WireSound, LinkSound, vault
<1>9. LinkSound' BY <1>4 DEF Enqueue, Take, LinkSound, link, vault
<1>10. NothingVanishes' BY <1>2, <1>3, <1>4 DEF Enqueue, NothingVanishes, link, vault
<1>11. NobodyWaitsPastTheGrace' BY <1>4 DEF NobodyWaitsPastTheGrace
<1> QED BY <1>5, <1>6, <1>7, <1>8, <1>9, <1>10, <1>11

LEMMA FailFastStep ==
  ASSUME IInv, NEW line \in Lines, FailFast(line)
  PROVE  IInv'
<1> USE DEF IInv
<1> DEFINE F == Failable(line)
<1>1. /\ Received' = Received \union line /\ Received \intersect line = {}
      /\ taken' \in Seq(Lines)
  BY TakeAdds DEF FailFast
<1>2. F \subseteq line \intersect Requests /\ (Initialize \in F => initResponseSeen)
      /\ line \intersect Requests \subseteq F \union {Initialize}
  BY FailableFacts
<1>3. /\ answers' \in [Requests -> Nat]
      /\ \A r \in Requests : answers'[r] <= 1 /\ (answers'[r] # 0 => r \in Received')
      /\ Unanswered' = (Unanswered \union (line \intersect Requests)) \ F
      /\ \A r \in Requests : answers'[r] # 0 <=> answers[r] # 0 \/ r \in F
  BY <1>1, <1>2, AnswerStep DEF FailFast
<1>4. /\ ~sockUp /\ ~sockUp' /\ graceExpired /\ graceExpired' /\ ~clientPaused /\ ~clientPaused'
      /\ captured' = captured \union (line \intersect Handshake)
  BY DEF FailFast, link, Take
<1>5. Initialize \notin F
  BY <1>1, <1>2, InitializeIsRequest DEF Booked
<1>6. /\ pending' \in Seq(SUBSET Messages) /\ discarded' \in SUBSET Messages
      /\ Queued' = Queued \/ Queued' = Queued \union (line \ F)
  <2>1. Kept(line) = line \ F /\ Kept(line) \in SUBSET Messages
    BY LinesHoldMessages DEF Kept
  <2>2. CASE pending' = Append(pending, Kept(line)) /\ UNCHANGED discarded
    BY <2>1, <2>2, QueueAdds DEF TypeOK
  <2>3. CASE discarded' = discarded \union Kept(line) /\ UNCHANGED pending
    BY <2>1, <2>3, QueueSame DEF TypeOK
  <2> QED BY <2>2, <2>3 DEF FailFast
<1>7. outstanding' = Unanswered' BY <1>3 DEF FailFast, Booked
<1>8. TypeOK'
  BY <1>1, <1>3, <1>4, <1>6 DEF FailFast, Take, TypeOK, link, vault
<1>9. Booked'
  <2>1. captured' = Received' \intersect Handshake BY <1>1, <1>4 DEF Booked
  <2>2. initResponseSeen' <=> answers'[Initialize] # 0
    BY <1>3, <1>5, InitializeIsRequest DEF FailFast, Booked
  <2> QED BY <1>3, <1>7, <2>1, <2>2 DEF Booked
<1>10. QueueSound' BY <1>1, <1>2, <1>3, <1>6 DEF QueueSound
<1>11. WireSound' BY <1>4 DEF FailFast, WireSound, LinkSound, vault
<1>12. LinkSound' BY <1>4 DEF FailFast, LinkSound, link, vault
<1>13. Unanswered' \subseteq {Initialize}
  BY <1>2, <1>3, <1>4 DEF NobodyWaitsPastTheGrace
<1>14. NothingVanishes'
  <2>1. reconnecting' = reconnecting /\ status' = status BY DEF FailFast, link
  <2>2. status' = "up" => reconnecting' BY <1>4, <2>1 DEF LinkSound
  <2> QED BY <1>4, <1>10, <1>13, <2>2 DEF NothingVanishes, QueueSound
<1>15. NobodyWaitsPastTheGrace' BY <1>4, <1>13 DEF NobodyWaitsPastTheGrace
<1> QED BY <1>8, <1>9, <1>10, <1>11, <1>12, <1>14, <1>15

\* Failing requests that await an answer, with nothing taken.
LEMMA FailStep ==
  ASSUME IInv, NEW S, S \subseteq Unanswered, Fail(S), taken' = taken
  PROVE  /\ Received' = Received
         /\ answers' \in [Requests -> Nat]
         /\ outstanding' \in SUBSET Requests
         /\ \A r \in Requests : answers'[r] <= 1 /\ (answers'[r] # 0 => r \in Received')
         /\ Unanswered' = Unanswered \ S
         /\ outstanding' = Unanswered'
         /\ answers'[Initialize] # 0 <=> answers[Initialize] # 0 \/ Initialize \in S
<1> USE DEF IInv
<1>1. Received' = Received BY SameTaken
<1>2. Received' = Received \union {} /\ Received \intersect {} = {} BY <1>1
<1>3. S \subseteq Unanswered \union ({} \intersect Requests) OBVIOUS
<1>4. Answer(S) /\ outstanding' = outstanding \ S BY DEF Fail
<1>5. /\ answers' \in [Requests -> Nat]
      /\ \A r \in Requests : answers'[r] <= 1 /\ (answers'[r] # 0 => r \in Received')
      /\ Unanswered' = (Unanswered \union ({} \intersect Requests)) \ S
      /\ \A r \in Requests : answers'[r] # 0 <=> answers[r] # 0 \/ r \in S
  BY <1>2, <1>3, <1>4, AnswerStep
<1>6. outstanding' = Unanswered' BY <1>4, <1>5 DEF Booked
<1> QED BY <1>1, <1>4, <1>5, <1>6, InitializeIsRequest DEF TypeOK

\* The queue's failable requests await an answer; the initialize is not among them.
LEMMA QueueFailable ==
  ASSUME IInv
  PROVE  /\ Failable(Queued) \subseteq Unanswered
         /\ Initialize \notin Failable(Queued)
         /\ Queued \intersect Requests \subseteq Failable(Queued) \union {Initialize}
<1> USE DEF IInv
<1>1. Failable(Queued) \subseteq Unanswered BY FailableFacts DEF QueueSound
<1>2. Initialize \in Failable(Queued) => answers[Initialize] # 0
  BY FailableFacts DEF Booked
<1> QED BY <1>1, <1>2, FailableFacts DEF Unanswered

\* A shutdown leaves the queue empty and answers all in it but the initialize.
LEMMA ShutdownStep ==
  ASSUME IInv, Shutdown, taken' = taken, captured' = captured,
         initResponseSeen' = initResponseSeen
  PROVE  /\ Received' = Received /\ Queued' = {} /\ pending' = <<>>
         /\ answers' \in [Requests -> Nat] /\ outstanding' \in SUBSET Requests
         /\ discarded' \in SUBSET Messages /\ pending' \in Seq(SUBSET Messages)
         /\ Unanswered' = Unanswered \ Failable(Queued)
         /\ Booked' /\ QueueSound'
<1> USE DEF IInv
<1>1. Fail(Failable(Queued)) /\ pending' = <<>> BY DEF Shutdown, Spliced
<1>2. /\ Received' = Received
      /\ answers' \in [Requests -> Nat] /\ outstanding' \in SUBSET Requests
      /\ \A r \in Requests : answers'[r] <= 1 /\ (answers'[r] # 0 => r \in Received')
      /\ Unanswered' = Unanswered \ Failable(Queued)
      /\ outstanding' = Unanswered'
      /\ answers'[Initialize] # 0 <=> answers[Initialize] # 0
  BY <1>1, QueueFailable, FailStep
<1>3. Queued' = {} BY <1>1 DEF Queued
<1>4. Queued \subseteq Messages BY DEF TypeOK, Queued
<1>5. discarded' \in SUBSET Messages BY <1>4 DEF Shutdown, TypeOK
<1>6. Booked' BY <1>2 DEF Booked
<1>7. QueueSound' BY <1>3 DEF QueueSound
<1>8. pending' \in Seq(SUBSET Messages) BY <1>1
<1> QED BY <1>1, <1>2, <1>3, <1>5, <1>6, <1>7, <1>8

\* The client closes stdin.
LEMMA ClientEndsStep == ASSUME IInv, ClientEnds PROVE IInv'
<1> USE DEF IInv
<1>1. CASE sockUp
  <2>1. /\ Received' = Received /\ Unanswered' = Unanswered /\ Queued' = Queued
        /\ outstanding' = outstanding /\ answers' = answers
        /\ status' = status /\ halfClosed' /\ clientEnded' /\ sockUp'
        /\ pending' = pending /\ graceTimer' = graceTimer /\ graceExpired' = graceExpired
        /\ discarded' = discarded
    BY <1>1, BooksSame, QueueSame DEF ClientEnds, queue
  <2>2. TypeOK' BY <2>1 DEF ClientEnds, TypeOK, vault
  <2>3. Booked' /\ QueueSound' BY <2>1 DEF ClientEnds, Booked, QueueSound
  <2>4. WireSound' BY <2>1 DEF ClientEnds, WireSound, vault
  <2>5. LinkSound' BY <1>1, <2>1 DEF ClientEnds, LinkSound, vault
  <2>6. NothingVanishes' /\ NobodyWaitsPastTheGrace'
    BY <1>1, <2>1 DEF ClientEnds, NothingVanishes, NobodyWaitsPastTheGrace, LinkSound, vault
  <2> QED BY <2>2, <2>3, <2>4, <2>5, <2>6
<1>2. CASE ~sockUp
  <2>1. /\ Shutdown /\ taken' = taken /\ captured' = captured
        /\ initResponseSeen' = initResponseSeen
        /\ sockUp' = sockUp /\ halfClosed' = halfClosed /\ clientEnded' = TRUE
        /\ graceExpired' = graceExpired
    BY <1>2 DEF ClientEnds
  <2>2. /\ Received' = Received /\ Queued' = {} /\ pending' = <<>>
        /\ answers' \in [Requests -> Nat] /\ outstanding' \in SUBSET Requests
        /\ discarded' \in SUBSET Messages /\ pending' \in Seq(SUBSET Messages)
        /\ Unanswered' = Unanswered \ Failable(Queued)
        /\ Booked' /\ QueueSound'
    BY <2>1, ShutdownStep
  <2>3. status' = "flushing" /\ graceTimer' = FALSE BY <2>1 DEF Shutdown
  <2>4. TypeOK' BY <2>1, <2>2, <2>3 DEF ClientEnds, TypeOK, vault
  <2>5. WireSound' BY <1>2, <2>1 DEF ClientEnds, WireSound, LinkSound, vault
  <2>6. LinkSound' BY <1>2, <2>1, <2>3 DEF ClientEnds, LinkSound, vault
  <2>7. ~halfClosed' => Unanswered' \subseteq {Initialize}
    <3> SUFFICES ASSUME ~halfClosed PROVE Unanswered' \subseteq {Initialize} BY <2>1
    <3>1. Unanswered \subseteq Queued \union {Initialize} BY <1>2 DEF NothingVanishes
    <3>2. Unanswered \subseteq Requests BY DEF Unanswered
    <3> QED BY <3>1, <3>2, <2>2, QueueFailable
  <2>8. NothingVanishes' BY <1>2, <2>1, <2>2, <2>3, <2>7 DEF NothingVanishes
  <2>9. NobodyWaitsPastTheGrace'
    BY <2>1, <2>2 DEF ClientEnds, NobodyWaitsPastTheGrace
  <2> QED BY <2>2, <2>4, <2>5, <2>6, <2>8, <2>9
<1> QED BY <1>1, <1>2

\* Steps that leave the books alone.
LEMMA QuietStep == ASSUME IInv, Drain \/ Exit \/ ReconnectUnwanted PROVE IInv'
<1> USE DEF IInv
<1>1. /\ taken' = taken /\ answers' = answers /\ pending' = pending
      /\ captured' = captured /\ outstanding' = outstanding
      /\ initResponseSeen' = initResponseSeen
      /\ awaitingReplayResponse' = awaitingReplayResponse
      /\ owed' = owed /\ replies' = replies /\ refuses' = refuses
      /\ sockUp' = sockUp /\ halfClosed' = halfClosed /\ clientEnded' = clientEnded
      /\ graceTimer' = graceTimer /\ graceExpired' = graceExpired
      /\ discarded' = discarded /\ rapidFails' = rapidFails
      /\ clientPausedForQueue' = clientPausedForQueue
  BY DEF Drain, Exit, ReconnectUnwanted, client, relay, queue, link, vault
<1>2. /\ status' = status \/ status' = "gone"
      /\ clientPaused' = clientPaused \/ ~clientPaused'
      /\ clientPaused' \in BOOLEAN
      /\ reconnecting' = reconnecting \/ (~reconnecting' /\ clientEnded)
      /\ reconnecting' \in BOOLEAN
  BY DEF Drain, Exit, ReconnectUnwanted, client, link, TypeOK
<1>3. Received' = Received /\ Unanswered' = Unanswered /\ Queued' = Queued
  BY <1>1, BooksSame, QueueSame
<1>4. TypeOK' BY <1>1, <1>2 DEF TypeOK
<1>5. Booked' /\ QueueSound' /\ WireSound'
  BY <1>1, <1>3 DEF Booked, QueueSound, WireSound
<1>6. LinkSound' BY <1>1, <1>2 DEF LinkSound
<1>7. status' = "up" /\ reconnecting => reconnecting' \/ sockUp
  BY <1>1, <1>2 DEF LinkSound
<1>8. NothingVanishes'
  <2>1. /\ Queued' \intersect Requests \subseteq Unanswered'
        /\ ~sockUp' /\ ~halfClosed' => Unanswered' \subseteq Queued' \union {Initialize}
    BY <1>1, <1>3 DEF NothingVanishes
  <2>2. status' = "up" => (reconnecting' <=> reconnecting)
    BY <1>1, <1>2, <1>7 DEF LinkSound
  <2>3. status' = "up" => status = "up" BY <1>2
  <2> QED BY <1>1, <1>3, <2>1, <2>2, <2>3 DEF NothingVanishes
<1>9. NobodyWaitsPastTheGrace' BY <1>1, <1>2, <1>3 DEF NobodyWaitsPastTheGrace
<1> QED BY <1>4, <1>5, <1>6, <1>8, <1>9
-----------------------------------------------------------------------------
(* The vault's steps keep the invariant.                                   *)

\* The vault answers, and the answer is read or thrown away.
LEMMA VaultAnswersStep ==
  ASSUME IInv, NEW r \in Requests, NEW e \in BOOLEAN, VaultAnswers(r, e)
  PROVE  IInv'
<1> USE DEF IInv
<1>1. /\ taken' = taken /\ answers' = answers /\ pending' = pending
      /\ owed' \union replies' = owed \union replies /\ owed' \intersect replies' = {}
      /\ owed' \in SUBSET Requests /\ replies' \in SUBSET Requests /\ refuses' \in BOOLEAN
      /\ sockUp
  BY DEF VaultAnswers, client, relay, queue, TypeOK, WireSound
<1>2. Received' = Received /\ Unanswered' = Unanswered /\ Queued' = Queued
  BY <1>1, BooksSame, QueueSame
<1>3. TypeOK' BY <1>1 DEF VaultAnswers, TypeOK, client, relay, queue, link
<1>4. Booked' /\ QueueSound'
  BY <1>2 DEF VaultAnswers, Booked, QueueSound, client, relay
<1>5. WireSound' BY <1>1, <1>2 DEF VaultAnswers, WireSound, relay
<1>6. LinkSound' BY <1>1 DEF VaultAnswers, LinkSound, client, queue, link
<1>7. NothingVanishes' BY <1>1, <1>2 DEF VaultAnswers, NothingVanishes, link
<1>8. NobodyWaitsPastTheGrace'
  BY <1>2 DEF VaultAnswers, NobodyWaitsPastTheGrace, client, queue
<1> QED BY <1>3, <1>4, <1>5, <1>6, <1>7, <1>8

\* While the socket is up nothing is queued, and what is unanswered is on it.
LEMMA Connected ==
  ASSUME IInv, sockUp
  PROVE  /\ Queued = {} /\ ~graceExpired /\ ~graceTimer /\ ~reconnecting
         /\ status = "up" => Unanswered \subseteq owed \union replies
BY QueueEmpty DEF IInv, LinkSound, NothingVanishes

LEMMA ForwardAnswerStep ==
  ASSUME IInv, NEW r \in Requests, ForwardAnswer(r)
  PROVE  IInv'
<1> USE DEF IInv
<1>1. r \in Unanswered BY DEF ForwardAnswer, WireSound, ToReplay
<1>2. Fail({r}) /\ taken' = taken /\ {r} \subseteq Unanswered
  BY <1>1 DEF ForwardAnswer, client
<1>3. /\ Received' = Received
      /\ answers' \in [Requests -> Nat] /\ outstanding' \in SUBSET Requests
      /\ \A q \in Requests : answers'[q] <= 1 /\ (answers'[q] # 0 => q \in Received')
      /\ Unanswered' = Unanswered \ {r}
      /\ outstanding' = Unanswered'
      /\ answers'[Initialize] # 0 <=> answers[Initialize] # 0 \/ Initialize \in {r}
  BY <1>2, FailStep
<1>4. /\ sockUp /\ sockUp' /\ Queued = {} /\ Queued' = {} /\ ~graceExpired'
      /\ captured' = captured
      /\ initResponseSeen' <=> initResponseSeen \/ r = Initialize
      /\ initResponseSeen' \in BOOLEAN
      /\ owed' = owed /\ replies' = replies \ {r} /\ r \in replies
      /\ awaitingReplayResponse' = awaitingReplayResponse
  BY Connected, QueueSame DEF ForwardAnswer, link, queue, client
<1>5. TypeOK' BY <1>3, <1>4 DEF ForwardAnswer, TypeOK, client, queue, link
<1>6. Booked' BY <1>3, <1>4 DEF Booked
<1>7. QueueSound' BY <1>4 DEF QueueSound
<1>8. WireSound' BY <1>3, <1>4 DEF WireSound
<1>9. LinkSound' BY <1>4 DEF ForwardAnswer, LinkSound, client, queue, link
<1>10. NothingVanishes'
  <2>1. status' = status BY DEF ForwardAnswer
  <2>2. status' = "up" => Unanswered' \subseteq owed' \union replies'
    BY <1>3, <1>4, <2>1, Connected
  <2> QED BY <1>4, <2>2 DEF NothingVanishes
<1>11. NobodyWaitsPastTheGrace' BY <1>4 DEF NobodyWaitsPastTheGrace
<1> QED BY <1>5, <1>6, <1>7, <1>8, <1>9, <1>10, <1>11

LEMMA DropReplayStep == ASSUME IInv, DropReplayAnswer PROVE IInv'
<1> USE DEF IInv
<1>1. /\ taken' = taken /\ answers' = answers /\ pending' = pending
      /\ sockUp /\ sockUp' /\ awaitingReplayResponse /\ awaitingReplayResponse' = FALSE
      /\ replies' = replies \ {Initialize} /\ owed' = owed /\ Initialize \in replies
      /\ graceExpired' = graceExpired
  BY DEF DropReplayAnswer, client, queue, link
<1>2. Received' = Received /\ Unanswered' = Unanswered /\ Queued' = Queued
  BY <1>1, BooksSame, QueueSame
<1>3. Initialize \notin Unanswered
  BY <1>1 DEF WireSound, Booked, Unanswered
<1>4. TypeOK' BY <1>1 DEF DropReplayAnswer, TypeOK, client, queue, link
<1>5. Booked' /\ QueueSound'
  BY <1>2, <1>3 DEF DropReplayAnswer, Booked, QueueSound, client
<1>6. WireSound' BY <1>1, <1>2 DEF WireSound
<1>7. LinkSound' BY <1>1 DEF DropReplayAnswer, LinkSound, client, queue, link
<1>8. NothingVanishes'
  <2>1. status' = status BY DEF DropReplayAnswer
  <2>2. status' = "up" => Unanswered' \subseteq owed' \union replies'
    BY <1>1, <1>2, <1>3, <2>1, Connected
  <2>3. Queued' = {} BY <1>1, <1>2, Connected
  <2> QED BY <1>1, <2>2, <2>3 DEF NothingVanishes
<1>9. NobodyWaitsPastTheGrace' BY <1>1, Connected DEF NobodyWaitsPastTheGrace
<1> QED BY <1>4, <1>5, <1>6, <1>7, <1>8, <1>9

LEMMA RefuseReplayStep == ASSUME IInv, RefuseReplay PROVE IInv'
<1> USE DEF IInv
<1>1. /\ Shutdown /\ taken' = taken /\ captured' = captured
      /\ initResponseSeen' = initResponseSeen
      /\ sockUp /\ sockUp' = sockUp /\ awaitingReplayResponse' = FALSE
      /\ replies' \subseteq replies \ {Initialize} /\ owed' = owed /\ Initialize \in replies
      /\ graceExpired' = graceExpired
  BY DEF RefuseReplay, client, link
<1>2. /\ Received' = Received /\ Queued' = {} /\ pending' = <<>>
      /\ answers' \in [Requests -> Nat] /\ outstanding' \in SUBSET Requests
      /\ discarded' \in SUBSET Messages /\ pending' \in Seq(SUBSET Messages)
      /\ Unanswered' = Unanswered \ Failable(Queued)
      /\ Booked' /\ QueueSound'
  BY <1>1, ShutdownStep
<1>3. status' = "flushing" /\ graceTimer' = FALSE BY <1>1 DEF Shutdown
<1>4. Unanswered' = Unanswered BY <1>1, <1>2, Connected, FailableFacts
<1>5. TypeOK' BY <1>1, <1>2, <1>3 DEF RefuseReplay, TypeOK, client, link
<1>6. WireSound' BY <1>1, <1>2, <1>4 DEF WireSound
<1>7. LinkSound' BY <1>1, <1>2, <1>3 DEF RefuseReplay, LinkSound, client, link
<1>8. NothingVanishes' BY <1>1, <1>2, <1>3 DEF NothingVanishes
<1>9. NobodyWaitsPastTheGrace' BY <1>1, Connected DEF NobodyWaitsPastTheGrace
<1> QED BY <1>2, <1>5, <1>6, <1>7, <1>8, <1>9-----------------------------------------------------------------------------
(* The connection's steps keep the invariant.                              *)

\* The socket closes, with the client gone or waiting.
LEMMA CloseAfterEndStep == ASSUME IInv, CloseAfterEnd PROVE IInv'
<1> USE DEF IInv
<1>1. /\ taken' = taken /\ answers' = answers /\ pending' = pending
      /\ sockUp /\ sockUp' = FALSE /\ clientEnded /\ halfClosed' /\ status' = "flushing"
      /\ owed' = {} /\ replies' = {} /\ refuses' = FALSE
      /\ clientEnded' = clientEnded /\ clientPaused' = clientPaused
      /\ graceExpired' = graceExpired /\ graceTimer' = graceTimer
  BY DEF CloseAfterEnd, SocketGone, LinkSound, client, relay, queue
<1>2. Received' = Received /\ Unanswered' = Unanswered /\ Queued' = Queued
  BY <1>1, BooksSame, QueueSame
<1>3. TypeOK' BY <1>1 DEF CloseAfterEnd, TypeOK, client, relay, queue
<1>4. Booked' /\ QueueSound'
  BY <1>2 DEF CloseAfterEnd, Booked, QueueSound, client, relay
<1>5. WireSound' BY <1>1 DEF CloseAfterEnd, WireSound, relay
<1>6. LinkSound' BY <1>1 DEF CloseAfterEnd, LinkSound
<1>7. NothingVanishes' BY <1>1, <1>2 DEF NothingVanishes
<1>8. NobodyWaitsPastTheGrace' BY <1>1, <1>2 DEF NobodyWaitsPastTheGrace
<1> QED BY <1>3, <1>4, <1>5, <1>6, <1>7, <1>8

LEMMA SocketCloseStep ==
  ASSUME IInv, NEW young \in BOOLEAN, SocketClose(young)
  PROVE  IInv'
<1> USE DEF IInv
<1>1. Cut \subseteq Unanswered /\ Unanswered \subseteq Cut \union {Initialize}
      /\ Initialize \notin Cut
  <2>1. \A r \in Cut : r \in Unanswered /\ ~Exempt(r) BY DEF Cut, Booked
  <2>2. Initialize \in Unanswered => ~initResponseSeen BY DEF Booked, Unanswered
  <2> QED BY <2>1, <2>2 DEF Cut, Booked, Exempt
<1>2. Fail(Cut) /\ taken' = taken BY DEF SocketClose
<1>3. /\ Received' = Received
      /\ answers' \in [Requests -> Nat] /\ outstanding' \in SUBSET Requests
      /\ \A q \in Requests : answers'[q] <= 1 /\ (answers'[q] # 0 => q \in Received')
      /\ Unanswered' = Unanswered \ Cut
      /\ outstanding' = Unanswered'
      /\ answers'[Initialize] # 0 <=> answers[Initialize] # 0 \/ Initialize \in Cut
  BY <1>1, <1>2, FailStep
<1>4. /\ sockUp /\ sockUp' = FALSE /\ Queued = {} /\ Queued' = {} /\ pending' = pending
      /\ owed' = {} /\ replies' = {} /\ refuses' = FALSE
      /\ ~clientEnded /\ ~halfClosed /\ halfClosed' = halfClosed /\ clientEnded' = clientEnded
      /\ clientPaused' = FALSE /\ clientPausedForQueue' = FALSE
      /\ graceExpired' = FALSE /\ graceTimer' \in BOOLEAN
  <2>1. graceExpired = FALSE /\ graceTimer \in BOOLEAN BY DEF SocketClose, TypeOK, LinkSound
  <2>2. graceExpired' = FALSE /\ graceTimer' \in BOOLEAN
    BY <2>1, BridgeAssumption DEF SocketClose
  <2> QED BY <2>2, Connected, QueueSame DEF SocketClose, SocketGone, LinkSound
<1>5. status' = "flushing" \/ (reconnecting' = TRUE /\ status' = status)
  BY DEF SocketClose
<1>6. reconnecting' \in BOOLEAN /\ rapidFails' \in Nat /\ status' \in {"up", "flushing", "gone"}
  <2>1. rapidFails' \in Nat BY DEF SocketClose, TypeOK
  <2>2. reconnecting' \in BOOLEAN BY DEF SocketClose, TypeOK
  <2> QED BY <2>1, <2>2, <1>5 DEF TypeOK
<1>7. TypeOK' BY <1>3, <1>4, <1>6 DEF SocketClose, TypeOK
<1>8. Booked' BY <1>1, <1>3 DEF SocketClose, Booked
<1>9. QueueSound' BY <1>4 DEF QueueSound
<1>10. WireSound' BY <1>4 DEF SocketClose, WireSound
<1>11. LinkSound' BY <1>4, <1>5 DEF LinkSound
<1>12. NothingVanishes' BY <1>1, <1>3, <1>4, <1>5 DEF NothingVanishes
<1>13. NobodyWaitsPastTheGrace' BY <1>4 DEF NobodyWaitsPastTheGrace
<1> QED BY <1>7, <1>8, <1>9, <1>10, <1>11, <1>12, <1>13

\* The grace runs out, or the reconnect settles.
LEMMA GraceFiresStep == ASSUME IInv, GraceFires PROVE IInv'
<1> USE DEF IInv
<1> DEFINE F == Failable(Queued)
<1>1. Fail(F) /\ taken' = taken BY DEF GraceFires
<1>2. /\ Received' = Received
      /\ answers' \in [Requests -> Nat] /\ outstanding' \in SUBSET Requests
      /\ \A q \in Requests : answers'[q] <= 1 /\ (answers'[q] # 0 => q \in Received')
      /\ Unanswered' = Unanswered \ F
      /\ outstanding' = Unanswered'
      /\ answers'[Initialize] # 0 <=> answers[Initialize] # 0 \/ Initialize \in F
  BY <1>1, QueueFailable, FailStep
<1>3. pending' \in Seq(SUBSET Messages) /\ Queued' = Queued \ F
  BY QueueFails DEF GraceFires
<1>4. /\ ~sockUp /\ sockUp' = sockUp /\ ~halfClosed /\ halfClosed' = halfClosed
      /\ clientPaused' = FALSE /\ clientPausedForQueue' = FALSE
      /\ graceTimer' = FALSE /\ graceExpired' = TRUE
      /\ status' = status /\ reconnecting' = reconnecting /\ clientEnded' = clientEnded
  <2>1. ~sockUp /\ ~halfClosed BY DEF GraceFires, LinkSound
  <2>2. clientPaused' = FALSE /\ clientPausedForQueue' = FALSE
    BY <2>1 DEF GraceFires, ResumeClient, LinkSound, TypeOK
  <2> QED BY <2>1, <2>2 DEF GraceFires, link
<1>5. Unanswered' \subseteq {Initialize}
  <2>1. Unanswered \subseteq Queued \union {Initialize} BY <1>4 DEF NothingVanishes
  <2>2. Unanswered \subseteq Requests BY DEF Unanswered
  <2> QED BY <2>1, <2>2, <1>2, QueueFailable
<1>6. TypeOK' BY <1>2, <1>3, <1>4 DEF GraceFires, TypeOK, link, vault
<1>7. Booked' BY <1>2, QueueFailable DEF GraceFires, Booked
<1>8. QueueSound' BY <1>2, <1>3 DEF QueueSound
<1>9. WireSound' BY <1>4 DEF GraceFires, WireSound, LinkSound, vault
<1>10. LinkSound' BY <1>4 DEF GraceFires, LinkSound, vault
<1>11. NothingVanishes'
  <2>1. status' = "up" => reconnecting' BY <1>4 DEF LinkSound
  <2> QED BY <2>1, <1>4, <1>5, <1>8 DEF NothingVanishes, QueueSound
<1>12. NobodyWaitsPastTheGrace' BY <1>4, <1>5 DEF NobodyWaitsPastTheGrace
<1> QED BY <1>6, <1>7, <1>8, <1>9, <1>10, <1>11, <1>12

LEMMA ReattachStep == ASSUME IInv, Reattach PROVE IInv'
<1> USE DEF IInv
<1>1. /\ taken' = taken /\ answers' = answers /\ captured' = captured
      /\ ~sockUp /\ sockUp' = TRUE /\ ~clientEnded /\ clientEnded' = clientEnded
      /\ ~halfClosed /\ halfClosed' = halfClosed /\ status' = status
      /\ reconnecting' = FALSE /\ graceTimer' = FALSE /\ graceExpired' = FALSE
      /\ clientPausedForQueue' = FALSE /\ clientPaused' \in BOOLEAN
      /\ pending' = <<>> /\ pending' \in Seq(SUBSET Messages)
      /\ initResponseSeen' = initResponseSeen /\ outstanding' = outstanding
      /\ replies' = {}
      /\ owed' = (Queued \union captured) \intersect Requests
  <2>1. ~sockUp /\ ~halfClosed BY DEF Reattach, LinkSound
  <2>2. clientPaused' \in BOOLEAN BY DEF Reattach, ResumeClient, TypeOK
  <2>3. clientPausedForQueue' = FALSE BY DEF Reattach, ResumeClient
  <2>4. pending' = <<>> BY DEF Reattach, Spliced
  <2>5. replies' = {} BY <2>1 DEF Reattach, LinkSound
  <2> QED BY <2>1, <2>2, <2>3, <2>4, <2>5 DEF Reattach
<1>2. Received' = Received /\ Unanswered' = Unanswered BY <1>1, BooksSame
<1>3. Queued' = {} BY <1>1 DEF Queued
<1>4. captured \intersect Requests \subseteq {Initialize} /\ captured \subseteq Received
  BY InitializeIsRequest DEF Booked
<1>5. awaitingReplayResponse' <=>
        awaitingReplayResponse \/ (Initialize \in captured /\ initResponseSeen)
  BY DEF Reattach
<1>6. awaitingReplayResponse' \in BOOLEAN BY DEF Reattach, TypeOK
<1>7. TypeOK' BY <1>1, <1>6 DEF Reattach, TypeOK
<1>8. Booked' BY <1>1, <1>2 DEF Booked
<1>9. QueueSound' BY <1>3 DEF QueueSound
<1>10. WireSound'
  <2>1. owed' \subseteq Received BY <1>1, <1>4 DEF QueueSound
  <2>2. owed' \ {Initialize} \subseteq Unanswered BY <1>1, <1>4 DEF QueueSound
  <2>3. awaitingReplayResponse' => initResponseSeen BY <1>5 DEF WireSound
  <2>4. Initialize \in owed' /\ ~awaitingReplayResponse' => Initialize \in Unanswered
    BY <1>1, <1>5, <2>1, InitializeIsRequest DEF Booked, Unanswered
  <2> QED BY <1>1, <1>2, <2>1, <2>2, <2>3, <2>4 DEF WireSound
<1>11. LinkSound' BY <1>1 DEF LinkSound
<1>12. NothingVanishes'
  <2>1. Unanswered \subseteq Queued \union {Initialize} BY <1>1 DEF NothingVanishes
  <2>2. Initialize \in Unanswered => Initialize \in captured
    BY InitializeIsRequest DEF Unanswered, Booked
  <2>3. Unanswered \subseteq owed' BY <1>1, <2>1, <2>2 DEF Unanswered
  <2> QED BY <1>1, <1>2, <1>3, <2>3 DEF NothingVanishes
<1>13. NobodyWaitsPastTheGrace' BY <1>1 DEF NobodyWaitsPastTheGrace
<1> QED BY <1>7, <1>8, <1>9, <1>10, <1>11, <1>12, <1>13

LEMMA ReconnectFailsStep == ASSUME IInv, ReconnectFails PROVE IInv'
<1> USE DEF IInv
<1>1. /\ Shutdown /\ taken' = taken /\ captured' = captured
      /\ initResponseSeen' = initResponseSeen
      /\ ~sockUp /\ sockUp' = sockUp /\ ~halfClosed /\ halfClosed' = halfClosed
      /\ reconnecting' = FALSE /\ graceExpired' = graceExpired
  BY DEF ReconnectFails, client, LinkSound
<1>2. /\ Received' = Received /\ Queued' = {} /\ pending' = <<>>
      /\ answers' \in [Requests -> Nat] /\ outstanding' \in SUBSET Requests
      /\ discarded' \in SUBSET Messages /\ pending' \in Seq(SUBSET Messages)
      /\ Unanswered' = Unanswered \ Failable(Queued)
      /\ Booked' /\ QueueSound'
  BY <1>1, ShutdownStep
<1>3. status' = "flushing" /\ graceTimer' = FALSE BY <1>1 DEF Shutdown
<1>4. TypeOK' BY <1>1, <1>2, <1>3 DEF ReconnectFails, TypeOK, client, vault
<1>5. WireSound' BY <1>1 DEF ReconnectFails, WireSound, LinkSound, vault
<1>6. LinkSound' BY <1>1, <1>3 DEF ReconnectFails, LinkSound, client, vault
<1>7. Unanswered' \subseteq {Initialize}
  <2>1. Unanswered \subseteq Queued \union {Initialize} BY <1>1 DEF NothingVanishes
  <2>2. Unanswered \subseteq Requests BY DEF Unanswered
  <2> QED BY <2>1, <2>2, <1>2, QueueFailable
<1>8. NothingVanishes' BY <1>1, <1>2, <1>3, <1>7 DEF NothingVanishes
<1>9. NobodyWaitsPastTheGrace'
  BY <1>1, <1>7 DEF ReconnectFails, NobodyWaitsPastTheGrace, client
<1> QED BY <1>2, <1>4, <1>5, <1>6, <1>8, <1>9

LEMMA GoneStep == ASSUME IInv, UNCHANGED vars PROVE IInv'
<1> USE DEF IInv, vars, client, relay, queue, link, vault
<1>1. Received' = Received /\ Unanswered' = Unanswered /\ Queued' = Queued
  BY BooksSame, QueueSame
<1>2. TypeOK' BY DEF TypeOK
<1>3. Booked' /\ QueueSound' /\ WireSound' /\ LinkSound'
  BY <1>1 DEF Booked, QueueSound, WireSound, LinkSound
<1>4. NothingVanishes' /\ NobodyWaitsPastTheGrace'
  BY <1>1 DEF NothingVanishes, NobodyWaitsPastTheGrace
<1> QED BY <1>2, <1>3, <1>4
-----------------------------------------------------------------------------
(* The theorems about the books.                                           *)

\* Every step keeps the books.
LEMMA InvStep == ASSUME IInv, [Next]_vars PROVE IInv'
<1>1. CASE UNCHANGED vars BY <1>1, GoneStep
<1>2. CASE \E line \in Lines : Forward(line) \/ Enqueue(line) \/ FailFast(line)
  BY <1>2, ForwardStep, EnqueueStep, FailFastStep
<1>3. CASE Drain \/ Exit \/ ReconnectUnwanted BY <1>3, QuietStep
<1>4. CASE ClientEnds BY <1>4, ClientEndsStep
<1>5. CASE \E r \in Requests, isError \in BOOLEAN : VaultAnswers(r, isError)
  BY <1>5, VaultAnswersStep
<1>6. CASE ReadAnswer
  BY <1>6, ForwardAnswerStep, DropReplayStep, RefuseReplayStep DEF ReadAnswer
<1>7. CASE CloseAfterEnd BY <1>7, CloseAfterEndStep
<1>8. CASE \E young \in BOOLEAN : SocketClose(young) BY <1>8, SocketCloseStep
<1>9. CASE GraceFires BY <1>9, GraceFiresStep
<1>10. CASE Reattach BY <1>10, ReattachStep
<1>11. CASE ReconnectFails BY <1>11, ReconnectFailsStep
<1> QED BY <1>1, <1>2, <1>3, <1>4, <1>5, <1>6, <1>7, <1>8, <1>9, <1>10, <1>11
        DEF Next, ReconnectSettles, Gone

\* The books, the queue, the socket and its timer agree in every state.
THEOREM BooksCorrect == Spec => []IInv
<1>1. Init => IInv BY InitInv
<1>2. IInv /\ [Next]_vars => IInv' BY InvStep
<1> QED BY <1>1, <1>2, PTL DEF Spec

\* The relay's state keeps its type.
THEOREM TypeCorrect == Spec => []TypeOK
<1>1. IInv => TypeOK BY DEF IInv
<1> QED BY <1>1, BooksCorrect, PTL

\* No request is answered twice, for any client, vault and bounds.
THEOREM AnsweredOnceCorrect == Spec => []AnsweredOnce
<1>1. IInv => AnsweredOnce BY DEF IInv, Booked, AnsweredOnce
<1> QED BY <1>1, BooksCorrect, PTL

\* No request vanishes, whatever dies when.
THEOREM NothingVanishesCorrect == Spec => []NothingVanishes
<1>1. IInv => NothingVanishes BY DEF IInv
<1> QED BY <1>1, BooksCorrect, PTL

\* Past the grace nobody waits for the vault.
THEOREM GraceCorrect == Spec => []NobodyWaitsPastTheGrace
<1>1. IInv => NobodyWaitsPastTheGrace BY DEF IInv
<1> QED BY <1>1, BooksCorrect, PTL
-----------------------------------------------------------------------------
(* Induction and recursion over the numbers, stated of sets and functions. *)

\* A set of numbers that has 0 and the successor of each of its numbers has all.
LEMMA Induction ==
  ASSUME NEW S, 0 \in S, \A n \in Nat : n \in S => n + 1 \in S
  PROVE  \A n \in Nat : n \in S
<1> DEFINE Below == {ss \in Nat \X Nat : ss[1] < ss[2]}
           T == Nat \ S
<1>1. IsWellFoundedOn(Below, Nat)
  BY NatLessThanWellFounded DEF OpToRel
<1>2. SUFFICES ASSUME T # {} PROVE FALSE
  OBVIOUS
<1>3. PICK x \in T : \A y \in T : ~(<<y, x>> \in Below)
  <2> HIDE DEF Below
  <2> QED BY <1>1, <1>2, WFMin, Zenon
<1>4. x \in Nat /\ x # 0 /\ x \notin S
  BY <1>3
<1>5. x - 1 \in Nat /\ x - 1 < x /\ (x - 1) + 1 = x
  BY <1>4
<1>6. x - 1 \in S
  BY <1>3, <1>4, <1>5
<1> QED BY <1>4, <1>5, <1>6

Recurs(f, V, b, step) ==
  f \in [Nat -> V] /\ f[0] = b /\ \A n \in Nat : f[n + 1] = step[<<n, f[n]>>]

\* A value to begin with and a step define a function on the numbers.
LEMMA Recursion ==
  ASSUME NEW V, NEW b \in V, NEW step \in [Nat \X V -> V]
  PROVE  \E f : Recurs(f, V, b, step)
<1> DEFINE Upto(n) == {f \in [0..n -> V] :
                         f[0] = b /\ \A k \in Nat : k < n => f[k + 1] = step[<<k, f[k]>>]}
           Built == {n \in Nat : Upto(n) # {}}
           Agree == {n \in Nat : \A l, m \in Nat : n <= l /\ n <= m =>
                       \A f \in Upto(l), g \in Upto(m) : f[n] = g[n]}
<1>1. \A n \in Nat : n \in Built
  <2>1. 0 \in Built
    <3>1. [k \in 0..0 |-> b] \in Upto(0)
      OBVIOUS
    <3> QED BY <3>1
  <2>2. ASSUME NEW n \in Nat, n \in Built PROVE n + 1 \in Built
    <3>1. PICK f : f \in Upto(n)
      BY <2>2
    <3> DEFINE g == [k \in 0..(n + 1) |-> IF k = n + 1 THEN step[<<n, f[n]>>] ELSE f[k]]
    <3>2. f[n] \in V /\ step[<<n, f[n]>>] \in V
      BY <3>1
    <3>3. \A k \in 0..(n + 1) : k # n + 1 => k \in 0..n
      OBVIOUS
    <3>4. g \in [0..(n + 1) -> V]
      BY <3>1, <3>2, <3>3
    <3>5. g[0] = b
      BY <3>1
    <3>6. ASSUME NEW k \in Nat, k < n + 1 PROVE g[k + 1] = step[<<k, g[k]>>]
      <4>1. g[k] = f[k] /\ k \in 0..n
        BY <3>6
      <4>2. CASE k = n
        <5>1. k + 1 \in 0..(n + 1) /\ k + 1 = n + 1
          BY <4>2
        <5>2. g[k + 1] = step[<<n, f[n]>>]
          BY <5>1
        <5> HIDE DEF g
        <5> QED BY <4>1, <4>2, <5>2
      <4>3. CASE k < n
        <5>1. g[k + 1] = f[k + 1]
          BY <4>3
        <5> QED BY <3>1, <4>1, <4>3, <5>1
      <4> QED BY <3>6, <4>2, <4>3
    <3>7. g \in Upto(n + 1)
      <4> HIDE DEF g
      <4> QED BY <3>4, <3>5, <3>6
    <3> HIDE DEF Upto, g
    <3>8. Upto(n + 1) # {} /\ n + 1 \in Nat
      BY <3>7
    <3> QED BY <3>8
  <2> HIDE DEF Built
  <2> QED BY <2>1, <2>2, Induction
<1>2. \A n \in Nat : n \in Agree
  <2>1. 0 \in Agree
    OBVIOUS
  <2>2. ASSUME NEW n \in Nat, n \in Agree PROVE n + 1 \in Agree
    <3> SUFFICES ASSUME NEW l \in Nat, NEW m \in Nat, n + 1 <= l, n + 1 <= m,
                        NEW f \in Upto(l), NEW g \in Upto(m)
                 PROVE  f[n + 1] = g[n + 1]
      <4> HIDE DEF Upto
      <4>1. n + 1 \in Nat
        OBVIOUS
      <4> QED BY <4>1, ZenonT(40)
    <3>1. n <= l /\ n <= m /\ n < l /\ n < m
      OBVIOUS
    <3>2. f[n] = g[n]
      <4> HIDE DEF Upto
      <4>1. \A i, j \in Nat : n <= i /\ n <= j => \A d \in Upto(i), e \in Upto(j) : d[n] = e[n]
        BY <2>2, Zenon
      <4> QED BY <3>1, <4>1
    <3>3. f[n + 1] = step[<<n, f[n]>>] /\ g[n + 1] = step[<<n, g[n]>>]
      BY <3>1
    <3> QED BY <3>2, <3>3
  <2> HIDE DEF Agree
  <2> QED BY <2>1, <2>2, Induction
<1> DEFINE F == [n \in Nat |-> (CHOOSE f : f \in Upto(n))[n]]
<1>3. \A n \in Nat : (CHOOSE f : f \in Upto(n)) \in Upto(n)
  BY <1>1
<1>4. \A n \in Nat : F[n] = (CHOOSE f : f \in Upto(n))[n]
  OBVIOUS
<1>5. F \in [Nat -> V]
  <2>1. \A n \in Nat : (CHOOSE f : f \in Upto(n))[n] \in V
    <3> SUFFICES ASSUME NEW n \in Nat PROVE (CHOOSE f : f \in Upto(n))[n] \in V
      OBVIOUS
    <3>1. (CHOOSE f : f \in Upto(n)) \in [0..n -> V]
      BY <1>3
    <3> QED BY <3>1
  <2> QED BY <2>1
<1>6. F[0] = b
  <2>1. (CHOOSE f : f \in Upto(0)) \in Upto(0)
    BY <1>3
  <2>2. (CHOOSE f : f \in Upto(0))[0] = b
    BY <2>1
  <2> QED BY <2>2, <1>4
<1>7. ASSUME NEW n \in Nat PROVE F[n + 1] = step[<<n, F[n]>>]
  <2>1. PICK g : g \in Upto(n + 1) /\ F[n + 1] = g[n + 1]
    <3>1. n + 1 \in Nat
      OBVIOUS
    <3> HIDE DEF Upto, F
    <3> QED BY <1>3, <1>4, <3>1
  <2>2. PICK f : f \in Upto(n) /\ F[n] = f[n]
    BY <1>3, <1>4
  <2>3. g[n] = f[n]
    <3>1. n + 1 \in Nat /\ n <= n /\ n <= n + 1
      OBVIOUS
    <3>2. n \in Agree
      <4> HIDE DEF Agree
      <4> QED BY <1>2
    <3> HIDE DEF Upto, F
    <3> QED BY <2>1, <2>2, <3>1, <3>2
  <2>4. g[n + 1] = step[<<n, g[n]>>]
    BY <2>1
  <2> QED BY <2>1, <2>2, <2>3, <2>4
<1> HIDE DEF F
<1> QED BY <1>5, <1>6, <1>7 DEF Recurs
-----------------------------------------------------------------------------
(* What the flush writes.                                                  *)

\* t is, in their order, those of the first n lines queued that are fresh; g says
\* which of them each is.
Selects(g, t, n) ==
  /\ g \in [1..Len(t) -> 1..n]
  /\ \A i, j \in 1..Len(t) : i < j => g[i] < g[j]
  /\ \A i \in 1..Len(t) : t[i] = pending[g[i]] /\ Fresh(t[i])
  /\ \A k \in 1..n : Fresh(pending[k]) => \E i \in 1..Len(t) : g[i] = k

\* One more round of the loop that flushes the queue.
LEMMA FlushOneMore ==
  ASSUME TypeOK, NEW n \in Nat, n < Len(pending), NEW t \in Seq(SUBSET Messages), NEW g,
         Selects(g, t, n), NEW u \in Seq(SUBSET Messages),
         u = IF Fresh(pending[n + 1]) THEN Append(t, pending[n + 1]) ELSE t
  PROVE  \E h : Selects(h, u, n + 1)
<1> DEFINE L == Len(t)
<1>1. /\ L \in Nat /\ Len(pending) \in Nat /\ n + 1 \in 1..Len(pending)
      /\ \A k \in 1..(n + 1) : k \in 1..n \/ k = n + 1
      /\ \A k \in 1..n : k \in 1..(n + 1) /\ k < n + 1
  BY LenProperties DEF TypeOK
<1>2. CASE ~Fresh(pending[n + 1])
  <2>1. u = t
    BY <1>2
  <2>2. g \in [1..L -> 1..(n + 1)]
    BY <1>1 DEF Selects
  <2>3. \A k \in 1..(n + 1) : Fresh(pending[k]) => \E i \in 1..L : g[i] = k
    BY <1>1, <1>2 DEF Selects
  <2>4. Selects(g, u, n + 1)
    BY <2>1, <2>2, <2>3 DEF Selects
  <2> QED BY <2>4
<1>3. CASE Fresh(pending[n + 1])
  <2> DEFINE h == [i \in 1..(L + 1) |-> IF i = L + 1 THEN n + 1 ELSE g[i]]
  <2>1. pending[n + 1] \in SUBSET Messages
    BY <1>1, ElementOfSeq DEF TypeOK
  <2>2. /\ u = Append(t, pending[n + 1]) /\ Len(u) = L + 1
        /\ u[L + 1] = pending[n + 1] /\ \A i \in 1..L : u[i] = t[i]
    BY <1>3, <2>1, AppendProperties
  <2>3. /\ \A i \in 1..(L + 1) : i \in 1..L \/ i = L + 1
        /\ \A i \in 1..L : i \in 1..(L + 1) /\ i # L + 1 /\ i < L + 1
        /\ L + 1 \in 1..(L + 1)
    BY <1>1
  <2>4. h[L + 1] = n + 1 /\ \A i \in 1..L : h[i] = g[i] /\ g[i] \in 1..n
    BY <2>3 DEF Selects
  <2>5. h \in [1..(L + 1) -> 1..(n + 1)]
    <3> HIDE DEF h
    <3>1. n + 1 \in 1..(n + 1) /\ \A i \in 1..L : g[i] \in 1..(n + 1)
      BY <1>1, <2>4
    <3> USE DEF h
    <3>2. \A i \in 1..(L + 1) : (IF i = L + 1 THEN n + 1 ELSE g[i]) \in 1..(n + 1)
      BY <2>3, <3>1
    <3> QED BY <3>2
  <2> HIDE DEF h
  <2>6. ASSUME NEW i \in 1..(L + 1), NEW j \in 1..(L + 1), i < j PROVE h[i] < h[j]
    <3>1. i \in 1..L
      BY <1>1, <2>6
    <3>2. CASE j \in 1..L
      BY <2>4, <2>6, <3>1, <3>2 DEF Selects
    <3>3. CASE j = L + 1
      BY <1>1, <2>4, <3>1, <3>3
    <3> QED BY <2>3, <3>2, <3>3
  <2>7. \A i \in 1..(L + 1) : u[i] = pending[h[i]] /\ Fresh(u[i])
    BY <1>3, <2>2, <2>3, <2>4 DEF Selects
  <2>8. ASSUME NEW k \in 1..(n + 1), Fresh(pending[k]) PROVE \E i \in 1..(L + 1) : h[i] = k
    <3>1. CASE k = n + 1
      BY <2>3, <2>4, <3>1
    <3>2. CASE k \in 1..n
      BY <2>3, <2>4, <2>8, <3>2 DEF Selects
    <3> QED BY <1>1, <3>1, <3>2
  <2>9. Selects(h, u, n + 1)
    BY <2>2, <2>5, <2>6, <2>7, <2>8 DEF Selects
  <2> QED BY <2>9
<1> QED BY <1>2, <1>3

\* The flush writes the fresh lines of the queue, each once and in their order.
LEMMA FlushedFresh ==
  ASSUME TypeOK
  PROVE  Flushed \in Seq(SUBSET Messages) /\ \E g : Selects(g, Flushed, Len(pending))
<1> DEFINE V == Seq(SUBSET Messages)
           P == Len(pending)
           step == [x \in Nat \X V |->
                      IF x[1] < P /\ Fresh(pending[x[1] + 1])
                      THEN Append(x[2], pending[x[1] + 1]) ELSE x[2]]
           Rec(f) == f = [n \in 0..P |->
                            IF n = 0 THEN <<>>
                            ELSE IF Fresh(pending[n]) THEN Append(f[n - 1], pending[n])
                            ELSE f[n - 1]]
<1>1. P \in Nat /\ <<>> \in V /\ \A n \in 1..P : pending[n] \in SUBSET Messages
  BY LenProperties, ElementOfSeq, EmptySeq DEF TypeOK
<1>2. step \in [Nat \X V -> V]
  <2>1. ASSUME NEW x \in Nat \X V PROVE step[x] \in V
    <3>1. x[1] \in Nat /\ x[2] \in V
      OBVIOUS
    <3>2. CASE x[1] < P /\ Fresh(pending[x[1] + 1])
      <4>1. x[1] + 1 \in 1..P
        BY <1>1, <3>1, <3>2
      <4>2. Append(x[2], pending[x[1] + 1]) \in V
        BY <1>1, <3>1, <4>1, AppendProperties
      <4> QED BY <3>2, <4>2
    <3>3. CASE ~(x[1] < P /\ Fresh(pending[x[1] + 1]))
      BY <3>1, <3>3
    <3> QED BY <3>2, <3>3
  <2> HIDE DEF V
  <2> QED BY <2>1
<1>3. PICK F \in [Nat -> V] : F[0] = <<>> /\ \A n \in Nat : F[n + 1] = step[<<n, F[n]>>]
  <2>1. \E F : Recurs(F, V, <<>>, step)
    <3>1. <<>> \in V
      BY <1>1
    <3> HIDE DEF V, step
    <3> QED BY <1>2, <3>1, Recursion
  <2> HIDE DEF V, step
  <2> QED BY <2>1 DEF Recurs
<1>4. \A n \in Nat : n < P =>
        F[n + 1] = IF Fresh(pending[n + 1]) THEN Append(F[n], pending[n + 1]) ELSE F[n]
  <2> SUFFICES ASSUME NEW n \in Nat, n < P
               PROVE  F[n + 1] = IF Fresh(pending[n + 1]) THEN Append(F[n], pending[n + 1]) ELSE F[n]
    OBVIOUS
  <2>1. <<n, F[n]>> \in Nat \X V
    BY <1>3
  <2> QED BY <1>3, <2>1
<1>5. Rec([n \in 0..P |-> F[n]])
  <2> DEFINE f == [n \in 0..P |-> F[n]]
  <2>1. ASSUME NEW n \in 0..P
        PROVE  f[n] = IF n = 0 THEN <<>>
                      ELSE IF Fresh(pending[n]) THEN Append(f[n - 1], pending[n]) ELSE f[n - 1]
    <3>1. CASE n = 0
      BY <1>3, <3>1
    <3>2. CASE n # 0
      <4>1. n - 1 \in Nat /\ n - 1 < P /\ n - 1 \in 0..P /\ (n - 1) + 1 = n
        BY <1>1, <3>2
      <4>2. F[n] = IF Fresh(pending[n]) THEN Append(F[n - 1], pending[n]) ELSE F[n - 1]
        BY <1>4, <4>1
      <4> QED BY <3>2, <4>1, <4>2
    <3> QED BY <3>1, <3>2
  <2> QED BY <2>1
<1>6. PICK f : Rec(f) /\ Flushed = f[P]
  <2>1. Flushed = (CHOOSE f : Rec(f))[P]
    BY DEF Flushed
  <2>2. Rec(CHOOSE f : Rec(f))
    <3> HIDE DEF Rec
    <3> QED BY <1>5
  <2> QED BY <2>1, <2>2
<1>7. /\ f[0] = <<>>
      /\ \A n \in Nat : n < P =>
           f[n + 1] = IF Fresh(pending[n + 1]) THEN Append(f[n], pending[n + 1]) ELSE f[n]
  <2>1. f[0] = <<>>
    BY <1>1, <1>6
  <2>2. ASSUME NEW n \in Nat, n < P
        PROVE  f[n + 1] = IF Fresh(pending[n + 1]) THEN Append(f[n], pending[n + 1]) ELSE f[n]
    <3>1. n + 1 \in 0..P /\ n + 1 # 0 /\ (n + 1) - 1 = n
      BY <1>1, <2>2
    <3> QED BY <1>6, <3>1
  <2> QED BY <2>1, <2>2
<1> HIDE DEF Rec, step
<1> DEFINE Right == {n \in Nat : n <= P => f[n] \in V /\ \E g : Selects(g, f[n], n)}
<1>8. 0 \in Right
  <2>1. Selects(<<>>, <<>>, 0)
    <3>1. Len(<<>>) = 0 /\ 1..0 = {} /\ <<>> \in [{} -> {}]
      OBVIOUS
    <3> QED BY <3>1 DEF Selects
  <2> QED BY <1>1, <1>7, <2>1
<1>9. ASSUME NEW n \in Nat, n \in Right PROVE n + 1 \in Right
  <2>1. CASE n + 1 <= P
    <3>1. n < P /\ n + 1 \in 1..P
      BY <1>1, <2>1
    <3>2. f[n] \in V /\ \E g : Selects(g, f[n], n)
      BY <1>1, <1>9, <3>1
    <3>3. f[n + 1] \in V
      <4>1. Append(f[n], pending[n + 1]) \in V
        BY <1>1, <3>1, <3>2, AppendProperties
      <4>2. f[n + 1] = IF Fresh(pending[n + 1]) THEN Append(f[n], pending[n + 1]) ELSE f[n]
        BY <1>7, <3>1
      <4> QED BY <3>2, <4>1, <4>2
    <3>4. \E h : Selects(h, f[n + 1], n + 1)
      BY <1>7, <3>1, <3>2, <3>3, FlushOneMore
    <3> QED BY <3>3, <3>4
  <2>2. CASE ~(n + 1 <= P)
    BY <2>2
  <2> QED BY <2>1, <2>2
<1>10. P \in Right
  <2> HIDE DEF Right
  <2> QED BY <1>1, <1>8, <1>9, Induction
<1> QED BY <1>1, <1>6, <1>10
-----------------------------------------------------------------------------
(* The client's lines and their parts.                                     *)

\* A line is part of no two of the client's lines.
LEMMA PartOnce ==
  ASSUME NEW t \in Seq(Lines), TakenOnce(t), NEW l, NEW i, NEW j,
         PartOf(t, l, i), PartOf(t, l, j)
  PROVE  i = j
<1>1. t[i] \in Lines /\ t[j] \in Lines /\ l \subseteq t[i] \intersect t[j] /\ l # {}
  BY ElementOfSeq DEF PartOf
<1>2. t[i] = t[j]
  BY <1>1, LinesApart
<1> QED BY <1>2 DEF PartOf, TakenOnce

\* What is left of two lines comes in their order.
LEMMA PartsBefore ==
  ASSUME NEW t \in Seq(Lines), TakenOnce(t), NEW l, NEW m, NEW x \in SUBSET l, NEW y \in SUBSET m,
         l # {} => IsPart(t, l), m # {} => IsPart(t, m), Before(t, l, m)
  PROVE  Before(t, x, y) /\ (x # {} => IsPart(t, x))
<1>1. ASSUME NEW n, NEW z \in SUBSET n, n # {} => IsPart(t, n), NEW i, PartOf(t, z, i)
      PROVE  PartOf(t, n, i)
  <2>1. n # {} /\ IsPart(t, n)
    BY <1>1 DEF PartOf
  <2>2. PICK k \in 1..Len(t) : PartOf(t, n, k)
    BY <2>1 DEF IsPart
  <2>3. PartOf(t, z, k)
    BY <1>1, <2>2 DEF PartOf
  <2>4. k = i
    BY <1>1, <2>3, PartOnce
  <2> QED BY <2>2, <2>4
<1>2. Before(t, x, y)
  BY <1>1 DEF Before
<1>3. x # {} => IsPart(t, x)
  BY DEF IsPart, PartOf
<1> QED BY <1>2, <1>3

\* A new line comes after all others, and leaves their order as it is.
LEMMA LaterLine ==
  ASSUME NEW t \in Seq(Lines), TakenOnce(t), NEW line \in Lines,
         line = {Initialize} <=> t = <<>>, \A i \in 1..Len(t) : t[i] # line,
         NEW u, u = Append(t, line)
  PROVE  /\ u \in Seq(Lines) /\ TakenOnce(u)
         /\ \A l : IsPart(t, l) => IsPart(u, l)
         /\ \A l, m : IsPart(t, l) /\ IsPart(t, m) /\ Before(t, l, m) => Before(u, l, m)
         /\ \A x \in SUBSET line : x # {} => IsPart(u, x)
         /\ \A l : IsPart(t, l) => \A x \in SUBSET line : Before(u, l, x)
<1> DEFINE n == Len(t) + 1
<1>1. /\ u \in Seq(Lines) /\ Len(u) = n /\ Len(t) \in Nat /\ u[n] = line
      /\ \A i \in 1..Len(t) : u[i] = t[i]
      /\ \A i \in 1..n : i \in 1..Len(t) \/ i = n
      /\ \A i \in 1..Len(t) : i \in 1..n /\ i < n
      /\ n \in 1..n
  BY AppendProperties, LenProperties
<1> HIDE DEF n
<1>2. TakenOnce(u)
  <2>1. u[1] = {Initialize}
    <3>1. CASE t = <<>>
      <4>1. n = 1
        BY <3>1 DEF n
      <4> QED BY <1>1, <3>1, <4>1
    <3>2. CASE t # <<>>
      <4>1. 1 \in 1..Len(t)
        BY <1>1, <3>2, EmptySeq
      <4> QED BY <1>1, <3>2, <4>1 DEF TakenOnce
    <3> QED BY <3>1, <3>2
  <2>2. \A i, j \in 1..Len(u) : u[i] = u[j] => i = j
    BY <1>1 DEF TakenOnce
  <2> QED BY <2>1, <2>2 DEF TakenOnce
<1>3. \A l : IsPart(t, l) => IsPart(u, l)
  BY <1>1 DEF IsPart, PartOf
<1>4. ASSUME NEW l, IsPart(t, l), NEW i, PartOf(u, l, i) PROVE PartOf(t, l, i) /\ i < n
  <2>1. PICK k \in 1..Len(t) : PartOf(t, l, k)
    BY <1>4 DEF IsPart
  <2>2. PartOf(u, l, k)
    BY <1>1, <2>1 DEF PartOf
  <2>3. k = i
    BY <1>1, <1>2, <1>4, <2>2, PartOnce
  <2> QED BY <1>1, <2>1, <2>3
<1>5. ASSUME NEW l, NEW m, IsPart(t, l), IsPart(t, m), Before(t, l, m) PROVE Before(u, l, m)
  <2>1. \A i, j : PartOf(u, l, i) /\ PartOf(u, m, j) =>
          i \in 1..Len(t) /\ j \in 1..Len(t) /\ PartOf(t, l, i) /\ PartOf(t, m, j)
    BY <1>4, <1>5 DEF PartOf
  <2> QED BY <1>5, <2>1 DEF Before
<1>6. ASSUME NEW x \in SUBSET line, x # {} PROVE PartOf(u, x, n)
  BY <1>1, <1>6 DEF PartOf
<1>7. ASSUME NEW l, IsPart(t, l), NEW x \in SUBSET line PROVE Before(u, l, x)
  <2> SUFFICES ASSUME NEW i \in 1..Len(u), NEW j \in 1..Len(u), PartOf(u, l, i), PartOf(u, x, j)
               PROVE  i < j
    BY DEF Before
  <2>1. i < n
    BY <1>4, <1>7
  <2>2. PartOf(u, x, n)
    BY <1>6 DEF PartOf
  <2>3. j = n
    BY <1>1, <1>2, <2>2, PartOnce
  <2> QED BY <2>1, <2>3
<1> QED BY <1>1, <1>2, <1>3, <1>5, <1>6, <1>7 DEF IsPart

\* A part that has a handshake message is one, and known.
LEMMA PartHandshake ==
  ASSUME TypeOK, Booked, NEW l, IsPart(taken, l), l \intersect Handshake # {}
  PROVE  \E m \in captured : l = {m}
<1>1. PICK i \in 1..Len(taken) : l # {} /\ l \subseteq taken[i] /\ taken[i] \in Lines
  BY ElementOfSeq DEF IsPart, PartOf, TypeOK
<1>2. \A b \in Batches : b \intersect Handshake = {}
  BY BridgeAssumption
<1>3. PICK m \in Handshake : taken[i] = {m}
  BY <1>1, <1>2 DEF Lines
<1>4. l = {m} /\ m \in Received
  BY <1>1, <1>3 DEF Received
<1> QED BY <1>4 DEF Booked

\* The rest are calls and notifications.
LEMMA PartPayload ==
  ASSUME TypeOK, NEW l, IsPart(taken, l)
  PROVE  /\ l \subseteq Messages /\ l # {} /\ l # {Preamble}
         /\ Payload(l) <=> l \intersect Handshake = {}
<1>1. PICK i \in 1..Len(taken) : l # {} /\ l \subseteq taken[i] /\ taken[i] \in Lines
  BY ElementOfSeq DEF IsPart, PartOf, TypeOK
<1>2. l \subseteq Messages
  BY <1>1, LinesHoldMessages
<1>3. Preamble \notin Messages /\ (Calls \union Notes) \intersect Handshake = {}
  BY BridgeAssumption DEF Messages
<1> QED BY <1>1, <1>2, <1>3 DEF Payload, Messages

\* Whoever took a line has the handshake's first one.
LEMMA InitializeFirst ==
  ASSUME TypeOK, Booked, TakenOnce(taken)
  PROVE  taken # <<>> \/ captured # {} => Initialize \in captured
<1>1. captured # {} => taken # <<>>
  <2>1. taken = <<>> => Received = {}
    BY DEF Received
  <2> QED BY <2>1 DEF Booked
<1>2. CASE taken # <<>>
  <2>1. 1 \in 1..Len(taken)
    BY <1>2, LenProperties, EmptySeq DEF TypeOK
  <2>2. Initialize \in Received
    BY <1>2, <2>1 DEF TakenOnce, Received
  <2> QED BY <2>2, InitializeIsRequest DEF Booked
<1> QED BY <1>1, <1>2
-----------------------------------------------------------------------------
(* What the queue's and the connections' steps do to the order.            *)

\* A line joins the queue, whole or in part, as the client gives it.
LEMMA JoinsQueue ==
  ASSUME NEW t \in Seq(Lines), TakenOnce(t), NEW line \in Lines,
         line = {Initialize} <=> t = <<>>, \A i \in 1..Len(t) : t[i] # line,
         NEW w, NEW q \in Seq(SUBSET Messages), NEW x \in SUBSET line, x # {}, x \subseteq Messages,
         \A s \in Spots(w) : Payload(At(w, s)) => IsPart(t, At(w, s)),
         InQueueOrder(t, q), InWireOrder(t, w), WireFirst(t, w, q)
  PROVE  LET u == Append(t, line) p == Append(q, x)
         IN  InQueueOrder(u, p) /\ InWireOrder(u, w) /\ WireFirst(u, w, p)
<1> DEFINE u == Append(t, line)
           p == Append(q, x)
           n == Len(q) + 1
<1>1. /\ \A l : IsPart(t, l) => IsPart(u, l)
      /\ \A l, m : IsPart(t, l) /\ IsPart(t, m) /\ Before(t, l, m) => Before(u, l, m)
      /\ IsPart(u, x)
      /\ \A l : IsPart(t, l) => Before(u, l, x)
  BY LaterLine
<1>2. /\ Len(p) = n /\ p[n] = x /\ Len(q) \in Nat
      /\ \A k \in 1..Len(q) : p[k] = q[k]
      /\ \A k \in 1..n : k \in 1..Len(q) \/ k = n
      /\ \A k, l \in 1..n : k < l => k \in 1..Len(q)
  BY AppendProperties, LenProperties
<1>3. \A l, m : l = {} \/ m = {} => Before(u, l, m)
  BY DEF Before, PartOf
<1> HIDE DEF u, p, n
<1>4. \A k \in 1..Len(p) : p[k] # {} => IsPart(u, p[k])
  BY <1>1, <1>2 DEF InQueueOrder
<1>5. ASSUME NEW k \in 1..Len(p), NEW l \in 1..Len(p), k < l PROVE Before(u, p[k], p[l])
  <2>1. k \in 1..Len(q) /\ p[k] = q[k] /\ (p[k] # {} => IsPart(t, p[k]))
    BY <1>2, <1>5 DEF InQueueOrder
  <2>2. CASE l \in 1..Len(q)
    <3>1. p[l] = q[l] /\ (p[l] # {} => IsPart(t, p[l])) /\ Before(t, p[k], p[l])
      BY <1>2, <1>5, <2>1, <2>2 DEF InQueueOrder
    <3> QED BY <1>1, <1>3, <2>1, <3>1
  <2>3. CASE l = n
    BY <1>1, <1>2, <1>3, <2>1, <2>3
  <2> QED BY <1>2, <2>2, <2>3
<1>6. InWireOrder(u, w)
  BY <1>1 DEF InWireOrder
<1>7. ASSUME NEW s \in Spots(w), NEW k \in 1..Len(p), Payload(At(w, s))
      PROVE  Before(u, At(w, s), p[k])
  <2>1. IsPart(t, At(w, s))
    BY <1>7
  <2>2. CASE k \in 1..Len(q)
    <3>1. p[k] = q[k] /\ (p[k] # {} => IsPart(t, p[k])) /\ Before(t, At(w, s), p[k])
      BY <1>2, <1>7, <2>2 DEF InQueueOrder, WireFirst
    <3> QED BY <1>1, <1>3, <2>1, <3>1
  <2>3. CASE k = n
    BY <1>1, <1>2, <2>1, <2>3
  <2> QED BY <1>2, <2>2, <2>3
<1>8. InQueueOrder(u, p) /\ WireFirst(u, w, p)
  BY <1>4, <1>5, <1>7 DEF InQueueOrder, WireFirst
<1> QED BY <1>6, <1>8 DEF u, p

\* A line is given and nothing of it kept.
LEMMA JoinsNothing ==
  ASSUME NEW t \in Seq(Lines), TakenOnce(t), NEW line \in Lines,
         line = {Initialize} <=> t = <<>>, \A i \in 1..Len(t) : t[i] # line,
         NEW w, NEW q,
         \A s \in Spots(w) : Payload(At(w, s)) => IsPart(t, At(w, s)),
         InQueueOrder(t, q), InWireOrder(t, w), WireFirst(t, w, q)
  PROVE  LET u == Append(t, line) IN InQueueOrder(u, q) /\ InWireOrder(u, w) /\ WireFirst(u, w, q)
<1> DEFINE u == Append(t, line)
<1>1. /\ \A l : IsPart(t, l) => IsPart(u, l)
      /\ \A l, m : IsPart(t, l) /\ IsPart(t, m) /\ Before(t, l, m) => Before(u, l, m)
  BY LaterLine
<1>2. \A l, m : l = {} \/ m = {} => Before(u, l, m)
  BY DEF Before, PartOf
<1> HIDE DEF u
<1>3. \A l, m : (l # {} => IsPart(t, l)) /\ (m # {} => IsPart(t, m)) /\ Before(t, l, m) => Before(u, l, m)
  BY <1>1, <1>2
<1>4. InQueueOrder(u, q)
  BY <1>1, <1>3 DEF InQueueOrder
<1>5. InWireOrder(u, w)
  BY <1>3 DEF InWireOrder
<1>6. WireFirst(u, w, q)
  BY <1>3 DEF InQueueOrder, WireFirst
<1> QED BY <1>4, <1>5, <1>6 DEF u

\* Requests are failed: of every line in the queue a part is left.
LEMMA ShrinksQueue ==
  ASSUME NEW t \in Seq(Lines), TakenOnce(t), NEW w, NEW q, NEW p, Len(p) = Len(q),
         \A k \in 1..Len(q) : p[k] \subseteq q[k],
         \A s \in Spots(w) : Payload(At(w, s)) => IsPart(t, At(w, s)),
         InQueueOrder(t, q), WireFirst(t, w, q)
  PROVE  InQueueOrder(t, p) /\ WireFirst(t, w, p)
<1>1. \A k \in 1..Len(q) : q[k] # {} => IsPart(t, q[k])
  BY DEF InQueueOrder
<1>2. ASSUME NEW k \in 1..Len(q), p[k] # {} PROVE IsPart(t, p[k])
  BY <1>1, <1>2 DEF IsPart, PartOf
<1>3. ASSUME NEW k \in 1..Len(q), NEW l \in 1..Len(q), k < l PROVE Before(t, p[k], p[l])
  <2>1. Before(t, q[k], q[l])
    BY <1>3 DEF InQueueOrder
  <2> QED BY <1>1, <2>1, PartsBefore
<1>4. ASSUME NEW s \in Spots(w), NEW k \in 1..Len(q), Payload(At(w, s))
      PROVE  Before(t, At(w, s), p[k])
  <2>1. Before(t, At(w, s), q[k]) /\ IsPart(t, At(w, s))
    BY <1>4 DEF WireFirst
  <2>2. At(w, s) \in SUBSET At(w, s)
    OBVIOUS
  <2> QED BY <1>1, <2>1, <2>2, PartsBefore
<1> QED BY <1>2, <1>3, <1>4 DEF InQueueOrder, WireFirst

\* v is w with x put at the end of its last connection.
Puts(V, w, x, v) ==
  LET new == <<Len(w), Len(w[Len(w)]) + 1>>
  IN  /\ v \in Seq(Seq(V)) /\ v # <<>> /\ Len(v) = Len(w) /\ Len(w) \in 1..Len(w)
      /\ \A c \in 1..Len(w) : c # Len(w) => v[c] = w[c]
      /\ v[Len(w)] = Append(w[Len(w)], x)
      /\ Spots(v) = Spots(w) \union {new} /\ new \notin Spots(w)
      /\ At(v, new) = x /\ \A s \in Spots(w) : At(v, s) = At(w, s)
      /\ \A s \in Spots(w) : Precedes(s, new) /\ ~Precedes(new, s)
      /\ ~Precedes(new, new)

\* A line is written to the connection there is.
LEMMA WriteSpots ==
  ASSUME NEW V, NEW w \in Seq(Seq(V)), w # <<>>, NEW x \in V,
         NEW v, v = [w EXCEPT ![Len(w)] = Append(@, x)]
  PROVE  Puts(V, w, x, v)
<1> DEFINE L == Len(w)
           K == Len(w[L])
           new == <<L, K + 1>>
<1>1. L \in Nat /\ L >= 1 /\ L \in 1..L /\ w[L] \in Seq(V) /\ K \in Nat
      /\ \A c \in 1..L : w[c] \in Seq(V) /\ Len(w[c]) \in Nat
  <2>1. L \in Nat /\ L # 0
    BY LenProperties, EmptySeq
  <2>2. L \in 1..L
    BY <2>1
  <2>3. \A c \in 1..L : w[c] \in Seq(V)
    BY ElementOfSeq
  <2> QED BY <2>1, <2>2, <2>3, LenProperties
<1>2. /\ Append(w[L], x) \in Seq(V) /\ Len(Append(w[L], x)) = K + 1
      /\ Append(w[L], x)[K + 1] = x
      /\ \A i \in 1..K : Append(w[L], x)[i] = w[L][i]
  BY <1>1, AppendProperties
<1>3. /\ v \in Seq(Seq(V)) /\ Len(v) = L
      /\ v[L] = Append(w[L], x) /\ \A c \in 1..L : c # L => v[c] = w[c]
  BY <1>1, <1>2
<1> HIDE DEF L, K
<1>4. v # <<>>
  BY <1>1, <1>3, EmptySeq
<1>5. Spots(v) = Spots(w) \union {new} /\ new \notin Spots(w)
  <2>1. \A s \in Nat \X Nat : s \in Spots(v) <=> s[1] \in 1..L /\ s[2] \in 1..Len(v[s[1]])
    BY <1>3 DEF Spots
  <2>2. \A s \in Nat \X Nat : s \in Spots(w) <=> s[1] \in 1..L /\ s[2] \in 1..Len(w[s[1]])
    BY DEF Spots, L
  <2>3. new \in Nat \X Nat /\ new[1] = L /\ new[2] = K + 1
    BY <1>1
  <2>4. ASSUME NEW s \in Nat \X Nat
        PROVE  s \in Spots(v) <=> s \in Spots(w) \/ s = new
    <3>1. CASE s[1] # L
      BY <1>3, <2>1, <2>2, <2>3, <3>1
    <3>2. CASE s[1] = L
      <4>1. s \in Spots(v) <=> s[2] \in 1..(K + 1)
        BY <1>1, <1>2, <1>3, <2>1, <3>2
      <4>2. s \in Spots(w) <=> s[2] \in 1..K
        BY <1>1, <2>2, <3>2 DEF K
      <4>3. s = new <=> s[2] = K + 1
        BY <2>3, <3>2
      <4>4. s[2] \in 1..(K + 1) <=> s[2] \in 1..K \/ s[2] = K + 1
        BY <1>1
      <4> QED BY <4>1, <4>2, <4>3, <4>4
    <3> QED BY <3>1, <3>2
  <2>5. new \notin Spots(w)
    BY <1>1, <2>2, <2>3 DEF K
  <2>6. Spots(v) \subseteq Nat \X Nat /\ Spots(w) \subseteq Nat \X Nat
    BY DEF Spots
  <2> HIDE DEF new
  <2> QED BY <2>3, <2>4, <2>5, <2>6
<1>6. At(v, new) = x
  BY <1>2, <1>3 DEF At
<1>7. ASSUME NEW s \in Spots(w) PROVE At(v, s) = At(w, s) /\ Precedes(s, new) /\ ~Precedes(new, s)
  <2>1. s \in Nat \X Nat /\ s[1] \in 1..L /\ s[2] \in 1..Len(w[s[1]])
    BY DEF Spots, L
  <2>2. CASE s[1] # L
    BY <1>1, <1>3, <2>1, <2>2 DEF At, Precedes
  <2>3. CASE s[1] = L
    <3>1. s[2] \in 1..K
      <4>1. Len(w[s[1]]) = K
        BY <2>3 DEF K
      <4>2. s[2] \in 1..Len(w[s[1]])
        BY <2>1
      <4> HIDE DEF K
      <4> QED BY <4>1, <4>2, Zenon
    <3>2. At(v, s) = At(w, s)
      <4>1. v[s[1]][s[2]] = Append(w[L], x)[s[2]]
        BY <1>3, <2>3, Zenon
      <4>2. w[s[1]][s[2]] = w[L][s[2]]
        BY <2>3, Zenon
      <4>3. Append(w[L], x)[s[2]] = w[L][s[2]]
        BY <1>2, <3>1, Zenon
      <4> QED BY <4>1, <4>2, <4>3, Zenon DEF At
    <3>3. Precedes(s, new) /\ ~Precedes(new, s)
      BY <1>1, <2>3, <3>1 DEF Precedes
    <3> QED BY <3>2, <3>3
  <2> QED BY <2>2, <2>3
<1>8. ~Precedes(new, new)
  BY <1>1 DEF Precedes
<1> QED BY <1>1, <1>3, <1>4, <1>5, <1>6, <1>7, <1>8 DEF L, K, Puts

\* v is w with a connection more, which carries g.
Opens(V, w, g, v) ==
  LET new == {<<Len(w) + 1, i>> : i \in 1..Len(g)}
  IN  /\ v \in Seq(Seq(V)) /\ v # <<>> /\ Len(v) = Len(w) + 1 /\ Len(w) \in Nat
      /\ \A c \in 1..Len(w) : v[c] = w[c]
      /\ v[Len(w) + 1] = g
      /\ Spots(v) = Spots(w) \union new
      /\ \A i \in 1..Len(g) : At(v, <<Len(w) + 1, i>>) = g[i]
      /\ \A s \in Spots(w) : At(v, s) = At(w, s)
      /\ \A s \in Spots(w) : \A i \in 1..Len(g) :
           Precedes(s, <<Len(w) + 1, i>>) /\ ~Precedes(<<Len(w) + 1, i>>, s)
      /\ \A i, j \in 1..Len(g) : Precedes(<<Len(w) + 1, i>>, <<Len(w) + 1, j>>) <=> i < j

\* A connection is opened, and what is to go first is written to it.
LEMMA OpenSpots ==
  ASSUME NEW V, NEW w \in Seq(Seq(V)), NEW g \in Seq(V), NEW v, v = Append(w, g)
  PROVE  Opens(V, w, g, v)
<1> DEFINE L == Len(w)
           new == {<<L + 1, i>> : i \in 1..Len(g)}
<1>1. /\ v \in Seq(Seq(V)) /\ v # <<>> /\ Len(v) = L + 1 /\ L \in Nat
      /\ \A c \in 1..L : v[c] = w[c]
      /\ v[L + 1] = g
  BY AppendProperties, LenProperties
<1>2. Len(g) \in Nat
  BY LenProperties
<1>3. /\ \A c \in 1..(L + 1) : c \in 1..L \/ c = L + 1
      /\ \A c \in 1..L : c \in 1..(L + 1) /\ c # L + 1 /\ c < L + 1
      /\ L + 1 \in 1..(L + 1)
  BY <1>1
<1>4. ASSUME NEW s \in Spots(w)
      PROVE  /\ s \in Nat \X Nat /\ s[1] \in 1..L /\ s[2] \in 1..Len(w[s[1]])
             /\ s \in Spots(v) /\ At(v, s) = At(w, s)
             /\ \A i \in 1..Len(g) : Precedes(s, <<L + 1, i>>) /\ ~Precedes(<<L + 1, i>>, s)
  <2>1. s \in Nat \X Nat /\ s[1] \in 1..L /\ s[2] \in 1..Len(w[s[1]])
    BY DEF Spots
  <2>2. v[s[1]] = w[s[1]] /\ s[1] \in 1..(L + 1)
    BY <1>1, <1>3, <2>1
  <2>3. s \in Spots(v) /\ At(v, s) = At(w, s)
    BY <1>1, <2>1, <2>2 DEF Spots, At
  <2>4. \A i \in 1..Len(g) : Precedes(s, <<L + 1, i>>) /\ ~Precedes(<<L + 1, i>>, s)
    BY <1>1, <2>1 DEF Precedes
  <2> QED BY <2>1, <2>3, <2>4
<1>5. ASSUME NEW i \in 1..Len(g)
      PROVE  <<L + 1, i>> \in Spots(v) /\ At(v, <<L + 1, i>>) = g[i]
  <2>1. <<L + 1, i>> \in Nat \X Nat
    BY <1>1, <1>2
  <2> QED BY <1>1, <1>3, <2>1 DEF Spots, At
<1>6. ASSUME NEW s \in Spots(v) PROVE s \in Spots(w) \/ s \in new
  <2>1. s \in Nat \X Nat /\ s[1] \in 1..(L + 1) /\ s[2] \in 1..Len(v[s[1]])
    BY <1>1 DEF Spots
  <2>2. CASE s[1] \in 1..L
    BY <1>1, <2>1, <2>2 DEF Spots
  <2>3. CASE s[1] = L + 1
    <3>1. s[2] \in 1..Len(g) /\ s = <<L + 1, s[2]>>
      BY <1>1, <2>1, <2>3
    <3> QED BY <3>1
  <2> QED BY <1>3, <2>1, <2>2, <2>3
<1>7. Spots(v) = Spots(w) \union new
  BY <1>4, <1>5, <1>6
<1>8. \A i, j \in 1..Len(g) : Precedes(<<L + 1, i>>, <<L + 1, j>>) <=> i < j
  BY <1>1 DEF Precedes
<1> QED BY <1>1, <1>4, <1>5, <1>7, <1>8 DEF Opens

\* A line is given and written: it is the last one, and known as a part.
LEMMA WritesLine ==
  ASSUME NEW t \in Seq(Lines), TakenOnce(t), NEW line \in Lines,
         line = {Initialize} <=> t = <<>>, \A i \in 1..Len(t) : t[i] # line,
         NEW w, Wired(t, w), InWireOrder(t, w)
  PROVE  LET u == Append(t, line) v == [w EXCEPT ![Len(w)] = Append(@, line)]
         IN  Wired(u, v) /\ InWireOrder(u, v)
<1> DEFINE V == SUBSET (Messages \union {Preamble})
           u == Append(t, line)
           v == [w EXCEPT ![Len(w)] = Append(@, line)]
           new == <<Len(w), Len(w[Len(w)]) + 1>>
<1>1. w \in Seq(Seq(V)) /\ w # <<>> /\ line \in V /\ line # {}
  BY LinesHoldMessages DEF Wired
<1>2. /\ v \in Seq(Seq(V)) /\ v # <<>> /\ Len(v) = Len(w) /\ Len(w) \in 1..Len(w)
      /\ \A c \in 1..Len(w) : c # Len(w) => v[c] = w[c]
      /\ v[Len(w)] = Append(w[Len(w)], line)
      /\ Spots(v) = Spots(w) \union {new}
      /\ At(v, new) = line /\ \A s \in Spots(w) : At(v, s) = At(w, s)
      /\ \A s \in Spots(w) : Precedes(s, new) /\ ~Precedes(new, s)
      /\ ~Precedes(new, new)
  <2>1. v = [w EXCEPT ![Len(w)] = Append(@, line)]
    BY DEF v
  <2> HIDE DEF V, v
  <2>2. Puts(V, w, line, v)
    BY <1>1, <2>1, WriteSpots
  <2> QED BY <2>2 DEF Puts
<1>3. /\ \A l : IsPart(t, l) => IsPart(u, l)
      /\ \A l, m : IsPart(t, l) /\ IsPart(t, m) /\ Before(t, l, m) => Before(u, l, m)
      /\ IsPart(u, line)
      /\ \A l : IsPart(t, l) => Before(u, l, line)
  BY <1>1, LaterLine
<1>4. w[Len(w)] \in Seq(V) /\ Len(w[Len(w)]) \in Nat
  BY <1>1, <1>2, ElementOfSeq, LenProperties
<1>5. CodeMode => \A c \in 1..Len(v) : v[c] # <<>>
  <2> HIDE DEF V, v
  <2>1. v[Len(w)] # <<>>
    <3>1. Append(w[Len(w)], line) # <<>>
      BY <1>1, <1>4, AppendProperties
    <3> QED BY <1>2, <3>1
  <2> QED BY <1>2, <2>1 DEF Wired
<1>6. CodeMode => new[2] # 1
  <2>1. CodeMode => w[Len(w)] # <<>>
    BY <1>2 DEF Wired
  <2>2. CodeMode => Len(w[Len(w)]) # 0
    BY <1>4, <2>1, EmptySeq
  <2> QED BY <1>4, <2>2
<1> HIDE DEF V, u, v, new
<1>7. \A s \in Spots(v) :
        IF CodeMode /\ s[2] = 1 THEN At(v, s) = {Preamble} ELSE IsPart(u, At(v, s))
  BY <1>2, <1>3, <1>6 DEF Wired
<1>8. Wired(u, v)
  BY <1>2, <1>5, <1>7 DEF Wired, V
<1>9. \A s \in Spots(w) : Payload(At(w, s)) => IsPart(t, At(w, s))
  <2>1. ~Payload({Preamble})
    BY BridgeAssumption DEF Payload
  <2> QED BY <2>1 DEF Wired
<1>10. ASSUME NEW p \in Spots(v), NEW s \in Spots(v), Precedes(p, s),
              Payload(At(v, p)), Payload(At(v, s))
       PROVE  Before(u, At(v, p), At(v, s))
  <2>1. p \in Spots(w)
    BY <1>2, <1>10
  <2>2. At(v, p) = At(w, p) /\ IsPart(t, At(w, p))
    BY <1>2, <1>9, <1>10, <2>1
  <2>3. CASE s = new
    BY <1>2, <1>3, <2>2, <2>3
  <2>4. CASE s \in Spots(w)
    <3>1. At(v, s) = At(w, s) /\ IsPart(t, At(w, s))
      BY <1>2, <1>9, <1>10, <2>4
    <3>2. Before(t, At(w, p), At(w, s))
      BY <1>10, <2>1, <2>2, <2>4, <3>1 DEF InWireOrder
    <3> QED BY <1>3, <2>2, <3>1, <3>2
  <2> QED BY <1>2, <2>3, <2>4
<1> QED BY <1>8, <1>10 DEF InWireOrder, u, v

\* After base lines that are no payload, g has lines of the queue q, in its order.
Flushes(g, base, q, f, h) ==
  /\ base \in Nat /\ Len(f) \in Nat /\ Len(g) = base + Len(f)
  /\ \A i \in 1..base : ~Payload(g[i])
  /\ \A i \in 1..Len(f) : g[base + i] = q[h[i]] /\ h[i] \in 1..Len(q)
  /\ \A i, j \in 1..Len(f) : i < j => h[i] < h[j]

\* The queue is written to a new connection, after lines that are no payload.
LEMMA FlushInOrder ==
  ASSUME NEW t, NEW V, NEW w \in Seq(Seq(V)), NEW g \in Seq(V), NEW v, v = Append(w, g),
         NEW q, NEW f, NEW h, NEW base, Flushes(g, base, q, f, h),
         InQueueOrder(t, q), InWireOrder(t, w), WireFirst(t, w, q)
  PROVE  InWireOrder(t, v)
<1> DEFINE L == Len(w)
           new(i) == <<L + 1, i>>
<1>0. /\ base \in Nat /\ Len(f) \in Nat /\ Len(g) = base + Len(f)
      /\ \A i \in 1..base : ~Payload(g[i])
      /\ \A i \in 1..Len(f) : g[base + i] = q[h[i]] /\ h[i] \in 1..Len(q)
      /\ \A i, j \in 1..Len(f) : i < j => h[i] < h[j]
  BY DEF Flushes
<1>1. /\ Spots(v) = Spots(w) \union {new(i) : i \in 1..Len(g)}
      /\ \A i \in 1..Len(g) : At(v, new(i)) = g[i]
      /\ \A s \in Spots(w) : At(v, s) = At(w, s)
      /\ \A s \in Spots(w) : \A i \in 1..Len(g) : ~Precedes(new(i), s)
      /\ \A i, j \in 1..Len(g) : Precedes(new(i), new(j)) <=> i < j
  <2>1. Opens(V, w, g, v)
    BY OpenSpots
  <2> QED BY <2>1 DEF Opens
<1>2. ASSUME NEW i \in 1..Len(g), Payload(g[i])
      PROVE  i - base \in 1..Len(f) /\ g[i] = q[h[i - base]] /\ h[i - base] \in 1..Len(q)
  <2>1. i - base \in 1..Len(f) /\ base + (i - base) = i
    <3>1. i \notin 1..base
      BY <1>0, <1>2
    <3> QED BY <1>0, <3>1
  <2> QED BY <1>0, <2>1
<1> SUFFICES ASSUME NEW p \in Spots(v), NEW s \in Spots(v), Precedes(p, s),
                    Payload(At(v, p)), Payload(At(v, s))
             PROVE  Before(t, At(v, p), At(v, s))
  BY DEF InWireOrder
<1> HIDE DEF L, new
<1>3. CASE p \in Spots(w) /\ s \in Spots(w)
  BY <1>1, <1>3 DEF InWireOrder
<1>4. CASE p \in Spots(w) /\ s \notin Spots(w)
  <2>1. PICK i \in 1..Len(g) : s = new(i)
    BY <1>1, <1>4
  <2>2. At(v, s) = g[i] /\ At(v, p) = At(w, p)
    BY <1>1, <1>4, <2>1
  <2>3. g[i] = q[h[i - base]] /\ h[i - base] \in 1..Len(q)
    BY <1>2, <2>2
  <2> QED BY <1>4, <2>2, <2>3 DEF WireFirst
<1>5. CASE p \notin Spots(w)
  <2>1. PICK i \in 1..Len(g) : p = new(i)
    BY <1>1, <1>5
  <2>2. PICK j \in 1..Len(g) : s = new(j)
    BY <1>1, <2>1
  <2>3. i < j /\ At(v, p) = g[i] /\ At(v, s) = g[j]
    BY <1>1, <2>1, <2>2
  <2>4. /\ i - base \in 1..Len(f) /\ g[i] = q[h[i - base]] /\ h[i - base] \in 1..Len(q)
        /\ j - base \in 1..Len(f) /\ g[j] = q[h[j - base]] /\ h[j - base] \in 1..Len(q)
    BY <1>2, <2>3
  <2>5. i - base < j - base
    BY <1>0, <2>3
  <2>6. h[i - base] < h[j - base]
    BY <1>0, <2>4, <2>5
  <2> QED BY <2>3, <2>4, <2>6 DEF InQueueOrder
<1> QED BY <1>3, <1>4, <1>5
-----------------------------------------------------------------------------
(* What a new connection is greeted with.                                  *)

\* The replay is the handshake as far as it is known, each line once.
LEMMA ReplayIs ==
  ASSUME TypeOK, Booked, TakenOnce(taken)
  PROVE  /\ Replay \in Seq(SUBSET Messages) /\ Len(Replay) \in Nat
         /\ \A i \in 1..Len(Replay) : \E m \in captured : Replay[i] = {m}
         /\ \A m \in captured : \E i \in 1..Len(Replay) : Replay[i] = {m}
         /\ \A i, j \in 1..Len(Replay) : Replay[i] = Replay[j] => i = j
         /\ Replay # <<>> => 1 \in 1..Len(Replay) /\ Replay[1] = {Initialize}
<1> DEFINE a == {Initialize}
           z == {Initialized}
<1>1. captured \subseteq Handshake /\ a # z /\ a \in SUBSET Messages /\ z \in SUBSET Messages
  BY BridgeAssumption DEF TypeOK, Messages, Handshake
<1>2. CASE captured = {}
  <2>1. Replay = <<>>
    BY <1>2 DEF Replay
  <2> QED BY <1>2, <2>1
<1>3. CASE captured # {} /\ Initialized \notin captured
  <2>1. captured = {Initialize}
    BY <1>1, <1>3, InitializeFirst DEF Handshake
  <2>2. Replay = <<a>>
    BY <1>3, <2>1 DEF Replay
  <2> HIDE DEF a
  <2>3. Len(Replay) = 1 /\ Replay[1] = a /\ Replay \in Seq(SUBSET Messages)
    BY <1>1, <2>2
  <2>4. \A i \in 1..Len(Replay) : i = 1
    BY <2>3
  <2>5. 1 \in 1..Len(Replay)
    BY <2>3
  <2> QED BY <2>1, <2>3, <2>4, <2>5 DEF a
<1>4. CASE Initialized \in captured
  <2>1. captured = {Initialize, Initialized}
    BY <1>1, <1>4, InitializeFirst DEF Handshake
  <2>2. Replay = <<a>> \o <<z>>
    BY <2>1 DEF Replay
  <2> HIDE DEF a, z
  <2>3. Len(Replay) = 2 /\ Replay[1] = a /\ Replay[2] = z /\ Replay \in Seq(SUBSET Messages)
    BY <1>1, <2>2
  <2>4. \A i \in 1..Len(Replay) : i = 1 \/ i = 2
    BY <2>3
  <2>5. 1 \in 1..Len(Replay) /\ 2 \in 1..Len(Replay)
    BY <2>3
  <2>6. \A i, j \in 1..Len(Replay) : Replay[i] = Replay[j] => i = j
    BY <1>1, <2>3, <2>4
  <2>7. \A i \in 1..Len(Replay) : \E m \in captured : Replay[i] = {m}
    BY <2>1, <2>3, <2>4 DEF a, z
  <2>8. \A m \in captured : \E i \in 1..Len(Replay) : Replay[i] = {m}
    BY <2>1, <2>3, <2>5 DEF a, z
  <2> QED BY <2>3, <2>5, <2>6, <2>7, <2>8 DEF a
<1> QED BY <1>2, <1>3, <1>4

\* What is flushed of the queue is payload: the handshake in it is replayed.
LEMMA FlushedPayload ==
  ASSUME OrderInv, NEW h, Selects(h, Flushed, Len(pending))
  PROVE  \A i \in 1..Len(Flushed) : IsPart(taken, Flushed[i]) /\ Payload(Flushed[i])
<1> SUFFICES ASSUME NEW i \in 1..Len(Flushed)
             PROVE  IsPart(taken, Flushed[i]) /\ Payload(Flushed[i])
  OBVIOUS
<1> DEFINE l == Flushed[i]
<1>1. TypeOK /\ Booked /\ TakenOnce(taken) /\ InQueueOrder(taken, pending)
  BY DEF OrderInv, IInv
<1>2. h[i] \in 1..Len(pending) /\ l = pending[h[i]] /\ Fresh(l)
  BY DEF Selects
<1> HIDE DEF l
<1>3. IsPart(taken, l)
  BY <1>1, <1>2 DEF Fresh, InQueueOrder
<1>4. l \intersect Handshake = {}
  <2> SUFFICES ASSUME l \intersect Handshake # {} PROVE FALSE
    OBVIOUS
  <2>1. PICK m \in captured : l = {m}
    BY <1>1, <1>3, PartHandshake
  <2>2. \E j \in 1..Len(Replay) : Replay[j] = {m}
    BY <1>1, ReplayIs
  <2> QED BY <1>2, <2>1, <2>2 DEF Fresh
<1> QED BY <1>1, <1>3, <1>4, PartPayload DEF l

\* The lines of a new connection: the preamble, the replay, the queue.
LEMMA GreetLines ==
  ASSUME OrderInv, NEW g, g = Opening \o Greeting
  PROVE  LET a == Len(Opening) b == Len(Opening) + Len(Replay)
         IN  /\ g \in Seq(SUBSET (Messages \union {Preamble}))
             /\ a = (IF CodeMode THEN 1 ELSE 0) /\ b \in Nat /\ Len(Replay) \in Nat
             /\ Len(Flushed) \in Nat /\ Len(g) = b + Len(Flushed)
             /\ CodeMode => g[1] = {Preamble}
             /\ \A i \in 1..Len(Replay) : g[a + i] = Replay[i]
             /\ \A i \in 1..Len(Flushed) : g[b + i] = Flushed[i]
             /\ \A n \in 1..Len(g) :
                  \/ CodeMode /\ n = 1
                  \/ \E i \in 1..Len(Replay) : n = a + i
                  \/ \E i \in 1..Len(Flushed) : n = b + i
<1> DEFINE V == SUBSET (Messages \union {Preamble})
           a == Len(Opening)
           b == a + Len(Replay)
<1>1. TypeOK /\ Booked /\ TakenOnce(taken)
  BY DEF OrderInv, IInv
<1>2. Replay \in Seq(SUBSET Messages) /\ Flushed \in Seq(SUBSET Messages)
  BY <1>1, ReplayIs, FlushedFresh
<1>3. Seq(SUBSET Messages) \subseteq Seq(V)
  OBVIOUS
<1>4. Opening \in Seq(V) /\ a = (IF CodeMode THEN 1 ELSE 0) /\ (CodeMode => Opening[1] = {Preamble})
  <2>1. CASE CodeMode
    <3>1. Opening = <<{Preamble}>>
      BY <2>1 DEF Opening
    <3> QED BY <2>1, <3>1
  <2>2. CASE ~CodeMode
    <3>1. Opening = <<>>
      BY <2>2 DEF Opening
    <3> QED BY <2>2, <3>1
  <2> QED BY <2>1, <2>2
<1>5. Len(Replay) \in Nat /\ Len(Flushed) \in Nat /\ a \in Nat /\ b \in Nat
  BY <1>2, <1>4, LenProperties
<1>6. /\ Greeting \in Seq(V) /\ Len(Greeting) = Len(Replay) + Len(Flushed)
      /\ \A i \in 1..(Len(Replay) + Len(Flushed)) :
           Greeting[i] = IF i <= Len(Replay) THEN Replay[i] ELSE Flushed[i - Len(Replay)]
  <2>1. Replay \in Seq(V) /\ Flushed \in Seq(V)
    BY <1>2, <1>3
  <2> HIDE DEF V
  <2> QED BY <2>1, ConcatProperties DEF Greeting
<1>7. /\ g \in Seq(V) /\ Len(g) = a + Len(Greeting)
      /\ \A i \in 1..(a + Len(Greeting)) :
           g[i] = IF i <= a THEN Opening[i] ELSE Greeting[i - a]
  <2>1. Opening \in Seq(V) /\ Greeting \in Seq(V)
    BY <1>4, <1>6
  <2> HIDE DEF V
  <2>2. /\ Opening \o Greeting \in Seq(V)
        /\ Len(Opening \o Greeting) = Len(Opening) + Len(Greeting)
        /\ \A i \in 1..(Len(Opening) + Len(Greeting)) :
             (Opening \o Greeting)[i] = IF i <= Len(Opening) THEN Opening[i]
                                        ELSE Greeting[i - Len(Opening)]
    BY <2>1, ConcatProperties
  <2> QED BY <2>2, Zenon
<1> HIDE DEF V, a
<1>8. Len(g) = b + Len(Flushed)
  BY <1>5, <1>6, <1>7
<1>9. CodeMode => g[1] = {Preamble}
  <2> SUFFICES ASSUME CodeMode PROVE g[1] = {Preamble}
    OBVIOUS
  <2>1. a = 1 /\ 1 \in 1..(a + Len(Greeting)) /\ 1 <= a
    BY <1>4, <1>5, <1>6
  <2> QED BY <1>4, <1>7, <2>1
<1>10. ASSUME NEW i \in 1..Len(Replay) PROVE g[a + i] = Replay[i]
  <2>1. a + i \in 1..(a + Len(Greeting)) /\ ~(a + i <= a) /\ (a + i) - a = i
    BY <1>5, <1>6
  <2>2. i \in 1..(Len(Replay) + Len(Flushed)) /\ i <= Len(Replay)
    BY <1>5
  <2> QED BY <1>6, <1>7, <2>1, <2>2
<1>11. ASSUME NEW i \in 1..Len(Flushed) PROVE g[b + i] = Flushed[i]
  <2> DEFINE k == Len(Replay) + i
  <2>1. b + i \in 1..(a + Len(Greeting)) /\ ~(b + i <= a) /\ (b + i) - a = k
    BY <1>5, <1>6
  <2>2. k \in 1..(Len(Replay) + Len(Flushed)) /\ ~(k <= Len(Replay)) /\ k - Len(Replay) = i
    BY <1>5
  <2> HIDE DEF k, b
  <2>3. g[b + i] = Greeting[k]
    BY <1>7, <2>1
  <2>4. Greeting[k] = Flushed[i]
    BY <1>6, <2>2
  <2> QED BY <2>3, <2>4
<1>12. ASSUME NEW n \in 1..Len(g)
       PROVE  \/ CodeMode /\ n = 1
              \/ \E i \in 1..Len(Replay) : n = a + i
              \/ \E i \in 1..Len(Flushed) : n = b + i
  <2>1. n \in Nat /\ n >= 1 /\ n <= b + Len(Flushed)
    BY <1>5, <1>8
  <2>2. CASE n <= a
    BY <1>4, <2>1, <2>2
  <2>3. CASE n > a /\ n <= b
    <3>1. n - a \in 1..Len(Replay) /\ n = a + (n - a)
      BY <1>5, <2>1, <2>3
    <3> QED BY <3>1
  <2>4. CASE n > b
    <3>1. n - b \in 1..Len(Flushed) /\ n = b + (n - b)
      BY <1>5, <2>1, <2>4
    <3> QED BY <3>1
  <2> QED BY <1>5, <2>1, <2>2, <2>3, <2>4
<1> QED BY <1>4, <1>5, <1>7, <1>8, <1>9, <1>10, <1>11, <1>12 DEF V, a

\* A new connection is greeted: the preamble first, then the handshake, each line
\* of it once, all of it that is known.
LEMMA GreetedNew ==
  ASSUME OrderInv, NEW g, g = Opening \o Greeting
  PROVE  Greeted(g) /\ \A m \in captured : \E i \in 1..Len(g) : g[i] = {m}
<1> DEFINE a == Len(Opening)
           b == Len(Opening) + Len(Replay)
<1>1. TypeOK /\ Booked /\ TakenOnce(taken)
  BY DEF OrderInv, IInv
<1>2. PICK h : Selects(h, Flushed, Len(pending))
  BY <1>1, FlushedFresh
<1>3. /\ a = (IF CodeMode THEN 1 ELSE 0) /\ b \in Nat /\ Len(Replay) \in Nat /\ b = a + Len(Replay)
      /\ Len(Flushed) \in Nat /\ Len(g) = b + Len(Flushed)
      /\ CodeMode => g[1] = {Preamble}
      /\ \A i \in 1..Len(Replay) : g[a + i] = Replay[i]
      /\ \A i \in 1..Len(Flushed) : g[b + i] = Flushed[i]
      /\ \A n \in 1..Len(g) :
           \/ CodeMode /\ n = 1
           \/ \E i \in 1..Len(Replay) : n = a + i
           \/ \E i \in 1..Len(Flushed) : n = b + i
  BY GreetLines
<1>4. /\ Replay \in Seq(SUBSET Messages)
      /\ \A i \in 1..Len(Replay) : \E m \in captured : Replay[i] = {m}
      /\ \A m \in captured : \E i \in 1..Len(Replay) : Replay[i] = {m}
      /\ \A i, j \in 1..Len(Replay) : Replay[i] = Replay[j] => i = j
      /\ Replay # <<>> => 1 \in 1..Len(Replay) /\ Replay[1] = {Initialize}
  BY <1>1, ReplayIs
<1>5. \A i \in 1..Len(Flushed) :
        /\ Flushed[i] # {Preamble} /\ Flushed[i] # {} /\ Flushed[i] \intersect Handshake = {}
        /\ IsPart(taken, Flushed[i])
  <2>1. \A i \in 1..Len(Flushed) : IsPart(taken, Flushed[i]) /\ Payload(Flushed[i])
    BY <1>2, FlushedPayload
  <2> QED BY <1>1, <2>1, PartPayload
<1>6. captured \subseteq Handshake /\ Preamble \notin Handshake
  BY <1>1, BridgeAssumption DEF TypeOK
<1> HIDE DEF a, b
<1>7. ASSUME NEW n \in 1..Len(g)
      PROVE  \/ CodeMode /\ n = 1 /\ g[n] = {Preamble}
             \/ \E i \in 1..Len(Replay) : n = a + i /\ g[n] = Replay[i] /\ ~(CodeMode /\ n = 1)
             \/ \E i \in 1..Len(Flushed) : n = b + i /\ g[n] = Flushed[i] /\ ~(CodeMode /\ n = 1)
  <2>1. CASE CodeMode /\ n = 1
    BY <1>3, <2>1
  <2>2. ASSUME NEW i \in 1..Len(Replay), n = a + i, ~(CodeMode /\ n = 1)
        PROVE  n = a + i /\ g[n] = Replay[i] /\ ~(CodeMode /\ n = 1)
    BY <1>3, <2>2
  <2>3. ASSUME NEW i \in 1..Len(Flushed), n = b + i, ~(CodeMode /\ n = 1)
        PROVE  n = b + i /\ g[n] = Flushed[i] /\ ~(CodeMode /\ n = 1)
    BY <1>3, <2>3
  <2>4. \/ CodeMode /\ n = 1
        \/ \E i \in 1..Len(Replay) : n = a + i
        \/ \E i \in 1..Len(Flushed) : n = b + i
    BY <1>3
  <2> QED BY <2>1, <2>2, <2>3, <2>4
<1>8. \A n \in 1..Len(g) : g[n] = {Preamble} <=> CodeMode /\ n = 1
  <2>1. ASSUME NEW i \in 1..Len(Replay) PROVE Replay[i] # {Preamble}
    <3>1. PICK m \in captured : Replay[i] = {m}
      BY <1>4
    <3>2. m # Preamble
      BY <1>6
    <3> QED BY <3>1, <3>2
  <2>2. ASSUME NEW n \in 1..Len(g) PROVE g[n] = {Preamble} <=> CodeMode /\ n = 1
    <3>1. CASE CodeMode /\ n = 1
      BY <1>3, <3>1
    <3>2. CASE ~(CodeMode /\ n = 1)
      <4>1. \/ \E i \in 1..Len(Replay) : g[n] = Replay[i]
            \/ \E i \in 1..Len(Flushed) : g[n] = Flushed[i]
        BY <1>7, <3>2
      <4>2. g[n] # {Preamble}
        BY <1>5, <2>1, <4>1
      <4> QED BY <3>2, <4>2
    <3> QED BY <3>1, <3>2
  <2> QED BY <2>2
<1>9. CodeMode => g # <<>>
  <2> SUFFICES ASSUME CodeMode PROVE g # <<>>
    OBVIOUS
  <2>1. Len(g) # 0
    BY <1>3
  <2> QED BY <2>1
<1>10. ASSUME NEW n \in 1..Len(g), NEW m \in 1..Len(g), g[n] \subseteq Handshake, g[n] = g[m]
       PROVE  n = m
  <2>1. ASSUME NEW k \in 1..Len(g), g[k] \subseteq Handshake
        PROVE  \E i \in 1..Len(Replay) : k = a + i /\ g[k] = Replay[i]
    <3>1. g[k] # {Preamble}
      BY <1>6, <2>1
    <3>2. \A i \in 1..Len(Flushed) : g[k] # Flushed[i]
      <4>1. ASSUME NEW i \in 1..Len(Flushed) PROVE ~(Flushed[i] \subseteq Handshake)
        BY <1>5
      <4> QED BY <2>1, <4>1
    <3>3. \/ CodeMode /\ k = 1 /\ g[k] = {Preamble}
          \/ \E i \in 1..Len(Replay) : k = a + i /\ g[k] = Replay[i]
          \/ \E i \in 1..Len(Flushed) : g[k] = Flushed[i]
      <4>1. CASE CodeMode /\ k = 1 /\ g[k] = {Preamble}
        BY <4>1
      <4>2. CASE \E i \in 1..Len(Replay) : k = a + i /\ g[k] = Replay[i] /\ ~(CodeMode /\ k = 1)
        BY <4>2
      <4>3. CASE \E i \in 1..Len(Flushed) : k = b + i /\ g[k] = Flushed[i] /\ ~(CodeMode /\ k = 1)
        BY <4>3
      <4> QED BY <1>7, <4>1, <4>2, <4>3
    <3> QED BY <3>1, <3>2, <3>3, Zenon
  <2>2. PICK i \in 1..Len(Replay) : n = a + i /\ g[n] = Replay[i]
    BY <1>10, <2>1
  <2>3. PICK j \in 1..Len(Replay) : m = a + j /\ g[m] = Replay[j]
    BY <1>10, <2>1
  <2>4. Replay[i] = Replay[j]
    BY <1>10, <2>2, <2>3
  <2>5. i = j
    BY <1>4, <2>4
  <2> QED BY <2>2, <2>3, <2>5
<1>11. ASSUME NEW n \in 1..Len(g), g[n] # {Preamble}, g[n] # {Initialize}
       PROVE  \E j \in 1..n : g[j] = {Initialize}
  <2>1. captured # {}
    <3>1. CASE \E i \in 1..Len(Replay) : n = a + i /\ g[n] = Replay[i]
      BY <1>4, <3>1
    <3>2. CASE \E i \in 1..Len(Flushed) : n = b + i /\ g[n] = Flushed[i]
      <4>1. IsPart(taken, g[n])
        BY <1>5, <3>2
      <4>2. taken # <<>>
        <5>1. Len(<<>>) = 0 /\ 1..0 = {}
          OBVIOUS
        <5> QED BY <4>1, <5>1 DEF IsPart
      <4> QED BY <1>1, <4>2, InitializeFirst
    <3> QED BY <1>7, <1>11, <3>1, <3>2
  <2>2. Replay # <<>>
    <3>1. PICK m \in captured, i \in 1..Len(Replay) : Replay[i] = {m}
      BY <1>4, <2>1
    <3>2. Len(<<>>) = 0 /\ 1..0 = {}
      OBVIOUS
    <3> QED BY <3>1, <3>2
  <2>3. 1 \in 1..Len(Replay) /\ g[a + 1] = {Initialize}
    BY <1>3, <1>4, <2>2
  <2>4. a \in Nat /\ n \in Nat /\ a + 1 <= n
    <3>1. a \in Nat /\ n \in Nat /\ n >= 1
      BY <1>3
    <3>2. CASE \E i \in 1..Len(Replay) : n = a + i
      BY <3>1, <3>2
    <3>3. CASE \E i \in 1..Len(Flushed) : n = b + i
      BY <1>3, <2>3, <3>1, <3>3
    <3> QED BY <1>7, <1>11, <3>1, <3>2, <3>3
  <2>5. a + 1 \in 1..n
    BY <2>4
  <2> QED BY <2>3, <2>5
<1>12. ASSUME NEW m \in captured PROVE \E i \in 1..Len(g) : g[i] = {m}
  <2>1. PICK i \in 1..Len(Replay) : Replay[i] = {m}
    BY <1>4
  <2>2. a + i \in 1..Len(g)
    BY <1>3
  <2> QED BY <1>3, <2>1, <2>2
<1> QED BY <1>8, <1>9, <1>10, <1>11, <1>12 DEF Greeted

\* What is on a connection: the preamble in its place, or a part of a line.
LEMMA ConnectionParts ==
  ASSUME OrderInv, NEW c \in 1..Len(wire), NEW i \in 1..Len(wire[c])
  PROVE  IF CodeMode /\ i = 1 THEN wire[c][i] = {Preamble} ELSE IsPart(taken, wire[c][i])
<1>1. Wired(taken, wire)
  BY DEF OrderInv
<1>2. wire[c] \in Seq(SUBSET (Messages \union {Preamble}))
  BY <1>1, ElementOfSeq DEF Wired
<1>3. <<c, i>> \in Nat \X Nat
  BY <1>1, <1>2, LenProperties DEF Wired
<1>4. <<c, i>> \in Spots(wire)
  BY <1>3 DEF Spots
<1> QED BY <1>1, <1>4 DEF Wired, At

\* A line that is forwarded leaves its connection greeted.
LEMMA GreetedStill ==
  ASSUME OrderInv, sockUp, NEW line \in Lines, Take(line), NEW w, w = wire[Len(wire)]
  PROVE  /\ Greeted(Append(w, line))
         /\ \A m \in captured' : \E i \in 1..Len(Append(w, line)) : Append(w, line)[i] = {m}
<1> DEFINE v == Append(w, line)
           K == Len(w)
<1>1. /\ TypeOK /\ Booked /\ TakenOnce(taken) /\ Wired(taken, wire) /\ WiresGreeted
      /\ line \subseteq Messages /\ line # {}
  BY LinesHoldMessages DEF OrderInv, IInv
<1>2. Len(wire) \in 1..Len(wire)
  <2>1. Len(wire) \in Nat /\ Len(wire) # 0
    BY <1>1, LenProperties, EmptySeq DEF Wired
  <2> QED BY <2>1
<1>3. w \in Seq(SUBSET (Messages \union {Preamble})) /\ line \in SUBSET (Messages \union {Preamble})
  BY <1>1, <1>2, ElementOfSeq DEF Wired
<1>4. /\ K \in Nat /\ Len(v) = K + 1 /\ v[K + 1] = line
      /\ \A i \in 1..K : v[i] = w[i]
  BY <1>3, LenProperties, AppendProperties
<1> HIDE DEF v, K
<1>5. /\ \A i \in 1..Len(v) : i \in 1..K \/ i = K + 1
      /\ \A i \in 1..K : i \in 1..Len(v) /\ i # K + 1
      /\ K + 1 \in 1..Len(v)
  BY <1>4
<1>6. Greeted(w) /\ \A m \in captured : \E i \in 1..K : w[i] = {m}
  BY <1>1, <1>2 DEF WiresGreeted, K
<1>7. \A i \in 1..K : IF CodeMode /\ i = 1 THEN w[i] = {Preamble} ELSE IsPart(taken, w[i])
  BY <1>2, ConnectionParts DEF K
<1>8. Received \intersect line = {} /\ captured' = captured \union (line \intersect Handshake)
  BY <1>1, TakeAdds DEF Take
<1>9. line # {Preamble} /\ Preamble \notin Handshake
  BY <1>1, BridgeAssumption DEF Messages
<1>10. CodeMode => K + 1 # 1 /\ v # <<>>
  <2> SUFFICES ASSUME CodeMode PROVE K + 1 # 1 /\ v # <<>>
    OBVIOUS
  <2>1. w # <<>>
    BY <1>6 DEF Greeted
  <2>2. K # 0
    BY <1>3, <2>1, EmptySeq DEF K
  <2>3. Len(v) # 0 /\ Len(<<>>) = 0
    BY <1>4
  <2>4. v # <<>>
    BY <2>3
  <2> QED BY <1>4, <2>2, <2>4
<1>11. \A i \in 1..Len(v) : v[i] = {Preamble} <=> CodeMode /\ i = 1
  BY <1>4, <1>5, <1>6, <1>9, <1>10 DEF Greeted, K
<1>12. ASSUME NEW i \in 1..K, line \subseteq Handshake PROVE w[i] # line
  <2> SUFFICES ASSUME w[i] = line PROVE FALSE
    OBVIOUS
  <2>1. IsPart(taken, w[i])
    BY <1>7, <1>9
  <2>2. \E m \in captured : w[i] = {m}
    BY <1>1, <1>12, <2>1, PartHandshake
  <2> QED BY <1>1, <1>8, <2>2 DEF Booked
<1>13. ASSUME NEW i \in 1..Len(v), NEW j \in 1..Len(v), v[i] \subseteq Handshake, v[i] = v[j]
       PROVE  i = j
  <2>1. CASE i \in 1..K /\ j \in 1..K
    BY <1>4, <1>6, <1>13, <2>1 DEF Greeted, K
  <2>2. CASE i = K + 1 \/ j = K + 1
    BY <1>4, <1>5, <1>12, <1>13, <2>2
  <2> QED BY <1>5, <2>1, <2>2
<1>14. ASSUME NEW i \in 1..Len(v), v[i] # {Preamble}, v[i] # {Initialize}
       PROVE  \E j \in 1..i : v[j] = {Initialize}
  <2>1. CASE i \in 1..K
    <3>1. PICK j \in 1..i : w[j] = {Initialize}
      BY <1>4, <1>6, <1>14, <2>1 DEF Greeted, K
    <3>2. j \in 1..K
      BY <1>4, <2>1
    <3> QED BY <1>4, <3>1, <3>2
  <2>2. CASE i = K + 1
    <3>1. line # {Initialize}
      BY <1>4, <1>14, <2>2
    <3>2. taken # <<>>
      BY <3>1 DEF Take, MaySend
    <3>3. Initialize \in captured
      BY <1>1, <3>2, InitializeFirst
    <3>4. PICK j \in 1..K : w[j] = {Initialize}
      BY <1>6, <3>3
    <3>5. j \in 1..i
      BY <1>4, <2>2
    <3> QED BY <1>4, <3>4, <3>5
  <2> QED BY <1>5, <2>1, <2>2
<1>15. ASSUME NEW m \in captured' PROVE \E i \in 1..Len(v) : v[i] = {m}
  <2>1. CASE m \in captured
    BY <1>4, <1>5, <1>6, <2>1
  <2>2. CASE m \in line \intersect Handshake
    <3>1. \A b \in Batches : b \intersect Handshake = {}
      BY BridgeAssumption
    <3>2. line = {m}
      BY <2>2, <3>1 DEF Lines
    <3> QED BY <1>4, <1>5, <3>2
  <2> QED BY <1>8, <2>1, <2>2
<1> QED BY <1>10, <1>11, <1>13, <1>14, <1>15 DEF Greeted, v
-----------------------------------------------------------------------------
(* The order is kept by every step.                                        *)

\* A call or notification on a connection is part of a line of the client.
LEMMA WirePayload ==
  ASSUME NEW t, NEW w, Wired(t, w)
  PROVE  \A s \in Spots(w) : Payload(At(w, s)) => IsPart(t, At(w, s))
<1>1. ~Payload({Preamble})
  BY BridgeAssumption DEF Payload
<1> QED BY <1>1 DEF Wired

\* What was written is what is on some place of a connection.
On(w) == UNION {UNION {w[c][i] : i \in 1..Len(w[c])} : c \in 1..Len(w)}
LEMMA OnSpots ==
  ASSUME NEW V, NEW w \in Seq(Seq(V))
  PROVE  \A m : m \in On(w) <=> \E s \in Spots(w) : m \in At(w, s)
<1>1. \A c \in 1..Len(w) : Len(w) \in Nat /\ w[c] \in Seq(V) /\ Len(w[c]) \in Nat
  BY ElementOfSeq, LenProperties
<1>2. \A c \in 1..Len(w) : \A i \in 1..Len(w[c]) : <<c, i>> \in Nat \X Nat
  BY <1>1
<1>3. \A c \in 1..Len(w) : \A i \in 1..Len(w[c]) :
        <<c, i>> \in Spots(w) /\ At(w, <<c, i>>) = w[c][i]
  BY <1>2 DEF Spots, At
<1>4. \A s \in Spots(w) : s[1] \in 1..Len(w) /\ s[2] \in 1..Len(w[s[1]])
  BY DEF Spots
<1>5. \A m : m \in On(w) <=> \E c \in 1..Len(w) : \E i \in 1..Len(w[c]) : m \in w[c][i]
  BY DEF On
<1>6. ASSUME NEW m, m \in On(w) PROVE \E s \in Spots(w) : m \in At(w, s)
  <2>1. PICK c \in 1..Len(w) : \E i \in 1..Len(w[c]) : m \in w[c][i]
    BY <1>5, <1>6
  <2>2. PICK i \in 1..Len(w[c]) : m \in w[c][i]
    BY <2>1
  <2>3. <<c, i>> \in Spots(w) /\ m \in At(w, <<c, i>>)
    BY <1>3, <2>2
  <2> QED BY <2>3
<1>7. ASSUME NEW m, NEW s \in Spots(w), m \in At(w, s) PROVE m \in On(w)
  BY <1>4, <1>5, <1>7 DEF At
<1> QED BY <1>6, <1>7

LEMMA WrittenOn == Written = On(wire)
BY DEF Written, On

\* Nothing is written, and what the queue loses is no notification, or given up.
LEMMA NothingWritten ==
  ASSUME OrderInv, IInv', wire' = wire,
         TakenOnce(taken'), Wired(taken', wire), InQueueOrder(taken', pending'),
         InWireOrder(taken', wire), WireFirst(taken', wire, pending'),
         sockUp' => sockUp /\ captured' = captured,
         Received' \intersect Notes \subseteq Received \union Queued' \union discarded',
         Queued \intersect Notes \subseteq Queued' \union discarded',
         discarded \subseteq discarded'
  PROVE  OrderInv'
<1>1. Written' = Written
  BY DEF Written
<1>2. NotesKept'
  BY <1>1 DEF OrderInv, NotesKept
<1>3. WiresGreeted'
  <2>1. WiresGreeted
    BY DEF OrderInv
  <2>2. \A c \in 1..Len(wire') : Greeted(wire'[c])
    BY <2>1 DEF WiresGreeted
  <2>3. sockUp' => \A m \in captured' : \E i \in 1..Len(wire[Len(wire)]) : wire[Len(wire)][i] = {m}
    BY <2>1 DEF WiresGreeted
  <2> QED BY <2>2, <2>3 DEF WiresGreeted
<1> QED BY <1>2, <1>3 DEF OrderInv

\* Steps that touch neither the queue nor a connection's lines.
LEMMA QuietOrder ==
  ASSUME OrderInv, IInv', wire' = wire, taken' = taken, pending' = pending,
         discarded' = discarded, sockUp' => sockUp, captured' = captured
  PROVE  OrderInv'
<1>1. Received' = Received /\ Queued' = Queued
  BY SameTaken, QueueSame
<1>2. /\ TakenOnce(taken') /\ Wired(taken', wire) /\ InQueueOrder(taken', pending')
      /\ InWireOrder(taken', wire) /\ WireFirst(taken', wire, pending')
  BY DEF OrderInv
<1> QED BY <1>1, <1>2, NothingWritten

\* Steps that end with a shutdown.
LEMMA ShutdownOrder ==
  ASSUME OrderInv, IInv', Shutdown, wire' = wire, taken' = taken, sockUp' => sockUp,
         captured' = captured
  PROVE  OrderInv'
<1>1. Received' = Received
  BY SameTaken
<1>2. pending' = <<>> /\ discarded' = discarded \union (Queued \ Failable(Queued))
  BY DEF Shutdown, Spliced
<1>3. Len(pending') = 0 /\ 1..0 = {}
  BY <1>2
<1>4. InQueueOrder(taken', pending') /\ WireFirst(taken', wire, pending')
  BY <1>3 DEF InQueueOrder, WireFirst
<1>5. Failable(Queued) \intersect Notes = {}
  BY FailableFacts, InitializeIsRequest
<1>6. TakenOnce(taken') /\ Wired(taken', wire) /\ InWireOrder(taken', wire)
  BY DEF OrderInv
<1> QED BY <1>1, <1>2, <1>4, <1>5, <1>6, NothingWritten

\* The grace runs out: what is left of the queue keeps its order.
LEMMA GraceFiresOrder == ASSUME OrderInv, IInv', GraceFires PROVE OrderInv'
<1>1. TypeOK /\ taken \in Seq(Lines) /\ TakenOnce(taken) /\ Wired(taken, wire)
      /\ InQueueOrder(taken, pending) /\ WireFirst(taken, wire, pending)
  BY DEF OrderInv, IInv, TypeOK
<1>2. /\ wire' = wire /\ taken' = taken /\ sockUp' = sockUp /\ captured' = captured
      /\ discarded' = discarded
      /\ pending' = [i \in 1..Len(pending) |-> Kept(pending[i])]
  BY DEF GraceFires, link
<1>3. Received' = Received /\ Queued' = Queued \ Failable(Queued)
  BY <1>1, <1>2, SameTaken, QueueFails
<1>4. Len(pending') = Len(pending) /\ \A k \in 1..Len(pending) : pending'[k] \subseteq pending[k]
  <2>1. pending \in Seq(SUBSET Messages) /\ Len(pending) \in Nat
    BY <1>1, LenProperties DEF TypeOK
  <2>2. \A k \in 1..Len(pending) : pending'[k] = Kept(pending[k])
    BY <1>2
  <2>3. pending' \in [1..Len(pending) -> SUBSET Messages]
    BY <1>2, <2>1 DEF Kept
  <2> QED BY <2>1, <2>2, <2>3 DEF Kept
<1>5. InQueueOrder(taken', pending') /\ WireFirst(taken', wire, pending')
  BY <1>1, <1>2, <1>4, ShrinksQueue, WirePayload
<1>6. TakenOnce(taken') /\ Wired(taken', wire) /\ InWireOrder(taken', wire)
  BY <1>2 DEF OrderInv
<1>7. Failable(Queued) \intersect Notes = {}
  BY FailableFacts, InitializeIsRequest
<1> QED BY <1>2, <1>3, <1>5, <1>6, <1>7, NothingWritten

\* What a line that is taken is to the lines before it.
LEMMA TakenNew ==
  ASSUME OrderInv, NEW line \in Lines, Take(line)
  PROVE  /\ taken \in Seq(Lines) /\ TakenOnce(taken) /\ taken' = Append(taken, line)
         /\ line = {Initialize} <=> taken = <<>>
         /\ \A i \in 1..Len(taken) : taken[i] # line
         /\ taken' \in Seq(Lines) /\ TakenOnce(taken') /\ Wired(taken', wire)
         /\ Received' = Received \union line
         /\ line \subseteq Messages /\ line # {}
<1>1. TypeOK /\ taken \in Seq(Lines) /\ TakenOnce(taken) /\ Wired(taken, wire)
  BY DEF OrderInv, IInv, TypeOK
<1>2. /\ taken' = Append(taken, line) /\ (line = {Initialize} <=> taken = <<>>)
      /\ \A i \in 1..Len(taken) : taken[i] # line
  BY DEF Take, MaySend
<1>3. /\ taken' \in Seq(Lines) /\ TakenOnce(taken')
      /\ \A l : IsPart(taken, l) => IsPart(taken', l)
  BY <1>1, <1>2, LaterLine
<1>4. Wired(taken', wire)
  BY <1>1, <1>3 DEF Wired
<1> QED BY <1>1, <1>2, <1>3, <1>4, TakeAdds, LinesHoldMessages

\* A line is queued, all of it or what is kept of it.
LEMMA QueuesOrder ==
  ASSUME OrderInv, IInv', NEW line \in Lines, Take(line), NEW x \in SUBSET line, x # {},
         line \intersect Notes \subseteq x, pending' = Append(pending, x),
         discarded' = discarded, wire' = wire, ~sockUp'
  PROVE  OrderInv'
<1>1. /\ taken \in Seq(Lines) /\ TakenOnce(taken) /\ taken' = Append(taken, line)
      /\ line = {Initialize} <=> taken = <<>>
      /\ \A i \in 1..Len(taken) : taken[i] # line
      /\ TakenOnce(taken') /\ Wired(taken', wire)
      /\ Received' = Received \union line /\ x \subseteq Messages
  BY TakenNew
<1>2. /\ TypeOK /\ pending \in Seq(SUBSET Messages) /\ Wired(taken, wire)
      /\ InQueueOrder(taken, pending) /\ InWireOrder(taken, wire)
      /\ WireFirst(taken, wire, pending)
  BY DEF OrderInv, IInv, TypeOK
<1>3. Queued' = Queued \union x
  BY <1>1, <1>2, QueueAdds
<1>4. /\ InQueueOrder(taken', pending') /\ InWireOrder(taken', wire)
      /\ WireFirst(taken', wire, pending')
  <2>1. \A s \in Spots(wire) : Payload(At(wire, s)) => IsPart(taken, At(wire, s))
    BY <1>2, WirePayload
  <2> QED BY <1>1, <1>2, <2>1, JoinsQueue
<1> QED BY <1>1, <1>3, <1>4, NothingWritten

\* A line is given up, all of it or what is kept of it.
LEMMA GivesUpOrder ==
  ASSUME OrderInv, IInv', NEW line \in Lines, Take(line),
         discarded' = discarded \union (line \ Failable(line)), pending' = pending,
         wire' = wire, ~sockUp'
  PROVE  OrderInv'
<1>1. /\ taken \in Seq(Lines) /\ TakenOnce(taken) /\ taken' = Append(taken, line)
      /\ line = {Initialize} <=> taken = <<>>
      /\ \A i \in 1..Len(taken) : taken[i] # line
      /\ TakenOnce(taken') /\ Wired(taken', wire)
      /\ Received' = Received \union line
  BY TakenNew
<1>2. /\ Wired(taken, wire) /\ InQueueOrder(taken, pending) /\ InWireOrder(taken, wire)
      /\ WireFirst(taken, wire, pending)
  BY DEF OrderInv
<1>3. Queued' = Queued /\ Failable(line) \intersect Notes = {}
  BY QueueSame, FailableFacts, InitializeIsRequest
<1>4. /\ InQueueOrder(taken', pending') /\ InWireOrder(taken', wire)
      /\ WireFirst(taken', wire, pending')
  <2>1. \A s \in Spots(wire) : Payload(At(wire, s)) => IsPart(taken, At(wire, s))
    BY <1>2, WirePayload
  <2> QED BY <1>1, <1>2, <2>1, JoinsNothing
<1> QED BY <1>1, <1>3, <1>4, NothingWritten

\* A line is taken: queued, given up past the grace, or forwarded.
LEMMA EnqueueOrder ==
  ASSUME OrderInv, IInv', NEW line \in Lines, Enqueue(line) PROVE OrderInv'
<1>1. /\ Take(line) /\ pending' = Append(pending, line) /\ discarded' = discarded
      /\ wire' = wire /\ ~sockUp'
  BY DEF Enqueue, link
<1> QED BY <1>1, LinesHoldMessages, QueuesOrder

LEMMA FailFastOrder ==
  ASSUME OrderInv, IInv', NEW line \in Lines, FailFast(line) PROVE OrderInv'
<1>1. Take(line) /\ wire' = wire /\ ~sockUp'
  BY DEF FailFast, link
<1>2. /\ Kept(line) = line \ Failable(line)
      /\ line \intersect Notes \subseteq Kept(line)
  BY FailableFacts, InitializeIsRequest DEF Kept
<1>3. CASE Kept(line) # {} /\ pending' = Append(pending, Kept(line)) /\ discarded' = discarded
  BY <1>1, <1>2, <1>3, QueuesOrder
<1>4. CASE discarded' = discarded \union Kept(line) /\ pending' = pending
  BY <1>1, <1>2, <1>4, GivesUpOrder
<1> QED BY <1>3, <1>4 DEF FailFast

LEMMA ForwardOrder ==
  ASSUME OrderInv, IInv', NEW line \in Lines, Forward(line) PROVE OrderInv'
<1> DEFINE V == SUBSET (Messages \union {Preamble})
           L == Len(wire)
<1>1. /\ Take(line) /\ sockUp /\ wire' = [wire EXCEPT ![L] = Append(@, line)]
      /\ pending' = pending /\ discarded' = discarded
  BY DEF Forward, queue
<1>2. /\ taken \in Seq(Lines) /\ TakenOnce(taken) /\ taken' = Append(taken, line)
      /\ line = {Initialize} <=> taken = <<>>
      /\ \A i \in 1..Len(taken) : taken[i] # line
      /\ TakenOnce(taken') /\ Received' = Received \union line
      /\ line \subseteq Messages
  BY <1>1, TakenNew
<1>3. Wired(taken, wire) /\ InWireOrder(taken, wire) /\ WiresGreeted /\ NotesKept
  BY DEF OrderInv
<1>4. Wired(taken', wire') /\ InWireOrder(taken', wire')
  BY <1>1, <1>2, <1>3, WritesLine
<1>5. pending' = <<>> /\ Queued = {} /\ Queued' = {}
  <2>1. pending = <<>>
    BY <1>1 DEF OrderInv, IInv, LinkSound
  <2> QED BY <1>1, <2>1, QueueEmpty, QueueSame
<1>6. InQueueOrder(taken', pending') /\ WireFirst(taken', wire', pending')
  <2>1. Len(pending') = 0 /\ 1..0 = {}
    BY <1>5
  <2> QED BY <2>1 DEF InQueueOrder, WireFirst
<1>7. wire \in Seq(Seq(V)) /\ wire # <<>> /\ line \in V
  BY <1>2, <1>3 DEF Wired
<1>8. Puts(V, wire, line, wire')
  <2> HIDE DEF V
  <2> QED BY <1>1, <1>7, WriteSpots
<1>9. /\ wire' \in Seq(Seq(V)) /\ Len(wire') = L /\ L \in 1..L
      /\ \A c \in 1..L : c # L => wire'[c] = wire[c]
      /\ wire'[L] = Append(wire[L], line)
  <2> HIDE DEF V
  <2> QED BY <1>8 DEF Puts
<1>10. WiresGreeted'
  <2>1. /\ Greeted(wire'[L])
        /\ \A m \in captured' : \E i \in 1..Len(wire'[L]) : wire'[L][i] = {m}
    <3>1. /\ Greeted(Append(wire[L], line))
          /\ \A m \in captured' : \E i \in 1..Len(Append(wire[L], line)) :
               Append(wire[L], line)[i] = {m}
      BY <1>1, GreetedStill
    <3> QED BY <1>9, <3>1
  <2>2. \A c \in 1..Len(wire') : Greeted(wire'[c])
    BY <1>3, <1>9, <2>1 DEF WiresGreeted
  <2> QED BY <1>9, <2>1, <2>2 DEF WiresGreeted
<1>11. NotesKept'
  <2>1. Written' = Written \union line
    <3>1. \E new : /\ Spots(wire') = Spots(wire) \union {new} /\ At(wire', new) = line
                   /\ \A s \in Spots(wire) : At(wire', s) = At(wire, s)
      BY <1>8 DEF Puts
    <3>2. \A m : m \in Written <=> \E s \in Spots(wire) : m \in At(wire, s)
      BY <1>7, OnSpots, WrittenOn
    <3>3. Written' = On(wire')
      BY DEF Written, On
    <3>4. \A m : m \in Written' <=> \E s \in Spots(wire') : m \in At(wire', s)
      BY <1>9, <3>3, OnSpots
    <3> QED BY <3>1, <3>2, <3>4
  <2> QED BY <1>1, <1>2, <1>3, <1>5, <2>1 DEF NotesKept
<1> QED BY <1>2, <1>4, <1>6, <1>10, <1>11 DEF OrderInv

\* A new connection carries parts of the client's lines, after the preamble.
LEMMA GreetsWithParts ==
  ASSUME OrderInv, NEW g, g = Opening \o Greeting
  PROVE  /\ g \in Seq(SUBSET (Messages \union {Preamble}))
         /\ CodeMode => g # <<>>
         /\ \A n \in 1..Len(g) : IF CodeMode /\ n = 1 THEN g[n] = {Preamble} ELSE IsPart(taken, g[n])
<1> DEFINE a == Len(Opening)
           b == Len(Opening) + Len(Replay)
<1>1. TypeOK /\ Booked /\ TakenOnce(taken)
  BY DEF OrderInv, IInv
<1>2. PICK h : Selects(h, Flushed, Len(pending))
  BY <1>1, FlushedFresh
<1>3. /\ g \in Seq(SUBSET (Messages \union {Preamble}))
      /\ a = (IF CodeMode THEN 1 ELSE 0) /\ Len(Replay) \in Nat
      /\ CodeMode => g[1] = {Preamble}
      /\ \A i \in 1..Len(Replay) : g[a + i] = Replay[i]
      /\ \A i \in 1..Len(Flushed) : g[b + i] = Flushed[i]
      /\ \A n \in 1..Len(g) :
           \/ CodeMode /\ n = 1
           \/ \E i \in 1..Len(Replay) : n = a + i
           \/ \E i \in 1..Len(Flushed) : n = b + i
  BY GreetLines
<1>4. \A i \in 1..Len(Flushed) : IsPart(taken, Flushed[i])
  BY <1>2, FlushedPayload
<1>5. ASSUME NEW i \in 1..Len(Replay) PROVE IsPart(taken, Replay[i])
  <2>1. PICK m \in captured : Replay[i] = {m}
    BY <1>1, ReplayIs
  <2>2. PICK k \in 1..Len(taken) : m \in taken[k]
    BY <1>1 DEF Booked, Received
  <2>3. PartOf(taken, Replay[i], k)
    BY <2>1, <2>2 DEF PartOf
  <2> QED BY <2>3 DEF IsPart
<1> HIDE DEF a, b
<1>6. CodeMode => g # <<>>
  BY GreetedNew DEF Greeted
<1>7. ASSUME NEW n \in 1..Len(g), ~(CodeMode /\ n = 1) PROVE IsPart(taken, g[n])
  <2>1. ASSUME NEW i \in 1..Len(Replay), n = a + i PROVE IsPart(taken, g[n])
    <3>1. g[n] = Replay[i]
      BY <1>3, <2>1
    <3>2. IsPart(taken, Replay[i])
      BY <1>5
    <3> QED BY <3>1, <3>2, Zenon
  <2>2. ASSUME NEW i \in 1..Len(Flushed), n = b + i PROVE IsPart(taken, g[n])
    <3>1. g[n] = Flushed[i]
      BY <1>3, <2>2
    <3>2. IsPart(taken, Flushed[i])
      BY <1>4
    <3> QED BY <3>1, <3>2, Zenon
  <2> QED BY <1>3, <1>7, <2>1, <2>2
<1> QED BY <1>3, <1>6, <1>7

\* What is queued and not replayed is flushed, the notifications all.
LEMMA NotesFlushed ==
  ASSUME OrderInv, NEW g, g = Opening \o Greeting
  PROVE  \A m \in Queued \intersect Notes : \E n \in 1..Len(g) : m \in g[n]
<1> SUFFICES ASSUME NEW m \in Queued, m \in Notes PROVE \E n \in 1..Len(g) : m \in g[n]
  OBVIOUS
<1> DEFINE b == Len(Opening) + Len(Replay)
<1>1. TypeOK /\ Booked /\ TakenOnce(taken)
  BY DEF OrderInv, IInv
<1>2. PICK h : Selects(h, Flushed, Len(pending))
  BY <1>1, FlushedFresh
<1>3. /\ b \in Nat /\ Len(Flushed) \in Nat /\ Len(g) = b + Len(Flushed)
      /\ \A i \in 1..Len(Flushed) : g[b + i] = Flushed[i]
  BY GreetLines
<1> HIDE DEF b
<1>4. PICK k \in 1..Len(pending) : m \in pending[k]
  BY DEF Queued
<1>5. m \notin Handshake /\ captured \subseteq Handshake
  BY <1>1, BridgeAssumption DEF TypeOK
<1>6. \A i \in 1..Len(Replay) : Replay[i] # pending[k]
  <2>1. \A i \in 1..Len(Replay) : m \notin Replay[i]
    <3>1. \A i \in 1..Len(Replay) : \E c \in captured : Replay[i] = {c}
      BY <1>1, ReplayIs
    <3> QED BY <1>5, <3>1
  <2> QED BY <1>4, <2>1
<1>7. PICK i \in 1..Len(Flushed) : h[i] = k
  BY <1>2, <1>4, <1>6 DEF Selects, Fresh
<1>8. Flushed[i] = pending[k] /\ b + i \in 1..Len(g)
  BY <1>2, <1>3, <1>7 DEF Selects
<1> QED BY <1>3, <1>4, <1>8

\* A new connection is handed the rest of the queue in its order.
LEMMA ReattachOrder == ASSUME OrderInv, IInv', Reattach PROVE OrderInv'
<1> DEFINE V == SUBSET (Messages \union {Preamble})
           g == Opening \o Greeting
           b == Len(Opening) + Len(Replay)
           L == Len(wire)
<1>1. /\ wire' = Append(wire, g) /\ taken' = taken /\ pending' = <<>>
      /\ captured' = captured /\ discarded' = discarded
  BY DEF Reattach, Spliced
<1>2. /\ TypeOK /\ TakenOnce(taken) /\ Wired(taken, wire) /\ InQueueOrder(taken, pending)
      /\ InWireOrder(taken, wire) /\ WireFirst(taken, wire, pending) /\ NotesKept /\ WiresGreeted
  BY DEF OrderInv, IInv
<1>3. /\ g \in Seq(V) /\ (CodeMode => g # <<>>)
      /\ \A n \in 1..Len(g) : IF CodeMode /\ n = 1 THEN g[n] = {Preamble} ELSE IsPart(taken, g[n])
  BY GreetsWithParts
<1>4. wire \in Seq(Seq(V))
  BY <1>2 DEF Wired
<1>5. Opens(V, wire, g, wire')
  <2> HIDE DEF V, g
  <2> QED BY <1>1, <1>3, <1>4, OpenSpots
<1>6. InWireOrder(taken, wire')
  <2>1. PICK h : Selects(h, Flushed, Len(pending))
    BY <1>2, FlushedFresh
  <2>2. /\ b \in Nat /\ Len(Flushed) \in Nat /\ Len(g) = b + Len(Flushed)
        /\ \A i \in 1..Len(Flushed) : g[b + i] = Flushed[i]
    BY GreetLines
  <2>3. \A i \in 1..b : ~Payload(g[i])
    <3>1. /\ Len(Opening) = (IF CodeMode THEN 1 ELSE 0) /\ Len(Replay) \in Nat
          /\ CodeMode => g[1] = {Preamble}
          /\ \A i \in 1..Len(Replay) : g[Len(Opening) + i] = Replay[i]
      BY GreetLines
    <3>2. \A i \in 1..Len(Replay) : ~Payload(Replay[i])
      <4>1. \A i \in 1..Len(Replay) : \E m \in Handshake : Replay[i] = {m}
        <5>1. TypeOK /\ Booked /\ captured \subseteq Handshake
          BY DEF OrderInv, IInv, TypeOK
        <5>2. \A i \in 1..Len(Replay) : \E m \in captured : Replay[i] = {m}
          BY <1>2, <5>1, ReplayIs
        <5> QED BY <5>1, <5>2
      <4>2. (Calls \union Notes) \intersect Handshake = {}
        BY BridgeAssumption
      <4> QED BY <4>1, <4>2 DEF Payload
    <3>3. ~Payload({Preamble})
      BY BridgeAssumption DEF Payload
    <3> HIDE DEF g
    <3>4. ASSUME NEW i \in 1..b
          PROVE  (CodeMode /\ i = 1) \/ \E j \in 1..Len(Replay) : i = Len(Opening) + j
      <4>1. CASE i <= Len(Opening)
        BY <3>1, <4>1
      <4>2. CASE i > Len(Opening)
        <5>1. i - Len(Opening) \in 1..Len(Replay) /\ i = Len(Opening) + (i - Len(Opening))
          BY <3>1, <4>2
        <5> QED BY <5>1
      <4> QED BY <3>1, <4>1, <4>2
    <3> HIDE DEF b
    <3> QED BY <3>1, <3>2, <3>3, <3>4
  <2> HIDE DEF V, g, b
  <2>4. /\ \A i \in 1..Len(Flushed) : g[b + i] = pending[h[i]] /\ h[i] \in 1..Len(pending)
        /\ \A i, j \in 1..Len(Flushed) : i < j => h[i] < h[j]
    BY <2>1, <2>2 DEF Selects
  <2>5. Flushes(g, b, pending, Flushed, h)
    BY <2>2, <2>3, <2>4 DEF Flushes
  <2> QED BY <1>1, <1>2, <1>3, <1>4, <2>5, FlushInOrder
<1> HIDE DEF V, g, b
<1>7. /\ wire' \in Seq(Seq(V)) /\ wire' # <<>> /\ Len(wire') = L + 1 /\ L \in Nat
      /\ \A c \in 1..L : wire'[c] = wire[c]
      /\ wire'[L + 1] = g
      /\ Spots(wire') = Spots(wire) \union {<<L + 1, i>> : i \in 1..Len(g)}
      /\ \A i \in 1..Len(g) : At(wire', <<L + 1, i>>) = g[i]
      /\ \A s \in Spots(wire) : At(wire', s) = At(wire, s)
  BY <1>5 DEF Opens
<1>8. \A c \in 1..Len(wire') : c \in 1..L \/ c = L + 1
  BY <1>7
<1>9. Wired(taken, wire')
  <2>1. CodeMode => \A c \in 1..Len(wire') : wire'[c] # <<>>
    BY <1>2, <1>3, <1>7, <1>8 DEF Wired
  <2>2. ASSUME NEW s \in Spots(wire')
        PROVE  IF CodeMode /\ s[2] = 1 THEN At(wire', s) = {Preamble} ELSE IsPart(taken, At(wire', s))
    <3>1. CASE s \in Spots(wire)
      BY <1>2, <1>7, <3>1 DEF Wired
    <3>2. CASE s \notin Spots(wire)
      <4>1. PICK i \in 1..Len(g) : s = <<L + 1, i>>
        BY <1>7, <3>2
      <4>2. s[2] = i /\ At(wire', s) = g[i]
        BY <1>7, <4>1
      <4> QED BY <1>3, <4>2
    <3> QED BY <3>1, <3>2
  <2> QED BY <1>7, <2>1, <2>2 DEF Wired, V
<1>10. InQueueOrder(taken, pending') /\ WireFirst(taken, wire', pending')
  <2>1. Len(pending') = 0 /\ 1..0 = {}
    BY <1>1
  <2> QED BY <2>1 DEF InQueueOrder, WireFirst
<1>11. WiresGreeted'
  <2>1. Greeted(g) /\ \A m \in captured : \E i \in 1..Len(g) : g[i] = {m}
    BY GreetedNew DEF g
  <2>2. \A c \in 1..Len(wire') : Greeted(wire'[c])
    BY <1>2, <1>7, <1>8, <2>1 DEF WiresGreeted
  <2>3. \A m \in captured' : \E i \in 1..Len(wire'[Len(wire')]) : wire'[Len(wire')][i] = {m}
    <3>1. wire'[Len(wire')] = g /\ captured' = captured
      BY <1>1, <1>7
    <3> QED BY <2>1, <3>1
  <2> QED BY <2>2, <2>3 DEF WiresGreeted
<1>12. NotesKept'
  <2>1. Received' = Received
    BY <1>1, SameTaken
  <2>2. \A m : m \in Written <=> \E s \in Spots(wire) : m \in At(wire, s)
    BY <1>4, OnSpots, WrittenOn
  <2>3. \A m : m \in Written' <=> \E s \in Spots(wire') : m \in At(wire', s)
    <3>1. Written' = On(wire')
      BY DEF Written, On
    <3> QED BY <1>7, <3>1, OnSpots
  <2>4. Written \subseteq Written'
    BY <1>7, <2>2, <2>3
  <2>5. Queued \intersect Notes \subseteq Written'
    <3> SUFFICES ASSUME NEW m \in Queued \intersect Notes PROVE m \in Written'
      OBVIOUS
    <3>1. PICK n \in 1..Len(g) : m \in g[n]
      BY NotesFlushed DEF g
    <3>2. <<L + 1, n>> \in Spots(wire') /\ m \in At(wire', <<L + 1, n>>)
      BY <1>7, <3>1
    <3> QED BY <2>3, <3>2
  <2> QED BY <1>1, <1>2, <2>1, <2>4, <2>5 DEF NotesKept
<1> QED BY <1>1, <1>2, <1>6, <1>9, <1>10, <1>11, <1>12 DEF OrderInv
-----------------------------------------------------------------------------
(* The theorems about the order.                                           *)

\* In the beginning there is one connection, opened and empty.
LEMMA InitOrder == Init => OrderInv
<1> SUFFICES ASSUME Init PROVE OrderInv
  OBVIOUS
<1> DEFINE V == SUBSET (Messages \union {Preamble})
<1>1. taken = <<>> /\ pending = <<>> /\ captured = {} /\ wire = <<Opening>>
  BY DEF Init
<1>2. Len(taken) = 0 /\ Len(pending) = 0 /\ 1..0 = {}
  BY <1>1
<1>3. TakenOnce(taken) /\ InQueueOrder(taken, pending) /\ WireFirst(taken, wire, pending) /\ NotesKept
  BY <1>1, <1>2 DEF TakenOnce, InQueueOrder, WireFirst, NotesKept, Received
<1>4. /\ Opening \in Seq(V) /\ Len(Opening) = (IF CodeMode THEN 1 ELSE 0)
      /\ CodeMode => Opening[1] = {Preamble} /\ Opening # <<>>
  <2>1. CASE CodeMode
    <3>1. Opening = <<{Preamble}>>
      BY <2>1 DEF Opening
    <3> QED BY <2>1, <3>1
  <2>2. CASE ~CodeMode
    <3>1. Opening = <<>>
      BY <2>2 DEF Opening
    <3> QED BY <2>2, <3>1
  <2> QED BY <2>1, <2>2
<1>5. \A i \in 1..Len(Opening) : CodeMode /\ i = 1 /\ Opening[i] = {Preamble}
  BY <1>4
<1> HIDE DEF V
<1>6. /\ wire \in Seq(Seq(V)) /\ wire # <<>> /\ Len(wire) = 1 /\ wire[1] = Opening
      /\ \A c \in 1..Len(wire) : wire[c] = Opening
  BY <1>1, <1>4
<1>7. \A s \in Spots(wire) : CodeMode /\ s[2] = 1 /\ At(wire, s) = {Preamble}
  <2>1. \A s \in Spots(wire) : wire[s[1]] = Opening /\ s[2] \in 1..Len(Opening)
    BY <1>6 DEF Spots
  <2> QED BY <1>5, <2>1 DEF At
<1>8. Wired(taken, wire)
  BY <1>4, <1>6, <1>7 DEF Wired, V
<1>9. InWireOrder(taken, wire)
  <2>1. ~Payload({Preamble})
    BY BridgeAssumption DEF Payload
  <2> QED BY <1>7, <2>1 DEF InWireOrder
<1>10. Greeted(Opening)
  <2>1. Preamble \notin Handshake
    BY BridgeAssumption
  <2> QED BY <1>4, <1>5, <2>1 DEF Greeted
<1>11. WiresGreeted
  BY <1>1, <1>6, <1>10 DEF WiresGreeted
<1> QED BY <1>3, <1>8, <1>9, <1>11, InitInv DEF OrderInv

\* Every step keeps the order.
LEMMA OrderStep == ASSUME OrderInv, [Next]_vars PROVE OrderInv'
<1>1. IInv'
  BY InvStep DEF OrderInv
<1>2. CASE UNCHANGED vars
  BY <1>1, <1>2, QuietOrder DEF vars, client, queue, link
<1>3. CASE \E line \in Lines : Forward(line) \/ Enqueue(line) \/ FailFast(line)
  BY <1>1, <1>3, ForwardOrder, EnqueueOrder, FailFastOrder
<1>4. CASE Drain
  BY <1>1, <1>4, QuietOrder DEF Drain, queue, link
<1>5. CASE Exit
  BY <1>1, <1>5, QuietOrder DEF Exit, client, queue, link
<1>6. CASE ReconnectUnwanted
  BY <1>1, <1>6, QuietOrder DEF ReconnectUnwanted, client, queue
<1>7. CASE ClientEnds
  <2>1. wire' = wire /\ taken' = taken /\ sockUp' = sockUp /\ captured' = captured
    BY <1>7 DEF ClientEnds
  <2>2. CASE sockUp
    <3>1. pending' = pending /\ discarded' = discarded
      BY <1>7, <2>2 DEF ClientEnds, queue
    <3> QED BY <1>1, <2>1, <3>1, QuietOrder
  <2>3. CASE ~sockUp
    <3>1. Shutdown
      BY <1>7, <2>3 DEF ClientEnds
    <3> QED BY <1>1, <2>1, <3>1, ShutdownOrder
  <2> QED BY <2>2, <2>3
<1>8. CASE \E r \in Requests, isError \in BOOLEAN : VaultAnswers(r, isError)
  BY <1>1, <1>8, QuietOrder DEF VaultAnswers, client, queue, link
<1>9. CASE \E r \in Requests : ForwardAnswer(r)
  BY <1>1, <1>9, QuietOrder DEF ForwardAnswer, client, queue, link
<1>10. CASE DropReplayAnswer
  BY <1>1, <1>10, QuietOrder DEF DropReplayAnswer, client, queue, link
<1>11. CASE RefuseReplay
  BY <1>1, <1>11, ShutdownOrder DEF RefuseReplay, client, link
<1>12. CASE CloseAfterEnd
  BY <1>1, <1>12, QuietOrder DEF CloseAfterEnd, SocketGone, client, queue
<1>13. CASE \E young \in BOOLEAN : SocketClose(young)
  BY <1>1, <1>13, QuietOrder DEF SocketClose, SocketGone
<1>14. CASE GraceFires
  BY <1>1, <1>14, GraceFiresOrder
<1>15. CASE Reattach
  BY <1>1, <1>15, ReattachOrder
<1>16. CASE ReconnectFails
  BY <1>1, <1>16, ShutdownOrder DEF ReconnectFails, client
<1> QED BY <1>2, <1>3, <1>4, <1>5, <1>6, <1>7, <1>8, <1>9, <1>10, <1>11, <1>12, <1>13, <1>14,
           <1>15, <1>16
        DEF Next, ReadAnswer, ReconnectSettles, Gone

\* The connections, the queue and the client's lines agree in every state: what was
\* written comes in the client's order, and what is queued comes after it.
THEOREM OrderCorrect == Spec => []OrderInv
<1>1. OrderInv /\ [Next]_vars => OrderInv'
  BY OrderStep
<1> QED BY <1>1, InitOrder, PTL DEF Spec

\* The whole handshake that is known leads a new connection.
LEMMA NewLeads ==
  ASSUME OrderInv, NEW g, g = Opening \o Greeting
  PROVE  HandshakeLeads(g, captured)
<1> DEFINE a == Len(Opening)
           b == Len(Opening) + Len(Replay)
<1>1. /\ a = (IF CodeMode THEN 1 ELSE 0) /\ b = a + Len(Replay) /\ Len(Replay) \in Nat
      /\ Len(Flushed) \in Nat /\ Len(g) = b + Len(Flushed)
      /\ CodeMode => g[1] = {Preamble}
      /\ \A i \in 1..Len(Replay) : g[a + i] = Replay[i]
  BY GreetLines
<1>2. /\ \A i \in 1..Len(Replay) : \E m \in captured : Replay[i] = {m}
      /\ \A m \in captured : \E i \in 1..Len(Replay) : Replay[i] = {m}
  BY ReplayIs DEF OrderInv, IInv
<1> HIDE DEF a, b
<1> SUFFICES ASSUME NEW m \in captured
             PROVE  \E i \in 1..Len(g) : /\ g[i] = {m}
                                         /\ \A j \in 1..i : g[j] = {Preamble} \/ \E h \in captured : g[j] = {h}
  BY DEF HandshakeLeads
<1>3. PICK k \in 1..Len(Replay) : Replay[k] = {m}
  BY <1>2
<1>4. a + k \in 1..Len(g) /\ g[a + k] = {m} /\ a \in Nat
  BY <1>1, <1>3
<1>5. ASSUME NEW j \in 1..(a + k) PROVE g[j] = {Preamble} \/ \E h \in captured : g[j] = {h}
  <2>1. CASE CodeMode /\ j = 1
    BY <1>1, <2>1
  <2>2. CASE ~(CodeMode /\ j = 1)
    <3>1. j - a \in 1..Len(Replay) /\ a + (j - a) = j
      BY <1>1, <1>3, <2>2
    <3>2. g[j] = Replay[j - a]
      BY <1>1, <3>1
    <3> QED BY <1>2, <3>1, <3>2
  <2> QED BY <2>1, <2>2
<1> QED BY <1>4, <1>5

\* Only a reattach opens a connection.
LEMMA OpensByReattach ==
  ASSUME TypeOK, wire \in Seq(Seq(SUBSET (Messages \union {Preamble}))), [Next]_vars,
         Len(wire') > Len(wire)
  PROVE  Reattach
<1>1. Len(wire) \in Nat
  BY LenProperties
<1>2. wire' # wire
  BY <1>1
<1>3. ASSUME NEW line \in Lines, Forward(line) PROVE FALSE
  <2>1. Len(wire') = Len(wire)
    BY <1>3, ExceptSeq DEF Forward
  <2> QED BY <1>1, <2>1
<1> QED BY <1>2, <1>3 DEF Next, vars, client, relay, queue, link, vault, Enqueue, FailFast, Drain,
       ClientEnds, VaultAnswers, ReadAnswer, ForwardAnswer, DropReplayAnswer, RefuseReplay,
       CloseAfterEnd, SocketClose, GraceFires, ReconnectSettles, ReconnectFails,
       ReconnectUnwanted, Exit, Gone

\* Every connection begins with the preamble and the initialize, and a reopened one
\* with the whole handshake that is known, before any line of the queue, whatever
\* was queued, for any client and any number of connections.
THEOREM GreetedFirstCorrect == Spec => GreetedFirst
<1>1. OrderInv => WiresGreeted
  BY DEF OrderInv
<1>2. OrderInv /\ [Next]_vars =>
        [Len(wire') > Len(wire) => HandshakeLeads(wire'[Len(wire')], captured)]_wire
  <2> SUFFICES ASSUME OrderInv, [Next]_vars, Len(wire') > Len(wire)
               PROVE  HandshakeLeads(wire'[Len(wire')], captured)
    OBVIOUS
  <2>1. wire \in Seq(Seq(SUBSET (Messages \union {Preamble})))
    BY DEF OrderInv, Wired
  <2>2. Reattach
    BY <2>1, OpensByReattach DEF OrderInv, IInv
  <2>3. wire' = Append(wire, Opening \o Greeting)
    BY <2>2 DEF Reattach
  <2>4. HandshakeLeads(Opening \o Greeting, captured)
    BY NewLeads
  <2>5. wire'[Len(wire')] = Opening \o Greeting
    BY <2>1, <2>3, AppendProperties, GreetLines
  <2> QED BY <2>4, <2>5
<1> QED BY <1>1, <1>2, OrderCorrect, PTL DEF Spec, GreetedFirst

\* The vault is handed the client's messages once and in order, across all its
\* connections, and no notification vanishes.
THEOREM InOrderCorrect == Spec => []InOrderOnce
<1>1. OrderInv => InOrderOnce
  <2> SUFFICES ASSUME OrderInv PROVE InOrderOnce
    OBVIOUS
  <2>1. Wired(taken, wire) /\ InWireOrder(taken, wire) /\ NotesKept
    BY DEF OrderInv
  <2>2. ASSUME NEW p \in Places
        PROVE  /\ p \in Spots(wire) /\ Payload(At(wire, p))
               /\ PartOf(taken, At(wire, p), TakenAt(p)) /\ TakenAt(p) \in 1..Len(taken)
    <3>1. PICK c \in 1..Len(wire) : p \in {<<c, i>> : i \in {k \in 1..Len(wire[c]) : Carries(c, k)}}
      BY DEF Places
    <3>2. PICK i \in 1..Len(wire[c]) : p = <<c, i>> /\ Carries(c, i)
      BY <3>1
    <3>3. Len(wire) \in Nat /\ Len(wire[c]) \in Nat
      BY <2>1, ElementOfSeq, LenProperties DEF Wired
    <3>4. p \in Spots(wire) /\ At(wire, p) = wire[c][i]
      BY <3>2, <3>3 DEF Spots, At
    <3>5. Payload(At(wire, p))
      BY <3>2, <3>4 DEF Carries, Payload
    <3>6. IsPart(taken, At(wire, p))
      BY <2>1, <3>4, <3>5, WirePayload
    <3>7. wire[p[1]][p[2]] = At(wire, p)
      BY DEF At
    <3>8. \E k \in 1..Len(taken) : wire[p[1]][p[2]] \subseteq taken[k]
      BY <3>6, <3>7 DEF IsPart, PartOf
    <3>9. TakenAt(p) \in 1..Len(taken) /\ wire[p[1]][p[2]] \subseteq taken[TakenAt(p)]
      BY <3>8 DEF TakenAt
    <3>10. At(wire, p) # {}
      BY <3>6 DEF IsPart, PartOf
    <3> QED BY <3>4, <3>5, <3>7, <3>9, <3>10 DEF PartOf
  <2>3. ASSUME NEW p \in Places, NEW q \in Places, Precedes(p, q) PROVE TakenAt(p) < TakenAt(q)
    <3>1. Before(taken, At(wire, p), At(wire, q))
      BY <2>1, <2>2, <2>3 DEF InWireOrder
    <3> QED BY <2>2, <3>1 DEF Before
  <2> QED BY <2>1, <2>3 DEF InOrderOnce, NotesKept
<1> QED BY <1>1, OrderCorrect, PTL
=============================================================================
