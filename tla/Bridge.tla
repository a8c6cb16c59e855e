------------------------------- MODULE Bridge -------------------------------
(***************************************************************************)
(* The relay of the bridge process (plugin/bridge/bridge.ts): it stands     *)
(* between one MCP client, on stdin and stdout, and the vault's socket, and *)
(* outlives the vault.  When the socket dies, requests in flight are failed *)
(* (they may have taken effect, so they cannot be resent), new ones wait in *)
(* a queue for a grace period, and a fresh connection gets the client's     *)
(* handshake again before anything else.                                   *)
(*                                                                         *)
(* A line is the set of messages in it: one, or several in a batch.  Among  *)
(* the notifications count all lines that ask for no answer, the client's   *)
(* answers to the vault and unparseable lines included.  Lines arrive one   *)
(* at a time and the vault's answers in any order; what the vault sends of  *)
(* its own accord passes through, and stdout is taken to drain.             *)
(***************************************************************************)
EXTENDS Naturals, Sequences, FiniteSets

CONSTANTS
  Initialize,      \* the request that opens the handshake
  Initialized,     \* the notification that ends it
  Preamble,        \* the line before the protocol that selects code mode
  CodeMode,        \* opts.preamble # undefined
  Calls,           \* every other request
  Notes,           \* every other notification
  Batches,         \* what the client may send, each line once
  MaxPending,      \* maxPending; 0 for no cap
  QueueGrace,      \* queueGraceMs > 0
  RapidFailMax,    \* rapidFailMax
  MaxConnections   \* bound: connections the vault accepts

Handshake == {Initialize, Initialized}
Requests == Calls \union {Initialize}
Messages == Calls \union Notes \union Handshake
Lines == Batches \union {{m} : m \in Handshake}

ASSUME BridgeAssumption ==
  /\ Initialize # Initialized /\ Preamble \notin Handshake
  /\ Calls \intersect Notes = {}
  /\ (Calls \union Notes) \intersect (Handshake \union {Preamble}) = {}
  /\ Batches \subseteq SUBSET (Calls \union Notes)
  /\ \A b \in Batches : b # {}
  /\ \A b, c \in Batches : b # c => b \intersect c = {}
  /\ CodeMode \in BOOLEAN /\ QueueGrace \in BOOLEAN
  /\ MaxPending \in Nat /\ RapidFailMax \in Nat \ {0} /\ MaxConnections \in Nat \ {0}

VARIABLES
  status,         \* "up", "flushing" after flushThenExit, "gone"
  sockUp,         \* sock # null
  halfClosed,     \* sock.end() was called
  clientEnded, clientPaused, clientPausedForQueue,
  captured,       \* the handshake messages known: initializeRaw, initializedRaw
  initResponseSeen, awaitingReplayResponse,
  outstanding,    \* requests taken and not answered, as the relay books them
  pending,        \* lines queued while the socket is down; {} once wholly failed
  graceTimer, graceExpired, reconnecting,
  rapidFails,
  owed,           \* requests on the socket the vault has not answered
  replies,        \* requests it has answered, not read from the socket yet
  refuses,        \* its answer to the initialize is an error
  taken,          \* history: the client's lines
  wire,           \* history: the lines written to each connection, the last one current
  answers,        \* history: how often the client was answered
  discarded       \* history: messages given up past the grace or at exit

client == <<clientEnded, clientPaused, clientPausedForQueue, captured, taken>>
relay == <<initResponseSeen, awaitingReplayResponse, outstanding, answers>>
queue == <<pending, graceTimer, graceExpired, discarded>>
link == <<sockUp, halfClosed, reconnecting, rapidFails, wire>>
vault == <<owed, replies, refuses>>
vars == <<status, client, relay, queue, link, vault>>

\* The relay's fields and what is on the socket keep their ranges.
TypeOK ==
  /\ status \in {"up", "flushing", "gone"}
  /\ sockUp \in BOOLEAN /\ halfClosed \in BOOLEAN /\ clientEnded \in BOOLEAN
  /\ clientPaused \in BOOLEAN /\ clientPausedForQueue \in BOOLEAN
  /\ captured \in SUBSET Handshake
  /\ initResponseSeen \in BOOLEAN /\ awaitingReplayResponse \in BOOLEAN
  /\ outstanding \in SUBSET Requests
  /\ pending \in Seq(SUBSET Messages)
  /\ graceTimer \in BOOLEAN /\ graceExpired \in BOOLEAN /\ reconnecting \in BOOLEAN
  /\ rapidFails \in Nat
  /\ owed \in SUBSET Requests /\ replies \in SUBSET Requests /\ refuses \in BOOLEAN
  /\ taken \in Seq(Lines)
  /\ answers \in [Requests -> Nat]
  /\ discarded \in SUBSET Messages

\* attach: the preamble is the first line of every connection.
Opening == IF CodeMode THEN <<{Preamble}>> ELSE <<>>

Init ==
  /\ status = "up"
  /\ sockUp = TRUE /\ halfClosed = FALSE
  /\ clientEnded = FALSE /\ clientPaused = FALSE /\ clientPausedForQueue = FALSE
  /\ captured = {}
  /\ initResponseSeen = FALSE /\ awaitingReplayResponse = FALSE
  /\ outstanding = {}
  /\ pending = <<>>
  /\ graceTimer = FALSE /\ graceExpired = FALSE /\ reconnecting = FALSE
  /\ rapidFails = 0
  /\ owed = {} /\ replies = {} /\ refuses = FALSE
  /\ taken = <<>>
  /\ wire = <<Opening>>
  /\ answers = [r \in Requests |-> 0]
  /\ discarded = {}
-----------------------------------------------------------------------------
(* Failing what the vault will not answer.                                 *)

\* isExemptInitialize: an unanswered initialize is not failed but replayed.
Exempt(r) == r = Initialize /\ ~initResponseSeen
Failable(S) == {r \in S \intersect Requests : ~Exempt(r)}
\* Seeded fault: a batch is kept as it was when its requests are failed.
KeptWhole(line) == line
\* failRequest: what is left of a line once its requests are failed.
Kept(line) == line \ Failable(line)

Queued == UNION {pending[i] : i \in 1..Len(pending)}
\* pending.length
Backlog == Cardinality({i \in 1..Len(pending) : pending[i] # {}})

\* Seeded fault: the lines are copied from the queue, not taken.
Unspliced == pending
\* What pending.splice(0) leaves.
Spliced == <<>>

\* The client is sent an answer to each request of S.
Answer(S) == answers' = [r \in Requests |-> answers[r] + IF r \in S THEN 1 ELSE 0]

\* failOutstanding, failAndWrite: an error for each of S, which leaves the books.
Fail(S) ==
  /\ outstanding' = outstanding \ S
  /\ Answer(S)

\* Seeded fault: the client is resumed only if the queue has room again.
ResumeWithRoom ==
  LET room == Len(pending') < MaxPending
  IN  /\ clientPaused' = (clientPaused /\ ~(clientPausedForQueue /\ room))
      /\ clientPausedForQueue' = (clientPausedForQueue /\ ~room)
\* resumeClient: undoes the pause of a full queue, and no other.
ResumeClient ==
  /\ clientPaused' = (clientPaused /\ ~clientPausedForQueue)
  /\ clientPausedForQueue' = FALSE
-----------------------------------------------------------------------------
(* The client's side.                                                      *)

\* What a client does: it begins with the handshake, waits for its answer
\* before it confirms it, and repeats nothing.
MaySend(line) ==
  /\ \A i \in 1..Len(taken) : taken[i] # line
  /\ line = {Initialize} <=> taken = <<>>
  /\ line = {Initialized} => answers[Initialize] > 0

\* onClientMessage, but for the books.
Take(line) ==
  /\ status # "gone" /\ ~clientEnded /\ ~clientPaused
  /\ MaySend(line)
  /\ taken' = Append(taken, line)
  /\ captured' = captured \union (line \intersect Handshake)

\* Connected: the line is written at once; an overfull socket pauses the client.
Forward(line) ==
  /\ sockUp
  /\ Take(line)
  /\ wire' = [wire EXCEPT ![Len(wire)] = Append(@, line)]
  /\ owed' = owed \union (line \intersect Requests)
  /\ outstanding' = outstanding \union (line \intersect Requests)
  /\ clientPaused' \in BOOLEAN
  /\ UNCHANGED <<status, clientEnded, clientPausedForQueue, initResponseSeen,
                 awaitingReplayResponse, answers, queue, sockUp, halfClosed,
                 reconnecting, rapidFails, replies, refuses>>

\* sock.once("drain"): only the socket that was full resumes the client.
Drain ==
  /\ status # "gone" /\ sockUp /\ clientPaused /\ ~clientPausedForQueue
  /\ clientPaused' = FALSE
  /\ UNCHANGED <<status, clientEnded, clientPausedForQueue, captured, taken,
                 relay, queue, link, vault>>

\* enqueue: a queue that is full pauses the client.
Enqueue(line) ==
  /\ ~sockUp /\ ~graceExpired
  /\ Take(line)
  /\ pending' = Append(pending, line)
  /\ outstanding' = outstanding \union (line \intersect Requests)
  /\ clientPaused' = (MaxPending > 0 /\ Backlog + 1 >= MaxPending)
  /\ clientPausedForQueue' = clientPaused'
  /\ UNCHANGED <<status, clientEnded, initResponseSeen, awaitingReplayResponse, answers,
                 graceTimer, graceExpired, discarded, link, vault>>

\* Past the grace a request is answered at once; the rest is kept, if there is room.
FailFast(line) ==
  /\ ~sockUp /\ graceExpired
  /\ Take(line)
  /\ Answer(Failable(line))
  /\ outstanding' = (outstanding \union (line \intersect Requests)) \ Failable(line)
  /\ IF Kept(line) # {} /\ (MaxPending = 0 \/ Backlog < MaxPending)
     THEN /\ pending' = Append(pending, Kept(line))
          /\ UNCHANGED discarded
     ELSE /\ discarded' = discarded \union Kept(line)
          /\ UNCHANGED pending
  /\ UNCHANGED <<status, clientEnded, clientPaused, clientPausedForQueue, initResponseSeen,
                 awaitingReplayResponse, graceTimer, graceExpired, link, vault>>

\* shutdown: whatever is queued is answered, and the process waits for stdout.
Shutdown ==
  /\ status' = "flushing"
  /\ graceTimer' = FALSE
  /\ pending' = Spliced
  /\ Fail(Failable(Queued))
  /\ discarded' = discarded \union (Queued \ Failable(Queued))

\* The client closed stdin: half-close the socket, or exit if it is down.
ClientEnds ==
  /\ status # "gone" /\ ~clientEnded /\ ~clientPaused
  /\ clientEnded' = TRUE
  /\ IF sockUp
     THEN /\ halfClosed' = TRUE
          /\ UNCHANGED <<status, outstanding, answers, queue>>
     ELSE /\ Shutdown
          /\ UNCHANGED <<halfClosed, graceExpired>>
  /\ UNCHANGED <<clientPaused, clientPausedForQueue, captured, taken, initResponseSeen,
                 awaitingReplayResponse, sockUp, reconnecting, rapidFails, wire, vault>>

\* flushThenExit: stdout has flushed, or the backstop timer fired.
Exit ==
  /\ status = "flushing"
  /\ status' = "gone"
  /\ UNCHANGED <<client, relay, queue, link, vault>>
-----------------------------------------------------------------------------
(* The vault's side of the socket.                                         *)

VaultAnswers(r, isError) ==
  /\ status # "gone" /\ sockUp
  /\ r \in owed
  /\ owed' = owed \ {r}
  /\ replies' = replies \union {r}
  /\ refuses' = IF r = Initialize THEN isError ELSE refuses
  /\ isError => r = Initialize
  /\ UNCHANGED <<status, client, relay, queue, link>>

\* Seeded fault: what the vault answers to a replay is passed on.
ToNoReplay(r) == FALSE
\* The answer to a replayed initialize, which the client had before.
ToReplay(r) == r = Initialize /\ awaitingReplayResponse

\* onServerMessage, verdict "forward".
ForwardAnswer(r) ==
  /\ status # "gone" /\ sockUp
  /\ r \in replies /\ ~ToReplay(r)
  /\ replies' = replies \ {r}
  /\ Fail({r})
  /\ initResponseSeen' = (initResponseSeen \/ r = Initialize)
  /\ UNCHANGED <<status, client, awaitingReplayResponse, queue, link, owed, refuses>>

\* Verdict "drop".
DropReplayAnswer ==
  /\ status # "gone" /\ sockUp
  /\ Initialize \in replies /\ awaitingReplayResponse /\ ~refuses
  /\ awaitingReplayResponse' = FALSE
  /\ replies' = replies \ {Initialize}
  /\ outstanding' = outstanding \ {Initialize}
  /\ UNCHANGED <<status, client, initResponseSeen, answers, queue, link, owed, refuses>>

\* Verdict "replay-error": the rest of the chunk that was read is lost with it.
RefuseReplay ==
  /\ status # "gone" /\ sockUp
  /\ Initialize \in replies /\ awaitingReplayResponse /\ refuses
  /\ awaitingReplayResponse' = FALSE
  /\ replies' \in SUBSET (replies \ {Initialize})
  /\ Shutdown
  /\ UNCHANGED <<client, initResponseSeen, graceExpired, link, owed, refuses>>

\* Written to the socket that died, or answered on it, and not read.
SocketGone ==
  /\ sockUp' = FALSE
  /\ owed' = {} /\ replies' = {} /\ refuses' = FALSE

\* onSocketClose with the client gone.
CloseAfterEnd ==
  /\ status # "gone" /\ sockUp /\ clientEnded
  /\ SocketGone
  /\ status' = "flushing"
  /\ UNCHANGED <<client, relay, queue, halfClosed, reconnecting, rapidFails, wire>>

\* Seeded fault: requests in flight are left to the next connection.
CutNone == {}
\* failOutstanding: the requests in flight, all that can be failed.
Cut == {r \in outstanding : ~Exempt(r)}

\* onSocketClose: requests in flight fail; reconnect, or give up on a vault
\* whose connections keep dying young.  Nothing is queued while the socket is
\* up, so the shutdown finds nothing more to answer.
SocketClose(young) ==
  /\ status # "gone" /\ sockUp /\ ~clientEnded
  /\ SocketGone
  /\ clientPaused' = FALSE /\ clientPausedForQueue' = FALSE
  /\ rapidFails' = IF young THEN rapidFails + 1 ELSE 0
  /\ Fail(Cut)
  /\ IF rapidFails' >= RapidFailMax
     THEN /\ status' = "flushing"
          /\ UNCHANGED <<graceTimer, graceExpired, reconnecting>>
     ELSE /\ graceExpired' = FALSE
          /\ graceTimer' = QueueGrace
          /\ reconnecting' = TRUE
          /\ UNCHANGED status
  /\ UNCHANGED <<clientEnded, captured, taken, initResponseSeen, awaitingReplayResponse,
                 pending, discarded, halfClosed, wire>>

\* The callback of graceTimer.
GraceFires ==
  /\ status # "gone" /\ graceTimer
  /\ graceTimer' = FALSE
  /\ graceExpired' = TRUE
  /\ Fail(Failable(Queued))
  /\ pending' = [i \in 1..Len(pending) |-> Kept(pending[i])]
  /\ ResumeClient
  /\ UNCHANGED <<status, clientEnded, captured, taken, initResponseSeen,
                 awaitingReplayResponse, discarded, link, vault>>

\* replayMessages.
Replay == (IF Initialize \in captured THEN <<{Initialize}>> ELSE <<>>)
       \o (IF Initialized \in captured THEN <<{Initialized}>> ELSE <<>>)

\* A queued copy of a line that is replayed is skipped; a line wholly failed is
\* in the queue no more.
Fresh(line) == line # {} /\ \A i \in 1..Len(Replay) : Replay[i] # line
\* What the loop over the queue writes.
Flushed ==
  LET upTo[n \in 0..Len(pending)] ==
        IF n = 0 THEN <<>>
        ELSE IF Fresh(pending[n]) THEN Append(upTo[n - 1], pending[n])
        ELSE upTo[n - 1]
  IN  upTo[Len(pending)]
\* Seeded fault: the handshake is completed after the queue.
GreetingAround ==
  IF Len(Replay) = 2 THEN <<Replay[1]>> \o Flushed \o <<Replay[2]>> ELSE Replay \o Flushed
\* The handshake goes first, all of it that is known.
Greeting == Replay \o Flushed

\* reconnect() resolved: replay and flush, in one go.
Reattach ==
  /\ status # "gone" /\ reconnecting /\ ~clientEnded
  /\ Len(wire) < MaxConnections
  /\ reconnecting' = FALSE
  /\ graceTimer' = FALSE /\ graceExpired' = FALSE
  /\ sockUp' = TRUE
  /\ wire' = Append(wire, Opening \o Greeting)
  /\ awaitingReplayResponse' =
       (awaitingReplayResponse \/ (Initialize \in captured /\ initResponseSeen))
  /\ owed' = (Queued \union captured) \intersect Requests
  /\ pending' = Spliced
  /\ ResumeClient
  /\ UNCHANGED <<status, clientEnded, captured, taken, initResponseSeen, outstanding,
                 answers, discarded, halfClosed, rapidFails, replies, refuses>>

\* reconnect() rejected: the wait for the vault reached its deadline.
ReconnectFails ==
  /\ status # "gone" /\ reconnecting /\ ~clientEnded
  /\ reconnecting' = FALSE
  /\ Shutdown
  /\ UNCHANGED <<client, initResponseSeen, awaitingReplayResponse, graceExpired,
                 sockUp, halfClosed, rapidFails, wire, vault>>

\* Either answer finds the client gone: a fresh socket is destroyed unused.
ReconnectUnwanted ==
  /\ status # "gone" /\ reconnecting /\ clientEnded
  /\ reconnecting' = FALSE
  /\ UNCHANGED <<status, client, relay, queue, sockUp, halfClosed, rapidFails, wire, vault>>
-----------------------------------------------------------------------------
ReadAnswer == (\E r \in Requests : ForwardAnswer(r)) \/ DropReplayAnswer \/ RefuseReplay
ReconnectSettles == Reattach \/ ReconnectFails \/ ReconnectUnwanted
Gone == status = "gone" /\ UNCHANGED vars

Next ==
  \/ \E line \in Lines : Forward(line) \/ Enqueue(line) \/ FailFast(line)
  \/ Drain
  \/ ClientEnds
  \/ \E r \in Requests, isError \in BOOLEAN : VaultAnswers(r, isError)
  \/ ReadAnswer
  \/ CloseAfterEnd
  \/ \E young \in BOOLEAN : SocketClose(young)
  \/ GraceFires
  \/ ReconnectSettles
  \/ Exit
  \/ Gone

Spec == Init /\ [][Next]_vars

\* A vault answers what it was asked unless its socket dies, what it answered
\* is read, the wait for it has a deadline, and so has the flush of stdout.
FairSpec ==
  /\ Spec
  /\ WF_vars(\E r \in Requests, isError \in BOOLEAN : VaultAnswers(r, isError))
  /\ WF_vars(ReadAnswer)
  /\ WF_vars(ReconnectSettles)
  /\ WF_vars(Exit)
-----------------------------------------------------------------------------
Received == UNION {taken[i] : i \in 1..Len(taken)}
Unanswered == {r \in Requests \intersect Received : answers[r] = 0}

\* The client gets no second answer to a request, however failures, answers and
\* replays race (359-363, 384-389, 400-408).
AnsweredOnce == \A r \in Requests : answers[r] <= 1

\* No request vanishes.  What the queue holds is unanswered, so that nobody is
\* told of a failure and has the call carried out later; an unanswered request is
\* queued, on its way, or the initialize awaiting its replay; and with the socket
\* down it is queued even while the bridge exits, the initialize apart, unless
\* the client had closed stdin before (400-408, 422-452, 743-752).
NothingVanishes ==
  /\ Queued \intersect Requests \subseteq Unanswered
  /\ status = "up" =>
       Unanswered \subseteq Queued \union owed \union replies
                            \union (IF reconnecting THEN {Initialize} ELSE {})
  /\ ~sockUp /\ ~halfClosed => Unanswered \subseteq Queued \union {Initialize}

\* On a connection the preamble is the first line, if there is one, the handshake
\* comes next, and each line of it comes once.
Greeted(w) ==
  /\ \A i \in 1..Len(w) : w[i] = {Preamble} <=> CodeMode /\ i = 1
  /\ CodeMode => w # <<>>
  /\ \A i, j \in 1..Len(w) : w[i] \subseteq Handshake /\ w[i] = w[j] => i = j
  /\ \A i \in 1..Len(w) : w[i] # {Preamble} /\ w[i] # {Initialize} =>
       \E j \in 1..i : w[j] = {Initialize}

WiresGreeted ==
  /\ \A c \in 1..Len(wire) : Greeted(wire[c])
  /\ sockUp => \A m \in captured : \E i \in 1..Len(wire[Len(wire)]) : wire[Len(wire)][i] = {m}

\* All of the handshake that was known when the connection opened, and nothing but
\* the preamble, is written to it before anything else.
HandshakeLeads(w, known) ==
  \A m \in known : \E i \in 1..Len(w) :
    /\ w[i] = {m}
    /\ \A j \in 1..i : w[j] = {Preamble} \/ \E h \in known : w[j] = {h}

\* Every connection is opened by the preamble, if there is one, and the initialize,
\* and bears each line of the handshake once; a reopened one is handed the whole
\* handshake the client has sent so far, its confirmation included, before any
\* line of the queue (623-626, 721-730).
GreetedFirst ==
  /\ []WiresGreeted
  /\ [][Len(wire') > Len(wire) => HandshakeLeads(wire'[Len(wire')], captured)]_wire

Carries(c, i) == wire[c][i] \subseteq Calls \union Notes
Places == UNION {{<<c, i>> : i \in {k \in 1..Len(wire[c]) : Carries(c, k)}} : c \in 1..Len(wire)}
Precedes(p, q) == p[1] < q[1] \/ (p[1] = q[1] /\ p[2] < q[2])
TakenAt(p) == CHOOSE i \in 1..Len(taken) : wire[p[1]][p[2]] \subseteq taken[i]

Written == UNION {UNION {wire[c][i] : i \in 1..Len(wire[c])} : c \in 1..Len(wire)}

\* The vault is handed the client's messages in the client's order, across all
\* connections, none of them twice; and a notification is written, is queued, or
\* was given up for want of room past the grace or at exit, even if the requests
\* it shared a batch with were failed (216-224, 422-452, 721-730).
InOrderOnce ==
  /\ \A p, q \in Places : Precedes(p, q) => TakenAt(p) < TakenAt(q)
  /\ Received \intersect Notes \subseteq Written \union Queued \union discarded

\* Once the grace has run out nobody waits for the vault: neither a request, the
\* initialize apart, nor the client with its stdin paused (554-566, 691-703).
NobodyWaitsPastTheGrace ==
  graceExpired => ~clientPaused /\ Unanswered \subseteq {Initialize}

\* Every request is answered in the end, unless the bridge exits, whatever its
\* connections do meanwhile (656-741).
EveryRequestAnswered ==
  \A r \in Requests : r \in Received ~> answers[r] > 0 \/ status = "gone"
=============================================================================
