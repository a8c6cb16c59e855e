-------------------------- MODULE AdmissionProofs --------------------------
(***************************************************************************)
(* Proofs about Admission, for any number of gestures, proposals, mounts    *)
(* and faults: typing together with the services' chains, the life of a     *)
(* claim, and from them what callers are told, the projection, the absence  *)
(* of seen duplicates and the refinement of the standing ledger.            *)
(***************************************************************************)
EXTENDS Admission, SequenceTheorems, TLAPS

\* Two calls that differ in no field the proofs read.
Alike(c, d) ==
  /\ d.phase = c.phase /\ d.decision = c.decision /\ d.at = c.at
  /\ d.preHead = c.preHead /\ d.seen = c.seen
  /\ d.expected = c.expected /\ d.blind = c.blind
  /\ d.todo = c.todo /\ d.writing = c.writing /\ d.result = c.result
Others(g) == \A h \in Gestures : h # g => Alike(call[h], call'[h])

\* What a call keeps from one step to the next.
Keeps(c, d) ==
  d.decision = c.decision /\ d.at = c.at /\ d.expected = c.expected /\ d.blind = c.blind
\* A call without locals.
Blank(c) == c.preHead = Unknown /\ c.seen = Unread /\ c.todo = {} /\ c.writing = {}
Fits == call \in [Gestures -> Calls]
-----------------------------------------------------------------------------
(* What the steps do to the calls.                                         *)

LEMMA CallFields ==
  ASSUME Fits, NEW g \in Gestures
  PROVE  /\ call[g] \in Calls
         /\ call[g].phase \in Phases /\ call[g].decision \in Decisions
         /\ call[g].at \in Mounts /\ call[g].expected \in Gestures \union {NoClaim}
         /\ call[g].preHead \in Gestures \union {NoClaim, Unknown}
         /\ call[g].seen \in (SUBSET Gestures) \union {Unread}
         /\ call[g].blind \in BOOLEAN
         /\ call[g].todo \in SUBSET Proposals /\ call[g].writing \in SUBSET Proposals
BY DEF Fits, Calls

LEMMA Members == ASSUME NEW d \in Decisions PROVE d.members \in SUBSET Proposals
BY DEF Decisions

LEMMA RemainsFields ==
  ASSUME NEW c \in Calls, NEW ph \in Phases, NEW res \in Results
  PROVE  /\ Remains(c, ph, res) \in Calls
         /\ Remains(c, ph, res).phase = ph /\ Remains(c, ph, res).result = res
         /\ Keeps(c, Remains(c, ph, res)) /\ Blank(Remains(c, ph, res))
<1>1. /\ c.decision \in Decisions /\ c.at \in Mounts
      /\ c.expected \in Gestures \union {NoClaim} /\ c.blind \in BOOLEAN
  BY DEF Calls
<1> QED BY <1>1 DEF Remains, Bare, Calls, Keeps, Blank

LEMMA GoesFields ==
  ASSUME Fits, NEW g \in Gestures, NEW ph \in Phases, Goes(g, ph)
  PROVE  /\ Fits' /\ Others(g)
         /\ call'[g].phase = ph /\ Keeps(call[g], call'[g])
         /\ call'[g].preHead = call[g].preHead /\ call'[g].seen = call[g].seen
         /\ call'[g].todo = call[g].todo /\ call'[g].writing = call[g].writing
         /\ call'[g].result = call[g].result
BY DEF Fits, Goes, Calls, Others, Alike, Keeps

LEMMA EndsFields ==
  ASSUME Fits, NEW g \in Gestures, NEW res \in Results, Ends(g, res)
  PROVE  /\ Fits' /\ Others(g)
         /\ call'[g].phase = "done" /\ call'[g].result = res
         /\ Keeps(call[g], call'[g]) /\ Blank(call'[g])
<1>1. "done" \in Phases
  BY DEF Phases
<1>2. /\ Remains(call[g], "done", res) \in Calls
      /\ Remains(call[g], "done", res).phase = "done"
      /\ Remains(call[g], "done", res).result = res
      /\ Keeps(call[g], Remains(call[g], "done", res))
      /\ Blank(Remains(call[g], "done", res))
  BY <1>1, CallFields, RemainsFields
<1>3. call' = [call EXCEPT ![g] = Remains(call[g], "done", res)]
  BY DEF Ends
<1> HIDE DEF Remains
<1> QED BY <1>2, <1>3 DEF Fits, Others, Alike

\* A call that turns to the projections.
Turns(c, res) == [Remains(c, "catchingUp", res) EXCEPT !.todo = c.decision.members]

LEMMA TurnsFields ==
  ASSUME NEW c \in Calls, NEW res \in Results
  PROVE  /\ Turns(c, res) \in Calls
         /\ Turns(c, res).phase = "catchingUp" /\ Turns(c, res).result = res
         /\ Keeps(c, Turns(c, res))
         /\ Turns(c, res).preHead = Unknown /\ Turns(c, res).seen = Unread
         /\ Turns(c, res).todo = c.decision.members /\ Turns(c, res).writing = {}
<1>1. /\ c.decision \in Decisions /\ c.at \in Mounts
      /\ c.expected \in Gestures \union {NoClaim} /\ c.blind \in BOOLEAN
      /\ c.decision.members \in SUBSET Proposals
  BY Members DEF Calls
<1> QED BY <1>1 DEF Turns, Remains, Bare, Calls, Keeps, Phases

LEMMA CatchesUpFields ==
  ASSUME Fits, NEW g \in Gestures, NEW res \in Results, CatchesUp(g, res)
  PROVE  /\ Fits' /\ Others(g) /\ call'[g] = Turns(call[g], res)
<1>1. call' = [call EXCEPT ![g] = Turns(call[g], res)]
  BY DEF CatchesUp, Turns, DecisionOf
<1>2. Turns(call[g], res) \in Calls
  BY CallFields, TurnsFields
<1> QED BY <1>1, <1>2 DEF Fits, Others, Alike

\* The calls, whoever's read detached them.
LEMMA DetachedFields ==
  ASSUME Fits, NEW g \in Gestures
  PROVE  /\ Detached(g) \in [Gestures -> Calls]
         /\ \A h \in Gestures : Alike(call[h], Detached(g)[h])
         /\ Detached(g)[g] = call[g]
<1>1. ASSUME NEW c \in Calls
      PROVE  /\ [c EXCEPT !.attached = FALSE] \in Calls
             /\ Alike(c, [c EXCEPT !.attached = FALSE])
  BY DEF Calls, Alike
<1>2. \A c \in Calls : Alike(c, c)
  BY DEF Alike
<1> QED BY <1>1, <1>2 DEF Detached, Fits

\* One call changed.
LEMMA UpdateFields ==
  ASSUME Fits, NEW g \in Gestures, NEW q \in Calls, call' = [call EXCEPT ![g] = q]
  PROVE  Fits' /\ Others(g) /\ call'[g] = q
BY DEF Fits, Others, Alike

\* ... and the others detached.
LEMMA DetachedUpdateFields ==
  ASSUME Fits, NEW g \in Gestures, NEW q \in Calls, call' = [Detached(g) EXCEPT ![g] = q]
  PROVE  Fits' /\ Others(g) /\ call'[g] = q
BY DetachedFields DEF Fits, Others

\* A look that queues the call.
Queues(g, ok) == call' = [Detached(g) EXCEPT ![g].phase = "queued", ![g].seen = Unread,
                                             ![g].observed = ok]
LEMMA QueuesFields ==
  ASSUME Fits, NEW g \in Gestures, NEW ok \in BOOLEAN, Queues(g, ok)
  PROVE  /\ Fits' /\ Others(g)
         /\ call'[g].phase = "queued" /\ Keeps(call[g], call'[g])
         /\ call'[g].preHead = call[g].preHead /\ call'[g].seen = Unread
         /\ call'[g].todo = call[g].todo /\ call'[g].writing = call[g].writing
         /\ call'[g].result = call[g].result
<1> DEFINE q == [call[g] EXCEPT !.phase = "queued", !.seen = Unread, !.observed = ok]
<1>1. call[g] \in Calls
  BY DEF Fits
<1>2. /\ q \in Calls /\ q.phase = "queued" /\ Keeps(call[g], q)
      /\ q.preHead = call[g].preHead /\ q.seen = Unread
      /\ q.todo = call[g].todo /\ q.writing = call[g].writing /\ q.result = call[g].result
  <2>1. ASSUME NEW c \in Calls
        PROVE  /\ [c EXCEPT !.phase = "queued"] \in Calls
               /\ [c EXCEPT !.seen = Unread] \in Calls
               /\ [c EXCEPT !.observed = ok] \in Calls
    BY DEF Calls, Phases
  <2>2. q \in Calls
    BY <1>1, <2>1
  <2> QED BY <1>1, <2>2 DEF Calls, Keeps
<1>3. call' = [Detached(g) EXCEPT ![g] = q]
  BY DetachedFields DEF Queues
<1> HIDE DEF q
<1>4. Fits' /\ Others(g) /\ call'[g] = q
  BY <1>2, <1>3, DetachedUpdateFields
<1> QED BY <1>2, <1>4

\* A look that fails, before or after the claims were read.
Stumble(c) == [[c EXCEPT !.phase = "rechecking"] EXCEPT !.seen = Unread]
LEMMA StumbleFields ==
  ASSUME NEW c \in Calls
  PROVE  /\ Stumble(c) \in Calls /\ Keeps(c, Stumble(c))
         /\ Stumble(c).phase = "rechecking" /\ Stumble(c).seen = Unread
         /\ Stumble(c).preHead = c.preHead /\ Stumble(c).todo = c.todo
         /\ Stumble(c).writing = c.writing /\ Stumble(c).result = c.result
<1> DEFINE b == [c EXCEPT !.phase = "rechecking"]
<1>1. /\ b \in Calls /\ b.phase = "rechecking" /\ Keeps(c, b)
      /\ b.preHead = c.preHead /\ b.todo = c.todo /\ b.writing = c.writing /\ b.result = c.result
  BY DEF Calls, Phases, Keeps
<1>2. ASSUME NEW d \in Calls
      PROVE  LET e == [d EXCEPT !.seen = Unread]
             IN  /\ e \in Calls /\ e.phase = d.phase /\ Keeps(d, e) /\ e.seen = Unread
                 /\ e.preHead = d.preHead /\ e.todo = d.todo /\ e.writing = d.writing
                 /\ e.result = d.result
  BY <1>2 DEF Calls, Keeps
<1> HIDE DEF b
<1>3. Stumble(c) = [b EXCEPT !.seen = Unread]
  BY DEF Stumble, b
<1> QED BY <1>1, <1>2, <1>3 DEF Keeps

\* A judgement that goes on to the claim.
ClaimsOn(g, head, blind) ==
  call' = [call EXCEPT ![g].phase = "claiming", ![g].expected = head,
                       ![g].blind = blind, ![g].attached = TRUE,
                       ![g].fresh = FALSE, ![g].observed = FALSE]
LEMMA ClaimsFields ==
  ASSUME Fits, NEW g \in Gestures, NEW head \in Gestures \union {NoClaim}, NEW blind \in BOOLEAN,
         ClaimsOn(g, head, blind)
  PROVE  /\ Fits' /\ Others(g)
         /\ call'[g].phase = "claiming" /\ call'[g].expected = head /\ call'[g].blind = blind
         /\ call'[g].decision = call[g].decision /\ call'[g].at = call[g].at
         /\ call'[g].preHead = call[g].preHead /\ call'[g].seen = call[g].seen
         /\ call'[g].todo = call[g].todo /\ call'[g].writing = call[g].writing
         /\ call'[g].result = call[g].result
<1> DEFINE q == [call[g] EXCEPT !.phase = "claiming", !.expected = head, !.blind = blind,
                                !.attached = TRUE, !.fresh = FALSE, !.observed = FALSE]
<1>1. call[g] \in Calls
  BY DEF Fits
<1>2. q \in Calls
  <2>1. ASSUME NEW c \in Calls
        PROVE  /\ [c EXCEPT !.phase = "claiming"] \in Calls /\ [c EXCEPT !.expected = head] \in Calls
               /\ [c EXCEPT !.blind = blind] \in Calls /\ [c EXCEPT !.attached = TRUE] \in Calls
               /\ [c EXCEPT !.fresh = FALSE] \in Calls /\ [c EXCEPT !.observed = FALSE] \in Calls
    <3>1. [c EXCEPT !.phase = "claiming"] \in Calls
      BY DEF Calls, Phases
    <3>2. [c EXCEPT !.expected = head] \in Calls
      BY DEF Calls
    <3>3. [c EXCEPT !.blind = blind] \in Calls
      BY DEF Calls
    <3>4. [c EXCEPT !.attached = TRUE] \in Calls
      BY DEF Calls
    <3>5. [c EXCEPT !.fresh = FALSE] \in Calls /\ [c EXCEPT !.observed = FALSE] \in Calls
      BY DEF Calls
    <3> QED BY <3>1, <3>2, <3>3, <3>4, <3>5
  <2>2. q = [[[[[[call[g] EXCEPT !.phase = "claiming"] EXCEPT !.expected = head] EXCEPT !.blind = blind]
                  EXCEPT !.attached = TRUE] EXCEPT !.fresh = FALSE] EXCEPT !.observed = FALSE]
    OBVIOUS
  <2> QED BY <1>1, <2>1, <2>2
<1>3. /\ q.phase = "claiming" /\ q.expected = head /\ q.blind = blind
      /\ q.decision = call[g].decision /\ q.at = call[g].at
      /\ q.preHead = call[g].preHead /\ q.seen = call[g].seen
      /\ q.todo = call[g].todo /\ q.writing = call[g].writing /\ q.result = call[g].result
  BY <1>1 DEF Calls
<1>4. call' = [call EXCEPT ![g] = q]
  BY DEF ClaimsOn
<1> HIDE DEF q
<1>5. Fits' /\ Others(g) /\ call'[g] = q
  BY <1>2, <1>4, UpdateFields
<1> QED BY <1>2, <1>3, <1>5

\* A step of the projections.
TurnsTo(g, todo, ps) ==
  call' = [call EXCEPT ![g].todo = todo, ![g].attached = TRUE, ![g].writing = ps]
LEMMA WritingFields ==
  ASSUME Fits, NEW g \in Gestures, NEW todo \in SUBSET Proposals, NEW ps \in SUBSET Proposals,
         TurnsTo(g, todo, ps)
  PROVE  /\ Fits' /\ Others(g) /\ Keeps(call[g], call'[g])
         /\ call'[g].phase = call[g].phase /\ call'[g].result = call[g].result
         /\ call'[g].preHead = call[g].preHead /\ call'[g].seen = call[g].seen
         /\ call'[g].todo = todo /\ call'[g].writing = ps
<1> DEFINE q == [call[g] EXCEPT !.todo = todo, !.attached = TRUE, !.writing = ps]
<1>1. call[g] \in Calls
  BY DEF Fits
<1>2. q \in Calls
  <2>1. ASSUME NEW c \in Calls
        PROVE  /\ [c EXCEPT !.todo = todo] \in Calls /\ [c EXCEPT !.writing = ps] \in Calls
               /\ [c EXCEPT !.attached = TRUE] \in Calls
    BY DEF Calls
  <2>2. q = [[[call[g] EXCEPT !.todo = todo] EXCEPT !.attached = TRUE] EXCEPT !.writing = ps]
    OBVIOUS
  <2> QED BY <1>1, <2>1, <2>2
<1>3. /\ Keeps(call[g], q) /\ q.phase = call[g].phase /\ q.result = call[g].result
      /\ q.preHead = call[g].preHead /\ q.seen = call[g].seen
      /\ q.todo = todo /\ q.writing = ps
  BY <1>1 DEF Calls, Keeps
<1>4. call' = [call EXCEPT ![g] = q]
  BY DEF TurnsTo
<1> HIDE DEF q
<1> QED BY <1>2, <1>3, <1>4 DEF Fits, Others, Alike
-----------------------------------------------------------------------------
(* The steps that read more than one thing.                                *)

\* What typing says of the variables the steps below read.
LEMMA Typed ==
  ASSUME TypeOK
  PROVE  /\ Fits /\ mount \in Mounts
         /\ StandingHead \in Gestures \union {NoClaim}
         /\ \A m \in Mounts : /\ cache[m] \in (SUBSET Gestures) \union {Unread}
                              /\ Known(m) \in SUBSET Gestures
                              /\ chain[m] \in Seq(Gestures)
         /\ faults \in Nat /\ MaxFaults \in Nat
<1>1. StandingHead \in Gestures \union {NoClaim}
  BY DEF TypeOK, StandingHead
<1>2. \A m \in Mounts : Known(m) \in SUBSET Gestures
  BY DEF TypeOK, Known
<1> QED BY <1>1, <1>2, AdmissionAssumption DEF TypeOK, Fits

\* A seen read is never the mark of none, and neither is the file.
LEMMA UnreadIsNoRead == Unread \notin SUBSET Gestures
BY AdmissionAssumption DEF Unread

LEMMA IdleFields ==
  /\ IdleCall \in Calls
  /\ IdleCall.expected = NoClaim /\ Blank(IdleCall) /\ IdleCall.result = "none"
<1>1. NoDecision \in Decisions /\ 1 \in Mounts
  BY AdmissionAssumption DEF NoDecision, Decisions, Mounts
<1> QED BY <1>1 DEF IdleCall, Bare, Calls, Phases, Results, Blank

LEMMA ClickFields ==
  ASSUME TypeOK, NEW g \in Gestures, Click(g)
  PROVE  /\ Fits' /\ Others(g) /\ call[g].phase = "idle"
         /\ call'[g].phase = "looking" /\ call'[g].at = mount /\ call'[g].expected = NoClaim
         /\ call'[g].todo = {} /\ call'[g].writing = {} /\ call'[g].result = "none"
         /\ call'[g].preHead \in {StandingHead, Unknown}
         /\ call'[g].seen = Unread \/ (cache[mount] = Unread /\ call'[g].seen = claimLines)
         /\ faults' \in {faults, faults + 1} /\ faults' <= MaxFaults
         /\ call'[g].preHead = Unknown => faults' = faults + 1
<1>1. PICK d \in Offered, pre \in {StandingHead, Unknown} :
        /\ IF pre = Unknown THEN Faults ELSE UNCHANGED faults
        /\ call' = [call EXCEPT ![g] = [IdleCall EXCEPT
             !.phase = "looking", !.decision = d, !.at = mount, !.preHead = pre,
             !.fresh = \A p \in d.members : authority[p] = "proposed",
             !.seen = IF pre \in Gestures /\ cache[mount] = Unread THEN claimLines ELSE Unread]]
  BY DEF Click
<1> DEFINE seen == IF pre \in Gestures /\ cache[mount] = Unread THEN claimLines ELSE Unread
           fresh == \A p \in d.members : authority[p] = "proposed"
           q == [IdleCall EXCEPT !.phase = "looking", !.decision = d, !.at = mount,
                                 !.preHead = pre, !.fresh = fresh, !.seen = seen]
<1>2. call' = [call EXCEPT ![g] = q]
  BY <1>1
<1>3. /\ d \in Decisions /\ mount \in Mounts /\ fresh \in BOOLEAN
      /\ pre \in Gestures \union {NoClaim, Unknown}
      /\ seen \in (SUBSET Gestures) \union {Unread}
  BY <1>1, Typed DEF Offered, TypeOK
<1> HIDE DEF seen, fresh
<1>4. /\ q \in Calls
      /\ q.phase = "looking" /\ q.at = mount /\ q.preHead = pre /\ q.seen = seen
      /\ q.expected = NoClaim /\ q.todo = {} /\ q.writing = {} /\ q.result = "none"
  <2>1. ASSUME NEW c \in Calls
        PROVE  /\ [c EXCEPT !.phase = "looking"] \in Calls /\ [c EXCEPT !.decision = d] \in Calls
               /\ [c EXCEPT !.at = mount] \in Calls /\ [c EXCEPT !.preHead = pre] \in Calls
               /\ [c EXCEPT !.fresh = fresh] \in Calls /\ [c EXCEPT !.seen = seen] \in Calls
    BY <1>3 DEF Calls, Phases
  <2>2. q \in Calls
    BY <2>1, IdleFields
  <2>3. /\ q.phase = "looking" /\ q.at = mount /\ q.preHead = pre /\ q.seen = seen
        /\ q.expected = IdleCall.expected /\ q.todo = IdleCall.todo
        /\ q.writing = IdleCall.writing /\ q.result = IdleCall.result
    BY IdleFields DEF Calls
  <2> QED BY <2>2, <2>3, IdleFields DEF Blank
<1>5. Fits' /\ Others(g) /\ call'[g] = q
  <2> HIDE DEF q
  <2> QED BY <1>2, <1>4, UpdateFields, Typed
<1>6. /\ faults' \in {faults, faults + 1} /\ faults' <= MaxFaults
      /\ pre = Unknown => faults' = faults + 1
  BY <1>1, Typed DEF Faults, TypeOK
<1>7. call[g].phase = "idle"
  BY DEF Click
<1>8. seen = Unread \/ (cache[mount] = Unread /\ seen = claimLines)
  BY DEF seen
<1> HIDE DEF q
<1> QED BY <1>1, <1>4, <1>5, <1>6, <1>7, <1>8

LEMMA ClickRevertFields ==
  ASSUME TypeOK, NEW g \in Gestures, ClickRevert(g)
  PROVE  /\ Fits' /\ Others(g) /\ call[g].phase = "idle"
         /\ call'[g].expected = NoClaim /\ Blank(call'[g])
         /\ \/ call'[g].phase = "reverting" /\ call'[g].result = "none"
            \/ call'[g].phase = "done" /\ call'[g].result = "refused"
<1>1. PICK p \in Proposals, granted \in BOOLEAN :
        call' = [call EXCEPT ![g] = [IdleCall EXCEPT
          !.phase = IF granted THEN "reverting" ELSE "done",
          !.decision = [kind |-> "revert", members |-> {p}],
          !.at = mount,
          !.result = IF granted THEN "none" ELSE "refused"]]
  <2>1. PICK p \in Proposals :
          LET granted == authority[p] = "proposed" /\ base[p] # "absent"
          IN  call' = [call EXCEPT ![g] = [IdleCall EXCEPT
                !.phase = IF granted THEN "reverting" ELSE "done",
                !.decision = [kind |-> "revert", members |-> {p}],
                !.at = mount,
                !.result = IF granted THEN "none" ELSE "refused"]]
    BY DEF ClickRevert
  <2>2. (authority[p] = "proposed" /\ base[p] # "absent") \in BOOLEAN
    OBVIOUS
  <2> QED BY <2>1, <2>2
<1> DEFINE ph == IF granted THEN "reverting" ELSE "done"
           res == IF granted THEN "none" ELSE "refused"
           d == [kind |-> "revert", members |-> {p}]
           q == [IdleCall EXCEPT !.phase = ph, !.decision = d, !.at = mount, !.result = res]
<1>2. call' = [call EXCEPT ![g] = q]
  BY <1>1
<1>3. d \in Decisions /\ mount \in Mounts /\ ph \in Phases /\ res \in Results
  BY Typed DEF Decisions, Phases, Results
<1>4. /\ q \in Calls /\ q.phase = ph /\ q.result = res /\ q.expected = NoClaim /\ Blank(q)
  <2> HIDE DEF ph, res, d
  <2>1. ASSUME NEW c \in Calls
        PROVE  /\ [c EXCEPT !.phase = ph] \in Calls /\ [c EXCEPT !.decision = d] \in Calls
               /\ [c EXCEPT !.at = mount] \in Calls /\ [c EXCEPT !.result = res] \in Calls
    BY <1>3 DEF Calls
  <2>2. q \in Calls
    BY <2>1, IdleFields
  <2>3. /\ q.phase = ph /\ q.result = res /\ q.expected = IdleCall.expected
        /\ q.preHead = IdleCall.preHead /\ q.seen = IdleCall.seen
        /\ q.todo = IdleCall.todo /\ q.writing = IdleCall.writing
    BY IdleFields DEF Calls
  <2> QED BY <2>2, <2>3, IdleFields DEF Blank
<1>5. Fits' /\ Others(g) /\ call'[g] = q
  <2> HIDE DEF q
  <2> QED BY <1>2, <1>4, UpdateFields, Typed
<1> QED BY <1>4, <1>5 DEF ClickRevert

LEMMA LookFields ==
  ASSUME TypeOK, NEW g \in Gestures, Look(g)
  PROVE  /\ Fits' /\ Others(g) /\ call[g].phase = "looking" /\ Keeps(call[g], call'[g])
         /\ call'[g].seen = Unread
         /\ cache' = [cache EXCEPT ![call[g].at] = CacheAfterRead(g)]
         /\ UNCHANGED <<durable, proposals, notes, mount, faults>>
         /\ \/ /\ call[g].preHead \in Gestures /\ DecisionOf(call[g].preHead) = DecisionOf(g)
               /\ call'[g] = Turns(call[g], "already") /\ chain' = chain
            \/ call'[g] = Remains(call[g], "done", "refused") /\ chain' = chain
            \/ /\ call'[g].phase = "queued" /\ call'[g].preHead = call[g].preHead
               /\ call'[g].todo = call[g].todo /\ call'[g].writing = call[g].writing
               /\ call'[g].result = call[g].result
               /\ chain' = [chain EXCEPT ![call[g].at] = Append(@, g)]
<1>1. Fits /\ call[g] \in Calls
  BY Typed, CallFields
<1>2. /\ "already" \in Results /\ "refused" \in Results /\ "done" \in Phases
  BY DEF Results, Phases
<1>3. /\ call[g].phase = "looking"
      /\ cache' = [cache EXCEPT ![call[g].at] = CacheAfterRead(g)]
      /\ UNCHANGED <<durable, proposals, notes, mount, faults>>
  BY DEF Look
<1>4. CASE /\ call[g].preHead \in Gestures /\ Covers(call[g].preHead, g, CacheAfterRead(g))
           /\ call' = [Detached(g) EXCEPT ![g] = Turns(Detached(g)[g], "already")]
           /\ UNCHANGED chain
  <2>1. /\ Turns(call[g], "already") \in Calls /\ Keeps(call[g], Turns(call[g], "already"))
        /\ Turns(call[g], "already").seen = Unread
    BY <1>1, <1>2, TurnsFields
  <2>2. call' = [Detached(g) EXCEPT ![g] = Turns(call[g], "already")]
    BY <1>1, <1>4, DetachedFields
  <2>3. Fits' /\ Others(g) /\ call'[g] = Turns(call[g], "already")
    BY <1>1, <2>1, <2>2, DetachedUpdateFields
  <2> QED BY <1>3, <1>4, <2>1, <2>3 DEF Covers
<1>5. CASE /\ call' = [Detached(g) EXCEPT ![g] = Remains(Detached(g)[g], "done", "refused")]
           /\ UNCHANGED chain
  <2>1. /\ Remains(call[g], "done", "refused") \in Calls
        /\ Keeps(call[g], Remains(call[g], "done", "refused"))
        /\ Remains(call[g], "done", "refused").seen = Unread
    BY <1>1, <1>2, RemainsFields DEF Blank
  <2>2. call' = [Detached(g) EXCEPT ![g] = Remains(call[g], "done", "refused")]
    BY <1>1, <1>5, DetachedFields
  <2>3. Fits' /\ Others(g) /\ call'[g] = Remains(call[g], "done", "refused")
    BY <1>1, <2>1, <2>2, DetachedUpdateFields
  <2> QED BY <1>3, <1>5, <2>1, <2>3
<1>6. CASE /\ Queues(g, AsProposed(DecisionOf(g)))
           /\ chain' = [chain EXCEPT ![call[g].at] = Append(@, g)]
  <2>1. AsProposed(DecisionOf(g)) \in BOOLEAN
    BY DEF AsProposed
  <2> QED BY <1>1, <1>3, <1>6, <2>1, QueuesFields
<1>7. \/ /\ call[g].preHead \in Gestures /\ Covers(call[g].preHead, g, CacheAfterRead(g))
         /\ call' = [Detached(g) EXCEPT ![g] = Turns(Detached(g)[g], "already")]
         /\ UNCHANGED chain
      \/ /\ call' = [Detached(g) EXCEPT ![g] = Remains(Detached(g)[g], "done", "refused")]
         /\ UNCHANGED chain
      \/ /\ Queues(g, AsProposed(DecisionOf(g)))
         /\ chain' = [chain EXCEPT ![call[g].at] = Append(@, g)]
  <2>1. Detached(g)[g].decision = DecisionOf(g)
    BY <1>1, DetachedFields DEF DecisionOf
  <2> QED BY <2>1, Zenon DEF Look, Turns, Queues
<1> QED BY <1>4, <1>5, <1>6, <1>7

LEMMA LookThrowsFields ==
  ASSUME TypeOK, NEW g \in Gestures, LookThrows(g)
  PROVE  /\ Fits' /\ Others(g) /\ call[g].phase = "looking" /\ call'[g] = Stumble(call[g])
<1>1. Fits /\ call[g] \in Calls /\ Stumble(call[g]) \in Calls
  BY Typed, CallFields, StumbleFields
<1>2. CASE call' = [call EXCEPT ![g].phase = "rechecking", ![g].seen = Unread]
  <2>1. call' = [call EXCEPT ![g] = Stumble(call[g])]
    BY <1>1, <1>2 DEF Fits, Stumble
  <2> QED BY <1>1, <2>1, UpdateFields DEF LookThrows
<1>3. CASE call' = [Detached(g) EXCEPT ![g].phase = "rechecking", ![g].seen = Unread]
  <2>1. call' = [Detached(g) EXCEPT ![g] = Stumble(call[g])]
    BY <1>1, <1>3, DetachedFields DEF Stumble
  <2> QED BY <1>1, <2>1, DetachedUpdateFields DEF LookThrows
<1> QED BY <1>2, <1>3, Zenon DEF LookThrows

LEMMA JudgeFields ==
  ASSUME TypeOK, NEW g \in Gestures, Judge(g)
  PROVE  /\ Fits' /\ Others(g) /\ call[g].phase = "queued" /\ Serving(g)
         /\ cache' \in {cache, [cache EXCEPT ![call[g].at] = Known(call[g].at)]}
         /\ UNCHANGED <<durable, proposals, notes, mount, faults>>
         /\ \/ /\ call'[g].phase = "done" /\ call'[g].result = "refused"
               /\ Keeps(call[g], call'[g]) /\ Blank(call'[g]) /\ LeaveChain(g)
            \/ /\ call'[g].phase = "claiming" /\ call'[g].expected = StandingHead
               /\ call'[g].decision = call[g].decision /\ call'[g].at = call[g].at
               /\ call'[g].preHead = call[g].preHead /\ call'[g].seen = call[g].seen
               /\ call'[g].todo = call[g].todo /\ call'[g].writing = call[g].writing
               /\ call'[g].result = call[g].result
               /\ ~Covers(StandingHead, g, Known(call[g].at))
               /\ call'[g].blind = (StandingHead \notin Known(call[g].at) \union {NoClaim})
               /\ cache' = [cache EXCEPT ![call[g].at] = Known(call[g].at)]
               /\ chain' = chain
<1>1. Fits /\ "refused" \in Results /\ StandingHead \in Gestures \union {NoClaim}
  BY Typed DEF Results
<1> DEFINE blind == StandingHead \notin Known(call[g].at) \union {NoClaim}
<1>2. blind \in BOOLEAN
  OBVIOUS
<1>3. CASE /\ Ends(g, "refused") /\ LeaveChain(g)
           /\ cache' \in {cache, [cache EXCEPT ![call[g].at] = Known(call[g].at)]}
  BY <1>1, <1>3, EndsFields DEF Judge
<1>4. CASE /\ ClaimsOn(g, StandingHead, blind) /\ ~Covers(StandingHead, g, Known(call[g].at))
           /\ cache' = [cache EXCEPT ![call[g].at] = Known(call[g].at)] /\ chain' = chain
  <2> HIDE DEF blind
  <2>1. /\ Fits' /\ Others(g)
        /\ call'[g].phase = "claiming" /\ call'[g].expected = StandingHead /\ call'[g].blind = blind
        /\ call'[g].decision = call[g].decision /\ call'[g].at = call[g].at
        /\ call'[g].preHead = call[g].preHead /\ call'[g].seen = call[g].seen
        /\ call'[g].todo = call[g].todo /\ call'[g].writing = call[g].writing
        /\ call'[g].result = call[g].result
    BY <1>1, <1>2, <1>4, ClaimsFields
  <2> QED BY <1>4, <2>1 DEF Judge, blind
<1>5. \/ /\ Ends(g, "refused") /\ LeaveChain(g)
         /\ cache' \in {cache, [cache EXCEPT ![call[g].at] = Known(call[g].at)]}
      \/ /\ ClaimsOn(g, StandingHead, blind) /\ ~Covers(StandingHead, g, Known(call[g].at))
         /\ cache' = [cache EXCEPT ![call[g].at] = Known(call[g].at)] /\ chain' = chain
  BY DEF Judge, ClaimsOn
<1> QED BY <1>3, <1>4, <1>5
-----------------------------------------------------------------------------
(* The services' chains.                                                   *)

Distinct == \A m \in Mounts : \A i, j \in 1..Len(chain[m]) : chain[m][i] = chain[m][j] => i = j
ChainInv == ChainNeverWedges /\ Distinct

\* Past its judgement a call is served.
LEMMA PastJudgement ==
  ASSUME TypeOK, ChainInv, NEW g \in Gestures, call[g].phase \in Inside \ {"queued"}
  PROVE  Serving(g)
<1>1. call[g].at \in Mounts /\ chain[call[g].at] \in Seq(Gestures)
  BY Typed, CallFields
<1>2. PICK i \in 1..Len(chain[call[g].at]) : chain[call[g].at][i] = g
  BY DEF ChainInv, ChainNeverWedges
<1>3. i = 1
  BY <1>1, <1>2 DEF ChainInv, ChainNeverWedges
<1> QED BY <1>1, <1>2, <1>3 DEF Serving

\* The served call leaves.
LEMMA LeavesFields ==
  ASSUME TypeOK, NEW g \in Gestures, Serving(g), LeaveChain(g)
  PROVE  LET m == call[g].at
         IN  /\ m \in Mounts /\ chain' \in [Mounts -> Seq(Gestures)]
             /\ \A n \in Mounts \ {m} : chain'[n] = chain[n]
             /\ Len(chain[m]) \in Nat \ {0} /\ chain[m][1] = g
             /\ Len(chain'[m]) = Len(chain[m]) - 1
             /\ \A i \in 1..Len(chain'[m]) : chain'[m][i] = chain[m][i + 1]
<1>1. call[g].at \in Mounts /\ chain[call[g].at] \in Seq(Gestures)
  BY Typed, CallFields
<1> DEFINE s == chain[call[g].at]
<1>2. s # <<>> /\ Head(s) = g
  BY DEF Serving
<1>3. Len(s) \in Nat \ {0} /\ s[1] = g
  BY <1>1, <1>2
<1>4. /\ Tail(s) \in Seq(Gestures) /\ Len(Tail(s)) = Len(s) - 1
      /\ \A i \in 1..Len(Tail(s)) : Tail(s)[i] = s[i + 1]
  BY <1>1, <1>2, HeadTailProperties
<1>5. chain' = [chain EXCEPT ![call[g].at] = Tail(s)] /\ chain \in [Mounts -> Seq(Gestures)]
  BY DEF LeaveChain, TypeOK
<1> QED BY <1>1, <1>3, <1>4, <1>5

LEMMA ChainLeaves ==
  ASSUME TypeOK, ChainInv, NEW g \in Gestures, Serving(g), LeaveChain(g), Others(g),
         call'[g].phase \notin Inside
  PROVE  ChainInv'
<1> DEFINE m == call[g].at
<1>1. /\ m \in Mounts /\ chain' \in [Mounts -> Seq(Gestures)]
      /\ \A n \in Mounts \ {m} : chain'[n] = chain[n]
      /\ Len(chain[m]) \in Nat \ {0} /\ chain[m][1] = g
      /\ Len(chain'[m]) = Len(chain[m]) - 1
      /\ \A i \in 1..Len(chain'[m]) : chain'[m][i] = chain[m][i + 1]
  BY LeavesFields
<1>2. \A n \in Mounts : chain[n] \in Seq(Gestures)
  BY Typed
<1>3. Distinct'
  <2> SUFFICES ASSUME NEW n \in Mounts, NEW i \in 1..Len(chain'[n]), NEW j \in 1..Len(chain'[n]),
                      chain'[n][i] = chain'[n][j]
               PROVE  i = j
    BY DEF Distinct
  <2>1. CASE n = m
    <3>1. i + 1 \in 1..Len(chain[m]) /\ j + 1 \in 1..Len(chain[m])
      BY <1>1, <2>1
    <3>2. chain[m][i + 1] = chain[m][j + 1]
      BY <1>1, <2>1
    <3>3. i + 1 = j + 1
      <4>1. \A k, l \in 1..Len(chain[m]) : chain[m][k] = chain[m][l] => k = l
        BY <1>1 DEF ChainInv, Distinct
      <4> QED BY <3>1, <3>2, <4>1, Zenon
    <3> QED BY <3>3
  <2>2. CASE n # m
    BY <1>1, <2>2 DEF ChainInv, Distinct
  <2> QED BY <2>1, <2>2
<1>4. ASSUME NEW n \in Mounts, NEW i \in 1..Len(chain'[n])
      PROVE  /\ call'[chain'[n][i]].at = n
             /\ call'[chain'[n][i]].phase \in (IF i = 1 THEN Inside ELSE {"queued"})
  <2>1. CASE n = m
    <3>1. i + 1 \in 2..Len(chain[m]) /\ chain'[m][i] = chain[m][i + 1]
      BY <1>1, <2>1
    <3> DEFINE k == i + 1
    <3>2. k \in 1..Len(chain[m]) /\ k # 1 /\ 1 \in 1..Len(chain[m])
      BY <1>1, <3>1
    <3> HIDE DEF k
    <3>3. chain[m][k] # g /\ chain[m][k] \in Gestures
      <4>1. \A l \in 1..Len(chain[m]) : chain[m][l] = chain[m][1] => l = 1
        BY <1>1, <3>2, Zenon DEF ChainInv, Distinct
      <4>2. chain[m][k] # g
        BY <1>1, <3>2, <4>1, Zenon
      <4>3. chain[m][k] \in Gestures
        <5>1. chain[m] \in Seq(Gestures)
          BY <1>1, Typed
        <5> QED BY <3>2, <5>1, ElementOfSeq
      <4> QED BY <4>2, <4>3
    <3>4. call[chain[m][k]].at = m /\ call[chain[m][k]].phase = "queued"
      <4>1. call[chain[m][k]].phase \in (IF k = 1 THEN Inside ELSE {"queued"})
        BY <1>1, <3>2, Zenon DEF ChainInv, ChainNeverWedges
      <4>2. \A l \in 1..Len(chain[m]) : call[chain[m][l]].at = m
        BY <1>1 DEF ChainInv, ChainNeverWedges
      <4> QED BY <3>2, <4>1, <4>2
    <3>5. chain'[m][i] = chain[m][k]
      BY <3>1 DEF k
    <3> QED BY <2>1, <3>3, <3>4, <3>5 DEF Others, Alike, Inside
  <2>2. CASE n # m
    <3>1. /\ chain'[n] = chain[n] /\ chain[n][i] \in Gestures
          /\ call[chain[n][i]].at = n
          /\ call[chain[n][i]].phase \in (IF i = 1 THEN Inside ELSE {"queued"})
      BY <1>1, <1>2, <2>2 DEF ChainInv, ChainNeverWedges
    <3>2. chain[n][i] # g
      BY <2>2, <3>1
    <3> QED BY <3>1, <3>2 DEF Others, Alike
  <2> QED BY <2>1, <2>2
<1>5. ASSUME NEW h \in Gestures, call'[h].phase \in Inside
      PROVE  \E i \in 1..Len(chain'[call'[h].at]) : chain'[call'[h].at][i] = h
  <2>1. h # g /\ call[h].phase \in Inside /\ call'[h].at = call[h].at /\ call[h].at \in Mounts
    BY <1>5, Typed, CallFields DEF Others, Alike
  <2>2. PICK i \in 1..Len(chain[call[h].at]) : chain[call[h].at][i] = h
    BY <2>1 DEF ChainInv, ChainNeverWedges
  <2>3. CASE call[h].at = m
    <3>1. i # 1
      BY <1>1, <2>1, <2>2, <2>3
    <3>2. i - 1 \in 1..Len(chain'[m]) /\ (i - 1) + 1 = i
      BY <1>1, <2>2, <2>3, <3>1
    <3>3. chain'[m][i - 1] = chain[m][(i - 1) + 1]
      BY <1>1, <3>2
    <3> QED BY <2>1, <2>2, <2>3, <3>2, <3>3
  <2>4. CASE call[h].at # m
    BY <1>1, <2>1, <2>2, <2>4
  <2> QED BY <2>3, <2>4
<1> QED BY <1>3, <1>4, <1>5 DEF ChainInv, ChainNeverWedges

LEMMA ChainStays ==
  ASSUME TypeOK, ChainInv, NEW g \in Gestures, chain' = chain, Others(g),
         call[g].phase \in Inside => call'[g].phase \in Inside,
         call'[g].phase \in Inside =>
           call[g].phase \in Inside /\ Serving(g) /\ call'[g].at = call[g].at
  PROVE  ChainInv'
<1>1. \A n \in Mounts : chain[n] \in Seq(Gestures)
  BY Typed
<1>2. Distinct'
  BY DEF ChainInv, Distinct
<1>3. ASSUME NEW n \in Mounts, NEW i \in 1..Len(chain[n])
      PROVE  /\ call'[chain[n][i]].at = n
             /\ call'[chain[n][i]].phase \in (IF i = 1 THEN Inside ELSE {"queued"})
  <2>1. /\ chain[n][i] \in Gestures /\ call[chain[n][i]].at = n
        /\ call[chain[n][i]].phase \in (IF i = 1 THEN Inside ELSE {"queued"})
    BY <1>1 DEF ChainInv, ChainNeverWedges
  <2>2. CASE chain[n][i] # g
    BY <2>1, <2>2 DEF Others, Alike
  <2>3. CASE chain[n][i] = g
    <3>1. call[g].phase \in Inside /\ call[g].at = n
      BY <2>1, <2>3 DEF Inside
    <3>2. call'[g].phase \in Inside /\ Serving(g) /\ call'[g].at = n
      BY <3>1
    <3>3. chain[n][1] = g /\ 1 \in 1..Len(chain[n])
      BY <1>1, <3>1, <3>2 DEF Serving
    <3>4. i = 1
      BY <2>3, <3>3 DEF ChainInv, Distinct
    <3> QED BY <2>3, <3>2, <3>4
  <2> QED BY <2>2, <2>3
<1>4. ASSUME NEW h \in Gestures, call'[h].phase \in Inside
      PROVE  call[h].phase \in Inside /\ call'[h].at = call[h].at
  BY <1>4 DEF Others, Alike
<1> QED BY <1>2, <1>3, <1>4 DEF ChainInv, ChainNeverWedges

LEMMA ChainJoins ==
  ASSUME TypeOK, ChainInv, NEW g \in Gestures, Others(g), call[g].phase \notin Inside,
         call'[g].phase = "queued", call'[g].at = call[g].at,
         chain' = [chain EXCEPT ![call[g].at] = Append(@, g)]
  PROVE  ChainInv' /\ chain' \in [Mounts -> Seq(Gestures)]
<1> DEFINE m == call[g].at
           k == Len(chain[m])
<1>1. m \in Mounts /\ (\A n \in Mounts : chain[n] \in Seq(Gestures)) /\ k \in Nat
  BY Typed, CallFields
<1>2. /\ Append(chain[m], g) \in Seq(Gestures)
      /\ Len(Append(chain[m], g)) = k + 1
      /\ \A i \in 1..k : Append(chain[m], g)[i] = chain[m][i]
      /\ Append(chain[m], g)[k + 1] = g
  BY <1>1, AppendProperties
<1>3. /\ chain' \in [Mounts -> Seq(Gestures)]
      /\ \A n \in Mounts \ {m} : chain'[n] = chain[n]
      /\ Len(chain'[m]) = k + 1 /\ chain'[m][k + 1] = g
      /\ \A i \in 1..k : chain'[m][i] = chain[m][i]
  BY <1>1, <1>2 DEF TypeOK
<1>4. \A n \in Mounts : \A i \in 1..Len(chain[n]) : chain[n][i] # g /\ chain[n][i] \in Gestures
  BY <1>1 DEF ChainInv, ChainNeverWedges, Inside
<1>5. Distinct'
  <2> SUFFICES ASSUME NEW n \in Mounts, NEW i \in 1..Len(chain'[n]), NEW j \in 1..Len(chain'[n]),
                      chain'[n][i] = chain'[n][j]
               PROVE  i = j
    BY DEF Distinct
  <2>1. CASE n = m
    <3>1. i \in 1..k \/ i = k + 1
      BY <1>1, <1>3, <2>1
    <3>2. j \in 1..k \/ j = k + 1
      BY <1>1, <1>3, <2>1
    <3>3. CASE i \in 1..k /\ j \in 1..k
      BY <1>1, <1>3, <2>1, <3>3 DEF ChainInv, Distinct
    <3> QED BY <1>1, <1>3, <1>4, <2>1, <3>1, <3>2, <3>3
  <2>2. CASE n # m
    BY <1>3, <2>2 DEF ChainInv, Distinct
  <2> QED BY <2>1, <2>2
<1>6. ASSUME NEW n \in Mounts, NEW i \in 1..Len(chain'[n])
      PROVE  /\ call'[chain'[n][i]].at = n
             /\ call'[chain'[n][i]].phase \in (IF i = 1 THEN Inside ELSE {"queued"})
  <2>1. CASE n = m /\ i = k + 1
    BY <1>3, <2>1 DEF Inside
  <2>2. CASE ~(n = m /\ i = k + 1)
    <3>1. i \in 1..Len(chain[n]) /\ chain'[n][i] = chain[n][i]
      BY <1>1, <1>3, <2>2
    <3>2. /\ call[chain[n][i]].at = n
          /\ call[chain[n][i]].phase \in (IF i = 1 THEN Inside ELSE {"queued"})
      BY <3>1 DEF ChainInv, ChainNeverWedges
    <3> QED BY <1>4, <3>1, <3>2 DEF Others, Alike
  <2> QED BY <2>1, <2>2
<1>7. ASSUME NEW h \in Gestures, call'[h].phase \in Inside
      PROVE  \E i \in 1..Len(chain'[call'[h].at]) : chain'[call'[h].at][i] = h
  <2>1. CASE h = g
    BY <1>1, <1>3, <2>1
  <2>2. CASE h # g
    <3>1. call[h].phase \in Inside /\ call'[h].at = call[h].at /\ call[h].at \in Mounts
      BY <1>7, <2>2, Typed, CallFields DEF Others, Alike
    <3>2. PICK i \in 1..Len(chain[call[h].at]) : chain[call[h].at][i] = h
      BY <3>1 DEF ChainInv, ChainNeverWedges
    <3>3. i \in 1..Len(chain'[call[h].at]) /\ chain'[call[h].at][i] = chain[call[h].at][i]
      BY <1>1, <1>3, <3>1, <3>2
    <3> QED BY <3>1, <3>2, <3>3
  <2> QED BY <2>1, <2>2
<1> QED BY <1>3, <1>5, <1>6, <1>7 DEF ChainInv, ChainNeverWedges
-----------------------------------------------------------------------------
(* Typing, together with the chains.                                       *)

LEMMA PhaseNames ==
  /\ {"idle", "looking", "queued", "claiming", "advancing", "settling", "rechecking",
      "reverting", "superseding", "catchingUp", "done", "lost"} = Phases
  /\ {"none", "ok", "degraded", "already", "refused", "moved", "error", "reverted",
      "partial"} = Results
BY DEF Phases, Results

LEMMA MarkAdmittedFields ==
  ASSUME TypeOK, NEW g \in Gestures, MarkAdmitted(g)
  PROVE  /\ Fits' /\ Others(g) /\ Keeps(call[g], call'[g])
         /\ call[g].phase = "catchingUp" /\ call'[g].result = call[g].result
         /\ \/ call'[g].phase = "done" /\ Blank(call'[g])
            \/ /\ call'[g].phase = "catchingUp"
               /\ call'[g].preHead = call[g].preHead /\ call'[g].seen = call[g].seen
               /\ call'[g].todo \subseteq call[g].todo /\ call'[g].writing \subseteq call[g].todo
<1>1. Fits /\ call[g] \in Calls /\ call[g].todo \in SUBSET Proposals /\ call[g].result \in Results
  <2>1. Fits
    BY Typed
  <2> QED BY <2>1, CallFields DEF Calls, Results
<1>2. CASE Ends(g, call[g].result)
  BY <1>1, <1>2, EndsFields DEF MarkAdmitted
<1>3. ASSUME NEW p \in call[g].todo,
             call' = [call EXCEPT ![g].todo = @ \ {p}, ![g].attached = TRUE,
                        ![g].writing = IF authority[p] = "proposed" THEN {p} ELSE {}]
      PROVE  /\ Fits' /\ Others(g) /\ Keeps(call[g], call'[g])
             /\ call'[g].phase = call[g].phase /\ call'[g].result = call[g].result
             /\ call'[g].preHead = call[g].preHead /\ call'[g].seen = call[g].seen
             /\ call'[g].todo \subseteq call[g].todo /\ call'[g].writing \subseteq call[g].todo
  <2> DEFINE todo == call[g].todo \ {p}
             ps == IF authority[p] = "proposed" THEN {p} ELSE {}
  <2>1. todo \in SUBSET Proposals /\ ps \in SUBSET Proposals /\ todo \subseteq call[g].todo
        /\ ps \subseteq call[g].todo
    BY <1>1
  <2>2. TurnsTo(g, todo, ps)
    BY <1>3 DEF TurnsTo
  <2> HIDE DEF todo, ps
  <2> QED BY <1>1, <2>1, <2>2, WritingFields
<1> QED BY <1>2, <1>3 DEF MarkAdmitted

\* An event was appended, or failed to be.
Lands(g, ps, kept) == call' = [call EXCEPT ![g].writing = ps, ![g].attached = kept]
LEMMA LandsFields ==
  ASSUME TypeOK, NEW g \in Gestures, NEW ps \in SUBSET Proposals, NEW kept \in BOOLEAN,
         Lands(g, ps, kept)
  PROVE  /\ Fits' /\ Others(g) /\ Keeps(call[g], call'[g])
         /\ call'[g].phase = call[g].phase /\ call'[g].result = call[g].result
         /\ call'[g].preHead = call[g].preHead /\ call'[g].seen = call[g].seen
         /\ call'[g].todo = call[g].todo /\ call'[g].writing = ps
<1> DEFINE q == [call[g] EXCEPT !.writing = ps, !.attached = kept]
<1>1. Fits /\ call[g] \in Calls
  BY Typed, CallFields
<1>2. /\ q \in Calls /\ Keeps(call[g], q) /\ q.phase = call[g].phase /\ q.result = call[g].result
      /\ q.preHead = call[g].preHead /\ q.seen = call[g].seen
      /\ q.todo = call[g].todo /\ q.writing = ps
  BY <1>1 DEF Calls, Keeps
<1>3. call' = [call EXCEPT ![g] = q]
  BY DEF Lands
<1> HIDE DEF q
<1>4. Fits' /\ Others(g) /\ call'[g] = q
  BY <1>1, <1>2, <1>3, UpdateFields
<1> QED BY <1>2, <1>4

\* A step of a call changes that call only, and neither its decision nor its mount.
LEMMA StepFields ==
  ASSUME TypeOK, NEW g \in Gestures, Step(g)
  PROVE  /\ Fits' /\ Others(g)
         /\ call'[g].decision = call[g].decision /\ call'[g].at = call[g].at
         /\ mount' = mount
<1>. USE PhaseNames
<1>1. Fits /\ call[g] \in Calls /\ DecisionOf(g).members \in SUBSET Proposals
  BY Typed, CallFields, Members DEF DecisionOf
<1>2. CASE Look(g)
  BY <1>2, LookFields DEF Keeps
<1>3. CASE Judge(g)
  BY <1>3, JudgeFields DEF Keeps
<1>4. CASE JudgeThrows(g)
  BY <1>1, <1>4, GoesFields, EndsFields DEF JudgeThrows, Keeps
<1>5. CASE AppendClaim(g)
  BY <1>1, <1>5, GoesFields DEF AppendClaim, Keeps
<1>6. CASE Advance(g)
  BY <1>1, <1>6, GoesFields, EndsFields DEF Advance, Keeps
<1>7. CASE Settle(g)
  <2>1. CASE CatchesUp(g, "ok")
    BY <1>1, <1>7, <2>1, CatchesUpFields, TurnsFields DEF Settle, Keeps
  <2>2. CASE Goes(g, "rechecking")
    BY <1>1, <1>7, <2>2, GoesFields DEF Settle, Keeps
  <2> QED BY <1>7, <2>1, <2>2 DEF Settle
<1>8. CASE Recheck(g)
  <2>1. CASE CatchesUp(g, "degraded")
    BY <1>1, <1>8, <2>1, CatchesUpFields, TurnsFields DEF Recheck, Keeps
  <2>2. CASE Ends(g, "degraded") \/ Ends(g, "error")
    BY <1>1, <1>8, <2>2, EndsFields DEF Recheck, Keeps
  <2> QED BY <1>8, <2>1, <2>2 DEF Recheck
<1>9. CASE MarkAdmitted(g)
  BY <1>9, MarkAdmittedFields DEF Keeps, MarkAdmitted
<1>10. CASE MarkLands(g)
  <2>1. Lands(g, {}, FALSE)
    BY <1>10 DEF MarkLands, Lands
  <2> QED BY <1>10, <2>1, LandsFields DEF MarkLands, Keeps
<1>11. CASE WriteBase(g)
  BY <1>1, <1>11, GoesFields, EndsFields DEF WriteBase, Keeps
<1>12. CASE Supersede(g)
  <2>1. Ends(g, "partial") \/ Lands(g, DecisionOf(g).members, TRUE)
    BY <1>12 DEF Supersede, Lands
  <2> QED BY <1>1, <1>12, <2>1, EndsFields, LandsFields DEF Supersede, Keeps
<1>13. CASE SupersedeLands(g)
  BY <1>1, <1>13, EndsFields DEF SupersedeLands, Keeps
<1>14. CASE LookThrows(g)
  <2>1. Keeps(call[g], call'[g]) /\ Fits' /\ Others(g)
    BY <1>1, <1>14, LookThrowsFields, StumbleFields
  <2> QED BY <1>14, <2>1 DEF LookThrows, Keeps
<1> QED BY <1>2, <1>3, <1>4, <1>5, <1>6, <1>7, <1>8, <1>9, <1>10, <1>11, <1>12, <1>13, <1>14 DEF Step

LEMMA StepChain ==
  ASSUME TypeOK, ChainInv, NEW g \in Gestures, Step(g)
  PROVE  ChainInv' /\ chain' \in [Mounts -> Seq(Gestures)]
<1>. USE PhaseNames
<1>1. /\ Fits /\ call[g] \in Calls /\ Others(g) /\ call'[g].at = call[g].at
      /\ chain \in [Mounts -> Seq(Gestures)]
  BY Typed, CallFields, StepFields DEF TypeOK
<1>2. ASSUME Serving(g), LeaveChain(g), call'[g].phase \notin Inside
      PROVE  ChainInv' /\ chain' \in [Mounts -> Seq(Gestures)]
  BY <1>1, <1>2, ChainLeaves, LeavesFields
<1>3. ASSUME chain' = chain, call[g].phase \in Inside, call'[g].phase \in Inside, Serving(g)
      PROVE  ChainInv' /\ chain' \in [Mounts -> Seq(Gestures)]
  BY <1>1, <1>3, ChainStays
<1>4. ASSUME chain' = chain, call[g].phase \notin Inside, call'[g].phase \notin Inside
      PROVE  ChainInv' /\ chain' \in [Mounts -> Seq(Gestures)]
  BY <1>1, <1>4, ChainStays
<1>5. ASSUME Goes(g, "rechecking") PROVE call'[g].phase \notin Inside
  BY <1>1, <1>5, GoesFields DEF Inside
<1>6. ASSUME NEW res \in Results, Ends(g, res) PROVE call'[g].phase \notin Inside
  BY <1>1, <1>6, EndsFields DEF Inside
<1>7. ASSUME NEW res \in Results, CatchesUp(g, res) PROVE call'[g].phase \notin Inside
  BY <1>1, <1>7, CatchesUpFields, TurnsFields DEF Inside
<1>8. ASSUME call[g].phase \in {"claiming", "advancing", "settling"} PROVE Serving(g)
  BY <1>8, PastJudgement DEF Inside
<1>9. CASE Look(g)
  <2>1. CASE chain' = chain /\ call'[g] = Turns(call[g], "already")
    BY <1>1, <1>4, <1>9, <2>1, LookFields, TurnsFields DEF Inside
  <2>2. CASE chain' = chain /\ call'[g] = Remains(call[g], "done", "refused")
    <3>1. Remains(call[g], "done", "refused").phase = "done"
      <4>1. "done" \in Phases /\ "refused" \in Results
        OBVIOUS
      <4> QED BY <1>1, <4>1, RemainsFields
    <3>2. call[g].phase = "looking"
      BY <1>9 DEF Look
    <3> QED BY <1>4, <2>2, <3>1, <3>2 DEF Inside
  <2>3. CASE call'[g].phase = "queued" /\ chain' = [chain EXCEPT ![call[g].at] = Append(@, g)]
    BY <1>1, <1>9, <2>3, LookFields, ChainJoins DEF Inside
  <2> QED BY <1>9, <2>1, <2>2, <2>3, LookFields
<1>10. CASE Judge(g)
  BY <1>2, <1>3, <1>10, JudgeFields DEF Inside
<1>11. CASE JudgeThrows(g)
  BY <1>2, <1>5, <1>6, <1>11 DEF JudgeThrows
<1>12. CASE AppendClaim(g)
  <2>1. call[g].phase = "claiming" /\ Serving(g)
    BY <1>8, <1>12 DEF AppendClaim
  <2>2. CASE Goes(g, "advancing") /\ chain' = chain
    BY <1>1, <1>3, <2>1, <2>2, GoesFields DEF Inside
  <2>3. CASE Goes(g, "rechecking") /\ LeaveChain(g)
    BY <1>2, <1>5, <2>1, <2>3
  <2> QED BY <1>12, <2>2, <2>3 DEF AppendClaim
<1>13. CASE Advance(g)
  <2>1. call[g].phase = "advancing" /\ Serving(g)
    BY <1>8, <1>13 DEF Advance
  <2>2. CASE Goes(g, "settling") /\ chain' = chain
    BY <1>1, <1>3, <2>1, <2>2, GoesFields DEF Inside
  <2>3. CASE (Goes(g, "rechecking") \/ Ends(g, "moved")) /\ LeaveChain(g)
    BY <1>2, <1>5, <1>6, <2>1, <2>3
  <2> QED BY <1>13, <2>2, <2>3 DEF Advance
<1>14. CASE Settle(g)
  BY <1>2, <1>5, <1>7, <1>8, <1>14 DEF Settle
<1>15. CASE Recheck(g)
  BY <1>4, <1>6, <1>7, <1>15 DEF Recheck, Inside
<1>16. CASE MarkAdmitted(g)
  BY <1>4, <1>16, MarkAdmittedFields DEF MarkAdmitted, Inside
<1>17. CASE MarkLands(g)
  <2>1. Lands(g, {}, FALSE)
    BY <1>17 DEF MarkLands, Lands
  <2> QED BY <1>4, <1>17, <2>1, LandsFields DEF MarkLands, Inside
<1>18. CASE WriteBase(g)
  BY <1>1, <1>4, <1>6, <1>18, GoesFields DEF WriteBase, Inside
<1>19. CASE Supersede(g)
  <2>1. Ends(g, "partial") \/ Lands(g, DecisionOf(g).members, TRUE)
    BY <1>19 DEF Supersede, Lands
  <2>2. DecisionOf(g).members \in SUBSET Proposals
    BY <1>1, CallFields, Members DEF DecisionOf
  <2> QED BY <1>4, <1>6, <1>19, <2>1, <2>2, LandsFields DEF Supersede, Inside
<1>20. CASE SupersedeLands(g)
  BY <1>4, <1>6, <1>20 DEF SupersedeLands, Inside
<1>21. CASE LookThrows(g)
  <2>1. call[g].phase = "looking" /\ call'[g].phase = "rechecking" /\ chain' = chain
    BY <1>1, <1>21, LookThrowsFields, StumbleFields DEF LookThrows
  <2> QED BY <1>4, <2>1 DEF Inside
<1> QED BY <1>9, <1>10, <1>11, <1>12, <1>13, <1>14, <1>15, <1>16, <1>17, <1>18, <1>19, <1>20, <1>21 DEF Step

\* The proposal store keeps its type, whatever becomes of an event.
StoreFits ==
  /\ authority \in Folds /\ filed \in Folds /\ halfLine \in BOOLEAN
  /\ unsure \in SUBSET Proposals /\ late \in SUBSET Folds
EventOf(ps, from, to) ==
  (\E attached \in BOOLEAN : EventReturns(attached, ps, from, to)) \/ EventFails(ps, from, to)

LEMMA Attached == ASSUME TypeOK, NEW g \in Gestures PROVE call[g].attached \in BOOLEAN
BY DEF TypeOK, Calls

\* What an event does to either fold and to the proposals that may differ in them.
LEMMA EventEffect ==
  ASSUME NEW ps, NEW from, NEW to, EventOf(ps, from, to)
  PROVE  /\ authority' \in {authority, Folded(authority, ps, from, to)}
         /\ filed' \in {filed, Folded(filed, ps, from, to)}
         /\ late' = late /\ halfLine' \in BOOLEAN
         /\ unsure' \in {unsure, unsure \union ps}
         /\ \/ /\ authority' = Folded(authority, ps, from, to)
               /\ filed' = Folded(filed, ps, from, to)
            \/ unsure' = unsure \union ps
<1>1. CASE EventFails(ps, from, to)
  BY <1>1 DEF EventFails
<1>2. CASE \E attached \in BOOLEAN : EventReturns(attached, ps, from, to)
  BY <1>2 DEF EventReturns
<1> QED BY <1>1, <1>2 DEF EventOf

LEMMA EventTypes ==
  ASSUME TypeOK, NEW ps \in SUBSET Proposals, NEW from,
         NEW to \in {"proposed", "admitted", "superseded"}, EventOf(ps, from, to)
  PROVE  StoreFits'
<1>1. \A f \in Folds : Folded(f, ps, from, to) \in Folds
  BY DEF Folds, Folded
<1>2. authority \in Folds /\ filed \in Folds /\ unsure \in SUBSET Proposals /\ late \in SUBSET Folds
  BY DEF TypeOK
<1>3. authority' \in Folds /\ filed' \in Folds
  BY <1>1, <1>2, EventEffect
<1>4. halfLine' \in BOOLEAN /\ late' \in SUBSET Folds /\ unsure' \in SUBSET Proposals
  BY <1>2, EventEffect
<1> QED BY <1>3, <1>4 DEF StoreFits

\* A cold read that lands late changes nothing of a call but where it pushes.
LEMMA LandLateFields ==
  ASSUME TypeOK, LandLate
  PROVE  /\ Fits' /\ StoreFits' /\ \A h \in Gestures : Alike(call[h], call'[h])
         /\ UNCHANGED <<durable, filed, halfLine, notes, mount, cache, chain>>
         /\ faults' = faults + 1 /\ faults' \in 0..MaxFaults
<1>1. ASSUME NEW c \in Calls
      PROVE  /\ [c EXCEPT !.attached = FALSE] \in Calls
             /\ Alike(c, [c EXCEPT !.attached = FALSE])
  BY DEF Calls, Alike
<1>2. \A c \in Calls : Alike(c, c)
  BY DEF Alike
<1>3. /\ call \in [Gestures -> Calls]
      /\ call' = [g \in Gestures |->
           IF call[g].writing # {} THEN [call[g] EXCEPT !.attached = FALSE] ELSE call[g]]
  BY DEF TypeOK, LandLate
<1>4. Fits' /\ \A h \in Gestures : Alike(call[h], call'[h])
  BY <1>1, <1>2, <1>3 DEF Fits
<1>5. PICK f \in late :
        /\ authority' = f
        /\ unsure' = unsure \union {p \in Proposals : f[p] # filed[p]}
        /\ late' = late \ {f}
  BY DEF LandLate
<1>6. StoreFits'
  BY <1>5 DEF LandLate, TypeOK, StoreFits
<1>7. faults' = faults + 1 /\ faults' \in 0..MaxFaults
  BY Typed DEF LandLate, Faults, TypeOK
<1> QED BY <1>4, <1>6, <1>7 DEF LandLate

\* What else a call's step changes.
LEMMA StepType ==
  ASSUME TypeOK, NEW g \in Gestures, Step(g)
  PROVE  /\ standing' \in Seq(Gestures)
         /\ claimLines' \in SUBSET Gestures /\ glued' \in SUBSET Gestures /\ torn' \in BOOLEAN
         /\ settlements' \in SUBSET Gestures
         /\ StoreFits'
         /\ bytes' \in [Notes -> Versions] /\ UNCHANGED <<base, edits, mount>>
         /\ cache' \in [Mounts -> (SUBSET Gestures) \union {Unread}]
         /\ faults' \in 0..MaxFaults
<1>1. /\ Fits /\ call[g] \in Calls /\ call[g].at \in Mounts
      /\ CacheAfterRead(g) \in (SUBSET Gestures) \union {Unread}
      /\ Known(call[g].at) \in SUBSET Gestures
      /\ DecisionOf(g).members \in SUBSET Proposals
  BY Typed, CallFields, Members DEF DecisionOf, CacheAfterRead
<1>2. ASSUME Faults PROVE faults' \in 0..MaxFaults
  BY <1>2, Typed DEF Faults, TypeOK
<1>3. StoreFits /\ (UNCHANGED proposals => StoreFits')
  BY DEF proposals, StoreFits, TypeOK
<1>4. CASE Look(g)
  BY <1>1, <1>3, <1>4 DEF Look, durable, notes, TypeOK
<1>5. CASE Judge(g)
  <2>1. /\ UNCHANGED <<standing, claimLines, glued, torn, settlements, proposals, bytes, base, edits,
                        mount, faults>>
        /\ cache' \in {cache, [cache EXCEPT ![call[g].at] = Known(call[g].at)]}
    BY <1>5, JudgeFields DEF durable, notes
  <2> QED BY <1>1, <1>3, <2>1 DEF TypeOK
<1>6. CASE JudgeThrows(g)
  <2>1. Faults /\ UNCHANGED <<standing, claimLines, glued, torn, settlements, proposals, bytes, base, edits,
                               mount, cache>>
    BY <1>6 DEF JudgeThrows, durable, notes
  <2> QED BY <1>2, <1>3, <2>1 DEF TypeOK
<1>7. CASE AppendClaim(g)
  <2>1. claimLines' \in {claimLines, claimLines \union {g}} /\ glued' \in {glued, glued \union {g}}
    BY <1>7 DEF AppendClaim
  <2>2. cache' \in {cache, [cache EXCEPT ![call[g].at] = Known(call[g].at) \union {g}]}
    BY <1>7 DEF AppendClaim
  <2>3. torn' \in BOOLEAN /\ faults' \in 0..MaxFaults
    BY <1>2, <1>7 DEF AppendClaim, TypeOK
  <2>4. UNCHANGED <<standing, settlements, proposals, notes, mount>>
    BY <1>7 DEF AppendClaim
  <2>5. claimLines' \in SUBSET Gestures /\ glued' \in SUBSET Gestures
    BY <2>1 DEF TypeOK
  <2>6. cache' \in [Mounts -> (SUBSET Gestures) \union {Unread}]
    <3>1. /\ Known(call[g].at) \union {g} \in SUBSET Gestures
          /\ call[g].at \in Mounts /\ cache \in [Mounts -> (SUBSET Gestures) \union {Unread}]
      BY <1>1 DEF TypeOK
    <3> QED BY <2>2, <3>1
  <2> QED BY <1>3, <2>3, <2>4, <2>5, <2>6 DEF notes, TypeOK
<1>8. CASE Advance(g)
  <2>1. standing' \in Seq(Gestures)
    <3>1. standing' \in {standing, Append(standing, g)}
      BY <1>8 DEF Advance
    <3>2. Append(standing, g) \in Seq(Gestures)
      <4>1. standing \in Seq(Gestures)
        BY DEF TypeOK
      <4> QED BY <4>1, AppendProperties
    <3> QED BY <3>1, <3>2 DEF TypeOK
  <2>2. faults' \in 0..MaxFaults
    BY <1>2, <1>8 DEF Advance, TypeOK
  <2>3. UNCHANGED <<claimLines, glued, torn, settlements, proposals, notes, mount, cache>>
    BY <1>8 DEF Advance
  <2> QED BY <1>3, <2>1, <2>2, <2>3 DEF notes, TypeOK
<1>9. CASE Settle(g)
  BY <1>2, <1>3, <1>9 DEF Settle, notes, TypeOK
<1>10. CASE Recheck(g)
  <2>1. cache' \in {cache, [cache EXCEPT ![call[g].at] = Known(call[g].at)]}
    BY <1>10 DEF Recheck
  <2> QED BY <1>1, <1>2, <1>3, <1>10, <2>1 DEF Recheck, durable, notes, TypeOK
<1>11. CASE MarkAdmitted(g) \/ Supersede(g)
  BY <1>3, <1>11 DEF MarkAdmitted, Supersede, durable, notes, TypeOK
<1>12. CASE MarkLands(g)
  <2>1. EventOf(call[g].writing, {"proposed"}, "admitted")
    BY <1>12, Attached DEF MarkLands, EventOf
  <2>2. StoreFits' /\ faults' \in {faults, faults + 1} /\ faults' <= MaxFaults
    <3>1. call[g].writing \in SUBSET Proposals
      BY <1>1, CallFields
    <3>2. StoreFits'
      BY <2>1, <3>1, EventTypes
    <3>3. UNCHANGED faults \/ Faults
      BY <1>12 DEF MarkLands, EventFails
    <3> QED BY <3>2, <3>3, Typed DEF Faults, TypeOK
  <2>3. faults' \in 0..MaxFaults
    BY <2>2, Typed
  <2> QED BY <1>12, <2>2, <2>3 DEF MarkLands, durable, notes, TypeOK
<1>13. CASE SupersedeLands(g)
  <2>1. EventOf(call[g].writing, {"proposed", "superseded"}, "superseded")
    BY <1>13, Attached DEF SupersedeLands, EventOf
  <2>2. StoreFits' /\ faults' \in {faults, faults + 1} /\ faults' <= MaxFaults
    <3>1. call[g].writing \in SUBSET Proposals
      BY <1>1, CallFields
    <3>2. StoreFits'
      BY <2>1, <3>1, EventTypes
    <3>3. UNCHANGED faults \/ Faults
      BY <1>13 DEF SupersedeLands, EventFails
    <3> QED BY <3>2, <3>3, Typed DEF Faults, TypeOK
  <2>3. faults' \in 0..MaxFaults
    BY <2>2, Typed
  <2> QED BY <1>13, <2>2, <2>3 DEF SupersedeLands, durable, notes, TypeOK
<1>14. CASE WriteBase(g)
  <2>1. CASE UNCHANGED bytes
    BY <1>2, <1>3, <1>14, <2>1 DEF WriteBase, durable, TypeOK
  <2>2. ASSUME NEW p \in DecisionOf(g).members, bytes' = [bytes EXCEPT ![NoteOf[p]] = base[p]]
        PROVE  bytes' \in [Notes -> Versions]
    BY <1>1, <2>2 DEF TypeOK
  <2> QED BY <1>2, <1>3, <1>14, <2>1, <2>2 DEF WriteBase, durable, TypeOK
<1>15. CASE LookThrows(g)
  <2>1. cache' \in {cache, [cache EXCEPT ![call[g].at] = CacheAfterRead(g)]}
    BY <1>15 DEF LookThrows
  <2> QED BY <1>1, <1>2, <1>3, <1>15, <2>1 DEF LookThrows, durable, notes, TypeOK
<1> QED BY <1>4, <1>5, <1>6, <1>7, <1>8, <1>9, <1>10, <1>11, <1>12, <1>13, <1>14, <1>15 DEF Step

LEMMA InitType == ASSUME Init PROVE TypeOK /\ ChainInv
<1>1. call \in [Gestures -> Calls] /\ 1 \in Mounts
  BY IdleFields, AdmissionAssumption DEF Init, Mounts
<1>2. TypeOK
  <2>1. <<>> \in Seq(Gestures)
    OBVIOUS
  <2>2. 0 \in 0..MaxFaults /\ 0 \in 0..MaxEdits
    BY AdmissionAssumption
  <2>3. "original" \in Versions
    BY DEF Versions
  <2>4. [p \in Proposals |-> "none"] \in Folds
    BY DEF Folds
  <2> QED BY <1>1, <2>1, <2>2, <2>3, <2>4 DEF Init, TypeOK
<1>3. ChainInv
  <2>1. \A g \in Gestures : call[g].phase \notin Inside
    BY DEF Init, IdleCall, Bare, Inside
  <2>2. \A m \in Mounts : 1..Len(chain[m]) = {}
    BY DEF Init
  <2> QED BY <2>1, <2>2 DEF ChainInv, ChainNeverWedges, Distinct
<1> QED BY <1>2, <1>3

LEMMA NextType == ASSUME TypeOK, ChainInv, [Next]_vars PROVE TypeOK' /\ ChainInv'
<1>. USE PhaseNames
<1>1. ASSUME NEW g \in Gestures, Step(g) PROVE TypeOK' /\ ChainInv'
  BY <1>1, StepFields, StepType, StepChain DEF TypeOK, Fits, StoreFits
<1>2. ASSUME NEW g \in Gestures, Click(g) PROVE TypeOK' /\ ChainInv'
  <2>1. ChainInv'
    BY <1>2, ClickFields, ChainStays DEF Click, Inside
  <2>2. Fits' /\ faults' \in 0..MaxFaults
    <3>1. Fits' /\ faults' \in {faults, faults + 1} /\ faults' <= MaxFaults
      BY <1>2, ClickFields
    <3> QED BY <3>1, Typed
  <2>3. UNCHANGED <<durable, proposals, notes, mount, cache, chain>>
    BY <1>2 DEF Click
  <2> QED BY <2>1, <2>2, <2>3 DEF durable, proposals, notes, TypeOK, Fits
<1>3. ASSUME NEW g \in Gestures, ClickRevert(g) PROVE TypeOK' /\ ChainInv'
  <2>1. ChainInv'
    BY <1>3, ClickRevertFields, ChainStays DEF ClickRevert, Inside
  <2> QED BY <1>3, <2>1, ClickRevertFields DEF ClickRevert, durable, proposals, notes, TypeOK, Fits
<1>4. ASSUME UNCHANGED <<call, chain>> PROVE ChainInv'
  BY <1>4 DEF ChainInv, ChainNeverWedges, Distinct
<1>5. ASSUME NEW p \in Proposals, Propose(p) PROVE TypeOK' /\ ChainInv'
  <2>1. NoteOf[p] \in Notes /\ p \in Versions
    BY DEF Notes, Versions
  <2>2. EventOf({p}, {"none"}, "proposed")
    BY <1>5 DEF Propose, EventOf
  <2>3. StoreFits'
    BY <2>2, EventTypes
  <2>4. UNCHANGED faults \/ Faults
    BY <1>5 DEF Propose, EventFails
  <2>5. faults' \in 0..MaxFaults
    BY <2>4, Typed DEF Faults, TypeOK
  <2> QED BY <1>4, <1>5, <2>1, <2>3, <2>5 DEF Propose, durable, TypeOK, StoreFits
<1>6. ASSUME NEW n \in Notes, OutsideEdit(n) PROVE TypeOK' /\ ChainInv'
  <2>1. edits' \in 0..MaxEdits
    BY <1>6, AdmissionAssumption DEF OutsideEdit, TypeOK
  <2>2. bytes' \in [Notes -> Versions]
    BY <1>6 DEF OutsideEdit, TypeOK, Versions
  <2> QED BY <1>4, <1>6, <2>1, <2>2 DEF OutsideEdit, durable, proposals, TypeOK
<1>7. CASE Remount
  BY <1>4, <1>7, AdmissionAssumption DEF Remount, durable, proposals, notes, TypeOK, Mounts
<1>8. CASE Restart
  <2>1. /\ \A g \in Gestures : Remains(call[g], "lost", "none") \in Calls
        /\ \A g \in Gestures : Remains(call[g], "lost", "none").phase = "lost"
    BY Typed, CallFields, RemainsFields
  <2>2. call' \in [Gestures -> Calls] /\ \A g \in Gestures : call'[g].phase \notin Inside
    BY <1>8, <2>1 DEF Restart, TypeOK, InFlight, Inside
  <2>3. chain' \in [Mounts -> Seq(Gestures)] /\ \A m \in Mounts : 1..Len(chain'[m]) = {}
    BY <1>8 DEF Restart
  <2>4. ChainInv'
    BY <2>2, <2>3 DEF ChainInv, ChainNeverWedges, Distinct
  <2>5. mount' \in Mounts /\ torn' \in BOOLEAN
    <3>1. mount < MaxMounts /\ mount' = mount + 1
      BY <1>8 DEF Restart
    <3>2. mount' \in Mounts
      BY <3>1, AdmissionAssumption DEF TypeOK, Mounts
    <3>3. torn' \in BOOLEAN
      BY <1>8 DEF Restart, TypeOK
    <3> QED BY <3>2, <3>3
  <2>6. UNCHANGED <<standing, claimLines, glued, settlements, notes, cache, faults>>
    BY <1>8 DEF Restart
  <2>7. StoreFits'
    BY <1>8 DEF Restart, TypeOK, StoreFits
  <2> QED BY <2>2, <2>3, <2>4, <2>5, <2>6, <2>7 DEF notes, TypeOK, StoreFits
<1>9. CASE UNCHANGED vars
  BY <1>4, <1>9 DEF vars, durable, proposals, notes, TypeOK
<1>10. CASE LandLate
  <2>1. ChainInv'
    <3>1. /\ chain' = chain
          /\ \A g \in Gestures : call'[g].at = call[g].at /\ call'[g].phase = call[g].phase
      BY <1>10, LandLateFields DEF Alike
    <3>2. \A m \in Mounts : \A i \in 1..Len(chain[m]) : chain[m][i] \in Gestures
      BY DEF TypeOK
    <3>3. ChainNeverWedges'
      BY <3>1, <3>2 DEF ChainInv, ChainNeverWedges
    <3>4. Distinct'
      BY <3>1 DEF ChainInv, Distinct
    <3> QED BY <3>3, <3>4 DEF ChainInv
  <2>2. /\ Fits' /\ StoreFits' /\ faults' \in 0..MaxFaults
        /\ UNCHANGED <<durable, notes, mount, cache, chain>>
    BY <1>10, LandLateFields
  <2> QED BY <2>1, <2>2 DEF durable, notes, TypeOK, StoreFits, Fits
<1> QED BY <1>1, <1>2, <1>3, <1>5, <1>6, <1>7, <1>8, <1>9, <1>10 DEF Next

\* Everything stays well formed, and no service's chain ever wedges or runs two
\* admissions at once, whatever throws and whenever the program stops.
THEOREM TypeAndChains == Spec => [](TypeOK /\ ChainInv)
BY InitType, NextType, PTL DEF Spec

\* The admission's state keeps its type, for any gestures, mounts and bounds.
THEOREM TypeCorrect == Spec => []TypeOK
BY TypeAndChains, PTL

\* The promise chain of a service runs one admission at a time and never stops
\* with somebody waiting, and nobody is inside the service outside it.
THEOREM ChainsCorrect == Spec => []ChainNeverWedges
BY TypeAndChains, PTL DEF ChainInv
-----------------------------------------------------------------------------
(* What may become of a call in one step, and of the evidence about it.     *)

Named == claimLines \union glued
SameEvidence(h) ==
  /\ h \in Named' <=> h \in Named
  /\ Stands(h)' <=> Stands(h)
  /\ h \in settlements' <=> h \in settlements

\* Everything but the phase is kept.
GoesOn(c, d) ==
  /\ Keeps(c, d) /\ d.preHead = c.preHead /\ d.seen = c.seen
  /\ d.todo = c.todo /\ d.writing = c.writing /\ d.result = c.result
From(h, ph, qh) == call[h].phase = ph /\ call'[h].phase = qh
Fails == faults' = faults + 1

Begins(h) ==
  /\ From(h, "idle", "looking") /\ SameEvidence(h)
  /\ call'[h].expected = NoClaim /\ call'[h].at = mount
  /\ call'[h].preHead \in {StandingHead, Unknown}
  /\ call'[h].preHead = Unknown => Fails
  /\ call'[h].seen = Unread \/ (cache[mount] = Unread /\ call'[h].seen = claimLines)
  /\ call'[h].todo = {} /\ call'[h].writing = {} /\ call'[h].result = "none"
Reverts(h) ==
  /\ SameEvidence(h) /\ call'[h].expected = NoClaim /\ Blank(call'[h])
  /\ \/ From(h, "idle", "reverting") /\ call'[h].result = "none"
     \/ From(h, "idle", "done") /\ call'[h].result = "refused"
RevertGoesOn(h) ==
  /\ SameEvidence(h) /\ Keeps(call[h], call'[h])
  /\ call[h].phase \in {"reverting", "superseding"}
  /\ call'[h].preHead \in {Unknown, call[h].preHead} /\ call'[h].seen \in {Unread, call[h].seen}
  /\ \/ call'[h].phase = "superseding" /\ call'[h].result = call[h].result
     \/ call'[h].phase = "done" /\ call'[h].result \in {"reverted", "partial", "error"}
FindsIt(h) ==
  /\ call[h].phase = "looking" /\ SameEvidence(h)
  /\ call[h].preHead \in Gestures /\ DecisionOf(call[h].preHead) = DecisionOf(h)
  /\ call'[h] = Turns(call[h], "already")
Refuses(h) ==
  /\ call[h].phase \in {"looking", "queued"} /\ call'[h].phase = "done"
  /\ SameEvidence(h) /\ Keeps(call[h], call'[h]) /\ Blank(call'[h])
  /\ call'[h].result = "refused"
Enters(h) ==
  /\ From(h, "looking", "queued") /\ SameEvidence(h) /\ Keeps(call[h], call'[h])
  /\ call'[h].preHead = call[h].preHead /\ call'[h].seen = Unread
  /\ call'[h].todo = call[h].todo /\ call'[h].writing = call[h].writing
  /\ call'[h].result = call[h].result
Stumbles(h) ==
  /\ From(h, "looking", "rechecking") /\ SameEvidence(h) /\ Fails
  /\ Keeps(call[h], call'[h]) /\ call'[h].preHead = call[h].preHead /\ call'[h].seen = Unread
  /\ call'[h].todo = call[h].todo /\ call'[h].writing = call[h].writing
  /\ call'[h].result = call[h].result
Passes(h) ==
  /\ From(h, "queued", "claiming") /\ SameEvidence(h)
  /\ call'[h].expected = StandingHead
  /\ call'[h].decision = call[h].decision /\ call'[h].at = call[h].at
  /\ call'[h].preHead = call[h].preHead /\ call'[h].seen = call[h].seen
  /\ call'[h].todo = call[h].todo /\ call'[h].writing = call[h].writing
  /\ call'[h].result = call[h].result
  /\ StandingHead \in Gestures /\ DecisionOf(StandingHead) = DecisionOf(h) => call'[h].blind
  /\ cache'[call[h].at] # Unread
Appends(h) ==
  /\ GoesOn(call[h], call'[h]) /\ (Stands(h)' <=> Stands(h))
  /\ h \in settlements' <=> h \in settlements
  /\ \/ From(h, "claiming", "advancing") /\ h \in Named'
     \/ From(h, "claiming", "rechecking") /\ Fails
Advances(h) ==
  /\ GoesOn(call[h], call'[h])
  /\ h \in Named' <=> h \in Named
  /\ h \in settlements' <=> h \in settlements
  /\ standing' = Append(standing, h) /\ call[h].expected = StandingHead
  /\ From(h, "advancing", "settling") \/ (From(h, "advancing", "rechecking") /\ Fails)
Throws(h) ==
  /\ GoesOn(call[h], call'[h]) /\ SameEvidence(h) /\ Fails
  /\ call[h].phase \in {"queued", "advancing", "settling"} /\ call'[h].phase = "rechecking"
FindsMoved(h) ==
  /\ From(h, "advancing", "done") /\ SameEvidence(h) /\ Keeps(call[h], call'[h])
  /\ Blank(call'[h]) /\ call'[h].result = "moved"
Settles(h) ==
  /\ call[h].phase = "settling" /\ call'[h] = Turns(call[h], "ok")
  /\ h \in Named' <=> h \in Named
  /\ Stands(h)' <=> Stands(h)
  /\ h \in settlements'
Degrades(h) ==
  /\ call[h].phase = "rechecking" /\ SameEvidence(h)
  /\ StandingHead \in Gestures /\ DecisionOf(StandingHead) = DecisionOf(h)
  /\ \/ call'[h] = Turns(call[h], "degraded")
     \/ call'[h] = Remains(call[h], "done", "degraded")
GivesUp(h) ==
  /\ From(h, "rechecking", "done") /\ SameEvidence(h) /\ Keeps(call[h], call'[h])
  /\ Blank(call'[h]) /\ call'[h].result = "error"
  /\ Fails \/ ~MovedToIt(h)
  /\ cache'[call[h].at] = Known(call[h].at) \/ call[h].preHead = Unknown
       \/ StandingHead \in {NoClaim, call[h].preHead}
Projects(h) ==
  /\ call[h].phase = "catchingUp" /\ SameEvidence(h) /\ Keeps(call[h], call'[h])
  /\ call'[h].result = call[h].result
  /\ \/ call'[h].phase = "done" /\ Blank(call'[h])
     \/ /\ call'[h].phase = "catchingUp"
        /\ call'[h].preHead = call[h].preHead /\ call'[h].seen = call[h].seen
        /\ call'[h].todo \union call'[h].writing \subseteq call[h].todo \union call[h].writing
IsLost(h) ==
  /\ InFlight(h) /\ SameEvidence(h) /\ call'[h] = Remains(call[h], "lost", "none")

Stays(h) == Alike(call[h], call'[h]) /\ SameEvidence(h)
Moves(h) ==
  \/ Begins(h) \/ Reverts(h) \/ RevertGoesOn(h) \/ FindsIt(h) \/ Refuses(h) \/ Enters(h)
  \/ Stumbles(h)
  \/ Passes(h) \/ Appends(h) \/ Advances(h) \/ Throws(h) \/ FindsMoved(h) \/ Settles(h)
  \/ Degrades(h) \/ GivesUp(h) \/ Projects(h) \/ IsLost(h)

\* The chain is left alone, or one claim is put on top of it.
LEMMA OnTop ==
  ASSUME TypeOK, NEW g \in Gestures, standing' = Append(standing, g)
  PROVE  /\ Stands(g)' /\ StandingHead' = g
         /\ \A h \in Gestures : Stands(h)' <=> Stands(h) \/ h = g
         /\ Len(standing') = Len(standing) + 1 /\ standing'[Len(standing) + 1] = g
         /\ \A i \in 1..Len(standing) : standing'[i] = standing[i]
<1>1. standing \in Seq(Gestures) /\ Len(standing) \in Nat
  BY DEF TypeOK
<1>2. /\ Len(standing') = Len(standing) + 1 /\ standing'[Len(standing) + 1] = g
      /\ \A i \in 1..Len(standing) : standing'[i] = standing[i]
      /\ standing' # <<>>
  BY <1>1, AppendProperties
<1>3. StandingHead' = g
  BY <1>2 DEF StandingHead
<1>4. Len(standing) + 1 \in 1..Len(standing')
  BY <1>1, <1>2
<1>5. Stands(g)'
  BY <1>2, <1>4 DEF Stands
<1>6. ASSUME NEW h \in Gestures, Stands(h) PROVE Stands(h)'
  BY <1>1, <1>2, <1>6 DEF Stands
<1>7. ASSUME NEW h \in Gestures, Stands(h)', h # g PROVE Stands(h)
  <2>1. PICK i \in 1..Len(standing') : standing'[i] = h
    BY <1>7 DEF Stands
  <2>2. i \in 1..Len(standing)
    BY <1>1, <1>2, <1>7, <2>1
  <2> QED BY <1>2, <2>1, <2>2 DEF Stands
<1> QED BY <1>2, <1>3, <1>5, <1>6, <1>7

LEMMA HeadStands == ASSUME TypeOK, StandingHead \in Gestures PROVE Stands(StandingHead)
<1>1. standing \in Seq(Gestures) /\ standing # <<>>
  BY AdmissionAssumption DEF TypeOK, StandingHead
<1>2. Len(standing) \in 1..Len(standing) /\ StandingHead = standing[Len(standing)]
  BY <1>1 DEF StandingHead
<1> QED BY <1>2 DEF Stands

\* The durable state is left alone.
LEMMA NoEvidence == ASSUME UNCHANGED durable PROVE \A h \in Gestures : SameEvidence(h)
BY DEF durable, SameEvidence, Named, Stands

\* A step of a call leaves the evidence about the others alone.
LEMMA OthersStay ==
  ASSUME TypeOK, NEW g \in Gestures, Step(g) PROVE \A h \in Gestures : h # g => Stays(h)
<1> SUFFICES ASSUME NEW h \in Gestures, h # g PROVE SameEvidence(h)
  BY StepFields DEF Stays, Others
<1>1. CASE UNCHANGED durable
  BY <1>1, NoEvidence
<1>2. CASE AppendClaim(g)
  <2>1. h \in Named' <=> h \in Named
    <3>1. /\ claimLines' \in {claimLines, claimLines \union {g}}
          /\ glued' \in {glued, glued \union {g}}
      BY <1>2 DEF AppendClaim
    <3> QED BY <3>1 DEF Named
  <2> QED BY <1>2, <2>1 DEF AppendClaim, SameEvidence, Stands
<1>3. CASE Advance(g)
  <2>1. standing' \in {standing, Append(standing, g)}
    BY <1>3 DEF Advance
  <2>2. Stands(h)' <=> Stands(h)
    BY <2>1, OnTop DEF Stands
  <2> QED BY <1>3, <2>2 DEF Advance, SameEvidence, Named
<1>4. CASE Settle(g)
  BY <1>4 DEF Settle, SameEvidence, Named, Stands
<1> QED BY <1>1, <1>2, <1>3, <1>4 DEF Step, Look, LookThrows, Judge, JudgeThrows, Recheck, MarkAdmitted,
          MarkLands, WriteBase, Supersede, SupersedeLands

LEMMA StepMoves == ASSUME TypeOK, NEW g \in Gestures, Step(g) PROVE Moves(g)
<1>. USE PhaseNames
<1>1. /\ Fits /\ call[g] \in Calls /\ DecisionOf(g).members \in SUBSET Proposals
      /\ call[g].at \in Mounts
      /\ UNCHANGED durable => SameEvidence(g)
  BY Typed, CallFields, Members, NoEvidence DEF DecisionOf
<1>2. ASSUME NEW ph \in Phases, Goes(g, ph) PROVE GoesOn(call[g], call'[g]) /\ call'[g].phase = ph
  BY <1>1, <1>2, GoesFields DEF GoesOn
<1>3. ASSUME NEW res \in Results, Ends(g, res)
      PROVE  /\ Keeps(call[g], call'[g]) /\ Blank(call'[g])
             /\ call'[g].phase = "done" /\ call'[g].result = res
             /\ call'[g] = Remains(call[g], "done", res)
  <2>1. call'[g] = Remains(call[g], "done", res)
    BY <1>1, <1>3 DEF Ends, Fits
  <2> QED BY <1>1, <1>3, <2>1, EndsFields
<1>4. ASSUME NEW res \in Results, CatchesUp(g, res) PROVE call'[g] = Turns(call[g], res)
  BY <1>1, <1>4, CatchesUpFields
<1>5. CASE Look(g)
  <2>1. SameEvidence(g) /\ call[g].phase = "looking"
    BY <1>1, <1>5, LookFields
  <2>2. CASE call'[g] = Remains(call[g], "done", "refused")
    <3>1. "done" \in Phases /\ "refused" \in Results
      OBVIOUS
    <3> QED BY <1>1, <2>1, <2>2, <3>1, RemainsFields DEF Moves, Refuses
  <2>3. CASE call'[g] # Remains(call[g], "done", "refused")
    BY <1>5, <2>1, <2>3, LookFields DEF Moves, FindsIt, Enters, From
  <2> QED BY <2>2, <2>3
<1>6. CASE Judge(g)
  <2>1. SameEvidence(g) /\ call[g].phase = "queued"
    BY <1>1, <1>6, JudgeFields
  <2>2. CASE call'[g].phase = "done"
    BY <1>6, <2>1, <2>2, JudgeFields DEF Moves, Refuses
  <2>3. CASE call'[g].phase # "done"
    <3>1. Known(call[g].at) \in SUBSET Gestures /\ cache'[call[g].at] = Known(call[g].at)
      BY <1>1, <1>6, <2>3, Typed, JudgeFields DEF TypeOK
    <3>2. cache'[call[g].at] # Unread
      BY <3>1, UnreadIsNoRead
    <3>3. ASSUME StandingHead \in Gestures, DecisionOf(StandingHead) = DecisionOf(g)
          PROVE  call'[g].blind
      <4>1. StandingHead \notin Known(call[g].at) /\ StandingHead # NoClaim
        BY <1>6, <2>3, <3>3, JudgeFields, AdmissionAssumption DEF Covers
      <4> QED BY <1>6, <2>3, <4>1, JudgeFields
    <3> QED BY <1>6, <2>1, <2>3, <3>2, <3>3, JudgeFields DEF Moves, Passes, From
  <2> QED BY <2>2, <2>3
<1>7. CASE JudgeThrows(g)
  <2>1. SameEvidence(g) /\ call[g].phase = "queued" /\ Fails
    BY <1>1, <1>7 DEF JudgeThrows, Faults, Fails
  <2> QED BY <1>2, <1>3, <1>7, <2>1 DEF JudgeThrows, Moves, Throws, Refuses
<1>8. CASE AppendClaim(g)
  <2>1. /\ call[g].phase = "claiming" /\ (Stands(g)' <=> Stands(g))
        /\ g \in settlements' <=> g \in settlements
    BY <1>8 DEF AppendClaim, Stands
  <2>2. CASE Goes(g, "advancing") /\ g \in Named'
    BY <1>2, <2>1, <2>2 DEF Moves, Appends, From
  <2>3. CASE Goes(g, "rechecking") /\ Fails
    BY <1>2, <2>1, <2>3 DEF Moves, Appends, From
  <2>4. (Goes(g, "advancing") /\ g \in Named') \/ (Goes(g, "rechecking") /\ Fails)
    BY <1>8 DEF AppendClaim, Named, Faults, Fails
  <2> QED BY <2>2, <2>3, <2>4
<1>9. CASE Advance(g)
  <2>1. /\ call[g].phase = "advancing"
        /\ UNCHANGED <<claimLines, glued, settlements>>
    BY <1>9 DEF Advance
  <2>2. CASE CasHolds(g) /\ standing' = Append(standing, g)
             /\ (Goes(g, "settling") \/ (Goes(g, "rechecking") /\ Fails))
    BY <1>2, <2>1, <2>2 DEF Moves, Advances, CasHolds, From, Named
  <2>3. CASE standing' = standing /\ (Ends(g, "moved") \/ (Goes(g, "rechecking") /\ Fails))
    <3>1. SameEvidence(g)
      BY <2>1, <2>3 DEF SameEvidence, Named, Stands
    <3> QED BY <1>2, <1>3, <2>1, <2>3, <3>1 DEF Moves, FindsMoved, Throws, From
  <2>4. \/ CasHolds(g) /\ standing' = Append(standing, g)
           /\ (Goes(g, "settling") \/ (Goes(g, "rechecking") /\ Fails))
        \/ standing' = standing /\ (Ends(g, "moved") \/ (Goes(g, "rechecking") /\ Fails))
    BY <1>9 DEF Advance, Faults, Fails
  <2> QED BY <2>2, <2>3, <2>4
<1>10. CASE Settle(g)
  <2>1. /\ call[g].phase = "settling" /\ UNCHANGED <<standing, claimLines, glued>>
    BY <1>10 DEF Settle
  <2>2. CASE CatchesUp(g, "ok") /\ settlements' = settlements \union {g}
    BY <1>4, <2>1, <2>2 DEF Moves, Settles, Named, Stands
  <2>3. CASE Goes(g, "rechecking") /\ Fails /\ settlements' = settlements
    <3>1. SameEvidence(g)
      BY <2>1, <2>3 DEF SameEvidence, Named, Stands
    <3> QED BY <1>2, <2>1, <2>3, <3>1 DEF Moves, Throws
  <2>4. \/ CatchesUp(g, "ok") /\ settlements' = settlements \union {g}
        \/ Goes(g, "rechecking") /\ Fails /\ settlements' = settlements
    BY <1>10 DEF Settle, Faults, Fails
  <2> QED BY <2>2, <2>3, <2>4
<1>11. CASE Recheck(g)
  <2>1. SameEvidence(g) /\ call[g].phase = "rechecking"
    BY <1>1, <1>11 DEF Recheck
  <2>2. CASE MovedToIt(g) /\ (Ends(g, "degraded") \/ CatchesUp(g, "degraded"))
    <3>1. StandingHead \in Gestures /\ DecisionOf(StandingHead) = DecisionOf(g)
      <4>1. Covers(StandingHead, g, Known(call[g].at)) /\ Known(call[g].at) \in SUBSET Gestures
        BY <1>1, <2>2, Typed DEF MovedToIt
      <4> QED BY <4>1 DEF Covers
    <3> QED BY <1>3, <1>4, <2>1, <2>2, <3>1 DEF Moves, Degrades
  <2>3. CASE Ends(g, "error") /\ (~MovedToIt(g) \/ Fails)
    <3>1. \/ cache'[call[g].at] = Known(call[g].at) \/ call[g].preHead = Unknown
          \/ StandingHead \in {NoClaim, call[g].preHead}
      BY <1>1, <1>11 DEF Recheck, TypeOK
    <3> QED BY <1>3, <2>1, <2>3, <3>1 DEF Moves, GivesUp, From
  <2>4. \/ MovedToIt(g) /\ (Ends(g, "degraded") \/ CatchesUp(g, "degraded"))
        \/ Ends(g, "error") /\ (~MovedToIt(g) \/ Fails)
    BY <1>11 DEF Recheck, Faults, Fails
  <2> QED BY <2>2, <2>3, <2>4
<1>12. CASE MarkAdmitted(g)
  <2>1. SameEvidence(g)
    BY <1>1, <1>12 DEF MarkAdmitted
  <2> QED BY <1>12, <2>1, MarkAdmittedFields DEF Moves, Projects
<1>13. CASE MarkLands(g)
  <2>1. SameEvidence(g) /\ call[g].phase = "catchingUp" /\ Lands(g, {}, FALSE)
    BY <1>1, <1>13 DEF MarkLands, Lands
  <2>2. /\ Keeps(call[g], call'[g]) /\ call'[g].phase = call[g].phase
        /\ call'[g].result = call[g].result
        /\ call'[g].preHead = call[g].preHead /\ call'[g].seen = call[g].seen
        /\ call'[g].todo = call[g].todo /\ call'[g].writing = {}
    BY <2>1, LandsFields
  <2>3. Projects(g)
    BY <2>1, <2>2 DEF Projects
  <2> QED BY <2>3 DEF Moves
<1>14. CASE WriteBase(g)
  <2>1. SameEvidence(g) /\ call[g].phase = "reverting"
    BY <1>1, <1>14 DEF WriteBase
  <2> QED BY <1>2, <1>3, <1>14, <2>1 DEF WriteBase, Moves, RevertGoesOn, GoesOn, Blank
<1>15. CASE Supersede(g)
  <2>1. SameEvidence(g) /\ call[g].phase = "superseding"
    BY <1>1, <1>15 DEF Supersede
  <2>2. Ends(g, "partial") \/ Lands(g, DecisionOf(g).members, TRUE)
    BY <1>15 DEF Supersede, Lands
  <2> QED BY <1>1, <1>3, <2>1, <2>2, LandsFields DEF Moves, RevertGoesOn, Blank
<1>16. CASE SupersedeLands(g)
  <2>1. SameEvidence(g) /\ call[g].phase = "superseding"
    BY <1>1, <1>16 DEF SupersedeLands
  <2> QED BY <1>3, <1>16, <2>1 DEF SupersedeLands, Moves, RevertGoesOn, Blank
<1>17. CASE LookThrows(g)
  <2>1. SameEvidence(g) /\ Fails
    BY <1>1, <1>17 DEF LookThrows, Faults, Fails
  <2> QED BY <1>1, <1>17, <2>1, LookThrowsFields, StumbleFields DEF Moves, Stumbles, From
<1> QED BY <1>5, <1>6, <1>7, <1>8, <1>9, <1>10, <1>11, <1>12, <1>13, <1>14, <1>15, <1>16, <1>17 DEF Step

\* Whatever happens, every call stays as it is or moves in one of those ways.
LEMMA NextMoves ==
  ASSUME TypeOK, [Next]_vars PROVE \A h \in Gestures : Stays(h) \/ Moves(h)
<1>1. ASSUME UNCHANGED <<durable, call>> PROVE \A h \in Gestures : Stays(h)
  BY <1>1, NoEvidence DEF Stays, Alike
<1>2. ASSUME NEW g \in Gestures, Click(g) PROVE \A h \in Gestures : Stays(h) \/ Moves(h)
  <2>1. \A h \in Gestures : SameEvidence(h)
    BY <1>2, NoEvidence DEF Click
  <2>2. Begins(g)
    BY <1>2, <2>1, ClickFields DEF Begins, From, Fails
  <2> QED BY <1>2, <2>1, <2>2, ClickFields DEF Others, Stays, Moves
<1>3. ASSUME NEW g \in Gestures, ClickRevert(g) PROVE \A h \in Gestures : Stays(h) \/ Moves(h)
  <2>1. \A h \in Gestures : SameEvidence(h)
    BY <1>3, NoEvidence DEF ClickRevert
  <2>2. Reverts(g)
    BY <1>3, <2>1, ClickRevertFields DEF Reverts, From
  <2> QED BY <1>3, <2>1, <2>2, ClickRevertFields DEF Others, Stays, Moves
<1>4. ASSUME NEW g \in Gestures, Step(g) PROVE \A h \in Gestures : Stays(h) \/ Moves(h)
  BY <1>4, StepMoves, OthersStay
<1>5. CASE (\E p \in Proposals : Propose(p)) \/ (\E n \in Notes : OutsideEdit(n)) \/ Remount
  BY <1>1, <1>5 DEF Propose, OutsideEdit, Remount
<1>6. CASE Restart
  <2>1. \A h \in Gestures : SameEvidence(h)
    BY <1>6 DEF Restart, SameEvidence, Named, Stands
  <2>2. \A h \in Gestures :
          call'[h] = IF InFlight(h) THEN Remains(call[h], "lost", "none") ELSE call[h]
    BY <1>6 DEF Restart
  <2> QED BY <2>1, <2>2 DEF Stays, Moves, IsLost, Alike
<1>7. CASE UNCHANGED vars
  BY <1>1, <1>7 DEF vars
<1>8. CASE LandLate
  BY <1>8, LandLateFields, NoEvidence DEF Stays
<1> QED BY <1>2, <1>3, <1>4, <1>5, <1>6, <1>7, <1>8 DEF Next
-----------------------------------------------------------------------------
(* The life of a claim.                                                    *)

Early == {"idle", "looking", "queued", "claiming", "reverting", "superseding"}
Admitted(d) == \E c \in Gestures : Stands(c) /\ DecisionOf(c) = d

\* How far a call has come tells what there is of its claim.
EvidenceFits(g) ==
  /\ call[g].phase \in Early => g \notin Named
  /\ call[g].phase = "advancing" => g \in Named
  /\ call[g].phase \in Early \union {"advancing"} => ~Stands(g)
  /\ call[g].phase = "settling" => Stands(g)
  /\ Stands(g) => g \in Named
\* What a call names stood when it was named, and standing is for ever.
NamesStand(g) ==
  /\ call[g].phase = "idle" => call[g].expected = NoClaim
  /\ call[g].expected \in Gestures => Stands(call[g].expected)
  /\ call[g].preHead \in Gestures => Stands(call[g].preHead)
BlindFits(g) ==
  call[g].phase \in {"claiming", "advancing"} /\ call[g].expected \in Gestures
    /\ DecisionOf(call[g].expected) = DecisionOf(g) => call[g].blind
CatchFits(g) ==
  call[g].phase = "catchingUp" =>
    /\ call[g].todo \union call[g].writing \subseteq DecisionOf(g).members
    /\ Admitted(DecisionOf(g))
Life == \A g \in Gestures : EvidenceFits(g) /\ NamesStand(g) /\ BlindFits(g) /\ CatchFits(g)

\* A call that has begun keeps its decision.
LEMMA DecisionStays ==
  ASSUME TypeOK, [Next]_vars, NEW g \in Gestures, call[g].phase # "idle"
  PROVE  call'[g].decision = call[g].decision /\ call'[g].at = call[g].at
<1>. USE PhaseNames
<1>1. Stays(g) \/ Moves(g)
  BY NextMoves
<1>2. call[g] \in Calls
  BY Typed, CallFields
<1>3. \A res \in Results : Keeps(call[g], Turns(call[g], res))
  BY <1>2, TurnsFields
<1>4. \A ph \in Phases, res \in Results : Keeps(call[g], Remains(call[g], ph, res))
  BY <1>2, RemainsFields
<1>5. CASE Keeps(call[g], call'[g])
  BY <1>5 DEF Keeps
<1>6. CASE Passes(g) \/ Stays(g)
  BY <1>6 DEF Passes, Stays, Alike
<1>7. CASE Begins(g) \/ Reverts(g)
  BY <1>7 DEF Begins, Reverts, From
<1>8. CASE FindsIt(g) \/ Settles(g) \/ Degrades(g) \/ IsLost(g)
  BY <1>3, <1>4, <1>5, <1>8 DEF FindsIt, Settles, Degrades, IsLost
<1> QED BY <1>1, <1>5, <1>6, <1>7, <1>8 DEF Moves, RevertGoesOn, Refuses, Enters, Stumbles, Appends, Advances,
          Throws, FindsMoved, GivesUp, Projects, GoesOn

\* What stands goes on standing, for the decision it stands for.
LEMMA StandingStays ==
  ASSUME TypeOK, Life, [Next]_vars, NEW g \in Gestures, Stands(g)
  PROVE  Stands(g)' /\ DecisionOf(g)' = DecisionOf(g)
<1>1. call[g].phase # "idle"
  BY DEF Life, EvidenceFits, Early
<1>2. DecisionOf(g)' = DecisionOf(g)
  BY <1>1, DecisionStays DEF DecisionOf
<1>3. Stays(g) \/ Moves(g)
  BY NextMoves
<1>4. Stands(g)'
  BY <1>3, OnTop DEF Stays, Moves, Begins, Reverts, RevertGoesOn, FindsIt, Refuses, Enters, Stumbles, Passes,
     Appends, Advances, Throws, FindsMoved, Settles, Degrades, GivesUp, Projects, IsLost, SameEvidence
<1> QED BY <1>2, <1>4

LEMMA AdmittedStays ==
  ASSUME TypeOK, Life, [Next]_vars, NEW g \in Gestures, call[g].phase # "idle",
         Admitted(DecisionOf(g))
  PROVE  Admitted(DecisionOf(g))'
<1>1. PICK c \in Gestures : Stands(c) /\ DecisionOf(c) = DecisionOf(g)
  BY DEF Admitted
<1>2. Stands(c)' /\ DecisionOf(c)' = DecisionOf(c)
  BY <1>1, StandingStays
<1>3. DecisionOf(g)' = DecisionOf(g)
  BY DecisionStays DEF DecisionOf
<1> QED BY <1>1, <1>2, <1>3 DEF Admitted

\* The calls that turn to the projections, or are over.
LEMMA AfterFields ==
  ASSUME TypeOK, NEW g \in Gestures, FindsIt(g) \/ Settles(g) \/ Degrades(g) \/ IsLost(g)
  PROVE  /\ Keeps(call[g], call'[g]) /\ call'[g].preHead = Unknown /\ call'[g].seen = Unread
         /\ call'[g].phase = "catchingUp" =>
              call'[g].todo = DecisionOf(g).members /\ call'[g].writing = {}
         /\ FindsIt(g) => call'[g].phase = "catchingUp" /\ call'[g].result = "already"
         /\ Settles(g) => call'[g].phase = "catchingUp" /\ call'[g].result = "ok"
         /\ Degrades(g) => call'[g].phase \in {"catchingUp", "done"} /\ call'[g].result = "degraded"
         /\ IsLost(g) => call'[g].phase = "lost" /\ call'[g].result = "none"
<1>1. call[g] \in Calls
  BY Typed, CallFields
<1>2. /\ {"already", "ok", "degraded", "none"} \subseteq Results
      /\ {"done", "lost"} \subseteq Phases
  BY DEF Results, Phases
<1>3. ASSUME NEW res \in {"already", "ok", "degraded"}, call'[g] = Turns(call[g], res)
      PROVE  /\ Keeps(call[g], call'[g]) /\ call'[g].preHead = Unknown /\ call'[g].seen = Unread
             /\ call'[g].phase = "catchingUp" /\ call'[g].result = res
             /\ call'[g].todo = DecisionOf(g).members /\ call'[g].writing = {}
  <2>1. res \in Results
    BY <1>2, <1>3
  <2>2. /\ Turns(call[g], res).phase = "catchingUp" /\ Turns(call[g], res).result = res
        /\ Keeps(call[g], Turns(call[g], res))
        /\ Turns(call[g], res).preHead = Unknown /\ Turns(call[g], res).seen = Unread
        /\ Turns(call[g], res).todo = call[g].decision.members /\ Turns(call[g], res).writing = {}
    BY <1>1, <2>1, TurnsFields
  <2>3. call'[g] = Turns(call[g], res)
    BY <1>3
  <2> QED BY <2>2, <2>3 DEF DecisionOf
<1>4. ASSUME NEW ph \in {"done", "lost"}, NEW res \in {"degraded", "none"},
             call'[g] = Remains(call[g], ph, res)
      PROVE  /\ Keeps(call[g], call'[g]) /\ call'[g].preHead = Unknown /\ call'[g].seen = Unread
             /\ call'[g].phase = ph /\ call'[g].result = res
  <2>1. res \in Results /\ ph \in Phases
    BY <1>2, <1>4
  <2>2. /\ Remains(call[g], ph, res).phase = ph /\ Remains(call[g], ph, res).result = res
        /\ Keeps(call[g], Remains(call[g], ph, res)) /\ Blank(Remains(call[g], ph, res))
    BY <1>1, <2>1, RemainsFields
  <2>3. call'[g] = Remains(call[g], ph, res)
    BY <1>4
  <2> QED BY <2>2, <2>3 DEF Blank
<1>5. FindsIt(g) => /\ Keeps(call[g], call'[g]) /\ call'[g].preHead = Unknown /\ call'[g].seen = Unread
                    /\ call'[g].phase = "catchingUp" /\ call'[g].result = "already"
                    /\ call'[g].todo = DecisionOf(g).members /\ call'[g].writing = {}
  BY <1>3 DEF FindsIt
<1>6. Settles(g) => /\ Keeps(call[g], call'[g]) /\ call'[g].preHead = Unknown /\ call'[g].seen = Unread
                    /\ call'[g].phase = "catchingUp" /\ call'[g].result = "ok"
                    /\ call'[g].todo = DecisionOf(g).members /\ call'[g].writing = {}
  BY <1>3 DEF Settles
<1>7. Degrades(g) => /\ Keeps(call[g], call'[g]) /\ call'[g].preHead = Unknown /\ call'[g].seen = Unread
                     /\ call'[g].phase \in {"catchingUp", "done"} /\ call'[g].result = "degraded"
                     /\ call'[g].phase = "catchingUp" =>
                          call'[g].todo = DecisionOf(g).members /\ call'[g].writing = {}
  BY <1>3, <1>4 DEF Degrades
<1>8. IsLost(g) => /\ Keeps(call[g], call'[g]) /\ call'[g].preHead = Unknown /\ call'[g].seen = Unread
                   /\ call'[g].phase = "lost" /\ call'[g].result = "none"
  BY <1>4 DEF IsLost
<1> QED BY <1>5, <1>6, <1>7, <1>8

LEMMA EvidenceStep ==
  ASSUME TypeOK, Life, [Next]_vars, NEW g \in Gestures PROVE EvidenceFits(g)'
<1>. USE PhaseNames DEF Early
<1>1. EvidenceFits(g) /\ (Stays(g) \/ Moves(g))
  BY NextMoves DEF Life
<1>2. CASE Stays(g)
  BY <1>1, <1>2 DEF Stays, Alike, SameEvidence, EvidenceFits
<1>3. CASE FindsIt(g) \/ Settles(g) \/ Degrades(g) \/ IsLost(g)
  <2>1. call'[g].phase \in {"catchingUp", "done", "lost"}
    BY <1>3, AfterFields
  <2>2. Stands(g)' => g \in Named'
    BY <1>1, <1>3 DEF EvidenceFits, FindsIt, Settles, Degrades, IsLost, SameEvidence
  <2> QED BY <2>1, <2>2 DEF EvidenceFits
<1>4. CASE Advances(g)
  <2>1. Stands(g)'
    BY <1>4, OnTop DEF Advances
  <2> QED BY <1>1, <1>4, <2>1 DEF Advances, From, EvidenceFits
<1>5. CASE Begins(g) \/ Reverts(g) \/ RevertGoesOn(g) \/ Refuses(g) \/ Enters(g) \/ Passes(g)
  BY <1>1, <1>5 DEF Begins, Reverts, RevertGoesOn, Refuses, Enters, Passes, From, SameEvidence,
     EvidenceFits
<1>6. CASE Appends(g) \/ Throws(g) \/ Stumbles(g) \/ FindsMoved(g) \/ GivesUp(g) \/ Projects(g)
  BY <1>1, <1>6 DEF Appends, Throws, Stumbles, FindsMoved, GivesUp, Projects, From, SameEvidence, EvidenceFits
<1> QED BY <1>1, <1>2, <1>3, <1>4, <1>5, <1>6 DEF Moves

LEMMA NamesStep ==
  ASSUME TypeOK, Life, [Next]_vars, NEW g \in Gestures PROVE NamesStand(g)'
<1>. USE PhaseNames
<1>1. NamesStand(g) /\ (Stays(g) \/ Moves(g)) /\ Unknown \notin Gestures /\ NoClaim \notin Gestures
  BY NextMoves, AdmissionAssumption DEF Life
<1>2. /\ call'[g].phase = "idle" => Stays(g)
      /\ call'[g].expected \in {call[g].expected, NoClaim, StandingHead}
      /\ call'[g].preHead \in {call[g].preHead, Unknown, StandingHead}
  <2>1. CASE FindsIt(g) \/ Settles(g) \/ Degrades(g) \/ IsLost(g)
    BY <2>1, AfterFields DEF Keeps
  <2>2. CASE Stays(g) \/ Begins(g) \/ Reverts(g) \/ RevertGoesOn(g) \/ Refuses(g) \/ Enters(g) \/ Passes(g)
    BY <2>2 DEF Stays, Alike, Begins, Reverts, RevertGoesOn, Refuses, Enters, Passes, From, Keeps, Blank
  <2>3. CASE Appends(g) \/ Advances(g) \/ Throws(g) \/ Stumbles(g) \/ FindsMoved(g) \/ GivesUp(g) \/ Projects(g)
    BY <2>3 DEF Appends, Advances, Throws, Stumbles, FindsMoved, GivesUp, Projects, From, GoesOn, Keeps, Blank
  <2> QED BY <1>1, <2>1, <2>2, <2>3 DEF Moves
<1>3. \A h \in Gestures : h = StandingHead => Stands(h)
  BY HeadStands
<1>4. \A h \in Gestures : Stands(h) => Stands(h)'
  BY StandingStays
<1>5. call'[g].phase = "idle" => call'[g].expected = NoClaim
  BY <1>1, <1>2 DEF NamesStand, Stays, Alike
<1> QED BY <1>1, <1>2, <1>3, <1>4, <1>5 DEF NamesStand

LEMMA BlindStep ==
  ASSUME TypeOK, Life, [Next]_vars, NEW g \in Gestures PROVE BlindFits(g)'
<1>. USE PhaseNames
<1>1. Life /\ (Stays(g) \/ Moves(g))
  BY NextMoves
<1> SUFFICES ASSUME call'[g].phase \in {"claiming", "advancing"}, call'[g].expected \in Gestures,
                    DecisionOf(call[g].expected)' = DecisionOf(g)'
             PROVE  call'[g].blind
  BY DEF BlindFits
<1>2. call[g].phase # "idle" /\ (Stays(g) \/ Passes(g) \/ Appends(g) \/ Projects(g))
  <2>1. ~(FindsIt(g) \/ Settles(g) \/ Degrades(g) \/ IsLost(g))
    BY AfterFields
  <2>2. Stays(g) => call[g].phase # "idle"
    BY DEF Stays, Alike
  <2> QED BY <1>1, <2>1, <2>2 DEF Moves, Begins, Reverts, RevertGoesOn, Refuses, Enters, Stumbles, Passes,
            Appends, Advances, Throws, FindsMoved, GivesUp, Projects, From
<1>3. DecisionOf(g)' = DecisionOf(g)
  BY <1>2, DecisionStays DEF DecisionOf
<1>4. \A h \in Gestures : Stands(h) => DecisionOf(h)' = DecisionOf(h)
  BY StandingStays
<1>5. CASE Passes(g)
  <2>1. call'[g].expected = StandingHead /\ StandingHead \in Gestures
    BY <1>5 DEF Passes
  <2>2. DecisionOf(StandingHead) = DecisionOf(g)
    BY <1>3, <1>4, <2>1, HeadStands DEF DecisionOf
  <2> QED BY <1>5, <2>1, <2>2 DEF Passes
<1>6. CASE ~Passes(g)
  <2>1. /\ call'[g].expected = call[g].expected /\ call'[g].blind = call[g].blind
        /\ call[g].phase \in {"claiming", "advancing"}
    BY <1>2, <1>6 DEF Stays, Alike, Appends, Projects, GoesOn, Keeps, From
  <2>2. Stands(call[g].expected)
    BY <2>1 DEF Life, NamesStand
  <2>3. DecisionOf(call[g].expected) = DecisionOf(g)
    BY <1>3, <1>4, <2>1, <2>2 DEF DecisionOf
  <2> QED BY <2>1, <2>3 DEF Life, BlindFits
<1> QED BY <1>5, <1>6

LEMMA CatchStep ==
  ASSUME TypeOK, Life, [Next]_vars, NEW g \in Gestures PROVE CatchFits(g)'
<1>. USE PhaseNames
<1>1. Stays(g) \/ Moves(g)
  BY NextMoves
<1> SUFFICES ASSUME call'[g].phase = "catchingUp"
             PROVE  /\ call'[g].todo \union call'[g].writing \subseteq DecisionOf(g)'.members
                    /\ Admitted(DecisionOf(g))'
  BY DEF CatchFits
<1>2. call[g].phase # "idle" /\ (Stays(g) \/ FindsIt(g) \/ Settles(g) \/ Degrades(g) \/ Projects(g))
  <2>1. ~IsLost(g)
    BY AfterFields
  <2>2. Stays(g) => call[g].phase # "idle"
    BY DEF Stays, Alike
  <2> QED BY <1>1, <2>1, <2>2 DEF Moves, Begins, Reverts, RevertGoesOn, Refuses, Enters, Stumbles, Passes,
            Appends, Advances, Throws, FindsMoved, GivesUp, Projects, From, FindsIt, Settles, Degrades
<1>3. DecisionOf(g)' = DecisionOf(g) /\ (Admitted(DecisionOf(g)) => Admitted(DecisionOf(g))')
  BY <1>2, DecisionStays, AdmittedStays DEF DecisionOf
<1>4. CASE Stays(g) \/ Projects(g)
  <2>1. /\ call[g].phase = "catchingUp"
        /\ call'[g].todo \union call'[g].writing \subseteq call[g].todo \union call[g].writing
    BY <1>4 DEF Stays, Alike, Projects
  <2>2. /\ call[g].todo \union call[g].writing \subseteq DecisionOf(g).members
        /\ Admitted(DecisionOf(g))
    BY <2>1 DEF Life, CatchFits
  <2> QED BY <1>3, <2>1, <2>2
<1>5. CASE FindsIt(g) \/ Settles(g) \/ Degrades(g)
  <2>1. call'[g].todo = DecisionOf(g).members /\ call'[g].writing = {}
    BY <1>5, AfterFields
  <2>2. Admitted(DecisionOf(g))
    <3>1. CASE FindsIt(g)
      BY <3>1 DEF FindsIt, Life, NamesStand, Admitted
    <3>2. CASE Settles(g)
      BY <3>2 DEF Settles, Life, EvidenceFits, Admitted
    <3>3. CASE Degrades(g)
      BY <3>3, HeadStands DEF Degrades, Admitted
    <3> QED BY <1>5, <3>1, <3>2, <3>3
  <2> QED BY <1>3, <2>1, <2>2
<1> QED BY <1>2, <1>4, <1>5

LEMMA InitLife == ASSUME Init PROVE Life
<1>1. \A g \in Gestures : /\ call[g].phase = "idle" /\ call[g].expected = NoClaim
                          /\ call[g].preHead = Unknown
  BY DEF Init, IdleCall, Bare
<1>2. \A g \in Gestures : ~Stands(g) /\ g \notin Named
  BY DEF Init, Stands, Named
<1> QED BY <1>1, <1>2, AdmissionAssumption DEF Life, EvidenceFits, NamesStand, BlindFits, CatchFits

\* A claim is written before it stands, stands before it is settled or projected,
\* and what it names stood before it.
THEOREM LifeCorrect == Spec => []Life
<1>1. TypeOK /\ Life /\ [Next]_vars => Life'
  BY EvidenceStep, NamesStep, BlindStep, CatchStep DEF Life
<1> QED BY <1>1, InitLife, TypeCorrect, PTL DEF Spec
-----------------------------------------------------------------------------
(* The standing ledger.                                                    *)

Expects == [g \in Gestures |-> call[g].expected]

\* One step advances the ref once, writes one claim, or does neither.
LEMMA OneWrite ==
  ASSUME TypeOK, Life, [Next]_vars
  PROVE  \/ standing' = standing /\ Named' = Named
         \/ \E g \in Gestures : /\ standing' = standing /\ AppendClaim(g)
                                /\ Named' \in {Named, Named \union {g}}
         \/ \E g \in Gestures : Advances(g) /\ Named' = Named
<1>1. CASE UNCHANGED durable
  BY <1>1 DEF durable, Named
<1>2. ASSUME NEW g \in Gestures, AppendClaim(g)
      PROVE  standing' = standing /\ Named' \in {Named, Named \union {g}}
  <2>1. /\ standing' = standing
        /\ claimLines' \in {claimLines, claimLines \union {g}}
        /\ glued' \in {glued, glued \union {g}}
    BY <1>2 DEF AppendClaim
  <2> QED BY <2>1 DEF Named
<1>3. ASSUME NEW g \in Gestures, Advance(g)
      PROVE  Named' = Named /\ (standing' = standing \/ Advances(g))
  <2>1. Named' = Named /\ call[g].phase = "advancing" /\ Moves(g)
    BY <1>3, StepMoves DEF Advance, Named, Step
  <2>2. standing' = standing \/ (standing' = Append(standing, g) /\ CasHolds(g)
                                  /\ (Goes(g, "settling") \/ (Goes(g, "rechecking") /\ Fails)))
    BY <1>3 DEF Advance, Faults, Fails
  <2>3. ASSUME NEW ph \in Phases, Goes(g, ph) PROVE GoesOn(call[g], call'[g]) /\ call'[g].phase = ph
    BY <2>3, Typed, GoesFields DEF GoesOn
  <2>4. "settling" \in Phases /\ "rechecking" \in Phases
    BY DEF Phases
  <2>5. UNCHANGED settlements
    BY <1>3 DEF Advance
  <2> QED BY <2>1, <2>2, <2>3, <2>4, <2>5 DEF Advances, CasHolds, From
<1>4. ASSUME NEW g \in Gestures, Settle(g) PROVE standing' = standing /\ Named' = Named
  BY <1>4 DEF Settle, Named
<1>5. CASE Restart
  BY <1>5 DEF Restart, Named
<1>6. UNCHANGED durable \/ Restart
        \/ \E g \in Gestures : AppendClaim(g) \/ Advance(g) \/ Settle(g)
  BY ZenonT(60) DEF Next, Step, vars, Propose, OutsideEdit, LandLate, Remount, Click, ClickRevert, Look, LookThrows, Judge,
     JudgeThrows, Recheck, MarkAdmitted, MarkLands, WriteBase, Supersede, SupersedeLands
<1> QED BY <1>1, <1>2, <1>3, <1>4, <1>5, <1>6

\* What a call names is what it named, unless it passed its judgement just now;
\* of two calls, one step judges one.
LEMMA ExpectsStays ==
  ASSUME TypeOK, Life, [Next]_vars, NEW g \in Gestures
  PROVE  call'[g].expected = call[g].expected \/ Passes(g)
<1>1. (Stays(g) \/ Moves(g)) /\ (call[g].phase = "idle" => call[g].expected = NoClaim)
  BY NextMoves DEF Life, NamesStand
<1>2. CASE FindsIt(g) \/ Settles(g) \/ Degrades(g) \/ IsLost(g)
  BY <1>2, AfterFields DEF Keeps
<1>3. CASE Stays(g) \/ Begins(g) \/ Reverts(g) \/ RevertGoesOn(g) \/ Refuses(g) \/ Enters(g)
  BY <1>1, <1>3 DEF Stays, Alike, Begins, Reverts, RevertGoesOn, Refuses, Enters, From, Keeps
<1>4. CASE Appends(g) \/ Advances(g) \/ Throws(g) \/ Stumbles(g) \/ FindsMoved(g) \/ GivesUp(g) \/ Projects(g)
  BY <1>4 DEF Appends, Advances, Throws, Stumbles, FindsMoved, GivesUp, Projects, GoesOn, Keeps
<1> QED BY <1>1, <1>2, <1>3, <1>4 DEF Moves

LEMMA OnePasses ==
  ASSUME TypeOK, [Next]_vars, NEW g \in Gestures, Passes(g)
  PROVE  Step(g) /\ call[g].phase = "queued" /\ \A h \in Gestures : h # g => Stays(h)
<1>. USE PhaseNames
<1>1. call[g].phase = "queued" /\ call'[g].phase = "claiming"
  BY DEF Passes, From
<1>2. ASSUME NEW h \in Gestures, Click(h) \/ ClickRevert(h) PROVE FALSE
  <2>1. call[h].phase = "idle" /\ Others(h)
    BY <1>2, ClickFields, ClickRevertFields DEF Click, ClickRevert
  <2> QED BY <1>1, <2>1 DEF Others, Alike
<1>3. ASSUME NEW h \in Gestures, Step(h) PROVE h = g
  BY <1>1, <1>3, OthersStay DEF Stays, Alike
<1>4. ~Restart
  <2>1. ASSUME Restart PROVE call'[g] = Remains(call[g], "lost", "none")
    BY <1>1, <2>1 DEF Restart, InFlight
  <2> QED BY <1>1, <2>1 DEF Remains, Bare
<1>5. ~LandLate
  BY <1>1, LandLateFields DEF Alike
<1>6. Step(g)
  BY <1>1, <1>2, <1>3, <1>4, <1>5 DEF Next, vars, Propose, OutsideEdit, Remount
<1> QED BY <1>1, <1>6, OthersStay

LEMMA LedgerStep ==
  ASSUME TypeOK, Life, [Next]_vars
  PROVE  [Ledger!LedgerNext]_(Ledger!ledgervars)
<1>. USE PhaseNames
<1>1. Ledger!Standing = StandingHead
  BY DEF Ledger!Standing, StandingHead
<1>2. CASE \E g \in Gestures : Passes(g)
  <2>1. PICK g \in Gestures : Passes(g)
    BY <1>2
  <2>2. /\ Step(g) /\ call[g].phase = "queued" /\ g \notin Named
        /\ \A h \in Gestures : h # g => call'[h].expected = call[h].expected
        /\ call'[g].expected = StandingHead
    BY <2>1, OnePasses DEF Life, EvidenceFits, Early, Stays, Alike, Passes
  <2>3. standing' = standing /\ Named' = Named
    <3>1. Judge(g) \/ JudgeThrows(g)
      BY <2>2 DEF Step, Look, LookThrows, AppendClaim, Advance, Settle, Recheck, MarkAdmitted, MarkLands,
                  WriteBase, Supersede, SupersedeLands
    <3> QED BY <3>1 DEF Judge, JudgeThrows, durable, Named
  <2>4. Expects' = [Expects EXCEPT ![g] = StandingHead]
    BY <2>2 DEF Expects
  <2>5. Ledger!Draft(g)
    BY <1>1, <2>2, <2>3, <2>4 DEF Ledger!Draft, Expects, Named
  <2> QED BY <2>5 DEF Ledger!LedgerNext
<1>3. CASE ~\E g \in Gestures : Passes(g)
  <2>1. Expects' = Expects
    BY <1>3, ExpectsStays DEF Expects
  <2>2. CASE standing' = standing /\ Named' = Named
    BY <2>1, <2>2 DEF Ledger!ledgervars, Expects, Named
  <2>3. ASSUME NEW g \in Gestures, standing' = standing, AppendClaim(g),
               Named' \in {Named, Named \union {g}}
        PROVE  [Ledger!LedgerNext]_(Ledger!ledgervars)
    <3>1. g \notin Named
      BY <2>3 DEF AppendClaim, Life, EvidenceFits, Early
    <3>2. CASE Named' = Named
      BY <2>1, <2>3, <3>2 DEF Ledger!ledgervars, Expects, Named
    <3>3. CASE Named' = Named \union {g}
      <4>1. Ledger!Write(g)
        BY <2>1, <2>3, <3>1, <3>3 DEF Ledger!Write, Expects, Named
      <4> QED BY <4>1 DEF Ledger!LedgerNext
    <3> QED BY <2>3, <3>2, <3>3
  <2>4. ASSUME NEW g \in Gestures, Advances(g), Named' = Named
        PROVE  [Ledger!LedgerNext]_(Ledger!ledgervars)
    <3>1. /\ call[g].phase = "advancing" /\ call[g].expected = StandingHead
          /\ standing' = Append(standing, g)
      BY <2>4 DEF Advances, From
    <3>2. g \in Named /\ ~Stands(g)
      BY <3>1 DEF Life, EvidenceFits
    <3>3. Ledger!Attach(g)
      BY <1>1, <2>1, <2>4, <3>1, <3>2 DEF Ledger!Attach, Expects, Named, Stands
    <3> QED BY <3>3 DEF Ledger!LedgerNext
  <2> QED BY <2>2, <2>3, <2>4, OneWrite
<1> QED BY <1>2, <1>3

\* The machinery implements the standing ledger: standing is a chain of claims,
\* each written before it stood and linked to the claim it named.
THEOREM LedgerImplemented == Spec => ImplementsLedger
<1>1. Init => Ledger!LedgerInit
  BY DEF Init, Ledger!LedgerInit, IdleCall, Bare
<1> QED BY <1>1, LedgerStep, TypeCorrect, LifeCorrect, PTL
        DEF Spec, ImplementsLedger, Ledger!LedgerSpec
-----------------------------------------------------------------------------
(* What stands next to what, and what the projection shows.                 *)

LEMMA ClaimsStay ==
  ASSUME TypeOK, Life, [Next]_vars, NEW g \in Gestures, call[g].phase = "advancing" \/ Stands(g)
  PROVE  DecisionOf(g)' = DecisionOf(g) /\ call'[g].blind = call[g].blind
<1>. USE PhaseNames
<1>1. (Stays(g) \/ Moves(g)) /\ call[g].phase \notin Early
  BY NextMoves DEF Life, EvidenceFits, Early
<1>2. DecisionOf(g)' = DecisionOf(g)
  BY <1>1, DecisionStays DEF Early, DecisionOf
<1> SUFFICES call'[g].blind = call[g].blind
  BY <1>2
<1>3. CASE FindsIt(g) \/ Settles(g) \/ Degrades(g) \/ IsLost(g)
  BY <1>3, AfterFields DEF Keeps
<1>4. CASE Stays(g) \/ Begins(g) \/ Reverts(g) \/ RevertGoesOn(g) \/ Refuses(g) \/ Enters(g) \/ Passes(g)
  BY <1>1, <1>4 DEF Stays, Alike, Begins, Reverts, RevertGoesOn, Refuses, Enters, Passes, From,
     Keeps, Early
<1>5. CASE Appends(g) \/ Advances(g) \/ Throws(g) \/ Stumbles(g) \/ FindsMoved(g) \/ GivesUp(g) \/ Projects(g)
  BY <1>5 DEF Appends, Advances, Throws, Stumbles, FindsMoved, GivesUp, Projects, GoesOn, Keeps
<1> QED BY <1>1, <1>3, <1>4, <1>5 DEF Moves

LEMMA DuplicatesStep ==
  ASSUME TypeOK, Life, DuplicatesOnlyWhenBlind, [Next]_vars PROVE DuplicatesOnlyWhenBlind'
<1>1. standing \in Seq(Gestures) /\ Len(standing) \in Nat
  BY DEF TypeOK
<1>2. \A i \in 1..Len(standing) : standing[i] \in Gestures /\ Stands(standing[i])
  BY <1>1 DEF Stands
<1>3. \A i \in 1..Len(standing) :
        /\ call'[standing[i]].decision = call[standing[i]].decision
        /\ call'[standing[i]].blind = call[standing[i]].blind
  BY <1>2, ClaimsStay DEF DecisionOf
<1>4. \A i \in 1..Len(standing) - 1 :
        call'[standing[i]].decision = call'[standing[i + 1]].decision => call'[standing[i + 1]].blind
  <2> SUFFICES ASSUME NEW i \in 1..Len(standing) - 1,
                      call'[standing[i]].decision = call'[standing[i + 1]].decision
               PROVE  call'[standing[i + 1]].blind
    OBVIOUS
  <2>1. i \in 1..Len(standing) /\ i + 1 \in 1..Len(standing)
    BY <1>1
  <2> QED BY <1>3, <2>1 DEF DuplicatesOnlyWhenBlind, DecisionOf
<1>5. CASE standing' = standing
  BY <1>4, <1>5 DEF DuplicatesOnlyWhenBlind, DecisionOf
<1>6. ASSUME NEW g \in Gestures, Advances(g) PROVE DuplicatesOnlyWhenBlind'
  <2>1. /\ standing' = Append(standing, g) /\ call[g].phase = "advancing"
        /\ call[g].expected = StandingHead
    BY <1>6 DEF Advances, From
  <2>2. /\ Len(standing') = Len(standing) + 1 /\ standing'[Len(standing) + 1] = g
        /\ \A i \in 1..Len(standing) : standing'[i] = standing[i]
    BY <2>1, OnTop
  <2>3. call'[g].decision = call[g].decision /\ call'[g].blind = call[g].blind
    BY <2>1, ClaimsStay DEF DecisionOf
  <2> SUFFICES ASSUME NEW i \in 1..Len(standing') - 1,
                      call'[standing'[i]].decision = call'[standing'[i + 1]].decision
               PROVE  call'[standing'[i + 1]].blind
    BY DEF DuplicatesOnlyWhenBlind, DecisionOf
  <2>4. CASE i \in 1..Len(standing) - 1
    <3>1. standing'[i] = standing[i] /\ standing'[i + 1] = standing[i + 1]
      BY <1>1, <2>2, <2>4
    <3> QED BY <1>4, <2>4, <3>1
  <2>5. CASE i = Len(standing)
    <3>1. i \in 1..Len(standing) /\ standing'[i + 1] = g /\ standing'[i] = standing[i]
      BY <1>1, <2>2, <2>5
    <3>2. StandingHead = standing[i] /\ StandingHead \in Gestures
      BY <1>1, <1>2, <2>5, <3>1 DEF StandingHead
    <3>3. DecisionOf(StandingHead) = DecisionOf(g)
      BY <1>3, <2>3, <3>1, <3>2 DEF DecisionOf
    <3>4. call[g].blind
      BY <2>1, <3>2, <3>3 DEF Life, BlindFits
    <3> QED BY <2>3, <3>1, <3>4
  <2> QED BY <1>1, <2>2, <2>4, <2>5
<1> QED BY <1>5, <1>6, OneWrite

\* Two admissions of one decision never stand next to each other, unless the
\* second was judged by a claim cache that missed the first.
THEOREM DuplicatesCorrect == Spec => []DuplicatesOnlyWhenBlind
<1>1. Init => DuplicatesOnlyWhenBlind
  BY DEF Init, DuplicatesOnlyWhenBlind
<1> QED BY <1>1, DuplicatesStep, TypeCorrect, LifeCorrect, PTL DEF Spec

\* What may become of the proposal store in one step.
StoreStays == UNCHANGED <<authority, filed, unsure, late>>
StoreMoves ==
  \/ StoreStays \/ LandLate \/ Restart
  \/ \E p \in Proposals : EventOf({p}, {"none"}, "proposed")
  \/ \E g \in Gestures : MarkLands(g) /\ EventOf(call[g].writing, {"proposed"}, "admitted")
  \/ \E g \in Gestures : EventOf(call[g].writing, {"proposed", "superseded"}, "superseded")

LEMMA NextStoreMoves == ASSUME TypeOK, [Next]_vars PROVE StoreMoves
<1>1. ASSUME NEW p \in Proposals, Propose(p) PROVE EventOf({p}, {"none"}, "proposed")
  BY <1>1 DEF Propose, EventOf
<1>2. ASSUME NEW g \in Gestures, MarkLands(g)
      PROVE  EventOf(call[g].writing, {"proposed"}, "admitted")
  BY <1>2, Attached DEF MarkLands, EventOf
<1>3. ASSUME NEW g \in Gestures, SupersedeLands(g)
      PROVE  EventOf(call[g].writing, {"proposed", "superseded"}, "superseded")
  BY <1>3, Attached DEF SupersedeLands, EventOf
<1>4. CASE UNCHANGED proposals
  BY <1>4 DEF proposals, StoreStays, StoreMoves
<1>5. \/ UNCHANGED proposals \/ LandLate \/ Restart \/ (\E p \in Proposals : Propose(p))
      \/ \E g \in Gestures : MarkLands(g) \/ SupersedeLands(g)
  BY ZenonT(60) DEF Next, Step, vars, OutsideEdit, Remount, Click, ClickRevert, Look, LookThrows, Judge,
     JudgeThrows, AppendClaim, Advance, Settle, Recheck, MarkAdmitted, WriteBase, Supersede
<1> QED BY <1>1, <1>2, <1>3, <1>4, <1>5 DEF StoreMoves

\* The folds the store has, or will answer from when a second cold read lands.
Shown == {authority, filed} \union late
Covered(p) == \E g \in Gestures : Stands(g) /\ p \in DecisionOf(g).members
\* No fold runs ahead, and the two differ only in proposals known to be unsure.
StoreInv ==
  /\ \A f \in Shown, p \in Proposals : f[p] = "admitted" => Covered(p)
  /\ \A p \in Proposals : authority[p] # filed[p] => p \in unsure

LEMMA InitStore == ASSUME Init PROVE StoreInv
BY DEF Init, StoreInv, Shown

\* A fold admits only what an event of a call that catches up names.
LEMMA ShownStep ==
  ASSUME TypeOK, Life, StoreInv, [Next]_vars, NEW f \in Shown', NEW p \in Proposals, f[p] = "admitted"
  PROVE  Covered(p)
<1>1. \A e \in Shown : e[p] = "admitted" => Covered(p)
  BY DEF StoreInv
<1>2. ASSUME NEW ps, NEW from, NEW to, EventOf(ps, from, to)
      PROVE  f \in Shown \/ \E e \in Shown : f = Folded(e, ps, from, to)
  BY <1>2, EventEffect DEF Shown
<1>3. ASSUME NEW ps, NEW from, NEW to, NEW e, f = Folded(e, ps, from, to)
      PROVE  e[p] = "admitted" \/ (p \in ps /\ to = "admitted")
  BY <1>3 DEF Folded
<1>4. CASE f \in Shown
  BY <1>1, <1>4
<1>5. CASE StoreStays \/ LandLate \/ Restart
  BY <1>4, <1>5 DEF StoreStays, LandLate, Restart, Shown
<1>6. CASE \E q \in Proposals : EventOf({q}, {"none"}, "proposed")
  BY <1>1, <1>2, <1>3, <1>6
<1>7. CASE \E g \in Gestures : EventOf(call[g].writing, {"proposed", "superseded"}, "superseded")
  BY <1>1, <1>2, <1>3, <1>7
<1>8. ASSUME NEW g \in Gestures, MarkLands(g), EventOf(call[g].writing, {"proposed"}, "admitted")
      PROVE  Covered(p)
  <2>1. CASE p \in call[g].writing
    <3>1. p \in DecisionOf(g).members /\ Admitted(DecisionOf(g))
      BY <1>8, <2>1 DEF MarkLands, Life, CatchFits
    <3> QED BY <3>1 DEF Admitted, Covered
  <2>2. CASE p \notin call[g].writing
    BY <1>1, <1>2, <1>3, <1>8, <2>2
  <2> QED BY <2>1, <2>2
<1> QED BY <1>5, <1>6, <1>7, <1>8, NextStoreMoves DEF StoreMoves

\* An event that reaches one fold only leaves its proposals unsure.
LEMMA UnsureStep ==
  ASSUME TypeOK, StoreInv, [Next]_vars, NEW p \in Proposals, authority'[p] # filed'[p]
  PROVE  p \in unsure'
<1>1. authority[p] # filed[p] => p \in unsure
  BY DEF StoreInv
<1>2. ASSUME NEW ps, NEW from, NEW to, EventOf(ps, from, to) PROVE p \in unsure'
  <2>1. CASE p \in ps /\ unsure' = unsure \union ps
    BY <2>1
  <2>2. CASE p \notin ps
    <3>1. \A f : Folded(f, ps, from, to)[p] = f[p]
      BY <2>2 DEF Folded
    <3>2. authority' \in {authority, Folded(authority, ps, from, to)}
          /\ filed' \in {filed, Folded(filed, ps, from, to)}
      BY <1>2, EventEffect
    <3>3. authority'[p] = authority[p] /\ filed'[p] = filed[p]
      BY <3>1, <3>2
    <3> QED BY <1>1, <1>2, <3>3, EventEffect
  <2>3. CASE authority' = Folded(authority, ps, from, to) /\ filed' = Folded(filed, ps, from, to)
    <3>1. authority[p] # filed[p]
      BY <2>3 DEF Folded
    <3> QED BY <1>1, <1>2, <3>1, EventEffect
  <2> QED BY <1>2, <2>1, <2>2, <2>3, EventEffect
<1>3. CASE StoreStays
  BY <1>1, <1>3 DEF StoreStays
<1>4. CASE LandLate
  BY <1>4 DEF LandLate
<1>5. CASE Restart
  BY <1>5 DEF Restart
<1> QED BY <1>2, <1>3, <1>4, <1>5, NextStoreMoves DEF StoreMoves

LEMMA StoreStep == ASSUME TypeOK, Life, StoreInv, [Next]_vars PROVE StoreInv'
<1>1. ASSUME NEW p \in Proposals, Covered(p) PROVE Covered(p)'
  <2>1. PICK g \in Gestures : Stands(g) /\ p \in DecisionOf(g).members
    BY <1>1 DEF Covered
  <2>2. Stands(g)' /\ DecisionOf(g)' = DecisionOf(g)
    BY <2>1, StandingStays
  <2>3. p \in DecisionOf(g)'.members
    BY <2>1, <2>2
  <2> QED BY <2>2, <2>3 DEF Covered, DecisionOf
<1>2. ASSUME NEW f \in Shown', NEW p \in Proposals, f[p] = "admitted" PROVE Covered(p)'
  BY <1>1, <1>2, ShownStep
<1>3. ASSUME NEW p \in Proposals, authority'[p] # filed'[p] PROVE p \in unsure'
  BY <1>3, UnsureStep
<1> QED BY <1>2, <1>3 DEF StoreInv

\* Neither fold of the proposals' events, nor one still to land, runs ahead of what
\* stands, and the two differ only in proposals with an event in doubt.
THEOREM StoreCorrect == Spec => []StoreInv
<1>1. TypeOK /\ Life /\ StoreInv /\ [Next]_vars => StoreInv'
  BY StoreStep
<1> QED BY <1>1, InitStore, TypeCorrect, LifeCorrect, PTL DEF Spec

\* What the cached or the filed events show as admitted is covered by a claim that
\* stands.
THEOREM ProjectionCorrect == Spec => []ProjectionNeverAhead
<1>1. StoreInv => ProjectionNeverAhead
  BY DEF StoreInv, Shown, Covered, ProjectionNeverAhead
<1> QED BY <1>1, StoreCorrect, PTL

\* A fold keeps a verdict, whatever event it is given.
LEMMA FoldKeeps ==
  ASSUME NEW f, NEW ps, NEW p \in Proposals, f[p] \in Verdicts
  PROVE  /\ Folded(f, ps, {"none"}, "proposed")[p] = f[p]
         /\ Folded(f, ps, {"proposed"}, "admitted")[p] = f[p]
         /\ Folded(f, ps, {"proposed", "superseded"}, "superseded")[p] = f[p]
BY DEF Folded, Verdicts

\* What a step may do to a verdict in either fold.
VerdictKept(p) ==
  /\ filed[p] \in Verdicts => filed'[p] = filed[p]
  /\ authority[p] \in Verdicts /\ authority'[p] # authority[p] =>
       \/ authority' \in late
       \/ mount' # mount /\ p \in unsure /\ authority'[p] = filed[p]

LEMMA VerdictStep ==
  ASSUME TypeOK, StoreInv, [Next]_vars, NEW p \in Proposals PROVE VerdictKept(p)
<1>1. ASSUME NEW ps, EventOf(ps, {"none"}, "proposed") \/ EventOf(ps, {"proposed"}, "admitted")
                       \/ EventOf(ps, {"proposed", "superseded"}, "superseded")
      PROVE  VerdictKept(p)
  <2>1. filed[p] \in Verdicts => filed'[p] = filed[p]
    BY <1>1, EventEffect, FoldKeeps
  <2>2. authority[p] \in Verdicts => authority'[p] = authority[p]
    BY <1>1, EventEffect, FoldKeeps
  <2> QED BY <2>1, <2>2 DEF VerdictKept
<1>2. CASE StoreStays
  BY <1>2 DEF StoreStays, VerdictKept
<1>3. CASE LandLate
  BY <1>3 DEF LandLate, VerdictKept
<1>4. CASE Restart
  <2>1. mount' # mount
    BY <1>4 DEF Restart, TypeOK, Mounts
  <2>2. authority' = filed /\ filed' = filed
    BY <1>4 DEF Restart
  <2> QED BY <2>1, <2>2 DEF StoreInv, VerdictKept
<1> QED BY <1>1, <1>2, <1>3, <1>4, NextStoreMoves DEF StoreMoves

\* A verdict is final in the file; in what is shown it is taken back only by a late
\* cold read, or by a restart for a proposal with an event in doubt.
THEOREM VerdictsCorrect == Spec => VerdictsAreFinal
<1>1. TypeOK /\ StoreInv /\ [Next]_vars =>
        [\A p \in Proposals : VerdictKept(p)]_<<authority, filed>>
  BY VerdictStep
<1> QED BY <1>1, TypeCorrect, StoreCorrect, PTL DEF Spec, VerdictsAreFinal, VerdictKept
-----------------------------------------------------------------------------
(* What callers are told.                                                  *)

\* A call is told nothing before it is over but for the projections, and then
\* what the durable state says of its claim and of its decision.
ResultFits(g) ==
  /\ call[g].phase \notin {"catchingUp", "done"} => call[g].result = "none"
  /\ call[g].result = "ok" => Stands(g) /\ g \in settlements
  /\ call[g].result \in {"already", "refused", "moved"} => ~Stands(g)
  /\ call[g].result \in {"already", "degraded"} => Admitted(DecisionOf(g))
\* A call that has its locals, and what it took for them to be as they are: a ref
\* that was not read and an exception are a fault each.
Open == {"looking", "queued", "claiming", "advancing", "settling", "rechecking"}
FaultsFit(g) ==
  /\ call[g].preHead # g
  /\ call[g].phase \in Open /\ call[g].preHead = Unknown => faults >= 1
  /\ call[g].phase = "rechecking" => faults >= 1
  /\ call[g].phase = "rechecking" /\ call[g].preHead = Unknown => faults >= 2
\* A mount that appends claims has read the file before, so that no read of the
\* file by the same mount is still to replace the cache with one that holds them.
ReadsFit(g) ==
  /\ call[g].phase = "claiming" \/ g \in claimLines => cache[call[g].at] # Unread
  /\ call[g].seen # Unread => call[g].seen \subseteq claimLines
  /\ \A h \in Gestures : call[h].at = call[g].at /\ g \in claimLines => g \notin call[h].seen
\* A standing admission is reported as a failure only for one of three reasons.
ErrorFits(g) ==
  call[g].result = "error" /\ Stands(g) =>
    faults >= 2 \/ StandingHead # g \/ g \notin cache[call[g].at]
Honest == \A g \in Gestures : ResultFits(g) /\ FaultsFit(g) /\ ReadsFit(g) /\ ErrorFits(g)

\* A call that has begun keeps its result until it is told.
LEMMA ResultStep ==
  ASSUME TypeOK, Life, Honest, [Next]_vars, NEW g \in Gestures PROVE ResultFits(g)'
<1>. USE PhaseNames DEF Early
<1>1. ResultFits(g) /\ EvidenceFits(g) /\ NamesStand(g) /\ (Stays(g) \/ Moves(g))
  BY NextMoves DEF Life, Honest
<1>2. ASSUME call[g].phase # "idle", Admitted(DecisionOf(g)) PROVE Admitted(DecisionOf(g))'
  BY <1>2, AdmittedStays
<1>3. CASE Stays(g) \/ Projects(g)
  <2>1. /\ call'[g].result = call[g].result /\ SameEvidence(g)
        /\ call'[g].phase \notin {"catchingUp", "done"} => call[g].phase \notin {"catchingUp", "done"}
    BY <1>3 DEF Stays, Alike, Projects
  <2>2. call[g].result # "none" => call[g].phase # "idle"
    BY <1>1 DEF ResultFits
  <2> QED BY <1>1, <1>2, <2>1, <2>2 DEF ResultFits, SameEvidence
<1>4. CASE FindsIt(g)
  <2>1. call'[g].phase = "catchingUp" /\ call'[g].result = "already" /\ ~Stands(g)'
    BY <1>1, <1>4, AfterFields DEF FindsIt, EvidenceFits, SameEvidence
  <2>2. Admitted(DecisionOf(g)) /\ call[g].phase # "idle"
    BY <1>1, <1>4 DEF FindsIt, NamesStand, Admitted
  <2> QED BY <1>2, <2>1, <2>2 DEF ResultFits
<1>5. CASE Settles(g)
  <2>1. call'[g].phase = "catchingUp" /\ call'[g].result = "ok"
    BY <1>5, AfterFields
  <2>2. Stands(g)' /\ g \in settlements'
    BY <1>1, <1>5 DEF Settles, EvidenceFits
  <2> QED BY <2>1, <2>2 DEF ResultFits
<1>6. CASE Degrades(g)
  <2>1. call'[g].phase \in {"catchingUp", "done"} /\ call'[g].result = "degraded"
    BY <1>6, AfterFields
  <2>2. Admitted(DecisionOf(g)) /\ call[g].phase # "idle"
    BY <1>6, HeadStands DEF Degrades, Admitted
  <2> QED BY <1>2, <2>1, <2>2 DEF ResultFits
<1>7. CASE IsLost(g)
  <2>1. call'[g].phase = "lost" /\ call'[g].result = "none"
    BY <1>7, AfterFields
  <2> QED BY <2>1 DEF ResultFits
<1>8. CASE Reverts(g) \/ Refuses(g) \/ FindsMoved(g)
  <2>1. ~Stands(g)'
    BY <1>1, <1>8 DEF Reverts, Refuses, FindsMoved, From, EvidenceFits, SameEvidence
  <2>2. \/ call'[g].phase = "done" /\ call'[g].result \in {"refused", "moved"}
        \/ call'[g].phase = "reverting" /\ call'[g].result = "none"
    BY <1>8 DEF Reverts, Refuses, FindsMoved, From
  <2> QED BY <2>1, <2>2 DEF ResultFits
<1>9. CASE RevertGoesOn(g) \/ GivesUp(g)
  <2>1. \/ call'[g].phase = "done" /\ call'[g].result \in {"reverted", "partial", "error"}
        \/ call'[g].phase = "superseding" /\ call'[g].result = "none"
    BY <1>1, <1>9 DEF RevertGoesOn, GivesUp, From, ResultFits
  <2> QED BY <2>1 DEF ResultFits
<1>10. CASE Begins(g) \/ Enters(g) \/ Stumbles(g) \/ Passes(g) \/ Appends(g) \/ Advances(g) \/ Throws(g)
  <2>1. call'[g].result = "none" /\ call'[g].phase \notin {"catchingUp", "done"}
    BY <1>1, <1>10 DEF Begins, Enters, Stumbles, Passes, Appends, Advances, Throws, From, GoesOn, ResultFits
  <2> QED BY <2>1 DEF ResultFits
<1> QED BY <1>1, <1>3, <1>4, <1>5, <1>6, <1>7, <1>8, <1>9, <1>10 DEF Moves

\* Faults are only ever added.
LEMMA FaultsGrow ==
  ASSUME TypeOK, [Next]_vars PROVE faults \in Nat /\ faults' \in {faults, faults + 1}
<1>1. UNCHANGED faults \/ Fails
  BY ZenonT(60) DEF Next, Step, vars, Propose, OutsideEdit, LandLate, Remount, Restart, Click, ClickRevert, Look, LookThrows,
     Judge, JudgeThrows, AppendClaim, Advance, Settle, Recheck, MarkAdmitted, MarkLands, WriteBase,
     Supersede, SupersedeLands, EventFails, Faults, Fails
<1> QED BY <1>1, Typed DEF Fails

LEMMA FaultsStep ==
  ASSUME TypeOK, Life, Honest, [Next]_vars, NEW g \in Gestures PROVE FaultsFit(g)'
<1>. USE PhaseNames DEF Open
<1>1. /\ FaultsFit(g) /\ EvidenceFits(g) /\ (Stays(g) \/ Moves(g)) /\ Unknown # g
      /\ faults \in Nat /\ faults' \in Nat /\ faults' >= faults
  BY NextMoves, FaultsGrow, AdmissionAssumption DEF Life, Honest
<1>2. ASSUME Fails PROVE faults' = faults + 1
  BY <1>2 DEF Fails
<1>3. CASE Stays(g) \/ Enters(g) \/ Passes(g)
  <2>1. /\ call'[g].preHead = call[g].preHead
        /\ call'[g].phase \in Open => call[g].phase \in Open
        /\ call'[g].phase = "rechecking" => call[g].phase = "rechecking"
    BY <1>3 DEF Stays, Alike, Enters, Passes, From
  <2> QED BY <1>1, <2>1 DEF FaultsFit
<1>4. CASE Begins(g)
  <2>1. /\ call'[g].phase = "looking" /\ call'[g].preHead # g
        /\ call'[g].preHead = Unknown => Fails
    <3>1. StandingHead # g
      BY <1>1, <1>4, HeadStands DEF Begins, From, EvidenceFits, Early
    <3> QED BY <1>1, <1>4, <3>1 DEF Begins, From
  <2> QED BY <1>1, <1>2, <2>1 DEF FaultsFit
<1>5. CASE Stumbles(g) \/ Appends(g) \/ Advances(g) \/ Throws(g)
  <2>1. /\ call'[g].preHead = call[g].preHead /\ call[g].phase \in Open
        /\ call'[g].phase = "rechecking" => Fails
    BY <1>5 DEF Stumbles, Appends, Advances, Throws, From, GoesOn
  <2> QED BY <1>1, <1>2, <2>1 DEF FaultsFit
<1>6. CASE FindsIt(g) \/ Settles(g) \/ Degrades(g) \/ IsLost(g)
  <2>1. call'[g].preHead = Unknown /\ call'[g].phase \in {"catchingUp", "done", "lost"}
    BY <1>6, AfterFields
  <2> QED BY <1>1, <2>1 DEF FaultsFit
<1>7. CASE Reverts(g) \/ RevertGoesOn(g) \/ Refuses(g) \/ FindsMoved(g) \/ GivesUp(g) \/ Projects(g)
  <2>1. /\ call'[g].preHead \in {Unknown, call[g].preHead}
        /\ call'[g].phase \in {"reverting", "superseding", "catchingUp", "done"}
    BY <1>7 DEF Reverts, RevertGoesOn, Refuses, FindsMoved, GivesUp, Projects, From, Blank
  <2> QED BY <1>1, <2>1 DEF FaultsFit
<1> QED BY <1>1, <1>3, <1>4, <1>5, <1>6, <1>7 DEF Moves

\* The claims file only grows, by the claim being appended.
LEMMA LinesMove ==
  ASSUME [Next]_vars
  PROVE  \/ claimLines' = claimLines
         \/ \E g \in Gestures : call[g].phase = "claiming" /\ claimLines' = claimLines \union {g}
<1>1. ASSUME NEW g \in Gestures, AppendClaim(g)
      PROVE  call[g].phase = "claiming" /\ claimLines' \in {claimLines, claimLines \union {g}}
  BY <1>1 DEF AppendClaim
<1>2. CASE ~\E g \in Gestures : AppendClaim(g)
  BY <1>2, ZenonT(60) DEF Next, Step, vars, durable, Propose, OutsideEdit, LandLate, Remount, Restart, Click, ClickRevert, Look,
     LookThrows, Judge, JudgeThrows, Advance, Settle, Recheck, MarkAdmitted, MarkLands, WriteBase,
     Supersede, SupersedeLands
<1> QED BY <1>1, <1>2

\* How a mount's cache may change: the file is read, an earlier read lands, or a
\* claim is pushed.
LEMMA CacheMoves ==
  ASSUME TypeOK, [Next]_vars, NEW m \in Mounts
  PROVE  \/ cache'[m] = cache[m] \/ cache'[m] = Known(m)
         \/ \E h \in Gestures : /\ call[h].at = m /\ call[h].seen # Unread
                                /\ cache'[m] = call[h].seen
         \/ \E h \in Gestures : /\ call[h].at = m /\ call[h].phase = "claiming"
                                /\ cache'[m] = Known(m) \union {h}
<1>1. ASSUME NEW h \in Gestures
      PROVE  CacheAfterRead(h) = cache[call[h].at]
               \/ (call[h].seen # Unread /\ CacheAfterRead(h) = call[h].seen)
  BY DEF CacheAfterRead
<1>2. ASSUME NEW h \in Gestures, NEW v, cache' = [cache EXCEPT ![call[h].at] = v]
      PROVE  cache'[m] = cache[m] \/ (call[h].at = m /\ cache'[m] = v)
  BY <1>2 DEF TypeOK
<1>3. ASSUME NEW h \in Gestures, Look(h) \/ LookThrows(h)
      PROVE  cache'[m] = cache[m]
               \/ (call[h].at = m /\ call[h].seen # Unread /\ cache'[m] = call[h].seen)
  <2>1. cache' = cache \/ cache' = [cache EXCEPT ![call[h].at] = CacheAfterRead(h)]
    BY <1>3 DEF Look, LookThrows
  <2> QED BY <1>1, <1>2, <2>1
<1>4. ASSUME NEW h \in Gestures, Judge(h) \/ Recheck(h)
      PROVE  cache'[m] = cache[m] \/ cache'[m] = Known(m)
  <2>1. cache' = cache \/ cache' = [cache EXCEPT ![call[h].at] = Known(call[h].at)]
    BY <1>4 DEF Judge, Recheck
  <2> QED BY <1>2, <2>1
<1>5. ASSUME NEW h \in Gestures, AppendClaim(h)
      PROVE  cache'[m] = cache[m]
               \/ (call[h].at = m /\ call[h].phase = "claiming" /\ cache'[m] = Known(m) \union {h})
  <2>1. call[h].phase = "claiming"
        /\ (cache' = cache \/ cache' = [cache EXCEPT ![call[h].at] = Known(call[h].at) \union {h}])
    BY <1>5 DEF AppendClaim
  <2> QED BY <1>2, <2>1
<1>6. \/ cache' = cache
      \/ \E h \in Gestures : Look(h) \/ LookThrows(h) \/ Judge(h) \/ Recheck(h) \/ AppendClaim(h)
  BY ZenonT(60) DEF Next, Step, vars, Propose, OutsideEdit, LandLate, Remount, Restart, Click, ClickRevert, JudgeThrows, Advance,
     Settle, MarkAdmitted, MarkLands, WriteBase, Supersede, SupersedeLands
<1> QED BY <1>3, <1>4, <1>5, <1>6

\* A cache that was filled is never empty again.
LEMMA CacheStaysRead ==
  ASSUME TypeOK, [Next]_vars, NEW m \in Mounts, cache[m] # Unread PROVE cache'[m] # Unread
<1>1. Known(m) \in SUBSET Gestures /\ Unread \notin SUBSET Gestures
  BY Typed, UnreadIsNoRead
<1>2. ASSUME NEW h \in Gestures PROVE Known(m) \union {h} \in SUBSET Gestures
  BY <1>1
<1> QED BY <1>1, <1>2, CacheMoves

\* What a call has read of the claims file.
LEMMA SeenMoves ==
  ASSUME TypeOK, [Next]_vars, NEW h \in Gestures
  PROVE  \/ call'[h].seen = Unread
         \/ call'[h].seen = call[h].seen /\ call'[h].at = call[h].at
         \/ cache[mount] = Unread /\ call'[h].seen = claimLines /\ call'[h].at = mount
<1>1. Stays(h) \/ Moves(h)
  BY NextMoves
<1>2. CASE FindsIt(h) \/ Settles(h) \/ Degrades(h) \/ IsLost(h)
  BY <1>2, AfterFields
<1>3. CASE Stays(h) \/ Begins(h) \/ Reverts(h) \/ RevertGoesOn(h) \/ Refuses(h) \/ Enters(h) \/ Passes(h)
  BY <1>3 DEF Stays, Alike, Begins, Reverts, RevertGoesOn, Refuses, Enters, Passes, Keeps, Blank
<1>4. CASE Stumbles(h) \/ Appends(h) \/ Advances(h) \/ Throws(h) \/ FindsMoved(h) \/ GivesUp(h) \/ Projects(h)
  BY <1>4 DEF Stumbles, Appends, Advances, Throws, FindsMoved, GivesUp, Projects, GoesOn, Keeps, Blank
<1> QED BY <1>1, <1>2, <1>3, <1>4 DEF Moves

LEMMA ReadsStep ==
  ASSUME TypeOK, Life, Honest, [Next]_vars, NEW g \in Gestures PROVE ReadsFit(g)'
<1>. USE PhaseNames DEF Early
<1>1. /\ ReadsFit(g) /\ EvidenceFits(g) /\ (Stays(g) \/ Moves(g)) /\ Unknown # g
      /\ call[g].at \in Mounts
  BY NextMoves, Typed, CallFields, AdmissionAssumption DEF Life, Honest
<1>2. claimLines \subseteq claimLines'
  BY LinesMove
<1>3. ASSUME g \in claimLines'
      PROVE  /\ cache[call[g].at] # Unread /\ call[g].phase # "idle"
             /\ g \in claimLines \/ call[g].phase = "claiming"
  BY <1>1, <1>3, LinesMove DEF ReadsFit, EvidenceFits, Named
<1>4. call'[g].phase = "claiming" \/ g \in claimLines' => cache'[call'[g].at] # Unread
  <2>1. ASSUME g \in claimLines' PROVE cache'[call'[g].at] # Unread
    <3>1. call'[g].at = call[g].at
      BY <1>3, <2>1, DecisionStays
    <3> QED BY <1>1, <1>3, <2>1, <3>1, CacheStaysRead
  <2>2. ASSUME call'[g].phase = "claiming" PROVE cache'[call'[g].at] # Unread
    <3>1. CASE Passes(g)
      BY <3>1 DEF Passes
    <3>2. CASE Stays(g)
      BY <1>1, <2>2, <3>2, CacheStaysRead DEF Stays, Alike, ReadsFit
    <3>3. CASE FindsIt(g) \/ Settles(g) \/ Degrades(g) \/ IsLost(g)
      BY <2>2, <3>3, AfterFields
    <3>4. CASE Begins(g) \/ Reverts(g) \/ RevertGoesOn(g) \/ Refuses(g) \/ Enters(g) \/ Stumbles(g)
               \/ Appends(g) \/ Advances(g) \/ Throws(g) \/ FindsMoved(g) \/ GivesUp(g) \/ Projects(g)
      BY <2>2, <3>4 DEF Begins, Reverts, RevertGoesOn, Refuses, Enters, Stumbles, Appends, Advances, Throws,
         FindsMoved, GivesUp, Projects, From
    <3> QED BY <1>1, <3>1, <3>2, <3>3, <3>4 DEF Moves
  <2> QED BY <2>1, <2>2
<1>5. call'[g].seen # Unread => call'[g].seen \subseteq claimLines'
  BY <1>1, <1>2, SeenMoves DEF ReadsFit
<1>6. ASSUME NEW h \in Gestures, call'[h].at = call'[g].at, g \in claimLines', g \in call'[h].seen
      PROVE  FALSE
  <2>1. g \notin Unread /\ call'[g].at = call[g].at
    BY <1>1, <1>3, <1>6, DecisionStays DEF Unread
  <2>2. call[h].seen # Unread => call[h].seen \subseteq claimLines
    BY DEF Honest, ReadsFit
  <2>3. call'[h].seen \subseteq claimLines
    BY <1>6, <2>1, <2>2, SeenMoves
  <2>4. g \in claimLines
    BY <1>6, <2>3
  <2>5. CASE call'[h].seen = call[h].seen /\ call'[h].at = call[h].at
    BY <1>1, <1>6, <2>1, <2>4, <2>5 DEF ReadsFit
  <2>6. CASE cache[mount] = Unread /\ call'[h].at = mount
    BY <1>3, <1>6, <2>1, <2>6
  <2> QED BY <1>6, <2>1, <2>5, <2>6, SeenMoves
<1> QED BY <1>4, <1>5, <1>6 DEF ReadsFit

\* A claim that is past its append and missing from its mount's cache stays so.
LEMMA CacheGains ==
  ASSUME TypeOK, Honest, [Next]_vars, NEW g \in Gestures,
         call[g].phase # "claiming", g \notin cache[call[g].at]
  PROVE  g \notin cache'[call[g].at]
<1>1. ReadsFit(g) /\ call[g].at \in Mounts
  BY Typed, CallFields DEF Honest
<1>2. g \notin Known(call[g].at)
  BY <1>1 DEF Known, ReadsFit
<1>3. ASSUME NEW h \in Gestures, call[h].at = call[g].at, call[h].seen # Unread
      PROVE  g \notin call[h].seen
  BY <1>1, <1>3 DEF Honest, ReadsFit
<1> QED BY <1>1, <1>2, <1>3, CacheMoves

LEMMA ErrorStep ==
  ASSUME TypeOK, Life, Honest, [Next]_vars, NEW g \in Gestures PROVE ErrorFits(g)'
<1>. USE PhaseNames
<1> SUFFICES ASSUME call'[g].result = "error", Stands(g)'
             PROVE  faults' >= 2 \/ StandingHead' # g \/ g \notin cache'[call'[g].at]
  BY DEF ErrorFits
<1>1. /\ ResultFits(g) /\ FaultsFit(g) /\ ReadsFit(g) /\ ErrorFits(g) /\ EvidenceFits(g)
      /\ Stays(g) \/ Moves(g)
      /\ faults \in Nat /\ faults' \in Nat /\ faults' >= faults
  BY NextMoves, FaultsGrow DEF Life, Honest
<1>2. CASE Stays(g) \/ Projects(g)
  <2>1. Stands(g) /\ call[g].result = "error" /\ call'[g].at = call[g].at
    BY <1>2 DEF Stays, Alike, Projects, SameEvidence, Keeps
  <2>2. call[g].phase \notin Early \union {"advancing"}
    BY <1>1, <2>1 DEF EvidenceFits
  <2>3. StandingHead # g => StandingHead' # g
    <3>1. CASE standing' = standing
      BY <3>1 DEF StandingHead
    <3>2. ASSUME NEW h \in Gestures, Advances(h) PROVE StandingHead' # g
      <4>1. h # g /\ standing' = Append(standing, h)
        BY <2>2, <3>2 DEF Advances, From
      <4> QED BY <4>1, OnTop
    <3> QED BY <3>1, <3>2, OneWrite
  <2>4. g \notin cache[call[g].at] => g \notin cache'[call[g].at]
    BY <2>2, CacheGains DEF Early
  <2> QED BY <1>1, <2>1, <2>3, <2>4 DEF ErrorFits
<1>3. CASE GivesUp(g)
  <2>1. /\ call[g].phase = "rechecking" /\ Stands(g) /\ call'[g].at = call[g].at
        /\ Fails \/ ~MovedToIt(g)
        /\ \/ cache'[call[g].at] = Known(call[g].at) \/ call[g].preHead = Unknown
           \/ StandingHead \in {NoClaim, call[g].preHead}
    BY <1>3 DEF GivesUp, From, SameEvidence, Keeps
  <2>2. CASE Fails
    BY <1>1, <2>1, <2>2 DEF FaultsFit, Fails
  <2>3. CASE call[g].preHead = Unknown
    BY <1>1, <2>1, <2>3 DEF FaultsFit
  <2>4. CASE ~MovedToIt(g) /\ call[g].preHead # Unknown /\ StandingHead = g
    <3>1. StandingHead \notin {NoClaim, call[g].preHead}
      BY <1>1, <2>4, AdmissionAssumption DEF FaultsFit
    <3>2. g \notin Known(call[g].at)
      BY <2>4, <3>1 DEF MovedToIt, Covers
    <3> QED BY <2>1, <2>4, <3>1, <3>2
  <2>5. CASE StandingHead # g
    <3>1. StandingHead' # g
      <4>1. CASE standing' = standing
        BY <2>5, <4>1 DEF StandingHead
      <4>2. ASSUME NEW h \in Gestures, Advances(h) PROVE StandingHead' # g
        <5>1. h # g /\ standing' = Append(standing, h)
          BY <2>1, <4>2 DEF Advances, From
        <5> QED BY <5>1, OnTop
      <4> QED BY <4>1, <4>2, OneWrite
    <3> QED BY <3>1
  <2> QED BY <2>1, <2>2, <2>3, <2>4, <2>5
<1>4. CASE RevertGoesOn(g)
  <2>1. ~Stands(g)'
    BY <1>1, <1>4 DEF RevertGoesOn, EvidenceFits, Early, SameEvidence
  <2> QED BY <2>1
<1>5. CASE FindsIt(g) \/ Settles(g) \/ Degrades(g) \/ IsLost(g)
  BY <1>5, AfterFields
<1>6. CASE Begins(g) \/ Reverts(g) \/ Refuses(g) \/ FindsMoved(g)
  BY <1>6 DEF Begins, Reverts, Refuses, FindsMoved
<1>7. CASE Enters(g) \/ Stumbles(g) \/ Passes(g) \/ Appends(g) \/ Advances(g) \/ Throws(g)
  <2>1. call'[g].result = "none"
    BY <1>1, <1>7 DEF Enters, Stumbles, Passes, Appends, Advances, Throws, From, GoesOn, ResultFits
  <2> QED BY <2>1
<1> QED BY <1>1, <1>2, <1>3, <1>4, <1>5, <1>6, <1>7 DEF Moves

LEMMA InitHonest == ASSUME Init PROVE Honest
<1>1. \A g \in Gestures : /\ call[g].phase = "idle" /\ call[g].result = "none"
                          /\ call[g].preHead = Unknown /\ call[g].seen = Unread
  BY DEF Init, IdleCall, Bare
<1>2. claimLines = {} /\ \A g \in Gestures : ~Stands(g) /\ g # Unknown
  BY AdmissionAssumption DEF Init, Stands
<1> QED BY <1>1, <1>2 DEF Honest, ResultFits, FaultsFit, ReadsFit, ErrorFits, Open

\* What a gesture's caller is told is what happened: a success stands and is
\* settled, a refusal leaves nothing standing, a degraded or repeated admission
\* names one that stands, and a standing admission is reported as a failure only
\* after two faults, once standing has moved on, or when the cache lost its claim.
THEOREM OutcomesCorrect == Spec => []OutcomesTellTheTruth
<1>1. TypeOK /\ Life /\ Honest /\ [Next]_vars => Honest'
  BY ResultStep, FaultsStep, ReadsStep, ErrorStep DEF Honest
<1>2. Honest => OutcomesTellTheTruth
  BY DEF Honest, ResultFits, ErrorFits, OutcomesTellTheTruth, Admitted
<1> QED BY <1>1, <1>2, InitHonest, TypeCorrect, LifeCorrect, PTL DEF Spec
=============================================================================
