------------------------ MODULE PendingQueueProofs ------------------------
(***************************************************************************)
(* The review queue for any number of notes, writes and calls under way.   *)
(*                                                                         *)
(* ViewInv is what makes the generation guard sound: the refresh that may  *)
(* still publish has read, or will read, all that the published one did.   *)
(* SignatureCovered rests on the same reading order, and BaselineBlessed   *)
(* on what the sweep's locals hold between its awaits.                     *)
(***************************************************************************)
EXTENDS PendingQueue, TLAPS

Refreshing(call) == call.pc \in {"reading", "publishing"}

\* Signatures and refreshes read records that are in the journal.
SigInv ==
  /\ lastSig \subseteq Appended
  /\ \A t \in Tasks : task[t].sig \subseteq Appended /\ task[t].records \subseteq Appended

\* The newest refresh sees every write the published queue took into account,
\* every note there is, and none that was gone by then.
ViewInv ==
  /\ view.writes \subseteq Appended
  /\ view.absent \cap present = {}
  /\ \A t \in Tasks : newest = t /\ Refreshing(task[t]) =>
       /\ task[t].listed \cap view.absent = {}
       /\ present \subseteq task[t].listed
       /\ \A w \in view.writes : WillAccount(t, w)

QueueInv == SigInv /\ ViewInv /\ SignatureCovered

\* What a sweep evaluates against was blessed, and what it is about to set
\* adds mechanical writes only.
Blessed(call) ==
  call.pc \in SweepSteps =>
    /\ \A n \in call.note : call.from.content \subseteq gestured[n] \cup Mechanical
    /\ call.pc = "sweepSetting" => call.content \subseteq call.from.content \cup Mechanical

BlessInv == BaselineBlessed /\ \A t \in Tasks : Blessed(task[t])

-----------------------------------------------------------------------------
\* Calls outside the sweep, and calls of a poll, which may sweep.
Apart == {c \in Call : c.pc \notin SweepSteps}
OfPoll == {c \in Call : c.kind = "poll"}

\* An update of one call keeps the table of calls well formed.
LEMMA GoToType ==
  ASSUME TypeOK, NEW t \in Tasks, NEW call \in Apart \cup OfPoll, GoTo(t, call)
  PROVE  /\ task' \in [Tasks -> Call]
         /\ \A u \in Tasks : task'[u].pc \in SweepSteps => task'[u].kind = "poll"
BY DEF TypeOK, GoTo, Apart, OfPoll

\* The calls a step starts from are well formed.
LEMMA IdleType == Idle \in Call /\ Idle \in Apart
BY DEF Idle, Call, PollKinds, SweepSteps, Unset, Baseline, Apart

\* A refresh that starts, and a call that returns.
LEMMA RefreshType ==
  ASSUME TypeOK, NEW t \in Tasks, NEW kind \in PollKinds \cup {"plain"}, Refresh(t, kind)
  PROVE  /\ newest' \in Tasks
         /\ task' \in [Tasks -> Call]
         /\ \A u \in Tasks : task'[u].pc \in SweepSteps => task'[u].kind = "poll"
<1> DEFINE call == [Idle EXCEPT !.pc = "reading", !.kind = kind,
                                !.listed = present, !.todo = present]
<1>1. call \in Apart
  BY IdleType DEF TypeOK, Call, Idle, SweepSteps, PollKinds, Apart
<1>2. GoTo(t, call) /\ newest' = t
  BY DEF Refresh
<1> QED BY <1>1, <1>2, GoToType

\* A call that returns leaves an idle task, and no poll in flight if it was one.
LEMMA ReturnType ==
  ASSUME TypeOK, NEW t \in Tasks, Return(t)
  PROVE  /\ inFlight' \in BOOLEAN
         /\ task' \in [Tasks -> Call]
         /\ \A u \in Tasks : task'[u].pc \in SweepSteps => task'[u].kind = "poll"
<1> QED BY IdleType, GoToType DEF Return, TypeOK

\* What a poll that may start does to the calls.
LEMMA PollType ==
  ASSUME TypeOK, NEW t \in Tasks, PollFrom(t)
  PROVE  /\ task' \in [Tasks -> Call]
         /\ \A u \in Tasks : task'[u].pc \in SweepSteps => task'[u].kind = "poll"
<1> DEFINE call == [Idle EXCEPT !.pc = "signing", !.kind = "poll"]
<1>1. call \in Apart
  BY IdleType DEF Call, Idle, SweepSteps, PollKinds, Apart
<1> QED BY <1>1, GoToType DEF PollFrom

\* The sets of writes the state is read through.
LEMMA Reads ==
  ASSUME TypeOK
  PROVE  /\ Appended \subseteq Stamped /\ Stamped \subseteq Writes
         /\ \A n \in Notes : Content(n) \subseteq Writes
         /\ \A call \in Call : Account(call) \subseteq Writes
         /\ \A call \in Call : Queue(call) \subseteq Notes
BY DEF Appended, Stamped, Content, Account, Queue, Call

\* NextItem is a call of the sweep.
LEMMA NextItemType ==
  ASSUME NEW call \in Call
  PROVE  NextItem(call) \in Call /\ NextItem(call).kind = call.kind
BY DEF NextItem, Call, Unset, Baseline, SweepSteps

\* The updates that the steps outside the sweep make to their calls.
LEMMA UpdateType ==
  ASSUME NEW c \in Call, NEW W \in SUBSET Writes
  PROVE  /\ [c EXCEPT !.pc = "signed", !.sig = W] \in Apart
         /\ [c EXCEPT !.pc = "publishing", !.records = W] \in Apart
         /\ [c EXCEPT !.pc = "signing"] \in Apart
         /\ [c EXCEPT !.pc = "acceptTiming", !.content = W] \in Apart
         /\ [c EXCEPT !.pc = "acceptSetting", !.at = W] \in Apart
<1>1. [c EXCEPT !.pc = "signed", !.sig = W] \in Apart
  BY DEF Call, SweepSteps, Apart
<1>2. [c EXCEPT !.pc = "publishing", !.records = W] \in Apart
  BY DEF Call, SweepSteps, Apart
<1>3. [c EXCEPT !.pc = "signing"] \in Apart
  BY DEF Call, SweepSteps, Apart
<1>4. [c EXCEPT !.pc = "acceptTiming", !.content = W] \in Apart
  BY DEF Call, SweepSteps, Apart
<1>5. [c EXCEPT !.pc = "acceptSetting", !.at = W] \in Apart
  BY DEF Call, SweepSteps, Apart
<1> QED BY <1>1, <1>2, <1>3, <1>4, <1>5

\* Reading one more note.
LEMMA ReadType ==
  ASSUME NEW c \in Apart, NEW W \in SUBSET Writes, NEW n
  PROVE  [c EXCEPT !.todo = @ \ {n}, !.content = @ \cup W] \in Apart
<1>1. /\ c.todo \ {n} \in SUBSET Notes /\ c.content \cup W \in SUBSET Writes
      /\ c \in Call /\ c.pc \notin SweepSteps
  BY DEF Call, Apart
<1>2. [c EXCEPT !.todo = @ \ {n}, !.content = @ \cup W] \in Call
  BY <1>1 DEF Call
<1>3. [c EXCEPT !.todo = @ \ {n}, !.content = @ \cup W].pc = c.pc
  BY <1>1 DEF Call
<1> QED BY <1>1, <1>2, <1>3 DEF Apart

\* The updates of the sweep, which keeps the kind of its call.
LEMMA SweepUpdateType ==
  ASSUME NEW c \in OfPoll, NEW W \in SUBSET Writes, NEW n \in Notes, NEW b \in Baseline
  PROVE  /\ [c EXCEPT !.pc = "sweepReading", !.todo = @ \ {n}, !.note = {n}, !.from = b] \in OfPoll
         /\ [c EXCEPT !.pc = "sweepJournal", !.content = W] \in OfPoll
         /\ [c EXCEPT !.pc = "sweepSetting", !.at = W] \in OfPoll
         /\ NextItem(c) \in OfPoll
         /\ [NextItem(c) EXCEPT !.accepted = TRUE] \in OfPoll
<1>0. c \in Call /\ c.todo \ {n} \in SUBSET Notes /\ {n} \in SUBSET Notes
  BY DEF Call, OfPoll
<1>1. [c EXCEPT !.pc = "sweepReading", !.todo = @ \ {n}, !.note = {n}, !.from = b] \in OfPoll
  BY <1>0 DEF Call, SweepSteps, OfPoll
<1>2. [c EXCEPT !.pc = "sweepJournal", !.content = W] \in OfPoll
  BY <1>0 DEF Call, SweepSteps, OfPoll
<1>3. [c EXCEPT !.pc = "sweepSetting", !.at = W] \in OfPoll
  BY <1>0 DEF Call, SweepSteps, OfPoll
<1>4. NextItem(c) \in OfPoll
  BY <1>0, NextItemType DEF OfPoll
<1>5. [NextItem(c) EXCEPT !.accepted = TRUE] \in OfPoll
  BY <1>4 DEF Call, OfPoll
<1> QED BY <1>1, <1>2, <1>3, <1>4, <1>5

\* Every step keeps the types.
LEMMA TypeStep == TypeOK /\ [Next]_vars => TypeOK'
<1> SUFFICES ASSUME TypeOK, [Next]_vars PROVE TypeOK'
  OBVIOUS
<1> USE PendingAssumption DEF PendingAssumption
<1>1. ASSUME NEW w \in Writes, WriteLands(w) \/ RecordIsStamped(w) \/ RecordIsAppended(w)
      PROVE  TypeOK'
  BY <1>1 DEF TypeOK, Stages, queueVars, WriteLands, RecordIsStamped, RecordIsAppended
<1>2. ASSUME NEW w \in Writes, Nudge(w) PROVE TypeOK'
  <2>1. stage' \in [Writes -> Stages]
    BY <1>2 DEF TypeOK, Stages, Nudge
  <2>2. CASE \E t \in Tasks : PollFrom(t)
    BY <1>2, <2>1, <2>2, PollType DEF Nudge, TypeOK, PollFrom
  <2>3. CASE UNCHANGED queueVars
    BY <1>2, <2>1, <2>3 DEF Nudge, TypeOK, queueVars
  <2> QED BY <1>2, <2>2, <2>3 DEF Nudge
<1>3. CASE IntervalTicks
  BY <1>3, PollType DEF IntervalTicks, noteVars, TypeOK, PollFrom
<1>4. ASSUME NEW t \in Tasks, Resume(t) PROVE TypeOK'
  <2>a. /\ task[t] \in Call
        /\ task[t].pc \in SweepSteps => task[t] \in OfPoll
        /\ task[t].pc \notin SweepSteps => task[t] \in Apart
        /\ Appended \in SUBSET Writes /\ Stamped \in SUBSET Writes
        /\ \A n \in Notes : Content(n) \in SUBSET Writes /\ base[n] \in Baseline
    BY Reads DEF TypeOK, OfPoll, Apart
  <2>1. CASE ReadSignature(t)
    <3> DEFINE call == [task[t] EXCEPT !.pc = "signed", !.sig = Appended]
    <3>0. task[t] \in Call /\ Appended \in SUBSET Writes
      BY <2>a
    <3>1. call \in Apart
      BY <3>0, UpdateType
    <3> QED BY <2>1, <3>1, GoToType DEF ReadSignature, noteVars, TypeOK
  <2>2. CASE PollGoesOn(t)
    <3>1. lastSig' \subseteq Writes /\ inFlight' \in BOOLEAN
      BY <2>2 DEF PollGoesOn, TypeOK, Call
    <3>2. "poll" \in PollKinds
      BY DEF PollKinds
    <3> QED BY <2>2, <3>1, <3>2, IdleType, GoToType, RefreshType DEF PollGoesOn, noteVars, TypeOK
  <2>3. CASE MountEnds(t)
    <3>1. /\ lastSig' \subseteq Writes /\ ticking' \in BOOLEAN
          /\ excuses' \subseteq {"failed read", "stale mount"}
      BY <2>3 DEF MountEnds, TypeOK, Call
    <3> QED BY <2>3, <3>1, ReturnType DEF MountEnds, noteVars, TypeOK
  <2>4. CASE ReadJournal(t)
    <3> DEFINE call == [task[t] EXCEPT !.pc = "publishing", !.records = Appended]
    <3>0. task[t] \in Call /\ Appended \in SUBSET Writes
      BY <2>a
    <3>1. call \in Apart
      BY <3>0, UpdateType
    <3> QED BY <2>4, <3>1, GoToType DEF ReadJournal, noteVars, TypeOK
  <2>5. CASE Publish(t)
    <3> DEFINE call == [Idle EXCEPT !.pc = "published", !.kind = task[t].kind]
    <3>0. task[t].kind \in PollKinds \cup {"mount", "plain"}
      BY <2>a DEF Call
    <3>1. call \in Apart
      BY <3>0, IdleType DEF Call, SweepSteps, Idle, Apart
    <3>2. cached' \subseteq Notes /\ view' \in [writes : SUBSET Writes, absent : SUBSET Notes]
      <4>0. task[t] \in Call
        BY <2>a
      <4>1. Account(task[t]) \in SUBSET Writes /\ Queue(task[t]) \in SUBSET Notes
        BY <4>0, Reads
      <4>2. Notes \ task[t].listed \subseteq Notes
        OBVIOUS
      <4>3. [writes |-> Account(task[t]), absent |-> Notes \ task[t].listed]
              \in [writes : SUBSET Writes, absent : SUBSET Notes]
        BY <4>1, <4>2
      <4> QED BY <2>5, <4>1, <4>3 DEF Publish, TypeOK
    <3> QED BY <2>5, <3>1, <3>2, GoToType DEF Publish, noteVars, TypeOK
  <2>6. CASE AfterRefresh(t)
    <3> DEFINE sweep == [Idle EXCEPT !.pc = "sweeping", !.kind = "poll", !.todo = cached]
               sign == [task[t] EXCEPT !.pc = "signing"]
    <3>1. sweep \in OfPoll
      BY IdleType DEF TypeOK, Call, SweepSteps, Idle, PollKinds, OfPoll
    <3>a. task[t] \in Call /\ Appended \in SUBSET Writes
      BY <2>a
    <3>2. sign \in Apart
      BY <3>a, UpdateType
    <3>3. CASE task[t].kind = "poll" /\ GoTo(t, sweep) /\ UNCHANGED inFlight
      BY <2>6, <3>1, <3>3, GoToType DEF AfterRefresh, noteVars, TypeOK
    <3>4. CASE task[t].kind = "mount" /\ GoTo(t, sign) /\ UNCHANGED inFlight
      BY <2>6, <3>2, <3>4, GoToType DEF AfterRefresh, noteVars, TypeOK
    <3>5. CASE Return(t)
      BY <2>6, <3>5, ReturnType DEF AfterRefresh, noteVars, TypeOK
    <3> QED BY <2>6, <3>3, <3>4, <3>5 DEF AfterRefresh
  <2>7. CASE SweepEnds(t)
    BY <2>7, RefreshType, ReturnType DEF SweepEnds, sweepKeeps, TypeOK, PollKinds
  <2>8. CASE AcceptTakesTime(t)
    <3> DEFINE call == [task[t] EXCEPT !.pc = "acceptSetting", !.at = Stamped]
    <3>0. task[t] \in Call /\ Stamped \in SUBSET Writes
      BY <2>a
    <3>1. call \in Apart
      BY <3>0, UpdateType
    <3> QED BY <2>8, <3>1, GoToType DEF AcceptTakesTime, noteVars, TypeOK
  <2>9. ASSUME NEW n \in Notes, ReadNote(t, n) PROVE TypeOK'
    <3> DEFINE call == [task[t] EXCEPT !.todo = @ \ {n}, !.content = @ \cup Content(n)]
    <3>0. task[t] \in Apart /\ Content(n) \in SUBSET Writes
      BY <2>a, <2>9 DEF SweepSteps, ReadNote
    <3>1. call \in Apart
      BY <3>0, ReadType
    <3> QED BY <2>9, <3>1, GoToType DEF ReadNote, noteVars, TypeOK
  <2>10. ASSUME NEW n \in Notes, ReadFails(t, n) PROVE TypeOK'
    <3>1. excuses' \subseteq {"failed read", "stale mount"}
      BY <2>10 DEF ReadFails, TypeOK
    <3> QED BY <2>10, <3>1, ReturnType DEF ReadFails, noteVars, TypeOK
  <2>11. ASSUME NEW n \in Notes, SweepNext(t, n) PROVE TypeOK'
    <3> DEFINE call == [task[t] EXCEPT !.pc = "sweepReading", !.todo = @ \ {n},
                                       !.note = {n}, !.from = base[n]]
    <3>0. /\ task[t] \in OfPoll /\ Stamped \in SUBSET Writes
          /\ Content(n) \in SUBSET Writes /\ base[n] \in Baseline
      BY <2>a, <2>11 DEF SweepSteps, SweepNext
    <3>1. call \in OfPoll /\ NextItem(task[t]) \in OfPoll
      BY <3>0, SweepUpdateType
    <3> QED BY <2>11, <3>1, GoToType DEF SweepNext, sweepKeeps, TypeOK
  <2>12. ASSUME NEW n \in Notes, SweepReads(t, n) PROVE TypeOK'
    <3> DEFINE call == [task[t] EXCEPT !.pc = "sweepJournal", !.content = Content(n)]
    <3>0. /\ task[t] \in OfPoll /\ Stamped \in SUBSET Writes
          /\ Content(n) \in SUBSET Writes /\ base[n] \in Baseline
      BY <2>a, <2>12 DEF SweepSteps, SweepReads
    <3>1. call \in OfPoll /\ NextItem(task[t]) \in OfPoll
      BY <3>0, SweepUpdateType
    <3> QED BY <2>12, <3>1, GoToType DEF SweepReads, sweepKeeps, TypeOK
  <2>13. ASSUME NEW n \in Notes, SweepDecides(t, n) PROVE TypeOK'
    <3> DEFINE call == [task[t] EXCEPT !.pc = "sweepSetting", !.at = Stamped]
    <3>0. /\ task[t] \in OfPoll /\ Stamped \in SUBSET Writes
          /\ Content(n) \in SUBSET Writes /\ base[n] \in Baseline
      BY <2>a, <2>13 DEF SweepSteps, SweepDecides
    <3>1. call \in OfPoll /\ NextItem(task[t]) \in OfPoll
      BY <3>0, SweepUpdateType
    <3> QED BY <2>13, <3>1, GoToType DEF SweepDecides, sweepKeeps, TypeOK
  <2>14. ASSUME NEW n \in Notes, SweepSets(t, n) PROVE TypeOK'
    <3> DEFINE call == [NextItem(task[t]) EXCEPT !.accepted = TRUE]
    <3>1. task[t] \in OfPoll /\ base[n] \in Baseline /\ Stamped \in SUBSET Writes
      BY <2>a, <2>14 DEF SweepSteps, SweepSets
    <3>2. call \in OfPoll
      BY <3>1, SweepUpdateType
    <3>3. base' \in [Notes -> Baseline]
      BY <2>14 DEF TypeOK, Call, Baseline, SweepSets
    <3> QED BY <2>14, <3>2, <3>3, GoToType DEF SweepSets, sweepKeeps, TypeOK
  <2>15. ASSUME NEW n \in Notes, AcceptReads(t, n) PROVE TypeOK'
    <3> DEFINE call == [task[t] EXCEPT !.pc = "acceptTiming", !.content = Content(n)]
    <3>0. task[t] \in Call /\ Content(n) \in SUBSET Writes
      BY <2>a
    <3>1. call \in Apart
      BY <3>0, UpdateType
    <3> QED BY <2>15, <3>1, GoToType, RefreshType DEF AcceptReads, noteVars, TypeOK
  <2>16. ASSUME NEW n \in Notes, AcceptSets(t, n) PROVE TypeOK'
    <3>1. base' \in [Notes -> Baseline] /\ gestured' \in [Notes -> SUBSET Writes]
      BY <2>16 DEF TypeOK, Call, Baseline, AcceptSets
    <3> QED BY <2>16, <3>1, RefreshType DEF AcceptSets, TypeOK
  <2> QED BY <1>4, <2>1, <2>2, <2>3, <2>4, <2>5, <2>6, <2>7, <2>8, <2>9, <2>10, <2>11,
             <2>12, <2>13, <2>14, <2>15, <2>16 DEF Resume
<1>5. CASE Human
  <2>a. MaxGestures \in Nat /\ gestures \in 0..MaxGestures
    BY DEF TypeOK
  <2>1. ASSUME NEW t \in Tasks, RefreshClick(t) \/ DeleteTimerFires(t) PROVE TypeOK'
    <3>1. gestures' \in 0..MaxGestures
      <4>1. (gestures < MaxGestures /\ gestures' = gestures + 1) \/ gestures' = gestures
        BY <2>1 DEF RefreshClick, DeleteTimerFires
      <4> QED BY <2>a, <4>1
    <3>2. deleteTimer' \in BOOLEAN
      BY <2>1 DEF RefreshClick, DeleteTimerFires, TypeOK
    <3> QED BY <2>1, <3>1, <3>2, RefreshType DEF RefreshClick, DeleteTimerFires, TypeOK
  <2>2. ASSUME NEW t \in Tasks, NEW n \in Notes, AcceptClick(t, n) PROVE TypeOK'
    <3> DEFINE call == [Idle EXCEPT !.pc = "acceptReading", !.note = {n}]
    <3>1. call \in Apart
      BY IdleType DEF Call, SweepSteps, Idle, Apart
    <3>2. gestures' \in 0..MaxGestures
      <4>1. (gestures < MaxGestures /\ gestures' = gestures + 1) \/ gestures' = gestures
        BY <2>2 DEF AcceptClick
      <4> QED BY <2>a, <4>1
    <3> QED BY <2>2, <3>1, <3>2, GoToType DEF AcceptClick, TypeOK
  <2>3. ASSUME NEW n \in Notes, DeleteNote(n) PROVE TypeOK'
    <3>1. gestures' \in 0..MaxGestures
      <4>1. (gestures < MaxGestures /\ gestures' = gestures + 1) \/ gestures' = gestures
        BY <2>3 DEF DeleteNote
      <4> QED BY <2>a, <4>1
    <3>2. present' \subseteq Notes
      BY <2>3 DEF DeleteNote, TypeOK
    <3>3. deleteTimer' \in BOOLEAN
      BY <2>3 DEF DeleteNote, TypeOK
    <3> QED BY <2>3, <3>1, <3>2, <3>3 DEF DeleteNote, queueVars, TypeOK
  <2> QED BY <1>5, <2>1, <2>2, <2>3 DEF Human
<1>6. CASE UNCHANGED vars
  BY <1>6 DEF vars, TypeOK
<1> QED BY <1>1, <1>2, <1>3, <1>4, <1>5, <1>6 DEF Next, AgentWrites

\* Every state of the review queue is well formed; a poll alone sweeps.
THEOREM QueueTypeCorrect == Spec => []TypeOK
<1>1. Init => TypeOK
  <2> SUFFICES ASSUME Init PROVE TypeOK
    OBVIOUS
  <2>1. newest \in Tasks
    BY PendingAssumption DEF Init, PendingAssumption
  <2>2. [Idle EXCEPT !.pc = "reading", !.kind = "mount", !.listed = Notes, !.todo = Notes] \in Call
    BY IdleType DEF Call, Idle
  <2>3. task \in [Tasks -> Call] /\ \A t \in Tasks : task[t].pc \notin SweepSteps
    BY <2>2, IdleType DEF Init, Idle, SweepSteps
  <2>4. base \in [Notes -> Baseline]
    BY DEF Init, Unset, Baseline
  <2>5. view \in [writes : SUBSET Writes, absent : SUBSET Notes] /\ gestures \in 0..MaxGestures
    BY PendingAssumption DEF Init, PendingAssumption
  <2> QED BY <2>1, <2>3, <2>4, <2>5 DEF Init, TypeOK, Stages
<1> QED BY <1>1, TypeStep, PTL DEF Spec

-----------------------------------------------------------------------------
\* A step that leaves the newest refresh as it is, neither starting nor
\* advancing one, keeps what that refresh will see.
LEMMA NewestKept ==
  ASSUME TypeOK, ViewInv,
         UNCHANGED <<view, newest>>, present' \subseteq present, Appended \subseteq Appended',
         \A u \in Tasks : u = newest /\ (Refreshing(task[u]) \/ Refreshing(task'[u]))
                            => task'[u] = task[u]
  PROVE  /\ ViewInv'
         /\ \A u \in Tasks : \A w : WillAccount(u, w) => WillAccount(u, w)'
<1>1. ASSUME NEW u \in Tasks, NEW w, WillAccount(u, w) PROVE WillAccount(u, w)'
  <2>1. u = newest /\ Refreshing(task[u])
    BY <1>1 DEF WillAccount, Refreshing
  <2>2. task'[u] = task[u] /\ newest' = newest
    BY <2>1
  <2> QED BY <1>1, <2>2 DEF WillAccount, Account
<1>2. view'.writes \subseteq Appended' /\ view'.absent \cap present' = {}
  BY DEF ViewInv
<1>3. ASSUME NEW u \in Tasks, newest' = u, Refreshing(task'[u])
      PROVE  /\ task'[u].listed \cap view'.absent = {}
             /\ present' \subseteq task'[u].listed
             /\ \A w \in view'.writes : WillAccount(u, w)'
  <2>1. task'[u] = task[u] /\ u = newest /\ view' = view
    BY <1>3
  <2>2. /\ task[u].listed \cap view.absent = {}
        /\ present \subseteq task[u].listed
        /\ \A w \in view.writes : WillAccount(u, w)
    BY <1>3, <2>1 DEF ViewInv
  <2> QED BY <1>1, <2>1, <2>2
<1> QED BY <1>1, <1>2, <1>3 DEF ViewInv, Refreshing

\* What a call that moves on without being a refresh keeps.
LEMMA QuietStep ==
  ASSUME TypeOK, QueueInv, NEW t \in Tasks, NEW call, GoTo(t, call),
         ~Refreshing(task[t]), ~Refreshing(call),
         call.sig \subseteq Appended, call.records \subseteq Appended,
         UNCHANGED <<view, newest, lastSig, present, stage, excuses>>
  PROVE  QueueInv'
<1>1. Appended' = Appended
  BY DEF Appended
<1>2. task'[t] = call /\ \A u \in Tasks \ {t} : task'[u] = task[u]
  BY DEF GoTo, TypeOK
<1>3. \A u \in Tasks : Refreshing(task[u]) \/ Refreshing(task'[u]) => task'[u] = task[u]
  BY <1>2
<1>4. ViewInv' /\ \A u \in Tasks : \A w : WillAccount(u, w) => WillAccount(u, w)'
  BY <1>1, <1>3, NewestKept DEF QueueInv
<1>5. SigInv'
  BY <1>1, <1>2 DEF QueueInv, SigInv
<1>6. SignatureCovered'
  BY <1>4 DEF QueueInv, SignatureCovered, Accounted
<1> QED BY <1>4, <1>5, <1>6 DEF QueueInv

\* What a step of the vault or the journal keeps.
LEMMA VaultStep ==
  ASSUME TypeOK, QueueInv,
         UNCHANGED <<task, view, newest, lastSig, excuses>>,
         present' \subseteq present, Appended \subseteq Appended'
  PROVE  QueueInv'
<1>1. ViewInv' /\ \A u \in Tasks : \A w : WillAccount(u, w) => WillAccount(u, w)'
  BY NewestKept DEF QueueInv
<1>2. SigInv'
  BY DEF QueueInv, SigInv
<1>3. SignatureCovered'
  BY <1>1 DEF QueueInv, SignatureCovered, Accounted
<1> QED BY <1>1, <1>2, <1>3 DEF QueueInv

\* A refresh that starts will see the whole journal, and no note gone by now.
LEMMA StartStep ==
  ASSUME TypeOK, QueueInv, NEW t \in Tasks, NEW kind, Refresh(t, kind),
         lastSig' \subseteq Appended, UNCHANGED <<view, present, stage>>
  PROVE  QueueInv'
<1>1. Appended' = Appended
  BY DEF Appended
<1>2. /\ newest' = t
      /\ task'[t].pc = "reading" /\ task'[t].sig = {} /\ task'[t].records = {}
      /\ task'[t].listed = present /\ task'[t].todo = present
      /\ \A u \in Tasks \ {t} : task'[u] = task[u]
  BY DEF Refresh, GoTo, TypeOK, Idle
<1>3. \A w : WillAccount(t, w)'
  BY <1>2 DEF WillAccount
<1>4. ViewInv'
  BY <1>1, <1>2, <1>3 DEF QueueInv, ViewInv
<1>5. SigInv'
  <2>1. \A u \in Tasks : task'[u].sig \subseteq Appended /\ task'[u].records \subseteq Appended
    BY <1>2 DEF QueueInv, SigInv
  <2> QED BY <1>1, <2>1 DEF SigInv
<1>6. SignatureCovered'
  BY <1>3 DEF SignatureCovered, Accounted
<1> QED BY <1>4, <1>5, <1>6 DEF QueueInv

\* The calls a quiet step leads to: they hold nothing the journal lacks.
LEMMA QuietCalls ==
  ASSUME TypeOK, QueueInv, NEW t \in Tasks
  PROVE  /\ task[t] \in Call /\ task[t].sig \subseteq Appended
         /\ task[t].records \subseteq Appended
         /\ ~Refreshing(Idle) /\ Idle.sig \subseteq Appended /\ Idle.records \subseteq Appended
BY DEF TypeOK, QueueInv, SigInv, Refreshing, Idle

\* A refresh that reads on keeps what it will see of the journal.
LEMMA AdvanceStep ==
  ASSUME TypeOK, QueueInv, NEW t \in Tasks, SigInv',
         Appended' = Appended, UNCHANGED <<view, newest, lastSig, present, excuses>>,
         Refreshing(task[t]), task'[t].listed = task[t].listed,
         \A u \in Tasks \ {t} : task'[u] = task[u],
         \A u \in Tasks : \A w \in Appended : WillAccount(u, w) => WillAccount(u, w)'
  PROVE  QueueInv'
<1>1. ViewInv'
  <2>1. ASSUME NEW u \in Tasks, newest' = u, Refreshing(task'[u])
        PROVE  /\ task'[u].listed \cap view'.absent = {} /\ present' \subseteq task'[u].listed
               /\ \A w \in view'.writes : WillAccount(u, w)'
    <3>1. newest = u /\ Refreshing(task[u]) /\ task'[u].listed = task[u].listed
      BY <2>1
    <3>2. /\ task[u].listed \cap view.absent = {} /\ present \subseteq task[u].listed
          /\ \A w \in view.writes : w \in Appended /\ WillAccount(u, w)
      BY <3>1 DEF QueueInv, ViewInv
    <3> QED BY <3>1, <3>2
  <2>2. view'.writes \subseteq Appended' /\ view'.absent \cap present' = {}
    BY DEF QueueInv, ViewInv
  <2> QED BY <2>1, <2>2 DEF ViewInv, Refreshing
<1>2. SignatureCovered'
  <2>1. \A w \in lastSig : w \in Appended
    BY DEF QueueInv, SigInv
  <2> QED BY <2>1 DEF QueueInv, SignatureCovered, Accounted
<1> QED BY <1>1, <1>2 DEF QueueInv

\* Reading a note, or the journal: what is read last is the newest.
LEMMA ReadNoteStep ==
  ASSUME TypeOK, QueueInv, NEW t \in Tasks, NEW n \in Notes, ReadNote(t, n)
  PROVE  QueueInv'
<1> DEFINE call == [task[t] EXCEPT !.todo = @ \ {n}, !.content = @ \cup Content(n)]
<1>1. Appended' = Appended /\ UNCHANGED <<view, newest, lastSig, present, excuses>>
  BY DEF ReadNote, noteVars, Appended
<1>2. /\ task[t].pc = "reading"
      /\ task'[t].pc = "reading" /\ task'[t].listed = task[t].listed
      /\ task'[t].todo = task[t].todo \ {n}
      /\ task'[t].content = task[t].content \cup Content(n)
      /\ task'[t].sig = task[t].sig /\ task'[t].records = task[t].records
      /\ \A u \in Tasks \ {t} : task'[u] = task[u]
  <2>1. task[t].pc = "reading" /\ task \in [Tasks -> Call] /\ task' = [task EXCEPT ![t] = call]
    BY DEF ReadNote, GoTo, TypeOK
  <2>2. call.pc = task[t].pc /\ call.listed = task[t].listed /\ call.sig = task[t].sig
        /\ call.records = task[t].records
        /\ call.todo = task[t].todo \ {n} /\ call.content = task[t].content \cup Content(n)
    BY <2>1 DEF Call
  <2> HIDE DEF call
  <2> QED BY <2>1, <2>2
<1>3. ASSUME NEW u \in Tasks, NEW w \in Appended, WillAccount(u, w) PROVE WillAccount(u, w)'
  <2>1. CASE u # t
    BY <1>1, <1>2, <1>3, <2>1 DEF WillAccount, Account
  <2>2. CASE u = t
    <3>1. newest = t /\ (NoteOf[w] \in task[t].listed =>
                           NoteOf[w] \in task[t].todo \/ w \in task[t].content)
      BY <1>2, <1>3, <2>2 DEF WillAccount
    <3>2. NoteOf[w] = n => w \in Content(n)
      BY DEF Content, Appended
    <3>3. NoteOf[w] \in task'[t].listed => NoteOf[w] \in task'[t].todo \/ w \in task'[t].content
      BY <1>2, <3>1, <3>2
    <3> QED BY <1>1, <1>2, <2>2, <3>1, <3>3 DEF WillAccount
  <2> QED BY <2>1, <2>2
<1>4. SigInv'
  BY <1>1, <1>2 DEF QueueInv, SigInv
<1>5. Refreshing(task[t]) /\ task'[t].listed = task[t].listed
  BY <1>2 DEF Refreshing
<1> QED BY <1>1, <1>2, <1>3, <1>4, <1>5, AdvanceStep

\* A poll reads the journal.
LEMMA ReadJournalStep ==
  ASSUME TypeOK, QueueInv, NEW t \in Tasks, ReadJournal(t)
  PROVE  QueueInv'
<1>1. Appended' = Appended /\ UNCHANGED <<view, newest, lastSig, present, excuses>>
  BY DEF ReadJournal, noteVars, Appended
<1>2. /\ task[t].pc = "reading" /\ task[t].todo = {}
      /\ task'[t].pc = "publishing" /\ task'[t].records = Appended
      /\ task'[t].listed = task[t].listed /\ task'[t].content = task[t].content
      /\ task'[t].sig = task[t].sig
      /\ \A u \in Tasks \ {t} : task'[u] = task[u]
  <2> DEFINE call == [task[t] EXCEPT !.pc = "publishing", !.records = Appended]
  <2>1. /\ task[t].pc = "reading" /\ task[t].todo = {}
        /\ task \in [Tasks -> Call] /\ task' = [task EXCEPT ![t] = call]
    BY DEF ReadJournal, GoTo, TypeOK
  <2>2. /\ call.pc = "publishing" /\ call.records = Appended /\ call.listed = task[t].listed
        /\ call.content = task[t].content /\ call.sig = task[t].sig
    BY <2>1 DEF Call
  <2> HIDE DEF call
  <2> QED BY <2>1, <2>2
<1>3. ASSUME NEW u \in Tasks, NEW w \in Appended, WillAccount(u, w) PROVE WillAccount(u, w)'
  <2>1. CASE u # t
    BY <1>1, <1>2, <1>3, <2>1 DEF WillAccount, Account
  <2>2. CASE u = t
    <3>1. newest = t /\ (NoteOf[w] \in task[t].listed => w \in task[t].content)
      BY <1>2, <1>3, <2>2 DEF WillAccount
    <3>2. w \in Account(task'[t])
      BY <1>2, <3>1 DEF Account
    <3> QED BY <1>1, <1>2, <2>2, <3>1, <3>2 DEF WillAccount, Account
  <2> QED BY <2>1, <2>2
<1>4. SigInv'
  BY <1>1, <1>2 DEF QueueInv, SigInv
<1>5. Refreshing(task[t]) /\ task'[t].listed = task[t].listed
  BY <1>2 DEF Refreshing
<1> QED BY <1>1, <1>2, <1>3, <1>4, <1>5, AdvanceStep

\* What publishing takes into account, and leaves out.
LEMMA PublishStep ==
  ASSUME TypeOK, QueueInv, NEW t \in Tasks, Publish(t)
  PROVE  /\ QueueInv'
         /\ view.writes \subseteq view'.writes /\ view.absent \subseteq view'.absent
<1> DEFINE call == [Idle EXCEPT !.pc = "published", !.kind = task[t].kind]
<1>1. Appended' = Appended /\ UNCHANGED <<newest, lastSig, present, stage, excuses>>
  BY DEF Publish, noteVars, Appended
<1>2. /\ ~Refreshing(call) /\ call.sig \subseteq Appended /\ call.records \subseteq Appended
      /\ GoTo(t, call)
  BY DEF Publish, Idle, Refreshing
<1>3. task'[t] = call /\ \A u \in Tasks \ {t} : task'[u] = task[u]
  BY <1>2 DEF GoTo, TypeOK
<1>4. SigInv'
  BY <1>1, <1>2, <1>3 DEF QueueInv, SigInv
<1>5. CASE newest = t
  <2>1. /\ view'.writes = Account(task[t]) /\ view'.absent = Notes \ task[t].listed
        /\ Refreshing(task[t]) /\ task[t].pc = "publishing"
    BY <1>5 DEF Publish, Refreshing
  <2>2. /\ task[t].listed \cap view.absent = {} /\ present \subseteq task[t].listed
        /\ \A w \in view.writes : WillAccount(t, w)
    BY <1>5, <2>1 DEF QueueInv, ViewInv
  <2>3. \A w : WillAccount(t, w) => w \in Account(task[t])
    BY <2>1 DEF WillAccount
  <2>4. view.writes \subseteq view'.writes
    BY <2>1, <2>2, <2>3
  <2>5. view.absent \subseteq Notes
    BY DEF TypeOK
  <2>6. view.absent \subseteq view'.absent
    BY <2>1, <2>2, <2>5
  <2>7. view'.writes \subseteq Appended' /\ view'.absent \cap present' = {}
    BY <1>1, <2>1, <2>2 DEF Account, QueueInv, SigInv
  <2>8. ViewInv'
    BY <1>1, <1>2, <1>3, <1>5, <2>7 DEF ViewInv
  <2>9. SignatureCovered'
    <3>1. \A u \in Tasks : \A w : WillAccount(u, w) => w \in view'.writes
      BY <1>5, <2>1, <2>3 DEF WillAccount
    <3> QED BY <1>1, <2>4, <3>1 DEF QueueInv, SignatureCovered, Accounted
  <2> QED BY <1>4, <2>4, <2>6, <2>8, <2>9 DEF QueueInv
<1>6. CASE newest # t
  <2>1. view' = view
    BY <1>6 DEF Publish
  <2>2. ViewInv' /\ \A u \in Tasks : \A w : WillAccount(u, w) => WillAccount(u, w)'
    BY <1>1, <1>3, <1>6, <2>1, NewestKept DEF QueueInv
  <2>3. SignatureCovered'
    BY <1>1, <2>1, <2>2 DEF QueueInv, SignatureCovered, Accounted
  <2> QED BY <1>4, <2>1, <2>2, <2>3 DEF QueueInv
<1> QED BY <1>5, <1>6

\* A refresh that throws, and the mount that keeps its signature: either is
\* harmless to the signature, or counts as an excuse.
LEMMA ReadFailsStep ==
  ASSUME TypeOK, QueueInv, NEW t \in Tasks, NEW n \in Notes, ReadFails(t, n)
  PROVE  QueueInv'
<1>1. Appended' = Appended /\ UNCHANGED <<view, newest, lastSig, present>>
  BY DEF ReadFails, noteVars, Appended
<1>2. task'[t] = Idle /\ \A u \in Tasks \ {t} : task'[u] = task[u]
  BY DEF ReadFails, Return, GoTo, TypeOK
<1>3. ~Refreshing(Idle) /\ Idle.sig = {} /\ Idle.records = {}
  BY DEF Refreshing, Idle
<1>4. SigInv'
  BY <1>1, <1>2, <1>3 DEF QueueInv, SigInv
<1>5. CASE newest = t
  <2>1. ViewInv'
    BY <1>1, <1>2, <1>3, <1>5 DEF QueueInv, ViewInv
  <2>2. SignatureCovered'
    BY <1>5 DEF ReadFails, SignatureCovered
  <2> QED BY <1>4, <2>1, <2>2 DEF QueueInv
<1>6. CASE newest # t
  <2>1. ViewInv' /\ \A u \in Tasks : \A w : WillAccount(u, w) => WillAccount(u, w)'
    BY <1>1, <1>2, <1>6, NewestKept DEF QueueInv
  <2>2. excuses' = excuses
    BY <1>6 DEF ReadFails
  <2>3. SignatureCovered'
    BY <1>1, <2>1, <2>2 DEF QueueInv, SignatureCovered, Accounted
  <2> QED BY <1>4, <2>1, <2>3 DEF QueueInv
<1> QED BY <1>5, <1>6

\* A mount's refresh ends with the signature it took.
LEMMA MountEndsStep ==
  ASSUME TypeOK, QueueInv, NEW t \in Tasks, MountEnds(t)
  PROVE  QueueInv'
<1>1. Appended' = Appended /\ UNCHANGED <<view, newest, present>> /\ lastSig' = task[t].sig
  BY DEF MountEnds, noteVars, Appended
<1>2. /\ task'[t] = Idle /\ \A u \in Tasks \ {t} : task'[u] = task[u]
      /\ task[t].pc = "signed"
  BY DEF MountEnds, Return, GoTo, TypeOK
<1>3. ~Refreshing(Idle) /\ ~Refreshing(task[t]) /\ Idle.sig = {} /\ Idle.records = {}
  BY <1>2 DEF Refreshing, Idle
<1>4. SigInv'
  BY <1>1, <1>2, <1>3 DEF QueueInv, SigInv
<1>5. ViewInv' /\ \A u \in Tasks : \A w : WillAccount(u, w) => WillAccount(u, w)'
  BY <1>1, <1>2, <1>3, NewestKept DEF QueueInv
<1>6. CASE Accounted(task[t].sig)
  BY <1>1, <1>4, <1>5, <1>6 DEF QueueInv, SignatureCovered, Accounted
<1>7. CASE ~Accounted(task[t].sig)
  <2>1. excuses' # {}
    BY <1>7 DEF MountEnds
  <2> QED BY <1>4, <1>5, <2>1 DEF QueueInv, SignatureCovered
<1> QED BY <1>6, <1>7

-----------------------------------------------------------------------------
\* Every step keeps the invariant of the queue.
LEMMA QueueStep == TypeOK /\ QueueInv /\ [Next]_vars => QueueInv'
<1> SUFFICES ASSUME TypeOK, QueueInv, [Next]_vars PROVE QueueInv'
  OBVIOUS
<1>1. ASSUME NEW w \in Writes, WriteLands(w) \/ RecordIsStamped(w) \/ RecordIsAppended(w)
      PROVE  QueueInv'
  <2>1. UNCHANGED <<task, view, newest, lastSig, excuses, present>>
    BY <1>1 DEF WriteLands, RecordIsStamped, RecordIsAppended, queueVars
  <2>2. Appended \subseteq Appended'
    BY <1>1 DEF WriteLands, RecordIsStamped, RecordIsAppended, Appended, TypeOK
  <2> QED BY <2>1, <2>2, VaultStep
<1>2. ASSUME NEW t \in Tasks, PollFrom(t), present' = present, Appended' = Appended
      PROVE  QueueInv'
  <2>1. UNCHANGED <<view, newest, lastSig, excuses>>
    BY <1>2 DEF PollFrom
  <2>2. /\ task'[t].sig = {} /\ task'[t].records = {}
        /\ ~Refreshing(task[t]) /\ ~Refreshing(task'[t])
        /\ \A u \in Tasks \ {t} : task'[u] = task[u]
    BY <1>2 DEF PollFrom, GoTo, IsIdle, Idle, TypeOK, Refreshing
  <2>3. ViewInv' /\ \A u \in Tasks : \A w : WillAccount(u, w) => WillAccount(u, w)'
    BY <1>2, <2>1, <2>2, NewestKept DEF QueueInv
  <2>4. SigInv'
    BY <1>2, <2>1, <2>2 DEF QueueInv, SigInv
  <2>5. SignatureCovered'
    BY <2>1, <2>3 DEF QueueInv, SignatureCovered, Accounted
  <2> QED BY <2>3, <2>4, <2>5 DEF QueueInv
<1>3. ASSUME NEW w \in Writes, Nudge(w) PROVE QueueInv'
  <2>1. Appended' = Appended /\ present' = present
    BY <1>3 DEF Nudge, Appended, TypeOK
  <2>2. CASE UNCHANGED queueVars
    BY <2>1, <2>2, VaultStep DEF queueVars
  <2> QED BY <1>2, <1>3, <2>1, <2>2 DEF Nudge
<1>4. CASE IntervalTicks
  BY <1>2, <1>4 DEF IntervalTicks, noteVars, Appended
<1>5. ASSUME NEW t \in Tasks, Resume(t) PROVE QueueInv'
  <2>a. /\ task[t] \in Call /\ task[t].sig \subseteq Appended
        /\ task[t].records \subseteq Appended
        /\ ~Refreshing(Idle) /\ Idle.sig = {} /\ Idle.records = {}
    BY QuietCalls DEF Idle
  <2>1. CASE ReadSignature(t)
    <3> DEFINE call == [task[t] EXCEPT !.pc = "signed", !.sig = Appended]
    <3>1. /\ ~Refreshing(task[t]) /\ ~Refreshing(call)
          /\ call.sig \subseteq Appended /\ call.records \subseteq Appended
      BY <2>1, <2>a DEF ReadSignature, Refreshing, Call
    <3> QED BY <2>1, <3>1, QuietStep DEF ReadSignature, noteVars
  <2>2. CASE PollGoesOn(t)
    <3>1. ~Refreshing(task[t])
      BY <2>2 DEF PollGoesOn, Refreshing
    <3>2. CASE task[t].sig = lastSig
      BY <2>2, <2>a, <3>1, <3>2, QuietStep DEF PollGoesOn, noteVars
    <3>3. CASE task[t].sig # lastSig
      BY <2>2, <2>a, <3>3, StartStep DEF PollGoesOn, noteVars
    <3> QED BY <3>2, <3>3
  <2>3. CASE MountEnds(t)
    BY <2>3, MountEndsStep
  <2>4. CASE ReadJournal(t)
    BY <2>4, ReadJournalStep
  <2>5. CASE Publish(t)
    BY <2>5, PublishStep
  <2>6. CASE AfterRefresh(t)
    <3> DEFINE sweep == [Idle EXCEPT !.pc = "sweeping", !.kind = "poll", !.todo = cached]
               sign == [task[t] EXCEPT !.pc = "signing"]
    <3>1. /\ ~Refreshing(task[t])
          /\ UNCHANGED <<view, newest, lastSig, present, stage, excuses>>
      BY <2>6 DEF AfterRefresh, Refreshing, noteVars
    <3>2. ~Refreshing(sweep) /\ sweep.sig \subseteq Appended /\ sweep.records \subseteq Appended
      BY DEF Idle, Refreshing
    <3>3. ~Refreshing(sign) /\ sign.sig \subseteq Appended /\ sign.records \subseteq Appended
      BY <2>a DEF Refreshing, Call
    <3>4. GoTo(t, sweep) \/ GoTo(t, sign) \/ GoTo(t, Idle)
      BY <2>6 DEF AfterRefresh, Return
    <3>5. CASE GoTo(t, sweep)
      BY <3>1, <3>2, <3>5, QuietStep
    <3>6. CASE GoTo(t, sign)
      BY <3>1, <3>3, <3>6, QuietStep
    <3>7. CASE GoTo(t, Idle)
      BY <2>a, <3>1, <3>7, QuietStep
    <3> QED BY <3>4, <3>5, <3>6, <3>7
  <2>7. CASE SweepEnds(t)
    <3>1. ~Refreshing(task[t])
      BY <2>7 DEF SweepEnds, Refreshing
    <3>2. CASE task[t].accepted
      <4>1. lastSig \subseteq Appended
        BY DEF QueueInv, SigInv
      <4> QED BY <2>7, <3>2, <4>1, StartStep DEF SweepEnds, sweepKeeps
    <3>3. CASE ~task[t].accepted
      BY <2>7, <2>a, <3>1, <3>3, QuietStep DEF SweepEnds, sweepKeeps, Return
    <3> QED BY <3>2, <3>3
  <2>8. CASE AcceptTakesTime(t)
    <3> DEFINE call == [task[t] EXCEPT !.pc = "acceptSetting", !.at = Stamped]
    <3>1. /\ ~Refreshing(task[t]) /\ ~Refreshing(call)
          /\ call.sig \subseteq Appended /\ call.records \subseteq Appended
      BY <2>8, <2>a DEF AcceptTakesTime, Refreshing, Call
    <3> QED BY <2>8, <3>1, QuietStep DEF AcceptTakesTime, noteVars
  <2>9. ASSUME NEW n \in Notes, ReadNote(t, n) PROVE QueueInv'
    BY <2>9, ReadNoteStep
  <2>10. ASSUME NEW n \in Notes, ReadFails(t, n) PROVE QueueInv'
    BY <2>10, ReadFailsStep
  <2>b. NextItem(task[t]).sig = task[t].sig /\ NextItem(task[t]).records = task[t].records
        /\ NextItem(task[t]).pc = "sweeping" /\ NextItem(task[t]) \in Call
    BY <2>a, NextItemType DEF NextItem, Call
  <2>c. ~Refreshing(NextItem(task[t]))
    BY <2>b DEF Refreshing
  <2>11. ASSUME NEW n \in Notes, SweepNext(t, n) PROVE QueueInv'
    <3> DEFINE call == [task[t] EXCEPT !.pc = "sweepReading", !.todo = @ \ {n},
                                       !.note = {n}, !.from = base[n]]
    <3>1. /\ ~Refreshing(task[t]) /\ ~Refreshing(call)
          /\ call.sig \subseteq Appended /\ call.records \subseteq Appended
      BY <2>11, <2>a DEF SweepNext, Refreshing, Call
    <3> QED BY <2>11, <3>1, QuietStep DEF SweepNext, sweepKeeps
  <2>12. ASSUME NEW n \in Notes, SweepReads(t, n) PROVE QueueInv'
    <3> DEFINE call == [task[t] EXCEPT !.pc = "sweepJournal", !.content = Content(n)]
    <3>1. /\ ~Refreshing(task[t]) /\ ~Refreshing(call)
          /\ call.sig \subseteq Appended /\ call.records \subseteq Appended
      BY <2>12, <2>a DEF SweepReads, Refreshing, Call
    <3>2. GoTo(t, call) \/ GoTo(t, NextItem(task[t]))
      BY <2>12 DEF SweepReads
    <3>3. CASE GoTo(t, call)
      BY <2>12, <3>1, <3>3, QuietStep DEF SweepReads, sweepKeeps
    <3>4. CASE GoTo(t, NextItem(task[t]))
      BY <2>12, <2>a, <2>b, <2>c, <3>1, <3>4, QuietStep DEF SweepReads, sweepKeeps
    <3> QED BY <3>2, <3>3, <3>4
  <2>13. ASSUME NEW n \in Notes, SweepDecides(t, n) PROVE QueueInv'
    <3> DEFINE call == [task[t] EXCEPT !.pc = "sweepSetting", !.at = Stamped]
    <3>1. /\ ~Refreshing(task[t]) /\ ~Refreshing(call)
          /\ call.sig \subseteq Appended /\ call.records \subseteq Appended
      BY <2>13, <2>a DEF SweepDecides, Refreshing, Call
    <3>2. GoTo(t, call) \/ GoTo(t, NextItem(task[t]))
      BY <2>13 DEF SweepDecides
    <3>3. CASE GoTo(t, call)
      BY <2>13, <3>1, <3>3, QuietStep DEF SweepDecides, sweepKeeps
    <3>4. CASE GoTo(t, NextItem(task[t]))
      BY <2>13, <2>a, <2>b, <2>c, <3>1, <3>4, QuietStep DEF SweepDecides, sweepKeeps
    <3> QED BY <3>2, <3>3, <3>4
  <2>14. ASSUME NEW n \in Notes, SweepSets(t, n) PROVE QueueInv'
    <3> DEFINE call == [NextItem(task[t]) EXCEPT !.accepted = TRUE]
    <3>1. ~Refreshing(task[t])
      BY <2>14 DEF SweepSets, Refreshing
    <3>2. call.sig = NextItem(task[t]).sig /\ call.records = NextItem(task[t]).records
          /\ call.pc = "sweeping"
      BY <2>b DEF Call
    <3>3. ~Refreshing(call)
      BY <3>2 DEF Refreshing
    <3> QED BY <2>14, <2>a, <2>b, <3>1, <3>2, <3>3, QuietStep DEF SweepSets, sweepKeeps
  <2>15. ASSUME NEW n \in Notes, AcceptReads(t, n) PROVE QueueInv'
    <3> DEFINE call == [task[t] EXCEPT !.pc = "acceptTiming", !.content = Content(n)]
    <3>1. /\ ~Refreshing(task[t]) /\ ~Refreshing(call)
          /\ call.sig \subseteq Appended /\ call.records \subseteq Appended
      BY <2>15, <2>a DEF AcceptReads, Refreshing, Call
    <3>2. CASE GoTo(t, call) /\ UNCHANGED newest
      BY <2>15, <3>1, <3>2, QuietStep DEF AcceptReads, noteVars
    <3>3. CASE Refresh(t, "plain")
      <4>1. lastSig \subseteq Appended
        BY DEF QueueInv, SigInv
      <4> QED BY <2>15, <3>3, <4>1, StartStep DEF AcceptReads, noteVars
    <3> QED BY <2>15, <3>2, <3>3 DEF AcceptReads
  <2>16. ASSUME NEW n \in Notes, AcceptSets(t, n) PROVE QueueInv'
    <3>1. lastSig \subseteq Appended
      BY DEF QueueInv, SigInv
    <3> QED BY <2>16, <3>1, StartStep DEF AcceptSets
  <2> QED BY <1>5, <2>1, <2>2, <2>3, <2>4, <2>5, <2>6, <2>7, <2>8, <2>9, <2>10, <2>11,
             <2>12, <2>13, <2>14, <2>15, <2>16 DEF Resume
<1>6. CASE Human
  <2>1. ASSUME NEW t \in Tasks, RefreshClick(t) \/ DeleteTimerFires(t) PROVE QueueInv'
    <3>1. lastSig \subseteq Appended
      BY DEF QueueInv, SigInv
    <3>2. Refresh(t, "plain") /\ UNCHANGED <<lastSig, view, present, stage>>
      BY <2>1 DEF RefreshClick, DeleteTimerFires
    <3> QED BY <3>1, <3>2, StartStep
  <2>2. ASSUME NEW t \in Tasks, NEW n \in Notes, AcceptClick(t, n) PROVE QueueInv'
    <3> DEFINE call == [Idle EXCEPT !.pc = "acceptReading", !.note = {n}]
    <3>1. /\ ~Refreshing(task[t]) /\ ~Refreshing(call)
          /\ call.sig \subseteq Appended /\ call.records \subseteq Appended
      BY <2>2 DEF AcceptClick, IsIdle, Idle, Refreshing
    <3> QED BY <2>2, <3>1, QuietStep DEF AcceptClick
  <2>3. ASSUME NEW n \in Notes, DeleteNote(n) PROVE QueueInv'
    <3>1. /\ UNCHANGED <<task, view, newest, lastSig, excuses>>
          /\ present' \subseteq present /\ Appended \subseteq Appended'
      BY <2>3 DEF DeleteNote, queueVars, Appended
    <3> QED BY <3>1, VaultStep
  <2> QED BY <1>6, <2>1, <2>2, <2>3 DEF Human
<1>7. CASE UNCHANGED vars
  <2>1. /\ UNCHANGED <<task, view, newest, lastSig, excuses, present>>
        /\ Appended' = Appended
    BY <1>7 DEF vars, Appended
  <2> QED BY <2>1, VaultStep
<1> QED BY <1>1, <1>3, <1>4, <1>5, <1>6, <1>7 DEF Next, AgentWrites

\* The invariant holds of the mount's first refresh.
LEMMA QueueInit == Init => QueueInv
<1> SUFFICES ASSUME Init PROVE QueueInv
  OBVIOUS
<1>1. /\ lastSig = {} /\ view.writes = {} /\ view.absent = {} /\ present = Notes
      /\ \A t \in Tasks : task[t].sig = {} /\ task[t].records = {}
      /\ \A t \in Tasks : t = newest => task[t].listed = Notes
  BY DEF Init, Idle
<1> QED BY <1>1 DEF QueueInv, SigInv, ViewInv, SignatureCovered, Accounted

\* The queue's invariant holds of every state.
LEMMA QueueInvariant == Spec => [](TypeOK /\ QueueInv)
<1> QED BY QueueTypeCorrect, QueueInit, QueueStep, PTL DEF Spec

\* The signature the poll compares with never runs ahead of the queue: what it
\* counts is in the queue's journal, or in that of the refresh under way.
THEOREM QueueSignatureCovered == Spec => []SignatureCovered
<1>1. QueueInv => SignatureCovered
  BY DEF QueueInv
<1> QED BY <1>1, QueueInvariant, PTL

\* Whatever order refreshes overtake each other in, the published queue never
\* falls back behind a write it knew of, or to a note it knew was gone.
THEOREM QueueNeverRegresses == Spec => NeverRegresses
<1> DEFINE Kept == view.writes \subseteq view'.writes /\ view.absent \subseteq view'.absent
<1>1. ASSUME TypeOK, QueueInv, [Next]_vars PROVE [Kept]_vars
  <2>1. ASSUME NEW t \in Tasks, Publish(t) PROVE Kept
    BY <1>1, <2>1, PublishStep
  <2>2. \/ \E t \in Tasks : Publish(t)
        \/ view' = view
    <3>1. ASSUME NEW t \in Tasks, Resume(t), ~Publish(t) PROVE view' = view
      BY <3>1 DEF Resume, ReadSignature, PollGoesOn, MountEnds, ReadJournal, AfterRefresh,
         SweepEnds, AcceptTakesTime, ReadNote, ReadFails, SweepNext, SweepReads,
         SweepDecides, SweepSets, AcceptReads, AcceptSets, sweepKeeps
    <3>2. ASSUME Human PROVE view' = view
      BY <3>2 DEF Human, RefreshClick, DeleteTimerFires, AcceptClick, DeleteNote, queueVars
    <3>3. ASSUME NEW w \in Writes, AgentWrites(w) \/ Nudge(w) PROVE view' = view
      BY <3>3 DEF AgentWrites, WriteLands, RecordIsStamped, RecordIsAppended, Nudge,
         PollFrom, queueVars
    <3>4. ASSUME IntervalTicks PROVE view' = view
      BY <3>4 DEF IntervalTicks, PollFrom
    <3>5. UNCHANGED vars => view' = view
      BY DEF vars
    <3> QED BY <1>1, <3>1, <3>2, <3>3, <3>4, <3>5 DEF Next
  <2> QED BY <2>1, <2>2
<1>2. TypeOK /\ QueueInv /\ [Next]_vars => [Kept]_vars
  BY <1>1
<1> QED BY <1>2, QueueInvariant, PTL DEF Spec, NeverRegresses

-----------------------------------------------------------------------------
\* A step that sets no baseline, and leaves a sweep its blessing.
LEMMA BlessKept ==
  ASSUME TypeOK, BlessInv, UNCHANGED <<base, gestured>>,
         \A u \in Tasks : task'[u] = task[u] \/ Blessed(task'[u])
  PROVE  BlessInv'
<1>1. ASSUME NEW u \in Tasks PROVE Blessed(task[u])'
  <2>1. Blessed(task'[u])
    BY DEF BlessInv
  <2> QED BY <2>1 DEF Blessed
<1>2. BaselineBlessed'
  BY DEF BlessInv, BaselineBlessed
<1> QED BY <1>1, <1>2 DEF BlessInv

\* A call moves on, with locals that are blessed.
LEMMA BlessGoTo ==
  ASSUME TypeOK, BlessInv, UNCHANGED <<base, gestured>>,
         NEW t \in Tasks, NEW call, GoTo(t, call), Blessed(call)
  PROVE  BlessInv'
<1>1. \A u \in Tasks : task'[u] = task[u] \/ task'[u] = call
  BY DEF GoTo, TypeOK
<1> QED BY <1>1, BlessKept

\* The sweep goes on to its next note.
LEMMA BlessNext ==
  ASSUME NEW call \in Call
  PROVE  Blessed(NextItem(call)) /\ Blessed([NextItem(call) EXCEPT !.accepted = TRUE])
<1>1. /\ NextItem(call).note = {} /\ NextItem(call).pc = "sweeping"
      /\ [NextItem(call) EXCEPT !.accepted = TRUE].note = {}
      /\ [NextItem(call) EXCEPT !.accepted = TRUE].pc = "sweeping"
  BY DEF NextItem, Call
<1> QED BY <1>1 DEF Blessed

\* No step of a sweep or of an Accept makes a baseline hold more than it may.
LEMMA BlessSets ==
  ASSUME TypeOK, BlessInv, NEW t \in Tasks, NEW n \in Notes, SweepSets(t, n)
  PROVE  BlessInv'
<1>1. task[t].content \subseteq gestured[n] \cup Mechanical
  BY DEF SweepSets, BlessInv, Blessed, SweepSteps
<1>2. gestured' = gestured /\ base' \in [Notes -> [content : SUBSET Writes, since : SUBSET Writes]]
  BY TypeStep DEF SweepSets, sweepKeeps, TypeOK, Baseline, Call
<1>3. \A m \in Notes : base'[m].content = IF m = n THEN task[t].content ELSE base[m].content
  BY DEF SweepSets, TypeOK
<1>4. BaselineBlessed'
  BY <1>1, <1>2, <1>3 DEF BlessInv, BaselineBlessed
<1>5. task[t] \in Call
  BY DEF TypeOK
<1>6. ASSUME NEW u \in Tasks PROVE Blessed(task[u])'
  <2>1. task'[u] = task[u] \/ task'[u] = [NextItem(task[t]) EXCEPT !.accepted = TRUE]
    BY DEF SweepSets, GoTo, TypeOK
  <2>2. Blessed(task'[u])
    BY <1>5, <2>1, BlessNext DEF BlessInv
  <2> QED BY <1>2, <2>2 DEF Blessed
<1> QED BY <1>4, <1>6 DEF BlessInv

\* An Accept blesses what it sets.
LEMMA BlessAccepts ==
  ASSUME TypeOK, BlessInv, NEW t \in Tasks, NEW n \in Notes, AcceptSets(t, n)
  PROVE  BlessInv'
<1>1. /\ \A m \in Notes : gestured[m] \subseteq gestured'[m]
      /\ task[t].content \subseteq gestured'[n]
  BY DEF AcceptSets, TypeOK
<1>2. \A m \in Notes : base'[m].content = IF m = n THEN task[t].content ELSE base[m].content
  BY DEF AcceptSets, TypeOK
<1>3. BaselineBlessed'
  BY <1>1, <1>2 DEF BlessInv, BaselineBlessed
<1>4. ASSUME NEW u \in Tasks PROVE Blessed(task[u])'
  <2>1. task'[u] = task[u] \/ task'[u].pc = "reading"
    BY DEF AcceptSets, Refresh, GoTo, TypeOK, Idle
  <2>2. CASE task'[u] = task[u]
    <3>1. task[u].note \subseteq Notes /\ Blessed(task[u])
      BY DEF TypeOK, Call, BlessInv
    <3> QED BY <1>1, <2>2, <3>1 DEF Blessed
  <2>3. CASE task'[u].pc = "reading"
    BY <2>3 DEF Blessed, SweepSteps
  <2> QED BY <2>1, <2>2, <2>3
<1> QED BY <1>3, <1>4 DEF BlessInv

\* Every step keeps the baselines blessed.
LEMMA BlessStep == TypeOK /\ BlessInv /\ [Next]_vars => BlessInv'
<1> SUFFICES ASSUME TypeOK, BlessInv, [Next]_vars PROVE BlessInv'
  OBVIOUS
<1>a. ASSUME NEW t \in Tasks, NEW kind, Refresh(t, kind), UNCHANGED <<base, gestured>>
      PROVE  BlessInv'
  <2>1. \A u \in Tasks : task'[u] = task[u] \/ task'[u].pc = "reading"
    BY <1>a DEF Refresh, GoTo, TypeOK, Idle
  <2>2. \A u \in Tasks : task'[u] = task[u] \/ Blessed(task'[u])
    BY <2>1 DEF Blessed, SweepSteps
  <2> QED BY <1>a, <2>2, BlessKept
<1>b. Blessed(Idle)
  BY DEF Blessed, Idle, SweepSteps
<1>c. ASSUME NEW t \in Tasks, PollFrom(t), UNCHANGED <<base, gestured>> PROVE BlessInv'
  <2>1. \A u \in Tasks : task'[u] = task[u] \/ task'[u].pc = "signing"
    BY <1>c DEF PollFrom, GoTo, TypeOK, Idle
  <2>2. \A u \in Tasks : task'[u] = task[u] \/ Blessed(task'[u])
    BY <2>1 DEF Blessed, SweepSteps
  <2> QED BY <1>c, <2>2, BlessKept
<1>d. ASSUME UNCHANGED <<task, base, gestured>> PROVE BlessInv'
  BY <1>d, BlessKept
<1>1. ASSUME NEW w \in Writes, AgentWrites(w) PROVE BlessInv'
  BY <1>1, <1>d DEF AgentWrites, WriteLands, RecordIsStamped, RecordIsAppended, queueVars
<1>2. ASSUME NEW w \in Writes, Nudge(w) PROVE BlessInv'
  BY <1>2, <1>c, <1>d DEF Nudge, queueVars
<1>3. CASE IntervalTicks
  BY <1>3, <1>c DEF IntervalTicks, noteVars
<1>4. ASSUME NEW t \in Tasks, Resume(t) PROVE BlessInv'
  <2>a. task[t] \in Call
    BY DEF TypeOK
  <2>b. ASSUME UNCHANGED <<base, gestured>>, task[t].pc \notin SweepSteps,
               \A u \in Tasks : u # t => task'[u] = task[u],
               task'[t].pc \notin SweepSteps
        PROVE  BlessInv'
    <3>1. \A u \in Tasks : task'[u] = task[u] \/ Blessed(task'[u])
      BY <2>b DEF Blessed
    <3> QED BY <2>b, <3>1, BlessKept
  <2>1. CASE ReadSignature(t)
    BY <2>1, <2>a, <2>b DEF ReadSignature, GoTo, TypeOK, Call, SweepSteps, noteVars
  <2>2. CASE PollGoesOn(t)
    BY <2>2, <1>a, <1>b, BlessGoTo DEF PollGoesOn, noteVars
  <2>3. CASE MountEnds(t)
    BY <2>3, <1>b, BlessGoTo DEF MountEnds, Return, noteVars
  <2>4. CASE ReadJournal(t)
    BY <2>4, <2>a, <2>b DEF ReadJournal, GoTo, TypeOK, Call, SweepSteps, noteVars
  <2>5. CASE Publish(t)
    BY <2>5, <2>a, <2>b DEF Publish, GoTo, TypeOK, Idle, SweepSteps, noteVars
  <2>6. CASE AfterRefresh(t)
    <3> DEFINE sweep == [Idle EXCEPT !.pc = "sweeping", !.kind = "poll", !.todo = cached]
               sign == [task[t] EXCEPT !.pc = "signing"]
    <3>1. Blessed(sweep) /\ Blessed(sign)
      <4>1. sweep.note = {} /\ sweep.pc = "sweeping"
        BY DEF Idle
      <4>2. sign.pc = "signing"
        BY <2>a DEF Call
      <4> QED BY <4>1, <4>2 DEF Blessed, SweepSteps
    <3>2. UNCHANGED <<base, gestured>> /\ (GoTo(t, sweep) \/ GoTo(t, sign) \/ GoTo(t, Idle))
      BY <2>6 DEF AfterRefresh, Return, noteVars
    <3>3. CASE GoTo(t, sweep)
      BY <3>1, <3>2, <3>3, BlessGoTo
    <3>4. CASE GoTo(t, sign)
      BY <3>1, <3>2, <3>4, BlessGoTo
    <3>5. CASE GoTo(t, Idle)
      BY <1>b, <3>2, <3>5, BlessGoTo
    <3> QED BY <3>2, <3>3, <3>4, <3>5
  <2>7. CASE SweepEnds(t)
    <3>1. UNCHANGED <<base, gestured>>
      BY <2>7 DEF SweepEnds, sweepKeeps
    <3>2. Refresh(t, "closing") \/ GoTo(t, Idle)
      BY <2>7 DEF SweepEnds, Return
    <3> QED BY <1>a, <1>b, <3>1, <3>2, BlessGoTo
  <2>8. CASE AcceptTakesTime(t)
    BY <2>8, <2>a, <2>b DEF AcceptTakesTime, GoTo, TypeOK, Call, SweepSteps, noteVars
  <2>9. ASSUME NEW n \in Notes, ReadNote(t, n) PROVE BlessInv'
    BY <2>9, <2>a, <2>b DEF ReadNote, GoTo, TypeOK, Call, SweepSteps, noteVars
  <2>10. ASSUME NEW n \in Notes, ReadFails(t, n) PROVE BlessInv'
    BY <2>10, <1>b, BlessGoTo DEF ReadFails, Return, noteVars
  <2>11. ASSUME NEW n \in Notes, SweepNext(t, n) PROVE BlessInv'
    <3> DEFINE call == [task[t] EXCEPT !.pc = "sweepReading", !.todo = @ \ {n},
                                       !.note = {n}, !.from = base[n]]
    <3>1. call.pc = "sweepReading" /\ call.note = {n} /\ call.from = base[n]
      BY <2>a DEF Call
    <3>2. Blessed(call)
      BY <3>1 DEF Blessed, BlessInv, BaselineBlessed
    <3> QED BY <2>11, <3>2, BlessGoTo DEF SweepNext, sweepKeeps
  <2>12. ASSUME NEW n \in Notes, SweepReads(t, n) PROVE BlessInv'
    <3> DEFINE call == [task[t] EXCEPT !.pc = "sweepJournal", !.content = Content(n)]
    <3>1. call.pc = "sweepJournal" /\ call.note = task[t].note /\ call.from = task[t].from
      BY <2>a DEF Call
    <3>2. Blessed(task[t]) /\ task[t].pc \in SweepSteps
      BY <2>12 DEF BlessInv, SweepReads, SweepSteps
    <3>3. Blessed(call)
      BY <3>1, <3>2 DEF Blessed
    <3>4. UNCHANGED <<base, gestured>> /\ (GoTo(t, call) \/ GoTo(t, NextItem(task[t])))
      BY <2>12 DEF SweepReads, sweepKeeps
    <3> QED BY <2>a, <3>3, <3>4, BlessNext, BlessGoTo
  <2>13. ASSUME NEW n \in Notes, SweepDecides(t, n) PROVE BlessInv'
    <3> DEFINE call == [task[t] EXCEPT !.pc = "sweepSetting", !.at = Stamped]
               takes == Eligible(task[t].from.content, task[t].content)
    <3>1. /\ call.note = task[t].note /\ call.from = task[t].from
          /\ call.content = task[t].content
      BY <2>a DEF Call
    <3>2. Blessed(task[t]) /\ task[t].pc \in SweepSteps
      BY <2>13 DEF BlessInv, SweepDecides, SweepSteps
    <3>3. takes => Blessed(call)
      BY <3>1, <3>2 DEF Blessed, Eligible
    <3>4. UNCHANGED <<base, gestured>> /\ ((takes /\ GoTo(t, call)) \/ GoTo(t, NextItem(task[t])))
      BY <2>13 DEF SweepDecides, sweepKeeps
    <3> QED BY <2>a, <3>3, <3>4, BlessNext, BlessGoTo
  <2>14. ASSUME NEW n \in Notes, SweepSets(t, n) PROVE BlessInv'
    BY <2>14, BlessSets
  <2>15. ASSUME NEW n \in Notes, AcceptReads(t, n) PROVE BlessInv'
    <3> DEFINE call == [task[t] EXCEPT !.pc = "acceptTiming", !.content = Content(n)]
    <3>1. call.pc = "acceptTiming"
      BY <2>a DEF Call
    <3>2. Blessed(call)
      BY <3>1 DEF Blessed, SweepSteps
    <3>3. UNCHANGED <<base, gestured>> /\ (GoTo(t, call) \/ Refresh(t, "plain"))
      BY <2>15 DEF AcceptReads, noteVars
    <3> QED BY <1>a, <3>2, <3>3, BlessGoTo
  <2>16. ASSUME NEW n \in Notes, AcceptSets(t, n) PROVE BlessInv'
    BY <2>16, BlessAccepts
  <2> QED BY <1>4, <2>1, <2>2, <2>3, <2>4, <2>5, <2>6, <2>7, <2>8, <2>9, <2>10, <2>11,
             <2>12, <2>13, <2>14, <2>15, <2>16 DEF Resume
<1>5. CASE Human
  <2>1. ASSUME NEW t \in Tasks, NEW n \in Notes, AcceptClick(t, n) PROVE BlessInv'
    <3> DEFINE call == [Idle EXCEPT !.pc = "acceptReading", !.note = {n}]
    <3>1. Blessed(call)
      BY DEF Idle, Blessed, SweepSteps
    <3> QED BY <2>1, <3>1, BlessGoTo DEF AcceptClick
  <2> QED BY <1>5, <1>a, <1>d, <2>1 DEF Human, RefreshClick, DeleteTimerFires, DeleteNote, queueVars
<1>6. CASE UNCHANGED vars
  BY <1>6, <1>d DEF vars
<1> QED BY <1>1, <1>2, <1>3, <1>4, <1>5, <1>6 DEF Next

\* Whatever the sweep and the human do to one baseline, in whatever order their
\* awaits end, it holds only what an Accept took in and mechanical writes.
THEOREM QueueBaselineBlessed == Spec => []BaselineBlessed
<1>1. Init => BlessInv
  BY DEF Init, BlessInv, BaselineBlessed, Blessed, Unset, Idle, SweepSteps
<1>2. BlessInv => BaselineBlessed
  BY DEF BlessInv
<1> QED BY <1>1, <1>2, QueueTypeCorrect, BlessStep, PTL DEF Spec
===========================================================================
