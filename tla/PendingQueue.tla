------------------------------ MODULE PendingQueue ------------------------------
(***************************************************************************)
(* The pending-review queue of the governance module (governance/          *)
(* wiring.ts): the journal poll, the refresh that computes and publishes   *)
(* the queue, the auto-accept sweep after it, and the gestures and events  *)
(* that refresh too.  Each is an async function; a task is one call of     *)
(* one of them, and a step is what it does between two awaits.             *)
(*                                                                         *)
(* A note's content is the set of agent writes that landed in it, and its  *)
(* baseline is such a set with the writes journaled no later than          *)
(* acceptedAt.  Notes start adopted.  A `proposed` status, human edits and *)
(* renames are left out, and so are storage errors, but for the read of a  *)
(* note that has been deleted.                                             *)
(***************************************************************************)
EXTENDS Naturals, FiniteSets

CONSTANTS
  Notes,        \* governed notes
  Writes,       \* agent writes, each made once
  NoteOf,       \* the note each write goes to
  Mechanical,   \* the writes the auto-accept classes cover
  Tasks,        \* bounds the calls under way at once
  MaxGestures   \* bounds what the human does (Accept, Refresh, deletions)

ASSUME PendingAssumption ==
  /\ NoteOf \in [Writes -> Notes]
  /\ Mechanical \subseteq Writes
  /\ Tasks # {}
  /\ MaxGestures \in Nat

VARIABLES
  stage,        \* how far each write got, from the vault to the journal's nudge
  present,      \* the notes that exist
  base,         \* the baseline store's cache
  lastSig,      \* PollState.lastSig: the records the last signature counted
  inFlight,     \* PollState.inFlight
  newest,       \* the task whose refresh took the newest generation
  cached,       \* cachedPending: the notes in the published queue
  ticking,      \* the poll interval is registered
  deleteTimer,  \* the delete debounce is armed
  task,         \* the calls under way
  gestures,     \* what the human did, for MaxGestures
  view,         \* history: what the published queue takes into account
  excuses,      \* history: the ways a journal signature can be wasted
  gestured      \* history: what Accept clicks took into each baseline

vars == <<stage, present, base, lastSig, inFlight, newest, cached, ticking,
          deleteTimer, task, gestures, view, excuses, gestured>>

Stages == {"none", "landed", "stamped", "appended", "nudged"}
SweepSteps == {"sweeping", "sweepReading", "sweepJournal", "sweepSetting"}
PollKinds == {"poll", "closing"}

(* A baseline: BaselineStore's record, with acceptedAt as the writes whose *)
(* journal timestamp does not come after it.                               *)
Baseline == [content : SUBSET Writes, since : SUBSET Writes]

(* The locals of one call.  kind says which function called refresh, and   *)
(* so what follows it: "closing" is the second refresh of a poll.          *)
Call ==
  [pc : {"idle", "signing", "signed", "reading", "publishing", "published",
         "acceptReading", "acceptTiming", "acceptSetting"} \cup SweepSteps,
   kind : PollKinds \cup {"mount", "plain"},
   sig : SUBSET Writes,      \* the signature read
   listed : SUBSET Notes,    \* governedMarkdownFiles at the start
   todo : SUBSET Notes,      \* notes still to read, or to sweep
   note : SUBSET Notes,      \* the note being swept or accepted, if any
   content : SUBSET Writes,  \* the contents read
   records : SUBSET Writes,  \* the journal read
   from : Baseline,          \* the baseline the sweep evaluates against
   at : SUBSET Writes,       \* nowIso
   accepted : BOOLEAN]       \* the sweep accepted something

Unset == [content |-> {}, since |-> {}]

Idle ==
  [pc |-> "idle", kind |-> "plain", sig |-> {}, listed |-> {}, todo |-> {},
   note |-> {}, content |-> {}, records |-> {}, from |-> Unset, at |-> {},
   accepted |-> FALSE]

TypeOK ==
  /\ stage \in [Writes -> Stages]
  /\ present \subseteq Notes
  /\ base \in [Notes -> Baseline]
  /\ lastSig \subseteq Writes
  /\ inFlight \in BOOLEAN
  /\ newest \in Tasks
  /\ cached \subseteq Notes
  /\ ticking \in BOOLEAN
  /\ deleteTimer \in BOOLEAN
  /\ task \in [Tasks -> Call]
  /\ \A t \in Tasks : task[t].pc \in SweepSteps => task[t].kind = "poll"
  /\ gestures \in 0..MaxGestures
  /\ view \in [writes : SUBSET Writes, absent : SUBSET Notes]
  /\ excuses \subseteq {"failed read", "stale mount"}
  /\ gestured \in [Notes -> SUBSET Writes]

Content(n) == {w \in Writes : NoteOf[w] = n /\ stage[w] # "none"}
Stamped == {w \in Writes : stage[w] \in {"stamped", "appended", "nudged"}}
Appended == {w \in Writes : stage[w] \in {"appended", "nudged"}}

(* agentWritesSince: the records on n strictly after the acceptance. *)
WritesSince(records, n, since) == {w \in records \ since : NoteOf[w] = n}

(* The mount is under way: onLayoutReady's refresh has started.  lastSig is *)
(* "" and so is the signature of a journal without files.  Any task may    *)
(* stand for the mount.                                                     *)
Init ==
  /\ stage = [w \in Writes |-> "none"]
  /\ present = Notes
  /\ base = [n \in Notes |-> Unset]
  /\ lastSig = {} /\ inFlight = FALSE /\ cached = {}
  /\ ticking = FALSE /\ deleteTimer = FALSE
  /\ newest = CHOOSE t \in Tasks : TRUE
  /\ task = [t \in Tasks |->
       IF t = newest THEN [Idle EXCEPT !.pc = "reading", !.kind = "mount",
                                       !.listed = Notes, !.todo = Notes]
                     ELSE Idle]
  /\ gestures = 0
  /\ view = [writes |-> {}, absent |-> {}]
  /\ excuses = {}
  /\ gestured = [n \in Notes |-> {}]

queueVars == <<lastSig, inFlight, newest, cached, ticking, task, view, excuses>>
noteVars == <<stage, present, base, gestured, deleteTimer, gestures>>

-----------------------------------------------------------------------------
(* Calls. *)

GoTo(t, call) == task' = [task EXCEPT ![t] = call]

IsIdle(t) == task[t].pc = "idle"

(* pollJournal's first step: the test of inFlight, then the signature. *)
PollFrom(t) ==
  /\ IsIdle(t) /\ ~inFlight
  /\ GoTo(t, [Idle EXCEPT !.pc = "signing", !.kind = "poll"])
  /\ UNCHANGED <<lastSig, inFlight, newest, cached, ticking, view, excuses>>

(* refresh's first step: a new generation and the list of files. *)
Refresh(t, kind) ==
  /\ newest' = t
  /\ GoTo(t, [Idle EXCEPT !.pc = "reading", !.kind = kind,
                          !.listed = present, !.todo = present])

\* Seeded fault: a poll never clears inFlight.
ReturnBusy(t) == GoTo(t, Idle) /\ UNCHANGED inFlight
(* The call returns or throws: a poll's finally lets the next one in. *)
Return(t) ==
  /\ GoTo(t, Idle)
  /\ inFlight' = (inFlight /\ task[t].kind \notin PollKinds)

-----------------------------------------------------------------------------
(* Agent writes: the handler's write, the record's timestamp, the record    *)
(* in the file, and the reaction that nudges the poll.                      *)

WriteLands(w) ==
  /\ stage[w] = "none" /\ NoteOf[w] \in present
  /\ stage' = [stage EXCEPT ![w] = "landed"]
  /\ UNCHANGED <<queueVars, present, base, gestured, deleteTimer, gestures>>

RecordIsStamped(w) ==
  /\ stage[w] = "landed"
  /\ stage' = [stage EXCEPT ![w] = "stamped"]
  /\ UNCHANGED <<queueVars, present, base, gestured, deleteTimer, gestures>>

RecordIsAppended(w) ==
  /\ stage[w] = "stamped"
  /\ stage' = [stage EXCEPT ![w] = "appended"]
  /\ UNCHANGED <<queueVars, present, base, gestured, deleteTimer, gestures>>

Nudge(w) ==
  /\ stage[w] = "appended"
  /\ stage' = [stage EXCEPT ![w] = "nudged"]
  /\ UNCHANGED <<present, base, gestured, deleteTimer, gestures>>
  /\ \/ \E t \in Tasks : PollFrom(t)
     \/ inFlight /\ UNCHANGED queueVars

IntervalTicks ==
  /\ ticking
  /\ \E t \in Tasks : PollFrom(t)
  /\ UNCHANGED noteVars

-----------------------------------------------------------------------------
(* pollJournal and the mount. *)

ReadSignature(t) ==
  /\ task[t].pc = "signing"
  /\ GoTo(t, [task[t] EXCEPT !.pc = "signed", !.sig = Appended])
  /\ UNCHANGED <<lastSig, inFlight, newest, cached, ticking, view, excuses, noteVars>>

\* Seeded fault: inFlight is tested again, after the signature is kept.
PollGivesUp(t) ==
  /\ task[t].pc = "signed" /\ task[t].kind = "poll"
  /\ lastSig' = task[t].sig
  /\ IF task[t].sig = lastSig \/ inFlight
       THEN GoTo(t, Idle) /\ UNCHANGED <<inFlight, newest>>
       ELSE inFlight' = TRUE /\ Refresh(t, "poll")
  /\ UNCHANGED <<cached, ticking, view, excuses, noteVars>>
(* The signature is compared and kept, and only then inFlight is set. *)
PollGoesOn(t) ==
  /\ task[t].pc = "signed" /\ task[t].kind = "poll"
  /\ IF task[t].sig = lastSig
       THEN GoTo(t, Idle) /\ UNCHANGED <<lastSig, inFlight, newest>>
       ELSE /\ lastSig' = task[t].sig
            /\ inFlight' = TRUE
            /\ Refresh(t, "poll")
  /\ UNCHANGED <<cached, ticking, view, excuses, noteVars>>

(* The writes a refresh takes into account: it read the record, and the     *)
(* content after the write landed (or the note was gone when it started).   *)
Account(call) ==
  {w \in call.records : w \in call.content \/ NoteOf[w] \notin call.listed}

(* The newest refresh will take w into account. *)
WillAccount(t, w) ==
  /\ newest = t
  /\ \/ /\ task[t].pc = "reading"
        /\ NoteOf[w] \in task[t].listed => NoteOf[w] \in task[t].todo \/ w \in task[t].content
     \/ task[t].pc = "publishing" /\ w \in Account(task[t])

(* The published queue takes the records of sig into account, or the next   *)
(* one will.                                                                *)
Accounted(sig) ==
  \A w \in sig : w \in view.writes \/ \E t \in Tasks : WillAccount(t, w)

(* The mount keeps its signature, whatever the refreshes had read. *)
MountEnds(t) ==
  /\ task[t].pc = "signed" /\ task[t].kind = "mount"
  /\ lastSig' = task[t].sig
  /\ excuses' = excuses \cup
       IF Accounted(task[t].sig) THEN {} ELSE {"stale mount"}
  /\ ticking' = TRUE
  /\ Return(t)
  /\ UNCHANGED <<newest, cached, view, noteVars>>

-----------------------------------------------------------------------------
(* refresh. *)

(* cachedRead of a file listed at the start.  A note deleted meanwhile may  *)
(* still be answered from the cache.                                        *)
ReadNote(t, n) ==
  /\ task[t].pc = "reading" /\ n \in task[t].todo
  /\ GoTo(t, [task[t] EXCEPT !.todo = @ \ {n}, !.content = @ \cup Content(n)])
  /\ UNCHANGED <<lastSig, inFlight, newest, cached, ticking, view, excuses, noteVars>>

(* ... or the read rejects, and refresh throws. *)
ReadFails(t, n) ==
  /\ task[t].pc = "reading" /\ n \in task[t].todo /\ n \notin present
  /\ Return(t)
  /\ excuses' = excuses \cup IF newest = t THEN {"failed read"} ELSE {}
  /\ UNCHANGED <<lastSig, newest, cached, ticking, view, noteVars>>

ReadJournal(t) ==
  /\ task[t].pc = "reading" /\ task[t].todo = {}
  /\ GoTo(t, [task[t] EXCEPT !.pc = "publishing", !.records = Appended])
  /\ UNCHANGED <<lastSig, inFlight, newest, cached, ticking, view, excuses, noteVars>>

(* computeQueue on what the call read and on the baselines of this moment. *)
Queue(call) ==
  {n \in call.listed :
     /\ {w \in call.content : NoteOf[w] = n} # base[n].content
     /\ WritesSince(call.records, n, base[n].since) # {}}

\* Seeded fault: the generation is not looked at.
PublishAnyway(t) ==
  /\ task[t].pc = "publishing"
  /\ cached' = Queue(task[t])
  /\ view' = [writes |-> Account(task[t]), absent |-> Notes \ task[t].listed]
  /\ GoTo(t, [Idle EXCEPT !.pc = "published", !.kind = task[t].kind])
  /\ UNCHANGED <<lastSig, inFlight, newest, ticking, excuses, noteVars>>
Publish(t) ==
  /\ task[t].pc = "publishing"
  /\ IF newest = t
       THEN /\ cached' = Queue(task[t])
            /\ view' = [writes |-> Account(task[t]), absent |-> Notes \ task[t].listed]
       ELSE UNCHANGED <<cached, view>>
  /\ GoTo(t, [Idle EXCEPT !.pc = "published", !.kind = task[t].kind])
  /\ UNCHANGED <<lastSig, inFlight, newest, ticking, excuses, noteVars>>

(* What the caller of refresh does next. *)
AfterRefresh(t) ==
  /\ task[t].pc = "published"
  /\ \/ /\ task[t].kind = "poll"
        /\ GoTo(t, [Idle EXCEPT !.pc = "sweeping", !.kind = "poll", !.todo = cached])
        /\ UNCHANGED inFlight
     \/ /\ task[t].kind = "mount"
        /\ GoTo(t, [task[t] EXCEPT !.pc = "signing"])
        /\ UNCHANGED inFlight
     \/ /\ task[t].kind \in {"closing", "plain"}
        /\ Return(t)
  /\ UNCHANGED <<lastSig, newest, cached, ticking, view, excuses, noteVars>>

-----------------------------------------------------------------------------
(* sweepAutoAccept and maybeAutoAccept. *)

sweepKeeps == <<lastSig, cached, ticking, view, excuses, stage, present,
                gestured, deleteTimer, gestures>>

SweepNext(t, n) ==
  /\ task[t].pc = "sweeping" /\ n \in task[t].todo
  /\ GoTo(t, [task[t] EXCEPT !.pc = "sweepReading", !.todo = @ \ {n},
                             !.note = {n}, !.from = base[n]])
  /\ UNCHANGED <<sweepKeeps, inFlight, newest, base>>

NextItem(call) ==
  [call EXCEPT !.pc = "sweeping", !.note = {}, !.content = {}, !.from = Unset, !.at = {}]

SweepReads(t, n) ==
  /\ task[t].pc = "sweepReading" /\ task[t].note = {n}
  /\ GoTo(t, IF n \in present /\ Content(n) # task[t].from.content
               THEN [task[t] EXCEPT !.pc = "sweepJournal", !.content = Content(n)]
               ELSE NextItem(task[t]))
  /\ UNCHANGED <<sweepKeeps, inFlight, newest, base>>

(* evaluate: the difference is made of the enabled mechanical classes. *)
Eligible(from, content) == content \ from \subseteq Mechanical

SweepDecides(t, n) ==
  /\ task[t].pc = "sweepJournal" /\ task[t].note = {n}
  /\ GoTo(t, IF /\ WritesSince(Appended, n, task[t].from.since) # {}
                /\ Eligible(task[t].from.content, task[t].content)
               THEN [task[t] EXCEPT !.pc = "sweepSetting", !.at = Stamped]
               ELSE NextItem(task[t]))
  /\ UNCHANGED <<sweepKeeps, inFlight, newest, base>>

\* Seeded fault: the note is read again for the baseline.
SweepSetsCurrent(t, n) ==
  /\ task[t].pc = "sweepSetting" /\ task[t].note = {n}
  /\ base' = [base EXCEPT ![n] = [content |-> Content(n), since |-> task[t].at]]
  /\ GoTo(t, [NextItem(task[t]) EXCEPT !.accepted = TRUE])
  /\ UNCHANGED <<sweepKeeps, inFlight, newest>>
(* setBaseline's cache.set, after the blob is written. *)
SweepSets(t, n) ==
  /\ task[t].pc = "sweepSetting" /\ task[t].note = {n}
  /\ base' = [base EXCEPT ![n] = [content |-> task[t].content, since |-> task[t].at]]
  /\ GoTo(t, [NextItem(task[t]) EXCEPT !.accepted = TRUE])
  /\ UNCHANGED <<sweepKeeps, inFlight, newest>>

(* A poll whose sweep accepted something refreshes again. *)
SweepEnds(t) ==
  /\ task[t].pc = "sweeping" /\ task[t].todo = {}
  /\ IF task[t].accepted
       THEN Refresh(t, "closing") /\ UNCHANGED inFlight
       ELSE Return(t) /\ UNCHANGED newest
  /\ UNCHANGED <<sweepKeeps, base>>

-----------------------------------------------------------------------------
(* The human: the Refresh button, the Accept of a queue row, deletions. *)

RefreshClick(t) ==
  /\ IsIdle(t) /\ gestures < MaxGestures
  /\ gestures' = gestures + 1
  /\ Refresh(t, "plain")
  /\ UNCHANGED <<lastSig, inFlight, cached, ticking, view, excuses,
                 stage, present, base, gestured, deleteTimer>>

AcceptClick(t, n) ==
  /\ IsIdle(t) /\ gestures < MaxGestures /\ n \in cached
  /\ gestures' = gestures + 1
  /\ GoTo(t, [Idle EXCEPT !.pc = "acceptReading", !.note = {n}])
  /\ UNCHANGED <<lastSig, inFlight, newest, cached, ticking, view, excuses,
                 stage, present, base, gestured, deleteTimer>>

(* acceptNote reads the note as it is now; a missing one throws, and the    *)
(* finally of performAccept refreshes.                                      *)
AcceptReads(t, n) ==
  /\ task[t].pc = "acceptReading" /\ task[t].note = {n}
  /\ IF n \in present
       THEN /\ GoTo(t, [task[t] EXCEPT !.pc = "acceptTiming", !.content = Content(n)])
            /\ UNCHANGED newest
       ELSE Refresh(t, "plain")
  /\ UNCHANGED <<lastSig, inFlight, cached, ticking, view, excuses, noteVars>>

AcceptTakesTime(t) ==
  /\ task[t].pc = "acceptTiming"
  /\ GoTo(t, [task[t] EXCEPT !.pc = "acceptSetting", !.at = Stamped])
  /\ UNCHANGED <<lastSig, inFlight, newest, cached, ticking, view, excuses, noteVars>>

AcceptSets(t, n) ==
  /\ task[t].pc = "acceptSetting" /\ task[t].note = {n}
  /\ base' = [base EXCEPT ![n] = [content |-> task[t].content, since |-> task[t].at]]
  /\ gestured' = [gestured EXCEPT ![n] = @ \cup task[t].content]
  /\ Refresh(t, "plain")
  /\ UNCHANGED <<lastSig, inFlight, cached, ticking, view, excuses,
                 stage, present, deleteTimer, gestures>>

(* The delete event, with the pane closed. *)
DeleteNote(n) ==
  /\ n \in present /\ gestures < MaxGestures
  /\ gestures' = gestures + 1
  /\ present' = present \ {n}
  /\ deleteTimer' = (deleteTimer \/ n \in cached)
  /\ UNCHANGED <<queueVars, stage, base, gestured>>

DeleteTimerFires(t) ==
  /\ deleteTimer /\ IsIdle(t)
  /\ deleteTimer' = FALSE
  /\ Refresh(t, "plain")
  /\ UNCHANGED <<lastSig, inFlight, cached, ticking, view, excuses,
                 stage, present, base, gestured, gestures>>

-----------------------------------------------------------------------------
Resume(t) ==
  \/ ReadSignature(t) \/ PollGoesOn(t) \/ MountEnds(t)
  \/ ReadJournal(t) \/ Publish(t) \/ AfterRefresh(t) \/ SweepEnds(t)
  \/ AcceptTakesTime(t)
  \/ \E n \in Notes :
       \/ ReadNote(t, n) \/ ReadFails(t, n)
       \/ SweepNext(t, n) \/ SweepReads(t, n) \/ SweepDecides(t, n) \/ SweepSets(t, n)
       \/ AcceptReads(t, n) \/ AcceptSets(t, n)

AgentWrites(w) ==
  WriteLands(w) \/ RecordIsStamped(w) \/ RecordIsAppended(w)

Human ==
  \/ \E t \in Tasks : \/ RefreshClick(t) \/ DeleteTimerFires(t)
                      \/ \E n \in Notes : AcceptClick(t, n)
  \/ \E n \in Notes : DeleteNote(n)

Next ==
  \/ \E w \in Writes : AgentWrites(w) \/ Nudge(w)
  \/ IntervalTicks
  \/ \E t \in Tasks : Resume(t)
  \/ Human

Spec == Init /\ [][Next]_vars

(* What runs in a window that is occluded: promises settle and the journal  *)
(* nudges; timers are suspended.                                            *)
Unthrottled ==
  /\ \A t \in Tasks : WF_vars(Resume(t))
  /\ \A w \in Writes : WF_vars(Nudge(w))

ForegroundSpec == Spec /\ Unthrottled /\ WF_vars(IntervalTicks)

-----------------------------------------------------------------------------
(* Properties. *)

(* A refresh overtaken by a newer one never takes the queue back: a write   *)
(* once taken into account stays so, and a deleted note once left out stays *)
(* out (the generation guard in refresh).                                   *)
NeverRegresses ==
  [][/\ view.writes \subseteq view'.writes
     /\ view.absent \subseteq view'.absent]_vars

(* The poll forgets a record only when it is in the queue's journal or will *)
(* be, so growth is never missed; unless a refresh failed, or the mount     *)
(* kept a signature the refreshes of that time were older than.             *)
SignatureCovered == excuses # {} \/ Accounted(lastSig)

(* Whatever the sweep and the clicks do to one baseline in turns, it holds  *)
(* nothing but what an Accept took in and mechanical writes.                *)
BaselineBlessed ==
  \A n \in Notes : base[n].content \subseteq gestured[n] \cup Mechanical

(* The note has a recorded write its baseline neither holds nor postdates. *)
Unreviewed(n) ==
  /\ n \in present
  /\ WritesSince(Appended, n, base[n].since) \ base[n].content # {}

(* A recorded agent write is shown in the queue, or dealt with; unless one  *)
(* of the two ways to waste a signature came about.                         *)
Surfaces ==
  \A n \in Notes :
    Unreviewed(n) ~> (n \in cached \/ ~Unreviewed(n) \/ excuses # {})
=============================================================================
