----------------------------- MODULE Admission -----------------------------
(***************************************************************************)
(* Admission of agent proposals: admitWithGesture, admitCohortWithGesture   *)
(* and revertToBase of governance/admission-wiring.ts over the admission    *)
(* service, the claim store, the proposal store and the standing ref.      *)
(*                                                                         *)
(* A gesture is one confirmed click; it mints at most one claim, so claims *)
(* are named by gestures.  A decision is an item or a cohort of proposals; *)
(* subject digests are compared for equality only, and two decisions have  *)
(* the same digest exactly when they are the same (a digest covers the     *)
(* producing operation).  A note's bytes are named by what wrote them: a   *)
(* proposal's write is named by the proposal.                              *)
(*                                                                         *)
(* Every mount of the governance pane builds a new service (main.ts 931)   *)
(* with a chain and a claim cache of its own over the same files, while    *)
(* calls of an earlier mount run on: `mount' counts them, and a restart of *)
(* the program is a mount that loses the calls in flight.                  *)
(*                                                                         *)
(* The proposal store lives as long as the program (main.ts 539): its      *)
(* events are kept in a file and in an array, and each is a fold of what   *)
(* it holds.  `authority' is the fold the code answers from, `filed' the   *)
(* one the next start will compute.                                        *)
(***************************************************************************)
EXTENDS Naturals, Sequences, FiniteSets

CONSTANTS
  Gestures,  \* confirmed clicks
  Proposals, \* writes of agents recorded as proposals
  NoteOf,    \* the note each proposal is about
  NoClaim,   \* nothing stands
  Unknown,   \* the standing ref could not be read
  MaxMounts, \* bound: mounts, restarts included
  MaxFaults, \* bound: reads and writes that fail, and cold reads that land late
  MaxEdits   \* bound: writes and deletions that propose nothing

ASSUME AdmissionAssumption ==
  /\ {NoClaim, Unknown} \intersect Gestures = {}
  /\ NoClaim # Unknown
  /\ MaxMounts \in Nat \ {0}
  /\ MaxFaults \in Nat
  /\ MaxEdits \in Nat
  /\ DOMAIN NoteOf = Proposals
  /\ {"original", "edited", "absent"} \intersect Proposals = {}

VARIABLES
  standing,    \* the standing ref's commit chain as claims, oldest first
  claimLines,  \* claims that can be read back from admission-claims.jsonl
  glued,       \* claims whose line was appended to a torn one
  torn,        \* the claims file ends in half a line
  settlements, \* claims with a settlement record
  authority,   \* the proposals' authority axis, folded from the cached lines
  filed,       \* ... and folded from the lines of proposals.jsonl
  halfLine,    \* proposals.jsonl ends in half a line
  unsure,      \* history: an event about it may be in one fold only
  late,        \* what a second cold read, if one is under way, will answer from
  bytes,       \* what each note holds
  base,        \* what each proposal's note held before
  mount,       \* the current mount
  cache,       \* each mount's claim cache
  chain,       \* each mount's serialized admissions
  call,        \* the gestures' calls: see Calls
  faults,      \* reads and writes failed so far
  edits        \* writes and deletions so far

durable == <<standing, claimLines, glued, torn, settlements>>
proposals == <<authority, filed, halfLine, unsure, late>>
notes == <<bytes, base, edits>>
vars == <<durable, proposals, notes, mount, cache, chain, call, faults>>

Notes == {NoteOf[p] : p \in Proposals}
Mounts == 1..MaxMounts
Unread == {Unknown}  \* the claims file, where it was not read
Versions == Proposals \union {"original", "edited", "absent"}

Folds == [Proposals -> {"none", "proposed", "admitted", "superseded"}]

Decisions ==
  [kind : {"item"}, members : {{p} : p \in Proposals}]
    \union [kind : {"cohort"}, members : SUBSET Proposals]
    \union [kind : {"revert"}, members : {{p} : p \in Proposals}]

Phases == {"idle", "looking", "queued", "claiming", "advancing", "settling",
           "rechecking", "reverting", "superseding", "catchingUp", "done", "lost"}
Results == {"none", "ok", "degraded", "already", "refused", "moved", "error",
            "reverted", "partial"}

Calls == [
  phase : Phases,
  decision : Decisions,
  at : Mounts,                              \* the mount that serves it
  fresh : BOOLEAN,                          \* members were proposed when fetched
  preHead : Gestures \union {NoClaim, Unknown}, \* standing when it began
  seen : (SUBSET Gestures) \union {Unread},   \* its own read of the claims file
  observed : BOOLEAN,                       \* the notes were as proposed at the click
  expected : Gestures \union {NoClaim},     \* the standing its claim names
  blind : BOOLEAN,                          \* history: that claim was not in the cache
  attached : BOOLEAN,                       \* the array its append pushes to is the cache
  todo : SUBSET Proposals,                  \* members whose projection is behind
  writing : SUBSET Proposals,               \* the member whose event is being appended
  result : Results]

NoDecision == [kind |-> "cohort", members |-> {}]
\* A call without locals: what it decides, for which mount, what its claim named.
Bare(ph, d, m, named, blind, res) ==
  [phase |-> ph, decision |-> d, at |-> m, fresh |-> FALSE, preHead |-> Unknown,
   seen |-> Unread, observed |-> FALSE, expected |-> named, blind |-> blind,
   attached |-> FALSE, todo |-> {}, writing |-> {}, result |-> res]
IdleCall == Bare("idle", NoDecision, 1, NoClaim, FALSE, "none")

TypeOK ==
  /\ standing \in Seq(Gestures)
  /\ claimLines \in SUBSET Gestures
  /\ glued \in SUBSET Gestures
  /\ torn \in BOOLEAN
  /\ settlements \in SUBSET Gestures
  /\ authority \in Folds
  /\ filed \in Folds
  /\ halfLine \in BOOLEAN
  /\ unsure \in SUBSET Proposals
  /\ late \in SUBSET Folds
  /\ bytes \in [Notes -> Versions]
  /\ base \in [Proposals -> Versions]
  /\ mount \in Mounts
  /\ cache \in [Mounts -> (SUBSET Gestures) \union {Unread}]
  /\ chain \in [Mounts -> Seq(Gestures)]
  /\ call \in [Gestures -> Calls]
  /\ faults \in 0..MaxFaults
  /\ edits \in 0..MaxEdits

Init ==
  /\ standing = <<>>
  /\ claimLines = {} /\ glued = {} /\ torn = FALSE
  /\ settlements = {}
  /\ authority = [p \in Proposals |-> "none"]
  /\ filed = authority
  /\ halfLine = FALSE
  /\ unsure = {}
  /\ late = {filed}
  /\ bytes = [n \in Notes |-> "original"]
  /\ base = [p \in Proposals |-> "original"]
  /\ mount = 1
  /\ cache = [m \in Mounts |-> Unread]
  /\ chain = [m \in Mounts |-> <<>>]
  /\ call = [g \in Gestures |-> IdleCall]
  /\ faults = 0
  /\ edits = 0
-----------------------------------------------------------------------------
\* The claim the standing ref names (currentStanding).
StandingHead == IF standing = <<>> THEN NoClaim ELSE standing[Len(standing)]

\* What a mount's claim store answers from: its cache, filled on first use.
Known(m) == IF cache[m] = Unread THEN claimLines ELSE cache[m]

DecisionOf(g) == call[g].decision

\* Seeded fault: what already stands is not looked at.
CoversNothing(c, g, known) == c \in known /\ g \notin Gestures
\* The claim c, if a claim and readable, is an admission of g's decision.
Covers(c, g, known) == c \in known /\ DecisionOf(c) = DecisionOf(g)

AsProposed(d) == \A p \in d.members : bytes[NoteOf[p]] = p

Faults == faults < MaxFaults /\ faults' = faults + 1

\* The call's task is the one its service runs now.
Serving(g) == chain[call[g].at] # <<>> /\ Head(chain[call[g].at]) = g
\* Seeded fault: a task that ended keeps its place.
LeaveChainNever(g) == g \in Gestures /\ UNCHANGED chain
\* The task ended or threw: the next one starts regardless.
LeaveChain(g) == chain' = [chain EXCEPT ![call[g].at] = Tail(@)]

\* What is left of a call once its locals are gone.
Remains(c, ph, res) == Bare(ph, c.decision, c.at, c.expected, c.blind, res)

Goes(g, ph) == call' = [call EXCEPT ![g].phase = ph]
Ends(g, res) == call' = [call EXCEPT ![g] = Remains(@, "done", res)]
\* The answer is settled; the members' projections are brought up to it first.
CatchesUp(g, res) ==
  call' = [call EXCEPT ![g] = [Remains(@, "catchingUp", res) EXCEPT !.todo = DecisionOf(g).members]]
-----------------------------------------------------------------------------
(* The proposal store: a transition is validated against the cached lines, *)
(* its event is appended to the file and, once that returned, pushed to    *)
(* the cache; a fold drops an event that is illegal by then.               *)

\* Seeded fault: the fold believes every event.
FoldsAll(f, ps, from, to) == [p \in Proposals |-> IF p \in ps /\ from # {} THEN to ELSE f[p]]
\* The event is folded in, if the transition is legal from where the proposal is.
Folded(f, ps, from, to) == [p \in Proposals |-> IF p \in ps /\ f[p] \in from THEN to ELSE f[p]]

\* An admitted event follows a verification event of its own: that one may be
\* glued to the half line in its place, and the fold then drops the admitted one
\* unless an earlier verification was kept.
Paired(to) == to = "admitted"

\* The append returned.  An event glued to half a line is not read back; one
\* pushed to an array that is no longer the cache is not answered from.
EventReturns(attached, ps, from, to) ==
  /\ authority' = IF attached THEN Folded(authority, ps, from, to) ELSE authority
  /\ \/ filed' = Folded(filed, ps, from, to) /\ (halfLine => Paired(to))
     \/ UNCHANGED filed /\ (halfLine \/ (Paired(to) /\ ~attached))
  /\ halfLine' = FALSE
  /\ unsure' = IF halfLine \/ ~attached THEN unsure \union ps ELSE unsure
  /\ UNCHANGED late

\* The append failed: the line may be there whole, in part or not at all.
EventFails(ps, from, to) ==
  /\ Faults
  /\ \/ UNCHANGED filed /\ halfLine' \in BOOLEAN
     \/ filed' = Folded(filed, ps, from, to) /\ (halfLine => Paired(to)) /\ halfLine' = FALSE
  /\ unsure' = unsure \union ps
  /\ UNCHANGED <<authority, late>>

\* Two first uses of the store both read the file (proposal-store.ts 88): the
\* second replaces the array the first filled, and what was pushed to it since.
\* One that brings what is cached already changes nothing for who writes later.
LandLate ==
  /\ Faults
  /\ \E f \in late :
       /\ f # authority \/ \E g \in Gestures : call[g].writing # {}
       /\ authority' = f
       /\ unsure' = unsure \union {p \in Proposals : f[p] # filed[p]}
       /\ late' = late \ {f}
  /\ call' = [g \in Gestures |->
       IF call[g].writing # {} THEN [call[g] EXCEPT !.attached = FALSE] ELSE call[g]]
  /\ UNCHANGED <<durable, filed, halfLine, notes, mount, cache, chain>>
-----------------------------------------------------------------------------
(* Agents and editors.                                                     *)

\* A native note write, recorded and opened as a proposal (mcp/server.ts 343);
\* the write stands whether or not the proposal could be opened.
Propose(p) ==
  /\ authority[p] = "none" /\ p \notin unsure
  /\ bytes' = [bytes EXCEPT ![NoteOf[p]] = p]
  /\ base' = [base EXCEPT ![p] = bytes[NoteOf[p]]]
  /\ \/ EventReturns(TRUE, {p}, {"none"}, "proposed") /\ UNCHANGED faults
     \/ EventFails({p}, {"none"}, "proposed")
  /\ UNCHANGED <<durable, edits, mount, cache, chain, call>>

OutsideEdit(n) ==
  /\ edits < MaxEdits
  /\ edits' = edits + 1
  /\ bytes' = [bytes EXCEPT ![n] = "edited"] \/ bytes' = [bytes EXCEPT ![n] = "absent"]
  /\ UNCHANGED <<durable, proposals, base, mount, cache, chain, call, faults>>
-----------------------------------------------------------------------------
(* admitWithGesture and admitCohortWithGesture.                            *)

\* What the pane can offer: one proposal, or a frozen group of several notes'.
Offered ==
  {d \in Decisions : d.kind # "revert" /\ d.members # {} /\
     /\ \A p \in d.members : authority[p] # "none"
     /\ \A p, q \in d.members : NoteOf[p] = NoteOf[q] => p = q}

\* The members are fetched afresh, the standing ref is read, and, for a claim
\* found there, the claims file unless it is cached.
Click(g) ==
  /\ call[g].phase = "idle"
  /\ \E d \in Offered, pre \in {StandingHead, Unknown} :
       /\ IF pre = Unknown THEN Faults ELSE UNCHANGED faults
       /\ call' = [call EXCEPT ![g] = [IdleCall EXCEPT
            !.phase = "looking", !.decision = d, !.at = mount, !.preHead = pre,
            !.fresh = \A p \in d.members : authority[p] = "proposed",
            !.seen = IF pre \in Gestures /\ cache[mount] = Unread THEN claimLines ELSE Unread]]
  /\ UNCHANGED <<durable, proposals, notes, mount, cache, chain>>

\* A read of the claims file replaces the cache, whatever happened meanwhile.
CacheAfterRead(g) == IF call[g].seen = Unread THEN cache[call[g].at] ELSE call[g].seen

\* ... and an append in flight goes on to push to the arrays it replaced.
Detached(g) ==
  [h \in Gestures |->
     IF h # g /\ call[g].seen # Unread /\ call[h].at = call[g].at /\ call[h].phase = "claiming"
     THEN [call[h] EXCEPT !.attached = FALSE] ELSE call[h]]

\* Already standing: refused, after another attempt at the projections.
\* Drifted notes abort a cohort; an item goes on with the drift observed.
Look(g) ==
  /\ call[g].phase = "looking"
  /\ LET known == CacheAfterRead(g)
         pre == call[g].preHead
         d == DecisionOf(g)
         stands == pre \in Gestures /\ Covers(pre, g, known)
         gone == \E p \in d.members : bytes[NoteOf[p]] = "absent"
         aborts == ~AsProposed(d) /\ (d.kind = "cohort" \/ gone)
     IN  /\ cache' = [cache EXCEPT ![call[g].at] = known]
         /\ \/ /\ stands
               /\ call' = [Detached(g) EXCEPT ![g] = [Remains(@, "catchingUp", "already") EXCEPT !.todo = d.members]]
               /\ UNCHANGED chain
            \/ /\ ~stands /\ aborts
               /\ call' = [Detached(g) EXCEPT ![g] = Remains(@, "done", "refused")]
               /\ UNCHANGED chain
            \/ /\ ~stands /\ ~aborts
               /\ call' = [Detached(g) EXCEPT ![g].phase = "queued", ![g].seen = Unread,
                                             ![g].observed = AsProposed(d)]
               /\ chain' = [chain EXCEPT ![call[g].at] = Append(@, g)]
  /\ UNCHANGED <<durable, proposals, notes, mount, faults>>

\* The claims file or a note cannot be read: the call throws before its service
\* is asked.
LookThrows(g) ==
  /\ call[g].phase = "looking"
  /\ Faults
  /\ \/ /\ call[g].seen # Unread
        /\ call' = [call EXCEPT ![g].phase = "rechecking", ![g].seen = Unread]
        /\ UNCHANGED cache
     \/ /\ ~(call[g].preHead \in Gestures /\ Covers(call[g].preHead, g, CacheAfterRead(g)))
        /\ call' = [Detached(g) EXCEPT ![g].phase = "rechecking", ![g].seen = Unread]
        /\ cache' = [cache EXCEPT ![call[g].at] = CacheAfterRead(g)]
  /\ UNCHANGED <<durable, proposals, notes, mount, chain>>

\* The policy's table: the notes verify as they are now, and the proposals as
\* they were fetched, with the drift observed at the click, allow it.
Admissible(g) == AsProposed(DecisionOf(g)) /\ call[g].observed /\ call[g].fresh

\* service.admit(Cohort): verification, the policy, and what stands already.
Judge(g) ==
  /\ call[g].phase = "queued" /\ Serving(g)
  /\ LET m == call[g].at
         known == Known(m)
         stands == Covers(StandingHead, g, known)
         admissible == Admissible(g)
     IN  \/ /\ ~admissible \/ stands
            /\ Ends(g, "refused") /\ LeaveChain(g)
            /\ cache' = IF admissible THEN [cache EXCEPT ![m] = known] ELSE cache
         \/ /\ admissible /\ ~stands
            /\ call' = [call EXCEPT ![g].phase = "claiming", ![g].expected = StandingHead,
                                    ![g].blind = StandingHead \notin known \union {NoClaim},
                                    ![g].attached = TRUE,
                                    ![g].fresh = FALSE, ![g].observed = FALSE]
            /\ cache' = [cache EXCEPT ![m] = known]
            /\ UNCHANGED chain
  /\ UNCHANGED <<durable, proposals, notes, mount, faults>>

\* claims.append: the caches follow only when the write returns.  A failing
\* write may have landed whole, in part or not at all.
AppendClaim(g) ==
  /\ call[g].phase = "claiming"
  /\ \/ /\ claimLines' = IF torn THEN claimLines ELSE claimLines \union {g}
        /\ glued' = IF torn THEN glued \union {g} ELSE glued
        /\ torn' = FALSE
        /\ cache' = IF call[g].attached
                    THEN [cache EXCEPT ![call[g].at] = Known(call[g].at) \union {g}] ELSE cache
        /\ Goes(g, "advancing")
        /\ UNCHANGED <<chain, faults>>
     \/ /\ Faults
        /\ \/ torn' = TRUE /\ UNCHANGED <<claimLines, glued>>
           \/ ~torn /\ claimLines' \in {claimLines, claimLines \union {g}} /\ UNCHANGED <<torn, glued>>
           \/ torn /\ glued' = glued \union {g} /\ torn' = FALSE /\ UNCHANGED claimLines
        /\ Goes(g, "rechecking") /\ LeaveChain(g)
        /\ UNCHANGED cache
  /\ UNCHANGED <<standing, settlements, proposals, notes, mount>>

\* Seeded fault: the ref is advanced from whatever it names.
CasNever(g) == g \in Gestures
CasHolds(g) == StandingHead = call[g].expected

\* standingAdvance: the compare-and-swap of the ref.  Writing a commit or the
\* ref may fail, the latter after it happened.
Advance(g) ==
  /\ call[g].phase = "advancing"
  /\ \/ /\ CasHolds(g)
        /\ standing' = Append(standing, g)
        /\ \/ Goes(g, "settling") /\ UNCHANGED <<chain, faults>>
           \/ Faults /\ Goes(g, "rechecking") /\ LeaveChain(g)
     \/ /\ ~CasHolds(g)
        /\ Ends(g, "moved") /\ LeaveChain(g)
        /\ UNCHANGED <<standing, faults>>
     \/ /\ Faults /\ Goes(g, "rechecking") /\ LeaveChain(g)
        /\ UNCHANGED standing
  /\ UNCHANGED <<claimLines, glued, torn, settlements, proposals, notes, mount, cache>>

\* The settlement record; its failure is not unwound.
Settle(g) ==
  /\ call[g].phase = "settling"
  /\ \/ /\ settlements' = settlements \union {g}
        /\ CatchesUp(g, "ok")
        /\ UNCHANGED faults
     \/ Faults /\ Goes(g, "rechecking") /\ UNCHANGED settlements
  /\ LeaveChain(g)
  /\ UNCHANGED <<standing, claimLines, glued, torn, proposals, notes, mount, cache>>

\* Verification that cannot read a note, or a standing ref that cannot be read:
\* the service throws (an unreadable cohort member is refused instead).
JudgeThrows(g) ==
  /\ call[g].phase = "queued" /\ Serving(g)
  /\ Faults
  /\ Goes(g, "rechecking") \/ (DecisionOf(g).kind = "cohort" /\ Ends(g, "refused"))
  /\ LeaveChain(g)
  /\ UNCHANGED <<durable, proposals, notes, mount, cache>>

\* Seeded fault: any movement counts as this decision's.
MovedAtAll(g) == call[g].preHead # Unknown /\ StandingHead \notin {NoClaim, call[g].preHead}
\* Seeded fault: the head is compared with what the claim expected.
MovedElsewhere(g) == Covers(call[g].expected, g, Known(call[g].at))
\* Standing moved during this call to a claim of this decision.
MovedToIt(g) ==
  /\ call[g].preHead # Unknown
  /\ StandingHead \notin {NoClaim, call[g].preHead}
  /\ Covers(StandingHead, g, Known(call[g].at))

\* After a throw: did the admission happen all the same?
Recheck(g) ==
  /\ call[g].phase = "rechecking"
  /\ \/ MovedToIt(g) /\ DecisionOf(g).kind = "item" /\ Ends(g, "degraded") /\ UNCHANGED faults
     \/ MovedToIt(g) /\ DecisionOf(g).kind = "cohort" /\ CatchesUp(g, "degraded") /\ UNCHANGED faults
     \/ ~MovedToIt(g) /\ Ends(g, "error") /\ UNCHANGED faults
     \/ Faults /\ Ends(g, "error")
  /\ cache' = IF call[g].preHead = Unknown \/ StandingHead \in {NoClaim, call[g].preHead} THEN cache
              ELSE [cache EXCEPT ![call[g].at] = Known(call[g].at)]
  /\ UNCHANGED <<durable, proposals, notes, mount, chain>>
-----------------------------------------------------------------------------
(* Projection of a settled answer, and revertToBase.                       *)

\* setVerification("passed") and markAdmitted of one member; a failure is
\* swallowed, the next member's turn comes.
MarkAdmitted(g) ==
  /\ call[g].phase = "catchingUp" /\ call[g].writing = {}
  /\ \/ call[g].todo = {} /\ Ends(g, call[g].result)
     \/ \E p \in call[g].todo :
          call' = [call EXCEPT ![g].todo = @ \ {p}, ![g].attached = TRUE,
                     ![g].writing = IF authority[p] = "proposed" THEN {p} ELSE {}]
  /\ UNCHANGED <<durable, proposals, notes, mount, cache, chain, faults>>

MarkLands(g) ==
  /\ call[g].phase = "catchingUp" /\ call[g].writing # {}
  /\ \/ EventReturns(call[g].attached, call[g].writing, {"proposed"}, "admitted") /\ UNCHANGED faults
     \/ EventFails(call[g].writing, {"proposed"}, "admitted")
  /\ call' = [call EXCEPT ![g].writing = {}, ![g].attached = FALSE]
  /\ UNCHANGED <<durable, notes, mount, cache, chain>>

\* revertToBase: only of a proposal still proposed, and not of a creation.
ClickRevert(g) ==
  /\ call[g].phase = "idle"
  /\ \E p \in Proposals :
       /\ authority[p] # "none"
       /\ LET granted == authority[p] = "proposed" /\ base[p] # "absent"
          IN  call' = [call EXCEPT ![g] = [IdleCall EXCEPT
                !.phase = IF granted THEN "reverting" ELSE "done",
                !.decision = [kind |-> "revert", members |-> {p}],
                !.at = mount,
                !.result = IF granted THEN "none" ELSE "refused"]]
  /\ UNCHANGED <<durable, proposals, notes, mount, cache, chain, faults>>

WriteBase(g) ==
  /\ call[g].phase = "reverting"
  /\ \/ /\ \E p \in DecisionOf(g).members : bytes' = [bytes EXCEPT ![NoteOf[p]] = base[p]]
        /\ Goes(g, "superseding")
        /\ UNCHANGED faults
     \/ Faults /\ Ends(g, "error") /\ UNCHANGED bytes
  /\ UNCHANGED <<durable, proposals, base, edits, mount, cache, chain>>

\* proposals.supersede, validated and then appended; it throws for a proposal
\* that is admitted or, by a late read, unknown.
Supersede(g) ==
  /\ call[g].phase = "superseding" /\ call[g].writing = {}
  /\ IF \E p \in DecisionOf(g).members : authority[p] \in {"admitted", "none"}
     THEN Ends(g, "partial")
     ELSE call' = [call EXCEPT ![g].writing = DecisionOf(g).members, ![g].attached = TRUE]
  /\ UNCHANGED <<durable, proposals, notes, mount, cache, chain, faults>>

SupersedeLands(g) ==
  /\ call[g].phase = "superseding" /\ call[g].writing # {}
  /\ \/ /\ EventReturns(call[g].attached, call[g].writing, {"proposed", "superseded"}, "superseded")
        /\ Ends(g, "reverted")
        /\ UNCHANGED faults
     \/ /\ EventFails(call[g].writing, {"proposed", "superseded"}, "superseded")
        /\ Ends(g, "partial")
  /\ UNCHANGED <<durable, notes, mount, cache, chain>>
-----------------------------------------------------------------------------
(* The pane is toggled off and on again; the program stops and starts.     *)

Remount ==
  /\ mount < MaxMounts
  /\ mount' = mount + 1
  /\ UNCHANGED <<durable, proposals, notes, cache, chain, call, faults>>

InFlight(g) == call[g].phase \notin {"idle", "done", "lost"}

\* A line being appended may be left half, and the proposals are folded anew:
\* what was cached is gone, what the file holds is answered from.  A name whose
\* proposal was never opened is not given again.
Restart ==
  /\ mount < MaxMounts
  /\ mount' = mount + 1
  /\ call' = [g \in Gestures |-> IF InFlight(g) THEN Remains(call[g], "lost", "none") ELSE call[g]]
  /\ chain' = [m \in Mounts |-> <<>>]
  /\ \/ UNCHANGED torn
     \/ (\E g \in Gestures : call[g].phase = "claiming") /\ torn' = TRUE
  /\ \/ UNCHANGED halfLine
     \/ (\E g \in Gestures : call[g].writing # {}) /\ halfLine' = TRUE
  /\ authority' = filed
  /\ unsure' = {p \in unsure : filed[p] = "none"}
  /\ late' = {filed}
  /\ UNCHANGED <<standing, claimLines, glued, settlements, filed, notes, cache, faults>>

Step(g) ==
  \/ Look(g) \/ LookThrows(g) \/ Judge(g) \/ JudgeThrows(g) \/ AppendClaim(g)
  \/ Advance(g) \/ Settle(g) \/ Recheck(g) \/ MarkAdmitted(g) \/ MarkLands(g)
  \/ WriteBase(g) \/ Supersede(g) \/ SupersedeLands(g)

Next ==
  \/ \E p \in Proposals : Propose(p)
  \/ \E n \in Notes : OutsideEdit(n)
  \/ \E g \in Gestures : Click(g) \/ ClickRevert(g) \/ Step(g)
  \/ LandLate
  \/ Remount
  \/ Restart

Spec == Init /\ [][Next]_vars
-----------------------------------------------------------------------------
Stands(g) == \E i \in 1..Len(standing) : standing[i] = g

\* What a gesture's caller is told is what happened.  "ok" names a claim that
\* stands and is settled; a refusal leaves nothing standing; "degraded" names a
\* claim of this decision that stands.  A standing admission is reported as a
\* failure only if a second read failed, standing has moved on already, or the
\* claim was lost to the cache (admission-wiring.ts 430-500).
OutcomesTellTheTruth ==
  \A g \in Gestures :
    LET told == call[g].result
    IN  /\ told = "ok" => Stands(g) /\ g \in settlements
        /\ told \in {"already", "refused", "moved"} => ~Stands(g)
        /\ told \in {"already", "degraded"} =>
             \E c \in Gestures : Stands(c) /\ DecisionOf(c) = DecisionOf(g)
        /\ told = "error" /\ Stands(g) =>
             faults >= 2 \/ StandingHead # g \/ g \notin cache[call[g].at]

\* The proposals' projection never runs ahead of authority: what the cached or
\* the filed events show as admitted is covered by a claim that stands, across
\* crashes, retries and failed or torn appends.
ProjectionNeverAhead ==
  \A p \in Proposals :
    "admitted" \in {authority[p], filed[p]} =>
      \E g \in Gestures : Stands(g) /\ p \in DecisionOf(g).members

\* Two admissions of one decision never stand next to each other, unless the
\* second was judged by a claim cache that missed the first (service.ts 190-203).
DuplicatesOnlyWhenBlind ==
  \A i \in 1..Len(standing) - 1 :
    DecisionOf(standing[i]) = DecisionOf(standing[i + 1]) => call[standing[i + 1]].blind

\* A service's chain never wedges and never runs two admissions at once: at its
\* head is a call that is still on its way, behind it calls that wait, and no
\* other call of the mount is inside the service (service.ts 128-132).
Inside == {"queued", "claiming", "advancing", "settling"}
ChainNeverWedges ==
  /\ \A m \in Mounts : \A i \in 1..Len(chain[m]) :
       /\ call[chain[m][i]].at = m
       /\ call[chain[m][i]].phase \in (IF i = 1 THEN Inside ELSE {"queued"})
  /\ \A g \in Gestures : call[g].phase \in Inside =>
       \E i \in 1..Len(chain[call[g].at]) : chain[call[g].at][i] = g

Verdicts == {"admitted", "superseded"}
\* The human's verdict on a proposal is final.  In the file always: of two gestures
\* that both pass the check and then append, the second event is dropped
\* (proposal-store.ts 72-81).  In what the pane is shown, it is taken back only by a
\* second cold read that lands late, or at a restart, which answers from the file
\* again, for a proposal with an event that failed, met half a line or was pushed
\* to a replaced cache.
VerdictsAreFinal ==
  [][\A p \in Proposals :
       /\ filed[p] \in Verdicts => filed'[p] = filed[p]
       /\ authority[p] \in Verdicts /\ authority'[p] # authority[p] =>
            \/ authority' \in late
            \/ mount' # mount /\ p \in unsure /\ authority'[p] = filed[p]]_<<authority, filed>>

Ledger == INSTANCE StandingLedger WITH
  Claims <- Gestures, chain <- standing, written <- claimLines \union glued,
  names <- [g \in Gestures |-> call[g].expected]

\* Standing is a chain of claims, each written before it stood and linked to the
\* claim it named, whatever fails, restarts or runs beside it.
ImplementsLedger == Ledger!LedgerSpec
=============================================================================
