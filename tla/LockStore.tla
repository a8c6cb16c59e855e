----------------------------- MODULE LockStore -----------------------------
(***************************************************************************)
(* Advisory scope claims, kernel/locks.ts: who says it is working where,   *)
(* for how long, and who has been told of it.  Claims exclude nobody; what *)
(* matters is that none is taken from its holder, that the store stays     *)
(* bounded, and that two holders never overlap with neither knowing.       *)
(*                                                                         *)
(* A scope or path is its sequence of segments, the whole vault the empty  *)
(* one, so that covering is the prefix relation at a segment boundary.     *)
(* The clock is read only as expiresAt - now: a claim keeps the time it    *)
(* has left, and one with none left stays in the map until the next call   *)
(* prunes it.                                                              *)
(***************************************************************************)
EXTENDS Naturals, FiniteSets, SequencesExt

CONSTANTS
  Holders,       \* client#connection identities
  Scopes,        \* the scopes ever claimed
  Paths,         \* the paths ever written
  TtlMin, TtlMax,\* LOCK_TTL_MIN_MS and LOCK_TTL_MAX_MS, in ticks
  MaxLocks,      \* LOCK_MAX
  MaxPerHolder,  \* LOCK_MAX_PER_HOLDER
  MaxId          \* bound: ids ever minted

ASSUME LockAssumption ==
  /\ TtlMin \in Nat \ {0} /\ TtlMax \in Nat /\ TtlMin <= TtlMax
  /\ MaxLocks \in Nat /\ MaxPerHolder \in Nat /\ MaxId \in Nat

VARIABLES
  locks,   \* the map's values, expired ones not yet pruned included
  lastId,  \* lockSeq
  told,    \* <<h, id>>: holder h was shown claim id, while it is kept (history)
  actor    \* who made the last step (history)

vars == <<locks, lastId, told, actor>>

Lock == [id : 1..MaxId, scope : Scopes, holder : Holders, left : 0..TtlMax]
Clock == "clock"

TypeOK ==
  /\ locks \in SUBSET Lock
  /\ lastId \in 0..MaxId
  /\ told \in SUBSET (Holders \X (1..MaxId))
  /\ actor \in Holders \union {Clock}

Init ==
  /\ locks = {}
  /\ lastId = 0
  /\ told = {}
  /\ actor = Clock

ScopeCovers(s, p) == IsPrefix(s, p)
\* Seeded fault: only an outer scope overlaps an inner one.
OverlapsInward(a, b) == ScopeCovers(a, b)
ScopesOverlap(a, b) == ScopeCovers(a, b) \/ ScopeCovers(b, a)

Clamped(ttl) == IF ttl < TtlMin THEN TtlMin ELSE IF ttl > TtlMax THEN TtlMax ELSE ttl

\* prune(): every public method starts here.
Live == {l \in locks : l.left > 0}

HeldBy(h) == {l \in Live : l.holder = h}
Held(h, s) == {l \in HeldBy(h) : l.scope = s}
Overlapping(h, s) == {l \in Live : l.holder # h /\ ScopesOverlap(l.scope, s)}

Refreshed(ls, ttl) == {[l EXCEPT !.left = Clamped(ttl)] : l \in ls}

\* Seeded fault: the per-holder cap is not looked at.
AtStoreCap(h) == Cardinality(Live) >= MaxLocks
AtCap(h) == Cardinality(HeldBy(h)) >= MaxPerHolder \/ Cardinality(Live) >= MaxLocks

Kept(pairs) == {p \in pairs : \E l \in locks' : l.id = p[2]}

Shown(h, ls) == told' = Kept(told \union {<<h, l.id>> : l \in ls})

Discloses(h, s) == Shown(h, Overlapping(h, s))

\* Same holder, same scope: the claim is refreshed under its id.
ClaimAgain(h, s, ttl) ==
  /\ Held(h, s) # {}
  /\ locks' = (Live \ Held(h, s)) \union Refreshed(Held(h, s), ttl)
  /\ Discloses(h, s)
  /\ UNCHANGED lastId

\* A cap refuses the claimer, and evicts nobody.
ClaimRefused(h, s) ==
  /\ Held(h, s) = {} /\ AtCap(h)
  /\ locks' = Live
  /\ Shown(h, {})
  /\ UNCHANGED lastId

ClaimNew(h, s, ttl) ==
  /\ Held(h, s) = {} /\ ~AtCap(h)
  /\ lastId < MaxId
  /\ lastId' = lastId + 1
  /\ locks' = Live \union {[id |-> lastId + 1, scope |-> s, holder |-> h, left |-> Clamped(ttl)]}
  /\ Discloses(h, s)

Claim(h, s, ttl) ==
  /\ ClaimAgain(h, s, ttl) \/ ClaimRefused(h, s) \/ ClaimNew(h, s, ttl)
  /\ actor' = h

\* Seeded fault: the id alone is checked, not whose claim it is.
AnybodysClaim(h, id) == {l \in Live : l.id = id}
\* The one claim with this id, when it lives and is the caller's own.
Own(h, id) == {l \in HeldBy(h) : l.id = id}

\* renew(): a miss - unknown, expired, somebody else's - changes nothing.
Renew(h, id, ttl) ==
  /\ locks' = (Live \ Own(h, id)) \union Refreshed(Own(h, id), ttl)
  /\ Shown(h, {})
  /\ actor' = h
  /\ UNCHANGED lastId

Release(h, id) ==
  /\ locks' = Live \ Own(h, id)
  /\ Shown(h, {})
  /\ actor' = h
  /\ UNCHANGED lastId

\* coveringAny(): the foreign claims covering any path a write names; the
\* writer is shown each (the notice of Kernel.runMutation).
CoveringAny(h, ps) ==
  {l \in Live : l.holder # h /\ \E p \in ps : ScopeCovers(l.scope, p)}

Consult(h, ps) ==
  /\ locks' = Live
  /\ Shown(h, CoveringAny(h, ps))
  /\ actor' = h
  /\ UNCHANGED lastId

\* list(): every live claim, the foreign ones among them, is shown (where no
\* allowlist hides some).
List(h) ==
  /\ locks' = Live
  /\ Shown(h, Live \ HeldBy(h))
  /\ actor' = h
  /\ UNCHANGED lastId

Tick ==
  /\ \E l \in locks : l.left > 0
  /\ locks' = {[l EXCEPT !.left = IF @ > 0 THEN @ - 1 ELSE 0] : l \in locks}
  /\ actor' = Clock
  /\ UNCHANGED <<lastId, told>>

Next ==
  \/ \E h \in Holders, s \in Scopes, ttl \in 0..TtlMax + 1 : Claim(h, s, ttl)
  \/ \E h \in Holders, id \in 1..MaxId, ttl \in 0..TtlMax + 1 : Renew(h, id, ttl)
  \/ \E h \in Holders, id \in 1..MaxId : Release(h, id)
  \/ \E h \in Holders, ps \in SUBSET Paths : Consult(h, ps)
  \/ \E h \in Holders : List(h)
  \/ Tick

Spec == Init /\ [][Next]_vars
-----------------------------------------------------------------------------
\* A claim is one per id, and one per holder and scope while it lives: no call
\* sequence makes a holder pile up claims saying the same (locks.ts 237-240).
OneClaimEach ==
  /\ \A l, m \in locks : l.id = m.id => l = m
  /\ \A l, m \in Live : l.holder = m.holder /\ l.scope = m.scope => l = m
  /\ \A l \in locks : l.id <= lastId

\* Neither cap is ever exceeded, whatever the order of claims, renewals and
\* expiries (locks.ts 28-37).
WithinCaps ==
  /\ Cardinality(locks) <= MaxLocks
  /\ \A h \in Holders : Cardinality({l \in locks : l.holder = h}) <= MaxPerHolder

\* A live claim leaves the store, or changes, only by the clock or by an act
\* of its own holder: no takeover and no eviction (locks.ts 100-105, 284-304).
NeverTaken ==
  [][\A l \in Live :
       \/ l \in locks'
       \/ actor' = Clock /\ [l EXCEPT !.left = @ - 1] \in locks'
       \/ actor' = l.holder]_vars

\* Two live overlapping claims of different holders: at least one of the two
\* has been shown the other's (locks.ts 82-88).
SomebodyKnows ==
  \A l, m \in Live :
    l.holder # m.holder /\ ScopesOverlap(l.scope, m.scope)
      => <<l.holder, m.id>> \in told \/ <<m.holder, l.id>> \in told
=============================================================================
