-------------------------- MODULE LockStoreProofs --------------------------
(***************************************************************************)
(* The lock store for any holders, scopes, paths, TTLs and caps.           *)
(*                                                                         *)
(* Every call but a new claim maps some of the claims in the map, one to   *)
(* one and keeping id, holder and scope, onto those it leaves there.  The  *)
(* lemma Survivors says what that preserves, so that each action only has  *)
(* to name its map.                                                        *)
(***************************************************************************)
EXTENDS LockStore, FiniteSetTheorems, TLAPS

LockInv == TypeOK /\ OneClaimEach /\ WithinCaps /\ IsFiniteSet(locks)

Same(l, m) == l.id = m.id /\ l.holder = m.holder /\ l.scope = m.scope

OfHolder(ls, h) == {l \in ls : l.holder = h}

\* The image of a finite set under a function is finite and no larger.
LEMMA ImageBound ==
  ASSUME NEW S, IsFiniteSet(S), NEW f, f = [x \in S |-> f[x]]
  PROVE  /\ IsFiniteSet({f[x] : x \in S})
         /\ Cardinality({f[x] : x \in S}) <= Cardinality(S)
<1>1. f \in Surjection(S, {f[x] : x \in S})
  BY DEF Surjection
<1> QED BY <1>1, FS_Surjection

\* Mapping claims kept in the store onto their successors keeps ids unique, one
\* claim per holder and scope, and both caps.
LEMMA Survivors ==
  ASSUME LockInv, NEW S \in SUBSET locks, NEW f \in [S -> Lock],
         \A l \in S : Same(f[l], l) /\ (f[l].left > 0 => l.left > 0),
         locks' = {f[l] : l \in S}, lastId' = lastId
  PROVE  /\ locks' \in SUBSET Lock /\ lastId' \in 0..MaxId
         /\ IsFiniteSet(locks') /\ OneClaimEach' /\ WithinCaps'
<1> USE LockAssumption
<1>1. /\ locks' \in SUBSET Lock /\ lastId' \in 0..MaxId
      /\ IsFiniteSet(locks) /\ IsFiniteSet(S) /\ Cardinality(S) <= Cardinality(locks)
      /\ Cardinality(S) \in Nat /\ Cardinality(locks) \in Nat
  BY FS_Subset, FS_CardinalityType DEF LockInv, TypeOK
<1>2. IsFiniteSet(locks') /\ Cardinality(locks') <= Cardinality(S) /\ Cardinality(locks') \in Nat
  BY <1>1, ImageBound, FS_CardinalityType
<1>3. OneClaimEach'
  <2>1. ASSUME NEW l \in S, NEW m \in S, f[l].id = f[m].id PROVE f[l] = f[m]
    BY <2>1 DEF LockInv, OneClaimEach, Same
  <2>2. ASSUME NEW l \in S, NEW m \in S, f[l].left > 0, f[m].left > 0,
               f[l].holder = f[m].holder, f[l].scope = f[m].scope
        PROVE  f[l] = f[m]
    BY <2>2 DEF LockInv, OneClaimEach, Same, Live
  <2>3. ASSUME NEW l \in S PROVE f[l].id <= lastId'
    BY <2>3 DEF LockInv, OneClaimEach, Same
  <2> QED BY <2>1, <2>2, <2>3 DEF OneClaimEach, Live
<1>4. ASSUME NEW h \in Holders PROVE Cardinality(OfHolder(locks', h)) <= MaxPerHolder
  <2> DEFINE Sh == OfHolder(S, h)
             fh == [l \in Sh |-> f[l]]
             image == {fh[l] : l \in Sh}
  <2>1. OfHolder(locks', h) = image
    <3>1. \A m \in OfHolder(locks', h) : m \in image
      BY DEF OfHolder, Same
    <3>2. ASSUME NEW l \in Sh PROVE fh[l] \in OfHolder(locks', h)
      <4>1. fh[l] = f[l] /\ l \in S /\ l.holder = h /\ f[l].holder = h
        BY DEF OfHolder, Same
      <4> QED BY <4>1 DEF OfHolder
    <3> QED BY <3>1, <3>2
  <2>2. Sh \in SUBSET OfHolder(locks, h) /\ OfHolder(locks, h) \in SUBSET locks
    BY DEF OfHolder
  <2>3. /\ IsFiniteSet(OfHolder(locks, h)) /\ IsFiniteSet(Sh)
        /\ Cardinality(Sh) <= Cardinality(OfHolder(locks, h))
        /\ Cardinality(OfHolder(locks, h)) \in Nat /\ Cardinality(Sh) \in Nat
    BY <1>1, <2>2, FS_Subset, FS_CardinalityType
  <2>4. Cardinality(OfHolder(locks, h)) <= MaxPerHolder
    BY DEF LockInv, WithinCaps, OfHolder
  <2>5. IsFiniteSet(image) /\ Cardinality(image) <= Cardinality(Sh)
    BY <2>3, ImageBound
  <2>6. Cardinality(image) \in Nat
    BY <2>5, FS_CardinalityType
  <2> HIDE DEF image
  <2> QED BY <2>1, <2>3, <2>4, <2>5, <2>6
<1>5. WithinCaps'
  <2>1. Cardinality(locks') <= MaxLocks
    BY <1>1, <1>2 DEF LockInv, WithinCaps
  <2> QED BY <2>1, <1>4 DEF WithinCaps, OfHolder
<1> QED BY <1>1, <1>2, <1>3, <1>5

\* A caller's ttl, whatever it is, becomes a positive one within the bounds.
LEMMA ClampedType == \A ttl \in Nat : Clamped(ttl) \in 1..TtlMax
BY LockAssumption DEF Clamped

\* Refreshing some live claims and pruning the expired ones.
LEMMA RefreshKeeps ==
  ASSUME LockInv, NEW ls \in SUBSET Live, NEW ttl \in Nat,
         locks' = (Live \ ls) \union Refreshed(ls, ttl), lastId' = lastId
  PROVE  /\ locks' \in SUBSET Lock /\ lastId' \in 0..MaxId
         /\ IsFiniteSet(locks') /\ OneClaimEach' /\ WithinCaps'
<1> DEFINE f == [l \in Live |-> IF l \in ls THEN [l EXCEPT !.left = Clamped(ttl)] ELSE l]
<1>1. Live \in SUBSET locks /\ locks \in SUBSET Lock /\ \A l \in Live : l.left > 0
  BY DEF LockInv, TypeOK, Live
<1>2. f \in [Live -> Lock]
  BY <1>1, ClampedType DEF Lock
<1>3. \A l \in Live : Same(f[l], l) /\ (f[l].left > 0 => l.left > 0)
  BY <1>1 DEF Lock, Same
<1>4. locks' = {f[l] : l \in Live}
  BY DEF Refreshed
<1> HIDE DEF f
<1> QED BY <1>1, <1>2, <1>3, <1>4, Survivors

\* Dropping claims.
LEMMA DropKeeps ==
  ASSUME LockInv, NEW S \in SUBSET locks, locks' = S, lastId' = lastId
  PROVE  /\ locks' \in SUBSET Lock /\ lastId' \in 0..MaxId
         /\ IsFiniteSet(locks') /\ OneClaimEach' /\ WithinCaps'
<1> DEFINE f == [l \in S |-> l]
<1>1. f \in [S -> Lock]
  BY DEF LockInv, TypeOK
<1>2. (\A l \in S : Same(f[l], l) /\ (f[l].left > 0 => l.left > 0)) /\ locks' = {f[l] : l \in S}
  BY DEF Same
<1> HIDE DEF f
<1> QED BY <1>1, <1>2, Survivors

\* A new claim, within both caps, on a scope its holder does not hold.
LEMMA NewKeeps ==
  ASSUME LockInv, NEW h \in Holders, NEW s \in Scopes, NEW ttl \in Nat, ClaimNew(h, s, ttl),
         Held(h, s) = {}
  PROVE  /\ locks' \in SUBSET Lock /\ lastId' \in 0..MaxId
         /\ IsFiniteSet(locks') /\ OneClaimEach' /\ WithinCaps'
<1> USE LockAssumption
<1> DEFINE new == [id |-> lastId + 1, scope |-> s, holder |-> h, left |-> Clamped(ttl)]
<1>1. /\ locks' = Live \union {new} /\ lastId' = lastId + 1 /\ lastId' \in 1..MaxId
      /\ Clamped(ttl) \in 1..TtlMax /\ ~AtCap(h)
  BY ClampedType DEF ClaimNew, LockInv, TypeOK
<1>2. new \in Lock /\ Live \in SUBSET locks /\ locks \in SUBSET Lock
  BY <1>1 DEF Lock, LockInv, TypeOK, Live
<1>3. IsFiniteSet(Live) /\ Cardinality(Live) \in Nat
  BY <1>2, FS_Subset, FS_CardinalityType DEF LockInv
<1>4. \A l \in Live : l.id < new.id
  BY <1>2 DEF LockInv, OneClaimEach, TypeOK, Lock
<1>5. new \notin Live /\ new.holder = h /\ new.scope = s /\ new.id = lastId + 1
  BY <1>2, <1>4 DEF Lock
<1>6. IsFiniteSet(locks') /\ Cardinality(locks') = Cardinality(Live) + 1
  BY <1>1, <1>3, <1>5, FS_AddElement
<1>7. OneClaimEach'
  <2>1. \A l \in Live : ~(l.holder = h /\ l.scope = s)
    BY DEF Held, HeldBy
  <2>2. \A l, m \in locks' : l.id = m.id => l = m
    BY <1>1, <1>2, <1>4, <1>5 DEF LockInv, OneClaimEach, Lock
  <2>3. \A l, m \in locks' : l.holder = m.holder /\ l.scope = m.scope => l = m
    BY <1>1, <1>5, <2>1 DEF LockInv, OneClaimEach
  <2>4. \A l \in locks' : l.id <= lastId'
    BY <1>1, <1>2, <1>5 DEF LockInv, OneClaimEach, TypeOK, Lock
  <2> HIDE DEF new
  <2> QED BY <2>2, <2>3, <2>4 DEF OneClaimEach, Live
<1>8. WithinCaps'
  <2>1. Cardinality(locks') <= MaxLocks
    BY <1>1, <1>3, <1>6 DEF AtCap
  <2>2. ASSUME NEW g \in Holders PROVE Cardinality(OfHolder(locks', g)) <= MaxPerHolder
    <3>1. OfHolder(Live, g) \in SUBSET Live /\ OfHolder(locks, g) \in SUBSET locks
          /\ OfHolder(Live, g) \in SUBSET OfHolder(locks, g)
      BY <1>2 DEF OfHolder
    <3>2. /\ IsFiniteSet(OfHolder(Live, g)) /\ IsFiniteSet(OfHolder(locks, g))
          /\ Cardinality(OfHolder(Live, g)) \in Nat /\ Cardinality(OfHolder(locks, g)) \in Nat
          /\ Cardinality(OfHolder(Live, g)) <= Cardinality(OfHolder(locks, g))
      BY <3>1, <1>3, FS_Subset, FS_CardinalityType DEF LockInv
    <3>3. CASE g = h
      <4>1. OfHolder(locks', g) = OfHolder(Live, g) \union {new} /\ new \notin OfHolder(Live, g)
        BY <1>1, <1>5, <3>3 DEF OfHolder
      <4>2. Cardinality(OfHolder(Live, g)) < MaxPerHolder
        BY <1>1, <3>2, <3>3 DEF AtCap, HeldBy, OfHolder
      <4>3. Cardinality(OfHolder(locks', g)) = Cardinality(OfHolder(Live, g)) + 1
        BY <4>1, <3>2, FS_AddElement
      <4> QED BY <4>2, <4>3, <3>2
    <3>4. CASE g # h
      <4>1. OfHolder(locks', g) = OfHolder(Live, g)
        BY <1>1, <1>5, <3>4 DEF OfHolder
      <4>2. Cardinality(OfHolder(locks, g)) <= MaxPerHolder
        BY DEF LockInv, WithinCaps, OfHolder
      <4> QED BY <4>1, <4>2, <3>2
    <3> QED BY <3>3, <3>4
  <2> QED BY <2>1, <2>2 DEF WithinCaps, OfHolder
<1> HIDE DEF new
<1> QED BY <1>1, <1>2, <1>6, <1>7, <1>8 DEF TypeOK
-----------------------------------------------------------------------------
\* The inductive invariant of the store holds at start.
LEMMA LockInvInit == Init => LockInv
BY LockAssumption, FS_EmptySet DEF Init, LockInv, TypeOK, OneClaimEach, WithinCaps, Live, Clock

\* What a holder is told names claims that exist.
LEMMA ShownTyped ==
  ASSUME LockInv, NEW h \in Holders, NEW ls \in SUBSET Lock, Shown(h, ls)
  PROVE  told' \in SUBSET (Holders \X (1..MaxId))
BY DEF Shown, Kept, LockInv, TypeOK, Lock

\* One operation of the store preserves the invariant.
LEMMA LockInvStep == LockInv /\ [Next]_vars => LockInv'
<1> SUFFICES ASSUME LockInv, [Next]_vars PROVE LockInv'
  OBVIOUS
<1>1. locks \in SUBSET Lock /\ Live \in SUBSET locks
  BY DEF LockInv, TypeOK, Live
<1>2. ASSUME NEW h \in Holders, NEW s \in Scopes, NEW ttl \in Nat, Claim(h, s, ttl) PROVE LockInv'
  <2>1. told' \in SUBSET (Holders \X (1..MaxId)) /\ actor' = h
    <3>1. Overlapping(h, s) \in SUBSET Lock /\ {} \in SUBSET Lock
      BY <1>1 DEF Overlapping
    <3> QED BY <1>2, <3>1, ShownTyped DEF Claim, ClaimAgain, ClaimRefused, ClaimNew, Discloses
  <2>2. CASE ClaimAgain(h, s, ttl)
    <3>1. Held(h, s) \in SUBSET Live
      BY DEF Held, HeldBy
    <3>2. /\ locks' \in SUBSET Lock /\ lastId' \in 0..MaxId
          /\ IsFiniteSet(locks') /\ OneClaimEach' /\ WithinCaps'
      BY <2>2, <3>1, RefreshKeeps DEF ClaimAgain
    <3> QED BY <2>1, <3>2 DEF LockInv, TypeOK
  <2>3. CASE ClaimRefused(h, s)
    <3>1. /\ locks' \in SUBSET Lock /\ lastId' \in 0..MaxId
          /\ IsFiniteSet(locks') /\ OneClaimEach' /\ WithinCaps'
      BY <1>1, <2>3, DropKeeps DEF ClaimRefused
    <3> QED BY <2>1, <3>1 DEF LockInv, TypeOK
  <2>4. CASE ClaimNew(h, s, ttl)
    <3>1. /\ locks' \in SUBSET Lock /\ lastId' \in 0..MaxId
          /\ IsFiniteSet(locks') /\ OneClaimEach' /\ WithinCaps'
      BY <2>4, NewKeeps DEF ClaimNew
    <3> QED BY <2>1, <3>1 DEF LockInv, TypeOK
  <2> QED BY <1>2, <2>2, <2>3, <2>4 DEF Claim
<1>3. ASSUME NEW h \in Holders, NEW id \in 1..MaxId, NEW ttl \in Nat, Renew(h, id, ttl) PROVE LockInv'
  <2>1. Own(h, id) \in SUBSET Live
    BY DEF Own, HeldBy
  <2>2. /\ locks' \in SUBSET Lock /\ lastId' \in 0..MaxId
        /\ IsFiniteSet(locks') /\ OneClaimEach' /\ WithinCaps'
    BY <1>3, <2>1, RefreshKeeps DEF Renew
  <2>3. told' \in SUBSET (Holders \X (1..MaxId)) /\ actor' = h
    BY <1>3, ShownTyped DEF Renew
  <2> QED BY <2>2, <2>3 DEF LockInv, TypeOK
<1>4. ASSUME NEW h \in Holders, NEW id \in 1..MaxId, Release(h, id) PROVE LockInv'
  <2>1. /\ locks' \in SUBSET Lock /\ lastId' \in 0..MaxId
        /\ IsFiniteSet(locks') /\ OneClaimEach' /\ WithinCaps'
    BY <1>1, <1>4, DropKeeps DEF Release
  <2>2. told' \in SUBSET (Holders \X (1..MaxId)) /\ actor' = h
    BY <1>4, ShownTyped DEF Release
  <2> QED BY <2>1, <2>2 DEF LockInv, TypeOK
<1>5. ASSUME NEW h \in Holders, NEW ps \in SUBSET Paths, Consult(h, ps) PROVE LockInv'
  <2>1. /\ locks' \in SUBSET Lock /\ lastId' \in 0..MaxId
        /\ IsFiniteSet(locks') /\ OneClaimEach' /\ WithinCaps'
    BY <1>1, <1>5, DropKeeps DEF Consult
  <2>2. CoveringAny(h, ps) \in SUBSET Lock
    BY <1>1 DEF CoveringAny
  <2>3. told' \in SUBSET (Holders \X (1..MaxId)) /\ actor' = h
    BY <1>5, <2>2, ShownTyped DEF Consult
  <2> QED BY <2>1, <2>3 DEF LockInv, TypeOK
<1>6. ASSUME NEW h \in Holders, List(h) PROVE LockInv'
  <2>1. /\ locks' \in SUBSET Lock /\ lastId' \in 0..MaxId
        /\ IsFiniteSet(locks') /\ OneClaimEach' /\ WithinCaps'
    BY <1>1, <1>6, DropKeeps DEF List
  <2>2. told' \in SUBSET (Holders \X (1..MaxId)) /\ actor' = h
    BY <1>1, <1>6, ShownTyped DEF List
  <2> QED BY <2>1, <2>2 DEF LockInv, TypeOK
<1>7. CASE Tick
  <2> DEFINE f == [l \in locks |-> [l EXCEPT !.left = IF @ > 0 THEN @ - 1 ELSE 0]]
  <2>1. f \in [locks -> Lock]
    BY <1>1, LockAssumption DEF Lock
  <2>2. \A l \in locks : Same(f[l], l) /\ (f[l].left > 0 => l.left > 0)
    BY <1>1 DEF Lock, Same
  <2>3. locks' = {f[l] : l \in locks} /\ lastId' = lastId /\ told' = told /\ actor' = Clock
    BY <1>7 DEF Tick
  <2> HIDE DEF f
  <2>4. /\ locks' \in SUBSET Lock /\ lastId' \in 0..MaxId
        /\ IsFiniteSet(locks') /\ OneClaimEach' /\ WithinCaps'
    BY <2>1, <2>2, <2>3, Survivors
  <2> QED BY <2>3, <2>4 DEF LockInv, TypeOK
<1>8. CASE UNCHANGED vars
  BY <1>8 DEF vars, LockInv, TypeOK, OneClaimEach, WithinCaps, Live
<1>9. 0..TtlMax + 1 \in SUBSET Nat
  BY LockAssumption
<1> QED BY <1>2, <1>3, <1>4, <1>5, <1>6, <1>7, <1>8, <1>9 DEF Next

\* The inductive invariant of the store: types, uniqueness and caps together.
THEOREM LockInvAlways == Spec => []LockInv
BY LockInvInit, LockInvStep, PTL DEF Spec

\* The store's state keeps its types; in particular no claim outlives the
\* longest TTL, whatever ttl its holder asked for.
THEOREM LockTypeCorrect == Spec => []TypeOK
BY LockInvAlways, PTL DEF LockInv

\* One claim per id, and one live claim per holder and scope.
THEOREM ClaimsAreUnique == Spec => []OneClaimEach
BY LockInvAlways, PTL DEF LockInv

\* Neither cap is ever exceeded, whatever the caps are.
THEOREM CapsHold == Spec => []WithinCaps
BY LockInvAlways, PTL DEF LockInv
-----------------------------------------------------------------------------
\* Nobody's live claim is taken, changed or evicted by somebody else.
THEOREM ClaimsAreNeverTaken == Spec => NeverTaken
<1>1. LockInv /\ [Next]_vars =>
        [\A l \in Live :
           \/ l \in locks'
           \/ actor' = Clock /\ [l EXCEPT !.left = @ - 1] \in locks'
           \/ actor' = l.holder]_vars
  <2> SUFFICES ASSUME LockInv, Next, NEW l \in Live
               PROVE  \/ l \in locks'
                      \/ actor' = Clock /\ [l EXCEPT !.left = @ - 1] \in locks'
                      \/ actor' = l.holder
    OBVIOUS
  <2>1. ASSUME NEW h \in Holders, NEW s, NEW ttl, Claim(h, s, ttl) PROVE l \in locks' \/ actor' = l.holder
    BY <2>1 DEF Claim, ClaimAgain, ClaimRefused, ClaimNew, Held, HeldBy
  <2>2. ASSUME NEW h \in Holders, NEW id, NEW ttl, Renew(h, id, ttl) PROVE l \in locks' \/ actor' = l.holder
    BY <2>2 DEF Renew, Own, HeldBy
  <2>3. ASSUME NEW h \in Holders, NEW id, Release(h, id) PROVE l \in locks' \/ actor' = l.holder
    BY <2>3 DEF Release, Own, HeldBy
  <2>4. ASSUME NEW h \in Holders, NEW ps, Consult(h, ps) \/ List(h) PROVE l \in locks'
    BY <2>4 DEF Consult, List
  <2>5. CASE Tick
    <3>1. l \in locks /\ l.left > 0
      BY DEF Live
    <3>2. [l EXCEPT !.left = IF @ > 0 THEN @ - 1 ELSE 0] \in locks'
      BY <2>5, <3>1 DEF Tick
    <3>3. [l EXCEPT !.left = IF @ > 0 THEN @ - 1 ELSE 0] = [l EXCEPT !.left = @ - 1]
      BY <3>1
    <3> QED BY <2>5, <3>2, <3>3 DEF Tick
  <2> QED BY <2>1, <2>2, <2>3, <2>4, <2>5 DEF Next
<1> QED BY <1>1, LockInvAlways, PTL DEF Spec, NeverTaken
-----------------------------------------------------------------------------
\* What was disclosed stays known for as long as the claim stays.
LEMMA StillTold ==
  ASSUME NEW h, NEW ls, Shown(h, ls), NEW p \in told, \E l \in locks' : l.id = p[2]
  PROVE  p \in told'
BY DEF Shown, Kept

\* A step that brings no new claim and forgets nothing disclosed keeps
\* overlapping holders aware of each other.
LEMMA AwarenessKept ==
  ASSUME SomebodyKnows,
         \A l \in Live' : \E o \in Live : Same(l, o),
         \A p \in told : (\E l \in locks' : l.id = p[2]) => p \in told'
  PROVE  SomebodyKnows'
<1> SUFFICES ASSUME NEW l \in Live', NEW m \in Live', l.holder # m.holder,
                    ScopesOverlap(l.scope, m.scope)
             PROVE  <<l.holder, m.id>> \in told' \/ <<m.holder, l.id>> \in told'
  BY DEF SomebodyKnows
<1>1. PICK a \in Live : Same(l, a)
  OBVIOUS
<1>2. PICK b \in Live : Same(m, b)
  OBVIOUS
<1>3. l \in locks' /\ m \in locks'
  BY DEF Live
<1>4. <<l.holder, m.id>> \in told \/ <<m.holder, l.id>> \in told
  BY <1>1, <1>2 DEF SomebodyKnows, Same
<1> QED BY <1>3, <1>4

\* Every claim after a refresh was there before it, ages aside.
LEMMA RefreshedComeFrom ==
  ASSUME LockInv, NEW ls \in SUBSET Live, NEW ttl \in Nat,
         locks' = (Live \ ls) \union Refreshed(ls, ttl)
  PROVE  \A l \in Live' : \E o \in Live : Same(l, o)
<1>1. Live \in SUBSET Lock
  BY DEF LockInv, TypeOK, Live
<1>2. \A r \in Refreshed(ls, ttl) : \E o \in ls : Same(r, o)
  BY <1>1 DEF Refreshed, Lock, Same
<1>3. \A l \in Live' : l \in Live \/ l \in Refreshed(ls, ttl)
  BY DEF Live
<1> QED BY <1>2, <1>3 DEF Same

\* Whenever live claims of different holders overlap, one of the two holders has
\* been shown the other's claim: nobody works unknowingly beside an earlier claim.
THEOREM OverlapsAreKnown == Spec => []SomebodyKnows
<1>1. Init => SomebodyKnows
  BY DEF Init, SomebodyKnows, Live
<1>2. LockInv /\ SomebodyKnows /\ [Next]_vars => SomebodyKnows'
  <2> SUFFICES ASSUME LockInv, SomebodyKnows, [Next]_vars PROVE SomebodyKnows'
    OBVIOUS
  <2>1. Live \in SUBSET Lock
    BY DEF LockInv, TypeOK, Live
  <2>2. ASSUME NEW h \in Holders, NEW s \in Scopes, NEW ttl \in Nat, Claim(h, s, ttl) PROVE SomebodyKnows'
    <3>1. CASE ClaimAgain(h, s, ttl)
      <4>1. Held(h, s) \in SUBSET Live
        BY DEF Held, HeldBy
      <4>2. \A l \in Live' : \E o \in Live : Same(l, o)
        BY <3>1, <4>1, RefreshedComeFrom DEF ClaimAgain
      <4> QED BY <3>1, <4>2, StillTold, AwarenessKept DEF ClaimAgain, Discloses
    <3>2. CASE ClaimRefused(h, s)
      <4>1. \A l \in Live' : \E o \in Live : Same(l, o)
        BY <3>2 DEF ClaimRefused, Live, Same
      <4> QED BY <3>2, <4>1, StillTold, AwarenessKept DEF ClaimRefused
    <3>3. CASE ClaimNew(h, s, ttl)
      <4> DEFINE new == [id |-> lastId + 1, scope |-> s, holder |-> h, left |-> Clamped(ttl)]
      <4>1. locks' = Live \union {new} /\ new.holder = h /\ new.scope = s
        BY <3>3 DEF ClaimNew
      <4>2. Shown(h, Overlapping(h, s))
        BY <3>3 DEF ClaimNew, Discloses
      <4>3. ASSUME NEW m \in Live, m.holder # h, ScopesOverlap(m.scope, s) PROVE <<h, m.id>> \in told'
        BY <4>1, <4>2, <4>3 DEF Shown, Kept, Overlapping
      <4>4. \A a, b : ScopesOverlap(a, b) <=> ScopesOverlap(b, a)
        BY DEF ScopesOverlap
      <4>5. \A l, m \in Live : l.holder # m.holder /\ ScopesOverlap(l.scope, m.scope)
              => <<l.holder, m.id>> \in told' \/ <<m.holder, l.id>> \in told'
        <5>1. ASSUME NEW k, NEW m \in Live, <<k, m.id>> \in told PROVE <<k, m.id>> \in told'
          BY <4>1, <4>2, <5>1, StillTold
        <5> QED BY <5>1 DEF SomebodyKnows
      <4>6. \A l \in Live' : l = new \/ l \in Live
        BY <4>1 DEF Live
      <4> HIDE DEF new
      <4> QED BY <4>1, <4>3, <4>4, <4>5, <4>6 DEF SomebodyKnows
    <3> QED BY <2>2, <3>1, <3>2, <3>3 DEF Claim
  <2>3. ASSUME NEW h \in Holders, NEW id, NEW ttl \in Nat, Renew(h, id, ttl) PROVE SomebodyKnows'
    <3>1. Own(h, id) \in SUBSET Live
      BY DEF Own, HeldBy
    <3>2. \A l \in Live' : \E o \in Live : Same(l, o)
      BY <2>3, <3>1, RefreshedComeFrom DEF Renew
    <3> QED BY <2>3, <3>2, StillTold, AwarenessKept DEF Renew
  <2>4. ASSUME NEW h \in Holders, NEW id, Release(h, id) PROVE SomebodyKnows'
    <3>1. \A l \in Live' : \E o \in Live : Same(l, o)
      BY <2>4 DEF Release, Live, Same
    <3> QED BY <2>4, <3>1, StillTold, AwarenessKept DEF Release
  <2>5. ASSUME NEW h \in Holders, NEW ps, Consult(h, ps) \/ List(h) PROVE SomebodyKnows'
    <3>1. \A l \in Live' : \E o \in Live : Same(l, o)
      BY <2>5 DEF Consult, List, Live, Same
    <3> QED BY <2>5, <3>1, StillTold, AwarenessKept DEF Consult, List
  <2>6. CASE Tick
    <3>1. \A l \in locks : l \in Lock
      BY DEF LockInv, TypeOK
    <3>2. ASSUME NEW l \in Live' PROVE \E o \in Live : Same(l, o)
      <4>1. PICK o \in locks : l = [o EXCEPT !.left = IF @ > 0 THEN @ - 1 ELSE 0]
        BY <2>6 DEF Tick, Live
      <4>2. Same(l, o) /\ o.left > 0
        BY <3>1, <4>1 DEF Lock, Live, Same
      <4> QED BY <4>2 DEF Live
    <3> QED BY <2>6, <3>2, AwarenessKept DEF Tick
  <2>7. CASE UNCHANGED vars
    BY <2>7 DEF vars, SomebodyKnows, Live
  <2>8. 0..TtlMax + 1 \in SUBSET Nat
    BY LockAssumption
  <2> QED BY <2>2, <2>3, <2>4, <2>5, <2>6, <2>7, <2>8 DEF Next
<1> QED BY <1>1, <1>2, LockInvAlways, PTL DEF Spec
=============================================================================
