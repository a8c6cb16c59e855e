--------------------------- MODULE FailoverProofs ---------------------------
(***************************************************************************)
(* The server front for any number of backends and runs.                   *)
(*                                                                         *)
(* Three inductive invariants, one per concern: the counter against the    *)
(* processes, the session table while Obsidian is away, and the watcher.   *)
(***************************************************************************)
EXTENDS Failover, FiniteSetTheorems, TLAPS

\* The counter and the processes: nothing is torn down or in the table that
\* was not spawned.
CountInv ==
  /\ TypeOK
  /\ torndown \subseteq Spawned /\ sessions \subseteq Spawned
  /\ NeverOverstated /\ MissesOnlyForgotten

\* Going down leaves every backend spawned so far torn down or forgotten.
DownInv ==
  /\ sessions \subseteq Spawned
  /\ ~cached => Spawned \subseteq torndown \union forgotten

\* In LIVE mode ready() is armed; as long as no stop() met a run under way there
\* is at most the one run of readyPromise, and no watcher but its own.
WatchInv ==
  /\ cached => readyRun = NoRun
  /\ \A r \in watching : r \in Runs /\ run[r] \in {"attaching", "done"}
  /\ strays = {} =>
       /\ UnderWay \subseteq {readyRun}
       /\ readyRun = NoRun => watching = {}
       /\ UnderWay # {} => watching \subseteq UnderWay
       /\ watching \subseteq UnderWay \union {watcher}

\* Sets of backends are finite.
LEMMA Sizes ==
  \A S \in SUBSET Backends : IsFiniteSet(S) /\ Cardinality(S) \in Nat
BY ProxyAssumption, FS_Subset, FS_CardinalityType DEF ProxyAssumption

\* Tearing down any set of spawned backends keeps the table and the count right.
LEMMA TearDownKeeps ==
  ASSUME CountInv, NEW S \in SUBSET Spawned, TearDown(S),
         UNCHANGED <<stage, forgotten>>
  PROVE  /\ PTypeOK'
         /\ (torndown \subseteq Spawned)' /\ (sessions \subseteq Spawned)'
         /\ NeverOverstated' /\ MissesOnlyForgotten'
<1> DEFINE T == S \ torndown
<1>1. /\ T \in SUBSET Backends /\ T \subseteq Alive /\ Alive \in SUBSET Backends
      /\ Spawned' = Spawned /\ Alive' = Alive \ T
  BY DEF Spawned, Alive, TearDown
<1>2. /\ Cardinality(T) \in Nat /\ Cardinality(Alive) \in Nat /\ Cardinality(Alive') \in Nat
      /\ Cardinality(forgotten) \in Nat
      /\ IsFiniteSet(Alive)
  BY <1>1, Sizes DEF CountInv, TypeOK, PTypeOK
<1>3. Cardinality(Alive') = Cardinality(Alive) - Cardinality(T)
  <2>1. Alive \intersect T = T
    BY <1>1
  <2>2. Cardinality(Alive \ T) = Cardinality(Alive) - Cardinality(Alive \intersect T)
    BY <1>2, FS_Difference
  <2>3. Cardinality(Alive') = Cardinality(Alive \ T)
    BY <1>1
  <2> HIDE DEF T
  <2> QED BY <2>1, <2>2, <2>3
<1>4. liveBackends \in 0..MaxSessions /\ MaxSessions \in Nat
      /\ liveBackends <= Cardinality(Alive)
      /\ Cardinality(Alive) <= liveBackends + Cardinality(forgotten)
  BY ProxyAssumption DEF ProxyAssumption, CountInv, TypeOK, PTypeOK, NeverOverstated,
     MissesOnlyForgotten
<1>5. liveBackends' = IF liveBackends - Cardinality(T) < 0
                      THEN 0 ELSE liveBackends - Cardinality(T)
  BY DEF TearDown, Floored
<1>6. /\ liveBackends' \in 0..MaxSessions
      /\ NeverOverstated' /\ MissesOnlyForgotten'
  BY <1>2, <1>3, <1>4, <1>5 DEF NeverOverstated, MissesOnlyForgotten
<1> QED BY <1>1, <1>6 DEF CountInv, TypeOK, PTypeOK, TearDown

\* One more backend, or all sessions gone: the two steps that do not tear down
\* by the closure alone.
LEMMA OpenKeeps ==
  ASSUME CountInv, NEW b \in Backends, OpenSession(b)
  PROVE  /\ PTypeOK'
         /\ (torndown \subseteq Spawned)' /\ (sessions \subseteq Spawned)'
         /\ NeverOverstated' /\ MissesOnlyForgotten'
<1>1. /\ b \notin Spawned /\ Spawned' = Spawned \union {b}
      /\ b \notin Alive /\ Alive' = Alive \union {b}
      /\ Alive \in SUBSET Backends /\ Alive' \in SUBSET Backends
  BY DEF CountInv, TypeOK, PTypeOK, OpenSession, Spawned, Alive
<1>2. /\ IsFiniteSet(Alive) /\ Cardinality(Alive) \in Nat
      /\ Cardinality(forgotten) \in Nat
  BY <1>1, Sizes DEF CountInv, TypeOK, PTypeOK
<1>3. Cardinality(Alive') = Cardinality(Alive) + 1
  BY <1>1, <1>2, FS_AddElement
<1>4. PTypeOK'
  BY ProxyAssumption DEF ProxyAssumption, CountInv, TypeOK, PTypeOK, OpenSession, Stages
<1>5. NeverOverstated' /\ MissesOnlyForgotten'
  BY <1>2, <1>3 DEF CountInv, TypeOK, PTypeOK, OpenSession, NeverOverstated, MissesOnlyForgotten
<1> QED BY <1>1, <1>4, <1>5 DEF CountInv, OpenSession

\* teardownAll empties the table and leaves the count at zero.
LEMMA TeardownAllKeeps ==
  ASSUME CountInv, TeardownAll
  PROVE  /\ PTypeOK'
         /\ (torndown \subseteq Spawned)' /\ (sessions \subseteq Spawned)'
         /\ NeverOverstated' /\ MissesOnlyForgotten'
<1>1. /\ Spawned' = Spawned /\ Alive' = Alive \ sessions
      /\ Alive' \subseteq forgotten'
      /\ Alive' \in SUBSET Backends /\ forgotten' \in SUBSET Backends
  BY DEF CountInv, TypeOK, PTypeOK, TeardownAll, Spawned, Alive
<1>2. /\ Cardinality(Alive') \in Nat /\ Cardinality(forgotten') \in Nat
      /\ Cardinality(Alive') <= Cardinality(forgotten')
  BY <1>1, Sizes, FS_Subset
<1>3. PTypeOK' /\ liveBackends' = 0
  BY <1>1, ProxyAssumption DEF ProxyAssumption, CountInv, TypeOK, PTypeOK, TeardownAll
<1>4. NeverOverstated' /\ MissesOnlyForgotten'
  BY <1>2, <1>3 DEF NeverOverstated, MissesOnlyForgotten
<1> QED BY <1>1, <1>3, <1>4 DEF CountInv, TeardownAll

\* A step that only moves makeSession on, or nothing of the proxy.
LEMMA StageKeeps ==
  ASSUME CountInv, Spawned' = Spawned, stage' \in [Backends -> Stages],
         sessions' \subseteq Spawned, UNCHANGED <<torndown, liveBackends, forgotten>>
  PROVE  /\ PTypeOK'
         /\ (torndown \subseteq Spawned)' /\ (sessions \subseteq Spawned)'
         /\ NeverOverstated' /\ MissesOnlyForgotten'
<1>1. Alive' = Alive /\ Spawned \subseteq Backends
  BY DEF Alive, Spawned
<1> QED BY <1>1 DEF CountInv, TypeOK, PTypeOK, NeverOverstated, MissesOnlyForgotten

\* What every step preserves of the proxy, whoever takes it.
LEMMA ProxyKeeps ==
  ASSUME CountInv,
         \/ \E b \in Backends : OpenSession(b)
         \/ ProxyStep \/ TeardownAll \/ UNCHANGED pvars
  PROVE  /\ PTypeOK'
         /\ (torndown \subseteq Spawned)' /\ (sessions \subseteq Spawned)'
         /\ NeverOverstated' /\ MissesOnlyForgotten'
<1>1. ASSUME NEW b \in Backends, Register(b) \/ OpenFails(b)
      PROVE  /\ Spawned' = Spawned /\ stage' \in [Backends -> Stages]
             /\ sessions' \subseteq Spawned /\ UNCHANGED <<torndown, liveBackends, forgotten>>
  BY <1>1 DEF CountInv, TypeOK, PTypeOK, Stages, Spawned, Register, OpenFails
<1>2. ASSUME NEW b \in Backends, Closes(b) \/ InitTimerFires(b)
      PROVE  {b} \in SUBSET Spawned /\ TearDown({b}) /\ UNCHANGED <<stage, forgotten>>
  BY <1>2 DEF Closes, InitTimerFires, Alive
<1>3. ASSUME NEW S \in SUBSET sessions, Reap(S)
      PROVE  S \in SUBSET Spawned /\ TearDown(S) /\ UNCHANGED <<stage, forgotten>>
  BY <1>3 DEF Reap, CountInv
<1>4. CASE UNCHANGED pvars
  BY <1>4, StageKeeps DEF pvars, CountInv, TypeOK, PTypeOK, Spawned
<1> QED
  BY <1>1, <1>2, <1>3, <1>4, StageKeeps, TearDownKeeps, OpenKeeps, TeardownAllKeeps
  DEF ProxyStep

\* ready and stop keep the types of the fs-mode handler.
LEMMA FsTypes ==
  ASSUME FTypeOK, Ready \/ Stop \/ FsStep \/ UNCHANGED fvars
  PROVE  FTypeOK'
<1>1. CASE Ready BY <1>1 DEF Ready, Begins, FTypeOK, RunStates, fvars
<1>2. CASE Stop BY <1>2 DEF Stop, FTypeOK, UnderWay
<1>3. CASE FsStep BY <1>3 DEF FsStep, IndexBuilt, Attached, FTypeOK, RunStates
<1>4. CASE UNCHANGED fvars BY <1>4 DEF fvars, FTypeOK
<1> QED BY <1>1, <1>2, <1>3, <1>4

\* Each step of the front is a step of each of its parts.
LEMMA StepParts ==
  ASSUME [Next]_vars
  PROVE  /\ \/ \E b \in Backends : OpenSession(b)
            \/ ProxyStep \/ TeardownAll \/ UNCHANGED pvars
         /\ Ready \/ Stop \/ FsStep \/ UNCHANGED fvars
<1>1. CASE PollConnects \/ PollFails \/ PollFindsNoSocket
  BY <1>1 DEF PollConnects, PollFails, PollFindsNoSocket, GoesUp, GoesDown, NoChange
<1>2. CASE FsRequest \/ \E b \in Backends : LiveRequest(b)
  BY <1>2 DEF FsRequest, LiveRequest
<1>3. CASE UNCHANGED vars
  BY <1>3 DEF vars
<1> QED BY <1>1, <1>2, <1>3 DEF Next

\* The bookkeeping of the proxy holds at start.
LEMMA CountInvInit == Init => CountInv
<1> SUFFICES ASSUME Init PROVE CountInv
  OBVIOUS
<1>1. Spawned = {} /\ Alive = {} /\ Cardinality({}) = 0
  BY FS_EmptySet DEF Init, PInit, Spawned, Alive
<1>2. /\ cached \in BOOLEAN
      /\ failures \in 0..2
  <2>1. cached \in BOOLEAN
    BY DEF Init
  <2>2. failures \in 0..2
    BY DEF Init
  <2> QED BY <2>1, <2>2
<1>3. PTypeOK /\ liveBackends = 0 /\ torndown = {} /\ sessions = {} /\ forgotten = {}
  BY ProxyAssumption DEF ProxyAssumption, Init, PInit, PTypeOK, Stages
<1>4. FTypeOK
  BY DEF Init, FInit, FTypeOK, RunStates
<1>5. NeverOverstated /\ MissesOnlyForgotten
  BY <1>1, <1>3 DEF NeverOverstated, MissesOnlyForgotten
<1> QED BY <1>2, <1>3, <1>4, <1>5 DEF CountInv, TypeOK

\* One step of the front keeps the proxy's bookkeeping.
LEMMA CountInvStep == CountInv /\ [Next]_vars => CountInv'
<1> SUFFICES ASSUME CountInv, [Next]_vars PROVE CountInv'
  OBVIOUS
<1>1. cached' \in BOOLEAN /\ failures' \in 0..2
  <2> USE DEF CountInv, TypeOK
  <2>1. CASE PollConnects \/ PollFails \/ PollFindsNoSocket
    <3>1. failures' \in 0..2
      BY <2>1 DEF PollConnects, PollFails, PollFindsNoSocket
    <3>2. cached' \in {TRUE, FALSE, cached}
      BY <2>1 DEF PollConnects, PollFails, PollFindsNoSocket, GoesUp, GoesDown, NoChange
    <3> QED BY <3>1, <3>2
  <2>2. CASE UNCHANGED <<cached, failures>>
    BY <2>2
  <2> QED BY <2>1, <2>2 DEF Next, vars, LiveRequest, FsRequest
<1>2. FTypeOK'
  BY StepParts, FsTypes DEF CountInv, TypeOK
<1> QED BY <1>1, <1>2, StepParts, ProxyKeeps DEF CountInv, TypeOK

\* The proxy's bookkeeping always holds.
LEMMA CountInvAlways == Spec => []CountInv
BY CountInvInit, CountInvStep, PTL DEF Spec

\* Every variable keeps its range: the counter stays within 0..maxSessions even
\* when a backend forgotten by teardownAll is torn down after it.
THEOREM FailoverTypeCorrect == Spec => []TypeOK
BY CountInvAlways, PTL DEF CountInv

\* No capacity is leaked, whatever closes, fails, is reaped or torn down.
THEOREM CapacityNotLeaked == Spec => []NeverOverstated
BY CountInvAlways, PTL DEF CountInv

\* The counter misses no process but those left behind by teardownAll.
THEOREM CountMissesOnlyForgotten == Spec => []MissesOnlyForgotten
BY CountInvAlways, PTL DEF CountInv

\* Going down overlooks no backend: each is torn down or one it forgot.
LEMMA DownInvStep == PTypeOK /\ DownInv /\ [Next]_vars => DownInv'
<1> SUFFICES ASSUME PTypeOK, DownInv, [Next]_vars PROVE DownInv'
  OBVIOUS
<1> USE DEF DownInv, Spawned
<1>1. CASE GoesDown
  BY <1>1 DEF GoesDown, TeardownAll, Alive
<1>2. CASE GoesUp
  BY <1>2 DEF GoesUp, pvars
<1>3. ASSUME NEW b \in Backends, LiveRequest(b) PROVE DownInv'
  BY <1>3 DEF LiveRequest, OpenSession
<1>4. CASE ProxyStep /\ UNCHANGED cached
  <2>1. ASSUME NEW S \in SUBSET Backends, TearDown(S), UNCHANGED <<stage, forgotten>>
        PROVE  DownInv'
    BY <1>4, <2>1 DEF TearDown
  <2>2. ASSUME NEW b \in Backends, Register(b) \/ OpenFails(b) PROVE DownInv'
    BY <1>4, <2>2 DEF Register, OpenFails, PTypeOK, Stages
  <2> QED BY <1>4, <2>1, <2>2 DEF ProxyStep, Closes, InitTimerFires, Reap
<1>5. CASE UNCHANGED <<cached, pvars>>
  BY <1>5 DEF pvars
<1> QED
  BY <1>1, <1>2, <1>3, <1>4, <1>5
  DEF Next, vars, PollConnects, PollFails, PollFindsNoSocket, NoChange, FsRequest

\* A session in the table while Obsidian is away was torn down before it
\* registered, or its initialize was overlooked by teardownAll.
THEOREM NothingElseWhileDown == Spec => []SessionsWhileDown
<1>1. Init => DownInv
  BY DEF Init, PInit, DownInv, Spawned
<1>2. DownInv => SessionsWhileDown
  BY DEF DownInv, SessionsWhileDown
<1>3. CountInv => PTypeOK
  BY DEF CountInv, TypeOK
<1> QED BY <1>1, <1>2, <1>3, DownInvStep, CountInvAlways, PTL DEF Spec

\* One step per thing that can happen to a run or a watcher.
LEMMA WatchInvStep == FTypeOK /\ WatchInv /\ [Next]_vars => WatchInv'
<1> SUFFICES ASSUME FTypeOK, WatchInv, [Next]_vars PROVE WatchInv'
  OBVIOUS
<1> USE FsAssumption DEF FsAssumption, FTypeOK, WatchInv, UnderWay
<1>1. CASE Ready /\ cached' = FALSE
  BY <1>1 DEF Ready, Begins, fvars
<1>2. CASE Stop
  BY <1>2 DEF Stop
<1>3. ASSUME NEW r \in Runs, IndexBuilt(r), cached' = cached PROVE WatchInv'
  <2>1. CASE run' = [run EXCEPT ![r] = "attaching"] /\ watching' = watching \union {r}
    BY <1>3, <2>1 DEF IndexBuilt
  <2>2. CASE run' = [run EXCEPT ![r] = "done"] /\ UNCHANGED watching
    BY <1>3, <2>2 DEF IndexBuilt
  <2> QED BY <1>3, <2>1, <2>2 DEF IndexBuilt
<1>4. ASSUME NEW r \in Runs, Attached(r), cached' = cached PROVE WatchInv'
  BY <1>4 DEF Attached
<1>5. CASE UNCHANGED <<cached, fvars>>
  BY <1>5 DEF fvars
<1>6. ASSUME FsStep, cached' = cached PROVE WatchInv'
  BY <1>3, <1>4, <1>6 DEF FsStep
<1> HIDE DEF WatchInv, FTypeOK, UnderWay
<1>7. CASE PollConnects \/ PollFails \/ PollFindsNoSocket
  BY <1>1, <1>2, <1>5, <1>7
  DEF PollConnects, PollFails, PollFindsNoSocket, GoesUp, GoesDown, NoChange
<1>8. CASE FsRequest
  BY <1>1, <1>8 DEF FsRequest, WatchInv, Ready, Begins, fvars, FTypeOK, UnderWay
<1>9. CASE ProxyStep /\ UNCHANGED <<fvars, cached, failures>>
  BY <1>5, <1>9
<1>10. CASE FsStep /\ UNCHANGED <<pvars, cached, failures>>
  BY <1>6, <1>10
<1>11. ASSUME NEW b \in Backends, LiveRequest(b) PROVE WatchInv'
  BY <1>5, <1>11 DEF LiveRequest
<1>12. CASE UNCHANGED vars
  BY <1>5, <1>12 DEF vars
<1> QED BY <1>7, <1>8, <1>9, <1>10, <1>11, <1>12 DEF Next

\* Unless a stop() met a run under way, no watcher is open but the one stop()
\* will find, and none in LIVE mode.
THEOREM CleanStopsSilence == Spec => []CleanStopsCloseWatchers
<1>1. Init => WatchInv
  BY DEF Init, FInit, WatchInv, UnderWay
<1>2. CountInv => FTypeOK
  BY DEF CountInv, TypeOK
<1>3. WatchInv => CleanStopsCloseWatchers
  BY DEF WatchInv, CleanStopsCloseWatchers, UnderWay
<1> QED BY <1>1, <1>2, <1>3, WatchInvStep, CountInvAlways, PTL DEF Spec
=============================================================================
