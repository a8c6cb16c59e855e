----------------------------- MODULE LiveProxy -----------------------------
(***************************************************************************)
(* The server's LIVE-mode session table, packages/server/src/live-proxy.ts *)
(* One bridge process (a "backend") is spawned per MCP session; the table  *)
(* counts them to stay below maxSessions.                                  *)
(*                                                                         *)
(* makeSession awaits the backend's start and then the transport's answer  *)
(* to the initialize request, so a close, a timer or a teardownAll may     *)
(* come between its steps: after either await the code goes on without     *)
(* looking at torndown, and the transport of the SDK, which keeps no       *)
(* closed flag, still registers the session it is asked to initialize.     *)
(***************************************************************************)
EXTENDS Integers, FiniteSets

CONSTANTS
  Backends,     \* bridge processes, each spawned at most once
  MaxSessions   \* maxSessions

ASSUME ProxyAssumption == IsFiniteSet(Backends) /\ MaxSessions \in Nat \ {0}

VARIABLES
  stage,         \* how far makeSession got with each backend, see Stages
  torndown,      \* backends whose teardown closure has run
  sessions,      \* keys of the sessions map, each named by its backend
  liveBackends,  \* the counter
  forgotten      \* backends a teardownAll left alive (history)

pvars == <<stage, torndown, sessions, liveBackends, forgotten>>

\* "stuck": start() rejected or the initialize was refused; the orphan timer,
\* armed until the session is initialized, is left to end it.
Stages == {"none", "initializing", "stuck", "initialized"}

PTypeOK ==
  /\ stage \in [Backends -> Stages]
  /\ torndown \in SUBSET Backends
  /\ sessions \in SUBSET Backends
  /\ liveBackends \in 0..MaxSessions
  /\ forgotten \in SUBSET Backends

PInit ==
  /\ stage = [b \in Backends |-> "none"]
  /\ torndown = {}
  /\ sessions = {}
  /\ liveBackends = 0
  /\ forgotten = {}

Spawned == {b \in Backends : stage[b] # "none"}
\* The processes there really are: spawned, and not told to close.
Alive == Spawned \ torndown

Floored(n) == IF n < 0 THEN 0 ELSE n

\* Seeded fault: only a registered session is counted off.
TearDownRegistered(S) ==
  LET T == S \ torndown
  IN  /\ torndown' = torndown \union T
      /\ liveBackends' = Floored(liveBackends - Cardinality(T \intersect sessions))
      /\ sessions' = sessions \ T

\* Seeded fault: teardown without its torndown guard.
TearDownAgain(S) ==
  /\ torndown' = torndown \union S
  /\ liveBackends' = Floored(liveBackends - Cardinality(S))
  /\ sessions' = sessions \ S

\* teardown() of every backend in S; a no-op for one torn down before, whose
\* entry, if it registered since, stays in the map.
TearDown(S) ==
  LET T == S \ torndown
  IN  /\ torndown' = torndown \union T
      /\ liveBackends' = Floored(liveBackends - Cardinality(T))
      /\ sessions' = sessions \ T

\* An initialize request without a session id, below the bound.
OpenSession(b) ==
  /\ stage[b] = "none"
  /\ liveBackends < MaxSessions
  /\ stage' = [stage EXCEPT ![b] = "initializing"]
  /\ liveBackends' = liveBackends + 1
  /\ UNCHANGED <<torndown, sessions, forgotten>>

\* onsessioninitialized.
Register(b) ==
  /\ stage[b] = "initializing"
  /\ stage' = [stage EXCEPT ![b] = "initialized"]
  /\ sessions' = sessions \union {b}
  /\ UNCHANGED <<torndown, liveBackends, forgotten>>

\* backend.start() or handleRequest fails, answered with a 503 or by the SDK.
OpenFails(b) ==
  /\ stage[b] = "initializing"
  /\ stage' = [stage EXCEPT ![b] = "stuck"]
  /\ UNCHANGED <<torndown, sessions, liveBackends, forgotten>>

\* backend.onclose or http.onclose: the bridge exits, the client disconnects.
Closes(b) ==
  /\ b \in Alive
  /\ TearDown({b})
  /\ UNCHANGED <<stage, forgotten>>

\* The PENDING_INIT_MS timer.
InitTimerFires(b) ==
  /\ stage[b] \in {"initializing", "stuck"}
  /\ b \in Alive
  /\ TearDown({b})
  /\ UNCHANGED <<stage, forgotten>>

\* The reaper's pass over the map, the sessions in idle being past idleMs.
Reap(idle) ==
  /\ TearDown(idle)
  /\ UNCHANGED <<stage, forgotten>>

TeardownAll ==
  /\ torndown' = torndown \union sessions
  /\ sessions' = {}
  /\ liveBackends' = 0
  /\ forgotten' = forgotten \union (Alive \ sessions)
  /\ UNCHANGED stage

ProxyStep ==
  \/ \E b \in Backends :
       Register(b) \/ OpenFails(b) \/ Closes(b) \/ InitTimerFires(b)
  \/ \E idle \in SUBSET sessions : Reap(idle)

\* The counter never counts a process that is gone: capacity is not leaked, so
\* a client turned away with 503 is turned away for MaxSessions real processes
\* (route 242, the torndown guard 179 and the clamp 182).
NeverOverstated == liveBackends <= Cardinality(Alive)

\* It misses at most the processes that a teardownAll left behind: without one
\* the bound is exact, however closes, timers, reaps and late registrations
\* interleave (177-188, 215-222, 255-263).
MissesOnlyForgotten ==
  Cardinality(Alive) <= liveBackends + Cardinality(forgotten)
=============================================================================
