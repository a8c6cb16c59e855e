------------------------------ MODULE Failover ------------------------------
(***************************************************************************)
(* The server front: the presence monitor (packages/server/src/presence.ts)*)
(* decides whether Obsidian is there, each request is routed on that       *)
(* answer, and a change of it tears one mode down and starts the other     *)
(* (front.ts wireFailover).                                                *)
(*                                                                         *)
(* A poll awaits its probe up to 250 ms, the interval and the directory    *)
(* watch start polls independently, so the order of their answers is free: *)
(* an answer here is any of the three a probe can end with, at any time.   *)
(***************************************************************************)
EXTENDS LiveProxy, FsMode

VARIABLES
  cached,   \* the monitor's last word: Obsidian is reachable
  failures  \* consecutiveConnectFailures, capped where it is tested

vars == <<pvars, fvars, cached, failures>>

TypeOK ==
  /\ PTypeOK
  /\ FTypeOK
  /\ cached \in BOOLEAN
  /\ failures \in 0..2

Init ==
  /\ PInit
  /\ FInit
  /\ cached = FALSE
  /\ failures = 0

\* The "up" and "down" listeners run inside emit, in the same step.  Notifying
\* the open sessions of the new tool list changes no state.
GoesUp == cached' = TRUE /\ Stop /\ UNCHANGED pvars
GoesDown == cached' = FALSE /\ TeardownAll /\ Ready

NoChange == UNCHANGED <<cached, pvars, fvars>>

PollConnects ==
  /\ failures' = 0
  /\ \/ ~cached /\ GoesUp
     \/ cached /\ NoChange

\* The socket file is there but nobody answers: two in a row mean gone.
PollFails ==
  /\ failures' = IF failures = 2 THEN 2 ELSE failures + 1
  /\ \/ cached /\ failures >= 1 /\ GoesDown
     \/ (~cached \/ failures = 0) /\ NoChange

\* The socket file is gone.
PollFindsNoSocket ==
  /\ failures' = 0
  /\ \/ cached /\ GoesDown
     \/ ~cached /\ NoChange

\* Seeded fault: a request without a session is opened in either mode.
LiveRequestAnyway(b) ==
  /\ OpenSession(b)
  /\ UNCHANGED <<fvars, cached, failures>>

\* A request is routed by isLive() at the moment it arrives.
LiveRequest(b) ==
  /\ cached
  /\ OpenSession(b)
  /\ UNCHANGED <<fvars, cached, failures>>

FsRequest ==
  /\ ~cached
  /\ Ready
  /\ UNCHANGED <<pvars, cached, failures>>

Next ==
  \/ PollConnects \/ PollFails \/ PollFindsNoSocket
  \/ \E b \in Backends : LiveRequest(b)
  \/ FsRequest
  \/ ProxyStep /\ UNCHANGED <<fvars, cached, failures>>
  \/ FsStep /\ UNCHANGED <<pvars, cached, failures>>

Spec == Init /\ [][Next]_vars

\* While Obsidian is away a session in the table is one torn down before it
\* registered, or one whose initialize teardownAll overlooked: going down
\* leaves nothing else behind, and nothing new is opened (front.ts 102, 154).
SessionsWhileDown == ~cached => sessions \subseteq (torndown \union forgotten)

\* As long as no stop() met a run under way, the only file watcher open is the
\* one stop() will find or one still being attached, and none is open in LIVE
\* mode.  A run that stop() met may store its handle over a newer run's, whose
\* watcher then stays open as well (fs-mode.ts 346-387).
CleanStopsCloseWatchers ==
  strays = {} =>
    \A r \in watching : ~cached /\ (r = watcher \/ (r = readyRun /\ r \in UnderWay))
=============================================================================
