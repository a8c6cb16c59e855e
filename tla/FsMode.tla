------------------------------- MODULE FsMode -------------------------------
(***************************************************************************)
(* The index and vault watcher behind FS-fallback mode, createFsHandler in *)
(* packages/server/src/fs-mode.ts.  ready() starts one asynchronous run,   *)
(* which builds the index and then a watcher; stop() re-arms ready() and   *)
(* closes the watcher it finds, which a run still under way has not yet    *)
(* left where stop() looks.                                                *)
(***************************************************************************)
EXTENDS FiniteSets

CONSTANTS
  Runs,   \* bound: runs of the function behind readyPromise
  NoRun   \* readyPromise === null, watcher === null

ASSUME FsAssumption == NoRun \notin Runs

VARIABLES
  readyRun,  \* readyPromise, as the run it is the promise of
  run,       \* where each run stands, see RunStates
  watcher,   \* the watcher handle, as the run that stored it
  watching,  \* runs whose file watcher is open
  strays     \* runs that were under way at some stop() (history)

fvars == <<readyRun, run, watcher, watching, strays>>

\* "attaching": startVaultWatcher has opened the watcher and awaits its ready
\* event; the handle is stored only then.
RunStates == {"none", "building", "attaching", "done"}

FTypeOK ==
  /\ readyRun \in Runs \union {NoRun}
  /\ run \in [Runs -> RunStates]
  /\ watcher \in Runs \union {NoRun}
  /\ watching \in SUBSET Runs
  /\ strays \in SUBSET Runs

FInit ==
  /\ readyRun = NoRun
  /\ run = [r \in Runs |-> "none"]
  /\ watcher = NoRun
  /\ watching = {}
  /\ strays = {}

UnderWay == {r \in Runs : run[r] \in {"building", "attaching"}}

Begins(r) ==
  /\ run[r] = "none"
  /\ readyRun' = r
  /\ run' = [run EXCEPT ![r] = "building"]
  /\ UNCHANGED <<watcher, watching, strays>>

\* Seeded fault: every call starts a run.
ReadyEachTime == \E r \in Runs : Begins(r)

\* ready(): the run there is, or a new one.
Ready ==
  \/ readyRun # NoRun /\ UNCHANGED fvars
  \/ readyRun = NoRun /\ \E r \in Runs : Begins(r)

\* buildIndex() settled: with the index not ready, or no watcher to be had, the
\* run ends there.
IndexBuilt(r) ==
  /\ run[r] = "building"
  /\ \/ run' = [run EXCEPT ![r] = "attaching"] /\ watching' = watching \union {r}
     \/ run' = [run EXCEPT ![r] = "done"] /\ UNCHANGED watching
  /\ UNCHANGED <<readyRun, watcher, strays>>

Attached(r) ==
  /\ run[r] = "attaching"
  /\ run' = [run EXCEPT ![r] = "done"]
  /\ watcher' = r
  /\ UNCHANGED <<readyRun, watching, strays>>

\* stop().  w.stop() marks the watcher stopped at once; closing it follows.
Stop ==
  /\ readyRun' = NoRun
  /\ watcher' = NoRun
  /\ watching' = watching \ {watcher}
  /\ strays' = strays \union UnderWay
  /\ UNCHANGED run

FsStep == \E r \in Runs : IndexBuilt(r) \/ Attached(r)
=============================================================================
