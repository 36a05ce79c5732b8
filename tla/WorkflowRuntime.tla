--------------------------- MODULE WorkflowRuntime ---------------------------
(***************************************************************************)
(* The workflow runtime and those who use it.  The stage runner works on a *)
(* run of the SQLite runtime, which alone can record a failure             *)
(* (StageRunner).  The control plane and the contract tests call the port, *)
(* on any runs and over either implementation (RuntimeAdapters).  Calls on *)
(* different runs commute, so that a behaviour is about one of the two.    *)
(***************************************************************************)
EXTENDS StageRunner

CONSTANTS
  Projects, Keys,   \* a request of the port
  Effects,          \* side-effect keys
  MaxEvents,        \* bound: events the port's calls may record
  MaxStrayed        \* bound: runs given a checkpoint before they start

ASSUME NoRunAssumption ==
  NULL \notin [project : Projects, key : Keys] \cup Projects

VARIABLES
  client,           \* whose calls the behaviour is about
  runs, checkpoints, memoryAnswer, runRows, eventRows, checkpointRows,
  sqliteAnswer, asked, strayed, reader, watcher

Adapters == INSTANCE RuntimeAdapters

adapterVars ==
  <<runs, checkpoints, memoryAnswer, runRows, eventRows, checkpointRows,
    sqliteAnswer, asked, strayed, reader, watcher>>

RuntimeInit ==
  /\ Init /\ Adapters!Init
  /\ client \in {"stage runner", "port"}

RunStages == client = "stage runner" /\ Next /\ UNCHANGED adapterVars

CallPort == client = "port" /\ Adapters!Next /\ UNCHANGED vars

RuntimeNext == (RunStages \/ CallPort) /\ UNCHANGED client

RuntimeSpec ==
  /\ RuntimeInit /\ [][RuntimeNext]_<<vars, adapterVars, client>>
  /\ \A w \in Workers : WF_vars(WorkerStep(w))

----------------------------------------------------------------------------
(* Properties *)

\* The two runtimes answer alike, except on a run that was given a checkpoint
\* before it was started (RuntimeAdapters).
AdaptersAgree == Adapters!AdaptersAgree

\* A poll with the last number seen brings what is new (RuntimeAdapters).
PollsMissNothing == Adapters!PollsMissNothing

\* Also one number for all runs of a project is enough (RuntimeAdapters).
ProjectPollsMissNothing == Adapters!ProjectPollsMissNothing
=============================================================================
