---------------------------- MODULE RuntimeAdapters ----------------------------
(* The two implementations of WorkflowRuntimePort in lock step: the            *)
(* dictionaries of InMemoryWorkflowRuntime (memory.py), which the contract     *)
(* tests and the stub composition use, and the rows of SQLiteWorkflowRuntime   *)
(* (runtime.py), which the product uses.  Every call of the port is made on    *)
(* both and the answers are kept, so that the invariants can say that a caller *)
(* cannot tell the adapters apart, where that is so, and that a reader who     *)
(* polls with the last sequence number it saw misses nothing: one adapter      *)
(* numbers the events of each run, the other all events.                       *)
(*                                                                             *)
(* A run id need not be one of a run that was started: the in-memory           *)
(* checkpoint() stores what it is given before it looks for the run, and that  *)
(* run then goes its own way when it is started (strayed).                     *)
(*                                                                             *)
(* Calls come one at a time (StageRunner interleaves them).  Run ids are       *)
(* hashes of the request, so a run is its request.  record_failure is not a    *)
(* call of the port; StageRunner models it.                                    *)
EXTENDS Naturals, Sequences, FiniteSets, SequencesExt

CONSTANTS
  Projects, Keys,   \* a request names a project and an idempotency key
  Stages, Inputs,   \* what complete and checkpoint are called with
  Effects, NULL,    \* side-effect keys, and their absence
  MaxEvents,        \* bound: events in the history
  MaxStrayed        \* bound: runs that stray

VARIABLES
  runs,             \* InMemoryWorkflowRuntime._runs
  checkpoints,      \* InMemoryWorkflowRuntime._checkpoints
  memoryAnswer,     \* what the last call of the in-memory adapter answered
  runRows,          \* workflow_runs
  eventRows,        \* workflow_events; a row's place is its sequence number
  checkpointRows,   \* workflow_checkpoints
  sqliteAnswer,     \* what the last call of the SQLite adapter answered
  asked,            \* the runs the last call was about
  strayed,          \* history: runs given a checkpoint before they were started
  reader,           \* a reader of one run, at both adapters
  watcher           \* a reader of a project's runs, at the SQLite adapter

memory == <<runs, checkpoints, memoryAnswer>>
sqlite == <<runRows, eventRows, checkpointRows, sqliteAnswer>>
readers == <<reader, watcher>>
vars == <<memory, sqlite, asked, strayed, readers>>
-----------------------------------------------------------------------------
Request == [project : Projects, key : Keys]

\* The statuses a call of the port can bring about (RETRY_WAIT, NEEDS_INPUT,
\* BLOCKED and FAILED come from record_failure).
WorkflowStatus == {"RUNNING", "PAUSED", "COMPLETED", "CANCELED"}

Reason == {"", "paused", "canceled"}

EventType == {"WorkflowStarted", "WorkflowResumed", "WorkflowPaused",
              "WorkflowCanceled", "WorkflowProgressed"}

Stage == Stages \cup {"start"}

\* The columns of workflow_runs that a call of the port reads or sets.
RunRow == [status : WorkflowStatus, stage : Stage, completed : Seq(Stages),
           effects : Seq(Effects), reason : Reason]

EventRow == [run : Request, type : EventType, stage : Stage]

\* Checkpoints by run, stage and fingerprint; the port makes completed ones.
CheckpointKey == [run : Request, stage : Stages, input : Inputs]

\* WorkflowRun: the row and its own events, which carry their numbers.
Event == [sequence : Nat, type : EventType, stage : Stage]

WorkflowRun ==
  [status : WorkflowStatus, stage : Stage, completed : Seq(Stages),
   effects : Seq(Effects), reason : Reason, events : Seq(Event)]

TypeOK ==
  /\ DOMAIN runs \subseteq Request /\ DOMAIN runRows \subseteq Request
  /\ \A r \in DOMAIN runs : runs[r] \in WorkflowRun
  /\ \A r \in DOMAIN runRows : runRows[r] \in RunRow
  /\ eventRows \in Seq(EventRow)
  /\ DOMAIN checkpoints \subseteq CheckpointKey
  /\ DOMAIN checkpointRows \subseteq CheckpointKey
  /\ asked \subseteq Request /\ strayed \subseteq Request

Empty == [x \in {} |-> x]

\* f with value under key.
Put(f, key, value) ==
  [k \in DOMAIN f \cup {key} |-> IF k = key THEN value ELSE f[k]]

\* How many numbers of S are at most n; S in ascending order; and the members
\* of a sequence at the places of S.
Rank(S, n) == Cardinality({m \in S : m <= n})
InOrder(S) ==
  [i \in 1 .. Cardinality(S) |-> CHOOSE n \in S : Rank(S, n) = i]
Selected(s, S) ==
  [i \in 1 .. Cardinality(S) |-> s[InOrder(S)[i]]]

Init ==
  /\ runs = Empty /\ checkpoints = Empty
  /\ runRows = Empty /\ eventRows = <<>> /\ checkpointRows = Empty
  /\ memoryAnswer = [raised |-> "", value |-> {}]
  /\ sqliteAnswer = memoryAnswer
  /\ asked = {} /\ strayed = {}
  /\ reader = [run |-> NULL, memory |-> 0, sqlite |-> 0,
               memoryLog |-> <<>>, sqliteLog |-> <<>>]
  /\ watcher = [project |-> NULL, last |-> 0, received |-> {}, again |-> FALSE]

\* An answer is a ContractError of some category, or the values returned.
Raised(category) == [raised |-> category, value |-> {}]
Returned(values) == [raised |-> "", value |-> values]

NewRow == [status |-> "RUNNING", stage |-> "start", completed |-> <<>>,
           effects |-> <<>>, reason |-> ""]

NewRun == [status |-> "RUNNING", stage |-> "start", completed |-> <<>>,
           effects |-> <<>>, reason |-> "", events |-> <<>>]

\* A stage is completed once; a side-effect key is recorded once.
Completed(run, stage, effect) ==
  [run EXCEPT
     !.status = "COMPLETED", !.stage = stage, !.completed = Append(@, stage),
     !.effects = IF effect = NULL \/ effect \in ToSet(@)
                   THEN @ ELSE Append(@, effect)]

\* A run that strayed may have more events in memory than rows.
Room == /\ Len(eventRows) < MaxEvents
        /\ \A r \in DOMAIN runs : Len(runs[r].events) < MaxEvents
-----------------------------------------------------------------------------
(* In memory. *)

NumberedFromZero(events, type, stage) ==
  [sequence |-> Len(events), type |-> type, stage |-> stage]

Numbered(events, type, stage) ==
  [sequence |-> Len(events) + 1, type |-> type, stage |-> stage]

\* replace(run, ..., events=run.events + (event,)).
WithEvent(run, type, stage) ==
  [run EXCEPT !.events = Append(@, Numbered(@, type, stage))]

\* What the caller of either adapter is given of a run, by name of the run.
Log(events) == [i \in 1 .. Len(events) |-> <<events[i].type, events[i].stage>>]

Shown(r, run, log) ==
  [run |-> r, status |-> run.status, stage |-> run.stage,
   completed |-> run.completed, effects |-> run.effects, log |-> log]

MemoryShows(r, run) == Shown(r, run, Log(run.events))

MemoryRaises(category) ==
  memoryAnswer' = Raised(category) /\ UNCHANGED <<runs, checkpoints>>

MemoryReturns(r) ==
  /\ memoryAnswer' = Returned({MemoryShows(r, runs[r])})
  /\ UNCHANGED <<runs, checkpoints>>

MemoryKeeps(r, run) ==
  /\ runs' = Put(runs, r, run)
  /\ memoryAnswer' = Returned({MemoryShows(r, run)})

MemoryStart(r) ==
  \/ /\ r \in DOMAIN runs
     /\ MemoryReturns(r)
  \/ /\ r \notin DOMAIN runs
     /\ MemoryKeeps(r, WithEvent(NewRun, "WorkflowStarted", "start"))
     /\ UNCHANGED checkpoints

MemoryResume(r) ==
  LET run == runs[r] IN
  \/ /\ run.status = "COMPLETED"
     /\ MemoryReturns(r)
  \/ /\ run.status = "CANCELED"
     /\ MemoryRaises("INVALID_TRANSITION")
  \/ /\ run.status \in {"RUNNING", "PAUSED"}
     /\ MemoryKeeps(r, WithEvent([run EXCEPT !.status = "RUNNING"],
                                 "WorkflowResumed", run.stage))
     /\ UNCHANGED checkpoints

\* The reason of an earlier pause stays when the run is resumed, and a
\* canceled run is given none.
MemoryPause(r) ==
  LET run == runs[r] IN
  \/ /\ run.status = "COMPLETED"
     /\ MemoryRaises("INVALID_TRANSITION")
  \/ /\ run.status = "PAUSED"
     /\ MemoryReturns(r)
  \/ /\ run.status \in {"RUNNING", "CANCELED"}
     /\ MemoryKeeps(r, WithEvent([run EXCEPT !.status = "PAUSED",
                                             !.reason = "paused"],
                                 "WorkflowPaused", run.stage))
     /\ UNCHANGED checkpoints

MemoryCancel(r) ==
  LET run == runs[r] IN
  \/ /\ run.status = "COMPLETED"
     /\ MemoryRaises("INVALID_TRANSITION")
  \/ /\ run.status = "CANCELED"
     /\ MemoryReturns(r)
  \/ /\ run.status \in {"RUNNING", "PAUSED"}
     /\ MemoryKeeps(r, WithEvent([run EXCEPT !.status = "CANCELED"],
                                 "WorkflowCanceled", run.stage))
     /\ UNCHANGED checkpoints

\* The run complete() leaves: unchanged when the stage is completed already.
MemoryCompleted(r, stage, effect) ==
  IF stage \in ToSet(runs[r].completed) THEN runs[r]
  ELSE WithEvent(Completed(runs[r], stage, effect), "WorkflowProgressed", stage)

MemoryComplete(r, stage, effect) ==
  \/ /\ r \notin DOMAIN runs
     /\ MemoryRaises("DETERMINISTIC_FAILURE")
  \/ /\ r \in DOMAIN runs
     /\ MemoryKeeps(r, MemoryCompleted(r, stage, effect))
     /\ UNCHANGED checkpoints

\* The checkpoint is stored before the run is completed, or found missing.
MemoryCheckpoint(k, effect) ==
  \/ /\ k \in DOMAIN checkpoints
     /\ memoryAnswer' = Returned({checkpoints[k]})
     /\ UNCHANGED <<runs, checkpoints>>
  \/ /\ k \notin DOMAIN checkpoints
     /\ checkpoints' = Put(checkpoints, k, [effect |-> effect])
     /\ \/ /\ k.run \notin DOMAIN runs
           /\ memoryAnswer' = Raised("DETERMINISTIC_FAILURE")
           /\ UNCHANGED runs
        \/ /\ k.run \in DOMAIN runs
           /\ runs' = Put(runs, k.run, MemoryCompleted(k.run, k.stage, effect))
           /\ memoryAnswer' = Returned({[effect |-> effect]})

MemoryCheckpointAt(k) ==
  IF k \in DOMAIN checkpoints THEN {checkpoints[k]} ELSE {}

\* query(): the run of that id, or else the project's runs.
MemoryFound(id) ==
  LET found == IF id \in DOMAIN runs THEN {id}
               ELSE {r \in DOMAIN runs : r.project = id}
  IN IF found = {} THEN Raised("DETERMINISTIC_FAILURE")
     ELSE Returned({MemoryShows(r, runs[r]) : r \in found})

MemoryAfter(r, sequence) ==
  IF sequence <= 0 THEN runs[r].events
  ELSE Selected(runs[r].events,
                {i \in 1 .. Len(runs[r].events) :
                   runs[r].events[i].sequence > sequence})
-----------------------------------------------------------------------------
(* In SQLite, each call one transaction. *)

Places(r, rows) == {i \in 1 .. Len(rows) : rows[i].run = r}

\* SELECT ... FROM workflow_events WHERE run_id = ? AND sequence > ? ORDER BY.
SqliteAfter(r, sequence) ==
  LET numbered == [i \in 1 .. Len(eventRows) |->
                     [sequence |-> i, type |-> eventRows[i].type,
                      stage |-> eventRows[i].stage]]
  IN Selected(numbered, {i \in Places(r, eventRows) : i > sequence})

OwnEvents(r, rows) == Selected(rows, Places(r, rows))

\* _run_from_row: the row and its events.
SqliteShows(r, row, rows) == Shown(r, row, Log(OwnEvents(r, rows)))

SqliteRaises(category) ==
  /\ sqliteAnswer' = Raised(category)
  /\ UNCHANGED <<runRows, eventRows, checkpointRows>>

SqliteReturns(r) ==
  /\ sqliteAnswer' = Returned({SqliteShows(r, runRows[r], eventRows)})
  /\ UNCHANGED <<runRows, eventRows, checkpointRows>>

\* INSERT INTO workflow_events; the key is the next number of the table.
AppendEvent(r, type, stage) ==
  eventRows' = Append(eventRows, [run |-> r, type |-> type, stage |-> stage])

\* UPDATE workflow_runs, the event, and the query after the commit.
SqliteKeeps(r, row, type, stage) ==
  /\ runRows' = Put(runRows, r, row)
  /\ AppendEvent(r, type, stage)
  /\ sqliteAnswer' = Returned({SqliteShows(r, row, eventRows')})

SqliteStart(r) ==
  \/ /\ r \in DOMAIN runRows
     /\ SqliteReturns(r)
  \/ /\ r \notin DOMAIN runRows
     /\ SqliteKeeps(r, NewRow, "WorkflowStarted", "start")
     /\ UNCHANGED checkpointRows

SqliteResumeEnded(r) ==
  LET row == runRows[r] IN
  \/ /\ row.status = "COMPLETED"
     /\ SqliteReturns(r)
  \/ /\ row.status # "COMPLETED"
     /\ SqliteKeeps(r, [row EXCEPT !.status = "RUNNING", !.reason = ""],
                    "WorkflowResumed", row.stage)
     /\ UNCHANGED checkpointRows

SqliteResume(r) ==
  LET row == runRows[r] IN
  \/ /\ row.status = "COMPLETED"
     /\ SqliteReturns(r)
  \/ /\ row.status = "CANCELED"
     /\ SqliteRaises("INVALID_TRANSITION")
  \/ /\ row.status \in {"RUNNING", "PAUSED"}
     /\ SqliteKeeps(r, [row EXCEPT !.status = "RUNNING", !.reason = ""],
                    "WorkflowResumed", row.stage)
     /\ UNCHANGED checkpointRows

SqlitePause(r) ==
  LET row == runRows[r] IN
  \/ /\ row.status = "COMPLETED"
     /\ SqliteRaises("INVALID_TRANSITION")
  \/ /\ row.status = "PAUSED"
     /\ SqliteReturns(r)
  \/ /\ row.status \in {"RUNNING", "CANCELED"}
     /\ SqliteKeeps(r, [row EXCEPT !.status = "PAUSED", !.reason = "paused"],
                    "WorkflowPaused", row.stage)
     /\ UNCHANGED checkpointRows

SqliteCancel(r) ==
  LET row == runRows[r] IN
  \/ /\ row.status = "COMPLETED"
     /\ SqliteRaises("INVALID_TRANSITION")
  \/ /\ row.status = "CANCELED"
     /\ SqliteReturns(r)
  \/ /\ row.status \in {"RUNNING", "PAUSED"}
     /\ SqliteKeeps(r, [row EXCEPT !.status = "CANCELED", !.reason = "canceled"],
                    "WorkflowCanceled", row.stage)
     /\ UNCHANGED checkpointRows

SqliteComplete(r, stage, effect) ==
  \/ /\ r \notin DOMAIN runRows
     /\ SqliteRaises("DETERMINISTIC_FAILURE")
  \/ /\ r \in DOMAIN runRows /\ stage \in ToSet(runRows[r].completed)
     /\ SqliteReturns(r)
  \/ /\ r \in DOMAIN runRows /\ stage \notin ToSet(runRows[r].completed)
     /\ SqliteKeeps(r, Completed(runRows[r], stage, effect),
                    "WorkflowProgressed", stage)
     /\ UNCHANGED checkpointRows

\* The run is looked for first.  Two transactions: the checkpoint, then
\* complete(), then the row is read.
SqliteCheckpoint(k, effect) ==
  \/ /\ k.run \notin DOMAIN runRows
     /\ SqliteRaises("DETERMINISTIC_FAILURE")
  \/ /\ k.run \in DOMAIN runRows /\ k \in DOMAIN checkpointRows
     /\ sqliteAnswer' = Returned({checkpointRows[k]})
     /\ UNCHANGED <<runRows, eventRows, checkpointRows>>
  \/ /\ k.run \in DOMAIN runRows /\ k \notin DOMAIN checkpointRows
     /\ checkpointRows' = Put(checkpointRows, k, [effect |-> effect])
     /\ sqliteAnswer' = Returned({checkpointRows'[k]})
     /\ \/ /\ k.stage \in ToSet(runRows[k.run].completed)
           /\ UNCHANGED <<runRows, eventRows>>
        \/ /\ k.stage \notin ToSet(runRows[k.run].completed)
           /\ runRows' = Put(runRows, k.run,
                             Completed(runRows[k.run], k.stage, effect))
           /\ AppendEvent(k.run, "WorkflowProgressed", k.stage)

\* _checkpoint_row and _checkpoint_from_row.
SqliteCheckpointAt(k) ==
  IF k \in DOMAIN checkpointRows THEN {checkpointRows[k]} ELSE {}

SqliteFound(id) ==
  LET found == IF id \in DOMAIN runRows THEN {id}
               ELSE {r \in DOMAIN runRows : r.project = id}
  IN IF found = {} THEN Raised("DETERMINISTIC_FAILURE")
     ELSE Returned({SqliteShows(r, runRows[r], eventRows) : r \in found})
-----------------------------------------------------------------------------
(* The calls, on both adapters.  The control plane resumes, pauses and         *)
(* cancels by an id it was given: it must name exactly one run, of the         *)
(* command's project.  Stages are completed by the holder of a run.            *)

WorkflowForProject(p, found) ==
  IF found.raised # "" THEN found
  ELSE IF \A run \in found.value : found.value # {run}
    THEN Raised("DETERMINISTIC_FAILURE")
  ELSE IF \E run \in found.value : run.run.project # p
    THEN Raised("POLICY_BLOCKED")
  ELSE found

RunOrProject == Request \cup Projects

\* Op is applied to the run the id names, or the error is the answer.
InMemory(p, id, Op(_)) ==
  LET named == WorkflowForProject(p, MemoryFound(id)) IN
  \/ named.raised # "" /\ MemoryRaises(named.raised)
  \/ \E run \in named.value : Op(run.run)

InSqlite(p, id, Op(_)) ==
  LET named == WorkflowForProject(p, SqliteFound(id)) IN
  \/ named.raised # "" /\ SqliteRaises(named.raised)
  \/ \E run \in named.value : Op(run.run)

About(id) == {r \in Request : id \in {r, r.project}}

\* A call is about some runs, and changes neither reader.
Asks(about) == asked' = about /\ UNCHANGED readers

Start(r) ==
  /\ Room \/ r \in DOMAIN runs
  /\ MemoryStart(r) /\ SqliteStart(r)
  /\ Asks({r}) /\ UNCHANGED strayed

Resume(p, id) ==
  /\ Room
  /\ InMemory(p, id, MemoryResume) /\ InSqlite(p, id, SqliteResume)
  /\ Asks(About(id)) /\ UNCHANGED strayed

Pause(p, id) ==
  /\ Room
  /\ InMemory(p, id, MemoryPause) /\ InSqlite(p, id, SqlitePause)
  /\ Asks(About(id)) /\ UNCHANGED strayed

Cancel(p, id) ==
  /\ Room
  /\ InMemory(p, id, MemoryCancel) /\ InSqlite(p, id, SqliteCancel)
  /\ Asks(About(id)) /\ UNCHANGED strayed

Complete(r, stage, effect) ==
  /\ Room
  /\ MemoryComplete(r, stage, effect) /\ SqliteComplete(r, stage, effect)
  /\ Asks({r}) /\ UNCHANGED strayed

Checkpoint(k, effect) ==
  /\ Room
  /\ strayed' = IF k.run \in DOMAIN runs THEN strayed ELSE strayed \cup {k.run}
  /\ Cardinality(strayed') <= MaxStrayed
  /\ MemoryCheckpoint(k, effect) /\ SqliteCheckpoint(k, effect)
  /\ Asks({k.run})

\* query(id) and get_checkpoint.
Query(id) ==
  /\ memoryAnswer' = MemoryFound(id) /\ sqliteAnswer' = SqliteFound(id)
  /\ Asks(About(id))
  /\ UNCHANGED <<runs, checkpoints, runRows, eventRows, checkpointRows, strayed>>

GetCheckpoint(k) ==
  /\ memoryAnswer' = Returned(MemoryCheckpointAt(k))
  /\ sqliteAnswer' = Returned(SqliteCheckpointAt(k))
  /\ Asks({k.run})
  /\ UNCHANGED <<runs, checkpoints, runRows, eventRows, checkpointRows, strayed>>

\* query(run, after_event=n), n being the number of the last event received.
\* A behaviour has one reader: the calls of readers change nothing.
LastNumber(events, cursor) ==
  IF events = <<>> THEN cursor ELSE Last(events).sequence

Poll(r) ==
  /\ r \in DOMAIN runs /\ reader.run \in {NULL, r} /\ watcher.project = NULL
  /\ LET fromMemory == MemoryAfter(r, reader.memory)
         fromSqlite == SqliteAfter(r, reader.sqlite)
     IN /\ fromMemory # <<>> \/ fromSqlite # <<>>
        /\ reader' = [run |-> r,
                      memory |-> LastNumber(fromMemory, reader.memory),
                      sqlite |-> LastNumber(fromSqlite, reader.sqlite),
                      memoryLog |-> reader.memoryLog \o Log(fromMemory),
                      sqliteLog |-> reader.sqliteLog \o Log(fromSqlite)]
  /\ UNCHANGED <<memory, sqlite, asked, strayed, watcher>>

\* query(project, after_event=n) in SQLite: the rows of every run of the
\* project, n being the highest number received.
PlacesOf(p, rows) == {i \in 1 .. Len(rows) : rows[i].run.project = p}

\* Mutant of After: events are numbered within their run, as in memory.
AfterOfEachRun(p, n) ==
  {i \in PlacesOf(p, eventRows) : Rank(Places(eventRows[i].run, eventRows), i) > n}

\* The numbers an answer brings.
After(p, n) == {i \in PlacesOf(p, eventRows) : i > n}

Watch(p) ==
  /\ watcher.project \in {NULL, p} /\ reader.run = NULL
  /\ LET fresh == After(p, watcher.last) IN
     /\ fresh # {}
     /\ \E highest \in fresh :
          /\ \A i \in fresh : i <= highest
          /\ watcher' = [project |-> p, last |-> highest,
                         received |-> watcher.received \cup fresh,
                         again |-> \/ watcher.again
                                   \/ watcher.received \cap fresh # {}]
  /\ UNCHANGED <<memory, sqlite, asked, strayed, reader>>

Next ==
  \/ \E r \in Request : Start(r)
  \/ \E p \in Projects, id \in RunOrProject : Resume(p, id)
  \/ \E p \in Projects, id \in RunOrProject : Pause(p, id)
  \/ \E p \in Projects, id \in RunOrProject : Cancel(p, id)
  \/ \E r \in Request, stage \in Stages, effect \in Effects \cup {NULL} :
       Complete(r, stage, effect)
  \/ \E k \in CheckpointKey, effect \in Effects \cup {NULL} :
       Checkpoint(k, effect)
  \/ \E id \in RunOrProject : Query(id)
  \/ \E k \in CheckpointKey : GetCheckpoint(k)
  \/ \E r \in Request : Poll(r)
  \/ \E p \in Projects : Watch(p)

Spec == Init /\ [][Next]_vars
-----------------------------------------------------------------------------
\* A caller cannot tell the adapters apart, except by a run that was given a
\* checkpoint before it was started: on the other runs the last call was
\* answered with the same error or the same values, and the next query or
\* get_checkpoint will be too.  Which runs there are is the same for all, and
\* only the pause reason of a run that is not paused differs (checkpoint and
\* the other calls of WorkflowRuntimePort).
AdaptersAgree ==
  /\ asked \cap strayed = {} => memoryAnswer = sqliteAnswer
  /\ \A id \in RunOrProject :
       About(id) \cap strayed = {} => MemoryFound(id) = SqliteFound(id)
  /\ DOMAIN runs = DOMAIN runRows
  /\ \A k \in CheckpointKey :
       k.run \notin strayed => MemoryCheckpointAt(k) = SqliteCheckpointAt(k)
  /\ \A r \in DOMAIN runs \ strayed :
       runs[r].status = "PAUSED" => runs[r].reason = runRows[r].reason

\* Whatever was called between two polls, the reader of a run has received its
\* events from the first on, each once and in order, and the next poll brings
\* the rest (query with after_event, in both numberings); both adapters have
\* told it the same, unless the run strayed.
PollsMissNothing ==
  LET r == reader.run IN
  r # NULL =>
    /\ reader.memoryLog \o Log(MemoryAfter(r, reader.memory))
         = Log(runs[r].events)
    /\ reader.sqliteLog \o Log(SqliteAfter(r, reader.sqlite))
         = Log(OwnEvents(r, eventRows))
    /\ r \notin strayed => reader.memoryLog = reader.sqliteLog

\* The reader of a project, who keeps one number for all its runs, has
\* received each of their events once, whichever run recorded what between
\* two polls, and the next poll brings the rest (query of a project with
\* after_event, _append_event; the numbers of the in-memory runtime, which
\* start over in each run, do not serve such a reader).
ProjectPollsMissNothing ==
  LET p == watcher.project IN
  p # NULL =>
    /\ watcher.received \cup After(p, watcher.last) = PlacesOf(p, eventRows)
    /\ ~watcher.again /\ watcher.received \cap After(p, watcher.last) = {}
=============================================================================
