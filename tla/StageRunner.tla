----------------------------- MODULE StageRunner -----------------------------
(***************************************************************************)
(* One workflow run: SQLiteWorkflowRuntime and the RecoverableStageRunner  *)
(* that executes its stages.                                               *)
(*                                                                         *)
(* Several workers (threads, or processes after a restart) call run_stage  *)
(* for stages with inputs; users pause, resume and cancel the run through  *)
(* the control plane at any time.  Each transaction of the runtime is one  *)
(* action, and so is each read run_stage makes outside of one.             *)
(*                                                                         *)
(* Abstractions: a stage's operation is external, and its outcome is any   *)
(* the runner tells apart; the output of an operation is named by the      *)
(* worker that produced it; of the run, the status and the completed       *)
(* stages are kept, its texts, its events and its copies of the attempt    *)
(* are not.                                                                *)
(***************************************************************************)
EXTENDS Naturals

CONSTANTS
  NULL,         \* no output
  Workers,      \* who calls run_stage
  Stages,       \* stage keys
  Inputs,       \* input fingerprints
  MaxAttempts   \* max_attempts of the calls

ASSUME NullAssumption == NULL \notin Workers

\* The code checks nothing; with 0 attempts the loop raises its assertion.
ASSUME MaxAttemptsAssumption == MaxAttempts \in Nat \ {0}

VARIABLES
  run,         \* the row of workflow_runs
  cp,          \* the rows of workflow_checkpoints
  worker,      \* the call each worker is in
  reused,      \* stages some caller was given a completed checkpoint of
  overlapped   \* two calls for the same item were under way together

vars == <<run, cp, worker, reused, overlapped>>

\* run_stage's key of a checkpoint.
Items == [stage : Stages, input : Inputs]

WorkflowStatus == {"RUNNING", "PAUSED", "NEEDS_INPUT", "BLOCKED",
                   "RETRY_WAIT", "COMPLETED", "FAILED", "CANCELED"}

\* "NONE" is the absent row.
Checkpoint == [status : {"NONE", "COMPLETED", "RETRY_WAIT", "FAILED"},
               output : Workers \cup {NULL}]

\* BLOCKED stands for POLICY_BLOCKED and CAPABILITY_UNAVAILABLE, FATAL for
\* the remaining categories.
Categories == {"RETRYABLE", "NEEDS_INPUT", "BLOCKED", "FATAL"}

Steps == {"query", "resume", "operate", "record", "save", "complete",
          "exhausted"}

\* What a worker does next, with which item, at which attempt.
Call == [at : Steps, item : Items, attempt : 1 .. MaxAttempts + 1]

\* No call.
Idle == [at |-> "idle"]

Busy == {w \in Workers : worker[w] # Idle}

\* The stage is not known to be completed yet.
Trying == {w \in Busy : worker[w].at # "complete"}

TypeOK ==
  /\ run \in [status : WorkflowStatus, stages : SUBSET Stages]
  /\ cp \in [Items -> Checkpoint]
  /\ \A i \in Items : cp[i].status = "COMPLETED" => cp[i].output # NULL
  /\ worker \in [Workers -> Call \cup {Idle}]
  /\ reused \subseteq Stages
  /\ overlapped \in BOOLEAN

At(w, step) == w \in Busy /\ worker[w].at = step

Goto(w, step) == worker' = [worker EXCEPT ![w].at = step]

Leave(w) == worker' = [worker EXCEPT ![w] = Idle]

Key(w) == worker[w].item

\* start leaves a running run without checkpoints.
Init ==
  /\ run = [status |-> "RUNNING", stages |-> {}]
  /\ cp = [i \in Items |-> [status |-> "NONE", output |-> NULL]]
  /\ worker = [w \in Workers |-> Idle]
  /\ reused = {}
  /\ overlapped = FALSE

----------------------------------------------------------------------------
(* run_stage *)

IsDone(i) == cp[i].status = "COMPLETED"

\* A completed checkpoint is the answer; the run is not touched.
Reuse(w, i) ==
  /\ worker[w] = Idle
  /\ IsDone(i)
  /\ reused' = reused \cup {i.stage}
  /\ UNCHANGED <<run, cp, worker, overlapped>>

\* Mutant of Begin: the stage is executed whatever the checkpoint says.
BeginWithoutLookup(w, i) ==
  /\ worker[w] = Idle
  /\ worker' = [worker EXCEPT ![w] = [at |-> "query", item |-> i, attempt |-> 1]]
  /\ overlapped' = (overlapped \/ \E v \in Busy : Key(v) = i)
  /\ UNCHANGED <<run, cp, reused>>

Begin(w, i) ==
  /\ worker[w] = Idle
  /\ ~IsDone(i)
  /\ worker' = [worker EXCEPT ![w] = [at |-> "query", item |-> i, attempt |-> 1]]
  /\ overlapped' = (overlapped \/ \E v \in Busy : Key(v) = i)
  /\ UNCHANGED <<run, cp, reused>>

\* The status is read once per attempt, and only to see whether the run waits.
Query(w) ==
  /\ At(w, "query")
  /\ Goto(w, IF run.status \in {"PAUSED", "NEEDS_INPUT", "RETRY_WAIT"}
             THEN "resume" ELSE "operate")
  /\ UNCHANGED <<run, cp, reused, overlapped>>

MayResume == run.status \notin {"CANCELED", "FAILED"}

Resumed == IF run.status = "COMPLETED" THEN run
           ELSE [run EXCEPT !.status = "RUNNING"]

\* The error of a refused resume leaves run_stage.
ResumeOwn(w) ==
  /\ At(w, "resume")
  /\ \/ MayResume /\ run' = Resumed /\ Goto(w, "operate")
     \/ ~MayResume /\ Leave(w) /\ UNCHANGED run
  /\ UNCHANGED <<cp, reused, overlapped>>

\* The operation (or the failure injector before it) succeeds, fails with a
\* WorkflowStageError of a category that matters only to RecordFailure, or
\* raises something else, which leaves run_stage.
Operate(w) ==
  /\ At(w, "operate")
  /\ \/ Goto(w, "save")
     \/ Goto(w, "record")
     \/ Leave(w)
  /\ UNCHANGED <<run, cp, reused, overlapped>>

FailureStatus(category, attempt) ==
  CASE category = "RETRYABLE" ->
         IF attempt < MaxAttempts THEN "RETRY_WAIT" ELSE "FAILED"
    [] category = "NEEDS_INPUT" -> "NEEDS_INPUT"
    [] category = "BLOCKED" -> "BLOCKED"
    [] OTHER -> "FAILED"

\* Mutant of Failed: the new row's empty outputs replace the old ones.
FailedWithoutOutput(checkpoint, status) ==
  [status |-> IF status = "RETRY_WAIT" THEN "RETRY_WAIT" ELSE "FAILED",
   output |-> NULL]

\* record_failure does not look at the row it replaces, and keeps its outputs.
Failed(checkpoint, status) ==
  [checkpoint EXCEPT !.status = IF status = "RETRY_WAIT" THEN "RETRY_WAIT"
                                ELSE "FAILED"]

\* Mutant of RecordFailure: the next attempt is not counted.
RecordFailureUncounted(w) ==
  /\ At(w, "record")
  /\ \E category \in Categories :
     LET status == FailureStatus(category, worker[w].attempt) IN
     /\ cp' = [cp EXCEPT ![Key(w)] = Failed(@, status)]
     /\ run' = [run EXCEPT !.status = status]
     /\ \/ /\ status = "RETRY_WAIT"
           /\ Goto(w, "query")
        \/ /\ status # "RETRY_WAIT"
           /\ Leave(w)
  /\ UNCHANGED <<reused, overlapped>>

\* Nor does it look at the status of the run.  The loop goes round when the
\* failure can be retried.
RecordFailure(w) ==
  /\ At(w, "record")
  /\ \E category \in Categories :
     LET attempt == worker[w].attempt
         status  == FailureStatus(category, attempt) IN
     /\ cp' = [cp EXCEPT ![Key(w)] = Failed(@, status)]
     /\ run' = [run EXCEPT !.status = status]
     /\ \/ /\ status = "RETRY_WAIT"
           /\ worker' = [worker EXCEPT ![w].attempt = attempt + 1,
                                       ![w].at = IF attempt < MaxAttempts
                                                 THEN "query" ELSE "exhausted"]
        \/ /\ status # "RETRY_WAIT"
           /\ Leave(w)
  /\ UNCHANGED <<reused, overlapped>>

----------------------------------------------------------------------------
(* checkpoint: two transactions *)

\* The outputs of the first to complete stand, and nothing else happens.
SaveCheckpoint(w) ==
  /\ At(w, "save")
  /\ LET i == Key(w) IN
     \/ /\ IsDone(i)
        /\ reused' = reused \cup {i.stage}
        /\ Leave(w)
        /\ UNCHANGED cp
     \/ /\ ~IsDone(i)
        /\ cp' = [cp EXCEPT ![i] = [status |-> "COMPLETED", output |-> w]]
        /\ Goto(w, "complete")
        /\ UNCHANGED reused
  /\ UNCHANGED <<run, overlapped>>

\* complete takes a stage once, whatever input it had and whatever the status.
CompleteRun(w) ==
  /\ At(w, "complete")
  /\ LET s == Key(w).stage IN
       run' = IF s \in run.stages THEN run
              ELSE [status |-> "COMPLETED", stages |-> run.stages \cup {s}]
  /\ Leave(w)
  /\ UNCHANGED <<cp, reused, overlapped>>

Crash(w) ==
  /\ w \in Busy
  /\ Leave(w)
  /\ UNCHANGED <<run, cp, reused, overlapped>>

----------------------------------------------------------------------------
(* Users *)

Pause ==
  /\ run.status \notin {"COMPLETED", "PAUSED"}
  /\ run' = [run EXCEPT !.status = "PAUSED"]
  /\ UNCHANGED <<cp, worker, reused, overlapped>>

Resume ==
  /\ MayResume
  /\ run' = Resumed
  /\ UNCHANGED <<cp, worker, reused, overlapped>>

Cancel ==
  /\ run.status \notin {"COMPLETED", "CANCELED"}
  /\ run' = [run EXCEPT !.status = "CANCELED"]
  /\ UNCHANGED <<cp, worker, reused, overlapped>>

----------------------------------------------------------------------------

\* What a worker does once it is in a call.
WorkerStep(w) ==
  \/ Query(w)
  \/ ResumeOwn(w)
  \/ Operate(w)
  \/ RecordFailure(w)
  \/ SaveCheckpoint(w)
  \/ CompleteRun(w)

Next ==
  \/ \E w \in Workers :
       \/ \E i \in Items : Reuse(w, i) \/ Begin(w, i)
       \/ WorkerStep(w)
       \/ Crash(w)
  \/ Pause
  \/ Resume
  \/ Cancel

\* A call is straight-line code between operations that return: a worker goes
\* on until its call ends or it dies.
Spec == Init /\ [][Next]_vars /\ \A w \in Workers : WF_vars(WorkerStep(w))

----------------------------------------------------------------------------
(* Properties *)

\* A completed stage is not executed again, also after crashes, failures,
\* pauses and resumes, unless two calls for it overlap (run_stage,
\* record_failure; acceptance 7 of runtime-recovery.md).
CompletedIsNotRerun ==
  ~overlapped => \A w \in Trying : cp[Key(w)].status # "COMPLETED"

\* Nor does its checkpoint change: a failure never replaces it
\* (record_failure, checkpoint).
CompletedStands ==
  [][\A i \in Items : ~overlapped' /\ IsDone(i) => cp'[i] = cp[i]]_vars

\* A stage has outputs on file when the run records it as completed and when a
\* caller was told that it is, whatever failures were recorded over its
\* checkpoint since and although a crash may have kept it from the run
\* (run_stage, checkpoint, record_failure).
HasOutput(s) == \E i \in Items : i.stage = s /\ cp[i].output # NULL
StagesHaveOutputs == \A s \in run.stages \cup reused : HasOutput(s)

\* The retry loop never ends without a result (run_stage's assertion).
LoopHasResult == \A w \in Workers : ~At(w, "exhausted")

\* Every call ends, however often it fails, is paused or is resumed, as long
\* as operations return.
CallsEnd == \A w \in Workers : w \in Busy ~> w \notin Busy
=============================================================================
