-------------------------- MODULE StageRunnerProofs --------------------------
(***************************************************************************)
(* Theorems about StageRunner, for any number of workers, stages, inputs   *)
(* and attempts, and about the port's calls over both runtimes             *)
(* (WorkflowRuntime), for any projects, keys, side effects and events.     *)
(* Liveness is left to TLC; these are the safety half of the               *)
(* specification.                                                          *)
(***************************************************************************)
EXTENDS WorkflowRuntime, SequenceTheorems, FiniteSetTheorems, TLAPS

\* Calls for one item do not overlap as long as overlapped says so.
CallsApart ==
  ~overlapped => \A v, w \in Busy : v # w => Key(v) # Key(w)

\* Who is about to complete the run has saved outputs, and no failure of
\* another call takes them away.
CompletingHasOutput ==
  \A w \in Workers : At(w, "complete") => cp[Key(w)].output # NULL

\* Every call is at one of its attempts.
AttemptsLeft ==
  \A w \in Busy : worker[w].attempt <= MaxAttempts /\ worker[w].at # "exhausted"

Consistent ==
  /\ CallsApart
  /\ CompletingHasOutput
  /\ AttemptsLeft
  /\ CompletedIsNotRerun
  /\ StagesHaveOutputs

----------------------------------------------------------------------------
(* What the two ways to move on do to the workers *)

LEMMA InCall ==
  ASSUME TypeOK, NEW w \in Busy
  PROVE  w \in Workers /\ worker[w] \in Call
  BY DEF TypeOK, Busy

LEMMA GotoFacts ==
  ASSUME TypeOK, NEW w \in Busy, NEW step \in Steps, Goto(w, step)
  PROVE  /\ worker' \in [Workers -> Call \cup {Idle}]
         /\ worker'[w] = [worker[w] EXCEPT !.at = step]
         /\ worker'[w].at = step
         /\ worker'[w].item = worker[w].item
         /\ worker'[w].attempt = worker[w].attempt
         /\ \A v \in Workers \ {w} : worker'[v] = worker[v]
         /\ Busy' = Busy
<1>1. w \in Workers /\ worker[w] \in Call
  BY InCall
<1>2. worker \in [Workers -> Call \cup {Idle}]
  BY DEF TypeOK
<1>3. /\ worker'[w] = [worker[w] EXCEPT !.at = step]
      /\ \A v \in Workers \ {w} : worker'[v] = worker[v]
  BY <1>1, <1>2 DEF Goto
<1>4. /\ worker'[w] \in Call
      /\ worker'[w].at = step
      /\ worker'[w].item = worker[w].item
      /\ worker'[w].attempt = worker[w].attempt
  BY <1>1, <1>3 DEF Call
<1>5. worker' \in [Workers -> Call \cup {Idle}]
  BY <1>1, <1>2, <1>4 DEF Goto
<1>6. worker'[w] # Idle
  BY <1>4 DEF Idle, Steps
<1> QED
  BY <1>1, <1>3, <1>4, <1>5, <1>6 DEF Busy

LEMMA LeaveFacts ==
  ASSUME TypeOK, NEW w \in Workers, Leave(w)
  PROVE  /\ worker' \in [Workers -> Call \cup {Idle}]
         /\ worker'[w] = Idle
         /\ \A v \in Workers \ {w} : worker'[v] = worker[v]
         /\ Busy' = Busy \ {w}
<1>1. worker \in [Workers -> Call \cup {Idle}]
  BY DEF TypeOK
<1>2. /\ worker' \in [Workers -> Call \cup {Idle}]
      /\ worker'[w] = Idle
      /\ \A v \in Workers \ {w} : worker'[v] = worker[v]
  BY <1>1 DEF Leave
<1> QED
  BY <1>2 DEF Busy

----------------------------------------------------------------------------
(* Types *)

LEMMA FailureStatusTypes ==
  ASSUME NEW category \in Categories, NEW attempt
  PROVE  /\ FailureStatus(category, attempt)
              \in {"RETRY_WAIT", "NEEDS_INPUT", "BLOCKED", "FAILED"}
         /\ FailureStatus(category, attempt) = "RETRY_WAIT" => attempt < MaxAttempts
<1>1. CASE category = "RETRYABLE"
  BY <1>1 DEF FailureStatus
<1>2. CASE category = "NEEDS_INPUT"
  BY <1>2 DEF FailureStatus
<1>3. CASE category = "BLOCKED"
  BY <1>3 DEF FailureStatus
<1>4. CASE category = "FATAL"
  BY <1>4 DEF FailureStatus
<1> QED
  BY <1>1, <1>2, <1>3, <1>4 DEF Categories

LEMMA FailedTypes ==
  ASSUME NEW c \in Checkpoint, NEW status
  PROVE  /\ Failed(c, status) \in Checkpoint
         /\ Failed(c, status).status \in {"RETRY_WAIT", "FAILED"}
         /\ Failed(c, status).output = c.output
  BY DEF Failed, Checkpoint

LEMMA ItemOf ==
  ASSUME TypeOK, NEW w \in Busy
  PROVE  Key(w) \in Items /\ Key(w).stage \in Stages
  BY InCall DEF Key, Call, Items

\* The next attempt of a call.
Retries(w) ==
  /\ worker[w].attempt < MaxAttempts
  /\ worker' = [worker EXCEPT ![w].attempt = worker[w].attempt + 1,
                              ![w].at = "query"]

LEMMA RetryFacts ==
  ASSUME TypeOK, NEW w \in Busy, Retries(w)
  PROVE  /\ worker' \in [Workers -> Call \cup {Idle}]
         /\ worker'[w].at = "query"
         /\ worker'[w].item = worker[w].item
         /\ worker'[w].attempt <= MaxAttempts
         /\ \A v \in Workers \ {w} : worker'[v] = worker[v]
         /\ Busy' = Busy
<1>1. w \in Workers /\ worker[w] \in Call
  BY InCall
<1>2. worker \in [Workers -> Call \cup {Idle}]
  BY DEF TypeOK
<1>3. worker[w].attempt + 1 \in 1 .. MaxAttempts + 1 /\ worker[w].attempt + 1 <= MaxAttempts
  BY <1>1, MaxAttemptsAssumption DEF Retries, Call
<1>4. /\ worker'[w] = [worker[w] EXCEPT !.attempt = worker[w].attempt + 1,
                                        !.at = "query"]
      /\ \A v \in Workers \ {w} : worker'[v] = worker[v]
      /\ worker' \in [Workers -> {worker'[v] : v \in Workers}]
  BY <1>1, <1>2 DEF Retries
<1>5. /\ worker'[w] \in Call
      /\ worker'[w].at = "query"
      /\ worker'[w].item = worker[w].item
      /\ worker'[w].attempt = worker[w].attempt + 1
  BY <1>1, <1>3, <1>4 DEF Call, Steps
<1>6. worker' \in [Workers -> Call \cup {Idle}]
  BY <1>1, <1>2, <1>4, <1>5
<1>7. worker'[w] # Idle
  BY <1>5 DEF Idle
<1> QED
  BY <1>1, <1>3, <1>4, <1>5, <1>6, <1>7 DEF Busy

LEMMA RecordFacts ==
  ASSUME TypeOK, NEW w \in Workers, RecordFailure(w)
  PROVE  /\ w \in Busy /\ worker[w].at = "record"
         /\ Leave(w) \/ Retries(w)
         /\ \E status \in {"RETRY_WAIT", "NEEDS_INPUT", "BLOCKED", "FAILED"} :
              /\ cp' = [cp EXCEPT ![Key(w)] = Failed(cp[Key(w)], status)]
              /\ run' = [run EXCEPT !.status = status]
         /\ UNCHANGED <<reused, overlapped>>
<1>1. w \in Busy /\ worker[w].at = "record" /\ UNCHANGED <<reused, overlapped>>
  BY DEF RecordFailure, At
<1>2. Key(w) \in Items /\ cp \in [Items -> Checkpoint]
  BY <1>1, ItemOf DEF TypeOK
<1>3. PICK category \in Categories :
        LET attempt == worker[w].attempt
            status  == FailureStatus(category, attempt) IN
        /\ cp' = [cp EXCEPT ![Key(w)] = Failed(@, status)]
        /\ run' = [run EXCEPT !.status = status]
        /\ \/ /\ status = "RETRY_WAIT"
              /\ worker' = [worker EXCEPT ![w].attempt = attempt + 1,
                                          ![w].at = IF attempt < MaxAttempts
                                                    THEN "query" ELSE "exhausted"]
           \/ /\ status # "RETRY_WAIT"
              /\ Leave(w)
  BY DEF RecordFailure
<1> DEFINE status == FailureStatus(category, worker[w].attempt)
<1>4. /\ status \in {"RETRY_WAIT", "NEEDS_INPUT", "BLOCKED", "FAILED"}
      /\ status = "RETRY_WAIT" => worker[w].attempt < MaxAttempts
  BY FailureStatusTypes
<1>5. Leave(w) \/ Retries(w)
  BY <1>3, <1>4 DEF Retries
<1>6. /\ cp' = [cp EXCEPT ![Key(w)] = Failed(cp[Key(w)], status)]
      /\ run' = [run EXCEPT !.status = status]
  BY <1>2, <1>3
<1> QED
  BY <1>1, <1>4, <1>5, <1>6

LEMMA StepTypes == TypeOK /\ [Next]_vars => TypeOK'
<1> SUFFICES ASSUME TypeOK, [Next]_vars PROVE TypeOK'
  OBVIOUS
<1>1. CASE UNCHANGED vars
  BY <1>1 DEF vars, TypeOK
<1>2. ASSUME NEW w \in Workers, NEW i \in Items, Reuse(w, i) PROVE TypeOK'
  BY <1>2 DEF Reuse, TypeOK, Items
<1>3. ASSUME NEW w \in Workers, NEW i \in Items, Begin(w, i) PROVE TypeOK'
  <2>1. [at |-> "query", item |-> i, attempt |-> 1] \in Call
    BY MaxAttemptsAssumption DEF Call, Steps
  <2>2. worker' \in [Workers -> Call \cup {Idle}]
    BY <1>3, <2>1 DEF Begin, TypeOK
  <2> QED
    BY <1>3, <2>2 DEF Begin, TypeOK
<1>4. ASSUME NEW w \in Workers, Query(w) PROVE TypeOK'
  <2>1. CASE Goto(w, "resume")
    BY <1>4, <2>1, GotoFacts DEF Query, At, TypeOK, Steps
  <2>2. CASE Goto(w, "operate")
    BY <1>4, <2>2, GotoFacts DEF Query, At, TypeOK, Steps
  <2> QED
    BY <1>4, <2>1, <2>2 DEF Query
<1>5. ASSUME NEW w \in Workers, ResumeOwn(w) PROVE TypeOK'
  <2>1. worker' \in [Workers -> Call \cup {Idle}]
    <3>1. CASE Goto(w, "operate")
      BY <1>5, <3>1, GotoFacts DEF ResumeOwn, At, Steps
    <3>2. CASE Leave(w)
      BY <3>2, LeaveFacts
    <3> QED
      BY <1>5, <3>1, <3>2 DEF ResumeOwn
  <2>2. run' \in [status : WorkflowStatus, stages : SUBSET Stages]
    BY <1>5 DEF ResumeOwn, Resumed, TypeOK, WorkflowStatus
  <2> QED
    BY <1>5, <2>1, <2>2 DEF ResumeOwn, TypeOK
<1>6. ASSUME NEW w \in Workers, Operate(w) PROVE TypeOK'
  <2>1. worker' \in [Workers -> Call \cup {Idle}]
    <3>1. CASE Goto(w, "save")
      BY <1>6, <3>1, GotoFacts DEF Operate, At, Steps
    <3>2. CASE Goto(w, "record")
      BY <1>6, <3>2, GotoFacts DEF Operate, At, Steps
    <3>3. CASE Leave(w)
      BY <3>3, LeaveFacts
    <3> QED
      BY <1>6, <3>1, <3>2, <3>3 DEF Operate
  <2> QED
    BY <1>6, <2>1 DEF Operate, TypeOK
<1>7. ASSUME NEW w \in Workers, RecordFailure(w) PROVE TypeOK'
  <2>1. w \in Busy /\ (Leave(w) \/ Retries(w)) /\ UNCHANGED <<reused, overlapped>>
    BY <1>7, RecordFacts
  <2>2. worker' \in [Workers -> Call \cup {Idle}]
    BY <2>1, LeaveFacts, RetryFacts
  <2>3. PICK status \in {"RETRY_WAIT", "NEEDS_INPUT", "BLOCKED", "FAILED"} :
          /\ cp' = [cp EXCEPT ![Key(w)] = Failed(cp[Key(w)], status)]
          /\ run' = [run EXCEPT !.status = status]
    BY <1>7, RecordFacts
  <2>4. Key(w) \in Items /\ cp[Key(w)] \in Checkpoint
    BY <2>1, ItemOf DEF TypeOK
  <2>5. /\ cp' \in [Items -> Checkpoint]
        /\ \A i \in Items : cp'[i].status = "COMPLETED" => cp'[i].output # NULL
    BY <2>3, <2>4, FailedTypes DEF TypeOK
  <2>6. run' \in [status : WorkflowStatus, stages : SUBSET Stages]
    BY <2>3 DEF TypeOK, WorkflowStatus
  <2> QED
    BY <2>1, <2>2, <2>5, <2>6 DEF TypeOK
<1>8. ASSUME NEW w \in Workers, SaveCheckpoint(w) PROVE TypeOK'
  <2>1. w \in Busy /\ Key(w) \in Items /\ Key(w).stage \in Stages
    BY <1>8, ItemOf DEF SaveCheckpoint, At
  <2>2. worker' \in [Workers -> Call \cup {Idle}]
    BY <1>8, <2>1, GotoFacts, LeaveFacts DEF SaveCheckpoint, Steps
  <2>3. [status |-> "COMPLETED", output |-> w] \in Checkpoint /\ w # NULL
    BY NullAssumption DEF Checkpoint
  <2>4. /\ cp' \in [Items -> Checkpoint]
        /\ \A i \in Items : cp'[i].status = "COMPLETED" => cp'[i].output # NULL
    BY <1>8, <2>1, <2>3 DEF SaveCheckpoint, TypeOK
  <2>5. reused' \subseteq Stages
    BY <1>8, <2>1 DEF SaveCheckpoint, TypeOK
  <2> QED
    BY <1>8, <2>2, <2>4, <2>5 DEF SaveCheckpoint, TypeOK
<1>9. ASSUME NEW w \in Workers, CompleteRun(w) PROVE TypeOK'
  <2>1. w \in Busy /\ Key(w).stage \in Stages
    BY <1>9, ItemOf DEF CompleteRun, At
  <2>2. run' \in [status : WorkflowStatus, stages : SUBSET Stages]
    BY <1>9, <2>1 DEF CompleteRun, TypeOK, WorkflowStatus
  <2>3. worker' \in [Workers -> Call \cup {Idle}]
    BY <1>9, LeaveFacts DEF CompleteRun
  <2> QED
    BY <1>9, <2>2, <2>3 DEF CompleteRun, TypeOK
<1>10. ASSUME NEW w \in Workers, Crash(w) PROVE TypeOK'
  <2>1. worker' \in [Workers -> Call \cup {Idle}]
    BY <1>10, LeaveFacts DEF Crash
  <2> QED
    BY <1>10, <2>1 DEF Crash, TypeOK
<1>11. CASE Pause \/ Resume \/ Cancel
  <2>1. run' \in [status : WorkflowStatus, stages : SUBSET Stages]
    BY <1>11 DEF Pause, Resume, Cancel, Resumed, TypeOK, WorkflowStatus
  <2> QED
    BY <1>11, <2>1 DEF Pause, Resume, Cancel, TypeOK
<1> QED
  BY <1>1, <1>2, <1>3, <1>4, <1>5, <1>6, <1>7, <1>8, <1>9, <1>10, <1>11
  DEF Next, WorkerStep

LEMMA InitTypes == Init => TypeOK
<1> SUFFICES ASSUME Init PROVE TypeOK
  OBVIOUS
<1>1. run \in [status : WorkflowStatus, stages : SUBSET Stages]
  BY DEF Init, WorkflowStatus
<1>2. [status |-> "NONE", output |-> NULL] \in Checkpoint
  BY DEF Checkpoint
<1>3. /\ cp \in [Items -> Checkpoint]
      /\ \A i \in Items : cp[i].status = "NONE"
  BY <1>2 DEF Init
<1> QED
  BY <1>1, <1>3 DEF Init, TypeOK

\* Every reachable state is well typed, and a completed checkpoint has outputs.
THEOREM TypeCorrect == Spec => []TypeOK
  BY InitTypes, StepTypes, PTL DEF Spec

----------------------------------------------------------------------------
(* Consistency *)

\* Callers are only told of stages that have outputs.
ToldOfOutputs == \A s \in reused' \ reused : HasOutput(s)

\* A move that leaves the stores alone keeps everything, as long as the call
\* does not claim to have saved.
LEMMA QuietMove ==
  ASSUME TypeOK, Consistent, NEW w \in Busy,
         cp' = cp, run'.stages = run.stages, overlapped' = overlapped, ToldOfOutputs,
         \/ Leave(w)
         \/ \E step \in {"resume", "operate", "save", "record"} :
              Goto(w, step) /\ worker[w].at # "complete"
  PROVE  Consistent'
<1>1. /\ worker'[w] # Idle => /\ worker[w].at # "complete"
                              /\ worker'[w].at \in {"resume", "operate", "save", "record"}
                              /\ worker'[w].item = worker[w].item
                              /\ worker'[w].attempt = worker[w].attempt
      /\ \A v \in Workers \ {w} : worker'[v] = worker[v]
      /\ Busy' \subseteq Busy
  <2>1. CASE Leave(w)
    BY <2>1, LeaveFacts, InCall
  <2>2. CASE \E step \in {"resume", "operate", "save", "record"} :
               Goto(w, step) /\ worker[w].at # "complete"
    BY <2>2, GotoFacts DEF Steps
  <2> QED
    BY <2>1, <2>2
<1>2. \A v \in Busy' : v \in Workers /\ v \in Busy /\ Key(v)' = Key(v)
  BY <1>1 DEF Busy, Key
<1>3. CallsApart'
  BY <1>2 DEF Consistent, CallsApart
<1>4. CompletingHasOutput'
  BY <1>1, <1>2 DEF Consistent, CompletingHasOutput, At, Busy
<1>5. AttemptsLeft'
  BY <1>1, <1>2 DEF Consistent, AttemptsLeft, Busy
<1>6. CompletedIsNotRerun'
  BY <1>1, <1>2 DEF Consistent, CompletedIsNotRerun, Trying, Busy
<1>7. StagesHaveOutputs'
  BY DEF Consistent, StagesHaveOutputs, ToldOfOutputs, HasOutput
<1> QED
  BY <1>3, <1>4, <1>5, <1>6, <1>7 DEF Consistent

LEMMA StepConsistent == TypeOK /\ Consistent /\ [Next]_vars => Consistent'
<1> SUFFICES ASSUME TypeOK, Consistent, [Next]_vars PROVE Consistent'
  OBVIOUS
<1> DEFINE Unmoved == /\ UNCHANGED <<cp, worker, overlapped>> /\ run'.stages = run.stages
                      /\ ToldOfOutputs
<1> DEFINE Untold == reused' = reused
<1>1. ASSUME Untold PROVE ToldOfOutputs
  BY <1>1 DEF ToldOfOutputs
<1>2. ASSUME Unmoved PROVE Consistent'
  BY <1>2
  DEF Consistent, CallsApart, CompletingHasOutput, AttemptsLeft,
      CompletedIsNotRerun, StagesHaveOutputs, HasOutput, ToldOfOutputs,
      Busy, Trying, Key, At
<1>3. CASE UNCHANGED vars
  BY <1>1, <1>2, <1>3 DEF vars
<1>4. ASSUME NEW w \in Workers, NEW i \in Items, Reuse(w, i) PROVE Consistent'
  <2>1. HasOutput(i.stage)
    BY <1>4 DEF Reuse, IsDone, TypeOK, HasOutput
  <2>2. ToldOfOutputs
    BY <1>4, <2>1 DEF Reuse, ToldOfOutputs
  <2> QED
    BY <1>2, <1>4, <2>2 DEF Reuse
<1>5. ASSUME NEW w \in Workers, NEW i \in Items, Begin(w, i) PROVE Consistent'
  <2>1. /\ worker'[w] = [at |-> "query", item |-> i, attempt |-> 1]
        /\ \A v \in Workers \ {w} : worker'[v] = worker[v]
        /\ w \notin Busy
    BY <1>5 DEF Begin, TypeOK, Busy
  <2>2. \A v \in Busy' : v # w => v \in Busy /\ Key(v)' = Key(v)
    BY <2>1 DEF Busy, Key
  <2>3. Key(w)' = i /\ worker'[w].at = "query" /\ worker'[w].attempt = 1
    BY <2>1 DEF Key
  <2>4. ~overlapped' => ~overlapped /\ \A v \in Busy : Key(v) # i
    BY <1>5 DEF Begin
  <2>5. CallsApart'
    BY <2>2, <2>3, <2>4 DEF Consistent, CallsApart
  <2>6. CompletingHasOutput'
    BY <1>5, <2>1, <2>2, <2>3
    DEF Begin, Consistent, CompletingHasOutput, At, Busy
  <2>7. AttemptsLeft'
    BY <2>1, <2>2, <2>3, MaxAttemptsAssumption DEF Consistent, AttemptsLeft, Busy
  <2>8. CompletedIsNotRerun'
    BY <1>5, <2>1, <2>2, <2>3, <2>4
    DEF Begin, IsDone, Consistent, CompletedIsNotRerun, Trying, Busy
  <2>9. StagesHaveOutputs'
    BY <1>5 DEF Begin, Consistent, StagesHaveOutputs, HasOutput
  <2> QED
    BY <2>5, <2>6, <2>7, <2>8, <2>9 DEF Consistent
<1>6. ASSUME NEW w \in Workers, Query(w) PROVE Consistent'
  BY <1>1, <1>6, QuietMove DEF Query, At
<1>7. ASSUME NEW w \in Workers, ResumeOwn(w) PROVE Consistent'
  <2>1. run'.stages = run.stages
    BY <1>7 DEF ResumeOwn, Resumed, TypeOK
  <2> QED
    BY <1>1, <1>7, <2>1, QuietMove DEF ResumeOwn, At
<1>8. ASSUME NEW w \in Workers, Operate(w) PROVE Consistent'
  BY <1>1, <1>8, QuietMove DEF Operate, At
<1>9. ASSUME NEW w \in Workers, RecordFailure(w) PROVE Consistent'
  <2>1. /\ w \in Busy /\ worker[w].at = "record"
        /\ Leave(w) \/ Retries(w)
        /\ overlapped' = overlapped
    BY <1>9, RecordFacts
  <2>2. PICK status \in {"RETRY_WAIT", "NEEDS_INPUT", "BLOCKED", "FAILED"} :
          /\ cp' = [cp EXCEPT ![Key(w)] = Failed(cp[Key(w)], status)]
          /\ run' = [run EXCEPT !.status = status]
    BY <1>9, RecordFacts
  <2>3. Key(w) \in Items /\ cp \in [Items -> Checkpoint] /\ cp[Key(w)] \in Checkpoint
    BY <2>1, ItemOf DEF TypeOK
  <2>4. /\ cp'[Key(w)].status # "COMPLETED"
        /\ \A i \in Items : cp'[i].output = cp[i].output
        /\ \A i \in Items \ {Key(w)} : cp'[i] = cp[i]
        /\ run'.stages = run.stages
    BY <2>2, <2>3, FailedTypes DEF TypeOK
  <2>5. /\ worker'[w] # Idle => /\ worker'[w].at = "query"
                                /\ worker'[w].item = worker[w].item
                                /\ worker'[w].attempt <= MaxAttempts
        /\ \A v \in Workers \ {w} : worker'[v] = worker[v]
        /\ Busy' \subseteq Busy
    <3>1. CASE Leave(w)
      BY <2>1, <3>1, LeaveFacts, InCall
    <3>2. CASE Retries(w)
      BY <2>1, <3>2, RetryFacts
    <3> QED
      BY <2>1, <3>1, <3>2
  <2>6. \A v \in Busy' : v \in Workers /\ v \in Busy /\ Key(v)' = Key(v) /\ Key(v) \in Items
    BY <2>5, ItemOf DEF Busy, Key
  <2>7. CallsApart'
    BY <2>1, <2>6 DEF Consistent, CallsApart
  <2>8. CompletingHasOutput'
    BY <2>4, <2>5, <2>6 DEF Consistent, CompletingHasOutput, At, Busy
  <2>9. AttemptsLeft'
    BY <2>5, <2>6 DEF Consistent, AttemptsLeft, Busy
  <2>10. CompletedIsNotRerun'
    BY <2>1, <2>4, <2>5, <2>6 DEF Consistent, CompletedIsNotRerun, Trying, Busy
  <2>11. StagesHaveOutputs'
    BY <1>9, <2>4 DEF RecordFailure, Consistent, StagesHaveOutputs, HasOutput
  <2> QED
    BY <2>7, <2>8, <2>9, <2>10, <2>11 DEF Consistent
<1>10. ASSUME NEW w \in Workers, SaveCheckpoint(w) PROVE Consistent'
  <2>1. w \in Busy /\ worker[w].at = "save" /\ Key(w) \in Items
    BY <1>10, ItemOf DEF SaveCheckpoint, At
  <2>2. CASE /\ Leave(w) /\ cp' = cp
             /\ IsDone(Key(w)) /\ reused' = reused \cup {Key(w).stage}
    <3>1. HasOutput(Key(w).stage)
      BY <2>1, <2>2 DEF IsDone, TypeOK, HasOutput
    <3>2. ToldOfOutputs
      BY <2>2, <3>1 DEF ToldOfOutputs
    <3> QED
      BY <1>10, <2>1, <2>2, <3>2, QuietMove DEF SaveCheckpoint
  <2>3. CASE /\ cp' = [cp EXCEPT ![Key(w)] = [status |-> "COMPLETED", output |-> w]]
             /\ Goto(w, "complete") /\ reused' = reused
    <3>1. /\ worker'[w].at = "complete"
          /\ worker'[w].item = worker[w].item
          /\ worker'[w].attempt = worker[w].attempt
          /\ \A v \in Workers \ {w} : worker'[v] = worker[v]
          /\ Busy' = Busy
      BY <2>1, <2>3, GotoFacts DEF Steps
    <3>2. \A v \in Busy : v \in Workers /\ Key(v)' = Key(v) /\ Key(v) \in Items
      BY <3>1, ItemOf DEF Busy, Key
    <3>3. /\ cp'[Key(w)].output = w /\ w # NULL
          /\ \A i \in Items : i # Key(w) => cp'[i] = cp[i]
      BY <2>1, <2>3, NullAssumption DEF TypeOK
    <3>4. UNCHANGED <<run, overlapped>>
      BY <1>10 DEF SaveCheckpoint
    <3>5. CallsApart'
      BY <3>1, <3>2, <3>4 DEF Consistent, CallsApart
    <3>6. CompletingHasOutput'
      BY <3>1, <3>2, <3>3 DEF Consistent, CompletingHasOutput, At
    <3>7. AttemptsLeft'
      BY <3>1, <3>2 DEF Consistent, AttemptsLeft
    <3>8. CompletedIsNotRerun'
      <4>1. ASSUME ~overlapped, NEW v \in Trying'
            PROVE  cp'[Key(v)'].status # "COMPLETED"
        <5>1. v \in Trying /\ v # w /\ Key(v)' = Key(v) /\ Key(v) \in Items
          BY <3>1, <3>2, <4>1 DEF Trying
        <5>2. Key(v) # Key(w)
          BY <2>1, <4>1, <5>1 DEF Consistent, CallsApart, Trying
        <5> QED
          BY <3>3, <4>1, <5>1, <5>2 DEF Consistent, CompletedIsNotRerun
      <4> QED
        BY <3>4, <4>1 DEF CompletedIsNotRerun
    <3>9. StagesHaveOutputs'
      BY <2>3, <3>3, <3>4 DEF Consistent, StagesHaveOutputs, HasOutput
    <3> QED
      BY <3>5, <3>6, <3>7, <3>8, <3>9 DEF Consistent
  <2> QED
    BY <1>10, <2>2, <2>3 DEF SaveCheckpoint
<1>11. ASSUME NEW w \in Workers, CompleteRun(w) PROVE Consistent'
  <2>1. /\ w \in Busy /\ At(w, "complete") /\ Leave(w)
        /\ UNCHANGED <<cp, reused, overlapped>>
        /\ Key(w) \in Items
    BY <1>11, ItemOf DEF CompleteRun, At
  <2>2. run'.stages \subseteq run.stages \cup {Key(w).stage}
    BY <1>11 DEF CompleteRun
  <2>3. cp[Key(w)].output # NULL
    BY <2>1 DEF Consistent, CompletingHasOutput
  <2>4. StagesHaveOutputs'
    BY <2>1, <2>2, <2>3 DEF Consistent, StagesHaveOutputs, HasOutput
  <2>5. /\ worker'[w] = Idle
        /\ \A v \in Workers \ {w} : worker'[v] = worker[v]
        /\ Busy' = Busy \ {w}
    BY <2>1, LeaveFacts
  <2>6. \A v \in Busy' : v \in Busy /\ worker'[v] = worker[v] /\ Key(v)' = Key(v)
    BY <2>5 DEF Busy, Key
  <2>7. CallsApart' /\ CompletingHasOutput' /\ AttemptsLeft'
    BY <2>1, <2>6 DEF Consistent, CallsApart, CompletingHasOutput, AttemptsLeft, At
  <2>8. CompletedIsNotRerun'
    BY <2>1, <2>6 DEF Consistent, CompletedIsNotRerun, Trying
  <2> QED
    BY <2>4, <2>7, <2>8 DEF Consistent
<1>12. ASSUME NEW w \in Workers, Crash(w) PROVE Consistent'
  BY <1>1, <1>12, QuietMove DEF Crash
<1>13. CASE Pause \/ Resume \/ Cancel
  <2>1. run'.stages = run.stages
    BY <1>13 DEF Pause, Resume, Cancel, Resumed, TypeOK
  <2> QED
    BY <1>1, <1>2, <1>13, <2>1 DEF Pause, Resume, Cancel
<1> QED
  BY <1>3, <1>4, <1>5, <1>6, <1>7, <1>8, <1>9, <1>10, <1>11, <1>12, <1>13
  DEF Next, WorkerStep

LEMMA InitConsistent == Init => Consistent
  BY DEF Init, Consistent, CallsApart, CompletingHasOutput, AttemptsLeft,
         CompletedIsNotRerun, StagesHaveOutputs, Busy, Trying, At

\* The inductive invariant.
THEOREM ConsistencyHolds == Spec => [](TypeOK /\ Consistent)
<1>1. Init => TypeOK /\ Consistent
  BY InitTypes, InitConsistent
<1>2. TypeOK /\ Consistent /\ [Next]_vars => (TypeOK /\ Consistent)'
  BY StepTypes, StepConsistent
<1> QED
  BY <1>1, <1>2, PTL DEF Spec

----------------------------------------------------------------------------
(* Theorems *)

\* A completed stage is not executed again by calls that do not overlap.
THEOREM NotRerunCorrect == Spec => []CompletedIsNotRerun
<1>1. Consistent => CompletedIsNotRerun
  BY DEF Consistent
<1> QED
  BY <1>1, ConsistencyHolds, PTL

\* Every stage the run, or a caller, knows to be completed has outputs on file.
THEOREM OutputsCorrect == Spec => []StagesHaveOutputs
<1>1. Consistent => StagesHaveOutputs
  BY DEF Consistent
<1> QED
  BY <1>1, ConsistencyHolds, PTL

\* The loop's assertion is never reached, whatever the number of attempts.
THEOREM LoopCorrect == Spec => []LoopHasResult
<1>1. Consistent => LoopHasResult
  BY DEF Consistent, AttemptsLeft, LoopHasResult, At
<1> QED
  BY <1>1, ConsistencyHolds, PTL

\* Only two operations write checkpoints.
LEMMA Writers ==
  ASSUME TypeOK, [Next]_vars, NEW i \in Items, cp'[i] # cp[i]
  PROVE  \E w \in Busy :
           /\ Key(w) = i
           /\ \/ RecordFailure(w) /\ w \in Trying
              \/ SaveCheckpoint(w) /\ ~IsDone(i)
<1>1. ASSUME NEW w \in Workers, RecordFailure(w)
      PROVE  w \in Busy /\ w \in Trying /\ Key(w) = i
  <2>1. w \in Busy /\ worker[w].at = "record"
    BY <1>1, RecordFacts
  <2>2. PICK status : cp' = [cp EXCEPT ![Key(w)] = Failed(cp[Key(w)], status)]
    BY <1>1, RecordFacts
  <2> QED
    BY <2>1, <2>2 DEF Trying, TypeOK
<1>2. ASSUME NEW w \in Workers, SaveCheckpoint(w)
      PROVE  w \in Busy /\ Key(w) = i /\ ~IsDone(i)
  <2>1. w \in Busy /\ ~IsDone(Key(w))
    BY <1>2 DEF SaveCheckpoint, At
  <2>2. cp' = [cp EXCEPT ![Key(w)] = [status |-> "COMPLETED", output |-> w]]
    BY <1>2 DEF SaveCheckpoint
  <2> QED
    BY <2>1, <2>2 DEF TypeOK
<1>3. PICK w \in Workers : RecordFailure(w) \/ SaveCheckpoint(w)
  BY DEF Next, WorkerStep, vars, Reuse, Begin, Query, ResumeOwn, Operate,
         CompleteRun, Crash, Pause, Resume, Cancel
<1> QED
  BY <1>1, <1>2, <1>3

\* A completed checkpoint is final for calls that do not overlap.
THEOREM StandsCorrect == Spec => CompletedStands
<1> DEFINE Stands == \A i \in Items : ~overlapped' /\ IsDone(i) => cp'[i] = cp[i]
<1>1. ASSUME TypeOK, Consistent, [Next]_vars PROVE Stands
  <2>1. ASSUME NEW i \in Items, ~overlapped', IsDone(i), cp'[i] # cp[i] PROVE FALSE
    <3>1. PICK w \in Busy : Key(w) = i /\ RecordFailure(w) /\ w \in Trying
      BY <1>1, <2>1, Writers
    <3>2. ~overlapped
      BY <2>1, <3>1 DEF RecordFailure
    <3> QED
      BY <1>1, <2>1, <3>1, <3>2 DEF Consistent, CompletedIsNotRerun, IsDone
  <2> QED
    BY <2>1
<1>2. TypeOK /\ Consistent /\ [Next]_vars => [Stands]_vars
  BY <1>1
<1> QED
  BY <1>2, ConsistencyHolds, PTL DEF Spec, CompletedStands

----------------------------------------------------------------------------
(***************************************************************************)
(* The calls of the port, over both runtimes.  The argument: a run has the *)
(* same fields in memory and in its row (Matches), its events in memory    *)
(* are numbered from 1, and its event rows, wherever they stand in the     *)
(* table, tell the same in the order of their numbers (LogAt).  A run that *)
(* was given a checkpoint before it was started keeps only the numbering   *)
(* (Stored).  A reader has the events up to the number it saw last         *)
(* (ReaderFits, WatcherFits).                                              *)
(***************************************************************************)

\* The composition runs stages as StageRunner does, or leaves them alone: its
\* theorems hold of the runtime in use.
THEOREM RuntimeImplementsStages == RuntimeSpec => Spec
<1>1. RuntimeInit => Init
  BY DEF RuntimeInit
<1>2. [RuntimeNext]_<<vars, adapterVars, client>> => [Next]_vars
  BY DEF RuntimeNext, RunStages, CallPort
<1> QED
  BY <1>1, <1>2, PTL DEF RuntimeSpec, Spec

----------------------------------------------------------------------------
(* Numbers in order *)

LEMMA SameCardinality ==
  ASSUME NEW S
  PROVE  Adapters!Cardinality(S) = Cardinality(S)
  BY DEF Adapters!Cardinality, Cardinality

LEMMA Finite ==
  ASSUME NEW len \in Nat, NEW S \in SUBSET (1 .. len)
  PROVE  IsFiniteSet(S) /\ Cardinality(S) \in Nat
<1>1. IsFiniteSet(1 .. len)
  BY FS_Interval
<1> QED
  BY <1>1, FS_Subset, FS_CardinalityType

LEMMA CountTo ==
  ASSUME NEW n \in Nat
  PROVE  Cardinality(1 .. n) = n
<1>1. Cardinality(1 .. n) = IF 1 > n THEN 0 ELSE n - 1 + 1
  BY FS_Interval
<1> QED
  BY <1>1

LEMMA DisjointUnion ==
  ASSUME NEW S, NEW T, IsFiniteSet(S), IsFiniteSet(T), S \cap T = {}
  PROVE  Cardinality(S \cup T) = Cardinality(S) + Cardinality(T)
<1> DEFINE both == S \cap T
<1>1. Cardinality(S \cup T)
        = Cardinality(S) + Cardinality(T) - Cardinality(both)
  BY FS_Union
<1>2. both = {}
  OBVIOUS
<1> HIDE DEF both
<1>3. Cardinality(both) = 0
  BY <1>2, FS_EmptySet
<1>4. Cardinality(S) \in Nat /\ Cardinality(T) \in Nat
  BY FS_CardinalityType
<1> QED
  BY <1>1, <1>3, <1>4

\* Ranks tell the members of a set apart, and every rank is somebody's.
LEMMA RankFacts ==
  ASSUME NEW len \in Nat, NEW S \in SUBSET (1 .. len)
  PROVE  /\ \A n \in S : Adapters!Rank(S, n) \in 1 .. Cardinality(S)
         /\ \A m, n \in S :
              Adapters!Rank(S, m) = Adapters!Rank(S, n) => m = n
         /\ \A i \in 1 .. Cardinality(S) : \E n \in S : Adapters!Rank(S, n) = i
<1> DEFINE below(n) == {m \in S : m <= n}
           rank == [n \in S |-> Adapters!Rank(S, n)]
<1>1. IsFiniteSet(S) /\ Cardinality(S) \in Nat
  BY Finite
<1>2. \A n : Adapters!Rank(S, n) = Cardinality(below(n))
  BY SameCardinality DEF Adapters!Rank
<1>3. \A n : below(n) \in SUBSET S
  OBVIOUS
<1>4. \A n : /\ IsFiniteSet(below(n))
             /\ Cardinality(below(n)) \in Nat
             /\ Cardinality(below(n)) <= Cardinality(S)
  <2> HIDE DEF below
  <2> QED
    BY <1>1, <1>3, FS_Subset, FS_CardinalityType
<1>5. ASSUME NEW n \in S PROVE Cardinality(below(n)) # 0
  <2>1. n \in below(n)
    OBVIOUS
  <2> HIDE DEF below
  <2> QED
    BY <1>4, <2>1, FS_EmptySet
<1>6. \A n \in S : Adapters!Rank(S, n) \in 1 .. Cardinality(S)
  <2> HIDE DEF below
  <2> QED
    BY <1>1, <1>2, <1>4, <1>5
<1>7. ASSUME NEW m \in S, NEW n \in S, m < n
      PROVE  Adapters!Rank(S, m) # Adapters!Rank(S, n)
  <2>1. m \in Int /\ n \in Int /\ \A k \in S : k \in Int
    OBVIOUS
  <2>2. below(m) \in SUBSET below(n) /\ n \in below(n) /\ n \notin below(m)
    <3>1. \A k \in S : k <= m => k <= n
      BY <1>7, <2>1
    <3>2. n <= n /\ ~(n <= m)
      BY <1>7, <2>1
    <3> QED
      BY <3>1, <3>2
  <2> HIDE DEF below
  <2>3. below(m) # below(n)
    BY <2>2
  <2>4. Cardinality(below(m)) # Cardinality(below(n))
    BY <1>4, <2>2, <2>3, FS_Subset
  <2> QED
    BY <1>2, <2>4
<1>8. \A m, n \in S : Adapters!Rank(S, m) = Adapters!Rank(S, n) => m = n
  <2>1. \A m, n \in S : m < n \/ n < m \/ m = n
    OBVIOUS
  <2> QED
    BY <1>7, <2>1
<1>9. \A i \in 1 .. Cardinality(S) : \E n \in S : Adapters!Rank(S, n) = i
  <2> DEFINE numbers == 1 .. Cardinality(S)
  <2>1. rank \in Injection(S, numbers)
    <3>1. rank \in [S -> numbers]
      BY <1>6
    <3>2. \A m, n \in S : rank[m] = rank[n] => m = n
      BY <1>8
    <3> HIDE DEF rank, numbers
    <3> QED
      BY <3>1, <3>2 DEF Injection, IsInjective
  <2>2. IsFiniteSet(numbers) /\ Cardinality(numbers) = Cardinality(S)
    BY <1>1, FS_Interval
  <2> HIDE DEF rank, numbers
  <2>3. rank \in Surjection(S, numbers)
    BY <2>1, <2>2, FS_Injection
  <2>4. \A i \in numbers : \E n \in S : rank[n] = i
    BY <2>3 DEF Surjection
  <2> QED
    BY <2>4 DEF rank, numbers
<1> QED
  BY <1>6, <1>8, <1>9

\* InOrder lists a set by rank.
LEMMA InOrderFacts ==
  ASSUME NEW len \in Nat, NEW S \in SUBSET (1 .. len)
  PROVE  /\ \A i \in 1 .. Cardinality(S) : Adapters!InOrder(S)[i] \in S
         /\ \A n \in S : Adapters!InOrder(S)[Adapters!Rank(S, n)] = n
<1> DEFINE nth(i) == CHOOSE n \in S : Adapters!Rank(S, n) = i
<1>1. ASSUME NEW i \in 1 .. Cardinality(S)
      PROVE  nth(i) \in S /\ Adapters!Rank(S, nth(i)) = i
  BY RankFacts
<1>2. Adapters!InOrder(S) = [i \in 1 .. Cardinality(S) |-> nth(i)]
  BY SameCardinality DEF Adapters!InOrder
<1> HIDE DEF nth
<1>3. \A i \in 1 .. Cardinality(S) : Adapters!InOrder(S)[i] = nth(i)
  BY <1>2
<1>4. ASSUME NEW n \in S
      PROVE  Adapters!InOrder(S)[Adapters!Rank(S, n)] = n
  <2>1. Adapters!Rank(S, n) \in 1 .. Cardinality(S)
    BY RankFacts
  <2>2. nth(Adapters!Rank(S, n)) \in S
        /\ Adapters!Rank(S, nth(Adapters!Rank(S, n))) = Adapters!Rank(S, n)
    BY <1>1, <2>1
  <2>3. nth(Adapters!Rank(S, n)) = n
    BY <2>2, RankFacts
  <2> QED
    BY <1>3, <2>1, <2>3
<1> QED
  BY <1>1, <1>3, <1>4

\* What a set has up to a number, and above it.
UpTo(S, cut) == {n \in S : n <= cut}
Above(S, cut) == {n \in S : n > cut}

\* The numbers up to a cut come first, then those above it.
LEMMA InOrderSplits ==
  ASSUME NEW len \in Nat, NEW S \in SUBSET (1 .. len), NEW cut \in Nat
  PROVE  /\ Cardinality(S)
              = Cardinality(UpTo(S, cut)) + Cardinality(Above(S, cut))
         /\ \A i \in 1 .. Cardinality(UpTo(S, cut)) :
              Adapters!InOrder(S)[i] = Adapters!InOrder(UpTo(S, cut))[i]
         /\ \A i \in 1 .. Cardinality(Above(S, cut)) :
              Adapters!InOrder(S)[Cardinality(UpTo(S, cut)) + i]
                = Adapters!InOrder(Above(S, cut))[i]
<1> DEFINE low == UpTo(S, cut)
           high == Above(S, cut)
<1> USE DEF UpTo, Above
<1>1. \A n \in S : n \in Int /\ (n <= cut \/ n > cut) /\ ~(n <= cut /\ n > cut)
  OBVIOUS
<1>2. /\ low \in SUBSET (1 .. len) /\ high \in SUBSET (1 .. len)
      /\ S = low \cup high /\ low \cap high = {}
      /\ \A m \in low, n \in high : m < n
  <2>1. low \in SUBSET (1 .. len) /\ high \in SUBSET (1 .. len)
    OBVIOUS
  <2>2. S = low \cup high
    BY <1>1
  <2>3. low \cap high = {}
    BY <1>1
  <2>4. \A m \in low, n \in high : m < n
    BY <1>1
  <2> QED
    BY <2>1, <2>2, <2>3, <2>4
<1> HIDE DEF UpTo, Above, low, high
<1>3. /\ IsFiniteSet(low) /\ Cardinality(low) \in Nat
      /\ IsFiniteSet(high) /\ Cardinality(high) \in Nat
  BY <1>2, Finite
<1>4. Cardinality(S) = Cardinality(low) + Cardinality(high)
  BY <1>2, <1>3, DisjointUnion
<1>5. \A n : Adapters!Rank(S, n) = Cardinality({m \in S : m <= n})
  BY SameCardinality DEF Adapters!Rank
<1>6. ASSUME NEW n \in low
      PROVE  Adapters!Rank(S, n) = Adapters!Rank(low, n)
  <2>1. {m \in S : m <= n} = {m \in low : m <= n}
    <3>1. \A m \in S : m \in Int /\ (m \in low \/ m \in high)
      BY <1>2
    <3>2. \A m \in high : ~(m <= n)
      BY <1>2
    <3> QED
      BY <1>2, <3>1, <3>2
  <2> QED
    BY <1>5, <2>1, SameCardinality DEF Adapters!Rank
<1>7. ASSUME NEW n \in high
      PROVE  Adapters!Rank(S, n) = Cardinality(low) + Adapters!Rank(high, n)
  <2> DEFINE upper == {m \in high : m <= n}
  <2>1. {m \in S : m <= n} = low \cup upper /\ low \cap upper = {}
    <3>1. \A m \in low : m <= n
      BY <1>2
    <3> QED
      BY <1>2, <3>1
  <2>2. upper \in SUBSET (1 .. len)
    BY <1>2
  <2>3. Adapters!Rank(high, n) = Cardinality(upper)
    BY SameCardinality DEF Adapters!Rank
  <2> HIDE DEF upper
  <2>4. IsFiniteSet(upper) /\ Cardinality(upper) \in Nat
    BY <2>2, Finite
  <2>5. Cardinality(low \cup upper) = Cardinality(low) + Cardinality(upper)
    BY <1>3, <2>1, <2>4, DisjointUnion
  <2> QED
    BY <1>5, <2>1, <2>3, <2>5
<1>8. ASSUME NEW T \in SUBSET (1 .. len), NEW i \in 1 .. Cardinality(T)
      PROVE  \E n \in T : Adapters!Rank(T, n) = i
  BY RankFacts
<1>9. ASSUME NEW i \in 1 .. Cardinality(low)
      PROVE  Adapters!InOrder(S)[i] = Adapters!InOrder(low)[i]
  <2>1. PICK n \in low : Adapters!Rank(low, n) = i
    BY <1>2, <1>8
  <2>2. Adapters!InOrder(low)[i] = n
    BY <1>2, <2>1, InOrderFacts
  <2>3. n \in S /\ Adapters!Rank(S, n) = i
    BY <1>2, <1>6, <2>1
  <2> QED
    BY <2>2, <2>3, InOrderFacts
<1>10. ASSUME NEW i \in 1 .. Cardinality(high)
      PROVE  Adapters!InOrder(S)[Cardinality(low) + i]
               = Adapters!InOrder(high)[i]
  <2>1. PICK n \in high : Adapters!Rank(high, n) = i
    BY <1>2, <1>8
  <2>2. Adapters!InOrder(high)[i] = n
    BY <1>2, <2>1, InOrderFacts
  <2>3. n \in S /\ Adapters!Rank(S, n) = Cardinality(low) + i
    BY <1>2, <1>7, <2>1
  <2> QED
    BY <2>2, <2>3, InOrderFacts
<1> QED
  BY <1>4, <1>9, <1>10 DEF low, high

LEMMA SingletonOrder ==
  ASSUME NEW n
  PROVE  /\ Cardinality({n}) = 1
         /\ n \in Nat => Adapters!InOrder({n})[1] = n
<1>1. Cardinality({n}) = 1
  BY FS_Singleton
<1>2. ASSUME n \in Nat PROVE Adapters!InOrder({n})[1] = n
  <2>1. {m \in {n} : m <= n} = {n}
    BY <1>2
  <2>2. Adapters!Rank({n}, n) = 1
    BY <1>1, <2>1, SameCardinality DEF Adapters!Rank
  <2>3. Adapters!InOrder({n}) =
          [i \in 1 .. 1 |-> CHOOSE m \in {n} : Adapters!Rank({n}, m) = i]
    BY <1>1, SameCardinality DEF Adapters!InOrder
  <2> DEFINE nth(i) == CHOOSE m \in {n} : Adapters!Rank({n}, m) = i
  <2>4. nth(1) = n
    BY <2>2
  <2>5. Adapters!InOrder({n}) = [i \in 1 .. 1 |-> nth(i)]
    BY <2>3
  <2> HIDE DEF nth
  <2> QED
    BY <2>4, <2>5
<1> QED
  BY <1>1, <1>2

\* The last of a set in order is its greatest number.
LEMMA LastInOrder ==
  ASSUME NEW len \in Nat, NEW S \in SUBSET (1 .. len), S # {}
  PROVE  /\ Cardinality(S) \in Nat \ {0}
         /\ Adapters!InOrder(S)[Cardinality(S)] \in S
         /\ \A n \in S : n <= Adapters!InOrder(S)[Cardinality(S)]
<1>1. IsFiniteSet(S) /\ Cardinality(S) \in Nat /\ Cardinality(S) # 0
  BY Finite, FS_EmptySet
<1>2. PICK n \in S : Adapters!Rank(S, n) = Cardinality(S)
  BY <1>1, RankFacts
<1>3. Adapters!InOrder(S)[Cardinality(S)] = n
  BY <1>2, InOrderFacts
<1> DEFINE below == {m \in S : m <= n}
<1>4. below \in SUBSET S /\ Cardinality(below) = Cardinality(S)
  BY <1>2, SameCardinality DEF Adapters!Rank
<1> HIDE DEF below
<1>5. below = S
  BY <1>1, <1>4, FS_Subset
<1>6. \A m \in S : m <= n
  BY <1>5 DEF below
<1> QED
  BY <1>1, <1>3, <1>6

----------------------------------------------------------------------------
(* What a caller is told of events *)

Told(event) == <<event.type, event.stage>>

Entry == {Told(event) : event \in Adapters!Event \cup Adapters!EventRow}

\* What the events at the numbers of S tell, in their order.
LogAt(events, S) ==
  [i \in 1 .. Cardinality(S) |-> Told(events[Adapters!InOrder(S)[i]])]

\* The events a run has in memory, and the rows of the table.
Events == Seq(Adapters!Event) \cup Seq(Adapters!EventRow)

LEMMA EventFacts ==
  ASSUME NEW events \in Events
  PROVE  /\ Len(events) \in Nat
         /\ DOMAIN events = 1 .. Len(events)
         /\ \A i \in 1 .. Len(events) : Told(events[i]) \in Entry
<1>1. CASE events \in Seq(Adapters!Event)
  <2>1. \A i \in 1 .. Len(events) : events[i] \in Adapters!Event
    BY <1>1, LenProperties
  <2> QED
    BY <1>1, <2>1, LenProperties DEF Entry
<1>2. CASE events \in Seq(Adapters!EventRow)
  <2>1. \A i \in 1 .. Len(events) : events[i] \in Adapters!EventRow
    BY <1>2, LenProperties
  <2> QED
    BY <1>2, <2>1, LenProperties DEF Entry
<1> QED
  BY <1>1, <1>2 DEF Events

LEMMA LogFacts ==
  ASSUME NEW events \in Events, NEW S \in SUBSET (1 .. Len(events))
  PROVE  /\ Cardinality(S) \in Nat
         /\ LogAt(events, S) \in Seq(Entry)
         /\ Len(LogAt(events, S)) = Cardinality(S)
         /\ \A i \in 1 .. Cardinality(S) :
              /\ Adapters!InOrder(S)[i] \in S
              /\ LogAt(events, S)[i] = Told(events[Adapters!InOrder(S)[i]])
<1>1. Cardinality(S) \in Nat
  BY EventFacts, Finite
<1>2. \A i \in 1 .. Cardinality(S) : Adapters!InOrder(S)[i] \in S
  BY EventFacts, InOrderFacts
<1>3. LogAt(events, S) \in [1 .. Cardinality(S) -> Entry]
  <2>1. \A i \in 1 .. Cardinality(S) :
          Told(events[Adapters!InOrder(S)[i]]) \in Entry
    BY <1>2, EventFacts
  <2> QED
    BY <2>1 DEF LogAt
<1>4. LogAt(events, S) \in Seq(Entry)
  BY <1>1, <1>3, SeqDef
<1>5. Len(LogAt(events, S)) = Cardinality(S)
  BY <1>1, <1>3, <1>4, LenProperties
<1>6. \A i \in 1 .. Cardinality(S) :
        LogAt(events, S)[i] = Told(events[Adapters!InOrder(S)[i]])
  BY DEF LogAt
<1> QED
  BY <1>1, <1>2, <1>4, <1>5, <1>6

\* Log of what is selected.
LEMMA LogOfSelected ==
  ASSUME NEW events \in Events, NEW S \in SUBSET (1 .. Len(events))
  PROVE  /\ Len(Adapters!Selected(events, S)) = Cardinality(S)
         /\ \A i \in 1 .. Cardinality(S) :
              Adapters!Selected(events, S)[i] = events[Adapters!InOrder(S)[i]]
         /\ Adapters!Log(Adapters!Selected(events, S)) = LogAt(events, S)
         /\ Adapters!Selected(events, S) = <<>> <=> S = {}
<1> DEFINE all == {events[i] : i \in 1 .. Len(events)}
           selected == Adapters!Selected(events, S)
<1>1. selected = [i \in 1 .. Cardinality(S) |-> events[Adapters!InOrder(S)[i]]]
  BY SameCardinality DEF Adapters!Selected
<1>2. selected \in [1 .. Cardinality(S) -> all]
  <2>1. \A i \in 1 .. Cardinality(S) :
          Adapters!InOrder(S)[i] \in 1 .. Len(events)
    BY LogFacts
  <2>2. \A i \in 1 .. Cardinality(S) :
          events[Adapters!InOrder(S)[i]] \in all
    BY <2>1
  <2> HIDE DEF all
  <2> QED
    BY <1>1, <2>2
<1> HIDE DEF selected
<1>3. selected \in Seq(all)
  <2> HIDE DEF all
  <2> QED
    BY <1>2, LogFacts, SeqDef
<1>4. Len(selected) = Cardinality(S)
  <2> HIDE DEF all
  <2> QED
    BY <1>2, <1>3, LogFacts, LenProperties
<1>5. \A i \in 1 .. Cardinality(S) :
        selected[i] = events[Adapters!InOrder(S)[i]]
  BY <1>1
<1>6. Adapters!Log(selected) = LogAt(events, S)
  BY <1>4, <1>5 DEF Adapters!Log, LogAt, Told
<1>7. selected = <<>> <=> Len(selected) = 0
  <2> HIDE DEF all
  <2> QED
    BY <1>3, EmptySeq
<1>8. Cardinality(S) = 0 <=> S = {}
  BY EventFacts, Finite, FS_EmptySet
<1> QED
  BY <1>4, <1>5, <1>6, <1>7, <1>8 DEF selected

\* Log of all events.
LEMMA LogOfAll ==
  ASSUME NEW events \in Events
  PROVE  Adapters!Log(events) = LogAt(events, 1 .. Len(events))
<1> DEFINE S == 1 .. Len(events)
<1>1. Len(events) \in Nat
  BY EventFacts
<1>2. Cardinality(S) = Len(events)
  BY <1>1, CountTo
<1>3. ASSUME NEW i \in S PROVE Adapters!InOrder(S)[i] = i
  <2>1. {m \in S : m <= i} = 1 .. i
    BY <1>1
  <2>2. Cardinality(1 .. i) = i
    BY <1>1, CountTo
  <2>3. Adapters!Rank(S, i) = i
    BY <2>1, <2>2, SameCardinality DEF Adapters!Rank
  <2>4. S \in SUBSET (1 .. Len(events))
    OBVIOUS
  <2> HIDE DEF S
  <2>5. Adapters!InOrder(S)[Adapters!Rank(S, i)] = i
    BY <1>1, <2>4, InOrderFacts
  <2> QED
    BY <2>3, <2>5
<1> QED
  BY <1>2, <1>3 DEF Adapters!Log, LogAt, Told

\* What was told up to a number, and what is still to be told.
LEMMA LogSplits ==
  ASSUME NEW events \in Events, NEW S \in SUBSET (1 .. Len(events)),
         NEW cut \in Nat
  PROVE  LogAt(events, S)
           = LogAt(events, UpTo(S, cut)) \o LogAt(events, Above(S, cut))
<1> DEFINE low == UpTo(S, cut)
           high == Above(S, cut)
           whole == LogAt(events, S)
           first == LogAt(events, low)
           second == LogAt(events, high)
<1>1. low \in SUBSET (1 .. Len(events)) /\ high \in SUBSET (1 .. Len(events))
  BY DEF UpTo, Above
<1>2. /\ whole \in Seq(Entry) /\ Len(whole) = Cardinality(S)
      /\ first \in Seq(Entry) /\ Len(first) = Cardinality(low)
      /\ second \in Seq(Entry) /\ Len(second) = Cardinality(high)
      /\ Cardinality(low) \in Nat /\ Cardinality(high) \in Nat
  <2> HIDE DEF low, high
  <2>1. whole \in Seq(Entry) /\ Len(whole) = Cardinality(S)
    BY LogFacts
  <2>2. /\ first \in Seq(Entry) /\ Len(first) = Cardinality(low)
        /\ Cardinality(low) \in Nat
    BY <1>1, LogFacts
  <2>3. /\ second \in Seq(Entry) /\ Len(second) = Cardinality(high)
        /\ Cardinality(high) \in Nat
    BY <1>1, LogFacts
  <2> QED
    BY <2>1, <2>2, <2>3
<1>3. /\ Cardinality(S) = Cardinality(low) + Cardinality(high)
      /\ \A i \in 1 .. Cardinality(low) :
           Adapters!InOrder(S)[i] = Adapters!InOrder(low)[i]
      /\ \A i \in 1 .. Cardinality(high) :
           Adapters!InOrder(S)[Cardinality(low) + i]
             = Adapters!InOrder(high)[i]
  <2>1. Len(events) \in Nat
    BY EventFacts
  <2> QED
    BY <2>1, InOrderSplits
<1> HIDE DEF low, high
<1>4. ASSUME NEW i \in 1 .. Cardinality(low) PROVE whole[i] = first[i]
  <2>1. i \in 1 .. Cardinality(S)
    BY <1>2, <1>3
  <2>2. whole[i] = Told(events[Adapters!InOrder(S)[i]])
    BY <2>1, LogFacts
  <2>3. first[i] = Told(events[Adapters!InOrder(low)[i]])
    BY <1>1, LogFacts
  <2> QED
    BY <1>3, <2>2, <2>3
<1>5. ASSUME NEW i \in 1 .. Cardinality(high)
      PROVE  whole[Cardinality(low) + i] = second[i]
  <2> DEFINE place == Cardinality(low) + i
  <2>1. place \in 1 .. Cardinality(S)
    BY <1>2, <1>3
  <2>2. Adapters!InOrder(S)[place] = Adapters!InOrder(high)[i]
    BY <1>3
  <2> HIDE DEF place
  <2>3. whole[place] = Told(events[Adapters!InOrder(S)[place]])
    BY <2>1, LogFacts
  <2>4. second[i] = Told(events[Adapters!InOrder(high)[i]])
    BY <1>1, LogFacts
  <2>5. whole[place] = second[i]
    BY <2>2, <2>3, <2>4
  <2> QED
    BY <2>5 DEF place
<1> HIDE DEF whole, first, second
<1>6. /\ first \o second \in Seq(Entry)
      /\ Len(first \o second) = Len(first) + Len(second)
      /\ \A i \in 1 .. Len(first) + Len(second) : (first \o second)[i] =
           IF i <= Len(first) THEN first[i] ELSE second[i - Len(first)]
  BY <1>2, ConcatProperties
<1>7. ASSUME NEW i \in 1 .. Len(whole) PROVE whole[i] = (first \o second)[i]
  <2>1. i \in Int /\ i \in 1 .. Len(first) + Len(second)
    BY <1>2, <1>3
  <2>2. CASE i <= Len(first)
    BY <1>2, <1>3, <1>4, <1>6, <2>2
  <2>3. CASE i > Len(first)
    <3>1. i - Len(first) \in 1 .. Cardinality(high)
      BY <1>2, <1>3, <2>3
    <3>2. whole[Cardinality(low) + (i - Len(first))] = second[i - Len(first)]
      BY <1>5, <3>1
    <3>3. Cardinality(low) + (i - Len(first)) = i
      BY <1>2
    <3> QED
      BY <1>2, <1>6, <2>1, <2>3, <3>2, <3>3
  <2> QED
    BY <1>2, <2>1, <2>2, <2>3
<1>8. whole = first \o second
  BY <1>2, <1>3, <1>6, <1>7, SeqEqual
<1> QED
  BY <1>8 DEF whole, first, second, low, high

\* What was told does not change when events are added.
LEMMA LogKept ==
  ASSUME NEW events \in Events, NEW grown \in Events,
         NEW S \in SUBSET (1 .. Len(events)), Len(grown) >= Len(events),
         \A i \in 1 .. Len(events) : Told(grown[i]) = Told(events[i])
  PROVE  LogAt(grown, S) = LogAt(events, S)
<1>1. \A i \in 1 .. Cardinality(S) :
        Adapters!InOrder(S)[i] \in 1 .. Len(events)
  BY LogFacts
<1>2. \A i \in 1 .. Cardinality(S) :
        Told(grown[Adapters!InOrder(S)[i]])
          = Told(events[Adapters!InOrder(S)[i]])
  BY <1>1
<1> QED
  BY <1>2 DEF LogAt

\* The added event is told last.
LEMMA LogGrows ==
  ASSUME NEW events \in Events, NEW grown \in Events,
         NEW S \in SUBSET (1 .. Len(events)),
         Len(grown) = Len(events) + 1,
         \A i \in 1 .. Len(events) : Told(grown[i]) = Told(events[i])
  PROVE  LogAt(grown, S \cup {Len(grown)})
           = LogAt(events, S) \o <<Told(grown[Len(grown)])>>
<1> DEFINE new == Len(grown)
           old == Len(events)
           T == S \cup {new}
<1>1. old \in Nat /\ new = old + 1 /\ new \in Nat
  BY EventFacts
<1>2. T \in SUBSET (1 .. new) /\ UpTo(T, old) = S /\ Above(T, old) = {new}
  <2>1. \A i \in S : i \in 1 .. old
    OBVIOUS
  <2> HIDE DEF new, old
  <2>2. \A i \in S : i \in 1 .. new /\ i <= old /\ ~(i > old)
    BY <1>1, <2>1
  <2>3. new \in 1 .. new /\ new > old /\ ~(new <= old)
    BY <1>1
  <2>4. T \in SUBSET (1 .. new)
    BY <2>2, <2>3
  <2>5. UpTo(T, old) = S
    BY <2>2, <2>3 DEF UpTo
  <2>6. Above(T, old) = {new}
    BY <2>2, <2>3 DEF Above
  <2> QED
    BY <2>4, <2>5, <2>6
<1>3. LogAt(grown, T)
        = LogAt(grown, UpTo(T, old)) \o LogAt(grown, Above(T, old))
  <2> HIDE DEF T, old
  <2> QED
    BY <1>1, <1>2, LogSplits
<1>4. LogAt(grown, S) = LogAt(events, S)
  BY <1>1, LogKept
<1>5. LogAt(grown, {new}) = <<Told(grown[new])>>
  <2>1. Cardinality({new}) = 1 /\ Adapters!InOrder({new})[1] = new
    BY <1>1, SingletonOrder
  <2>2. LogAt(grown, {new})
          = [i \in 1 .. 1 |-> Told(grown[Adapters!InOrder({new})[i]])]
    BY <2>1 DEF LogAt
  <2> DEFINE told == Told(grown[new])
  <2>3. \A i \in 1 .. 1 : Told(grown[Adapters!InOrder({new})[i]]) = told
    <3>1. \A i \in 1 .. 1 : i = 1
      OBVIOUS
    <3> QED
      BY <2>1, <3>1
  <2> HIDE DEF told
  <2>4. [i \in 1 .. 1 |-> told] = <<told>>
    OBVIOUS
  <2> QED
    BY <2>2, <2>3, <2>4 DEF told
<1> HIDE DEF T, old
<1> QED
  BY <1>2, <1>3, <1>4, <1>5 DEF T

\* A new row has the next place of its run, and no other run has it.
LEMMA PlacesGrow ==
  ASSUME NEW rows \in Seq(Adapters!EventRow), NEW row \in Adapters!EventRow,
         NEW r
  PROVE  /\ Append(rows, row) \in Seq(Adapters!EventRow)
         /\ Len(Append(rows, row)) = Len(rows) + 1
         /\ \A i \in 1 .. Len(rows) : Append(rows, row)[i] = rows[i]
         /\ Append(rows, row)[Len(rows) + 1] = row
         /\ Adapters!Places(r, rows) \in SUBSET (1 .. Len(rows))
         /\ row.run = r =>
              Adapters!Places(r, Append(rows, row))
                = Adapters!Places(r, rows) \cup {Len(rows) + 1}
         /\ row.run # r =>
              Adapters!Places(r, Append(rows, row)) = Adapters!Places(r, rows)
<1>1. /\ Append(rows, row) \in Seq(Adapters!EventRow)
      /\ Len(Append(rows, row)) = Len(rows) + 1
      /\ \A i \in 1 .. Len(rows) : Append(rows, row)[i] = rows[i]
      /\ Append(rows, row)[Len(rows) + 1] = row
      /\ Len(rows) \in Nat
  BY AppendProperties, LenProperties
<1> DEFINE grown == Append(rows, row)
<1> HIDE DEF grown
<1>2. \A i : i \in 1 .. Len(grown) <=> i \in 1 .. Len(rows) \/ i = Len(rows) + 1
  BY <1>1 DEF grown
<1>3. Adapters!Places(r, rows) \in SUBSET (1 .. Len(rows))
  BY DEF Adapters!Places
<1>4. ASSUME row.run = r
      PROVE  Adapters!Places(r, grown)
               = Adapters!Places(r, rows) \cup {Len(rows) + 1}
  BY <1>1, <1>2, <1>4 DEF Adapters!Places, grown
<1>5. ASSUME row.run # r
      PROVE  Adapters!Places(r, grown) = Adapters!Places(r, rows)
  BY <1>1, <1>2, <1>5 DEF Adapters!Places, grown
<1> QED
  BY <1>1, <1>3, <1>4, <1>5 DEF grown

----------------------------------------------------------------------------
(* The invariant *)

\* A run in memory, its row, and its events in the table.  The reason of an
\* earlier pause is kept in memory only.
Matches(r, kept, row, rows) ==
  /\ kept \in Adapters!WorkflowRun /\ row \in Adapters!RunRow
  /\ kept.status = row.status /\ kept.stage = row.stage
  /\ kept.completed = row.completed /\ kept.effects = row.effects
  /\ kept.status = "PAUSED" => kept.reason = row.reason
  /\ \A i \in 1 .. Len(kept.events) : kept.events[i].sequence = i
  /\ Adapters!Log(kept.events) = LogAt(rows, Adapters!Places(r, rows))

\* What holds of a run that strayed as well.
Stored(kept, row) ==
  /\ kept \in Adapters!WorkflowRun /\ row \in Adapters!RunRow
  /\ \A i \in 1 .. Len(kept.events) : kept.events[i].sequence = i

Tallies(st, rs, rr, rows) ==
  /\ rows \in Seq(Adapters!EventRow)
  /\ DOMAIN rs \subseteq Adapters!Request /\ DOMAIN rr = DOMAIN rs
  /\ \A i \in 1 .. Len(rows) : rows[i].run \in DOMAIN rs
  /\ \A r \in DOMAIN rs : Stored(rs[r], rr[r])
  /\ \A r \in DOMAIN rs \ st : Matches(r, rs[r], rr[r], rows)

SameCheckpoints(st, kept, rows) ==
  \A k \in Adapters!CheckpointKey :
    k.run \notin st => /\ k \in DOMAIN kept <=> k \in DOMAIN rows
                       /\ k \in DOMAIN kept => kept[k] = rows[k]

NoReader == [run |-> NULL, memory |-> 0, sqlite |-> 0,
             memoryLog |-> <<>>, sqliteLog |-> <<>>]

\* A reader was told the events of its run up to the number it saw last, in
\* either numbering.
HasHeard(rd, events, rows) ==
  /\ rd.memory \in 0 .. Len(events) /\ rd.sqlite \in 0 .. Len(rows)
  /\ rd.memoryLog = LogAt(events, UpTo(1 .. Len(events), rd.memory))
  /\ rd.sqliteLog = LogAt(rows, UpTo(Adapters!Places(rd.run, rows), rd.sqlite))

ReaderFits(st, rd, rs, rows) ==
  \/ rd = NoReader
  \/ /\ rd.run \in DOMAIN rs /\ HasHeard(rd, rs[rd.run].events, rows)
     /\ rd.run \notin st => rd.memoryLog = rd.sqliteLog

NoWatcher == [project |-> NULL, last |-> 0, received |-> {}, again |-> FALSE]

WatcherFits(wt, rows) ==
  \/ wt = NoWatcher
  \/ /\ wt.project # NULL /\ wt.last \in 0 .. Len(rows) /\ ~wt.again
     /\ wt.received = UpTo(Adapters!PlacesOf(wt.project, rows), wt.last)

AdaptersMatch ==
  /\ Tallies(strayed, runs, runRows, eventRows)
  /\ SameCheckpoints(strayed, checkpoints, checkpointRows)
  /\ asked \cap strayed = {} => memoryAnswer = sqliteAnswer
  /\ ReaderFits(strayed, reader, runs, eventRows)
  /\ WatcherFits(watcher, eventRows)

----------------------------------------------------------------------------
(* One event more, on both sides *)

LEMMA WithEventFacts ==
  ASSUME NEW run0 \in Adapters!WorkflowRun, NEW type \in Adapters!EventType,
         NEW stage \in Adapters!Stage
  PROVE  LET new == Adapters!WithEvent(run0, type, stage) IN
         /\ new \in Adapters!WorkflowRun
         /\ new.status = run0.status /\ new.stage = run0.stage
         /\ new.completed = run0.completed /\ new.effects = run0.effects
         /\ new.reason = run0.reason
         /\ new.events \in Events /\ run0.events \in Events
         /\ Len(run0.events) \in Nat
         /\ Len(new.events) = Len(run0.events) + 1
         /\ \A i \in 1 .. Len(run0.events) : new.events[i] = run0.events[i]
         /\ new.events[Len(run0.events) + 1] =
              [sequence |-> Len(run0.events) + 1, type |-> type,
               stage |-> stage]
<1> DEFINE new == Adapters!WithEvent(run0, type, stage)
           event == [sequence |-> Len(run0.events) + 1, type |-> type,
                     stage |-> stage]
           events == Append(run0.events, event)
<1>1. run0.events \in Seq(Adapters!Event)
  BY DEF Adapters!WorkflowRun
<1>2. Len(run0.events) \in Nat
  BY <1>1, LenProperties
<1>3. event \in Adapters!Event
  BY <1>2 DEF Adapters!Event
<1>4. new = [run0 EXCEPT !.events = events]
  BY DEF Adapters!WithEvent, Adapters!Numbered
<1> HIDE DEF event
<1>5. /\ events \in Seq(Adapters!Event)
      /\ Len(events) = Len(run0.events) + 1
      /\ \A i \in 1 .. Len(run0.events) : events[i] = run0.events[i]
      /\ events[Len(run0.events) + 1] = event
  BY <1>1, <1>3, AppendProperties
<1> HIDE DEF events, new
<1>6. /\ new \in Adapters!WorkflowRun
      /\ new.status = run0.status /\ new.stage = run0.stage
      /\ new.completed = run0.completed /\ new.effects = run0.effects
      /\ new.reason = run0.reason /\ new.events = events
  BY <1>4, <1>5 DEF Adapters!WorkflowRun
<1> QED
  BY <1>1, <1>2, <1>5, <1>6 DEF Events, event, new

\* The event of a run is added to its log and to the table.
LEMMA EventAdded ==
  ASSUME NEW rows \in Seq(Adapters!EventRow), NEW r \in Adapters!Request,
         NEW run0, NEW row0, Matches(r, run0, row0, rows),
         NEW type \in Adapters!EventType, NEW stage \in Adapters!Stage
  PROVE  Matches(r, Adapters!WithEvent(run0, type, stage), row0,
                 Append(rows, [run |-> r, type |-> type, stage |-> stage]))
<1> DEFINE new == Adapters!WithEvent(run0, type, stage)
           row == [run |-> r, type |-> type, stage |-> stage]
           grown == Append(rows, row)
           places == Adapters!Places(r, rows)
<1>1. row \in Adapters!EventRow /\ row.run = r
      /\ Told(row) = <<type, stage>>
  BY DEF Adapters!EventRow, Told
<1>2. /\ run0 \in Adapters!WorkflowRun
      /\ \A i \in 1 .. Len(run0.events) : run0.events[i].sequence = i
      /\ Adapters!Log(run0.events) = LogAt(rows, places)
  BY DEF Matches
<1> HIDE DEF row
<1>3. /\ grown \in Events /\ rows \in Events /\ Len(rows) \in Nat
      /\ Len(grown) = Len(rows) + 1
      /\ \A i \in 1 .. Len(rows) : Told(grown[i]) = Told(rows[i])
      /\ grown[Len(rows) + 1] = row
      /\ places \in SUBSET (1 .. Len(rows))
      /\ Adapters!Places(r, grown) = places \cup {Len(grown)}
  BY <1>1, PlacesGrow, LenProperties DEF Events
<1>4. /\ new \in Adapters!WorkflowRun
      /\ new.status = run0.status /\ new.stage = run0.stage
      /\ new.completed = run0.completed /\ new.effects = run0.effects
      /\ new.reason = run0.reason
      /\ new.events \in Events /\ run0.events \in Events
      /\ Len(run0.events) \in Nat
      /\ Len(new.events) = Len(run0.events) + 1
      /\ \A i \in 1 .. Len(run0.events) : new.events[i] = run0.events[i]
      /\ new.events[Len(run0.events) + 1] =
           [sequence |-> Len(run0.events) + 1, type |-> type, stage |-> stage]
  BY <1>2, WithEventFacts
<1> HIDE DEF new, grown, places
<1>5. \A i \in 1 .. Len(new.events) : new.events[i].sequence = i
  <2>1. \A i \in 1 .. Len(new.events) :
          i \in 1 .. Len(run0.events) \/ i = Len(run0.events) + 1
    BY <1>4
  <2> QED
    BY <1>2, <1>4, <2>1
<1>6. LogAt(grown, Adapters!Places(r, grown))
        = LogAt(rows, places) \o << <<type, stage>> >>
  BY <1>1, <1>3, LogGrows
<1>7. Adapters!Log(new.events)
        = Adapters!Log(run0.events) \o << <<type, stage>> >>
  <2> DEFINE older == run0.events
             newer == new.events
  <2>1. Told(newer[Len(older) + 1]) = <<type, stage>>
    BY <1>4 DEF Told
  <2>2. /\ newer \in Events /\ older \in Events /\ Len(older) \in Nat
        /\ Len(newer) = Len(older) + 1
        /\ \A i \in 1 .. Len(older) : Told(newer[i]) = Told(older[i])
    BY <1>4
  <2>3. 1 .. Len(newer) = (1 .. Len(older)) \cup {Len(newer)}
    BY <2>2
  <2>4. LogAt(newer, (1 .. Len(older)) \cup {Len(newer)})
          = LogAt(older, 1 .. Len(older)) \o << <<type, stage>> >>
    <3> HIDE DEF older, newer
    <3> QED
      BY <2>1, <2>2, LogGrows
  <2>5. /\ Adapters!Log(newer) = LogAt(newer, 1 .. Len(newer))
        /\ Adapters!Log(older) = LogAt(older, 1 .. Len(older))
    BY <2>2, LogOfAll
  <2> HIDE DEF older, newer
  <2>6. Adapters!Log(newer) = Adapters!Log(older) \o << <<type, stage>> >>
    BY <2>3, <2>4, <2>5
  <2> QED
    BY <2>6 DEF older, newer
<1>8. Matches(r, new, row0, grown)
  BY <1>2, <1>4, <1>5, <1>6, <1>7 DEF Matches
<1> QED
  BY <1>8 DEF new, grown, row

\* The other runs are told what they were.
LEMMA OthersMatch ==
  ASSUME NEW rows \in Seq(Adapters!EventRow), NEW row \in Adapters!EventRow,
         NEW q, q # row.run, NEW run0, NEW row0, Matches(q, run0, row0, rows)
  PROVE  Matches(q, run0, row0, Append(rows, row))
<1> DEFINE grown == Append(rows, row)
           places == Adapters!Places(q, rows)
<1>1. /\ grown \in Events /\ rows \in Events /\ Len(rows) \in Nat
      /\ Len(grown) >= Len(rows)
      /\ \A i \in 1 .. Len(rows) : Told(grown[i]) = Told(rows[i])
      /\ places \in SUBSET (1 .. Len(rows))
      /\ Adapters!Places(q, grown) = places
  BY PlacesGrow, LenProperties DEF Events
<1> HIDE DEF grown, places
<1>2. LogAt(grown, places) = LogAt(rows, places)
  BY <1>1, LogKept
<1> QED
  BY <1>1, <1>2 DEF Matches, grown, places

\* A caller is shown the same run.
LEMMA ShownAlike ==
  ASSUME NEW rows \in Seq(Adapters!EventRow),
         NEW r, NEW run0, NEW row0, Matches(r, run0, row0, rows)
  PROVE  Adapters!MemoryShows(r, run0) = Adapters!SqliteShows(r, row0, rows)
<1>1. Adapters!Places(r, rows) \in SUBSET (1 .. Len(rows)) /\ rows \in Events
  BY DEF Adapters!Places, Events
<1>2. Adapters!Log(Adapters!OwnEvents(r, rows))
        = LogAt(rows, Adapters!Places(r, rows))
  BY <1>1, LogOfSelected DEF Adapters!OwnEvents
<1> QED
  BY <1>2 DEF Adapters!MemoryShows, Adapters!SqliteShows, Adapters!Shown,
              Matches

\* A reader is up to date with an event more, as long as it saw no number of
\* what is added.
LEMMA HeardStill ==
  ASSUME NEW events \in Events, NEW newer \in Events, NEW rd,
         NEW rows \in Seq(Adapters!EventRow), NEW row \in Adapters!EventRow,
         HasHeard(rd, events, rows),
         Len(newer) >= Len(events),
         \A i \in 1 .. Len(events) : newer[i] = events[i]
  PROVE  HasHeard(rd, newer, Append(rows, row))
<1> DEFINE grown == Append(rows, row)
           places == Adapters!Places(rd.run, rows)
           seen == UpTo(1 .. Len(events), rd.memory)
           read == UpTo(places, rd.sqlite)
<1>1. /\ grown \in Events /\ rows \in Events /\ Len(rows) \in Nat
      /\ Len(grown) = Len(rows) + 1
      /\ \A i \in 1 .. Len(rows) : Told(grown[i]) = Told(rows[i])
      /\ places \in SUBSET (1 .. Len(rows))
      /\ \/ Adapters!Places(rd.run, grown) = places
         \/ Adapters!Places(rd.run, grown) = places \cup {Len(rows) + 1}
  BY PlacesGrow, LenProperties DEF Events
<1>2. Len(events) \in Nat /\ Len(newer) \in Nat
  BY EventFacts
<1>3. /\ rd.memory \in 0 .. Len(events) /\ rd.sqlite \in 0 .. Len(rows)
      /\ rd.memoryLog = LogAt(events, seen)
      /\ rd.sqliteLog = LogAt(rows, read)
  BY DEF HasHeard
<1> HIDE DEF grown
<1>4. seen \in SUBSET (1 .. Len(events)) /\ read \in SUBSET (1 .. Len(rows))
  BY <1>1 DEF UpTo
<1>5. UpTo(1 .. Len(newer), rd.memory) = seen
  <2>1. \A i : i \in 1 .. Len(newer) /\ i <= rd.memory
                 <=> i \in 1 .. Len(events) /\ i <= rd.memory
    BY <1>2, <1>3
  <2> QED
    BY <2>1 DEF UpTo
<1>6. UpTo(Adapters!Places(rd.run, grown), rd.sqlite) = read
  <2>1. ~(Len(rows) + 1 <= rd.sqlite)
    BY <1>1, <1>3
  <2> HIDE DEF places
  <2> QED
    BY <1>1, <2>1 DEF UpTo
<1> HIDE DEF seen, read
<1>7. LogAt(newer, seen) = LogAt(events, seen)
  BY <1>2, <1>4, LogKept
<1>8. LogAt(grown, read) = LogAt(rows, read)
  BY <1>1, <1>4, LogKept
<1>9. rd.memory \in 0 .. Len(newer) /\ rd.sqlite \in 0 .. Len(grown)
  BY <1>1, <1>2, <1>3
<1> QED
  BY <1>3, <1>5, <1>6, <1>7, <1>8, <1>9 DEF HasHeard, grown

\* Nor does the reader of a project see a number it saw again.
LEMMA WatcherStill ==
  ASSUME NEW rows \in Seq(Adapters!EventRow), NEW row \in Adapters!EventRow,
         NEW wt, WatcherFits(wt, rows)
  PROVE  WatcherFits(wt, Append(rows, row))
<1> DEFINE grown == Append(rows, row)
           p == wt.project
<1>1. /\ Len(rows) \in Nat /\ Len(grown) = Len(rows) + 1
      /\ \A i \in 1 .. Len(rows) : grown[i] = rows[i]
  BY PlacesGrow, LenProperties, AppendProperties
<1> HIDE DEF grown
<1>2. CASE wt = NoWatcher
  BY <1>2 DEF WatcherFits, grown
<1>3. CASE /\ p # NULL /\ wt.last \in 0 .. Len(rows) /\ ~wt.again
           /\ wt.received = UpTo(Adapters!PlacesOf(p, rows), wt.last)
  <2>1. \A i : i \in 1 .. Len(grown) /\ i <= wt.last
                 <=> i \in 1 .. Len(rows) /\ i <= wt.last
    BY <1>1, <1>3
  <2>2. UpTo(Adapters!PlacesOf(p, grown), wt.last)
          = UpTo(Adapters!PlacesOf(p, rows), wt.last)
    BY <1>1, <2>1 DEF UpTo, Adapters!PlacesOf
  <2>3. wt.last \in 0 .. Len(grown)
    BY <1>1, <1>3
  <2> QED
    BY <1>3, <2>2, <2>3 DEF WatcherFits, grown
<1> QED
  BY <1>2, <1>3 DEF WatcherFits

\* A run gets new fields and an event, in memory and in SQLite.
LEMMA RunKept ==
  ASSUME NEW st, NEW rs, NEW rr, NEW rows, Tallies(st, rs, rr, rows),
         NEW r \in Adapters!Request, NEW run0, NEW row0,
         Matches(r, run0, row0, rows),
         r \in DOMAIN rs => run0.events = rs[r].events,
         NEW type \in Adapters!EventType, NEW stage \in Adapters!Stage,
         NEW rd, ReaderFits(st, rd, rs, rows)
  PROVE  LET run1  == Adapters!WithEvent(run0, type, stage)
             rs1   == Adapters!Put(rs, r, run1)
             rr1   == Adapters!Put(rr, r, row0)
             rows1 == Append(rows, [run |-> r, type |-> type,
                                    stage |-> stage])
         IN  /\ Tallies(st, rs1, rr1, rows1)
             /\ ReaderFits(st, rd, rs1, rows1)
             /\ Adapters!MemoryShows(r, run1)
                  = Adapters!SqliteShows(r, row0, rows1)
<1> DEFINE run1  == Adapters!WithEvent(run0, type, stage)
           rs1   == Adapters!Put(rs, r, run1)
           rr1   == Adapters!Put(rr, r, row0)
           row   == [run |-> r, type |-> type, stage |-> stage]
           rows1 == Append(rows, row)
<1>1. rows \in Seq(Adapters!EventRow) /\ row \in Adapters!EventRow
      /\ row.run = r
  BY DEF Tallies, Adapters!EventRow
<1> HIDE DEF row
<1>2. /\ rows1 \in Seq(Adapters!EventRow)
      /\ Len(rows1) = Len(rows) + 1
      /\ \A i \in 1 .. Len(rows) : rows1[i] = rows[i]
      /\ rows1[Len(rows) + 1] = row
      /\ Len(rows) \in Nat
  BY <1>1, PlacesGrow, LenProperties
<1>3. Matches(r, run1, row0, rows1)
  BY <1>1, EventAdded DEF row
<1>4. /\ run1.events \in Events /\ run0.events \in Events
      /\ Len(run1.events) >= Len(run0.events)
      /\ \A i \in 1 .. Len(run0.events) : run1.events[i] = run0.events[i]
  <2>1. run0 \in Adapters!WorkflowRun
    BY DEF Matches
  <2>2. /\ run1.events \in Events /\ run0.events \in Events
        /\ Len(run0.events) \in Nat
        /\ Len(run1.events) = Len(run0.events) + 1
        /\ \A i \in 1 .. Len(run0.events) : run1.events[i] = run0.events[i]
    BY <2>1, WithEventFacts
  <2> HIDE DEF run1
  <2> QED
    BY <2>2
<1>5. /\ DOMAIN rs1 = DOMAIN rs \cup {r} /\ rs1[r] = run1
      /\ DOMAIN rr1 = DOMAIN rr \cup {r} /\ rr1[r] = row0
      /\ \A q \in DOMAIN rs : q # r => rs1[q] = rs[q]
      /\ \A q \in DOMAIN rr : q # r => rr1[q] = rr[q]
  BY DEF Adapters!Put
<1> HIDE DEF run1, rs1, rr1, rows1
<1>6. Tallies(st, rs1, rr1, rows1)
  <2>1. ASSUME NEW i \in 1 .. Len(rows1) PROVE rows1[i].run \in DOMAIN rs1
    <3>1. i \in 1 .. Len(rows) \/ i = Len(rows) + 1
      BY <1>2
    <3> QED
      BY <1>1, <1>2, <1>5, <3>1 DEF Tallies
  <2>2. ASSUME NEW q \in DOMAIN rs \ st, q # r
        PROVE  Matches(q, rs1[q], rr1[q], rows1)
    <3>1. Matches(q, rs[q], rr[q], rows)
      BY DEF Tallies
    <3>2. Matches(q, rs[q], rr[q], rows1)
      BY <1>1, <2>2, <3>1, OthersMatch DEF rows1
    <3>3. rs1[q] = rs[q] /\ rr1[q] = rr[q]
      BY <1>5, <2>2 DEF Tallies
    <3> QED
      BY <3>2, <3>3
  <2>3. \A q \in DOMAIN rs1 \ st : Matches(q, rs1[q], rr1[q], rows1)
    BY <1>3, <1>5, <2>2
  <2>4. \A q \in DOMAIN rs1 : Stored(rs1[q], rr1[q])
    <3>1. Stored(run1, row0)
      BY <1>3 DEF Matches, Stored
    <3>2. \A q \in DOMAIN rs : Stored(rs[q], rr[q])
      BY DEF Tallies
    <3>3. DOMAIN rr = DOMAIN rs
      BY DEF Tallies
    <3> QED
      BY <1>5, <3>1, <3>2, <3>3
  <2> QED
    BY <1>2, <1>5, <2>1, <2>3, <2>4 DEF Tallies
<1>7. ReaderFits(st, rd, rs1, rows1)
  <2>1. CASE rd = NoReader
    BY <2>1 DEF ReaderFits
  <2>2. CASE /\ rd.run \in DOMAIN rs /\ HasHeard(rd, rs[rd.run].events, rows)
             /\ rd.run \notin st => rd.memoryLog = rd.sqliteLog
    <3>1. CASE rd.run = r
      <4>1. HasHeard(rd, run1.events, rows1)
        BY <1>1, <1>4, <2>2, <3>1, HeardStill DEF rows1
      <4> QED
        BY <1>5, <2>2, <3>1, <4>1 DEF ReaderFits
    <3>2. CASE rd.run # r
      <4>1. rs[rd.run].events \in Events
        BY <2>2 DEF Tallies, Stored, Events, Adapters!WorkflowRun
      <4>2. Len(rs[rd.run].events) \in Nat
        BY <4>1, EventFacts
      <4>3. HasHeard(rd, rs[rd.run].events, rows1)
        BY <1>1, <2>2, <4>1, <4>2, HeardStill DEF rows1
      <4> QED
        BY <1>5, <2>2, <3>2, <4>3 DEF ReaderFits
    <3> QED
      BY <3>1, <3>2
  <2> QED
    BY <2>1, <2>2 DEF ReaderFits
<1>8. Adapters!MemoryShows(r, run1) = Adapters!SqliteShows(r, row0, rows1)
  BY <1>2, <1>3, ShownAlike
<1> QED
  BY <1>6, <1>7, <1>8 DEF run1, rs1, rr1, rows1, row

----------------------------------------------------------------------------
(* Runs that strayed: each side goes on by itself *)

Extends(new, old) ==
  /\ new \in Adapters!WorkflowRun
  /\ \A i \in 1 .. Len(new.events) : new.events[i].sequence = i
  /\ Len(new.events) >= Len(old.events)
  /\ \A i \in 1 .. Len(old.events) : new.events[i] = old.events[i]

LEMMA ExtendsOnce ==
  ASSUME NEW old \in Adapters!WorkflowRun, NEW run0 \in Adapters!WorkflowRun,
         run0.events = old.events,
         \A i \in 1 .. Len(old.events) : old.events[i].sequence = i,
         NEW type \in Adapters!EventType, NEW stage \in Adapters!Stage
  PROVE  Extends(Adapters!WithEvent(run0, type, stage), old)
<1> DEFINE new == Adapters!WithEvent(run0, type, stage)
<1>1. /\ new \in Adapters!WorkflowRun
      /\ Len(run0.events) \in Nat
      /\ Len(new.events) = Len(run0.events) + 1
      /\ \A i \in 1 .. Len(run0.events) : new.events[i] = run0.events[i]
      /\ new.events[Len(run0.events) + 1].sequence = Len(run0.events) + 1
  <2> DEFINE event == [sequence |-> Len(run0.events) + 1, type |-> type,
                       stage |-> stage]
  <2>1. /\ new \in Adapters!WorkflowRun
        /\ Len(run0.events) \in Nat
        /\ Len(new.events) = Len(run0.events) + 1
        /\ \A i \in 1 .. Len(run0.events) : new.events[i] = run0.events[i]
        /\ new.events[Len(run0.events) + 1] = event
    BY WithEventFacts
  <2>2. event.sequence = Len(run0.events) + 1
    OBVIOUS
  <2> HIDE DEF new, event
  <2> QED
    BY <2>1, <2>2
<1> HIDE DEF new
<1>2. \A i \in 1 .. Len(new.events) :
        i \in 1 .. Len(run0.events) \/ i = Len(run0.events) + 1
  BY <1>1
<1>3. \A i \in 1 .. Len(new.events) : new.events[i].sequence = i
  BY <1>1, <1>2
<1> QED
  BY <1>1, <1>3 DEF Extends, new

LEMMA ExtendsItself ==
  ASSUME NEW old \in Adapters!WorkflowRun,
         \A i \in 1 .. Len(old.events) : old.events[i].sequence = i
  PROVE  Extends(old, old)
<1>1. Len(old.events) \in Nat
  BY LenProperties DEF Adapters!WorkflowRun
<1> QED
  BY <1>1 DEF Extends

\* More events are in memory.
LEMMA HeardMore ==
  ASSUME NEW events \in Events, NEW newer \in Events, NEW rd, NEW rows,
         HasHeard(rd, events, rows),
         Len(newer) >= Len(events),
         \A i \in 1 .. Len(events) : newer[i] = events[i]
  PROVE  HasHeard(rd, newer, rows)
<1> DEFINE seen == UpTo(1 .. Len(events), rd.memory)
<1>1. Len(events) \in Nat /\ Len(newer) \in Nat
  BY EventFacts
<1>2. rd.memory \in 0 .. Len(events) /\ rd.memoryLog = LogAt(events, seen)
  BY DEF HasHeard
<1>3. seen \in SUBSET (1 .. Len(events))
  BY DEF UpTo
<1>4. UpTo(1 .. Len(newer), rd.memory) = seen
  <2>1. \A i : i \in 1 .. Len(newer) /\ i <= rd.memory
                 <=> i \in 1 .. Len(events) /\ i <= rd.memory
    BY <1>1, <1>2
  <2> QED
    BY <2>1 DEF UpTo
<1> HIDE DEF seen
<1>5. LogAt(newer, seen) = LogAt(events, seen)
  BY <1>1, <1>3, LogKept
<1> QED
  BY <1>1, <1>2, <1>4, <1>5 DEF HasHeard

LEMMA StrayedInMemory ==
  ASSUME NEW st, NEW rs, NEW rr, NEW rows, Tallies(st, rs, rr, rows),
         NEW rd, ReaderFits(st, rd, rs, rows),
         NEW r \in DOMAIN rs, r \in st, NEW run1, Extends(run1, rs[r])
  PROVE  /\ Tallies(st, Adapters!Put(rs, r, run1), rr, rows)
         /\ ReaderFits(st, rd, Adapters!Put(rs, r, run1), rows)
<1> DEFINE rs1 == Adapters!Put(rs, r, run1)
<1>1. /\ DOMAIN rs1 = DOMAIN rs /\ rs1[r] = run1
      /\ \A q \in DOMAIN rs : q # r => rs1[q] = rs[q]
  BY DEF Adapters!Put
<1> HIDE DEF rs1
<1>2. Tallies(st, rs1, rr, rows)
  BY <1>1 DEF Tallies, Stored, Extends
<1>3. ReaderFits(st, rd, rs1, rows)
  <2>1. CASE rd.run = r /\ HasHeard(rd, rs[r].events, rows)
    <3>1. rs[r].events \in Events /\ run1.events \in Events
      BY DEF Tallies, Stored, Extends, Events, Adapters!WorkflowRun
    <3>2. HasHeard(rd, run1.events, rows)
      BY <2>1, <3>1, HeardMore DEF Extends
    <3> QED
      BY <1>1, <2>1, <3>2 DEF ReaderFits
  <2>2. CASE ~(rd.run = r /\ HasHeard(rd, rs[r].events, rows))
    BY <1>1, <2>2 DEF ReaderFits
  <2> QED
    BY <2>1, <2>2
<1> QED
  BY <1>2, <1>3 DEF rs1

LEMMA StrayedInSqlite ==
  ASSUME NEW st, NEW rs, NEW rr, NEW rows, Tallies(st, rs, rr, rows),
         NEW rd, ReaderFits(st, rd, rs, rows),
         NEW r \in DOMAIN rs, r \in st, NEW row0 \in Adapters!RunRow,
         NEW row \in Adapters!EventRow, row.run = r
  PROVE  /\ Tallies(st, rs, Adapters!Put(rr, r, row0), Append(rows, row))
         /\ ReaderFits(st, rd, rs, Append(rows, row))
<1> DEFINE rr1 == Adapters!Put(rr, r, row0)
           rows1 == Append(rows, row)
<1>1. /\ DOMAIN rr1 = DOMAIN rs /\ rr1[r] = row0 /\ DOMAIN rr = DOMAIN rs
      /\ \A q \in DOMAIN rs : q # r => rr1[q] = rr[q]
      /\ rows \in Seq(Adapters!EventRow)
  BY DEF Adapters!Put, Tallies
<1>2. /\ rows1 \in Seq(Adapters!EventRow)
      /\ Len(rows1) = Len(rows) + 1
      /\ \A i \in 1 .. Len(rows) : rows1[i] = rows[i]
      /\ rows1[Len(rows) + 1] = row
      /\ Len(rows) \in Nat
  BY <1>1, PlacesGrow, LenProperties
<1> HIDE DEF rr1, rows1
<1>3. Tallies(st, rs, rr1, rows1)
  <2>1. ASSUME NEW i \in 1 .. Len(rows1) PROVE rows1[i].run \in DOMAIN rs
    <3>1. i \in 1 .. Len(rows) \/ i = Len(rows) + 1
      BY <1>2
    <3> QED
      BY <1>2, <3>1 DEF Tallies
  <2>2. ASSUME NEW q \in DOMAIN rs \ st PROVE Matches(q, rs[q], rr1[q], rows1)
    <3>1. q # row.run /\ Matches(q, rs[q], rr[q], rows)
      BY DEF Tallies
    <3> QED
      BY <1>1, <3>1, OthersMatch DEF rows1
  <2>3. \A q \in DOMAIN rs : Stored(rs[q], rr1[q])
    <3>1. \A q \in DOMAIN rs : Stored(rs[q], rr[q])
      BY DEF Tallies
    <3> QED
      BY <1>1, <3>1 DEF Stored
  <2>4. DOMAIN rs \subseteq Adapters!Request
    BY DEF Tallies
  <2> QED
    BY <1>1, <1>2, <2>1, <2>2, <2>3, <2>4 DEF Tallies
<1>4. ReaderFits(st, rd, rs, rows1)
  <2>1. CASE rd = NoReader
    BY <2>1 DEF ReaderFits
  <2>2. CASE /\ rd.run \in DOMAIN rs /\ HasHeard(rd, rs[rd.run].events, rows)
             /\ rd.run \notin st => rd.memoryLog = rd.sqliteLog
    <3>1. rs[rd.run].events \in Events
      BY <2>2 DEF Tallies, Stored, Events, Adapters!WorkflowRun
    <3>2. Len(rs[rd.run].events) \in Nat
      BY <3>1, EventFacts
    <3>3. HasHeard(rd, rs[rd.run].events, rows1)
      BY <1>1, <2>2, <3>1, <3>2, HeardStill DEF rows1
    <3> QED
      BY <2>2, <3>3 DEF ReaderFits
  <2> QED
    BY <2>1, <2>2 DEF ReaderFits
<1> QED
  BY <1>3, <1>4 DEF rr1, rows1

\* What a call on r may do on either side.
MemoryMoves(r) ==
  /\ UNCHANGED checkpoints
  /\ \/ UNCHANGED runs
     \/ \E run1 : /\ Extends(run1, runs[r])
                  /\ runs' = Adapters!Put(runs, r, run1)

SqliteAdds(r) ==
  \E row0 \in Adapters!RunRow, type \in Adapters!EventType,
     stage \in Adapters!Stage :
    /\ runRows' = Adapters!Put(runRows, r, row0)
    /\ eventRows' = Append(eventRows, [run |-> r, type |-> type,
                                       stage |-> stage])

SqliteMoves(r) ==
  /\ UNCHANGED checkpointRows
  /\ UNCHANGED <<runRows, eventRows>> \/ SqliteAdds(r)

\* A call about r, at least.
OnlyAsks(r) == r \in asked' /\ UNCHANGED <<strayed, reader, watcher>>

LEMMA StrayedTallies ==
  ASSUME AdaptersMatch, NEW r \in DOMAIN runs, r \in strayed,
         \/ UNCHANGED runs
         \/ \E run1 : /\ Extends(run1, runs[r])
                      /\ runs' = Adapters!Put(runs, r, run1),
         UNCHANGED <<runRows, eventRows>> \/ SqliteAdds(r)
  PROVE  /\ Tallies(strayed, runs', runRows', eventRows')
         /\ ReaderFits(strayed, reader, runs', eventRows')
         /\ WatcherFits(watcher, eventRows')
<1>1. /\ Tallies(strayed, runs, runRows, eventRows)
      /\ ReaderFits(strayed, reader, runs, eventRows)
      /\ WatcherFits(watcher, eventRows)
  BY DEF AdaptersMatch
<1>2. /\ Tallies(strayed, runs', runRows, eventRows)
      /\ ReaderFits(strayed, reader, runs', eventRows)
      /\ r \in DOMAIN runs'
  <2>1. CASE UNCHANGED runs
    BY <1>1, <2>1
  <2>2. ASSUME NEW run1, Extends(run1, runs[r]),
               runs' = Adapters!Put(runs, r, run1)
        PROVE  /\ Tallies(strayed, runs', runRows, eventRows)
               /\ ReaderFits(strayed, reader, runs', eventRows)
               /\ r \in DOMAIN runs'
    <3>1. r \in DOMAIN Adapters!Put(runs, r, run1)
      BY DEF Adapters!Put
    <3> QED
      BY <1>1, <2>2, <3>1, StrayedInMemory
  <2> QED
    BY <2>1, <2>2
<1>3. CASE UNCHANGED <<runRows, eventRows>>
  BY <1>1, <1>2, <1>3
<1>4. CASE SqliteAdds(r)
  <2>1. PICK row0 \in Adapters!RunRow, type \in Adapters!EventType,
             stage \in Adapters!Stage :
          /\ runRows' = Adapters!Put(runRows, r, row0)
          /\ eventRows' = Append(eventRows, [run |-> r, type |-> type,
                                             stage |-> stage])
    BY <1>4 DEF SqliteAdds
  <2> DEFINE row == [run |-> r, type |-> type, stage |-> stage]
  <2>2. row \in Adapters!EventRow /\ row.run = r
    BY <1>1 DEF Tallies, Adapters!EventRow
  <2>3. eventRows \in Seq(Adapters!EventRow)
    BY <1>1 DEF Tallies
  <2> HIDE DEF row
  <2>4. /\ Tallies(strayed, runs', runRows', eventRows')
        /\ ReaderFits(strayed, reader, runs', eventRows')
    BY <1>2, <2>1, <2>2, StrayedInSqlite DEF row
  <2>5. WatcherFits(watcher, eventRows')
    BY <1>1, <2>1, <2>2, <2>3, WatcherStill DEF row
  <2> QED
    BY <2>4, <2>5
<1> QED
  BY <1>3, <1>4

LEMMA StrayedMoves ==
  ASSUME AdaptersMatch, NEW r \in DOMAIN runs, r \in strayed, OnlyAsks(r),
         MemoryMoves(r), SqliteMoves(r)
  PROVE  AdaptersMatch'
<1>1. /\ Tallies(strayed, runs', runRows', eventRows')
      /\ ReaderFits(strayed, reader, runs', eventRows')
      /\ WatcherFits(watcher, eventRows')
  BY StrayedTallies DEF MemoryMoves, SqliteMoves
<1>2. r \in asked' \cap strayed' /\ UNCHANGED <<strayed, reader, watcher>>
  BY DEF OnlyAsks
<1> QED
  BY <1>1, <1>2 DEF AdaptersMatch, MemoryMoves, SqliteMoves

\* A run gets other fields and an event.
LEMMA MemoryAdds ==
  ASSUME AdaptersMatch, NEW r \in DOMAIN runs,
         NEW run0 \in Adapters!WorkflowRun, run0.events = runs[r].events,
         NEW type \in Adapters!EventType, NEW stage \in Adapters!Stage,
         Adapters!MemoryKeeps(r, Adapters!WithEvent(run0, type, stage)),
         UNCHANGED checkpoints
  PROVE  MemoryMoves(r)
<1>1. Stored(runs[r], runRows[r])
  BY DEF AdaptersMatch, Tallies
<1>2. Extends(Adapters!WithEvent(run0, type, stage), runs[r])
  BY <1>1, ExtendsOnce DEF Stored
<1> QED
  BY <1>2 DEF MemoryMoves, Adapters!MemoryKeeps

LEMMA SqliteKept ==
  ASSUME NEW r, NEW row0 \in Adapters!RunRow,
         NEW type \in Adapters!EventType, NEW stage \in Adapters!Stage,
         Adapters!SqliteKeeps(r, row0, type, stage), UNCHANGED checkpointRows
  PROVE  SqliteMoves(r)
  BY DEF SqliteMoves, SqliteAdds, Adapters!SqliteKeeps, Adapters!AppendEvent

LEMMA MovesResume ==
  ASSUME AdaptersMatch, NEW r \in DOMAIN runs
  PROVE  /\ Adapters!MemoryResume(r) => MemoryMoves(r)
         /\ Adapters!SqliteResume(r) => SqliteMoves(r)
<1>1. runs[r] \in Adapters!WorkflowRun /\ runRows[r] \in Adapters!RunRow
  BY DEF AdaptersMatch, Tallies, Stored
<1> DEFINE run0 == [runs[r] EXCEPT !.status = "RUNNING"]
           row0 == [runRows[r] EXCEPT !.status = "RUNNING", !.reason = ""]
           type == "WorkflowResumed"
<1>2. /\ run0 \in Adapters!WorkflowRun /\ run0.events = runs[r].events
      /\ row0 \in Adapters!RunRow
      /\ runs[r].stage \in Adapters!Stage /\ runRows[r].stage \in Adapters!Stage
  BY <1>1 DEF Adapters!WorkflowRun, Adapters!RunRow, Adapters!WorkflowStatus,
              Adapters!Reason
<1>3. type \in Adapters!EventType
  BY DEF Adapters!EventType
<1>4. ASSUME Adapters!MemoryResume(r) PROVE MemoryMoves(r)
  <2>1. \/ UNCHANGED <<runs, checkpoints>>
        \/ /\ Adapters!MemoryKeeps(r, Adapters!WithEvent(run0, type,
                                                         runs[r].stage))
           /\ UNCHANGED checkpoints
    BY <1>4 DEF Adapters!MemoryResume, Adapters!MemoryReturns,
                Adapters!MemoryRaises
  <2> HIDE DEF run0, type
  <2> QED
    BY <1>2, <1>3, <2>1, MemoryAdds DEF MemoryMoves
<1>5. ASSUME Adapters!SqliteResume(r) PROVE SqliteMoves(r)
  <2>1. \/ UNCHANGED <<runRows, eventRows, checkpointRows>>
        \/ /\ Adapters!SqliteKeeps(r, row0, type, runRows[r].stage)
           /\ UNCHANGED checkpointRows
    BY <1>5 DEF Adapters!SqliteResume, Adapters!SqliteReturns,
                Adapters!SqliteRaises
  <2> HIDE DEF row0, type
  <2> QED
    BY <1>2, <1>3, <2>1, SqliteKept DEF SqliteMoves
<1> QED
  BY <1>4, <1>5

LEMMA MovesPause ==
  ASSUME AdaptersMatch, NEW r \in DOMAIN runs
  PROVE  /\ Adapters!MemoryPause(r) => MemoryMoves(r)
         /\ Adapters!SqlitePause(r) => SqliteMoves(r)
<1>1. runs[r] \in Adapters!WorkflowRun /\ runRows[r] \in Adapters!RunRow
  BY DEF AdaptersMatch, Tallies, Stored
<1> DEFINE run0 == [runs[r] EXCEPT !.status = "PAUSED", !.reason = "paused"]
           row0 == [runRows[r] EXCEPT !.status = "PAUSED", !.reason = "paused"]
           type == "WorkflowPaused"
<1>2. /\ run0 \in Adapters!WorkflowRun /\ run0.events = runs[r].events
      /\ row0 \in Adapters!RunRow
      /\ runs[r].stage \in Adapters!Stage /\ runRows[r].stage \in Adapters!Stage
  BY <1>1 DEF Adapters!WorkflowRun, Adapters!RunRow, Adapters!WorkflowStatus,
              Adapters!Reason
<1>3. type \in Adapters!EventType
  BY DEF Adapters!EventType
<1>4. ASSUME Adapters!MemoryPause(r) PROVE MemoryMoves(r)
  <2>1. \/ UNCHANGED <<runs, checkpoints>>
        \/ /\ Adapters!MemoryKeeps(r, Adapters!WithEvent(run0, type,
                                                         runs[r].stage))
           /\ UNCHANGED checkpoints
    BY <1>4 DEF Adapters!MemoryPause, Adapters!MemoryReturns,
                Adapters!MemoryRaises
  <2> HIDE DEF run0, type
  <2> QED
    BY <1>2, <1>3, <2>1, MemoryAdds DEF MemoryMoves
<1>5. ASSUME Adapters!SqlitePause(r) PROVE SqliteMoves(r)
  <2>1. \/ UNCHANGED <<runRows, eventRows, checkpointRows>>
        \/ /\ Adapters!SqliteKeeps(r, row0, type, runRows[r].stage)
           /\ UNCHANGED checkpointRows
    BY <1>5 DEF Adapters!SqlitePause, Adapters!SqliteReturns,
                Adapters!SqliteRaises
  <2> HIDE DEF row0, type
  <2> QED
    BY <1>2, <1>3, <2>1, SqliteKept DEF SqliteMoves
<1> QED
  BY <1>4, <1>5

LEMMA MovesCancel ==
  ASSUME AdaptersMatch, NEW r \in DOMAIN runs
  PROVE  /\ Adapters!MemoryCancel(r) => MemoryMoves(r)
         /\ Adapters!SqliteCancel(r) => SqliteMoves(r)
<1>1. runs[r] \in Adapters!WorkflowRun /\ runRows[r] \in Adapters!RunRow
  BY DEF AdaptersMatch, Tallies, Stored
<1> DEFINE run0 == [runs[r] EXCEPT !.status = "CANCELED"]
           row0 == [runRows[r] EXCEPT !.status = "CANCELED",
                                      !.reason = "canceled"]
           type == "WorkflowCanceled"
<1>2. /\ run0 \in Adapters!WorkflowRun /\ run0.events = runs[r].events
      /\ row0 \in Adapters!RunRow
      /\ runs[r].stage \in Adapters!Stage /\ runRows[r].stage \in Adapters!Stage
  BY <1>1 DEF Adapters!WorkflowRun, Adapters!RunRow, Adapters!WorkflowStatus,
              Adapters!Reason
<1>3. type \in Adapters!EventType
  BY DEF Adapters!EventType
<1>4. ASSUME Adapters!MemoryCancel(r) PROVE MemoryMoves(r)
  <2>1. \/ UNCHANGED <<runs, checkpoints>>
        \/ /\ Adapters!MemoryKeeps(r, Adapters!WithEvent(run0, type,
                                                         runs[r].stage))
           /\ UNCHANGED checkpoints
    BY <1>4 DEF Adapters!MemoryCancel, Adapters!MemoryReturns,
                Adapters!MemoryRaises
  <2> HIDE DEF run0, type
  <2> QED
    BY <1>2, <1>3, <2>1, MemoryAdds DEF MemoryMoves
<1>5. ASSUME Adapters!SqliteCancel(r) PROVE SqliteMoves(r)
  <2>1. \/ UNCHANGED <<runRows, eventRows, checkpointRows>>
        \/ /\ Adapters!SqliteKeeps(r, row0, type, runRows[r].stage)
           /\ UNCHANGED checkpointRows
    BY <1>5 DEF Adapters!SqliteCancel, Adapters!SqliteReturns,
                Adapters!SqliteRaises
  <2> HIDE DEF row0, type
  <2> QED
    BY <1>2, <1>3, <2>1, SqliteKept DEF SqliteMoves
<1> QED
  BY <1>4, <1>5

\* What completing a stage makes of a run and of a row.
LEMMA CompletedTypes ==
  ASSUME NEW stage \in Stages, NEW effect \in Effects \cup {NULL}
  PROVE  /\ \A run0 \in Adapters!WorkflowRun :
              /\ Adapters!Completed(run0, stage, effect) \in Adapters!WorkflowRun
              /\ Adapters!Completed(run0, stage, effect).events = run0.events
         /\ \A row0 \in Adapters!RunRow :
              Adapters!Completed(row0, stage, effect) \in Adapters!RunRow
<1> DEFINE Done(old) == Append(old.completed, stage)
           Used(old) == IF effect = NULL \/ effect \in Adapters!ToSet(old.effects)
                          THEN old.effects ELSE Append(old.effects, effect)
<1>1. ASSUME NEW old, old.completed \in Seq(Stages), old.effects \in Seq(Effects)
      PROVE  Done(old) \in Seq(Stages) /\ Used(old) \in Seq(Effects)
  <2>1. Done(old) \in Seq(Stages)
    BY <1>1, AppendProperties
  <2>2. effect # NULL => Append(old.effects, effect) \in Seq(Effects)
    BY <1>1, AppendProperties
  <2> QED
    BY <1>1, <2>1, <2>2
<1>2. \A old : Adapters!Completed(old, stage, effect)
                 = [old EXCEPT !.status = "COMPLETED", !.stage = stage,
                               !.completed = Done(old), !.effects = Used(old)]
  BY DEF Adapters!Completed
<1>3. stage \in Adapters!Stage /\ "COMPLETED" \in Adapters!WorkflowStatus
  BY DEF Adapters!Stage, Adapters!WorkflowStatus
<1> HIDE DEF Done, Used
<1>4. ASSUME NEW run0 \in Adapters!WorkflowRun
      PROVE  /\ Adapters!Completed(run0, stage, effect) \in Adapters!WorkflowRun
             /\ Adapters!Completed(run0, stage, effect).events = run0.events
  <2> DEFINE new == Adapters!Completed(run0, stage, effect)
             done == Done(run0)
             used == Used(run0)
  <2>1. done \in Seq(Stages) /\ used \in Seq(Effects)
    BY <1>1 DEF Adapters!WorkflowRun
  <2>2. new = [run0 EXCEPT !.status = "COMPLETED", !.stage = stage,
                            !.completed = done, !.effects = used]
    BY <1>2
  <2> HIDE DEF new, done, used
  <2>3. new \in Adapters!WorkflowRun
    BY <1>3, <2>1, <2>2 DEF Adapters!WorkflowRun
  <2>4. new.events = run0.events
    BY <2>2 DEF Adapters!WorkflowRun
  <2> QED
    BY <2>3, <2>4 DEF new
<1>5. ASSUME NEW row0 \in Adapters!RunRow
      PROVE  Adapters!Completed(row0, stage, effect) \in Adapters!RunRow
  <2> DEFINE new == Adapters!Completed(row0, stage, effect)
             done == Done(row0)
             used == Used(row0)
  <2>1. done \in Seq(Stages) /\ used \in Seq(Effects)
    BY <1>1 DEF Adapters!RunRow
  <2>2. new = [row0 EXCEPT !.status = "COMPLETED", !.stage = stage,
                            !.completed = done, !.effects = used]
    BY <1>2
  <2> HIDE DEF new, done, used
  <2>3. new \in Adapters!RunRow
    BY <1>3, <2>1, <2>2 DEF Adapters!RunRow
  <2> QED
    BY <2>3 DEF new
<1> QED
  BY <1>4, <1>5

LEMMA StrayedCompletes ==
  ASSUME AdaptersMatch, NEW r \in DOMAIN runs, NEW stage \in Stages,
         NEW effect \in Effects \cup {NULL}
  PROVE  /\ Extends(Adapters!MemoryCompleted(r, stage, effect), runs[r])
         /\ /\ runRows' = Adapters!Put(runRows, r,
                            Adapters!Completed(runRows[r], stage, effect))
            /\ Adapters!AppendEvent(r, "WorkflowProgressed", stage)
            => SqliteAdds(r)
<1>1. Stored(runs[r], runRows[r])
  BY DEF AdaptersMatch, Tallies
<1>2. /\ "WorkflowProgressed" \in Adapters!EventType /\ stage \in Adapters!Stage
  BY DEF Adapters!EventType, Adapters!Stage
<1>3. Extends(Adapters!WithEvent(Adapters!Completed(runs[r], stage, effect),
                                 "WorkflowProgressed", stage), runs[r])
  BY <1>1, <1>2, CompletedTypes, ExtendsOnce DEF Stored
<1>4. Extends(runs[r], runs[r])
  BY <1>1, ExtendsItself DEF Stored
<1>5. Adapters!Completed(runRows[r], stage, effect) \in Adapters!RunRow
  BY <1>1, CompletedTypes DEF Stored
<1> QED
  BY <1>2, <1>3, <1>4, <1>5
  DEF Adapters!MemoryCompleted, SqliteAdds, Adapters!AppendEvent

----------------------------------------------------------------------------
(* The calls *)

\* The last answer changes, or what is stored is written as it was.
LEMMA AsTheyWere ==
  ASSUME NEW st, NEW rs, NEW rr, NEW rows, NEW rd, Tallies(st, rs, rr, rows),
         ReaderFits(st, rd, rs, rows),
         NEW rs1, DOMAIN rs1 = DOMAIN rs, \A q \in DOMAIN rs : rs1[q] = rs[q]
  PROVE  Tallies(st, rs1, rr, rows) /\ ReaderFits(st, rd, rs1, rows)
  BY DEF Tallies, ReaderFits

\* Queries find the same runs.
LEMMA FoundAlike ==
  ASSUME AdaptersMatch
  PROVE  /\ \A r \in DOMAIN runs \ strayed :
              Adapters!MemoryShows(r, runs[r])
                = Adapters!SqliteShows(r, runRows[r], eventRows)
         /\ \A id : Adapters!About(id) \cap strayed = {}
                      => Adapters!MemoryFound(id) = Adapters!SqliteFound(id)
<1>1. \A r \in DOMAIN runs \ strayed :
        Adapters!MemoryShows(r, runs[r])
          = Adapters!SqliteShows(r, runRows[r], eventRows)
  BY ShownAlike DEF AdaptersMatch, Tallies
<1>2. DOMAIN runs = DOMAIN runRows /\ DOMAIN runs \subseteq Adapters!Request
  BY DEF AdaptersMatch, Tallies
<1>3. ASSUME NEW id, Adapters!About(id) \cap strayed = {}
      PROVE  Adapters!MemoryFound(id) = Adapters!SqliteFound(id)
  <2> DEFINE found == IF id \in DOMAIN runs THEN {id}
                      ELSE {r \in DOMAIN runs : r.project = id}
  <2>1. \A r \in found : r \in DOMAIN runs \ strayed
    BY <1>2, <1>3 DEF Adapters!About
  <2>2. Adapters!MemoryFound(id) =
          IF found = {} THEN Adapters!Raised("DETERMINISTIC_FAILURE")
          ELSE Adapters!Returned(
                 {Adapters!MemoryShows(r, runs[r]) : r \in found})
    BY DEF Adapters!MemoryFound
  <2>3. Adapters!SqliteFound(id) =
          IF found = {} THEN Adapters!Raised("DETERMINISTIC_FAILURE")
          ELSE Adapters!Returned(
                 {Adapters!SqliteShows(r, runRows[r], eventRows) : r \in found})
    BY <1>2 DEF Adapters!SqliteFound
  <2> HIDE DEF found
  <2>4. {Adapters!MemoryShows(r, runs[r]) : r \in found}
          = {Adapters!SqliteShows(r, runRows[r], eventRows) : r \in found}
    BY <1>1, <2>1
  <2> QED
    BY <2>2, <2>3, <2>4
<1> QED
  BY <1>1, <1>3

LEMMA CheckpointsAlike ==
  ASSUME AdaptersMatch
  PROVE  \A k \in Adapters!CheckpointKey :
           k.run \notin strayed => Adapters!MemoryCheckpointAt(k)
                                     = Adapters!SqliteCheckpointAt(k)
  BY DEF AdaptersMatch, SameCheckpoints, Adapters!MemoryCheckpointAt,
         Adapters!SqliteCheckpointAt

\* Of the runs found, exactly one of the project will do.
LEMMA ForProject ==
  ASSUME NEW p, NEW shown
  PROVE  /\ (\E a, b \in shown : a # b) =>
              Adapters!WorkflowForProject(p, Adapters!Returned(shown))
                = Adapters!Raised("DETERMINISTIC_FAILURE")
         /\ \A a : shown = {a} =>
              Adapters!WorkflowForProject(p, Adapters!Returned(shown))
                = IF a.run.project = p THEN Adapters!Returned(shown)
                  ELSE Adapters!Raised("POLICY_BLOCKED")
<1> DEFINE found == Adapters!Returned(shown)
<1>1. found.raised = "" /\ found.value = shown
  BY DEF Adapters!Returned
<1> HIDE DEF found
<1>2. ASSUME \E a, b \in shown : a # b
      PROVE  Adapters!WorkflowForProject(p, found)
               = Adapters!Raised("DETERMINISTIC_FAILURE")
  <2>1. \A a \in found.value : found.value # {a}
    BY <1>1, <1>2
  <2> QED
    BY <1>1, <2>1 DEF Adapters!WorkflowForProject
<1>3. ASSUME NEW a, shown = {a}
      PROVE  Adapters!WorkflowForProject(p, found)
               = IF a.run.project = p THEN found
                 ELSE Adapters!Raised("POLICY_BLOCKED")
  <2>1. ~(\A b \in found.value : found.value # {b})
    BY <1>1, <1>3
  <2>2. (\E b \in found.value : b.run.project # p) <=> a.run.project # p
    BY <1>1, <1>3
  <2> QED
    BY <1>1, <2>1, <2>2 DEF Adapters!WorkflowForProject
<1> QED
  BY <1>2, <1>3 DEF found

\* An id names the same run on both sides, or is refused with the same error.
LEMMA NamedAlike ==
  ASSUME AdaptersMatch, NEW p, NEW id
  PROVE  LET inMemory == Adapters!WorkflowForProject(p, Adapters!MemoryFound(id))
             inSqlite == Adapters!WorkflowForProject(p, Adapters!SqliteFound(id))
         IN  \/ /\ inMemory = inSqlite
                /\ inMemory.raised # "" /\ inMemory.value = {}
             \/ /\ inMemory.raised = "" /\ inSqlite.raised = ""
                /\ \E r \in DOMAIN runs :
                     /\ r \in Adapters!About(id)
                     /\ inMemory.value = {Adapters!MemoryShows(r, runs[r])}
                     /\ inSqlite.value
                          = {Adapters!SqliteShows(r, runRows[r], eventRows)}
<1> DEFINE found == IF id \in DOMAIN runs THEN {id}
                    ELSE {r \in DOMAIN runs : r.project = id}
           M(r) == Adapters!MemoryShows(r, runs[r])
           S(r) == Adapters!SqliteShows(r, runRows[r], eventRows)
           kept == {M(r) : r \in found}
           rows == {S(r) : r \in found}
           inMemory == Adapters!WorkflowForProject(p, Adapters!MemoryFound(id))
           inSqlite == Adapters!WorkflowForProject(p, Adapters!SqliteFound(id))
           Refused(category) == /\ inMemory = Adapters!Raised(category)
                                /\ inSqlite = Adapters!Raised(category)
<1>1. DOMAIN runs = DOMAIN runRows /\ DOMAIN runs \subseteq Adapters!Request
  BY DEF AdaptersMatch, Tallies
<1>2. \A r : M(r).run = r /\ S(r).run = r
  BY DEF Adapters!MemoryShows, Adapters!SqliteShows, Adapters!Shown
<1>3. /\ Adapters!MemoryFound(id) =
           IF found = {} THEN Adapters!Raised("DETERMINISTIC_FAILURE")
           ELSE Adapters!Returned(kept)
      /\ Adapters!SqliteFound(id) =
           IF found = {} THEN Adapters!Raised("DETERMINISTIC_FAILURE")
           ELSE Adapters!Returned(rows)
  BY <1>1 DEF Adapters!MemoryFound, Adapters!SqliteFound
<1>4. \A r \in found : r \in DOMAIN runs /\ r \in Adapters!About(id)
  BY <1>1 DEF Adapters!About
<1>5. \A category \in {"DETERMINISTIC_FAILURE", "POLICY_BLOCKED"} :
        /\ Adapters!Raised(category).raised # ""
        /\ Adapters!Raised(category).value = {}
  BY DEF Adapters!Raised
<1> HIDE DEF found, M, S
<1>6. CASE found = {}
  <2>1. Refused("DETERMINISTIC_FAILURE")
    BY <1>3, <1>5, <1>6 DEF Adapters!WorkflowForProject
  <2> QED
    BY <1>5, <2>1
<1>7. CASE \E r, q \in found : r # q
  <2>1. /\ \E a, b \in kept : a # b
        /\ \E a, b \in rows : a # b
    <3>1. PICK r, q \in found : r # q
      BY <1>7
    <3>2. M(r) \in kept /\ M(q) \in kept /\ S(r) \in rows /\ S(q) \in rows
      BY <3>1
    <3>3. M(r) # M(q) /\ S(r) # S(q)
      <4>1. M(r).run = r /\ M(q).run = q /\ S(r).run = r /\ S(q).run = q
        BY <1>2
      <4> QED
        BY <3>1, <4>1
    <3> HIDE DEF kept, rows
    <3> QED
      BY <3>2, <3>3
  <2>2. found # {}
    BY <1>7
  <2> HIDE DEF kept, rows
  <2>3. Refused("DETERMINISTIC_FAILURE")
    BY <1>3, <2>1, <2>2, ForProject
  <2> QED
    BY <1>5, <2>3
<1>8. CASE \E r \in found : found = {r}
  <2>1. PICK r : r \in found /\ found = {r}
    BY <1>8
  <2>2. kept = {M(r)} /\ rows = {S(r)}
    BY <2>1
  <2>3. M(r).run = r /\ S(r).run = r
    BY <1>2
  <2> HIDE DEF kept, rows
  <2>4. CASE r.project # p
    <3>1. Refused("POLICY_BLOCKED")
      BY <1>3, <2>1, <2>2, <2>3, <2>4, ForProject
    <3> QED
      BY <1>5, <3>1
  <2>5. CASE r.project = p
    <3>1. /\ inMemory = Adapters!Returned(kept)
          /\ inSqlite = Adapters!Returned(rows)
      BY <1>3, <2>1, <2>2, <2>3, <2>5, ForProject
    <3>2. /\ inMemory.raised = "" /\ inSqlite.raised = ""
          /\ inMemory.value = {M(r)} /\ inSqlite.value = {S(r)}
      <4>1. /\ Adapters!Returned(kept).raised = ""
            /\ Adapters!Returned(rows).raised = ""
            /\ Adapters!Returned(kept).value = kept
            /\ Adapters!Returned(rows).value = rows
        BY DEF Adapters!Returned
      <4> HIDE DEF inMemory, inSqlite
      <4> QED
        BY <2>2, <3>1, <4>1
    <3> QED
      BY <1>4, <2>1, <3>2 DEF M, S
  <2> QED
    BY <2>4, <2>5
<1> QED
  BY <1>6, <1>7, <1>8

\* Only the answer is new.
LEMMA Answered ==
  ASSUME AdaptersMatch, asked' \cap strayed = {} => memoryAnswer' = sqliteAnswer',
         UNCHANGED <<runs, checkpoints, runRows, eventRows, checkpointRows,
                     strayed, reader, watcher>>
  PROVE  AdaptersMatch'
  BY DEF AdaptersMatch

LEMMA Returns ==
  ASSUME AdaptersMatch, NEW r \in DOMAIN runs, OnlyAsks(r),
         Adapters!MemoryReturns(r), Adapters!SqliteReturns(r)
  PROVE  AdaptersMatch'
<1>1. asked' \cap strayed = {} => memoryAnswer' = sqliteAnswer'
  BY FoundAlike DEF OnlyAsks, Adapters!MemoryReturns, Adapters!SqliteReturns
<1> QED
  BY <1>1, Answered DEF OnlyAsks, Adapters!MemoryReturns, Adapters!SqliteReturns

LEMMA Raises ==
  ASSUME AdaptersMatch, NEW category, UNCHANGED <<strayed, reader, watcher>>,
         Adapters!MemoryRaises(category), Adapters!SqliteRaises(category)
  PROVE  AdaptersMatch'
  BY Answered DEF Adapters!MemoryRaises, Adapters!SqliteRaises

LEMMA Keeps ==
  ASSUME AdaptersMatch, NEW r \in Adapters!Request, NEW run0, NEW row0,
         Matches(r, run0, row0, eventRows),
         r \in DOMAIN runs => run0.events = runs[r].events,
         NEW type \in Adapters!EventType, NEW stage \in Adapters!Stage,
         Adapters!MemoryKeeps(r, Adapters!WithEvent(run0, type, stage)),
         Adapters!SqliteKeeps(r, row0, type, stage),
         UNCHANGED <<checkpoints, checkpointRows>>, OnlyAsks(r)
  PROVE  AdaptersMatch'
<1> DEFINE run1  == Adapters!WithEvent(run0, type, stage)
           rs1   == Adapters!Put(runs, r, run1)
           rr1   == Adapters!Put(runRows, r, row0)
           rows1 == Append(eventRows, [run |-> r, type |-> type,
                                       stage |-> stage])
<1>1. /\ Tallies(strayed, runs, runRows, eventRows)
      /\ ReaderFits(strayed, reader, runs, eventRows)
      /\ WatcherFits(watcher, eventRows)
  BY DEF AdaptersMatch
<1>2. /\ Tallies(strayed, rs1, rr1, rows1)
      /\ ReaderFits(strayed, reader, rs1, rows1)
      /\ Adapters!MemoryShows(r, run1) = Adapters!SqliteShows(r, row0, rows1)
  BY <1>1, RunKept
<1>3. WatcherFits(watcher, rows1)
  <2>1. /\ [run |-> r, type |-> type, stage |-> stage] \in Adapters!EventRow
        /\ eventRows \in Seq(Adapters!EventRow)
    BY <1>1 DEF Adapters!EventRow, Tallies
  <2> QED
    BY <1>1, <2>1, WatcherStill
<1>4. /\ runs' = rs1 /\ runRows' = rr1 /\ eventRows' = rows1
      /\ memoryAnswer' = Adapters!Returned({Adapters!MemoryShows(r, run1)})
      /\ sqliteAnswer'
           = Adapters!Returned({Adapters!SqliteShows(r, row0, eventRows')})
      /\ UNCHANGED <<strayed, reader, watcher>>
  BY DEF Adapters!MemoryKeeps, Adapters!SqliteKeeps, Adapters!AppendEvent,
         OnlyAsks
<1> HIDE DEF run1, rs1, rr1, rows1
<1> QED
  BY <1>2, <1>3, <1>4 DEF AdaptersMatch

\* A call applied to the run an id names.
LEMMA ResumeMatches ==
  ASSUME AdaptersMatch, NEW r \in DOMAIN runs, OnlyAsks(r),
         Adapters!MemoryResume(r), Adapters!SqliteResume(r)
  PROVE  AdaptersMatch'
<1>0. CASE r \in strayed
  <2>1. MemoryMoves(r)
    BY MovesResume
  <2>2. SqliteMoves(r)
    BY MovesResume
  <2> QED
    BY <1>0, <2>1, <2>2, StrayedMoves
<1> SUFFICES ASSUME r \notin strayed PROVE AdaptersMatch'
  BY <1>0
<1>1. Matches(r, runs[r], runRows[r], eventRows) /\ r \in Adapters!Request
  BY DEF AdaptersMatch, Tallies
<1>2. /\ runs[r] \in Adapters!WorkflowRun /\ runRows[r] \in Adapters!RunRow
      /\ runs[r].status = runRows[r].status
      /\ runs[r].stage = runRows[r].stage
  BY <1>1 DEF Matches
<1>3. CASE runs[r].status = "COMPLETED"
  BY <1>2, <1>3, Returns DEF Adapters!MemoryResume, Adapters!SqliteResume
<1>4. CASE runs[r].status = "CANCELED"
  BY <1>2, <1>4, Raises
  DEF Adapters!MemoryResume, Adapters!SqliteResume, OnlyAsks
<1>5. CASE runs[r].status \in {"RUNNING", "PAUSED"}
  <2> DEFINE run0 == [runs[r] EXCEPT !.status = "RUNNING"]
             row0 == [runRows[r] EXCEPT !.status = "RUNNING", !.reason = ""]
             stage == runs[r].stage
  <2>1. /\ Adapters!MemoryKeeps(r, Adapters!WithEvent(run0, "WorkflowResumed",
                                                      stage))
        /\ Adapters!SqliteKeeps(r, row0, "WorkflowResumed", stage)
        /\ UNCHANGED <<checkpoints, checkpointRows>>
    BY <1>2, <1>5 DEF Adapters!MemoryResume, Adapters!SqliteResume
  <2>2. Matches(r, run0, row0, eventRows) /\ run0.events = runs[r].events
    <3>1. /\ run0 \in Adapters!WorkflowRun /\ row0 \in Adapters!RunRow
          /\ run0.status = "RUNNING" /\ row0.status = "RUNNING"
      BY <1>2 DEF Adapters!WorkflowRun, Adapters!RunRow,
                  Adapters!WorkflowStatus, Adapters!Reason
    <3>2. /\ run0.stage = runs[r].stage /\ row0.stage = runRows[r].stage
          /\ run0.completed = runs[r].completed
          /\ row0.completed = runRows[r].completed
          /\ run0.effects = runs[r].effects
          /\ row0.effects = runRows[r].effects
          /\ run0.events = runs[r].events
      BY <1>2 DEF Adapters!WorkflowRun, Adapters!RunRow
    <3> HIDE DEF run0, row0
    <3> QED
      BY <1>1, <3>1, <3>2 DEF Matches
  <2>3. stage \in Adapters!Stage /\ "WorkflowResumed" \in Adapters!EventType
    BY <1>2 DEF Adapters!WorkflowRun, Adapters!EventType
  <2> HIDE DEF run0, row0, stage
  <2> QED
    BY <1>1, <2>1, <2>2, <2>3, Keeps
<1> QED
  BY <1>2, <1>3, <1>4, <1>5 DEF Adapters!WorkflowRun, Adapters!WorkflowStatus

LEMMA PauseMatches ==
  ASSUME AdaptersMatch, NEW r \in DOMAIN runs, OnlyAsks(r),
         Adapters!MemoryPause(r), Adapters!SqlitePause(r)
  PROVE  AdaptersMatch'
<1>0. CASE r \in strayed
  <2>1. MemoryMoves(r)
    BY MovesPause
  <2>2. SqliteMoves(r)
    BY MovesPause
  <2> QED
    BY <1>0, <2>1, <2>2, StrayedMoves
<1> SUFFICES ASSUME r \notin strayed PROVE AdaptersMatch'
  BY <1>0
<1>1. Matches(r, runs[r], runRows[r], eventRows) /\ r \in Adapters!Request
  BY DEF AdaptersMatch, Tallies
<1>2. /\ runs[r] \in Adapters!WorkflowRun /\ runRows[r] \in Adapters!RunRow
      /\ runs[r].status = runRows[r].status
      /\ runs[r].stage = runRows[r].stage
  BY <1>1 DEF Matches
<1>3. CASE runs[r].status = "PAUSED"
  BY <1>2, <1>3, Returns DEF Adapters!MemoryPause, Adapters!SqlitePause
<1>4. CASE runs[r].status = "COMPLETED"
  BY <1>2, <1>4, Raises
  DEF Adapters!MemoryPause, Adapters!SqlitePause, OnlyAsks
<1>5. CASE runs[r].status \in {"RUNNING", "CANCELED"}
  <2> DEFINE run0 == [runs[r] EXCEPT !.status = "PAUSED", !.reason = "paused"]
             row0 == [runRows[r] EXCEPT !.status = "PAUSED",
                                        !.reason = "paused"]
             stage == runs[r].stage
  <2>1. /\ Adapters!MemoryKeeps(r, Adapters!WithEvent(run0, "WorkflowPaused",
                                                      stage))
        /\ Adapters!SqliteKeeps(r, row0, "WorkflowPaused", stage)
        /\ UNCHANGED <<checkpoints, checkpointRows>>
    BY <1>2, <1>5 DEF Adapters!MemoryPause, Adapters!SqlitePause
  <2>2. Matches(r, run0, row0, eventRows) /\ run0.events = runs[r].events
    <3>1. /\ run0 \in Adapters!WorkflowRun /\ row0 \in Adapters!RunRow
          /\ run0.status = "PAUSED" /\ row0.status = "PAUSED"
          /\ run0.reason = "paused" /\ row0.reason = "paused"
      BY <1>2 DEF Adapters!WorkflowRun, Adapters!RunRow,
                  Adapters!WorkflowStatus, Adapters!Reason
    <3>2. /\ run0.stage = runs[r].stage /\ row0.stage = runRows[r].stage
          /\ run0.completed = runs[r].completed
          /\ row0.completed = runRows[r].completed
          /\ run0.effects = runs[r].effects
          /\ row0.effects = runRows[r].effects
          /\ run0.events = runs[r].events
      BY <1>2 DEF Adapters!WorkflowRun, Adapters!RunRow
    <3> HIDE DEF run0, row0
    <3> QED
      BY <1>1, <3>1, <3>2 DEF Matches
  <2>3. stage \in Adapters!Stage /\ "WorkflowPaused" \in Adapters!EventType
    BY <1>2 DEF Adapters!WorkflowRun, Adapters!EventType
  <2> HIDE DEF run0, row0, stage
  <2> QED
    BY <1>1, <2>1, <2>2, <2>3, Keeps
<1> QED
  BY <1>2, <1>3, <1>4, <1>5 DEF Adapters!WorkflowRun, Adapters!WorkflowStatus

LEMMA CancelMatches ==
  ASSUME AdaptersMatch, NEW r \in DOMAIN runs, OnlyAsks(r),
         Adapters!MemoryCancel(r), Adapters!SqliteCancel(r)
  PROVE  AdaptersMatch'
<1>0. CASE r \in strayed
  <2>1. MemoryMoves(r)
    BY MovesCancel
  <2>2. SqliteMoves(r)
    BY MovesCancel
  <2> QED
    BY <1>0, <2>1, <2>2, StrayedMoves
<1> SUFFICES ASSUME r \notin strayed PROVE AdaptersMatch'
  BY <1>0
<1>1. Matches(r, runs[r], runRows[r], eventRows) /\ r \in Adapters!Request
  BY DEF AdaptersMatch, Tallies
<1>2. /\ runs[r] \in Adapters!WorkflowRun /\ runRows[r] \in Adapters!RunRow
      /\ runs[r].status = runRows[r].status
      /\ runs[r].stage = runRows[r].stage
  BY <1>1 DEF Matches
<1>3. CASE runs[r].status = "CANCELED"
  BY <1>2, <1>3, Returns DEF Adapters!MemoryCancel, Adapters!SqliteCancel
<1>4. CASE runs[r].status = "COMPLETED"
  BY <1>2, <1>4, Raises
  DEF Adapters!MemoryCancel, Adapters!SqliteCancel, OnlyAsks
<1>5. CASE runs[r].status \in {"RUNNING", "PAUSED"}
  <2> DEFINE run0 == [runs[r] EXCEPT !.status = "CANCELED"]
             row0 == [runRows[r] EXCEPT !.status = "CANCELED",
                                        !.reason = "canceled"]
             stage == runs[r].stage
  <2>1. /\ Adapters!MemoryKeeps(r, Adapters!WithEvent(run0, "WorkflowCanceled",
                                                      stage))
        /\ Adapters!SqliteKeeps(r, row0, "WorkflowCanceled", stage)
        /\ UNCHANGED <<checkpoints, checkpointRows>>
    BY <1>2, <1>5 DEF Adapters!MemoryCancel, Adapters!SqliteCancel
  <2>2. Matches(r, run0, row0, eventRows) /\ run0.events = runs[r].events
    <3>1. /\ run0 \in Adapters!WorkflowRun /\ row0 \in Adapters!RunRow
          /\ run0.status = "CANCELED" /\ row0.status = "CANCELED"
      BY <1>2 DEF Adapters!WorkflowRun, Adapters!RunRow,
                  Adapters!WorkflowStatus, Adapters!Reason
    <3>2. /\ run0.stage = runs[r].stage /\ row0.stage = runRows[r].stage
          /\ run0.completed = runs[r].completed
          /\ row0.completed = runRows[r].completed
          /\ run0.effects = runs[r].effects
          /\ row0.effects = runRows[r].effects
          /\ run0.events = runs[r].events
      BY <1>2 DEF Adapters!WorkflowRun, Adapters!RunRow
    <3> HIDE DEF run0, row0
    <3> QED
      BY <1>1, <3>1, <3>2 DEF Matches
  <2>3. stage \in Adapters!Stage /\ "WorkflowCanceled" \in Adapters!EventType
    BY <1>2 DEF Adapters!WorkflowRun, Adapters!EventType
  <2> HIDE DEF run0, row0, stage
  <2> QED
    BY <1>1, <2>1, <2>2, <2>3, Keeps
<1> QED
  BY <1>2, <1>3, <1>4, <1>5 DEF Adapters!WorkflowRun, Adapters!WorkflowStatus

\* The control plane's calls name their run by an id.
LEMMA NamedCallMatches ==
  ASSUME AdaptersMatch, NEW p, NEW id
  PROVE  /\ Adapters!Resume(p, id) => AdaptersMatch'
         /\ Adapters!Pause(p, id) => AdaptersMatch'
         /\ Adapters!Cancel(p, id) => AdaptersMatch'
<1> DEFINE inMemory == Adapters!WorkflowForProject(p, Adapters!MemoryFound(id))
           inSqlite == Adapters!WorkflowForProject(p, Adapters!SqliteFound(id))
           Refused == /\ inMemory = inSqlite
                      /\ inMemory.raised # "" /\ inMemory.value = {}
           Named(r) == /\ r \in DOMAIN runs /\ r \in Adapters!About(id)
                       /\ inMemory.raised = "" /\ inSqlite.raised = ""
                       /\ inMemory.value = {Adapters!MemoryShows(r, runs[r])}
                       /\ inSqlite.value = {Adapters!SqliteShows(r, runRows[r],
                                                                 eventRows)}
<1>1. Refused \/ \E r : Named(r)
  <2>1. \/ Refused
        \/ /\ inMemory.raised = "" /\ inSqlite.raised = ""
           /\ \E r \in DOMAIN runs :
                /\ r \in Adapters!About(id)
                /\ inMemory.value = {Adapters!MemoryShows(r, runs[r])}
                /\ inSqlite.value
                     = {Adapters!SqliteShows(r, runRows[r], eventRows)}
    BY NamedAlike, Zenon
  <2> HIDE DEF inMemory, inSqlite
  <2> QED
    BY <2>1
<1>2. \A r : Named(r) => /\ \A shown \in inMemory.value : shown.run = r
                         /\ \A shown \in inSqlite.value : shown.run = r
  <2>1. \A r : /\ Adapters!MemoryShows(r, runs[r]).run = r
               /\ Adapters!SqliteShows(r, runRows[r], eventRows).run = r
    BY DEF Adapters!MemoryShows, Adapters!SqliteShows, Adapters!Shown
  <2> HIDE DEF inMemory, inSqlite
  <2> QED
    BY <2>1
<1>3. ASSUME Adapters!Asks(Adapters!About(id)), UNCHANGED strayed
      PROVE  /\ UNCHANGED <<strayed, reader, watcher>>
             /\ \A r \in Adapters!About(id) : OnlyAsks(r)
  BY <1>3 DEF Adapters!Asks, Adapters!readers, OnlyAsks
<1>4. ASSUME Adapters!Resume(p, id) PROVE AdaptersMatch'
  <2>1. /\ \/ inMemory.raised # "" /\ Adapters!MemoryRaises(inMemory.raised)
           \/ \E run1 \in inMemory.value : Adapters!MemoryResume(run1.run)
        /\ \/ inSqlite.raised # "" /\ Adapters!SqliteRaises(inSqlite.raised)
           \/ \E run1 \in inSqlite.value : Adapters!SqliteResume(run1.run)
        /\ Adapters!Asks(Adapters!About(id)) /\ UNCHANGED strayed
    BY <1>4 DEF Adapters!Resume, Adapters!InMemory, Adapters!InSqlite
  <2> HIDE DEF inMemory, inSqlite
  <2>2. CASE Refused
    BY <1>3, <2>1, <2>2, Raises
  <2>3. ASSUME NEW r, Named(r) PROVE AdaptersMatch'
    <3>1. /\ r \in DOMAIN runs /\ OnlyAsks(r)
          /\ Adapters!MemoryResume(r) /\ Adapters!SqliteResume(r)
      BY <1>2, <1>3, <2>1, <2>3
    <3> QED
      BY <3>1, ResumeMatches
  <2> QED
    BY <1>1, <2>2, <2>3
<1>5. ASSUME Adapters!Pause(p, id) PROVE AdaptersMatch'
  <2>1. /\ \/ inMemory.raised # "" /\ Adapters!MemoryRaises(inMemory.raised)
           \/ \E run1 \in inMemory.value : Adapters!MemoryPause(run1.run)
        /\ \/ inSqlite.raised # "" /\ Adapters!SqliteRaises(inSqlite.raised)
           \/ \E run1 \in inSqlite.value : Adapters!SqlitePause(run1.run)
        /\ Adapters!Asks(Adapters!About(id)) /\ UNCHANGED strayed
    BY <1>5 DEF Adapters!Pause, Adapters!InMemory, Adapters!InSqlite
  <2> HIDE DEF inMemory, inSqlite
  <2>2. CASE Refused
    BY <1>3, <2>1, <2>2, Raises
  <2>3. ASSUME NEW r, Named(r) PROVE AdaptersMatch'
    <3>1. /\ r \in DOMAIN runs /\ OnlyAsks(r)
          /\ Adapters!MemoryPause(r) /\ Adapters!SqlitePause(r)
      BY <1>2, <1>3, <2>1, <2>3
    <3> QED
      BY <3>1, PauseMatches
  <2> QED
    BY <1>1, <2>2, <2>3
<1>6. ASSUME Adapters!Cancel(p, id) PROVE AdaptersMatch'
  <2>1. /\ \/ inMemory.raised # "" /\ Adapters!MemoryRaises(inMemory.raised)
           \/ \E run1 \in inMemory.value : Adapters!MemoryCancel(run1.run)
        /\ \/ inSqlite.raised # "" /\ Adapters!SqliteRaises(inSqlite.raised)
           \/ \E run1 \in inSqlite.value : Adapters!SqliteCancel(run1.run)
        /\ Adapters!Asks(Adapters!About(id)) /\ UNCHANGED strayed
    BY <1>6 DEF Adapters!Cancel, Adapters!InMemory, Adapters!InSqlite
  <2> HIDE DEF inMemory, inSqlite
  <2>2. CASE Refused
    BY <1>3, <2>1, <2>2, Raises
  <2>3. ASSUME NEW r, Named(r) PROVE AdaptersMatch'
    <3>1. /\ r \in DOMAIN runs /\ OnlyAsks(r)
          /\ Adapters!MemoryCancel(r) /\ Adapters!SqliteCancel(r)
      BY <1>2, <1>3, <2>1, <2>3
    <3> QED
      BY <3>1, CancelMatches
  <2> QED
    BY <1>1, <2>2, <2>3
<1> QED
  BY <1>4, <1>5, <1>6

LEMMA NothingTold ==
  /\ \A events \in Events : LogAt(events, {}) = <<>>
  /\ <<>> \in Events /\ Len(<<>>) = 0 /\ Adapters!Log(<<>>) = <<>>
<1>1. ASSUME NEW events \in Events PROVE LogAt(events, {}) = <<>>
  <2> DEFINE log == LogAt(events, {})
             none == {n \in 1 .. Len(events) : FALSE}
  <2>1. none = {} /\ none \in SUBSET (1 .. Len(events))
    OBVIOUS
  <2> HIDE DEF none
  <2>2. Cardinality(none) = 0
    BY <2>1, FS_EmptySet
  <2>3. log \in Seq(Entry) /\ Len(log) = 0
    BY <2>1, <2>2, LogFacts
  <2> HIDE DEF log
  <2>4. log = <<>>
    BY <2>3, EmptySeq
  <2> QED
    BY <2>4 DEF log
<1>2. <<>> \in Events /\ Len(<<>>) = 0
  BY EmptySeq DEF Events
<1>3. Adapters!Log(<<>>) = LogAt(<<>>, 1 .. Len(<<>>))
  BY <1>2, LogOfAll
<1>4. 1 .. Len(<<>>) = {}
  BY <1>2
<1> QED
  BY <1>1, <1>2, <1>3, <1>4

LEMMA StartMatches ==
  ASSUME AdaptersMatch, NEW r \in Adapters!Request, Adapters!Start(r)
  PROVE  AdaptersMatch'
<1>1. DOMAIN runs = DOMAIN runRows /\ OnlyAsks(r)
  BY DEF AdaptersMatch, Tallies, Adapters!Start, Adapters!Asks, OnlyAsks,
         Adapters!readers
<1>2. CASE r \in DOMAIN runs
  BY <1>1, <1>2, Returns
  DEF Adapters!Start, Adapters!MemoryStart, Adapters!SqliteStart
<1>3. CASE r \notin DOMAIN runs
  <2> DEFINE type == "WorkflowStarted"
             stage == "start"
  <2>1. /\ Adapters!MemoryKeeps(r, Adapters!WithEvent(Adapters!NewRun, type,
                                                      stage))
        /\ Adapters!SqliteKeeps(r, Adapters!NewRow, type, stage)
        /\ UNCHANGED <<checkpoints, checkpointRows>>
    BY <1>1, <1>3
    DEF Adapters!Start, Adapters!MemoryStart, Adapters!SqliteStart
  <2>2. stage \in Adapters!Stage /\ type \in Adapters!EventType
    BY DEF Adapters!Stage, Adapters!EventType
  <2>3. Matches(r, Adapters!NewRun, Adapters!NewRow, eventRows)
    <3>1. eventRows \in Events
          /\ \A i \in 1 .. Len(eventRows) : eventRows[i].run \in DOMAIN runs
      BY DEF AdaptersMatch, Tallies, Events
    <3>2. Adapters!Places(r, eventRows) = {}
      BY <1>3, <3>1 DEF Adapters!Places
    <3>3. LogAt(eventRows, Adapters!Places(r, eventRows))
            = Adapters!Log(<<>>)
      BY <3>1, <3>2, NothingTold
    <3>4. /\ Adapters!NewRow \in Adapters!RunRow
          /\ Adapters!NewRun \in Adapters!WorkflowRun
      BY EmptySeq
      DEF Adapters!NewRow, Adapters!NewRun, Adapters!RunRow, Adapters!Stage,
          Adapters!WorkflowRun, Adapters!WorkflowStatus, Adapters!Reason
    <3>5. \A i \in 1 .. Len(Adapters!NewRun.events) : FALSE
      BY NothingTold DEF Adapters!NewRun
    <3> QED
      BY <3>3, <3>4, <3>5 DEF Matches, Adapters!NewRow, Adapters!NewRun
  <2> HIDE DEF type, stage
  <2> QED
    BY <1>1, <1>3, <2>1, <2>2, <2>3, Keeps
<1> QED
  BY <1>2, <1>3

\* What completing a stage does to the run, in both runtimes.
LEMMA StageCompleted ==
  ASSUME AdaptersMatch, NEW r \in DOMAIN runs \ strayed, NEW stage \in Stages,
         NEW effect \in Effects \cup {NULL},
         NEW run1, run1 = Adapters!MemoryCompleted(r, stage, effect),
         runs' = Adapters!Put(runs, r, run1),
         \/ /\ stage \in Adapters!ToSet(runRows[r].completed)
            /\ UNCHANGED <<runRows, eventRows>>
         \/ /\ stage \notin Adapters!ToSet(runRows[r].completed)
            /\ runRows' = Adapters!Put(runRows, r,
                            Adapters!Completed(runRows[r], stage, effect))
            /\ Adapters!AppendEvent(r, "WorkflowProgressed", stage)
  PROVE  /\ Tallies(strayed, runs', runRows', eventRows')
         /\ ReaderFits(strayed, reader, runs', eventRows')
         /\ WatcherFits(watcher, eventRows')
         /\ Adapters!MemoryShows(r, run1)
              = Adapters!SqliteShows(r, runRows'[r], eventRows')
<1>1. /\ Tallies(strayed, runs, runRows, eventRows)
      /\ ReaderFits(strayed, reader, runs, eventRows)
      /\ WatcherFits(watcher, eventRows)
  BY DEF AdaptersMatch
<1>2. Matches(r, runs[r], runRows[r], eventRows) /\ r \in Adapters!Request
      /\ r \in DOMAIN runRows
  BY <1>1 DEF Tallies
<1>3. /\ runs[r] \in Adapters!WorkflowRun /\ runRows[r] \in Adapters!RunRow
      /\ runs[r].completed = runRows[r].completed
      /\ runs[r].effects = runRows[r].effects
  BY <1>2 DEF Matches
<1>4. CASE stage \in Adapters!ToSet(runRows[r].completed)
  <2>1. run1 = runs[r] /\ UNCHANGED <<runRows, eventRows>>
    BY <1>3, <1>4 DEF Adapters!MemoryCompleted
  <2>2. DOMAIN runs' = DOMAIN runs /\ \A q \in DOMAIN runs : runs'[q] = runs[q]
    BY <2>1 DEF Adapters!Put
  <2>3. /\ Tallies(strayed, runs', runRows, eventRows)
        /\ ReaderFits(strayed, reader, runs', eventRows)
    BY <1>1, <2>2, AsTheyWere
  <2>4. Adapters!MemoryShows(r, run1)
          = Adapters!SqliteShows(r, runRows[r], eventRows)
    BY <2>1, FoundAlike
  <2> QED
    BY <1>1, <2>1, <2>3, <2>4
<1>5. CASE stage \notin Adapters!ToSet(runRows[r].completed)
  <2> DEFINE type == "WorkflowProgressed"
             run0 == Adapters!Completed(runs[r], stage, effect)
             row0 == Adapters!Completed(runRows[r], stage, effect)
             rr1 == Adapters!Put(runRows, r, row0)
             rows1 == Append(eventRows, [run |-> r, type |-> type,
                                         stage |-> stage])
  <2>1. /\ run1 = Adapters!WithEvent(run0, type, stage)
        /\ runRows' = rr1 /\ eventRows' = rows1
    BY <1>3, <1>5 DEF Adapters!MemoryCompleted, Adapters!AppendEvent
  <2>2. stage \in Adapters!Stage /\ type \in Adapters!EventType
    BY DEF Adapters!Stage, Adapters!EventType
  <2>3. Matches(r, run0, row0, eventRows) /\ run0.events = runs[r].events
    <3> DEFINE done == Append(runs[r].completed, stage)
               used == IF effect = NULL
                          \/ effect \in Adapters!ToSet(runs[r].effects)
                         THEN runs[r].effects
                         ELSE Append(runs[r].effects, effect)
    <3>1. /\ run0 = [runs[r] EXCEPT !.status = "COMPLETED", !.stage = stage,
                                    !.completed = done, !.effects = used]
          /\ row0 = [runRows[r] EXCEPT !.status = "COMPLETED", !.stage = stage,
                                       !.completed = done, !.effects = used]
      BY <1>3 DEF Adapters!Completed
    <3>2. done \in Seq(Stages)
      BY <1>3, AppendProperties DEF Adapters!WorkflowRun
    <3>3. used \in Seq(Effects)
      <4>1. runs[r].effects \in Seq(Effects)
        BY <1>3 DEF Adapters!WorkflowRun
      <4>2. effect # NULL => effect \in Effects
        OBVIOUS
      <4>3. effect \in Effects => Append(runs[r].effects, effect) \in Seq(Effects)
        BY <4>1, AppendProperties
      <4> QED
        BY <4>1, <4>2, <4>3
    <3> HIDE DEF done, used, run0, row0
    <3>4. /\ run0 \in Adapters!WorkflowRun /\ row0 \in Adapters!RunRow
      BY <1>3, <2>2, <3>1, <3>2, <3>3
      DEF Adapters!WorkflowRun, Adapters!RunRow, Adapters!WorkflowStatus
    <3>5. /\ run0.status = "COMPLETED" /\ row0.status = "COMPLETED"
          /\ run0.stage = stage /\ row0.stage = stage
          /\ run0.completed = done /\ row0.completed = done
          /\ run0.effects = used /\ row0.effects = used
          /\ run0.events = runs[r].events
      BY <1>3, <3>1 DEF Adapters!WorkflowRun, Adapters!RunRow
    <3> QED
      BY <1>2, <3>4, <3>5 DEF Matches
  <2> HIDE DEF type, run0, row0
  <2>4. /\ Tallies(strayed, runs', rr1, rows1)
        /\ ReaderFits(strayed, reader, runs', rows1)
        /\ Adapters!MemoryShows(r, run1) = Adapters!SqliteShows(r, row0, rows1)
    BY <1>1, <1>2, <2>1, <2>2, <2>3, RunKept
  <2>5. rr1[r] = row0
    BY DEF Adapters!Put
  <2>6. WatcherFits(watcher, rows1)
    <3>1. /\ [run |-> r, type |-> type, stage |-> stage] \in Adapters!EventRow
          /\ eventRows \in Seq(Adapters!EventRow)
      BY <1>1, <1>2, <2>2 DEF Adapters!EventRow, Tallies
    <3> QED
      BY <1>1, <3>1, WatcherStill
  <2> HIDE DEF rr1, rows1
  <2> QED
    BY <2>1, <2>4, <2>5, <2>6
<1> QED
  BY <1>4, <1>5

LEMMA CompleteMatches ==
  ASSUME AdaptersMatch, NEW r \in Adapters!Request, NEW stage \in Stages,
         NEW effect \in Effects \cup {NULL},
         Adapters!Complete(r, stage, effect)
  PROVE  AdaptersMatch'
<1> DEFINE run1 == Adapters!MemoryCompleted(r, stage, effect)
<1>1. /\ Adapters!MemoryComplete(r, stage, effect)
      /\ Adapters!SqliteComplete(r, stage, effect)
      /\ OnlyAsks(r) /\ UNCHANGED <<strayed, reader, watcher>>
      /\ DOMAIN runs = DOMAIN runRows
  BY DEF Adapters!Complete, Adapters!Asks, Adapters!readers, OnlyAsks,
         AdaptersMatch, Tallies
<1>2. CASE r \notin DOMAIN runs
  BY <1>1, <1>2, Raises DEF Adapters!MemoryComplete, Adapters!SqliteComplete
<1>3. CASE r \in DOMAIN runs
  <2>1. /\ UNCHANGED <<checkpoints, checkpointRows>>
        /\ runs' = Adapters!Put(runs, r, run1)
        /\ memoryAnswer' = Adapters!Returned({Adapters!MemoryShows(r, run1)})
    BY <1>1, <1>3
    DEF Adapters!MemoryComplete, Adapters!MemoryKeeps,
        Adapters!SqliteComplete, Adapters!SqliteReturns
  <2>2. \/ /\ stage \in Adapters!ToSet(runRows[r].completed)
           /\ UNCHANGED <<runRows, eventRows>>
           /\ sqliteAnswer' = Adapters!Returned(
                {Adapters!SqliteShows(r, runRows[r], eventRows)})
        \/ /\ stage \notin Adapters!ToSet(runRows[r].completed)
           /\ runRows' = Adapters!Put(runRows, r,
                           Adapters!Completed(runRows[r], stage, effect))
           /\ Adapters!AppendEvent(r, "WorkflowProgressed", stage)
           /\ sqliteAnswer' = Adapters!Returned(
                {Adapters!SqliteShows(r,
                   Adapters!Completed(runRows[r], stage, effect), eventRows')})
    BY <1>1, <1>3
    DEF Adapters!SqliteComplete, Adapters!SqliteKeeps, Adapters!SqliteReturns
  <2>3. sqliteAnswer' = Adapters!Returned(
          {Adapters!SqliteShows(r, runRows'[r], eventRows')})
    BY <1>1, <1>3, <2>2 DEF Adapters!Put
  <2> HIDE DEF run1
  <2>4. CASE r \in strayed
    <3>1. MemoryMoves(r)
      BY <1>3, <2>1, StrayedCompletes DEF MemoryMoves, run1
    <3>2. SqliteMoves(r)
      BY <1>3, <2>1, <2>2, StrayedCompletes DEF SqliteMoves
    <3> QED
      BY <1>1, <1>3, <2>4, <3>1, <3>2, StrayedMoves
  <2>5. CASE r \notin strayed
    <3>1. /\ Tallies(strayed, runs', runRows', eventRows')
          /\ ReaderFits(strayed, reader, runs', eventRows')
          /\ WatcherFits(watcher, eventRows')
          /\ Adapters!MemoryShows(r, run1)
               = Adapters!SqliteShows(r, runRows'[r], eventRows')
      BY <1>3, <2>1, <2>2, <2>5, StageCompleted DEF run1
    <3> QED
      BY <1>1, <2>1, <2>3, <3>1 DEF AdaptersMatch
  <2> QED
    BY <2>4, <2>5
<1> QED
  BY <1>2, <1>3

LEMMA CheckpointMatches ==
  ASSUME AdaptersMatch, NEW k \in Adapters!CheckpointKey,
         NEW effect \in Effects \cup {NULL}, Adapters!Checkpoint(k, effect)
  PROVE  AdaptersMatch'
<1>1. /\ k.stage \in Stages /\ UNCHANGED <<reader, watcher>>
      /\ Adapters!MemoryCheckpoint(k, effect)
      /\ Adapters!SqliteCheckpoint(k, effect)
      /\ k.run \in asked'
      /\ strayed' = IF k.run \in DOMAIN runs THEN strayed
                    ELSE strayed \cup {k.run}
      /\ SameCheckpoints(strayed, checkpoints, checkpointRows)
      /\ DOMAIN runs = DOMAIN runRows
  BY DEF Adapters!Checkpoint, Adapters!CheckpointKey, AdaptersMatch,
         Adapters!Asks, Adapters!readers, Tallies
<1>2. CASE k.run \notin DOMAIN runs
  <2>1. /\ strayed' = strayed \cup {k.run}
        /\ UNCHANGED <<runs, runRows, eventRows, checkpointRows>>
        /\ \/ UNCHANGED checkpoints
           \/ checkpoints' = Adapters!Put(checkpoints, k, [effect |-> effect])
    BY <1>1, <1>2
    DEF Adapters!MemoryCheckpoint, Adapters!SqliteCheckpoint,
        Adapters!SqliteRaises
  <2>2. SameCheckpoints(strayed', checkpoints', checkpointRows)
    <3>1. \A j : j # k => /\ j \in DOMAIN checkpoints' <=> j \in DOMAIN checkpoints
                          /\ j \in DOMAIN checkpoints
                               => checkpoints'[j] = checkpoints[j]
      BY <2>1 DEF Adapters!Put
    <3> QED
      BY <1>1, <2>1, <3>1 DEF SameCheckpoints
  <2>3. /\ Tallies(strayed', runs, runRows, eventRows)
        /\ ReaderFits(strayed', reader, runs, eventRows)
    BY <2>1 DEF AdaptersMatch, Tallies, ReaderFits
  <2>4. asked' \cap strayed' # {}
    BY <1>1, <2>1
  <2> QED
    BY <1>1, <2>1, <2>2, <2>3, <2>4 DEF AdaptersMatch
<1>3. CASE k.run \in DOMAIN runs
  <2>1. UNCHANGED strayed /\ OnlyAsks(k.run)
    BY <1>1, <1>3 DEF OnlyAsks
  <2> DEFINE run1 == Adapters!MemoryCompleted(k.run, k.stage, effect)
             new == [effect |-> effect]
  <2>2. \/ UNCHANGED <<runs, checkpoints>>
        \/ /\ checkpoints' = Adapters!Put(checkpoints, k, new)
           /\ runs' = Adapters!Put(runs, k.run, run1)
    BY <1>1, <1>3 DEF Adapters!MemoryCheckpoint
  <2>3. \/ UNCHANGED <<runRows, eventRows, checkpointRows>>
        \/ /\ checkpointRows' = Adapters!Put(checkpointRows, k, new)
           /\ \/ UNCHANGED <<runRows, eventRows>>
              \/ /\ runRows' = Adapters!Put(runRows, k.run,
                      Adapters!Completed(runRows[k.run], k.stage, effect))
                 /\ Adapters!AppendEvent(k.run, "WorkflowProgressed", k.stage)
    BY <1>1, <1>3 DEF Adapters!SqliteCheckpoint
  <2> HIDE DEF run1
  <2>4. CASE k.run \in strayed
    <3>1. /\ Tallies(strayed, runs', runRows', eventRows')
          /\ ReaderFits(strayed, reader, runs', eventRows')
          /\ WatcherFits(watcher, eventRows')
      <4>1. \/ UNCHANGED runs
            \/ \E new1 : /\ Extends(new1, runs[k.run])
                         /\ runs' = Adapters!Put(runs, k.run, new1)
        BY <1>1, <1>3, <2>2, StrayedCompletes DEF run1
      <4>2. UNCHANGED <<runRows, eventRows>> \/ SqliteAdds(k.run)
        BY <1>1, <1>3, <2>3, StrayedCompletes
      <4> QED
        BY <1>3, <2>4, <4>1, <4>2, StrayedTallies
    <3>2. SameCheckpoints(strayed, checkpoints', checkpointRows')
      <4>1. \A j : j # k =>
              /\ j \in DOMAIN checkpoints' <=> j \in DOMAIN checkpoints
              /\ j \in DOMAIN checkpoints => checkpoints'[j] = checkpoints[j]
        BY <2>2 DEF Adapters!Put
      <4>2. \A j : j # k =>
              /\ j \in DOMAIN checkpointRows' <=> j \in DOMAIN checkpointRows
              /\ j \in DOMAIN checkpointRows
                   => checkpointRows'[j] = checkpointRows[j]
        BY <2>3 DEF Adapters!Put
      <4> QED
        BY <1>1, <2>4, <4>1, <4>2 DEF SameCheckpoints
    <3>3. k.run \in asked' \cap strayed'
      BY <1>1, <2>1, <2>4
    <3> QED
      BY <1>1, <2>1, <3>1, <3>2, <3>3 DEF AdaptersMatch
  <2>5. CASE k.run \notin strayed
    <3>1. /\ k \in DOMAIN checkpoints <=> k \in DOMAIN checkpointRows
          /\ k \in DOMAIN checkpoints => checkpoints[k] = checkpointRows[k]
      BY <1>1, <2>5 DEF SameCheckpoints
    <3>2. CASE k \in DOMAIN checkpoints
      BY <1>1, <1>3, <2>1, <3>1, <3>2, Answered
      DEF Adapters!MemoryCheckpoint, Adapters!SqliteCheckpoint, OnlyAsks
    <3>3. CASE k \notin DOMAIN checkpoints
      <4>1. /\ checkpoints' = Adapters!Put(checkpoints, k, new)
            /\ checkpointRows' = Adapters!Put(checkpointRows, k, new)
            /\ runs' = Adapters!Put(runs, k.run, run1)
            /\ memoryAnswer' = Adapters!Returned({new})
            /\ sqliteAnswer' = Adapters!Returned({checkpointRows'[k]})
        BY <1>1, <1>3, <3>1, <3>3
        DEF Adapters!MemoryCheckpoint, Adapters!SqliteCheckpoint, run1
      <4>2. \/ /\ k.stage \in Adapters!ToSet(runRows[k.run].completed)
               /\ UNCHANGED <<runRows, eventRows>>
            \/ /\ k.stage \notin Adapters!ToSet(runRows[k.run].completed)
               /\ runRows' = Adapters!Put(runRows, k.run,
                    Adapters!Completed(runRows[k.run], k.stage, effect))
               /\ Adapters!AppendEvent(k.run, "WorkflowProgressed", k.stage)
        BY <1>1, <1>3, <3>1, <3>3 DEF Adapters!SqliteCheckpoint
      <4>3. /\ Tallies(strayed, runs', runRows', eventRows')
            /\ ReaderFits(strayed, reader, runs', eventRows')
            /\ WatcherFits(watcher, eventRows')
        BY <1>1, <1>3, <2>5, <4>1, <4>2, StageCompleted DEF run1
      <4>4. memoryAnswer' = sqliteAnswer'
        BY <4>1 DEF Adapters!Put
      <4>5. SameCheckpoints(strayed, checkpoints', checkpointRows')
        BY <1>1, <4>1 DEF SameCheckpoints, Adapters!Put
      <4> QED
        BY <1>1, <2>1, <4>3, <4>4, <4>5 DEF AdaptersMatch
    <3> QED
      BY <3>2, <3>3
  <2> QED
    BY <2>4, <2>5
<1> QED
  BY <1>2, <1>3

----------------------------------------------------------------------------
(* Polls *)

\* What is selected above a number is what is still to be told, and its last
\* number is the last there is.
LEMMA RestFacts ==
  ASSUME NEW events \in Events, NEW S \in SUBSET (1 .. Len(events)),
         NEW cut \in 0 .. Len(events),
         \A i \in S : events[i].sequence = i,
         NEW rest, rest = Adapters!Selected(events, Above(S, cut)),
         NEW last, last = Adapters!LastNumber(rest, cut)
  PROVE  /\ Adapters!Log(rest) = LogAt(events, Above(S, cut))
         /\ last \in 0 .. Len(events)
         /\ UpTo(S, last) = S
<1> DEFINE high == Above(S, cut)
<1>1. Len(events) \in Nat /\ \A i \in S : i \in 1 .. Len(events)
  BY EventFacts
<1>2. high \in SUBSET (1 .. Len(events)) /\ high \in SUBSET S
  BY DEF Above
<1>3. /\ Len(rest) = Cardinality(high)
      /\ \A i \in 1 .. Cardinality(high) :
           rest[i] = events[Adapters!InOrder(high)[i]]
      /\ Adapters!Log(rest) = LogAt(events, high)
      /\ rest = <<>> <=> high = {}
  BY <1>2, LogOfSelected
<1>4. \A i \in S : i <= cut \/ i \in high
  BY <1>1 DEF Above
<1>5. CASE high = {}
  <2>1. last = cut
    BY <1>3, <1>5 DEF Adapters!LastNumber
  <2>2. UpTo(S, cut) = S
    BY <1>4, <1>5 DEF UpTo
  <2> QED
    BY <1>3, <2>1, <2>2
<1>6. CASE high # {}
  <2> HIDE DEF high
  <2>1. /\ Cardinality(high) \in Nat \ {0}
        /\ Adapters!InOrder(high)[Cardinality(high)] \in high
        /\ \A n \in high : n <= Adapters!InOrder(high)[Cardinality(high)]
    BY <1>1, <1>2, <1>6, LastInOrder
  <2>2. last = Adapters!InOrder(high)[Cardinality(high)]
    <3>1. last = rest[Len(rest)].sequence
      BY <1>3, <1>6 DEF Adapters!LastNumber, Adapters!Last
    <3>2. Cardinality(high) \in 1 .. Cardinality(high)
      BY <2>1
    <3>3. rest[Len(rest)] = events[Adapters!InOrder(high)[Cardinality(high)]]
      BY <1>3, <3>2
    <3>4. Adapters!InOrder(high)[Cardinality(high)] \in S
      BY <1>2, <2>1
    <3> QED
      BY <3>1, <3>3, <3>4
  <2>3. last \in 1 .. Len(events) /\ last > cut
    BY <1>1, <1>2, <2>1, <2>2 DEF high, Above
  <2>4. \A i \in S : i <= last
    BY <1>1, <1>4, <2>1, <2>2, <2>3
  <2>5. UpTo(S, last) = S
    BY <2>4 DEF UpTo
  <2> QED
    BY <1>3, <2>3, <2>5 DEF high
<1> QED
  BY <1>5, <1>6

\* The rest in memory.
LEMMA MemoryRest ==
  ASSUME NEW r, runs[r].events \in Seq(Adapters!Event),
         \A i \in 1 .. Len(runs[r].events) : runs[r].events[i].sequence = i,
         NEW cut \in 0 .. Len(runs[r].events),
         NEW rest, rest = Adapters!MemoryAfter(r, cut),
         NEW last, last = Adapters!LastNumber(rest, cut)
  PROVE  LET events == runs[r].events
             all    == 1 .. Len(events)
         IN  /\ Adapters!Log(rest) = LogAt(events, Above(all, cut))
             /\ last \in 0 .. Len(events)
             /\ UpTo(all, last) = all
<1> DEFINE events == runs[r].events
           all == 1 .. Len(events)
<1>1. events \in Events /\ Len(events) \in Nat
      /\ \A i \in all : events[i].sequence = i
  BY EventFacts DEF Events
<1>2. CASE cut = 0
  <2>1. rest = events
    BY <1>2 DEF Adapters!MemoryAfter
  <2>2. Above(all, cut) = all
    BY <1>1, <1>2 DEF Above
  <2>3. Adapters!Log(rest) = LogAt(events, all)
    BY <1>1, <2>1, LogOfAll
  <2>4. last = Len(events)
    <3>1. CASE events = <<>>
      BY <1>2, <2>1, <3>1, EmptySeq DEF Adapters!LastNumber
    <3>2. CASE events # <<>>
      <4>1. Len(events) \in all
        BY <3>2, EmptySeq
      <4>2. last = events[Len(events)].sequence
        BY <2>1, <3>2 DEF Adapters!LastNumber, Adapters!Last
      <4> QED
        BY <1>1, <4>1, <4>2
    <3> QED
      BY <3>1, <3>2
  <2>5. UpTo(all, last) = all
    BY <1>1, <2>4 DEF UpTo
  <2> QED
    BY <1>1, <2>2, <2>3, <2>4, <2>5
<1>3. CASE cut # 0
  <2>1. {i \in all : events[i].sequence > cut} = Above(all, cut)
    BY <1>1 DEF Above
  <2>2. rest = Adapters!Selected(events, Above(all, cut))
    <3>1. ~(cut <= 0)
      BY <1>1, <1>3
    <3>2. rest = Adapters!Selected(events, {i \in all : events[i].sequence > cut})
      BY <3>1 DEF Adapters!MemoryAfter
    <3> QED
      BY <2>1, <3>2
  <2> HIDE DEF events
  <2>3. all \in SUBSET (1 .. Len(events))
    OBVIOUS
  <2>4. /\ Adapters!Log(rest) = LogAt(events, Above(all, cut))
        /\ last \in 0 .. Len(events)
        /\ UpTo(all, last) = all
    <3> HIDE DEF all
    <3> QED
      BY <1>1, <2>2, <2>3, RestFacts DEF events
  <2> QED
    BY <2>4 DEF events
<1> QED
  BY <1>2, <1>3

\* The rest in SQLite.
LEMMA SqliteRest ==
  ASSUME NEW r, eventRows \in Seq(Adapters!EventRow),
         NEW cut \in 0 .. Len(eventRows),
         NEW rest, rest = Adapters!SqliteAfter(r, cut),
         NEW last, last = Adapters!LastNumber(rest, cut)
  PROVE  LET places == Adapters!Places(r, eventRows)
         IN  /\ Adapters!Log(rest) = LogAt(eventRows, Above(places, cut))
             /\ last \in 0 .. Len(eventRows)
             /\ UpTo(places, last) = places
<1> DEFINE places == Adapters!Places(r, eventRows)
           size == Len(eventRows)
           numbered == [i \in 1 .. size |->
                          [sequence |-> i, type |-> eventRows[i].type,
                           stage |-> eventRows[i].stage]]
<1>1. size \in Nat /\ places \in SUBSET (1 .. size) /\ eventRows \in Events
  BY LenProperties DEF Adapters!Places, Events
<1>2. \A i \in 1 .. size : eventRows[i] \in Adapters!EventRow
  BY LenProperties
<1> HIDE DEF size
<1>3. numbered \in [1 .. size -> Adapters!Event]
  BY <1>1, <1>2 DEF Adapters!Event, Adapters!EventRow
<1>4. /\ \A i \in 1 .. size : numbered[i].sequence = i
      /\ \A i \in 1 .. size : Told(numbered[i]) = Told(eventRows[i])
  BY DEF Told
<1>5. {i \in places : i > cut} = Above(places, cut)
  BY DEF Above
<1>6. rest = Adapters!Selected(numbered, Above(places, cut))
  BY <1>5 DEF Adapters!SqliteAfter, size
<1> HIDE DEF numbered, places
<1>7. numbered \in Events /\ Len(numbered) = size
  <2>1. numbered \in Seq(Adapters!Event)
    BY <1>1, <1>3, SeqDef
  <2>2. Len(numbered) = size
    BY <1>1, <1>3, <2>1, LenProperties
  <2> QED
    BY <2>1, <2>2 DEF Events
<1>8. /\ Adapters!Log(rest) = LogAt(numbered, Above(places, cut))
      /\ last \in 0 .. size
      /\ UpTo(places, last) = places
  BY <1>1, <1>4, <1>6, <1>7, RestFacts DEF size
<1>9. LogAt(numbered, Above(places, cut)) = LogAt(eventRows, Above(places, cut))
  <2>1. Above(places, cut) \in SUBSET (1 .. size)
    BY <1>1 DEF Above
  <2> QED
    BY <1>1, <1>4, <1>7, <2>1, LogKept DEF size
<1> QED
  BY <1>8, <1>9 DEF places, size

LEMMA PollMatches ==
  ASSUME AdaptersMatch, NEW r \in Adapters!Request, Adapters!Poll(r)
  PROVE  AdaptersMatch'
<1> DEFINE events == runs[r].events
           all == 1 .. Len(events)
           places == Adapters!Places(r, eventRows)
           fromMemory == Adapters!MemoryAfter(r, reader.memory)
           fromSqlite == Adapters!SqliteAfter(r, reader.sqlite)
           memoryLast == Adapters!LastNumber(fromMemory, reader.memory)
           sqliteLast == Adapters!LastNumber(fromSqlite, reader.sqlite)
<1>1. /\ r \in DOMAIN runs /\ reader.run \in {NULL, r}
      /\ reader' =
           [run |-> r, memory |-> memoryLast, sqlite |-> sqliteLast,
            memoryLog |-> reader.memoryLog \o Adapters!Log(fromMemory),
            sqliteLog |-> reader.sqliteLog \o Adapters!Log(fromSqlite)]
      /\ UNCHANGED <<runs, checkpoints, memoryAnswer, runRows, eventRows,
                     checkpointRows, sqliteAnswer, asked, strayed, watcher>>
  BY DEF Adapters!Poll, Adapters!memory, Adapters!sqlite
<1>2. /\ Tallies(strayed, runs, runRows, eventRows)
      /\ ReaderFits(strayed, reader, runs, eventRows)
  BY DEF AdaptersMatch
<1>3. /\ Stored(runs[r], runRows[r])
      /\ r \notin strayed => Matches(r, runs[r], runRows[r], eventRows)
      /\ eventRows \in Seq(Adapters!EventRow) /\ eventRows \in Events
      /\ DOMAIN runs \subseteq Adapters!Request
      /\ places \in SUBSET (1 .. Len(eventRows))
  BY <1>1, <1>2 DEF Tallies, Events, Adapters!Places
<1>4. /\ events \in Seq(Adapters!Event)
      /\ \A i \in all : events[i].sequence = i
      /\ r \notin strayed => Adapters!Log(events) = LogAt(eventRows, places)
  BY <1>3 DEF Matches, Stored, Adapters!WorkflowRun
<1>5. /\ events \in Events /\ Len(events) \in Nat
      /\ Len(eventRows) \in Nat
      /\ all \in SUBSET (1 .. Len(events))
  BY <1>3, <1>4, EventFacts DEF Events
<1>6. /\ reader.memory \in 0 .. Len(events)
      /\ reader.sqlite \in 0 .. Len(eventRows)
      /\ reader.memoryLog = LogAt(events, UpTo(all, reader.memory))
      /\ reader.sqliteLog = LogAt(eventRows, UpTo(places, reader.sqlite))
  <2>1. CASE reader = NoReader
    <3>1. /\ reader.memory = 0 /\ reader.sqlite = 0
          /\ reader.memoryLog = <<>> /\ reader.sqliteLog = <<>>
      BY <2>1 DEF NoReader
    <3> HIDE DEF events, places
    <3>2. \A n \in all \cup places : ~(n <= 0)
      <4>1. \A n \in all : ~(n <= 0)
        BY <1>5
      <4>2. \A n \in 1 .. Len(eventRows) : ~(n <= 0)
        BY <1>5
      <4> QED
        BY <1>3, <4>1, <4>2
    <3> HIDE DEF all
    <3>3. UpTo(all, 0) = {} /\ UpTo(places, 0) = {}
      BY <3>2 DEF UpTo
    <3>4. LogAt(events, UpTo(all, 0)) = <<>>
      BY <1>5, <3>3, NothingTold
    <3>5. LogAt(eventRows, UpTo(places, 0)) = <<>>
      BY <1>3, <3>3, NothingTold
    <3>6. 0 \in 0 .. Len(events) /\ 0 \in 0 .. Len(eventRows)
      BY <1>5
    <3> QED
      BY <3>1, <3>4, <3>5, <3>6
  <2>2. CASE /\ reader.run \in DOMAIN runs
             /\ HasHeard(reader, runs[reader.run].events, eventRows)
             /\ reader.run \notin strayed => reader.memoryLog = reader.sqliteLog
    <3>1. reader.run = r
      BY <1>1, <1>3, <2>2, NoRunAssumption DEF Adapters!Request
    <3> QED
      BY <2>2, <3>1 DEF HasHeard
  <2> QED
    BY <1>2, <2>1, <2>2 DEF ReaderFits
<1>7. /\ Adapters!Log(fromMemory) = LogAt(events, Above(all, reader.memory))
      /\ memoryLast \in 0 .. Len(events)
      /\ UpTo(all, memoryLast) = all
  BY <1>4, <1>6, MemoryRest
<1>8. /\ Adapters!Log(fromSqlite)
           = LogAt(eventRows, Above(places, reader.sqlite))
      /\ sqliteLast \in 0 .. Len(eventRows)
      /\ UpTo(places, sqliteLast) = places
  BY <1>3, <1>6, SqliteRest
<1> HIDE DEF events, places, fromMemory, fromSqlite, memoryLast, sqliteLast
<1>9. LogAt(events, all) = LogAt(events, UpTo(all, reader.memory))
                             \o LogAt(events, Above(all, reader.memory))
  <2>1. reader.memory \in Nat
    BY <1>5, <1>6
  <2> HIDE DEF all
  <2> QED
    BY <1>5, <2>1, LogSplits
<1>10. LogAt(eventRows, places)
         = LogAt(eventRows, UpTo(places, reader.sqlite))
             \o LogAt(eventRows, Above(places, reader.sqlite))
  <2>1. reader.sqlite \in Nat
    BY <1>5, <1>6
  <2> QED
    BY <1>3, <2>1, LogSplits
<1>11. r \notin strayed => LogAt(events, all) = LogAt(eventRows, places)
  BY <1>4, <1>5, LogOfAll
<1>12. /\ reader'.run = r /\ reader'.memory = memoryLast
       /\ reader'.sqlite = sqliteLast
       /\ reader'.memoryLog = LogAt(events, UpTo(all, memoryLast))
       /\ reader'.sqliteLog = LogAt(eventRows, UpTo(places, sqliteLast))
       /\ r \notin strayed => reader'.memoryLog = reader'.sqliteLog
  BY <1>1, <1>6, <1>7, <1>8, <1>9, <1>10, <1>11
<1>13. HasHeard(reader', events, eventRows)
  BY <1>7, <1>8, <1>12 DEF HasHeard, places
<1>14. ReaderFits(strayed, reader', runs, eventRows)
  BY <1>1, <1>12, <1>13 DEF ReaderFits, events
<1> QED
  BY <1>1, <1>2, <1>14 DEF AdaptersMatch

LEMMA WatchMatches ==
  ASSUME AdaptersMatch, NEW p \in Projects, Adapters!Watch(p)
  PROVE  AdaptersMatch'
<1> DEFINE places == Adapters!PlacesOf(p, eventRows)
           fresh == Adapters!After(p, watcher.last)
<1>1. PICK highest \in fresh :
        /\ \A i \in fresh : i <= highest
        /\ watcher' = [project |-> p, last |-> highest,
                       received |-> watcher.received \cup fresh,
                       again |-> \/ watcher.again
                                 \/ watcher.received \cap fresh # {}]
  BY DEF Adapters!Watch
<1>2. /\ watcher.project \in {NULL, p}
      /\ UNCHANGED <<runs, checkpoints, memoryAnswer, runRows, eventRows,
                     checkpointRows, sqliteAnswer, asked, strayed, reader>>
  BY DEF Adapters!Watch, Adapters!memory, Adapters!sqlite
<1>3. Len(eventRows) \in Nat /\ places \subseteq 1 .. Len(eventRows)
  BY LenProperties DEF AdaptersMatch, Tallies, Adapters!PlacesOf
<1>4. /\ watcher.last \in Nat /\ ~watcher.again
      /\ watcher.received = UpTo(places, watcher.last)
  <2>1. CASE watcher = NoWatcher
    <3>1. \A i \in places : ~(i <= 0)
      BY <1>3
    <3> QED
      BY <2>1, <3>1 DEF NoWatcher, UpTo
  <2>2. CASE /\ watcher.project # NULL
             /\ watcher.last \in 0 .. Len(eventRows) /\ ~watcher.again
             /\ watcher.received
                  = UpTo(Adapters!PlacesOf(watcher.project, eventRows),
                         watcher.last)
    BY <1>2, <1>3, <2>2
  <2> QED
    BY <2>1, <2>2 DEF AdaptersMatch, WatcherFits
<1>5. fresh = Above(places, watcher.last)
  BY DEF Adapters!After, Above
<1> HIDE DEF places, fresh
<1>6. watcher.received \cap fresh = {}
  <2>1. \A i \in places : ~(i <= watcher.last /\ i > watcher.last)
    BY <1>3, <1>4
  <2> QED
    BY <1>4, <1>5, <2>1 DEF UpTo, Above
<1>7. highest \in 1 .. Len(eventRows) /\ highest > watcher.last
  BY <1>1, <1>3, <1>5 DEF Above
<1>8. watcher.received \cup fresh = UpTo(places, highest)
  <2>1. \A i \in places : i <= highest
    BY <1>1, <1>3, <1>4, <1>5, <1>7 DEF Above
  <2>2. \A i \in places : i <= watcher.last \/ i > watcher.last
    BY <1>3, <1>4
  <2> QED
    BY <1>4, <1>5, <2>1, <2>2 DEF UpTo, Above
<1>9. WatcherFits(watcher', eventRows)
  BY <1>1, <1>3, <1>4, <1>6, <1>7, <1>8, NoRunAssumption DEF WatcherFits, places
<1> QED
  BY <1>2, <1>9 DEF AdaptersMatch

\* What the runtimes and the readers have to do with each other.
LEMMA AdaptersInductive ==
  /\ Adapters!Init => AdaptersMatch
  /\ AdaptersMatch /\ Adapters!Next => AdaptersMatch'
<1>1. ASSUME Adapters!Init PROVE AdaptersMatch
  <2>1. Tallies(strayed, runs, runRows, eventRows)
    <3>1. /\ DOMAIN runs = {} /\ DOMAIN runRows = {} /\ eventRows = <<>>
      BY <1>1 DEF Adapters!Init, Adapters!Empty
    <3>2. eventRows \in Seq(Adapters!EventRow) /\ Len(eventRows) = 0
      BY <3>1, EmptySeq
    <3> QED
      BY <3>1, <3>2 DEF Tallies
  <2>2. SameCheckpoints(strayed, checkpoints, checkpointRows)
    BY <1>1 DEF Adapters!Init, Adapters!Empty, SameCheckpoints
  <2> QED
    BY <1>1, <2>1, <2>2 DEF Adapters!Init, AdaptersMatch, ReaderFits, NoReader,
                            WatcherFits, NoWatcher
<1>2. ASSUME AdaptersMatch, Adapters!Next PROVE AdaptersMatch'
  <2>1. CASE \E r \in Adapters!Request : Adapters!Start(r)
    BY <1>2, <2>1, StartMatches
  <2>2. CASE \E p \in Projects, id \in Adapters!RunOrProject :
               \/ Adapters!Resume(p, id)
               \/ Adapters!Pause(p, id)
               \/ Adapters!Cancel(p, id)
    BY <1>2, <2>2, NamedCallMatches
  <2>3. CASE \E r \in Adapters!Request, stage \in Stages,
                effect \in Effects \cup {NULL} :
               Adapters!Complete(r, stage, effect)
    BY <1>2, <2>3, CompleteMatches
  <2>4. CASE \E k \in Adapters!CheckpointKey, effect \in Effects \cup {NULL} :
               Adapters!Checkpoint(k, effect)
    BY <1>2, <2>4, CheckpointMatches
  <2>5. CASE \E id \in Adapters!RunOrProject : Adapters!Query(id)
    <3>1. PICK id \in Adapters!RunOrProject : Adapters!Query(id)
      BY <2>5
    <3>2. asked' \cap strayed = {} => memoryAnswer' = sqliteAnswer'
      BY <1>2, <3>1, FoundAlike DEF Adapters!Query, Adapters!Asks
    <3> QED
      BY <1>2, <3>1, <3>2, Answered
      DEF Adapters!Query, Adapters!Asks, Adapters!readers
  <2>6. CASE \E k \in Adapters!CheckpointKey : Adapters!GetCheckpoint(k)
    <3>1. PICK k \in Adapters!CheckpointKey : Adapters!GetCheckpoint(k)
      BY <2>6
    <3>2. k.run \notin strayed => Adapters!MemoryCheckpointAt(k)
                                    = Adapters!SqliteCheckpointAt(k)
      BY <1>2, CheckpointsAlike
    <3>3. asked' \cap strayed = {} => memoryAnswer' = sqliteAnswer'
      BY <3>1, <3>2 DEF Adapters!GetCheckpoint, Adapters!Asks
    <3> QED
      BY <1>2, <3>1, <3>3, Answered
      DEF Adapters!GetCheckpoint, Adapters!Asks, Adapters!readers
  <2>7. CASE \E r \in Adapters!Request : Adapters!Poll(r)
    BY <1>2, <2>7, PollMatches
  <2>8. CASE \E p \in Projects : Adapters!Watch(p)
    BY <1>2, <2>8, WatchMatches
  <2> QED
    BY <1>2, <2>1, <2>2, <2>3, <2>4, <2>5, <2>6, <2>7, <2>8 DEF Adapters!Next
<1> QED
  BY <1>1, <1>2

\* The runtimes stay matched, for any projects, keys, stages and effects,
\* through any calls.
THEOREM RuntimesStayMatched == RuntimeSpec => []AdaptersMatch
<1>1. RuntimeInit => AdaptersMatch
  BY AdaptersInductive DEF RuntimeInit
<1>2. AdaptersMatch /\ [RuntimeNext]_<<vars, adapterVars, client>>
        => AdaptersMatch'
  <2> SUFFICES ASSUME AdaptersMatch,
                      [RuntimeNext]_<<vars, adapterVars, client>>
               PROVE  AdaptersMatch'
    OBVIOUS
  <2>1. CASE UNCHANGED adapterVars
    BY <2>1 DEF adapterVars, AdaptersMatch
  <2>2. CASE Adapters!Next
    BY <2>2, AdaptersInductive
  <2> QED
    BY <2>1, <2>2 DEF RuntimeNext, RunStages, CallPort
<1> QED
  BY <1>1, <1>2, PTL DEF RuntimeSpec

\* A caller cannot tell the in-memory runtime, which the contract tests
\* exercise, from the SQLite one the product uses, by any run that was not
\* given a checkpoint before it was started.
THEOREM AdaptersCorrect == RuntimeSpec => []AdaptersAgree
<1>1. AdaptersMatch => AdaptersAgree
  <2> SUFFICES ASSUME AdaptersMatch PROVE AdaptersAgree
    OBVIOUS
  <2>1. /\ asked \cap strayed = {} => memoryAnswer = sqliteAnswer
        /\ DOMAIN runs = DOMAIN runRows
    BY DEF AdaptersMatch, Tallies
  <2>2. \A r \in DOMAIN runs \ strayed :
          runs[r].status = "PAUSED" => runs[r].reason = runRows[r].reason
    BY DEF AdaptersMatch, Tallies, Matches
  <2> QED
    BY <2>1, <2>2, FoundAlike, CheckpointsAlike
    DEF AdaptersAgree, Adapters!AdaptersAgree
<1> QED
  BY <1>1, RuntimesStayMatched, PTL

\* Whoever polls a run with the last number it saw misses no event and gets
\* none twice, whether the numbers count the run's events or all of them.
THEOREM PollsCorrect == RuntimeSpec => []PollsMissNothing
<1>1. AdaptersMatch => PollsMissNothing
  <2> DEFINE r == reader.run
             events == runs[r].events
             all == 1 .. Len(events)
             places == Adapters!Places(r, eventRows)
  <2> SUFFICES ASSUME AdaptersMatch, r # NULL
               PROVE  /\ reader.memoryLog
                           \o Adapters!Log(Adapters!MemoryAfter(r,
                                             reader.memory))
                           = Adapters!Log(events)
                      /\ reader.sqliteLog
                           \o Adapters!Log(Adapters!SqliteAfter(r,
                                             reader.sqlite))
                           = Adapters!Log(Adapters!OwnEvents(r, eventRows))
                      /\ r \notin strayed
                           => reader.memoryLog = reader.sqliteLog
    BY DEF PollsMissNothing, Adapters!PollsMissNothing
  <2>1. /\ Tallies(strayed, runs, runRows, eventRows)
        /\ r \in DOMAIN runs /\ HasHeard(reader, events, eventRows)
        /\ r \notin strayed => reader.memoryLog = reader.sqliteLog
    BY DEF AdaptersMatch, ReaderFits, NoReader
  <2>2. /\ Stored(runs[r], runRows[r])
        /\ eventRows \in Seq(Adapters!EventRow) /\ eventRows \in Events
        /\ places \in SUBSET (1 .. Len(eventRows))
    BY <2>1 DEF Tallies, Events, Adapters!Places
  <2>3. /\ events \in Seq(Adapters!Event)
        /\ \A i \in all : events[i].sequence = i
    BY <2>2 DEF Stored, Adapters!WorkflowRun
  <2>4. /\ events \in Events /\ Len(events) \in Nat
        /\ Len(eventRows) \in Nat
        /\ all \in SUBSET (1 .. Len(events))
    BY <2>2, <2>3, EventFacts DEF Events
  <2>5. /\ reader.memory \in 0 .. Len(events)
        /\ reader.sqlite \in 0 .. Len(eventRows)
        /\ reader.memoryLog = LogAt(events, UpTo(all, reader.memory))
        /\ reader.sqliteLog = LogAt(eventRows, UpTo(places, reader.sqlite))
    BY <2>1 DEF HasHeard
  <2>6. /\ reader.memory \in Nat /\ reader.sqlite \in Nat
    BY <2>4, <2>5
  <2>7. Adapters!Log(Adapters!MemoryAfter(r, reader.memory))
          = LogAt(events, Above(all, reader.memory))
    BY <2>3, <2>5, MemoryRest
  <2>8. Adapters!Log(Adapters!SqliteAfter(r, reader.sqlite))
          = LogAt(eventRows, Above(places, reader.sqlite))
    BY <2>2, <2>5, SqliteRest
  <2>9. Adapters!Log(Adapters!OwnEvents(r, eventRows))
          = LogAt(eventRows, places)
    BY <2>2, LogOfSelected DEF Adapters!OwnEvents
  <2>10. Adapters!Log(events) = LogAt(events, all)
    BY <2>4, LogOfAll
  <2> HIDE DEF events, all, places
  <2>11. LogAt(events, all) = LogAt(events, UpTo(all, reader.memory))
                                \o LogAt(events, Above(all, reader.memory))
    BY <2>4, <2>6, LogSplits
  <2>12. LogAt(eventRows, places)
           = LogAt(eventRows, UpTo(places, reader.sqlite))
               \o LogAt(eventRows, Above(places, reader.sqlite))
    BY <2>2, <2>6, LogSplits
  <2> QED
    BY <2>1, <2>5, <2>7, <2>8, <2>9, <2>10, <2>11, <2>12
<1> QED
  BY <1>1, RuntimesStayMatched, PTL

\* Whoever polls the runs of a project with one number misses none of their
\* events and gets none twice, for any projects, runs and calls between polls.
THEOREM ProjectPollsCorrect == RuntimeSpec => []ProjectPollsMissNothing
<1>1. AdaptersMatch => ProjectPollsMissNothing
  <2> DEFINE p == watcher.project
             places == Adapters!PlacesOf(p, eventRows)
  <2> SUFFICES ASSUME AdaptersMatch, p # NULL
               PROVE  /\ watcher.received \cup Adapters!After(p, watcher.last)
                           = places
                      /\ ~watcher.again
                      /\ watcher.received \cap Adapters!After(p, watcher.last)
                           = {}
    BY DEF ProjectPollsMissNothing, Adapters!ProjectPollsMissNothing
  <2>1. /\ watcher.last \in 0 .. Len(eventRows) /\ ~watcher.again
        /\ watcher.received = UpTo(places, watcher.last)
    BY DEF AdaptersMatch, WatcherFits, NoWatcher
  <2>2. Len(eventRows) \in Nat /\ places \subseteq 1 .. Len(eventRows)
    BY LenProperties DEF AdaptersMatch, Tallies, Adapters!PlacesOf
  <2>3. Adapters!After(p, watcher.last) = Above(places, watcher.last)
    BY DEF Adapters!After, Above
  <2> HIDE DEF places
  <2>4. \A i \in places : /\ i <= watcher.last \/ i > watcher.last
                          /\ ~(i <= watcher.last /\ i > watcher.last)
    BY <2>1, <2>2
  <2> QED
    BY <2>1, <2>3, <2>4 DEF UpTo, Above, places
<1> QED
  BY <1>1, RuntimesStayMatched, PTL
=============================================================================
