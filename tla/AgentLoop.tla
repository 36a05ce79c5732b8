------------------------------ MODULE AgentLoop -------------------------------
(***************************************************************************)
(* One agent session and the loop that works in it                         *)
(* (src/src/oeydesign/agent_engine.py: AgentBudget, AgentSessionManager,   *)
(* AgentLoop, the write side of AgentWorkspace), beside users who pause,   *)
(* resume and cancel the session from another thread or process.           *)
(*                                                                         *)
(* The session is a file.  Everyone who changes it loads it, computes the  *)
(* new record, writes that to a temporary file and puts the temporary file *)
(* in the session file's place.  saving[p] is the record party p is about  *)
(* to write, stale when the session file changed since p loaded it; the    *)
(* temporary file has one name, so two parties can meet on it.             *)
(*                                                                         *)
(* Abstractions:                                                           *)
(*  - A tree of the workspace is one content; the hash of a build is the   *)
(*    content it was made from.                                            *)
(*  - Of the budget, steps and renders are counted.  Tokens and seconds    *)
(*    are as the provider reports them, so any turn may exhaust them.      *)
(*  - The model answers anything: the actions of an envelope are chosen    *)
(*    when they are executed.                                              *)
(*  - A temporary file is written at once, or not at all.                  *)
(*  - Messages, turn metadata and the list of errors are left out.         *)
(***************************************************************************)
EXTENDS Naturals

CONSTANTS
  NULL,        \* Python's None
  Contents,    \* what a tree of the workspace can hold
  Empty,       \* what it holds when the workspace is new
  MaxSteps,    \* AgentBudget.max_steps
  MaxRenders,  \* AgentBudget.max_renders
  MaxRuns,     \* bound: calls of AgentLoop.run
  MaxUserOps   \* bound: pauses, resumes and cancels by users

ASSUME ContentsAssumption == NULL \notin Contents /\ Empty \in Contents
ASSUME LimitsAssumption ==
  /\ MaxSteps \in Nat \ {0} /\ MaxRenders \in Nat
  /\ MaxRuns \in Nat /\ MaxUserOps \in Nat

Parties == {"loop", "user"}
Trees == {"work", "out"}
Status == {"RUNNING", "PAUSED", "CANCELED", "COMPLETED", "BUDGET_EXHAUSTED"}

Session == [status : Status, steps : Nat, renders : Nat]

\* What run() knows about its own builds and renders; a crash forgets it.
Knowledge == [last_build_hash : Contents \cup {NULL},
              render_build_hash : Contents \cup {NULL},
              last_render_healthy : BOOLEAN \cup {NULL},
              screenshot_reviewed : BOOLEAN,
              screenshot_pending : BOOLEAN]

Forgotten == [last_build_hash |-> NULL, render_build_hash |-> NULL,
              last_render_healthy |-> NULL, screenshot_reviewed |-> TRUE,
              screenshot_pending |-> FALSE]

Phase == {"idle", "resuming", "asking", "acting", "recording", "saving",
          "checking", "closing", "finishing"}

\* What a healthy render showed.
Shot == [tree : Trees, content : Contents]

VARIABLES
  session,       \* the session file; NULL before start
  temporary,     \* the temporary file beside it; NULL if there is none
  tree,          \* the contents of the work and out trees
  screenshot,    \* a screenshot lies in the work tree
  build_action,  \* the loop was given a build action
  pc,            \* where run() is
  knows,         \* its locals
  turn,          \* the turn being recorded; of nothing when the budget is used up
  saving,        \* per party, the record about to be written
  runs,          \* calls of run() so far
  userOps,       \* operations of users so far
  shot,          \* history: what the render that run() goes by showed, if it was
                 \* healthy
  worked,        \* history: actions and model turns carried out
  late,          \* history: those carried out while the session was stopped
  raced,         \* history: a save has overwritten a change it had not read,
                 \* or put another party's record in place
  strayed        \* history: a tool changed files and then raised

loopVars == <<knows, turn>>
treeVars == <<tree, screenshot>>
disk == <<session, temporary, treeVars>>
historyVars == <<shot, worked, late, raced, strayed>>
vars == <<disk, build_action, pc, loopVars, saving, runs, userOps, historyVars>>

Pending == [record : Session, stale : BOOLEAN, written : BOOLEAN]
Written == [by : Parties, record : Session]
Turn == [render : BOOLEAN, of : {"none", "unreadable", "answer", "action"}]

ASSUME NullAssumption ==
  /\ NULL \notin Session /\ NULL \notin Pending /\ NULL \notin Written
  /\ NULL \notin Shot /\ NULL \notin BOOLEAN

NoTurn == [render |-> FALSE, of |-> "none"]

TypeOK ==
  /\ session \in Session \cup {NULL}
  /\ temporary \in Written \cup {NULL}
  /\ tree \in [Trees -> Contents] /\ screenshot \in BOOLEAN
  /\ build_action \in BOOLEAN
  /\ pc \in Phase
  /\ knows \in Knowledge
  /\ turn \in Turn
  /\ saving \in [Parties -> Pending \cup {NULL}]
  /\ runs \in Nat /\ userOps \in Nat
  /\ shot \in Shot \cup {NULL}
  /\ worked \in Nat /\ late \in Nat
  /\ raced \in BOOLEAN /\ strayed \in BOOLEAN

Init ==
  /\ session = NULL /\ temporary = NULL
  /\ tree = [t \in Trees |-> Empty] /\ screenshot = FALSE
  /\ build_action \in BOOLEAN
  /\ pc = "idle"
  /\ knows = Forgotten
  /\ turn = NoTurn
  /\ saving = [p \in Parties |-> NULL]
  /\ runs = 0 /\ userOps = 0
  /\ shot = NULL /\ worked = 0 /\ late = 0
  /\ raced = FALSE /\ strayed = FALSE

----------------------------------------------------------------------------
(* The session file *)

Load(p, record) ==
  saving' = [saving EXCEPT
               ![p] = [record |-> record, stale |-> FALSE, written |-> FALSE]]

\* What another party had written there is gone.
WriteTemporary(p) ==
  /\ saving[p] # NULL /\ ~saving[p].written
  /\ temporary' = [by |-> p, record |-> saving[p].record]
  /\ saving' = [saving EXCEPT ![p].written = TRUE]
  /\ UNCHANGED <<session, treeVars, build_action, pc, loopVars, runs, userOps,
                 historyVars>>

\* os.replace: whatever the temporary file holds is the session now, and what
\* others have loaded is out of date.
Save(p) ==
  /\ saving[p] # NULL /\ saving[p].written /\ temporary # NULL
  /\ session' = temporary.record
  /\ temporary' = NULL
  /\ saving' = [q \in Parties |->
                  IF q = p \/ saving[q] = NULL THEN NULL
                  ELSE [saving[q] EXCEPT !.stale = TRUE]]
  /\ raced' = (raced \/ saving[p].stale \/ temporary.by # p)
  /\ late' = IF temporary.record.status = "RUNNING" THEN 0 ELSE late

\* p's record is dropped.  What the temporary file holds stays there if another
\* party is about to put it in place; else it will be written over unread, and
\* is forgotten here.
Drop(p) ==
  /\ saving' = [saving EXCEPT ![p] = NULL]
  /\ temporary' =
       IF \E q \in Parties \ {p} : saving[q] # NULL /\ saving[q].written
       THEN temporary ELSE NULL

\* os.replace raises: the other party has put the temporary file in place.
SaveRaises(p) ==
  /\ saving[p] # NULL /\ saving[p].written /\ temporary = NULL
  /\ Drop(p)

Start ==
  /\ session = NULL
  /\ session' = [status |-> "RUNNING", steps |-> 0, renders |-> 0]
  /\ UNCHANGED <<temporary, treeVars, build_action, pc, loopVars, saving, runs,
                 userOps, historyVars>>

\* pause, cancel and resume; only resume looks at the status it finds.
UserLoads(status) ==
  /\ session # NULL /\ saving["user"] = NULL
  /\ userOps < MaxUserOps
  /\ status = "RUNNING" => session.status \notin {"COMPLETED", "CANCELED"}
  /\ Load("user", [session EXCEPT !.status = status])
  /\ userOps' = userOps + 1
  /\ UNCHANGED <<disk, build_action, pc, loopVars, runs,
                 historyVars>>

UserSaves ==
  /\ Save("user")
  /\ UNCHANGED <<treeVars, build_action, pc, loopVars, runs, userOps, shot,
                 worked, strayed>>

\* A user whose save raises for want of the disk, or whose process dies, has
\* loaded the file and takes no further step.
UserSaveRaises ==
  /\ SaveRaises("user")
  /\ UNCHANGED <<session, treeVars, build_action, pc, loopVars, runs, userOps,
                 historyVars>>

----------------------------------------------------------------------------
(* AgentLoop.run: starting and ending *)

\* run() returns, raises or dies: its locals are gone, and with them what the
\* history remembers about them.
Ended ==
  /\ pc' = "idle"
  /\ knows' = Forgotten /\ turn' = NoTurn
  /\ shot' = NULL /\ strayed' = FALSE

Run ==
  /\ pc = "idle" /\ session # NULL /\ runs < MaxRuns
  /\ \/ /\ session.status = "RUNNING"
        /\ pc' = "asking"
        /\ UNCHANGED saving
     \/ /\ session.status = "PAUSED"
        /\ pc' = "resuming"
        /\ Load("loop", [session EXCEPT !.status = "RUNNING"])
  /\ runs' = runs + 1
  /\ UNCHANGED <<disk, build_action, loopVars, userOps,
                 historyVars>>

SaveResumed ==
  /\ pc = "resuming"
  /\ Save("loop")
  /\ pc' = "asking"
  /\ UNCHANGED <<treeVars, build_action, loopVars, runs, userOps, shot, worked,
                 strayed>>

----------------------------------------------------------------------------
(* The model's answer *)

\* History: one action or model turn more has been carried out.
Work ==
  /\ worked' = worked + 1
  /\ late' = IF session.status = "RUNNING" THEN late ELSE late + 1

Reviewed(k) ==
  IF k.screenshot_pending
  THEN [k EXCEPT !.screenshot_reviewed = TRUE, !.screenshot_pending = FALSE]
  ELSE k

\* _completion_error is None.
MayComplete(k) ==
  /\ build_action => /\ k.last_build_hash # NULL
                     /\ k.render_build_hash = k.last_build_hash
  /\ k.last_render_healthy = TRUE
  /\ k.screenshot_reviewed

AfterDone(k, isDone) == IF isDone /\ MayComplete(k) THEN "checking" ELSE "asking"

\* Three attempts failed, or the error cannot be retried: run() raises.
ChatFails ==
  /\ pc = "asking"
  /\ Ended
  /\ UNCHANGED <<disk, build_action, saving, runs, userOps, worked,
                 late, raced>>

\* Mutant of AnswerUnreadable: the turn is saved and not counted.
AnswerUnreadableForFree ==
  /\ pc = "asking"
  /\ Load("loop", session)
  /\ turn' = [render |-> FALSE, of |-> "unreadable"]
  /\ pc' = "saving"
  /\ UNCHANGED <<disk, build_action, knows, runs, userOps,
                 historyVars>>

\* Not a JSON envelope.  A pending screenshot stays pending.
AnswerUnreadable ==
  /\ pc = "asking"
  /\ Work
  /\ turn' = [render |-> FALSE, of |-> "unreadable"]
  /\ pc' = "recording"
  /\ UNCHANGED <<disk, build_action, knows, saving, runs, userOps,
                 shot, raced, strayed>>

\* No actions: the model says it is done, or nothing.
AnswerEmpty ==
  /\ pc = "asking"
  /\ Work
  /\ knows' = Reviewed(knows)
  /\ turn' = [render |-> FALSE, of |-> "answer"]
  /\ pc' = "recording"
  /\ UNCHANGED <<disk, build_action, saving, runs, userOps, shot,
                 raced, strayed>>

AnswerActions ==
  /\ pc = "asking"
  /\ knows' = Reviewed(knows)
  /\ pc' = "acting"
  /\ UNCHANGED <<disk, build_action, turn, saving, runs, userOps,
                 historyVars>>

----------------------------------------------------------------------------
(* The actions of an envelope *)

\* The step every action has in common: the next turn to record.
Executed(isRender) ==
  /\ Work
  /\ turn' = [render |-> isRender, of |-> "action"]
  /\ pc' = "recording"
  /\ UNCHANGED <<session, temporary, build_action, saving, runs, userOps, raced>>

\* A file is written or deleted, which may be the screenshot.
Changes(t, content) ==
  /\ tree' = [tree EXCEPT ![t] = content]
  /\ \/ UNCHANGED screenshot
     \/ t = "work" /\ screenshot' = FALSE

\* Mutant of Edit: a write leaves the last render standing.
EditKeepsRender(t, content) ==
  /\ pc = "acting"
  /\ Changes(t, content)
  /\ knows' = [knows EXCEPT !.screenshot_reviewed = @ /\ ~build_action]
  /\ Executed(FALSE)
  /\ UNCHANGED <<shot, strayed>>

\* write_file, delete_file, and run_command with any exit code.
Edit(t, content) ==
  /\ pc = "acting"
  /\ Changes(t, content)
  /\ knows' = [knows EXCEPT !.last_build_hash = NULL,
                            !.render_build_hash = NULL,
                            !.last_render_healthy = NULL,
                            !.screenshot_reviewed = @ /\ ~build_action]
  /\ Executed(FALSE)
  /\ shot' = NULL
  /\ UNCHANGED strayed

\* run_command or run_build raises although files have been changed.
CommandStrays(t, content) ==
  /\ pc = "acting"
  /\ Changes(t, content)
  /\ strayed' = TRUE
  /\ UNCHANGED <<knows, shot>>
  /\ Executed(FALSE)

\* run_build: the out tree is made from the work tree, all of whose files have
\* to be text.
Build ==
  /\ pc = "acting" /\ build_action /\ ~screenshot
  /\ tree' = [tree EXCEPT !["out"] = tree["work"]]
  /\ knows' = [knows EXCEPT !.last_build_hash = tree["work"],
                            !.render_build_hash = NULL,
                            !.last_render_healthy = NULL,
                            !.screenshot_reviewed = FALSE]
  /\ Executed(FALSE)
  /\ shot' = NULL
  /\ UNCHANGED <<screenshot, strayed>>

\* The renderer opens an entry of either tree, and leaves a screenshot there;
\* without a fresh build its result is thrown away, the screenshot stays.
Render(t, isHealthy) ==
  /\ pc = "acting"
  /\ IF build_action /\ knows.last_build_hash = NULL
     THEN UNCHANGED <<knows, shot>>
     ELSE /\ knows' = [knows EXCEPT !.last_render_healthy = isHealthy,
                                    !.render_build_hash = knows.last_build_hash,
                                    !.screenshot_pending = TRUE]
          /\ shot' = IF isHealthy THEN [tree |-> t, content |-> tree[t]]
                     ELSE NULL
  /\ screenshot' = (screenshot \/ t = "work")
  /\ Executed(TRUE)
  /\ UNCHANGED <<tree, strayed>>

\* Tools that only look, and tools that raise before they change anything: an
\* unknown tool, a path outside the scopes, a failed build, a failed render,
\* which may have got as far as the screenshot.
Look(isRender) ==
  /\ pc = "acting"
  /\ \/ UNCHANGED screenshot
     \/ isRender /\ screenshot' = TRUE
  /\ UNCHANGED <<tree, knows, shot, strayed>>
  /\ Executed(isRender)

----------------------------------------------------------------------------
(* AgentSessionManager.record_turn and complete, as the loop calls them *)

Charged == [session EXCEPT !.steps = @ + 1,
                           !.renders = IF turn.render THEN @ + 1 ELSE @]

WithinLimits(s) == s.steps <= MaxSteps /\ s.renders <= MaxRenders

LoadTurn ==
  /\ Load("loop", Charged)
  /\ pc' = "saving"
  /\ UNCHANGED <<disk, build_action, loopVars, runs, userOps,
                 historyVars>>

\* Mutant of Charge: turns are taken in any status.
ChargeInAnyStatus == pc = "recording" /\ WithinLimits(Charged) /\ LoadTurn

\* Mutant of Charge: the totals before the turn are checked.
ChargeThenCheck ==
  pc = "recording" /\ session.status = "RUNNING" /\ WithinLimits(session) /\ LoadTurn

Charge ==
  pc = "recording" /\ session.status = "RUNNING" /\ WithinLimits(Charged) /\ LoadTurn

\* Some limit is passed: the status says so, the counters stay as they were,
\* and run() raises.
Exhaust ==
  /\ pc = "recording" /\ session.status = "RUNNING"
  /\ Load("loop", [session EXCEPT !.status = "BUDGET_EXHAUSTED"])
  /\ turn' = NoTurn
  /\ pc' = "saving"
  /\ UNCHANGED <<disk, build_action, knows, runs, userOps,
                 historyVars>>

\* The session is not running: record_turn raises, and so does run().
TurnRefused ==
  /\ pc = "recording" /\ session.status # "RUNNING"
  /\ Ended
  /\ UNCHANGED <<disk, build_action, saving, runs, userOps, worked,
                 late, raced>>

\* Where the loop goes on after a turn: the done flag of an answer asks the
\* gate, that of an envelope after its last action.
Onward ==
  IF turn.of = "unreadable" THEN {"asking"}
  ELSE {AfterDone(knows, isDone) : isDone \in BOOLEAN}
         \cup (IF turn.of = "action" THEN {"acting"} ELSE {})

SaveTurn ==
  /\ pc = "saving"
  /\ Save("loop")
  /\ IF turn.of = "none" THEN Ended
     ELSE /\ pc' \in Onward
          /\ turn' = NoTurn
          /\ UNCHANGED <<knows, shot, strayed>>
  /\ UNCHANGED <<treeVars, build_action, runs, userOps, worked>>

\* complete loads and checks; _set_status loads again, and saves.
CompleteCheck ==
  /\ pc = "checking"
  /\ IF session.status \in {"RUNNING", "PAUSED"}
     THEN /\ pc' = "closing"
          /\ UNCHANGED <<loopVars, shot, strayed>>
     ELSE Ended
  /\ UNCHANGED <<disk, build_action, saving, runs, userOps, worked,
                 late, raced>>

CompleteLoad ==
  /\ pc = "closing"
  /\ Load("loop", [session EXCEPT !.status = "COMPLETED"])
  /\ pc' = "finishing"
  /\ UNCHANGED <<disk, build_action, loopVars, runs, userOps,
                 historyVars>>

SaveCompleted ==
  /\ pc = "finishing"
  /\ Save("loop")
  /\ Ended
  /\ UNCHANGED <<treeVars, build_action, runs, userOps, worked>>

LoopSaveRaises ==
  /\ SaveRaises("loop")
  /\ Ended
  /\ UNCHANGED <<session, treeVars, build_action, runs, userOps, worked, late,
                 raced>>

\* The process dies, or run() raises for want of the disk.
Crash ==
  /\ pc # "idle"
  /\ Ended /\ Drop("loop")
  /\ UNCHANGED <<session, treeVars, build_action, runs, userOps, worked, late,
                 raced>>

----------------------------------------------------------------------------
Act ==
  \/ \E t \in Trees, content \in Contents :
       Edit(t, content) \/ CommandStrays(t, content)
  \/ Build
  \/ \E t \in Trees, isHealthy \in BOOLEAN : Render(t, isHealthy)
  \/ \E isRender \in BOOLEAN : Look(isRender)

Record == Charge \/ Exhaust \/ TurnRefused \/ SaveTurn

Complete == CompleteCheck \/ CompleteLoad \/ SaveCompleted

Answer ==
  ChatFails \/ AnswerUnreadable \/ AnswerEmpty \/ AnswerActions

LoopStep == \/ SaveResumed \/ Answer \/ Act \/ Record \/ Complete
            \/ WriteTemporary("loop") \/ LoopSaveRaises

UserStep ==
  \/ WriteTemporary("user") \/ UserSaves \/ UserSaveRaises
  \/ \E s \in {"PAUSED", "CANCELED", "RUNNING"} : UserLoads(s)

Next == Start \/ Run \/ LoopStep \/ UserStep \/ Crash

Spec == Init /\ [][Next]_vars /\ WF_vars(LoopStep)

----------------------------------------------------------------------------
(* Properties *)

\* run() has decided to complete the session.
Completing == pc \in {"checking", "closing", "finishing"}

\* The completion gate is about the files as they are now: the last render
\* was healthy and of what its tree still holds, and if a build is required
\* then both trees hold what was built.  (_completion_error looks at locals
\* only; this relates them to the disk.)
GateIsCurrent ==
  Completing /\ ~strayed =>
    /\ shot # NULL
    /\ shot.content = tree[shot.tree]
    /\ build_action => tree["out"] = tree["work"]

\* However often a session is paused, exhausted, resumed or killed, the loop
\* does at most one thing per call of run() that the budget does not count,
\* unless a save has undone another (AgentBudget, record_turn).
BudgetBinds ==
  ~raced /\ session # NULL =>
    /\ WithinLimits(session)
    /\ worked <= session.steps + runs

\* A pause or a cancel stops the loop: at most the action that is under way
\* is finished, unless a save has undone the stop.
StopTakesEffect == ~raced => late <= 1

\* A loop that was started comes to an end, whatever the model answers: every
\* round is charged.
LoopEnds == (pc # "idle") ~> (pc = "idle")

\* A canceled session stays canceled (violated: see the run lost_cancel).
CancelStands ==
  [][session # NULL /\ session.status = "CANCELED"
       => session'.status = "CANCELED"]_session
=============================================================================
