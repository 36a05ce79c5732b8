---------------------------- MODULE MCProductShell ----------------------------
(* Small instances of ProductShell for TLC. *)
EXTENDS ProductShell, TLC

\* The package and the brief of a demo, and input with the package missing.
DemoInputs == [context : Contexts \cup {NULL}, brief : {TRUE}]

(***************************************************************************)
(* What tells two states apart, for the properties of the run and for every*)
(* step that can still lead to a state of theirs.  Left out are what the   *)
(* releases keep and what was approved of a direction, which no guard      *)
(* reads; the revisions of the timeline that nothing refers to; the numbers*)
(* of the others, of which only equality with the last one, or with        *)
(* prepared, is ever looked at, a stale number staying stale; once the page*)
(* has no request left, what it shows and what it will read; and, once the *)
(* project has its last revision, what only another one could be made from.*)
(***************************************************************************)
NoMore == requests = MaxRequests

Page(n) == IF n = 0 THEN <<>> ELSE <<timeline[n], n = Revision>>

PageView == IF NoMore THEN <<>> ELSE <<Page(known), Page(shown), focus>>

TaskView(s) ==
  IF tasks[s] = NULL THEN <<>>
  ELSE LET t == tasks[s]
           rest == IF NoMore THEN <<>> ELSE <<t.at, Page(t.view)>>
       IN
    CASE t.at \in {"command", "bound"} ->
           IF t.expected = Revision THEN <<t.at, t.action, t.target>> ELSE rest
      [] t.at \in {"prepare", "made"} ->
           <<t.at, t.expected = Revision, t.expected = prepared,
             \E n \in 1 .. Revision :
               n >= t.expected /\ timeline[n].state # "NEW">>
      [] \/ t.at \in {"create", "inspect"}
         \/ NoMore /\ t.at \in {"done", "reply"} -> <<t.at>>
      [] OTHER -> rest

\* The slots are alike.
TasksView ==
  LET views == [s \in Slots |-> TaskView(s)] IN
    [v \in {views[s] : s \in Slots} |->
       Cardinality({s \in Slots : views[s] = v})]

\* A run under way may as well be paused or waiting for its next attempt.
RunView(r) == IF run[r] \in {"PAUSED", "RETRY_WAIT"} THEN "RUNNING" ELSE run[r]

\* The revisions to restore, and where the runs and the project would go on.
ComingView ==
  IF Revision = MaxRevision THEN <<Cardinality(history) < MaxSnapshots>>
  ELSE <<history, [r \in Runs |-> RunView(r)], resume_state>>

ShellView ==
  <<state, contentVars, exportApprovals, gateVars, ComingView, TasksView,
    PageView, requests, Revision, prepared = 0, returned>>
=============================================================================
