----------------------------- MODULE ProductShell -----------------------------
(***************************************************************************)
(* The local HTTP shell (src/src/oeydesign/product_shell.py) and one page  *)
(* of its client (src/product-client/app.js), over the Project Control     *)
(* Plane of ProjectControl.  The page sends requests without waiting for   *)
(* the ones under way; the server handles each in a thread of its own and  *)
(* reads the project, executes the command and reads it again in three     *)
(* transactions.  Meanwhile other callers give the same project any command *)
(* of the control plane, also those no page has, and runs go on beside it.  *)
(*                                                                         *)
(* Abstractions:                                                           *)
(*  - What the page holds of a project is the revision it was read at:     *)
(*    timeline keeps the projection of every revision, and known and shown *)
(*    are indices into it.                                                 *)
(*  - One project.  Creations carry one command id, as a client that       *)
(*    repeats its request does; app.js draws a new id per submit, so that  *)
(*    its retry makes another project.                                     *)
(*  - The activity rail, the inspector and the panels are left out; what a *)
(*    poll or a candidate click does to the rest is to draw the page.      *)
(*  - A request with a malformed field changes nothing and is no step.     *)
(***************************************************************************)
EXTENDS ProjectControl, Sequences

CONSTANTS
  Slots,        \* requests one page has under way
  MaxRevision,  \* bound: revisions of the project
  MaxRequests   \* bound: requests of the page

ASSUME ShellBoundsAssumption == {MaxRevision, MaxRequests} \subseteq Nat

\* The design port makes at least two candidates, whatever is asked of it.
ASSUME CandidatesAssumption == CandidateCount > 0

Actions == {"generate_candidates", "approve_direction", "direction_feedback",
            "produce_artifact", "local_feedback", "fact_feedback",
            "validate_artifact", "approve_export", "deliver"}

\* Where a request is: at the server, on its way back, or in a continuation
\* of the page that awaits another answer.
Places == {"create", "inspect", "prepare", "made",      \* create_demo
           "command", "bound", "done",                  \* command
           "reply", "load", "loaded", "events"}         \* in the page

Target == CandidateVersion \cup ArtifactVersion \cup {NULL}

VARIABLES
  timeline,  \* project(): the projection of every revision so far
  known,     \* project of app.js: the revision it was read at, 0 for null
  shown,     \* the revision the page was drawn from
  focus,     \* candidateFocus
  tasks,     \* the requests under way
  requests,  \* requests sent so far
  prepared,  \* the revision the demo's PrepareProject was executed at, or 0
  returned   \* history variable: a restore or a resumed run has taken the
             \* project to a state it was not commanded into

pageVars == <<known, shown, focus>>
serverVars == <<prepared, returned>>
shellVars == <<timeline, pageVars, tasks, requests, serverVars>>

Projection == [state |-> state, candidates |-> candidates,
               direction |-> direction, artifact |-> artifact]
Revision == Len(timeline)

\* expected and target are the payload of a command, view is the answer.  Of a
\* creation, expected is the revision the server has read.
Task == [at : Places, action : Actions \cup {NULL}, expected : Nat,
         target : Target, view : 0 .. Revision]

ShellTypeOK ==
  /\ TypeOK
  /\ timeline \in Seq([state : ProjectState,
                       candidates : [CandidateId -> Candidate \cup {NULL}],
                       direction : Direction \cup {NULL},
                       artifact : Artifact \cup {NULL}])
  /\ Revision > 0 => timeline[Revision] = Projection
  /\ known \in 0 .. Revision /\ shown \in 0 .. Revision
  /\ focus \in CandidateId \cup {NULL}
  /\ tasks \in [Slots -> Task \cup {NULL}]
  /\ requests \in 0 .. MaxRequests
  /\ prepared \in 0 .. Revision
  /\ returned \in BOOLEAN

ShellInit ==
  /\ Init
  /\ timeline = <<>>
  /\ known = 0 /\ shown = 0 /\ focus = NULL
  /\ tasks = [s \in Slots |-> NULL]
  /\ requests = 0
  /\ prepared = 0
  /\ returned = FALSE

----------------------------------------------------------------------------
(* What the page offers and sends *)

Feedback == {"direction_feedback", "local_feedback", "fact_feedback"}

Offers ==
  ({"READY_FOR_DESIGN"} \X {"generate_candidates", "fact_feedback"})
  \cup ({"AWAITING_DIRECTION_APPROVAL"}
        \X {"approve_direction", "direction_feedback", "fact_feedback"})
  \cup ({"PRODUCING"} \X ({"produce_artifact"} \cup Feedback))
  \cup ({"VALIDATING"} \X ({"validate_artifact"} \cup Feedback))
  \cup ({"AWAITING_EXPORT_APPROVAL"} \X ({"approve_export"} \cup Feedback))
  \cup ({"READY_TO_DELIVER"} \X ({"deliver"} \cup Feedback))
  \cup ({"DELIVERED"} \X Feedback)

\* Mutant of Offered: a local change is offered before there is an artifact.
OfferedByState(p) == {a \in Actions : <<p.state, a>> \in Offers}

\* _actions, and the forms render() hides.
Offered(p) ==
  {a \in Actions : /\ <<p.state, a>> \in Offers
                   /\ a = "local_feedback" => p.artifact # NULL}

CandidatesOf(p) == {c \in CandidateId : p.candidates[c] # NULL}
First(S) == CHOOSE c \in S : \A d \in S : c[2] <= d[2]

\* selectedCandidate: the one in focus if the project has it, or the first.
Selected(p) ==
  IF focus \in CandidatesOf(p) THEN focus
  ELSE IF CandidatesOf(p) # {} THEN First(CandidatesOf(p)) ELSE NULL

CandidateTarget(p, c) ==
  IF c = NULL THEN NULL ELSE <<c, p.candidates[c].revision>>
ArtifactTarget(p) == IF p.artifact = NULL THEN NULL ELSE VersionOf(p.artifact)

\* The target sendCommand puts in the payload.
PayloadTarget(p, action) ==
  CASE action \in {"approve_direction", "direction_feedback"} ->
         CandidateTarget(p, Selected(p))
    [] action = "local_feedback" -> ArtifactTarget(p)
    [] OTHER -> NULL

\* The target command() takes when the payload names none.
DefaultTarget(action) ==
  CASE action = "direction_feedback" ->
         IF direction # NULL THEN direction.id
         ELSE IF CandidatesOf(Projection) = {} THEN NULL
         ELSE CandidateTarget(Projection, First(CandidatesOf(Projection)))
    [] action \in {"local_feedback", "approve_export"} ->
         ArtifactTarget(Projection)
    [] OTHER -> NULL

NeedsTarget == {"approve_direction", "direction_feedback", "local_feedback",
                "approve_export"}

----------------------------------------------------------------------------
(* The page *)

Begin(s, at, action, target) ==
  /\ tasks[s] = NULL /\ requests < MaxRequests
  /\ tasks' = [tasks EXCEPT ![s] =
       [at |-> at, action |-> action, expected |-> known, target |-> target,
        view |-> 0]]
  /\ requests' = requests + 1

Move(s, at) == tasks' = [tasks EXCEPT ![s].at = at]
Answer(s, at) ==
  tasks' = [tasks EXCEPT ![s].at = at, ![s].view = Revision]
End(s) == tasks' = [tasks EXCEPT ![s] = NULL]
In(s, at) == tasks[s] # NULL /\ tasks[s].at = at

SubmitCreation(s) ==
  /\ Begin(s, "create", NULL, NULL)
  /\ UNCHANGED <<vars, timeline, pageVars, serverVars>>

\* loadProjects, and the project menu.
OpenProject(s) ==
  /\ Revision > 0
  /\ Begin(s, "load", NULL, NULL)
  /\ focus' = NULL
  /\ UNCHANGED <<vars, timeline, known, shown, serverVars>>

\* A button or a form of the page as it was drawn; the payload is read from
\* the project as it was last received.
Click(s, action) ==
  /\ shown > 0
  /\ action \in Offered(timeline[shown])
  /\ Begin(s, "command", action, PayloadTarget(timeline[known], action))
  /\ UNCHANGED <<vars, timeline, pageVars, serverVars>>

PickCandidate(c) ==
  /\ shown > 0
  /\ c \in CandidatesOf(timeline[shown]) \ {focus}
  /\ focus' = c
  /\ shown' = known
  /\ UNCHANGED <<vars, timeline, known, tasks, requests, serverVars>>

\* syncActivity of the timer, when there were events.
Poll ==
  /\ known > 0 /\ shown # known
  /\ shown' = known
  /\ UNCHANGED <<vars, timeline, known, focus, tasks, requests, serverVars>>

\* sendCommand has its answer.
ReceiveReply(s) ==
  /\ In(s, "reply")
  /\ known' = tasks[s].view /\ shown' = tasks[s].view
  /\ End(s)
  /\ UNCHANGED <<vars, timeline, focus, requests, serverVars>>

\* loadProject has the project, and awaits its events before it draws.
ReceiveProject(s) ==
  /\ In(s, "loaded")
  /\ known' = tasks[s].view
  /\ Move(s, "events")
  /\ UNCHANGED <<vars, timeline, shown, focus, requests, serverVars>>

ReceiveEvents(s) ==
  /\ In(s, "events")
  /\ shown' = known
  /\ End(s)
  /\ UNCHANGED <<vars, timeline, known, focus, requests, serverVars>>

----------------------------------------------------------------------------
(* The server *)

Record ==
  /\ Revision < MaxRevision
  /\ timeline' = Append(timeline, Projection')

\* Mutant of CreateProject: a creation that was made before is only read.
CreateProjectOnce(s) ==
  /\ In(s, "create")
  /\ UNCHANGED <<vars, pageVars, requests, serverVars>>
  /\ IF Revision = 0 THEN Record /\ Move(s, "inspect")
     ELSE UNCHANGED timeline /\ Move(s, "made")

\* create_demo: CreateProject, or the result recorded under its id.
CreateProject(s) ==
  /\ In(s, "create")
  /\ UNCHANGED <<vars, pageVars, requests, serverVars>>
  /\ IF Revision = 0 THEN Record ELSE UNCHANGED timeline
  /\ Move(s, "inspect")

InspectProject(s) ==
  /\ In(s, "inspect")
  /\ tasks' = [tasks EXCEPT
       ![s].at = IF state = "NEW" THEN "prepare" ELSE "made",
       ![s].expected = Revision]
  /\ UNCHANGED <<vars, timeline, pageVars, requests, serverVars>>

\* PrepareProject under the id derived from the creation's, at the revision
\* that was read.  The same command is answered with its recorded result; one
\* at another revision is refused, and the creation with it.
PrepareDemo(s) ==
  /\ In(s, "prepare")
  /\ IF prepared = 0
     THEN /\ tasks[s].expected = Revision
          /\ \E input \in Inputs : Prepare(input)
          /\ Record
          /\ prepared' = Revision
     ELSE /\ tasks[s].expected = prepared
          /\ UNCHANGED <<vars, timeline, prepared>>
  /\ Move(s, "made")
  /\ UNCHANGED <<pageVars, requests, returned>>

\* The page goes on with loadProjects.
AnswerCreation(s) ==
  /\ In(s, "made")
  /\ Move(s, "load")
  /\ UNCHANGED <<vars, timeline, pageVars, requests, serverVars>>

\* command() reads the project for the targets the payload does not name.
BindTarget(s) ==
  /\ In(s, "command")
  /\ LET t == tasks[s]
         target == IF t.target = NULL THEN DefaultTarget(t.action)
                   ELSE t.target
     IN IF t.action \in NeedsTarget /\ target = NULL THEN End(s)
        ELSE tasks' = [tasks EXCEPT ![s].at = "bound", ![s].target = target]
  /\ UNCHANGED <<vars, timeline, pageVars, requests, serverVars>>

\* The command of the control plane, on the target it was given.
Command(action, target) ==
  \/ action = "generate_candidates" /\ GenerateCandidates
  \/ /\ action = "approve_direction"
     /\ \E c \in CandidatesOf(Projection) :
          target = CandidateTarget(Projection, c) /\ ApproveDirection(c)
  \/ /\ action = "direction_feedback"
     /\ \E c \in CandidatesOf(Projection), note \in Notes :
          /\ target = CandidateTarget(Projection, c)
          /\ DirectionFeedback(c, note)
  \/ action = "produce_artifact" /\ Produce
  \/ /\ action = "local_feedback" /\ target = ArtifactTarget(Projection)
     /\ \E note \in Notes : ArtifactFeedback(note)
  \/ action = "fact_feedback" /\ FactFeedback
  \/ action = "validate_artifact" /\ Validate
  \/ /\ action = "approve_export" /\ target = ArtifactTarget(Projection)
     /\ ApproveExport
  \/ /\ action = "deliver"
     /\ \E profile \in Profiles : Deliver(profile) \/ ExportRejected(profile)

\* What a command can be about.
Targets == {CandidateTarget(Projection, c) : c \in CandidatesOf(Projection)}
             \cup {ArtifactTarget(Projection)}

Execute(s) ==
  /\ In(s, "bound")
  /\ tasks[s].expected = Revision
  /\ Command(tasks[s].action, tasks[s].target)
  /\ Record
  /\ Move(s, "done")
  /\ UNCHANGED <<pageVars, requests, serverVars>>

\* The answer is the project as it is by then.
AnswerCommand(s) ==
  /\ In(s, "done")
  /\ Answer(s, "reply")
  /\ UNCHANGED <<vars, timeline, pageVars, requests, serverVars>>

\* A refused command, stale or illegal, makes the page load the project.
Refuse(s) ==
  /\ In(s, "bound")
  /\ Move(s, "load")
  /\ UNCHANGED <<vars, timeline, pageVars, requests, serverVars>>

AnswerProject(s) ==
  /\ In(s, "load")
  /\ Answer(s, "loaded")
  /\ UNCHANGED <<vars, timeline, pageVars, requests, serverVars>>

\* The server dies or an answer is lost; what was committed stays.  The
\* second half of a load that fails leaves the page as it was drawn.
Lose(s) ==
  /\ tasks[s] # NULL
  /\ End(s)
  /\ UNCHANGED <<vars, timeline, pageVars, requests, serverVars>>

\* Any other caller of the control plane, at the revision of the project.
Elsewhere ==
  /\ Revision > 0
  /\ \/ /\ Advance \/ \E profile \in Profiles : Deliver(profile)
        /\ UNCHANGED returned
     \/ TakeBack /\ returned' = TRUE
  /\ Record
  /\ UNCHANGED <<pageVars, tasks, requests, prepared>>

\* The runs of the project, which no page sees.
RunsGoOn ==
  /\ Revision > 0
  /\ Aside
  /\ UNCHANGED shellVars

\* A delivery, of this page or another, between its reading of the project and
\* its save, which may never come or be refused.
DeliveryUnderWay ==
  /\ \/ ReadForDelivery
     \/ \E copy \in copies, profile \in Profiles :
          DeliverUncommitted(copy, profile)
  /\ UNCHANGED shellVars

PageStep(s) ==
  \/ SubmitCreation(s) \/ OpenProject(s)
  \/ \E action \in Actions : Click(s, action)
  \/ ReceiveReply(s) \/ ReceiveProject(s) \/ ReceiveEvents(s)

ServerStep(s) ==
  \/ CreateProject(s) \/ InspectProject(s) \/ PrepareDemo(s)
  \/ AnswerCreation(s) \/ BindTarget(s) \/ Execute(s) \/ AnswerCommand(s)
  \/ Refuse(s) \/ AnswerProject(s)

ShellNext ==
  \/ \E s \in Slots : PageStep(s) \/ ServerStep(s) \/ Lose(s)
  \/ \E c \in CandidateId : PickCandidate(c)
  \/ Poll
  \/ Elsewhere
  \/ RunsGoOn
  \/ DeliveryUnderWay

ShellSpec == ShellInit /\ [][ShellNext]_<<vars, shellVars>>

----------------------------------------------------------------------------
(* Properties *)

\* A creation is answered with a project that was prepared, at the revision the
\* server has read of it or since, whichever of several equal creations made
\* it, wherever an earlier one died between its two commands, and whatever
\* other callers have restored in between (create_demo).
DemoIsPrepared ==
  \A s \in Slots : In(s, "made") =>
    \E n \in 1 .. Revision :
      n >= tasks[s].expected /\ timeline[n].state # "NEW"

\* What an offer does not look at: _actions goes by the state and the artifact.
\* A restored revision that was validated in vain, or a run resumed after the
\* material was taken in again, leaves a state without what once led to it.
Lacking(action) ==
  CASE action = "produce_artifact" -> direction = NULL
    [] action = "direction_feedback" -> context = NULL \/ ~brief
    [] action = "validate_artifact" -> context = NULL
    [] OTHER -> FALSE

\* The bounds leave room for one more revision of what the action is about.
RoomFor(action) ==
  /\ Cardinality(history) < MaxSnapshots
  /\ action = "direction_feedback" =>
       \A c \in CandidatesOf(Projection) :
         candidates[c].revision < MaxCandidateRevision
  /\ action = "local_feedback" =>
       artifact = NULL \/ artifact.revision < MaxArtifactRevision

\* The page opens only actions that are legal in the project's state
\* (product-shell-stub-flow.md:86, _actions): as long as no restore and no resumed
\* run has set the project to a state, the control plane takes every action
\* the shell offers; after one, it refuses at most the three that Lacking
\* names, for what they lack.  The quality gate may always refuse a direction.
OfferedIsLegal ==
  Revision > 0 =>
    \A action \in Offered(Projection) \ {"approve_direction"} :
      \/ ~RoomFor(action)
      \/ ENABLED (\E target \in Targets : Command(action, target))
      \/ (returned /\ Lacking(action))

\* Where an artifact may be changed.
Feedbacked == {"PRODUCING", "VALIDATING", "AWAITING_EXPORT_APPROVAL",
               "READY_TO_DELIVER", "DELIVERED"}

\* What a command demands of the project it is about: the checks it makes
\* before it changes anything, and the transition it ends with.
Demand(action) ==
  CASE action = "generate_candidates" ->
         /\ state = "READY_FOR_DESIGN" /\ context # NULL /\ brief
         /\ MayMove(state, "DESIGNING")
    [] action = "approve_direction" ->
         /\ state = "AWAITING_DIRECTION_APPROVAL"
         /\ CandidatesOf(Projection) # {} /\ MayMove(state, "PRODUCING")
    [] action = "direction_feedback" ->
         /\ state \in Feedbacked \cup {"AWAITING_DIRECTION_APPROVAL"}
         /\ context # NULL /\ brief /\ CandidatesOf(Projection) # {}
         /\ MayMove(state, "DESIGNING")
    [] action = "produce_artifact" ->
         /\ state = "PRODUCING" /\ direction # NULL
         /\ MayMove(state, "VALIDATING")
    [] action = "local_feedback" ->
         /\ state \in Feedbacked /\ artifact # NULL
         /\ MayMove(state, "VALIDATING")
    [] action = "fact_feedback" ->
         /\ state \in Feedbacked \cup {"READY_FOR_DESIGN",
                                     "AWAITING_DIRECTION_APPROVAL"}
         /\ MayMove(state, "NEEDS_INPUT")
    [] action = "validate_artifact" ->
         /\ state = "VALIDATING" /\ artifact # NULL /\ context # NULL
         /\ \A to \in {"PRODUCING", "AWAITING_EXPORT_APPROVAL"} :
              MayMove(state, to)
    [] action = "approve_export" ->
         /\ state = "AWAITING_EXPORT_APPROVAL" /\ artifact # NULL
         /\ quality # NULL /\ quality.target = VersionOf(artifact)
         /\ MayMove(state, "READY_TO_DELIVER")
    [] action = "deliver" -> MayExport /\ MayMove(state, "DELIVERING")

\* OfferedIsLegal without ENABLED and without bounds: whatever
\* other callers do, the page offers nothing whose demands the project does not
\* meet, but for what a restore or a resumed run has left Lacking (_actions
\* against the handlers of control.py and their transition table).
OffersAreMet ==
  \A action \in Offered(Projection) :
    Demand(action) \/ (returned /\ Lacking(action))
=============================================================================
