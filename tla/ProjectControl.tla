-------------------------- MODULE ProjectControl ---------------------------
(***************************************************************************)
(* The Project aggregate and the commands of the Project Control Plane     *)
(* (src/src/oeydesign/control.py), one committed command per step.         *)
(*                                                                         *)
(* A command that raises leaves the Project as it was, because the copy it *)
(* worked on is dropped: a rejected command is a step that is not enabled. *)
(* The exceptions are commands that commit in another transaction before   *)
(* the Project is saved (runtime.resume, runtime.cancel, delivery.release): *)
(* the save may never come, or be refused because the Project has moved on *)
(* since it was read.  Those are actions of their own.                     *)
(*                                                                         *)
(* Abstractions:                                                           *)
(*  - Identities made by stable_id are the values they are computed from.  *)
(*    A strategy is its Context Package, a candidate id is the package and *)
(*    an index, a direction is the candidate version it was approved from, *)
(*    and an artifact id is its direction (one medium).                    *)
(*  - Content is the set of feedback notes worked into it.  A candidate is *)
(*    born with none, an artifact with those of its direction.  A note of  *)
(*    BadNotes is a text that makes the quality port report a hard error.  *)
(*  - history holds the restorable part of every committed revision, as a  *)
(*    set: a restore names a revision, and only its content matters.       *)
(*  - Lists that no command reads back (renders, exports, feedback), the   *)
(*    event log and the active run id are left out.                        *)
(***************************************************************************)
EXTENDS Naturals, FiniteSets

CONSTANTS
  NULL,                  \* Python's None
  Contexts,              \* Context Packages the intake can offer
  UncertainContexts,     \* those that list material uncertainties
  Inputs,                \* what PrepareProject may carry
  CandidateCount,        \* candidates per strategy
  Notes,                 \* feedback texts
  BadNotes,              \* texts that break the content they are added to
  Profiles,              \* delivery profiles
  BadProfiles,           \* profiles whose export fails verification
  Runs,                  \* workflow runs started beside the commands
  MaxCandidateRevision,  \* bound: revisions of one candidate
  MaxArtifactRevision,   \* bound: revisions of one artifact
  MaxSnapshots           \* bound: distinct restorable contents

Input == [context : Contexts \cup {NULL}, brief : BOOLEAN]

ASSUME ContextsAssumption ==
  /\ NULL \notin Contexts
  /\ UncertainContexts \subseteq Contexts
  /\ Inputs \subseteq Input
ASSUME NotesAssumption == BadNotes \subseteq Notes
ASSUME ProfilesAssumption == BadProfiles \subseteq Profiles
ASSUME BoundsAssumption ==
  /\ CandidateCount \in Nat
  /\ MaxCandidateRevision \in Nat
  /\ MaxArtifactRevision \in Nat
  /\ MaxSnapshots \in Nat

----------------------------------------------------------------------------
(* Identities and values *)

Content == SUBSET Notes
Broken(content) == content \cap BadNotes # {}

CandidateId == Contexts \X (1 .. CandidateCount)
CandidateVersion == CandidateId \X Nat
Candidate == [revision : Nat, content : Content]

\* id is the candidate version; the approval it came from has the same key.
Direction == [id : CandidateVersion, content : Content]

Artifact == [id : CandidateVersion, revision : Nat, content : Content]
ArtifactVersion == CandidateVersion \X Nat
VersionOf(a) == <<a.id, a.revision>>

\* A quality decision on a render or an export of one artifact version.
Decision == [target : ArtifactVersion, passed : BOOLEAN]

\* The side-effect key is the target and the profile; content is what the
\* export held when that key was first released.
Bundle == [target : ArtifactVersion, profile : Profiles, content : Content]

\* None is none of the objects a field can hold instead.
ASSUME NullAssumption ==
  /\ NULL \notin Candidate
  /\ NULL \notin Direction
  /\ NULL \notin Artifact
  /\ NULL \notin Decision
  /\ NULL \notin Bundle

----------------------------------------------------------------------------
(* States *)

ProjectState ==
  {"NEW", "INGESTING", "NEEDS_INPUT", "READY_FOR_DESIGN", "DESIGNING",
   "AWAITING_DIRECTION_APPROVAL", "PRODUCING", "VALIDATING",
   "AWAITING_EXPORT_APPROVAL", "READY_TO_DELIVER", "DELIVERING",
   "DELIVERED", "BLOCKED", "FAILED", "CANCELED"}

ASSUME NullStateAssumption == NULL \notin ProjectState

WorkflowStatus ==
  {"RUNNING", "PAUSED", "NEEDS_INPUT", "BLOCKED", "RETRY_WAIT",
   "COMPLETED", "CANCELED", "FAILED"}

Terminal == {"BLOCKED", "FAILED", "CANCELED"}

\* Where a project that needed input may go.
AfterInput == {"INGESTING", "DESIGNING", "PRODUCING", "VALIDATING",
               "DELIVERING", "CANCELED"}

AllowedTransitions ==
  ({"NEW"} \X {"INGESTING", "CANCELED"})
  \cup ({"INGESTING"} \X ({"READY_FOR_DESIGN", "NEEDS_INPUT"} \cup Terminal))
  \cup ({"NEEDS_INPUT"} \X AfterInput)
  \cup ({"READY_FOR_DESIGN"} \X {"DESIGNING", "NEEDS_INPUT", "CANCELED"})
  \cup ({"DESIGNING"} \X ({"AWAITING_DIRECTION_APPROVAL", "NEEDS_INPUT"}
                          \cup Terminal))
  \cup ({"AWAITING_DIRECTION_APPROVAL"} \X {"DESIGNING", "PRODUCING",
                                            "NEEDS_INPUT", "CANCELED"})
  \cup ({"PRODUCING"} \X ({"DESIGNING", "VALIDATING", "NEEDS_INPUT"}
                          \cup Terminal))
  \cup ({"VALIDATING"} \X ({"DESIGNING", "PRODUCING", "NEEDS_INPUT",
                            "AWAITING_EXPORT_APPROVAL"} \cup Terminal))
  \cup ({"AWAITING_EXPORT_APPROVAL"} \X {"DESIGNING", "READY_TO_DELIVER",
                                         "VALIDATING", "NEEDS_INPUT",
                                         "CANCELED"})
  \cup ({"READY_TO_DELIVER"} \X {"DESIGNING", "DELIVERING", "VALIDATING",
                                 "NEEDS_INPUT", "CANCELED"})
  \cup ({"DELIVERING"} \X ({"DELIVERED", "PRODUCING"} \cup Terminal))
  \cup ({"DELIVERED"} \X {"DESIGNING", "VALIDATING", "NEEDS_INPUT"})

MayMove(from, to) == from = to \/ <<from, to>> \in AllowedTransitions

----------------------------------------------------------------------------
VARIABLES
  state,               \* project.state
  context,             \* project.context_package
  brief,               \* project.brief is set
  candidates,          \* project.candidates
  passedCandidates,    \* versions whose latest quality decision is a pass
  direction,           \* project.approved_direction
  artifact,            \* project.current_artifact
  quality,             \* project.current_quality
  directionApprovals,  \* targets of active COMMIT_DIRECTION approvals
  exportApprovals,     \* targets of active EXPORT approvals
  deliveries,          \* project.deliveries
  resume_state,        \* project.resume_state
  history,             \* restorable contents of the committed revisions
  effects,             \* side-effect ledger: released bundles
  copies,              \* what threads have read of the project to deliver it
  run,                 \* workflow_runs.status
  changed              \* a commit since the run's input revision emitted an
                       \* event other than the workflow control events

contentVars == <<context, brief, candidates, direction, artifact>>
approvalVars == <<directionApprovals, exportApprovals>>
gateVars == <<passedCandidates, quality>>
releaseVars == <<deliveries, effects, copies>>
projectVars == <<state, contentVars, approvalVars, gateVars, releaseVars,
                 resume_state, history>>
vars == <<projectVars, run, changed>>

Snapshot == [context |-> context, brief |-> brief, candidates |-> candidates,
             direction |-> direction, artifact |-> artifact]

Restorable == [context : Contexts \cup {NULL}, brief : BOOLEAN,
               candidates : [CandidateId -> Candidate \cup {NULL}],
               direction : Direction \cup {NULL},
               artifact : Artifact \cup {NULL}]

\* The type invariant.  The states a command passes through before it commits
\* (INGESTING, DESIGNING, DELIVERING) are never stored.
TypeOK ==
  /\ state \in ProjectState \ {"INGESTING", "DESIGNING", "DELIVERING"}
  /\ context \in Contexts \cup {NULL}
  /\ brief \in BOOLEAN
  /\ candidates \in [CandidateId -> Candidate \cup {NULL}]
  /\ passedCandidates \subseteq CandidateVersion
  /\ direction \in Direction \cup {NULL}
  /\ artifact \in Artifact \cup {NULL}
  /\ quality \in Decision \cup {NULL}
  /\ directionApprovals \subseteq CandidateVersion
  /\ exportApprovals \subseteq ArtifactVersion
  /\ deliveries \subseteq Bundle
  /\ effects \subseteq Bundle
  /\ copies \subseteq Artifact
  /\ resume_state \in (ProjectState \ {"INGESTING", "DESIGNING",
                                       "DELIVERING"}) \cup {NULL}
  /\ history \subseteq Restorable
  /\ run \in [Runs -> WorkflowStatus \cup {"NONE"}]
  /\ changed \in [Runs -> BOOLEAN]

Init ==
  /\ state = "NEW"
  /\ context = NULL
  /\ brief = FALSE
  /\ candidates = [c \in CandidateId |-> NULL]
  /\ passedCandidates = {}
  /\ direction = NULL
  /\ artifact = NULL
  /\ quality = NULL
  /\ directionApprovals = {}
  /\ exportApprovals = {}
  /\ deliveries = {}
  /\ effects = {}
  /\ copies = {}
  /\ resume_state = NULL
  /\ history = {Snapshot}
  /\ run = [r \in Runs |-> "NONE"]
  /\ changed = [r \in Runs |-> FALSE]

----------------------------------------------------------------------------
(* Parts shared by the commands *)

MoveTo(target) == MayMove(state, target) /\ state' = target

\* Two transitions inside one command; only the second state is stored.
MoveVia(transient, target) ==
  /\ MayMove(state, transient)
  /\ MayMove(transient, target)
  /\ state' = target

\* save_with_command: the new revision joins the history, and its events
\* make the input of every run started before it incompatible.
Commit ==
  /\ history' = history \cup {Snapshot'}
  /\ Cardinality(history') <= MaxSnapshots
  /\ changed' = [r \in Runs |-> changed[r] \/ run[r] # "NONE"]
  /\ UNCHANGED run

\* quality.assess_candidate, appended to the quality history.
Assess(version, content) ==
  passedCandidates' = IF Broken(content) THEN passedCandidates \ {version}
                      ELSE passedCandidates \cup {version}

----------------------------------------------------------------------------
(* Commands of the normal path *)

\* Mutant of Prepare: an incomplete input returns before the second
\* transition.
PrepareStopsEarly(input) ==
  /\ state \in {"NEW", "NEEDS_INPUT"}
  /\ context' = input.context
  /\ brief' = input.brief
  /\ IF input.context = NULL \/ ~input.brief THEN MoveTo("INGESTING")
     ELSE MoveVia("INGESTING", "READY_FOR_DESIGN")
  /\ UNCHANGED <<candidates, direction, artifact, approvalVars, gateVars,
                 releaseVars, resume_state>>
  /\ Commit

Prepare(input) ==
  /\ state \in {"NEW", "NEEDS_INPUT"}
  /\ context' = input.context
  /\ brief' = input.brief
  /\ MoveVia("INGESTING",
             IF \/ input.context \in UncertainContexts \cup {NULL}
                \/ ~input.brief
             THEN "NEEDS_INPUT" ELSE "READY_FOR_DESIGN")
  /\ UNCHANGED <<candidates, direction, artifact, approvalVars, gateVars,
                 releaseVars, resume_state>>
  /\ Commit

GenerateCandidates ==
  /\ state = "READY_FOR_DESIGN"
  /\ context # NULL /\ brief
  /\ candidates' = [c \in CandidateId |->
                      IF c[1] = context THEN [revision |-> 1, content |-> {}]
                      ELSE NULL]
  /\ passedCandidates' = passedCandidates \cup
       {<<c, 1>> : c \in {d \in CandidateId : d[1] = context}}
  /\ MoveVia("DESIGNING", "AWAITING_DIRECTION_APPROVAL")
  /\ UNCHANGED <<context, brief, direction, artifact, quality, approvalVars,
                 releaseVars, resume_state>>
  /\ Commit

ApproveDirection(c) ==
  /\ state = "AWAITING_DIRECTION_APPROVAL"
  /\ candidates[c] # NULL
  /\ LET version == <<c, candidates[c].revision>> IN
       /\ version \in passedCandidates
       /\ directionApprovals' = directionApprovals \cup {version}
       /\ direction' = [id |-> version, content |-> candidates[c].content]
  /\ MoveTo("PRODUCING")
  /\ UNCHANGED <<context, brief, candidates, artifact, exportApprovals,
                 gateVars, releaseVars, resume_state>>
  /\ Commit

Produce ==
  /\ state = "PRODUCING"
  /\ direction # NULL
  /\ artifact' = [id |-> direction.id, revision |-> 1,
                  content |-> direction.content]
  /\ MoveTo("VALIDATING")
  /\ UNCHANGED <<context, brief, candidates, direction, approvalVars,
                 gateVars, releaseVars, resume_state>>
  /\ Commit

\* Mutant of Validate: the gate's answer is not looked at.
ValidateIgnoresGate ==
  /\ state = "VALIDATING"
  /\ artifact # NULL /\ context # NULL
  /\ quality' = [target |-> VersionOf(artifact),
                 passed |-> ~Broken(artifact.content)]
  /\ MoveTo("AWAITING_EXPORT_APPROVAL")
  /\ UNCHANGED <<contentVars, passedCandidates, approvalVars, releaseVars,
                 resume_state>>
  /\ Commit

\* The gate decides which of two states the project moves to.
Validate ==
  /\ state = "VALIDATING"
  /\ artifact # NULL /\ context # NULL
  /\ quality' = [target |-> VersionOf(artifact),
                 passed |-> ~Broken(artifact.content)]
  /\ MoveTo(IF Broken(artifact.content) THEN "PRODUCING"
            ELSE "AWAITING_EXPORT_APPROVAL")
  /\ UNCHANGED <<contentVars, passedCandidates, approvalVars, releaseVars,
                 resume_state>>
  /\ Commit

\* Mutant of ApproveExport: the approval is bound to the artifact, not to its
\* revision.
ApproveExportOfAnyRevision ==
  /\ state = "AWAITING_EXPORT_APPROVAL"
  /\ artifact # NULL
  /\ quality # NULL
  /\ quality.target = VersionOf(artifact)
  /\ exportApprovals' = exportApprovals \cup {<<artifact.id, 1>>}
  /\ MoveTo("READY_TO_DELIVER")
  /\ UNCHANGED <<contentVars, gateVars, directionApprovals, releaseVars,
                 resume_state>>
  /\ Commit

ApproveExport ==
  /\ state = "AWAITING_EXPORT_APPROVAL"
  /\ artifact # NULL
  /\ quality # NULL
  /\ quality.target = VersionOf(artifact)
  /\ exportApprovals' = exportApprovals \cup {VersionOf(artifact)}
  /\ MoveTo("READY_TO_DELIVER")
  /\ UNCHANGED <<contentVars, gateVars, directionApprovals, releaseVars,
                 resume_state>>
  /\ Commit

----------------------------------------------------------------------------
(* Delivery *)

\* Everything _deliver checks before it exports.
MayExport ==
  /\ state = "READY_TO_DELIVER"
  /\ artifact # NULL /\ context # NULL
  /\ VersionOf(artifact) \in exportApprovals

\* A thread reads the project to deliver it and finds nothing in the way.  It
\* holds no lock from here to the save: what it read, with the approval it
\* found, is what it exports and releases, however late.
ReadForDelivery ==
  /\ MayExport
  /\ copies' = copies \cup {artifact}
  /\ UNCHANGED <<state, contentVars, approvalVars, gateVars, deliveries,
                 effects, resume_state, history, run, changed>>

\* Mutant of ExportPasses: the verdict on the render stands for the export.
ExportPassesLikeItsRender(a, profile) == ~Broken(a.content)

ExportPasses(a, profile) == ~Broken(a.content) /\ profile \notin BadProfiles

\* What delivery.release answers: the bundle stored under the side-effect key,
\* or a new one when the key was never released.
ReleaseOf(a, profile) ==
  LET stored == {b \in effects : /\ b.target = VersionOf(a)
                                 /\ b.profile = profile}
  IN IF stored # {} THEN stored
     ELSE {[target |-> VersionOf(a), profile |-> profile,
            content |-> a.content]}

\* Mutant of Deliver: a project that has a delivery records no further one.
DeliverRecordsOnce(profile) ==
  /\ MayExport
  /\ ExportPasses(artifact, profile)
  /\ quality' = [target |-> VersionOf(artifact), passed |-> TRUE]
  /\ \E bundle \in ReleaseOf(artifact, profile) :
       /\ effects' = effects \cup {bundle}
       /\ deliveries' = IF deliveries = {} THEN {bundle} ELSE deliveries
  /\ MoveVia("DELIVERING", "DELIVERED")
  /\ UNCHANGED <<contentVars, passedCandidates, approvalVars, copies,
                 resume_state>>
  /\ Commit

Deliver(profile) ==
  /\ MayExport
  /\ ExportPasses(artifact, profile)
  /\ quality' = [target |-> VersionOf(artifact), passed |-> TRUE]
  /\ \E bundle \in ReleaseOf(artifact, profile) :
       /\ effects' = effects \cup {bundle}
       /\ deliveries' = deliveries \cup {bundle}
  /\ MoveVia("DELIVERING", "DELIVERED")
  /\ UNCHANGED <<contentVars, passedCandidates, approvalVars, copies,
                 resume_state>>
  /\ Commit

\* The actual export fails its verification: the project goes back to
\* production without any active export approval.
ExportRejected(profile) ==
  /\ MayExport
  /\ ~ExportPasses(artifact, profile)
  /\ quality' = [target |-> VersionOf(artifact), passed |-> FALSE]
  /\ exportApprovals' = {}
  /\ MoveVia("DELIVERING", "PRODUCING")
  /\ UNCHANGED <<contentVars, passedCandidates, directionApprovals,
                 releaseVars, resume_state>>
  /\ Commit

\* The release is committed by the ledger before the Project is saved.  When
\* the process dies in between, or the save is refused because the project has
\* moved on, only the effect stays.
DeliverUncommitted(copy, profile) ==
  /\ ExportPasses(copy, profile)
  /\ \E bundle \in ReleaseOf(copy, profile) : effects' = effects \cup {bundle}
  /\ UNCHANGED <<state, contentVars, approvalVars, gateVars, deliveries,
                 copies, resume_state, history, run, changed>>

----------------------------------------------------------------------------
(* Feedback *)

DirectionFeedback(c, note) ==
  /\ state \in {"AWAITING_DIRECTION_APPROVAL", "PRODUCING", "VALIDATING",
                "AWAITING_EXPORT_APPROVAL", "READY_TO_DELIVER", "DELIVERED"}
  /\ context # NULL /\ brief
  /\ candidates[c] # NULL
  /\ candidates[c].revision < MaxCandidateRevision
  /\ directionApprovals' = {}
  /\ exportApprovals' = {}
  /\ direction' = NULL
  /\ LET revised == [revision |-> candidates[c].revision + 1,
                     content |-> candidates[c].content \cup {note}] IN
       /\ candidates' = [candidates EXCEPT ![c] = revised]
       /\ Assess(<<c, revised.revision>>, revised.content)
  /\ MoveVia("DESIGNING", "AWAITING_DIRECTION_APPROVAL")
  /\ UNCHANGED <<context, brief, artifact, quality, releaseVars,
                 resume_state>>
  /\ Commit

\* Mutant of ArtifactFeedback: a local change is not validated again.
ArtifactFeedbackKeepsState(note) ==
  /\ state \in {"PRODUCING", "VALIDATING", "AWAITING_EXPORT_APPROVAL",
                "READY_TO_DELIVER", "DELIVERED"}
  /\ artifact # NULL
  /\ artifact.revision < MaxArtifactRevision
  /\ exportApprovals' = {}
  /\ artifact' = [artifact EXCEPT !.revision = @ + 1,
                                  !.content = @ \cup {note}]
  /\ UNCHANGED <<state, context, brief, candidates, direction,
                 directionApprovals, gateVars, releaseVars, resume_state>>
  /\ Commit

ArtifactFeedback(note) ==
  /\ state \in {"PRODUCING", "VALIDATING", "AWAITING_EXPORT_APPROVAL",
                "READY_TO_DELIVER", "DELIVERED"}
  /\ artifact # NULL
  /\ artifact.revision < MaxArtifactRevision
  /\ exportApprovals' = {}
  /\ artifact' = [artifact EXCEPT !.revision = @ + 1,
                                  !.content = @ \cup {note}]
  /\ MoveTo("VALIDATING")
  /\ UNCHANGED <<context, brief, candidates, direction, directionApprovals,
                 gateVars, releaseVars, resume_state>>
  /\ Commit

FactFeedback ==
  /\ state \in {"READY_FOR_DESIGN", "AWAITING_DIRECTION_APPROVAL",
                "PRODUCING", "VALIDATING", "AWAITING_EXPORT_APPROVAL",
                "READY_TO_DELIVER", "DELIVERED"}
  /\ directionApprovals' = {}
  /\ exportApprovals' = {}
  /\ MoveTo("NEEDS_INPUT")
  /\ UNCHANGED <<contentVars, gateVars, releaseVars, resume_state>>
  /\ Commit

----------------------------------------------------------------------------
(* Restore.  The transition table is not consulted here, and the approvals, *)
(* the quality record and the deliveries are not taken from the source.     *)

RestoredState(source) ==
  IF source.artifact # NULL THEN "VALIDATING"
  ELSE IF \E c \in CandidateId : source.candidates[c] # NULL
       THEN "AWAITING_DIRECTION_APPROVAL"
  ELSE IF source.context # NULL /\ source.brief THEN "READY_FOR_DESIGN"
  ELSE "NEW"

\* Mutant of Restore: the quality decision on file stays.
RestoreKeepsQuality(source) ==
  /\ source \in history
  /\ directionApprovals' = {}
  /\ exportApprovals' = {}
  /\ context' = source.context
  /\ brief' = source.brief
  /\ candidates' = source.candidates
  /\ direction' = IF source.artifact # NULL THEN source.direction ELSE NULL
  /\ artifact' = source.artifact
  /\ resume_state' = NULL
  /\ state' = RestoredState(source)
  /\ UNCHANGED <<passedCandidates, quality, releaseVars>>
  /\ Commit

Restore(source) ==
  /\ source \in history
  /\ directionApprovals' = {}
  /\ exportApprovals' = {}
  /\ context' = source.context
  /\ brief' = source.brief
  /\ candidates' = source.candidates
  /\ direction' = IF source.artifact # NULL THEN source.direction ELSE NULL
  /\ artifact' = source.artifact
  /\ quality' = NULL
  /\ resume_state' = NULL
  /\ state' = RestoredState(source)
  /\ UNCHANGED <<passedCandidates, releaseVars>>
  /\ Commit

----------------------------------------------------------------------------
(* Workflow control.  A run is started and driven beside the commands, by a *)
(* stage runner with a transaction of its own.                              *)

StartRun(r) ==
  /\ run[r] = "NONE"
  /\ run' = [run EXCEPT ![r] = "RUNNING"]
  /\ UNCHANGED <<projectVars, changed>>

\* What a stage runner can make of its run: none of these writes looks at the
\* status it replaces.
WorkerReports(r, status) ==
  /\ run[r] # "NONE"
  /\ run' = [run EXCEPT ![r] = status]
  /\ UNCHANGED <<projectVars, changed>>

WorkerStatus == {"COMPLETED", "RETRY_WAIT", "NEEDS_INPUT", "BLOCKED", "FAILED"}

\* WorkflowPaused, WorkflowResumed and WorkflowStatusReconciled leave the
\* inputs of other runs compatible.
CommitControl ==
  /\ history' = history \cup {Snapshot'}
  /\ UNCHANGED changed

\* run_stage resumes a waiting run itself before its next attempt.
WorkerResumes(r) ==
  /\ run[r] \in {"PAUSED", "NEEDS_INPUT", "RETRY_WAIT"}
  /\ run' = [run EXCEPT ![r] = "RUNNING"]
  /\ UNCHANGED <<projectVars, changed>>

Pause(r) ==
  /\ run[r] \notin {"NONE", "COMPLETED"}
  /\ run' = [run EXCEPT ![r] = "PAUSED"]
  /\ UNCHANGED <<state, contentVars, approvalVars, gateVars, releaseVars,
                 resume_state>>
  /\ CommitControl

Cancel(r) ==
  /\ run[r] \notin {"NONE", "COMPLETED"}
  /\ run' = [run EXCEPT ![r] = "CANCELED"]
  /\ MoveTo("CANCELED")
  /\ UNCHANGED <<contentVars, approvalVars, gateVars, releaseVars,
                 resume_state>>
  /\ history' = history \cup {Snapshot'}
  /\ changed' = [s \in Runs |-> changed[s] \/ run[s] # "NONE"]

\* runtime.cancel commits first, and stays alone when the state the thread has
\* read cannot become CANCELED, or the save is refused or never made.
CancelUncommitted(r) ==
  /\ run[r] \notin {"NONE", "COMPLETED"}
  /\ run' = [run EXCEPT ![r] = "CANCELED"]
  /\ UNCHANGED <<projectVars, changed>>

\* The run is resumable and its input fits the current revision, by itself or
\* because the command names that revision as compatible.
MayResume(r, explicit) ==
  /\ state \notin Terminal
  /\ run[r] \notin {"NONE", "CANCELED", "FAILED"}
  /\ explicit \/ ~changed[r]

Resumed(r) == [run EXCEPT ![r] = IF @ = "COMPLETED" THEN @ ELSE "RUNNING"]

Resume(r, explicit) ==
  /\ MayResume(r, explicit)
  /\ run' = Resumed(r)
  /\ IF state = "NEEDS_INPUT" /\ resume_state # NULL
     THEN MoveTo(resume_state) ELSE UNCHANGED state
  /\ resume_state' = NULL
  /\ UNCHANGED <<contentVars, approvalVars, gateVars, releaseVars>>
  /\ CommitControl

\* runtime.resume has committed when the transition or the save is refused.  It
\* looks at the run alone; the project it was allowed for is an earlier one.
ResumeUncommitted(r) ==
  /\ run[r] \notin {"NONE", "CANCELED", "FAILED"}
  /\ run' = Resumed(r)
  /\ UNCHANGED <<projectVars, changed>>

ReconcileTarget == {"NEEDS_INPUT", "BLOCKED", "FAILED", "CANCELED"}

Reconcile(r) ==
  /\ run[r] # "NONE"
  /\ IF run[r] \in ReconcileTarget /\ state # run[r]
     THEN /\ resume_state' = IF run[r] = "NEEDS_INPUT" THEN state ELSE NULL
          /\ MoveTo(run[r])
     ELSE UNCHANGED <<state, resume_state>>
  /\ UNCHANGED <<contentVars, approvalVars, gateVars, releaseVars, run>>
  /\ CommitControl

----------------------------------------------------------------------------
\* The commands that go on from the state the project is in, but for a
\* delivery.
Advance ==
  \/ \E input \in Inputs : Prepare(input)
  \/ GenerateCandidates
  \/ \E c \in CandidateId : ApproveDirection(c)
  \/ Produce
  \/ Validate
  \/ ApproveExport
  \/ \E profile \in Profiles : ExportRejected(profile)
  \/ \E c \in CandidateId, note \in Notes : DirectionFeedback(c, note)
  \/ \E note \in Notes : ArtifactFeedback(note)
  \/ FactFeedback
  \/ \E r \in Runs : Pause(r)
  \/ \E r \in Runs : Cancel(r)
  \/ \E r \in Runs : Reconcile(r)

\* The commands that take it to a state it has been in before.
TakeBack ==
  \/ \E source \in history : Restore(source)
  \/ \E r \in Runs, explicit \in BOOLEAN : Resume(r, explicit)

\* The commands that save the project, but for a delivery.
SavedCommand == Advance \/ TakeBack

\* What changes a run and leaves the project alone.
Aside ==
  \/ \E r \in Runs : StartRun(r)
  \/ \E r \in Runs, status \in WorkerStatus : WorkerReports(r, status)
  \/ \E r \in Runs : WorkerResumes(r)
  \/ \E r \in Runs : CancelUncommitted(r)
  \/ \E r \in Runs : ResumeUncommitted(r)

Next ==
  \/ SavedCommand
  \/ Aside
  \/ \E profile \in Profiles : Deliver(profile)
  \/ ReadForDelivery
  \/ \E copy \in copies, profile \in Profiles :
       DeliverUncommitted(copy, profile)

Spec == Init /\ [][Next]_vars

----------------------------------------------------------------------------
(* Properties *)

\* Once a project waits for the export decision, the quality decision on file
\* is a pass for exactly the artifact version in hand, and the content in hand
\* is sound, although revisions can be numbered again and histories restored
\* (_validate, _approve_export, _restore).
ExportGateHolds ==
  state \in {"AWAITING_EXPORT_APPROVAL", "READY_TO_DELIVER"} =>
    /\ artifact # NULL /\ quality # NULL
    /\ quality = [target |-> VersionOf(artifact), passed |-> TRUE]
    /\ ~Broken(artifact.content)

\* A project that is ready to deliver still holds an active export approval
\* for exactly the artifact version in hand (_approve_export, the three
\* feedback handlers, _restore, _reconcile_workflow).
ReadyIsAuthorized ==
  state = "READY_TO_DELIVER" => VersionOf(artifact) \in exportApprovals

\* Nothing broken is ever released, one side-effect key stands for one
\* content for ever, and every delivery the project shows was really released
\* (_deliver, also when the save after the release is lost).
ReleasesAreSound ==
  /\ \A b \in effects : ~Broken(b.content) /\ b.profile \notin BadProfiles
  /\ \A a, b \in effects :
       a.target = b.target /\ a.profile = b.profile => a = b
  /\ deliveries \subseteq effects

\* A DELIVERED project has a delivery on file for the artifact version in hand
\* (_deliver, _restore, _resume).
DeliveredIsRecorded ==
  state = "DELIVERED" =>
    artifact # NULL /\ \E b \in deliveries : b.target = VersionOf(artifact)

\* Whatever brings a project to VALIDATING, a production, a local change, a
\* restored revision or a resumed run, there is an artifact to validate.
ValidatingHasArtifact ==
  /\ state = "VALIDATING" => artifact # NULL
  /\ resume_state = "VALIDATING" => artifact # NULL

\* A blocked, failed or canceled project comes back only through a restore,
\* which leaves nothing that was assessed or approved before standing
\* (_restore against the transition table, _resume, _reconcile_workflow).
EndedStaysEnded ==
  [][(state \in Terminal /\ state' # state) =>
       /\ directionApprovals' = {} /\ exportApprovals' = {}
       /\ quality' = NULL /\ resume_state' = NULL]_vars

----------------------------------------------------------------------------
(* What the documents say of the program and the code does not keep; the    *)
(* runs named here expect a violation.                                      *)

\* A DELIVERED project has handed out the content it holds, not an earlier
\* content with the same artifact revision: a change after delivery "starts a
\* new revision, validation and delivery chain" (contract-skeleton.md).  A
\* restore brings a number back, and feedback on it uses the next one again
\* (_restore, _artifact_feedback, _deliver).  See the run reused_revision.
DeliveredContentIsReleased ==
  state = "DELIVERED" =>
    \E b \in deliveries : /\ b.target = VersionOf(artifact)
                          /\ b.content = artifact.content

\* What leaves the house has an active export approval as it leaves: "the
\* approval must be active and match the target revision and action"
\* (runtime-recovery.md), and an artifact that has changed is no longer
\* covered (quality-governance-spec.md, _execute, _deliver).  See the run
\* late_release.
ReleasesAreAuthorized ==
  [][\A b \in effects' \ effects : b.target \in exportApprovals]_vars

----------------------------------------------------------------------------
(* What the commands promise about releasing work, see ReleaseProtocol.     *)

ReleasePhase ==
  CASE state = "AWAITING_EXPORT_APPROVAL" -> "assessed"
    [] state = "READY_TO_DELIVER" -> "approved"
    [] state = "DELIVERED" -> "released"
    [] OTHER -> "drafting"

Protocol == INSTANCE ReleaseProtocol
              WITH Subjects <- Content,
                   Sound <- {content \in Content : ~Broken(content)},
                   NoSubject <- NULL,
                   phase <- ReleasePhase,
                   subject <- IF artifact = NULL THEN NULL
                              ELSE artifact.content,
                   cleared <- {a.content : a \in copies},
                   released <- {b.content : b \in effects}

\* Every command is a step of the release protocol: content leaves the house
\* only after it was assessed and then approved with no change in between,
\* and read for its release while the approval stood.
ImplementsReleaseProtocol == Protocol!RPSpec

----------------------------------------------------------------------------
(* What the commands ask of the side-effect ledger, see EffectPromise.      *)

Under(bundles, target, profile) ==
  {b \in bundles : b.target = target /\ b.profile = profile}

OneOf(bundles) == IF bundles = {} THEN NULL ELSE CHOOSE b \in bundles : TRUE

SettledUnder(target, profile) == OneOf(Under(effects, target, profile))

Effect(target, profile) ==
  INSTANCE EffectPromise
    WITH Results <- Bundle, Unsettled <- NULL,
         settled <- SettledUnder(target, profile),
         told <- Under(deliveries, target, profile)

\* One side-effect key settles on one bundle, for ever, and it is the only one
\* a project ever shows for that key, whatever threads release late and
\* whatever revisions are restored (_deliver, DeliveryLedger).
KeepsEffectPromise(target, profile) == Effect(target, profile)!EPSpec
=============================================================================
