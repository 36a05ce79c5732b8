------------------------ MODULE ProjectControlProofs ------------------------
(***************************************************************************)
(* Theorems about ProjectControl, for every value of its constants: the    *)
(* type invariant, the safety invariants, and that the commands implement  *)
(* ReleaseProtocol; and about ProductShell, that its steps are the control *)
(* plane's or change nothing of it, so that all of this holds behind the   *)
(* shell too, and that a creation is answered with a prepared project; and *)
(* about DurableDelivery, that threads delivering through the ledger are   *)
(* what Project Control calls releases.                                    *)
(*                                                                         *)
(* Each invariance proof is the usual one: it holds initially, and every   *)
(* action preserves it.  The type invariant comes first; the safety        *)
(* invariants are then proved together, because they are inductive only as *)
(* a conjunction.                                                          *)
(***************************************************************************)
EXTENDS ProductShell, DurableDelivery, TLAPS, FiniteSetTheorems,
        SequenceTheorems, WellFoundedInduction

----------------------------------------------------------------------------
(* Types *)

\* The part of the type invariant that a snapshot is made of.
ContentOK ==
  /\ context \in Contexts \cup {NULL}
  /\ brief \in BOOLEAN
  /\ candidates \in [CandidateId -> Candidate \cup {NULL}]
  /\ direction \in Direction \cup {NULL}
  /\ artifact \in Artifact \cup {NULL}

Stored == ProjectState \ {"INGESTING", "DESIGNING", "DELIVERING"}

\* What the commands add to the history is restorable.
LEMMA CommitTypes ==
  ASSUME TypeOK, ContentOK', Commit
  PROVE  /\ history' \subseteq Restorable
         /\ run' \in [Runs -> WorkflowStatus \cup {"NONE"}]
         /\ changed' \in [Runs -> BOOLEAN]
<1>1. Snapshot' \in Restorable
  BY DEF ContentOK, Snapshot, Restorable
<1>2. history' \subseteq Restorable
  BY <1>1 DEF TypeOK, Commit
<1>3. changed' \in [Runs -> BOOLEAN]
  BY DEF TypeOK, Commit
<1>4. run' \in [Runs -> WorkflowStatus \cup {"NONE"}]
  BY DEF TypeOK, Commit
<1> QED
  BY <1>2, <1>3, <1>4

LEMMA CommitControlTypes ==
  ASSUME TypeOK, UNCHANGED contentVars, CommitControl
  PROVE  /\ history' \subseteq Restorable
         /\ changed' \in [Runs -> BOOLEAN]
<1>1. Snapshot' \in Restorable
  BY DEF TypeOK, contentVars, Snapshot, Restorable
<1> QED
  BY <1>1 DEF TypeOK, CommitControl

\* The versions of the objects in hand are versions.
LEMMA VersionTypes ==
  ASSUME TypeOK
  PROVE  /\ artifact # NULL => VersionOf(artifact) \in ArtifactVersion
         /\ \A a \in Artifact : VersionOf(a) \in ArtifactVersion
         /\ \A c \in CandidateId, n \in Nat : <<c, n>> \in CandidateVersion
  BY DEF TypeOK, VersionOf, Artifact, ArtifactVersion, CandidateVersion

\* What a release can hand out is a bundle of the artifact version it is for.
LEMMA ReleaseTypes ==
  ASSUME TypeOK, NEW a \in Artifact, NEW profile \in Profiles,
         NEW bundle \in ReleaseOf(a, profile)
  PROVE  bundle \in Bundle /\ bundle.target = VersionOf(a)
<1>1. VersionOf(a) \in ArtifactVersion
  BY VersionTypes
<1>2. a.content \in Content
  BY DEF Artifact
<1> QED
  BY <1>1, <1>2 DEF TypeOK, ReleaseOf, Bundle

LEMMA InitTypes == Init => TypeOK
<1> SUFFICES ASSUME Init PROVE TypeOK
  OBVIOUS
<1>1. Snapshot \in Restorable
  BY DEF Init, Snapshot, Restorable
<1> QED
  BY <1>1 DEF Init, TypeOK, ProjectState

\* A revised artifact is an artifact.
LEMMA RevisedArtifact ==
  ASSUME TypeOK, NEW note \in Notes, ArtifactFeedback(note)
  PROVE  artifact' \in Artifact
<1>1. artifact \in Artifact
  BY DEF TypeOK, ArtifactFeedback
<1>2. artifact.revision + 1 \in Nat /\ artifact.content \cup {note} \in Content
  BY <1>1 DEF Artifact, Content
<1>3. artifact' = [artifact EXCEPT !.revision = artifact.revision + 1,
                                   !.content = artifact.content \cup {note}]
  BY DEF ArtifactFeedback
<1> QED
  BY <1>1, <1>2, <1>3 DEF Artifact

\* Every action preserves the types.
LEMMA StepTypes == TypeOK /\ [Next]_vars => TypeOK'
<1> SUFFICES ASSUME TypeOK, [Next]_vars PROVE TypeOK'
  OBVIOUS
<1> USE DEF contentVars, approvalVars, gateVars, releaseVars
<1>1. ASSUME NEW input \in Inputs, Prepare(input) PROVE TypeOK'
  <2>1. input \in Input
    BY <1>1, ContextsAssumption
  <2>2. ContentOK'
    BY <1>1, <2>1 DEF TypeOK, ContentOK, Prepare, Input
  <2>3. state' \in Stored
    BY <1>1 DEF Prepare, MoveVia, Stored, ProjectState
  <2> QED
    BY <1>1, <2>2, <2>3, CommitTypes DEF TypeOK, ContentOK, Prepare, Stored
<1>2. CASE GenerateCandidates
  <2>1. candidates' \in [CandidateId -> Candidate \cup {NULL}]
    BY <1>2 DEF GenerateCandidates, Candidate, Content
  <2>2. ContentOK'
    BY <1>2, <2>1 DEF TypeOK, ContentOK, GenerateCandidates
  <2>3. passedCandidates' \subseteq CandidateVersion
    BY <1>2, VersionTypes DEF TypeOK, GenerateCandidates
  <2>4. state' \in Stored
    BY <1>2 DEF GenerateCandidates, MoveVia, Stored, ProjectState
  <2> QED
    BY <1>2, <2>2, <2>3, <2>4, CommitTypes
    DEF TypeOK, ContentOK, GenerateCandidates, Stored
<1>3. ASSUME NEW c \in CandidateId, ApproveDirection(c) PROVE TypeOK'
  <2>1. candidates[c] \in Candidate
    BY <1>3 DEF TypeOK, ApproveDirection
  <2>2. <<c, candidates[c].revision>> \in CandidateVersion
    BY <1>3, <2>1, VersionTypes DEF Candidate
  <2>3. direction' \in Direction /\ directionApprovals' \subseteq CandidateVersion
    BY <1>3, <2>1, <2>2 DEF TypeOK, ApproveDirection, Direction, Candidate
  <2>4. ContentOK'
    BY <1>3, <2>3 DEF TypeOK, ContentOK, ApproveDirection
  <2>5. state' \in Stored
    BY <1>3 DEF ApproveDirection, MoveTo, Stored, ProjectState
  <2> QED
    BY <1>3, <2>3, <2>4, <2>5, CommitTypes
    DEF TypeOK, ContentOK, ApproveDirection, Stored
<1>4. CASE Produce
  <2>1. artifact' \in Artifact
    BY <1>4 DEF TypeOK, Produce, Direction, Artifact
  <2>2. ContentOK'
    BY <1>4, <2>1 DEF TypeOK, ContentOK, Produce
  <2>3. state' \in Stored
    BY <1>4 DEF Produce, MoveTo, Stored, ProjectState
  <2> QED
    BY <1>4, <2>2, <2>3, CommitTypes DEF TypeOK, ContentOK, Produce, Stored
<1>5. CASE Validate
  <2>1. quality' \in Decision
    BY <1>5, VersionTypes DEF Validate, Decision
  <2>2. ContentOK'
    BY <1>5 DEF TypeOK, ContentOK, Validate
  <2>3. state' \in Stored
    BY <1>5 DEF Validate, MoveTo, Stored, ProjectState
  <2> QED
    BY <1>5, <2>1, <2>2, <2>3, CommitTypes DEF TypeOK, ContentOK, Validate, Stored
<1>6. CASE ApproveExport
  <2>1. exportApprovals' \subseteq ArtifactVersion
    BY <1>6, VersionTypes DEF TypeOK, ApproveExport
  <2>2. ContentOK'
    BY <1>6 DEF TypeOK, ContentOK, ApproveExport
  <2>3. state' \in Stored
    BY <1>6 DEF ApproveExport, MoveTo, Stored, ProjectState
  <2> QED
    BY <1>6, <2>1, <2>2, <2>3, CommitTypes
    DEF TypeOK, ContentOK, ApproveExport, Stored
<1>7. ASSUME NEW profile \in Profiles, Deliver(profile) PROVE TypeOK'
  <2>1. PICK bundle \in ReleaseOf(artifact, profile) :
             /\ effects' = effects \cup {bundle}
             /\ deliveries' = deliveries \cup {bundle}
    BY <1>7 DEF Deliver
  <2>a. artifact \in Artifact
    BY <1>7 DEF TypeOK, Deliver, MayExport
  <2>2. bundle \in Bundle
    BY <2>a, <2>1, ReleaseTypes
  <2>3. quality' \in Decision
    BY <1>7, VersionTypes DEF Deliver, MayExport, Decision
  <2>4. ContentOK'
    BY <1>7 DEF TypeOK, ContentOK, Deliver
  <2>5. state' \in Stored
    BY <1>7 DEF Deliver, MoveVia, Stored, ProjectState
  <2> QED
    BY <1>7, <2>1, <2>2, <2>3, <2>4, <2>5, CommitTypes
    DEF TypeOK, ContentOK, Deliver, Stored
<1>8. ASSUME NEW profile \in Profiles, ExportRejected(profile) PROVE TypeOK'
  <2>1. quality' \in Decision
    BY <1>8, VersionTypes DEF ExportRejected, MayExport, Decision
  <2>2. ContentOK'
    BY <1>8 DEF TypeOK, ContentOK, ExportRejected
  <2>3. state' \in Stored
    BY <1>8 DEF ExportRejected, MoveVia, Stored, ProjectState
  <2> QED
    BY <1>8, <2>1, <2>2, <2>3, CommitTypes
    DEF TypeOK, ContentOK, ExportRejected, Stored
<1>9. ASSUME NEW copy \in copies, NEW profile \in Profiles,
             DeliverUncommitted(copy, profile)
      PROVE  TypeOK'
  <2>1. copy \in Artifact
    BY DEF TypeOK
  <2> QED
    BY <1>9, <2>1, ReleaseTypes DEF TypeOK, DeliverUncommitted
<1>10. ASSUME NEW c \in CandidateId, NEW note \in Notes,
              DirectionFeedback(c, note)
       PROVE TypeOK'
  <2> DEFINE revised == [revision |-> candidates[c].revision + 1,
                         content |-> candidates[c].content \cup {note}]
  <2>1. candidates[c] \in Candidate
    BY <1>10 DEF TypeOK, DirectionFeedback
  <2>2. revised \in Candidate
    BY <2>1, <1>10 DEF Candidate, Content
  <2>3. /\ candidates' = [candidates EXCEPT ![c] = revised]
        /\ Assess(<<c, revised.revision>>, revised.content)
    BY <1>10 DEF DirectionFeedback
  <2>4. candidates' \in [CandidateId -> Candidate \cup {NULL}]
    BY <2>2, <2>3 DEF TypeOK
  <2>5. <<c, revised.revision>> \in CandidateVersion
    BY <1>10, <2>2, VersionTypes DEF Candidate
  <2>6. passedCandidates' \subseteq CandidateVersion
    BY <2>3, <2>5 DEF TypeOK, Assess
  <2>7. ContentOK'
    BY <1>10, <2>4 DEF TypeOK, ContentOK, DirectionFeedback
  <2>8. state' \in Stored
    BY <1>10 DEF DirectionFeedback, MoveVia, Stored, ProjectState
  <2> QED
    BY <1>10, <2>6, <2>7, <2>8, CommitTypes
    DEF TypeOK, ContentOK, DirectionFeedback, Stored
<1>11. ASSUME NEW note \in Notes, ArtifactFeedback(note) PROVE TypeOK'
  <2>1. ContentOK'
    BY <1>11, RevisedArtifact DEF TypeOK, ContentOK, ArtifactFeedback
  <2>2. state' \in Stored
    BY <1>11 DEF ArtifactFeedback, MoveTo, Stored, ProjectState
  <2> QED
    BY <1>11, <2>1, <2>2, CommitTypes
    DEF TypeOK, ContentOK, ArtifactFeedback, Stored
<1>12. CASE FactFeedback
  <2>1. ContentOK'
    BY <1>12 DEF TypeOK, ContentOK, FactFeedback
  <2>2. state' \in Stored
    BY <1>12 DEF FactFeedback, MoveTo, Stored, ProjectState
  <2> QED
    BY <1>12, <2>1, <2>2, CommitTypes DEF TypeOK, ContentOK, FactFeedback, Stored
<1>13. ASSUME NEW source \in history, Restore(source) PROVE TypeOK'
  <2>1. source \in Restorable
    BY DEF TypeOK
  <2>2. ContentOK'
    BY <1>13, <2>1 DEF ContentOK, Restore, Restorable
  <2>3. state' \in Stored
    BY <1>13 DEF Restore, RestoredState, Stored, ProjectState
  <2> QED
    BY <1>13, <2>2, <2>3, CommitTypes DEF TypeOK, ContentOK, Restore, Stored
<1>14. ASSUME NEW r \in Runs, StartRun(r) PROVE TypeOK'
  BY <1>14 DEF TypeOK, StartRun, projectVars, WorkflowStatus
<1>15. ASSUME NEW r \in Runs, NEW status \in WorkerStatus,
              WorkerReports(r, status)
       PROVE TypeOK'
  BY <1>15 DEF TypeOK, WorkerReports, projectVars, WorkflowStatus, WorkerStatus
<1>16. ASSUME NEW r \in Runs, WorkerResumes(r) PROVE TypeOK'
  BY <1>16 DEF TypeOK, WorkerResumes, projectVars, WorkflowStatus
<1>17. ASSUME NEW r \in Runs, Pause(r) PROVE TypeOK'
  <2>1. run' \in [Runs -> WorkflowStatus \cup {"NONE"}]
    BY <1>17 DEF TypeOK, Pause, WorkflowStatus
  <2> QED
    BY <1>17, <2>1, CommitControlTypes DEF TypeOK, Pause
<1>18. ASSUME NEW r \in Runs, Cancel(r) PROVE TypeOK'
  <2>1. run' \in [Runs -> WorkflowStatus \cup {"NONE"}]
    BY <1>18 DEF TypeOK, Cancel, WorkflowStatus
  <2>2. Snapshot' \in Restorable
    BY <1>18 DEF TypeOK, Cancel, Snapshot, Restorable
  <2>3. /\ state' \in Stored
        /\ history' \subseteq Restorable
        /\ changed' \in [Runs -> BOOLEAN]
    BY <1>18, <2>2 DEF TypeOK, Cancel, MoveTo, Stored, ProjectState
  <2> QED
    BY <1>18, <2>1, <2>3 DEF TypeOK, Cancel, Stored
<1>19. ASSUME NEW r \in Runs, NEW explicit \in BOOLEAN, Resume(r, explicit)
       PROVE TypeOK'
  <2>1. run' \in [Runs -> WorkflowStatus \cup {"NONE"}]
    BY <1>19 DEF TypeOK, Resume, Resumed, WorkflowStatus
  <2>2. state' \in Stored
    BY <1>19 DEF TypeOK, Resume, MoveTo, Stored
  <2> QED
    BY <1>19, <2>1, <2>2, CommitControlTypes DEF TypeOK, Resume, Stored
<1>20. ASSUME NEW r \in Runs, CancelUncommitted(r) PROVE TypeOK'
  BY <1>20 DEF TypeOK, CancelUncommitted, projectVars, WorkflowStatus
<1>21. ASSUME NEW r \in Runs, ResumeUncommitted(r) PROVE TypeOK'
  BY <1>21 DEF TypeOK, ResumeUncommitted, projectVars, Resumed, WorkflowStatus
<1>22. ASSUME NEW r \in Runs, Reconcile(r) PROVE TypeOK'
  <2>1. state' \in Stored /\ resume_state' \in Stored \cup {NULL}
    BY <1>22 DEF TypeOK, Reconcile, MoveTo, ReconcileTarget, Stored, ProjectState
  <2> QED
    BY <1>22, <2>1, CommitControlTypes DEF TypeOK, Reconcile, Stored
<1>23. CASE ReadForDelivery
  BY <1>23 DEF TypeOK, ReadForDelivery, MayExport
<1>24. CASE UNCHANGED vars
  BY <1>24 DEF TypeOK, vars, projectVars
<1> QED
  BY <1>1, <1>2, <1>3, <1>4, <1>5, <1>6, <1>7, <1>8, <1>9, <1>10, <1>11,
     <1>12, <1>13, <1>14, <1>15, <1>16, <1>17, <1>18, <1>19, <1>20, <1>21,
     <1>22, <1>23, <1>24
  DEF Next, SavedCommand, Advance, TakeBack, Aside

\* Every reachable state is well typed.
THEOREM TypeCorrect == Spec => []TypeOK
<1>1. Init => TypeOK
  BY InitTypes
<1>2. TypeOK /\ [Next]_vars => TypeOK'
  BY StepTypes
<1> QED
  BY <1>1, <1>2, PTL DEF Spec

----------------------------------------------------------------------------
(* Safety *)

\* What threads have read to deliver has passed the gate.
CopiesAreSound == \A a \in copies : ~Broken(a.content)

\* The safety invariants together.  Each needs others: a delivery is sound
\* because the gate held when the project became ready, and the gate survives a
\* command because only VALIDATING, which has an artifact, leads to it.  A
\* release that comes late is sound because it is of what was ready once.
Safe ==
  /\ CopiesAreSound
  /\ ExportGateHolds
  /\ ReadyIsAuthorized
  /\ ReleasesAreSound
  /\ DeliveredIsRecorded
  /\ ValidatingHasArtifact

\* What Safe says of a project that is neither waiting for the export decision
\* nor ready nor delivered.
OutsideRelease ==
  state \notin {"AWAITING_EXPORT_APPROVAL", "READY_TO_DELIVER", "DELIVERED"}

LEMMA SafeOutsideRelease ==
  ASSUME OutsideRelease', ReleasesAreSound', CopiesAreSound',
         ValidatingHasArtifact'
  PROVE  Safe'
  BY DEF OutsideRelease, Safe, ExportGateHolds, ReadyIsAuthorized,
         DeliveredIsRecorded

\* Commands that release nothing leave the ledger and the deliveries sound.
LEMMA ReleasesKept ==
  ASSUME ReleasesAreSound, CopiesAreSound, UNCHANGED releaseVars
  PROVE  ReleasesAreSound' /\ CopiesAreSound'
  BY DEF ReleasesAreSound, CopiesAreSound, releaseVars

\* Adding what delivery.release answers keeps the ledger sound.
LEMMA ReleaseKeepsSound ==
  ASSUME TypeOK, ReleasesAreSound, NEW copy, NEW profile \in Profiles,
         ExportPasses(copy, profile), NEW bundle \in ReleaseOf(copy, profile),
         effects' = effects \cup {bundle}
  PROVE  /\ \A b \in effects' : ~Broken(b.content) /\ b.profile \notin BadProfiles
         /\ \A a, b \in effects' :
              a.target = b.target /\ a.profile = b.profile => a = b
<1>1. CASE bundle \in effects
  BY <1>1 DEF ReleasesAreSound
<1>2. CASE bundle \notin effects
  <2>1. bundle = [target |-> VersionOf(copy), profile |-> profile,
                  content |-> copy.content]
    BY <1>2 DEF ReleaseOf
  <2>2. \A b \in effects :
          ~(b.target = VersionOf(copy) /\ b.profile = profile)
    BY <1>2 DEF ReleaseOf
  <2>3. ~Broken(bundle.content) /\ bundle.profile \notin BadProfiles
    BY <2>1 DEF ExportPasses
  <2> QED
    BY <2>1, <2>2, <2>3 DEF ReleasesAreSound
<1> QED
  BY <1>1, <1>2

\* An interrupted project never returns to a state that stands on an approval
\* or on a verdict.
LEMMA AfterInputOutsideRelease ==
  ASSUME NEW to, MayMove("NEEDS_INPUT", to)
  PROVE  to \notin {"AWAITING_EXPORT_APPROVAL", "READY_TO_DELIVER", "DELIVERED"}
  BY DEF MayMove, AllowedTransitions, AfterInput, Terminal

LEMMA StepSafe == TypeOK /\ Safe /\ [Next]_vars => Safe'
<1> SUFFICES ASSUME TypeOK, Safe, [Next]_vars PROVE Safe'
  OBVIOUS
<1>a. /\ CopiesAreSound
      /\ ExportGateHolds /\ ReadyIsAuthorized /\ ReleasesAreSound
      /\ DeliveredIsRecorded /\ ValidatingHasArtifact
  BY DEF Safe
<1>1. ASSUME NEW input \in Inputs, Prepare(input) PROVE Safe'
  <2>1. OutsideRelease' /\ ValidatingHasArtifact'
    BY <1>1, <1>a DEF Prepare, MoveVia, OutsideRelease, ValidatingHasArtifact
  <2> QED
    BY <1>1, <1>a, <2>1, SafeOutsideRelease, ReleasesKept DEF Prepare
<1>2. CASE GenerateCandidates
  <2>1. OutsideRelease' /\ ValidatingHasArtifact'
    BY <1>2, <1>a DEF GenerateCandidates, MoveVia, OutsideRelease, ValidatingHasArtifact
  <2> QED
    BY <1>2, <1>a, <2>1, SafeOutsideRelease, ReleasesKept DEF GenerateCandidates
<1>3. ASSUME NEW c \in CandidateId, ApproveDirection(c) PROVE Safe'
  <2>1. OutsideRelease' /\ ValidatingHasArtifact'
    BY <1>3, <1>a DEF ApproveDirection, MoveTo, OutsideRelease, ValidatingHasArtifact
  <2> QED
    BY <1>3, <1>a, <2>1, SafeOutsideRelease, ReleasesKept DEF ApproveDirection
<1>4. CASE Produce
  <2>1. artifact' # NULL
    BY <1>4, NullAssumption DEF TypeOK, Produce, Direction, Artifact
  <2>2. OutsideRelease' /\ ValidatingHasArtifact'
    BY <1>4, <2>1 DEF Produce, MoveTo, OutsideRelease, ValidatingHasArtifact
  <2> QED
    BY <1>4, <1>a, <2>2, SafeOutsideRelease, ReleasesKept DEF Produce
<1>5. CASE Validate
  <2>1. quality' # NULL
    <3>1. quality' \in Decision
      BY <1>5, VersionTypes DEF Validate, Decision
    <3> QED
      BY <3>1, NullAssumption
  <2>2. ExportGateHolds'
    BY <1>5, <2>1 DEF Validate, ExportGateHolds, MoveTo, VersionOf, contentVars
  <2> QED
    BY <1>5, <1>a, <2>2, ReleasesKept
    DEF Validate, MoveTo, Safe, ReadyIsAuthorized, DeliveredIsRecorded,
        ValidatingHasArtifact, contentVars
<1>6. CASE ApproveExport
  <2>1. ExportGateHolds' /\ ReadyIsAuthorized'
    BY <1>6, <1>a
    DEF ApproveExport, MoveTo, ExportGateHolds, ReadyIsAuthorized, VersionOf,
        contentVars, gateVars
  <2> QED
    BY <1>6, <1>a, <2>1, ReleasesKept
    DEF ApproveExport, MoveTo, Safe, DeliveredIsRecorded,
        ValidatingHasArtifact, contentVars
<1>7. ASSUME NEW profile \in Profiles, Deliver(profile) PROVE Safe'
  <2>1. PICK bundle \in ReleaseOf(artifact, profile) :
             /\ effects' = effects \cup {bundle}
             /\ deliveries' = deliveries \cup {bundle}
    BY <1>7 DEF Deliver
  <2>2. ReleasesAreSound'
    <3>1. deliveries' \subseteq effects'
      BY <2>1, <1>a DEF ReleasesAreSound
    <3> QED
      BY <1>7, <1>a, <2>1, <3>1, ReleaseKeepsSound DEF Deliver, ReleasesAreSound
  <2>3. DeliveredIsRecorded'
    <3>1. artifact \in Artifact
      BY <1>7 DEF TypeOK, Deliver, MayExport
    <3> QED
      BY <1>7, <2>1, <3>1, ReleaseTypes
      DEF Deliver, MayExport, DeliveredIsRecorded, VersionOf, contentVars
  <2>4. state' = "DELIVERED"
    BY <1>7 DEF Deliver, MoveVia
  <2> QED
    BY <1>7, <1>a, <2>2, <2>3, <2>4
    DEF Deliver, Safe, CopiesAreSound, ExportGateHolds, ReadyIsAuthorized,
        ValidatingHasArtifact, contentVars
<1>8. ASSUME NEW profile \in Profiles, ExportRejected(profile) PROVE Safe'
  <2>1. OutsideRelease' /\ ValidatingHasArtifact'
    BY <1>8, <1>a
    DEF ExportRejected, MoveVia, OutsideRelease, ValidatingHasArtifact, contentVars
  <2> QED
    BY <1>8, <1>a, <2>1, SafeOutsideRelease, ReleasesKept DEF ExportRejected
<1>9. ASSUME NEW copy \in copies, NEW profile \in Profiles,
             DeliverUncommitted(copy, profile)
      PROVE  Safe'
  <2>1. PICK bundle \in ReleaseOf(copy, profile) : effects' = effects \cup {bundle}
    BY <1>9 DEF DeliverUncommitted
  <2>2. ReleasesAreSound'
    <3>1. deliveries' \subseteq effects'
      BY <1>9, <2>1, <1>a DEF DeliverUncommitted, ReleasesAreSound
    <3> QED
      BY <1>9, <1>a, <2>1, <3>1, ReleaseKeepsSound
      DEF DeliverUncommitted, ReleasesAreSound
  <2> QED
    BY <1>9, <1>a, <2>2
    DEF DeliverUncommitted, Safe, CopiesAreSound, ExportGateHolds,
        ReadyIsAuthorized, DeliveredIsRecorded, ValidatingHasArtifact,
        VersionOf, contentVars, approvalVars, gateVars
<1>10. ASSUME NEW c \in CandidateId, NEW note \in Notes,
              DirectionFeedback(c, note)
       PROVE Safe'
  <2>1. OutsideRelease' /\ ValidatingHasArtifact'
    BY <1>10, <1>a
    DEF DirectionFeedback, MoveVia, OutsideRelease, ValidatingHasArtifact
  <2> QED
    BY <1>10, <1>a, <2>1, SafeOutsideRelease, ReleasesKept DEF DirectionFeedback
<1>11. ASSUME NEW note \in Notes, ArtifactFeedback(note) PROVE Safe'
  <2>1. artifact' # NULL
    BY <1>11, RevisedArtifact, NullAssumption
  <2>2. OutsideRelease' /\ ValidatingHasArtifact'
    BY <1>11, <2>1
    DEF ArtifactFeedback, MoveTo, OutsideRelease, ValidatingHasArtifact
  <2> QED
    BY <1>11, <1>a, <2>2, SafeOutsideRelease, ReleasesKept DEF ArtifactFeedback
<1>12. CASE FactFeedback
  <2>1. OutsideRelease' /\ ValidatingHasArtifact'
    BY <1>12, <1>a
    DEF FactFeedback, MoveTo, OutsideRelease, ValidatingHasArtifact, contentVars
  <2> QED
    BY <1>12, <1>a, <2>1, SafeOutsideRelease, ReleasesKept DEF FactFeedback
<1>13. ASSUME NEW source \in history, Restore(source) PROVE Safe'
  <2>1. resume_state' # "VALIDATING"
    BY <1>13, NullStateAssumption DEF Restore, ProjectState
  <2>2. OutsideRelease' /\ ValidatingHasArtifact'
    BY <1>13, <2>1
    DEF Restore, RestoredState, OutsideRelease, ValidatingHasArtifact
  <2> QED
    BY <1>13, <1>a, <2>2, SafeOutsideRelease, ReleasesKept DEF Restore
<1>14. ASSUME UNCHANGED projectVars PROVE Safe'
  BY <1>14
  DEF projectVars, contentVars, approvalVars, gateVars, releaseVars, Safe,
      CopiesAreSound, ExportGateHolds, ReadyIsAuthorized, ReleasesAreSound,
      DeliveredIsRecorded, ValidatingHasArtifact, VersionOf
<1>15. ASSUME NEW r \in Runs, Pause(r) PROVE Safe'
  BY <1>15
  DEF Pause, contentVars, approvalVars, gateVars, releaseVars, Safe,
      CopiesAreSound, ExportGateHolds, ReadyIsAuthorized, ReleasesAreSound,
      DeliveredIsRecorded, ValidatingHasArtifact, VersionOf
<1>16. ASSUME NEW r \in Runs, Cancel(r) PROVE Safe'
  <2>1. OutsideRelease' /\ ValidatingHasArtifact'
    BY <1>16, <1>a
    DEF Cancel, MoveTo, OutsideRelease, ValidatingHasArtifact, contentVars
  <2> QED
    BY <1>16, <1>a, <2>1, SafeOutsideRelease, ReleasesKept DEF Cancel
<1>17. ASSUME NEW r \in Runs, NEW explicit \in BOOLEAN, Resume(r, explicit)
       PROVE Safe'
  <2>1. resume_state' # "VALIDATING"
    BY <1>17, NullStateAssumption DEF Resume, ProjectState
  <2>2. CASE state = "NEEDS_INPUT" /\ resume_state # NULL
    <3>1. state' = resume_state /\ MayMove("NEEDS_INPUT", resume_state)
      BY <1>17, <2>2 DEF Resume, MoveTo
    <3>2. OutsideRelease'
      BY <3>1, AfterInputOutsideRelease DEF OutsideRelease
    <3>3. ValidatingHasArtifact'
      BY <1>17, <1>a, <2>1, <3>1 DEF Resume, ValidatingHasArtifact, contentVars
    <3> QED
      BY <1>17, <1>a, <3>2, <3>3, SafeOutsideRelease, ReleasesKept DEF Resume
  <2>3. CASE ~(state = "NEEDS_INPUT" /\ resume_state # NULL)
    BY <1>17, <2>1, <2>3
    DEF Resume, contentVars, approvalVars, gateVars, releaseVars, Safe,
        CopiesAreSound, ExportGateHolds, ReadyIsAuthorized, ReleasesAreSound,
        DeliveredIsRecorded, ValidatingHasArtifact, VersionOf
  <2> QED
    BY <2>2, <2>3
<1>18. ASSUME NEW r \in Runs, Reconcile(r) PROVE Safe'
  <2>1. CASE run[r] \in ReconcileTarget /\ state # run[r]
    <3>1. OutsideRelease'
      BY <1>18, <2>1 DEF Reconcile, MoveTo, ReconcileTarget, OutsideRelease
    <3>2. ValidatingHasArtifact'
      BY <1>18, <1>a, <2>1, NullStateAssumption
      DEF Reconcile, MoveTo, ReconcileTarget, ValidatingHasArtifact,
          contentVars, ProjectState
    <3> QED
      BY <1>18, <1>a, <3>1, <3>2, SafeOutsideRelease, ReleasesKept DEF Reconcile
  <2>2. CASE ~(run[r] \in ReconcileTarget /\ state # run[r])
    BY <1>18, <2>2
    DEF Reconcile, contentVars, approvalVars, gateVars, releaseVars, Safe,
        CopiesAreSound, ExportGateHolds, ReadyIsAuthorized, ReleasesAreSound,
        DeliveredIsRecorded, ValidatingHasArtifact, VersionOf
  <2> QED
    BY <2>1, <2>2
<1>19. CASE ReadForDelivery
  <2>1. state = "READY_TO_DELIVER" /\ UNCHANGED state
    BY <1>19 DEF ReadForDelivery, MayExport
  <2>2. CopiesAreSound'
    BY <1>19, <1>a, <2>1 DEF ReadForDelivery, CopiesAreSound, ExportGateHolds
  <2> QED
    BY <1>19, <1>a, <2>2
    DEF ReadForDelivery, Safe, ExportGateHolds, ReadyIsAuthorized,
        ReleasesAreSound, DeliveredIsRecorded, ValidatingHasArtifact,
        VersionOf, contentVars, approvalVars, gateVars
<1> QED
  BY <1>1, <1>2, <1>3, <1>4, <1>5, <1>6, <1>7, <1>8, <1>9, <1>10, <1>11,
     <1>12, <1>13, <1>14, <1>15, <1>16, <1>17, <1>18, <1>19
  DEF Next, SavedCommand, Advance, TakeBack,
      Aside, vars, StartRun, WorkerReports, WorkerResumes,
      CancelUncommitted, ResumeUncommitted

LEMMA InitSafe == Init => Safe
  BY NullStateAssumption
  DEF Init, Safe, CopiesAreSound, ExportGateHolds, ReadyIsAuthorized,
      ReleasesAreSound, DeliveredIsRecorded, ValidatingHasArtifact,
      ProjectState

\* The safety invariants hold in every reachable state.
THEOREM SafetyHolds == Spec => []Safe
<1>1. Init => TypeOK /\ Safe
  BY InitTypes, InitSafe
<1>2. TypeOK /\ Safe /\ [Next]_vars => (TypeOK /\ Safe)'
  BY StepTypes, StepSafe
<1> QED
  BY <1>1, <1>2, PTL DEF Spec

\* The quality gate: see ExportGateHolds.
THEOREM ExportGateCorrect == Spec => []ExportGateHolds
<1>1. Safe => ExportGateHolds
  BY DEF Safe
<1> QED
  BY <1>1, SafetyHolds, PTL

\* A project that is ready to deliver is approved as it is: see
\* ReadyIsAuthorized.
THEOREM AuthorizationCorrect == Spec => []ReadyIsAuthorized
<1>1. Safe => ReadyIsAuthorized
  BY DEF Safe
<1> QED
  BY <1>1, SafetyHolds, PTL

\* What has been released: see ReleasesAreSound.
THEOREM ReleasesCorrect == Spec => []ReleasesAreSound
<1>1. Safe => ReleasesAreSound
  BY DEF Safe
<1> QED
  BY <1>1, SafetyHolds, PTL

\* A delivered project can show its delivery: see DeliveredIsRecorded.
THEOREM DeliveredCorrect == Spec => []DeliveredIsRecorded
<1>1. Safe => DeliveredIsRecorded
  BY DEF Safe
<1> QED
  BY <1>1, SafetyHolds, PTL

\* Validation always has its subject: see ValidatingHasArtifact.
THEOREM ValidatingCorrect == Spec => []ValidatingHasArtifact
<1>1. Safe => ValidatingHasArtifact
  BY DEF Safe
<1> QED
  BY <1>1, SafetyHolds, PTL

----------------------------------------------------------------------------
(* Ended projects *)

\* The transition table has no way out of a terminal state.
LEMMA NoWayOut ==
  ASSUME NEW from \in Terminal, NEW to, MayMove(from, to)
  PROVE  to = from
  BY DEF MayMove, AllowedTransitions, AfterInput, Terminal

\* An ended project only moves by a restore: see EndedStaysEnded.
THEOREM EndedCorrect == Spec => EndedStaysEnded
<1> DEFINE A == (state \in Terminal /\ state' # state) =>
                  /\ directionApprovals' = {} /\ exportApprovals' = {}
                  /\ quality' = NULL /\ resume_state' = NULL
<1>1. ASSUME [Next]_vars PROVE [A]_vars
  <2> SUFFICES ASSUME Next, state \in Terminal, state' # state
               PROVE \E source \in history : Restore(source)
    BY <1>1 DEF Restore
  <2>1. /\ state \notin {"NEW", "NEEDS_INPUT", "READY_FOR_DESIGN",
                         "AWAITING_DIRECTION_APPROVAL", "PRODUCING",
                         "VALIDATING", "AWAITING_EXPORT_APPROVAL",
                         "READY_TO_DELIVER", "DELIVERED"}
    BY DEF Terminal
  <2>2. ~\E r \in Runs : Cancel(r) \/ Reconcile(r)
    BY NoWayOut DEF Cancel, Reconcile, MoveTo
  <2>3. ~\E r \in Runs, explicit \in BOOLEAN : Resume(r, explicit)
    BY DEF Resume, MayResume
  <2> QED
    BY <2>1, <2>2, <2>3
    DEF Next, SavedCommand, Advance, TakeBack, Aside, Prepare, GenerateCandidates,
        ApproveDirection, Produce, Validate, ApproveExport, Deliver,
        ExportRejected, DeliverUncommitted, MayExport,
        DirectionFeedback, ArtifactFeedback, FactFeedback, StartRun,
        WorkerReports, WorkerResumes, Pause, CancelUncommitted, ResumeUncommitted,
        ReadForDelivery, projectVars
<1> QED
  BY <1>1, PTL DEF Spec, EndedStaysEnded

----------------------------------------------------------------------------
(* The commands implement the release protocol. *)

Subject == IF artifact = NULL THEN NULL ELSE artifact.content
Released == {b.content : b \in effects}
Cleared == {a.content : a \in copies}

\* A command that ends in drafting and releases nothing is a step Draft.
LEMMA DraftStep ==
  ASSUME TypeOK', OutsideRelease', UNCHANGED <<effects, copies>>
  PROVE  Protocol!Draft
<1>1. ReleasePhase' = "drafting"
  BY DEF OutsideRelease, ReleasePhase
<1>2. Subject' \in Content \cup {NULL}
  BY DEF TypeOK, Subject, Artifact
<1> QED
  BY <1>1, <1>2 DEF Protocol!Draft, Subject

\* A command that leaves the state, the artifact and the ledger alone is a
\* stuttering step of the protocol.
LEMMA StutterStep ==
  ASSUME UNCHANGED <<state, artifact, effects, copies>>
  PROVE  UNCHANGED Protocol!rpVars
  BY DEF Protocol!rpVars, ReleasePhase

LEMMA StepImplements ==
  TypeOK /\ Safe /\ [Next]_vars => [Protocol!RPNext]_(Protocol!rpVars)
<1> SUFFICES ASSUME TypeOK, Safe, [Next]_vars
             PROVE  Protocol!RPNext \/ UNCHANGED Protocol!rpVars
  OBVIOUS
<1>a. TypeOK'
  BY StepTypes
<1>d. OutsideRelease' /\ UNCHANGED <<effects, copies>> => Protocol!RPNext
  BY <1>a, DraftStep DEF Protocol!RPNext
<1>s. UNCHANGED <<state, artifact, effects, copies>> => UNCHANGED Protocol!rpVars
  BY StutterStep
<1>1. ASSUME NEW input \in Inputs, Prepare(input) PROVE Protocol!RPNext
  BY <1>1, <1>d DEF Prepare, MoveVia, OutsideRelease, releaseVars
<1>2. CASE GenerateCandidates
  BY <1>2, <1>d DEF GenerateCandidates, MoveVia, OutsideRelease, releaseVars
<1>3. ASSUME NEW c \in CandidateId, ApproveDirection(c) PROVE Protocol!RPNext
  BY <1>3, <1>d DEF ApproveDirection, MoveTo, OutsideRelease, releaseVars
<1>4. CASE Produce
  BY <1>4, <1>d DEF Produce, MoveTo, OutsideRelease, releaseVars
<1>5. CASE Validate
  <2>1. CASE Broken(artifact.content)
    BY <1>5, <1>d, <2>1 DEF Validate, MoveTo, OutsideRelease, releaseVars
  <2>2. CASE ~Broken(artifact.content)
    <3>1. ReleasePhase = "drafting" /\ ReleasePhase' = "assessed"
      BY <1>5, <2>2 DEF Validate, MoveTo, ReleasePhase
    <3>2. Subject \in {content \in Content : ~Broken(content)}
      BY <1>5, <2>2 DEF TypeOK, Validate, Subject, Artifact
    <3> QED
      BY <1>5, <3>1, <3>2
      DEF Validate, contentVars, releaseVars, Protocol!Assess, Protocol!RPNext,
          Subject
  <2> QED
    BY <2>1, <2>2
<1>6. CASE ApproveExport
  <2>1. ReleasePhase = "assessed" /\ ReleasePhase' = "approved"
    BY <1>6 DEF ApproveExport, MoveTo, ReleasePhase
  <2> QED
    BY <1>6, <2>1
    DEF ApproveExport, contentVars, releaseVars, Protocol!Approve,
        Protocol!RPNext
<1>7. ASSUME NEW profile \in Profiles, Deliver(profile) PROVE Protocol!RPNext
  <2>1. PICK bundle \in ReleaseOf(artifact, profile) :
             effects' = effects \cup {bundle}
    BY <1>7 DEF Deliver
  <2>2. ReleasePhase = "approved" /\ ReleasePhase' = "released"
    BY <1>7 DEF Deliver, MayExport, MoveVia, ReleasePhase
  <2>3. artifact' = artifact /\ artifact # NULL /\ copies' = copies
    BY <1>7 DEF Deliver, MayExport, contentVars
  <2>4. CASE bundle \in effects
    BY <2>1, <2>2, <2>3, <2>4 DEF Protocol!Reissue, Protocol!RPNext
  <2>5. CASE bundle \notin effects
    <3>1. bundle.content = Subject
      BY <2>1, <2>3, <2>5 DEF ReleaseOf, Subject
    <3>2. Released' = Released \cup {Subject}
      BY <2>1, <3>1 DEF Released
    <3> QED
      BY <2>2, <2>3, <3>2
      DEF Protocol!Finish, Protocol!RPNext, Subject, Released
  <2> QED
    BY <2>4, <2>5
<1>8. ASSUME NEW profile \in Profiles, ExportRejected(profile)
      PROVE  Protocol!RPNext
  BY <1>8, <1>d DEF ExportRejected, MoveVia, OutsideRelease, releaseVars
<1>9. ASSUME NEW copy \in copies, NEW profile \in Profiles,
             DeliverUncommitted(copy, profile)
      PROVE  Protocol!RPNext \/ UNCHANGED Protocol!rpVars
  <2>1. PICK bundle \in ReleaseOf(copy, profile) :
             effects' = effects \cup {bundle}
    BY <1>9 DEF DeliverUncommitted
  <2>2. UNCHANGED <<state, artifact, copies>>
    BY <1>9 DEF DeliverUncommitted, contentVars
  <2>3. CASE bundle \in effects
    BY <1>s, <2>1, <2>2, <2>3
  <2>4. CASE bundle \notin effects
    <3>1. bundle.content = copy.content /\ copy.content \in Cleared
      BY <2>1, <2>4 DEF ReleaseOf, Cleared
    <3>2. Released' = Released \cup {copy.content}
      BY <2>1, <3>1 DEF Released
    <3>3. UNCHANGED <<ReleasePhase, Subject, Cleared>>
      BY <2>2 DEF ReleasePhase, Subject, Cleared
    <3> QED
      BY <3>1, <3>2, <3>3
      DEF Protocol!Release, Protocol!RPNext, Subject, Released, Cleared
  <2> QED
    BY <2>3, <2>4
<1>10. ASSUME NEW c \in CandidateId, NEW note \in Notes,
              DirectionFeedback(c, note)
       PROVE  Protocol!RPNext
  BY <1>10, <1>d DEF DirectionFeedback, MoveVia, OutsideRelease, releaseVars
<1>11. ASSUME NEW note \in Notes, ArtifactFeedback(note)
       PROVE  Protocol!RPNext
  BY <1>11, <1>d DEF ArtifactFeedback, MoveTo, OutsideRelease, releaseVars
<1>12. CASE FactFeedback
  BY <1>12, <1>d DEF FactFeedback, MoveTo, OutsideRelease, releaseVars
<1>13. ASSUME NEW source \in history, Restore(source) PROVE Protocol!RPNext
  BY <1>13, <1>d DEF Restore, RestoredState, OutsideRelease, releaseVars
<1>14. ASSUME UNCHANGED <<state, contentVars, releaseVars>>
       PROVE  UNCHANGED Protocol!rpVars
  BY <1>14, <1>s DEF contentVars, releaseVars
<1>15. ASSUME NEW r \in Runs, Cancel(r) PROVE Protocol!RPNext
  BY <1>15, <1>d DEF Cancel, MoveTo, OutsideRelease, releaseVars
<1>16. ASSUME NEW r \in Runs, NEW explicit \in BOOLEAN, Resume(r, explicit)
       PROVE  Protocol!RPNext \/ UNCHANGED Protocol!rpVars
  <2>1. CASE state = "NEEDS_INPUT" /\ resume_state # NULL
    BY <1>16, <1>d, <2>1, AfterInputOutsideRelease
    DEF Resume, MoveTo, OutsideRelease, releaseVars
  <2>2. CASE ~(state = "NEEDS_INPUT" /\ resume_state # NULL)
    BY <1>16, <1>s, <2>2 DEF Resume, contentVars, releaseVars
  <2> QED
    BY <2>1, <2>2
<1>17. ASSUME NEW r \in Runs, Reconcile(r)
       PROVE  Protocol!RPNext \/ UNCHANGED Protocol!rpVars
  <2>1. CASE run[r] \in ReconcileTarget /\ state # run[r]
    BY <1>17, <1>d, <2>1
    DEF Reconcile, MoveTo, ReconcileTarget, OutsideRelease, releaseVars
  <2>2. CASE ~(run[r] \in ReconcileTarget /\ state # run[r])
    BY <1>17, <1>s, <2>2 DEF Reconcile, contentVars, releaseVars
  <2> QED
    BY <2>1, <2>2
<1>18. CASE ReadForDelivery
  <2>1. ReleasePhase = "approved" /\ UNCHANGED <<ReleasePhase, Subject, Released>>
    BY <1>18
    DEF ReadForDelivery, MayExport, ReleasePhase, Subject, Released, contentVars
  <2>2. Cleared' = Cleared \cup {Subject}
    BY <1>18 DEF ReadForDelivery, MayExport, Cleared, Subject
  <2> QED
    BY <2>1, <2>2
    DEF Protocol!PickUp, Protocol!RPNext, Subject, Released, Cleared
<1> QED
  BY <1>1, <1>2, <1>3, <1>4, <1>5, <1>6, <1>7, <1>8, <1>9, <1>10, <1>11,
     <1>12, <1>13, <1>14, <1>15, <1>16, <1>17, <1>18
  DEF Next, SavedCommand, Advance, TakeBack,
      Aside, vars, projectVars, StartRun, WorkerReports,
      WorkerResumes, Pause, CancelUncommitted, ResumeUncommitted

\* Every behaviour of the commands is one of the release protocol: content is
\* handed out only after it was assessed and approved as it is, and taken for
\* release while it was.
THEOREM ProtocolImplemented == Spec => ImplementsReleaseProtocol
<1>1. Init => Protocol!RPInit
  BY DEF Init, Protocol!RPInit, ReleasePhase
<1>2. Init => TypeOK /\ Safe
  BY InitTypes, InitSafe
<1>3. TypeOK /\ Safe /\ [Next]_vars => (TypeOK /\ Safe)'
  BY StepTypes, StepSafe
<1>4. TypeOK /\ Safe /\ [Next]_vars => [Protocol!RPNext]_(Protocol!rpVars)
  BY StepImplements
<1> QED
  BY <1>1, <1>2, <1>3, <1>4, PTL
  DEF Spec, ImplementsReleaseProtocol, Protocol!RPSpec

\* What is left of the promise when a release may come late: whatever follows
\* the protocol hands out nothing that has not passed the gate.
THEOREM ProtocolIsSound == Protocol!RPSpec => []Protocol!OnlySoundIsReleased
<1> DEFINE Sound == {content \in Content : ~Broken(content)}
           I == /\ ReleasePhase \in {"assessed", "approved"} => Subject \in Sound
                /\ Cleared \subseteq Sound
                /\ Released \subseteq Sound
<1>1. Protocol!RPInit => I
  BY DEF Protocol!RPInit, Subject, Cleared, Released
<1>2. ASSUME I, [Protocol!RPNext]_(Protocol!rpVars) PROVE I'
  <2>1. CASE Protocol!Draft
    BY <1>2, <2>1 DEF Protocol!Draft, Subject, Cleared, Released
  <2>2. CASE Protocol!Assess
    BY <1>2, <2>2 DEF Protocol!Assess, Subject, Cleared, Released
  <2>3. CASE Protocol!Approve
    BY <1>2, <2>3 DEF Protocol!Approve, Subject, Cleared, Released
  <2>4. CASE Protocol!PickUp
    BY <1>2, <2>4 DEF Protocol!PickUp, Subject, Cleared, Released
  <2>5. CASE Protocol!Release
    BY <1>2, <2>5 DEF Protocol!Release, Subject, Cleared, Released
  <2>6. CASE Protocol!Finish
    BY <1>2, <2>6 DEF Protocol!Finish, Subject, Cleared, Released
  <2>7. CASE Protocol!Reissue
    BY <1>2, <2>7 DEF Protocol!Reissue, Subject, Cleared, Released
  <2>8. CASE UNCHANGED Protocol!rpVars
    BY <1>2, <2>8 DEF Protocol!rpVars, Subject, Cleared, Released
  <2> QED
    BY <1>2, <2>1, <2>2, <2>3, <2>4, <2>5, <2>6, <2>7, <2>8
    DEF Protocol!RPNext
<1>3. I => Protocol!OnlySoundIsReleased
  BY DEF Protocol!OnlySoundIsReleased, Released
<1> QED
  BY <1>1, <1>2, <1>3, PTL DEF Protocol!RPSpec

----------------------------------------------------------------------------
(* The commands keep the promise of the side-effect ledger. *)

\* What a key of the ledger stands for, when every key has one bundle.
LEMMA SettledIs ==
  ASSUME NEW target, NEW profile, ReleasesAreSound,
         NEW b \in effects, b.target = target, b.profile = profile
  PROVE  SettledUnder(target, profile) = b
<1>1. b \in Under(effects, target, profile)
  BY DEF Under
<1>2. \A c \in Under(effects, target, profile) : c = b
  BY DEF Under, ReleasesAreSound
<1> QED
  BY <1>1, <1>2 DEF SettledUnder, OneOf

\* Whether a release adds its bundle to the ledger or finds it there, the key
\* is settled on it afterwards; other keys are left alone.
LEMMA ReleaseSettles ==
  ASSUME NEW target, NEW profile, ReleasesAreSound, ReleasesAreSound',
         NEW a, NEW p, NEW bundle \in ReleaseOf(a, p),
         effects' = effects \cup {bundle}
  PROVE  \/ /\ bundle.target = target /\ bundle.profile = profile
            /\ SettledUnder(target, profile)' = bundle
            /\ SettledUnder(target, profile) \in {NULL, bundle}
         \/ /\ ~(bundle.target = target /\ bundle.profile = profile)
            /\ SettledUnder(target, profile)' = SettledUnder(target, profile)
<1>1. CASE bundle.target = target /\ bundle.profile = profile
  <2>1. SettledUnder(target, profile)' = bundle
    <3>1. bundle \in Under(effects, target, profile)'
      BY <1>1 DEF Under
    <3>2. \A c \in Under(effects, target, profile)' : c = bundle
      BY <1>1 DEF Under, ReleasesAreSound
    <3> QED
      BY <3>1, <3>2 DEF SettledUnder, OneOf
  <2>2. CASE bundle \in effects
    BY <1>1, <2>1, <2>2, SettledIs
  <2>3. CASE bundle \notin effects
    <3>1. \A b \in effects : ~(b.target = VersionOf(a) /\ b.profile = p)
      BY <2>3 DEF ReleaseOf
    <3>2. bundle.target = VersionOf(a) /\ bundle.profile = p
      BY <2>3 DEF ReleaseOf
    <3>3. Under(effects, target, profile) = {}
      BY <1>1, <3>1, <3>2 DEF Under
    <3> QED
      BY <1>1, <2>1, <3>3 DEF SettledUnder, OneOf
  <2> QED
    BY <2>2, <2>3
<1>2. CASE ~(bundle.target = target /\ bundle.profile = profile)
  <2>1. Under(effects', target, profile) = Under(effects, target, profile)
    BY <1>2 DEF Under
  <2> QED
    BY <1>2, <2>1 DEF SettledUnder
<1> QED
  BY <1>1, <1>2

LEMMA EffectStep ==
  ASSUME NEW target, NEW profile
  PROVE  TypeOK /\ Safe /\ [Next]_vars
         => [Effect(target, profile)!EPNext]_(Effect(target, profile)!epVars)
<1> SUFFICES ASSUME TypeOK, Safe, [Next]_vars
             PROVE  \/ Effect(target, profile)!EPNext
                    \/ UNCHANGED Effect(target, profile)!epVars
  OBVIOUS
<1> DEFINE settled == SettledUnder(target, profile)
           told == Under(deliveries, target, profile)
<1>a. ReleasesAreSound /\ ReleasesAreSound'
  BY StepSafe DEF Safe
<1>1. ASSUME NEW p \in Profiles, Deliver(p)
      PROVE  \/ Effect(target, profile)!EPNext
             \/ UNCHANGED Effect(target, profile)!epVars
  <2>1. PICK bundle \in ReleaseOf(artifact, p) :
             /\ effects' = effects \cup {bundle}
             /\ deliveries' = deliveries \cup {bundle}
    BY <1>1 DEF Deliver
  <2>2. bundle \in Bundle /\ bundle # NULL
    <3>1. artifact \in Artifact
      BY <1>1 DEF TypeOK, Deliver, MayExport
    <3> QED
      BY <2>1, <3>1, ReleaseTypes, NullAssumption
  <2>3. CASE bundle.target = target /\ bundle.profile = profile
    <3>1. settled' = bundle /\ settled \in {NULL, bundle}
      BY <1>a, <2>1, <2>3, ReleaseSettles
    <3>2. told' = told \cup {bundle}
      BY <2>1, <2>3 DEF Under
    <3> HIDE DEF settled, told
    <3>3. \/ /\ settled = NULL /\ settled' = bundle
             /\ told' = told \cup {bundle}
          \/ /\ settled # NULL /\ settled' = settled
             /\ told' = told \cup {settled}
      BY <2>2, <3>1, <3>2
    <3> USE DEF settled, told
    <3> QED
      BY <2>2, <3>3
      DEF Effect!EPNext, Effect!Tell, Effect!SettleAndTell
  <2>4. CASE ~(bundle.target = target /\ bundle.profile = profile)
    <3>1. settled' = settled
      BY <1>a, <2>1, <2>4, ReleaseSettles
    <3>2. told' = told
      BY <2>1, <2>4 DEF Under
    <3> QED
      BY <3>1, <3>2 DEF Effect!epVars
  <2> QED
    BY <2>3, <2>4
<1>2. ASSUME NEW copy \in copies, NEW p \in Profiles,
             DeliverUncommitted(copy, p)
      PROVE  \/ Effect(target, profile)!EPNext
             \/ UNCHANGED Effect(target, profile)!epVars
  <2>1. PICK bundle \in ReleaseOf(copy, p) : effects' = effects \cup {bundle}
    BY <1>2 DEF DeliverUncommitted
  <2>2. bundle \in Bundle
    BY <2>1, ReleaseTypes DEF TypeOK
  <2>3. told' = told
    BY <1>2 DEF DeliverUncommitted
  <2>4. settled' = settled \/ (settled = NULL /\ settled' = bundle)
    BY <1>a, <2>1, ReleaseSettles
  <2> QED
    BY <2>2, <2>3, <2>4 DEF Effect!EPNext, Effect!Settle, Effect!epVars
<1>3. UNCHANGED <<deliveries, effects>> => UNCHANGED <<settled, told>>
  BY DEF SettledUnder
<1>4. UNCHANGED <<deliveries, effects>>
      => UNCHANGED Effect(target, profile)!epVars
  BY <1>3 DEF Effect!epVars
<1> QED
  BY <1>1, <1>2, <1>4
  DEF Next, SavedCommand, Advance, TakeBack,
      Aside, vars, projectVars, releaseVars, Prepare,
      GenerateCandidates, ApproveDirection, Produce, Validate, ApproveExport,
      ReadForDelivery, ExportRejected, DirectionFeedback, ArtifactFeedback,
      FactFeedback, Restore, StartRun, WorkerReports, WorkerResumes, Pause,
      Cancel, Resume, CancelUncommitted, ResumeUncommitted, Reconcile

\* Project Control asks of the side-effect ledger what DeliveryLedger is proved
\* to give (PromiseImplemented): under every key, one bundle for ever, and
\* no other one shown to anybody.
THEOREM EffectPromiseKept ==
  ASSUME NEW target, NEW profile
  PROVE  Spec => KeepsEffectPromise(target, profile)
<1>1. Init => Effect(target, profile)!EPInit
  BY DEF Init, Effect!EPInit, SettledUnder, OneOf, Under
<1>2. Init => TypeOK /\ Safe
  BY InitTypes, InitSafe
<1>3. TypeOK /\ Safe /\ [Next]_vars => (TypeOK /\ Safe)'
  BY StepTypes, StepSafe
<1>4. TypeOK /\ Safe /\ [Next]_vars
      => [Effect(target, profile)!EPNext]_(Effect(target, profile)!epVars)
  BY EffectStep
<1> QED
  BY <1>1, <1>2, <1>3, <1>4, PTL DEF Spec, KeepsEffectPromise, Effect!EPSpec

----------------------------------------------------------------------------
(* The product shell *)

shellState == <<vars, shellVars>>

Past == [state : ProjectState,
         candidates : [CandidateId -> Candidate \cup {NULL}],
         direction : Direction \cup {NULL},
         artifact : Artifact \cup {NULL}]

\* What goes on from the project's state, delivered or not.
Forward == Advance \/ \E profile \in Profiles : Deliver(profile)

LEMMA ForwardIsControl == Forward => Next
  BY DEF Forward, Next, SavedCommand

\* A command of the shell is a command of the control plane that takes nothing
\* back.
LEMMA CommandIsForward ==
  ASSUME NEW action, NEW target, Command(action, target)
  PROVE  Forward
<1>1. CASE \/ GenerateCandidates \/ Produce \/ Validate \/ ApproveExport
           \/ FactFeedback
  BY <1>1 DEF Forward, Advance
<1>2. ASSUME NEW c \in CandidatesOf(Projection), ApproveDirection(c)
      PROVE  Forward
  BY <1>2 DEF Forward, Advance, CandidatesOf
<1>3. ASSUME NEW c \in CandidatesOf(Projection), NEW note \in Notes,
             DirectionFeedback(c, note)
      PROVE  Forward
  BY <1>3 DEF Forward, Advance, CandidatesOf
<1>4. ASSUME NEW note \in Notes, ArtifactFeedback(note)
      PROVE  Forward
  BY <1>4 DEF Forward, Advance
<1>5. ASSUME NEW profile \in Profiles,
             Deliver(profile) \/ ExportRejected(profile)
      PROVE  Forward
  BY <1>5 DEF Forward, Advance
<1> QED
  BY <1>1, <1>2, <1>3, <1>4, <1>5 DEF Command

\* A delivery under way shows nothing of itself on the project.
LEMMA DeliveryIsControl ==
  ASSUME DeliveryUnderWay
  PROVE  Next /\ UNCHANGED <<state, contentVars, shellVars>>
<1>1. CASE ReadForDelivery
  BY <1>1 DEF DeliveryUnderWay, Next, SavedCommand, Advance, TakeBack,
      Aside, ReadForDelivery
<1>2. ASSUME NEW copy \in copies, NEW profile \in Profiles,
             DeliverUncommitted(copy, profile)
      PROVE  Next /\ UNCHANGED <<state, contentVars>>
  BY <1>2 DEF Next, SavedCommand, Advance, TakeBack, Aside, DeliverUncommitted
<1> QED
  BY <1>1, <1>2 DEF DeliveryUnderWay

\* What runs do beside the commands shows nothing of itself on it either.
LEMMA RunsAreControl ==
  ASSUME RunsGoOn
  PROVE  Next /\ UNCHANGED <<projectVars, shellVars>>
<1>1. Aside /\ UNCHANGED shellVars
  BY DEF RunsGoOn
<1>2. Next
  BY <1>1 DEF Next
<1>3. UNCHANGED projectVars
  BY <1>1
  DEF Aside, StartRun, WorkerReports, WorkerResumes, CancelUncommitted,
      ResumeUncommitted
<1> QED
  BY <1>1, <1>2, <1>3

\* The steps that leave the control plane alone.
LEMMA PageAndServerSteps ==
  ASSUME \/ \E s \in Slots : PageStep(s) \/ Lose(s)
         \/ \E s \in Slots : ServerStep(s) /\ ~PrepareDemo(s) /\ ~Execute(s)
         \/ \E c \in CandidateId : PickCandidate(c)
         \/ Poll
  PROVE  UNCHANGED <<vars, serverVars>>
<1>1. ASSUME NEW s \in Slots, PageStep(s) \/ Lose(s)
      PROVE  UNCHANGED <<vars, serverVars>>
  BY <1>1 DEF PageStep, SubmitCreation, OpenProject, Click, ReceiveReply,
              ReceiveProject, ReceiveEvents, Lose
<1>2. ASSUME NEW s \in Slots, ServerStep(s), ~PrepareDemo(s), ~Execute(s)
      PROVE  UNCHANGED <<vars, serverVars>>
  BY <1>2 DEF ServerStep, CreateProject, InspectProject, AnswerCreation,
              BindTarget, AnswerCommand, Refuse, AnswerProject
<1>3. ASSUME NEW c \in CandidateId, PickCandidate(c)
      PROVE  UNCHANGED <<vars, serverVars>>
  BY <1>3 DEF PickCandidate
<1>4. CASE Poll
  BY <1>4 DEF Poll
<1> QED
  BY <1>1, <1>2, <1>3, <1>4

\* So is every step of the shell.
LEMMA ShellStepIsControl ==
  ASSUME [ShellNext]_shellState
  PROVE  [Next]_vars
<1>1. ASSUME \/ \E s \in Slots : PageStep(s) \/ Lose(s)
             \/ \E s \in Slots : ServerStep(s) /\ ~PrepareDemo(s) /\ ~Execute(s)
             \/ \E c \in CandidateId : PickCandidate(c)
             \/ Poll
      PROVE  UNCHANGED vars
  BY <1>1, PageAndServerSteps
<1>2. ASSUME NEW s \in Slots, PrepareDemo(s)
      PROVE  [Next]_vars
  BY <1>2 DEF PrepareDemo, Next, SavedCommand, Advance
<1>3. ASSUME NEW s \in Slots, Execute(s)
      PROVE  Next
  BY <1>3, CommandIsForward, ForwardIsControl DEF Execute
<1>4. ASSUME Elsewhere PROVE Next
  BY <1>4 DEF Elsewhere, Next, SavedCommand
<1>5. ASSUME RunsGoOn PROVE Next
  BY <1>5, RunsAreControl
<1>6. ASSUME DeliveryUnderWay PROVE Next
  BY <1>6, DeliveryIsControl
<1>7. UNCHANGED shellState => UNCHANGED vars
  BY DEF shellState
<1> QED
  BY <1>1, <1>2, <1>3, <1>4, <1>5, <1>6, <1>7 DEF ShellNext

\* The shell over the control plane is the control plane: whatever pages,
\* retries and other clients do through it, the project goes through steps
\* that Project Control takes by itself.
THEOREM ShellImplementsControl == ShellSpec => Spec
<1>1. ShellInit => Init
  BY DEF ShellInit
<1>2. [ShellNext]_shellState => [Next]_vars
  BY ShellStepIsControl
<1> QED
  BY <1>1, <1>2, PTL DEF ShellSpec, Spec, shellState

\* So nothing that has not passed the gate leaves through the shell either,
\* however late a delivery that is under way.
THEOREM ShellIsSafe == ShellSpec => [](TypeOK /\ Safe)
  BY ShellImplementsControl, TypeCorrect, SafetyHolds, PTL

\* What is certain of a request when there are n revisions: everything but a
\* creation is about a project that exists, and so is every answer to it.
Informed(t, n) ==
  /\ t \in [at : Places, action : Actions \cup {NULL}, expected : Nat,
            target : Target, view : 0 .. n]
  /\ t.at # "create" => n > 0
  /\ t.at \in {"reply", "loaded"} => t.view > 0

TasksAreInformed ==
  /\ DOMAIN tasks = Slots /\ tasks = [s \in Slots |-> tasks[s]]
  /\ \A s \in Slots : tasks[s] # NULL => Informed(tasks[s], Revision)

\* A page that was drawn from a project holds a project.
PageIsInformed == shown > 0 => known > 0

ShellTypes == ShellTypeOK /\ TasksAreInformed /\ PageIsInformed

\* The first of some candidates is one of them: they are numbered.
LEMMA FirstExists ==
  ASSUME NEW S \in SUBSET CandidateId, S # {}
  PROVE  First(S) \in S
<1> DEFINE Numbers == {c[2] : c \in S}
<1>1. Numbers \subseteq Nat /\ Numbers # {}
  BY BoundsAssumption DEF CandidateId
<1>2. PICK least \in Numbers : \A n \in Numbers : ~(<<n, least>> \in OpToRel(<, Nat))
  BY <1>1, NatLessThanWellFounded, WFMin
<1>3. \A n \in Numbers : ~(n < least)
  BY <1>1, <1>2 DEF OpToRel
<1>4. PICK c \in S : c[2] = least
  BY <1>2
<1>5. ASSUME NEW d \in S PROVE c[2] <= d[2]
  <2>1. d[2] \in Nat /\ c[2] \in Nat /\ d[2] \in Numbers
    BY <1>1
  <2> HIDE DEF Numbers
  <2> QED
    BY <2>1, <1>3, <1>4
<1> QED
  BY <1>4, <1>5 DEF First

\* What the page and the server name as a target is a version.
LEMMA TargetTypes ==
  ASSUME NEW p \in Past
  PROVE  /\ \A c \in CandidatesOf(p) : CandidateTarget(p, c) \in Target
         /\ ArtifactTarget(p) \in Target
         /\ CandidateTarget(p, Selected(p)) \in Target
<1>1. ASSUME NEW c \in CandidatesOf(p) PROVE CandidateTarget(p, c) \in Target
  <2>1. c \in CandidateId /\ p.candidates[c] \in Candidate
    BY DEF CandidatesOf, Past
  <2> QED
    BY <2>1 DEF CandidateTarget, Target, Candidate, CandidateVersion
<1>2. ArtifactTarget(p) \in Target
  BY DEF ArtifactTarget, Target, Past, VersionOf, Artifact, ArtifactVersion
<1>3. CandidatesOf(p) # {} => First(CandidatesOf(p)) \in CandidatesOf(p)
  BY FirstExists DEF CandidatesOf
<1>4. Selected(p) \in CandidatesOf(p) \cup {NULL}
  BY <1>3 DEF Selected
<1>5. CandidateTarget(p, NULL) \in Target
  BY DEF CandidateTarget, Target
<1> QED
  BY <1>1, <1>2, <1>4, <1>5

\* The timeline grows by the project as it is, or stays as it is with it.
LEMMA TimelineTypes ==
  ASSUME ShellTypeOK, TypeOK',
         Record \/ UNCHANGED <<state, contentVars, timeline>>
  PROVE  /\ timeline' \in Seq(Past)
         /\ Revision' > 0 => timeline'[Revision'] = Projection'
         /\ Revision \in Nat /\ Revision' \in Nat /\ Revision <= Revision'
         /\ Record => Revision' > 0
<1>1. timeline \in Seq(Past)
  BY DEF ShellTypeOK, Past
<1>2. CASE Record
  <2>1. Projection' \in Past
    BY DEF TypeOK, Projection, Past
  <2>2. timeline' = Append(timeline, Projection')
    BY <1>2 DEF Record
  <2> QED
    BY <1>1, <2>1, <2>2 DEF Revision
<1>3. CASE UNCHANGED <<state, contentVars, timeline>> /\ ~Record
  <2>1. Projection' = Projection
    BY <1>3 DEF contentVars, Projection
  <2> QED
    BY <1>1, <1>3, <2>1 DEF ShellTypeOK, Revision
<1> QED
  BY <1>2, <1>3

\* One request changes; the others stay informed as revisions are added.
LEMMA TaskStep ==
  ASSUME TasksAreInformed, Revision \in Nat, Revision' \in Nat,
         Revision <= Revision', NEW s \in Slots, NEW t,
         tasks' = [tasks EXCEPT ![s] = t], t # NULL => Informed(t, Revision')
  PROVE  TasksAreInformed'
<1>1. \A r : Informed(r, Revision) => Informed(r, Revision')
  BY DEF Informed
<1>2. \A u \in Slots : tasks'[u] # NULL => Informed(tasks'[u], Revision')
  BY <1>1 DEF TasksAreInformed
<1>3. DOMAIN tasks' = Slots /\ tasks' = [u \in Slots |-> tasks'[u]]
  BY DEF TasksAreInformed
<1> QED
  BY <1>2, <1>3 DEF TasksAreInformed

LEMMA TasksStay ==
  ASSUME TasksAreInformed, Revision \in Nat, Revision' \in Nat,
         Revision <= Revision', UNCHANGED tasks
  PROVE  TasksAreInformed'
<1>1. \A r : Informed(r, Revision) => Informed(r, Revision')
  BY DEF Informed
<1> QED
  BY <1>1 DEF TasksAreInformed

\* A request that goes on keeps what it carries.
LEMMA MoveStep ==
  ASSUME TasksAreInformed, Revision \in Nat, Revision' \in Nat,
         Revision <= Revision', NEW s \in Slots, tasks[s] # NULL,
         NEW at \in Places \ {"reply", "loaded"}, Move(s, at),
         at # "create" => Revision' > 0
  PROVE  TasksAreInformed'
<1> DEFINE t == [tasks[s] EXCEPT !.at = at]
<1>1. Informed(tasks[s], Revision)
  BY DEF TasksAreInformed
<1>2. Informed(t, Revision')
  BY <1>1 DEF Informed
<1>3. tasks' = [tasks EXCEPT ![s] = t]
  BY DEF Move
<1> HIDE DEF t
<1> QED
  BY <1>2, <1>3, TaskStep

\* An answer shows the project as it is.
LEMMA AnswerStep ==
  ASSUME TasksAreInformed, Revision \in Nat, Revision' = Revision, Revision > 0,
         NEW s \in Slots, tasks[s] # NULL, NEW at \in Places, Answer(s, at)
  PROVE  TasksAreInformed'
<1> DEFINE moved == [tasks[s] EXCEPT !.at = at]
           t == [moved EXCEPT !.view = Revision]
<1>1. Informed(tasks[s], Revision)
  BY DEF TasksAreInformed
<1>2. t \in [at : Places, action : Actions \cup {NULL}, expected : Nat,
             target : Target, view : 0 .. Revision]
  <2>1. moved \in [at : Places, action : Actions \cup {NULL}, expected : Nat,
                   target : Target, view : 0 .. Revision]
    BY <1>1 DEF Informed
  <2> HIDE DEF moved
  <2> QED
    BY <2>1
<1>3. t.view > 0
  BY <1>1 DEF Informed
<1>4. tasks' = [tasks EXCEPT ![s] = t]
  BY DEF Answer
<1> HIDE DEF t
<1>5. Informed(t, Revision') /\ Revision' \in Nat /\ Revision <= Revision'
  BY <1>2, <1>3 DEF Informed
<1> QED
  BY <1>4, <1>5, TaskStep

\* A new request is informed.
LEMMA BeginStep ==
  ASSUME ShellTypes, Revision \in Nat, Revision' = Revision,
         NEW s \in Slots, NEW at \in {"create", "load", "command"},
         NEW action \in Actions \cup {NULL}, NEW target \in Target,
         Begin(s, at, action, target), at # "create" => Revision > 0
  PROVE  TasksAreInformed' /\ requests' \in 0 .. MaxRequests
<1> DEFINE t == [at |-> at, action |-> action, expected |-> known,
                 target |-> target, view |-> 0]
<1>1. known \in Nat /\ shown \in Nat
  BY DEF ShellTypes, ShellTypeOK
<1>2. Informed(t, Revision')
  BY <1>1 DEF Informed, Places
<1>3. tasks' = [tasks EXCEPT ![s] = t]
  BY DEF Begin
<1>4. requests' \in 0 .. MaxRequests
  BY ShellBoundsAssumption DEF Begin, ShellTypes, ShellTypeOK
<1>5. Revision' \in Nat /\ Revision <= Revision' /\ TasksAreInformed
  BY DEF ShellTypes
<1> HIDE DEF t
<1>6. TasksAreInformed'
  BY <1>2, <1>3, <1>5, TaskStep
<1> QED
  BY <1>4, <1>6

\* What every step leaves of the parts of the invariant that are not the
\* project's.
LEMMA ShellParts ==
  ASSUME TypeOK', timeline' \in Seq(Past),
         Revision' > 0 => timeline'[Revision'] = Projection',
         known' \in 0 .. Revision', shown' \in 0 .. Revision',
         focus' \in CandidateId \cup {NULL}, requests' \in 0 .. MaxRequests,
         prepared' \in 0 .. Revision', returned' \in BOOLEAN,
         TasksAreInformed', shown' > 0 => known' > 0
  PROVE  ShellTypes'
<1>1. tasks' \in [Slots -> Task' \cup {NULL}]
  BY DEF TasksAreInformed, Informed, Task
<1> QED
  BY <1>1 DEF ShellTypes, ShellTypeOK, PageIsInformed, Past

LEMMA ShellStepTypes ==
  ShellTypes /\ [ShellNext]_shellState => ShellTypes'
<1> SUFFICES ASSUME ShellTypes, [ShellNext]_shellState PROVE ShellTypes'
  OBVIOUS
<1>a. TypeOK'
  BY ShellStepIsControl, StepTypes DEF ShellTypes, ShellTypeOK
<1>b. /\ \/ Record
         \/ UNCHANGED <<vars, timeline>>
         \/ UNCHANGED <<state, contentVars, timeline>>
         =>
           /\ timeline' \in Seq(Past)
           /\ Revision' > 0 => timeline'[Revision'] = Projection'
           /\ Revision \in Nat /\ Revision' \in Nat /\ Revision <= Revision'
      /\ Record => Revision' > 0
      /\ UNCHANGED timeline => Revision' = Revision
  BY <1>a, TimelineTypes DEF ShellTypes, Revision, vars, projectVars
<1>c. /\ known \in 0 .. Revision /\ shown \in 0 .. Revision
      /\ focus \in CandidateId \cup {NULL} /\ requests \in 0 .. MaxRequests
      /\ shown > 0 => known > 0
      /\ prepared \in 0 .. Revision /\ returned \in BOOLEAN
      /\ Revision \in Nat
      /\ TasksAreInformed
  BY DEF ShellTypes, ShellTypeOK, PageIsInformed, Revision
<1>d. \A s \in Slots : tasks[s] # NULL => Informed(tasks[s], Revision)
  BY <1>c DEF TasksAreInformed
<1>p. /\ \/ Record
         \/ UNCHANGED <<vars, timeline>>
         \/ UNCHANGED <<state, contentVars, timeline>>
      /\ UNCHANGED <<pageVars, requests>>
      /\ prepared' \in {prepared, Revision} /\ returned' \in BOOLEAN
      /\ TasksAreInformed'
      => ShellTypes'
  BY <1>a, <1>b, <1>c, ShellParts DEF pageVars
<1>s. UNCHANGED serverVars =>
        prepared' \in {prepared, Revision} /\ returned' \in BOOLEAN
  BY <1>c DEF serverVars
<1>1. ASSUME NEW s \in Slots, SubmitCreation(s) PROVE ShellTypes'
  <2>1. TasksAreInformed' /\ requests' \in 0 .. MaxRequests
    BY <1>1, <1>b, <1>c, BeginStep DEF SubmitCreation, Target
  <2> QED
    BY <1>1, <2>1, <1>a, <1>b, <1>c, ShellParts DEF SubmitCreation, pageVars, serverVars
<1>2. ASSUME NEW s \in Slots, OpenProject(s) PROVE ShellTypes'
  <2>1. TasksAreInformed' /\ requests' \in 0 .. MaxRequests
    BY <1>2, <1>b, <1>c, BeginStep DEF OpenProject, Target
  <2> QED
    BY <1>2, <2>1, <1>a, <1>b, <1>c, ShellParts DEF OpenProject, serverVars
<1>3. ASSUME NEW s \in Slots, NEW action \in Actions, Click(s, action)
      PROVE  ShellTypes'
  <2>1. known \in 1 .. Revision /\ timeline[known] \in Past
    <3>1. known \in 1 .. Revision
      BY <1>3, <1>c DEF Click
    <3>2. timeline \in Seq(Past)
      BY DEF ShellTypes, ShellTypeOK, Past
    <3> QED
      BY <3>1, <3>2 DEF Revision
  <2>2. PayloadTarget(timeline[known], action) \in Target
    BY <2>1, TargetTypes DEF PayloadTarget, Target
  <2>3. TasksAreInformed' /\ requests' \in 0 .. MaxRequests
    BY <1>3, <1>b, <1>c, <2>1, <2>2, BeginStep DEF Click
  <2> QED
    BY <1>3, <2>3, <1>a, <1>b, <1>c, ShellParts DEF Click, pageVars, serverVars
<1>4. ASSUME NEW s \in Slots, ReceiveReply(s) PROVE ShellTypes'
  <2>1. tasks[s].view \in 0 .. Revision /\ tasks[s].view > 0
    BY <1>4, <1>d DEF ReceiveReply, In, Informed
  <2>2. TasksAreInformed'
    BY <1>4, <1>b, <1>c, TaskStep DEF ReceiveReply, End
  <2> QED
    BY <1>4, <2>1, <2>2, <1>a, <1>b, <1>c, ShellParts DEF ReceiveReply, serverVars
<1>5. ASSUME NEW s \in Slots, ReceiveProject(s) PROVE ShellTypes'
  <2>1. /\ tasks[s] # NULL
        /\ tasks[s].view \in 0 .. Revision /\ tasks[s].view > 0
    BY <1>5, <1>d DEF ReceiveProject, In, Informed
  <2>2. TasksAreInformed'
    BY <1>5, <2>1, <1>b, <1>c, MoveStep DEF ReceiveProject, Places
  <2> QED
    BY <1>5, <2>1, <2>2, <1>a, <1>b, <1>c, ShellParts DEF ReceiveProject, serverVars
<1>6. ASSUME NEW s \in Slots, ReceiveEvents(s) PROVE ShellTypes'
  <2>1. TasksAreInformed'
    BY <1>6, <1>b, <1>c, TaskStep DEF ReceiveEvents, End
  <2> QED
    BY <1>6, <2>1, <1>a, <1>b, <1>c, ShellParts DEF ReceiveEvents, serverVars
<1>7. ASSUME NEW s \in Slots, CreateProject(s) PROVE ShellTypes'
  <2>1. (Record \/ UNCHANGED <<vars, timeline>>) /\ Revision' > 0
    BY <1>7, <1>b, <1>c DEF CreateProject
  <2>2. TasksAreInformed'
    BY <1>7, <2>1, <1>b, <1>c, MoveStep DEF CreateProject, In, Places
  <2> QED
    BY <1>7, <2>1, <2>2, <1>p, <1>s DEF CreateProject
<1>8. ASSUME NEW s \in Slots, AnswerCreation(s) \/ Refuse(s)
      PROVE  ShellTypes'
  <2>1. tasks[s] # NULL /\ Revision > 0
    BY <1>8, <1>d DEF AnswerCreation, Refuse, In, Informed
  <2>2. TasksAreInformed'
    BY <1>8, <2>1, <1>b, <1>c, MoveStep DEF AnswerCreation, Refuse, Places
  <2> QED
    BY <1>8, <2>2, <1>p, <1>s DEF AnswerCreation, Refuse
<1>i. ASSUME NEW s \in Slots, InspectProject(s) PROVE ShellTypes'
  <2> DEFINE at == IF state = "NEW" THEN "prepare" ELSE "made"
             moved == [tasks[s] EXCEPT !.at = at]
             t == [moved EXCEPT !.expected = Revision]
  <2>1. tasks[s] # NULL /\ Revision > 0 /\ Informed(tasks[s], Revision)
    BY <1>i, <1>d DEF InspectProject, In, Informed
  <2>2. at \in {"prepare", "made"}
    OBVIOUS
  <2>3. moved \in [at : Places, action : Actions \cup {NULL}, expected : Nat,
                   target : Target, view : 0 .. Revision]
        /\ moved.at = at
    BY <2>1, <2>2 DEF Informed, Places
  <2>4. tasks' = [tasks EXCEPT ![s] = t]
    BY <1>i DEF InspectProject
  <2>5. Informed(t, Revision')
    <3> HIDE DEF moved, at
    <3> QED
      BY <2>1, <2>2, <2>3, <1>i, <1>b, <1>c DEF Informed, InspectProject
  <2>6. TasksAreInformed'
    <3> HIDE DEF t
    <3> QED
      BY <2>4, <2>5, <1>i, <1>b, <1>c, TaskStep DEF InspectProject
  <2> QED
    BY <1>i, <2>6, <1>p, <1>s DEF InspectProject
<1>9. ASSUME NEW s \in Slots, PrepareDemo(s) PROVE ShellTypes'
  <2>1. Record \/ UNCHANGED <<vars, timeline>>
    BY <1>9 DEF PrepareDemo
  <2>2. tasks[s] # NULL /\ Revision > 0
    BY <1>9, <1>d DEF PrepareDemo, In, Informed
  <2>3. TasksAreInformed'
    BY <1>9, <2>1, <2>2, <1>b, <1>c, MoveStep DEF PrepareDemo, Places
  <2>4. prepared' \in {prepared, Revision} /\ returned' \in BOOLEAN
    BY <1>9, <1>c DEF PrepareDemo
  <2> QED
    BY <1>9, <2>1, <2>3, <2>4, <1>p DEF PrepareDemo
<1>10. ASSUME NEW s \in Slots, BindTarget(s) PROVE ShellTypes'
  <2>1. tasks[s] # NULL /\ tasks[s].at = "command" /\ Informed(tasks[s], Revision)
    BY <1>10, <1>d DEF BindTarget, In
  <2> DEFINE target == IF tasks[s].target = NULL
                         THEN DefaultTarget(tasks[s].action)
                         ELSE tasks[s].target
             moved == [tasks[s] EXCEPT !.at = "bound"]
             t == [moved EXCEPT !.target = target]
  <2>2. DefaultTarget(tasks[s].action) \in Target
    <3>1. Projection \in Past
      BY DEF ShellTypes, ShellTypeOK, TypeOK, Projection, Past
    <3>2. direction # NULL => direction.id \in Target
      BY DEF ShellTypes, ShellTypeOK, TypeOK, Direction, Target
    <3>3. CandidatesOf(Projection) # {} =>
            First(CandidatesOf(Projection)) \in CandidatesOf(Projection)
      BY FirstExists DEF CandidatesOf
    <3> QED
      BY <3>1, <3>2, <3>3, TargetTypes DEF DefaultTarget, Target
  <2>3. target \in Target
    BY <2>1, <2>2 DEF Informed
  <2>4. moved \in [at : Places, action : Actions \cup {NULL}, expected : Nat,
                   target : Target, view : 0 .. Revision]
        /\ moved.at = "bound"
    BY <2>1 DEF Informed, Places
  <2>5. Informed(t, Revision')
    <3> HIDE DEF moved, target
    <3> QED
      BY <2>1, <2>3, <2>4, <1>10, <1>b DEF Informed, BindTarget
  <2>6. \/ tasks' = [tasks EXCEPT ![s] = NULL]
        \/ tasks' = [tasks EXCEPT ![s] = t]
    BY <1>10 DEF BindTarget, End
  <2>7. TasksAreInformed'
    <3> HIDE DEF t
    <3> QED
      BY <2>5, <2>6, <1>10, <1>b, <1>c, TaskStep DEF BindTarget
  <2> QED
    BY <1>10, <2>7, <1>p, <1>s DEF BindTarget
<1>11. ASSUME NEW s \in Slots, Execute(s) PROVE ShellTypes'
  <2>1. tasks[s] # NULL /\ Record /\ Revision' > 0
    BY <1>11, <1>b DEF Execute, In
  <2>2. TasksAreInformed'
    BY <1>11, <2>1, <1>b, <1>c, MoveStep DEF Execute, Places
  <2> QED
    BY <1>11, <2>1, <2>2, <1>p, <1>s DEF Execute
<1>12. ASSUME NEW s \in Slots, AnswerCommand(s) \/ AnswerProject(s)
       PROVE  ShellTypes'
  <2>1. tasks[s] # NULL /\ Revision > 0
    BY <1>12, <1>d DEF AnswerCommand, AnswerProject, In, Informed
  <2>2. TasksAreInformed'
    BY <1>12, <2>1, <1>b, <1>c, AnswerStep
    DEF AnswerCommand, AnswerProject, Places
  <2> QED
    BY <1>12, <2>2, <1>p, <1>s DEF AnswerCommand, AnswerProject
<1>13. ASSUME NEW s \in Slots, Lose(s) PROVE ShellTypes'
  <2>1. TasksAreInformed'
    BY <1>13, <1>b, <1>c, TaskStep DEF Lose, End
  <2> QED
    BY <1>13, <2>1, <1>p, <1>s DEF Lose
<1>14. ASSUME NEW c \in CandidateId, PickCandidate(c) PROVE ShellTypes'
  <2>1. TasksAreInformed'
    BY <1>14, <1>b, <1>c, TasksStay DEF PickCandidate
  <2> QED
    BY <1>14, <2>1, <1>a, <1>b, <1>c, ShellParts DEF PickCandidate, serverVars
<1>15. CASE Poll
  <2>1. TasksAreInformed'
    BY <1>15, <1>b, <1>c, TasksStay DEF Poll
  <2> QED
    BY <1>15, <2>1, <1>a, <1>b, <1>c, ShellParts DEF Poll, serverVars
<1>16. CASE Elsewhere
  <2>1. TasksAreInformed'
    BY <1>16, <1>b, <1>c, TasksStay DEF Elsewhere
  <2>2. prepared' = prepared /\ returned' \in BOOLEAN
    BY <1>16, <1>c DEF Elsewhere
  <2> QED
    BY <1>16, <2>1, <2>2, <1>p DEF Elsewhere
<1>17. CASE UNCHANGED shellState
  <2>1. TasksAreInformed'
    BY <1>17, <1>b, <1>c, TasksStay DEF shellState, shellVars
  <2> QED
    BY <1>17, <2>1, <1>p, <1>s DEF shellState, shellVars
<1>18. CASE DeliveryUnderWay
  <2>1. UNCHANGED <<state, contentVars, shellVars>>
    BY <1>18, DeliveryIsControl
  <2>2. TasksAreInformed'
    BY <2>1, <1>b, <1>c, TasksStay DEF shellVars
  <2> QED
    BY <2>1, <2>2, <1>p, <1>s DEF shellVars
<1>19. CASE RunsGoOn
  <2>1. UNCHANGED <<state, contentVars, shellVars>>
    BY <1>19, RunsAreControl DEF projectVars
  <2>2. TasksAreInformed'
    BY <2>1, <1>b, <1>c, TasksStay DEF shellVars
  <2> QED
    BY <2>1, <2>2, <1>p, <1>s DEF shellVars
<1> QED
  BY <1>1, <1>2, <1>3, <1>4, <1>5, <1>6, <1>7, <1>8, <1>i, <1>9, <1>10, <1>11,
     <1>12, <1>13, <1>14, <1>15, <1>16, <1>17, <1>18, <1>19
  DEF ShellNext, PageStep, ServerStep

LEMMA ShellInitTypes == ShellInit => ShellTypes
<1> SUFFICES ASSUME ShellInit PROVE ShellTypes
  OBVIOUS
<1>1. TypeOK
  BY InitTypes DEF ShellInit
<1>2. timeline = <<>> /\ Revision = 0
  BY DEF ShellInit, Revision
<1>3. /\ known \in 0 .. Revision /\ shown \in 0 .. Revision
      /\ prepared \in 0 .. Revision /\ requests \in 0 .. MaxRequests
  BY <1>2, ShellBoundsAssumption DEF ShellInit
<1>4. TasksAreInformed /\ tasks \in [Slots -> Task \cup {NULL}]
  BY DEF ShellInit, TasksAreInformed
<1>5. timeline \in Seq(Past)
  BY <1>2
<1>6. focus \in CandidateId \cup {NULL} /\ returned \in BOOLEAN
  BY DEF ShellInit
<1>7. ~(Revision > 0)
  BY <1>2
<1>8. ShellTypeOK
  BY <1>1, <1>3, <1>4, <1>5, <1>6, <1>7 DEF ShellTypeOK, Past
<1>9. shown = 0
  BY DEF ShellInit
<1> QED
  BY <1>4, <1>8, <1>9 DEF ShellTypes, PageIsInformed

\* The page never holds a revision the project has not had, the timeline ends
\* with the project as it is, and every request carries a target, a revision
\* and an answer that exist, whatever order the replies come in.
THEOREM ShellTypeCorrect == ShellSpec => []ShellTypeOK
<1>1. ShellInit => ShellTypes
  BY ShellInitTypes
<1>2. ShellTypes /\ [ShellNext]_shellState => ShellTypes'
  BY ShellStepTypes
<1>3. ShellTypes => ShellTypeOK
  BY DEF ShellTypes
<1> QED
  BY <1>1, <1>2, <1>3, PTL DEF ShellSpec, shellState

\* The timeline grows, by one revision or by none.
LEMMA TimelineGrows ==
  ASSUME ShellTypes, [ShellNext]_shellState
  PROVE  /\ Revision \in Nat /\ Revision' \in Nat /\ Revision <= Revision'
         /\ \A n \in 1 .. Revision : timeline'[n] = timeline[n]
<1>1. timeline \in Seq(Past)
  BY DEF ShellTypes, ShellTypeOK, Past
<1>2. Record \/ UNCHANGED timeline
  BY DEF ShellNext, PageStep, SubmitCreation, OpenProject, Click, ReceiveReply,
         ReceiveProject, ReceiveEvents, ServerStep, CreateProject,
         InspectProject, PrepareDemo, AnswerCreation, BindTarget, Execute,
         AnswerCommand, Refuse, AnswerProject, Lose, PickCandidate, Poll,
         Elsewhere, RunsGoOn, DeliveryUnderWay, shellState, shellVars
<1>3. CASE UNCHANGED timeline
  BY <1>1, <1>3 DEF Revision
<1>4. CASE Record
  <2>1. timeline' = Append(timeline, Projection')
    BY <1>4 DEF Record
  <2>2. Len(timeline') = Len(timeline) + 1
    BY <1>1, <2>1
  <2>3. \A n \in 1 .. Len(timeline) : timeline'[n] = timeline[n]
    BY <1>1, <2>1
  <2> QED
    BY <1>1, <2>2, <2>3 DEF Revision
<1> QED
  BY <1>2, <1>3, <1>4

\* The demo's PrepareProject left a revision that is prepared, right after the
\* one it was executed at.
PreparedIsKept ==
  prepared > 0 =>
    prepared + 1 \in 1 .. Revision /\ timeline[prepared + 1].state # "NEW"

\* What PrepareDemo commits.
LEMMA PrepareRecords ==
  ASSUME ShellTypes, NEW s \in Slots, PrepareDemo(s), prepared = 0
  PROVE  /\ prepared' = Revision /\ tasks[s].expected = Revision
         /\ Revision + 1 \in 1 .. Revision'
         /\ timeline'[Revision + 1].state # "NEW"
<1>1. /\ prepared' = Revision /\ tasks[s].expected = Revision
      /\ timeline' = Append(timeline, Projection')
      /\ \E input \in Inputs : Prepare(input)
  BY DEF PrepareDemo, Record
<1>2. state' # "NEW"
  BY <1>1 DEF Prepare, MoveVia
<1>3. timeline \in Seq(Past)
  BY DEF ShellTypes, ShellTypeOK, Past
<1>4. Len(timeline') = Len(timeline) + 1 /\ timeline'[Len(timeline) + 1] = Projection'
  BY <1>1, <1>3
<1>5. Projection'.state = state'
  BY DEF Projection
<1> QED
  BY <1>1, <1>2, <1>3, <1>4, <1>5 DEF Revision

LEMMA StepKept ==
  ShellTypes /\ PreparedIsKept /\ [ShellNext]_shellState => PreparedIsKept'
<1> SUFFICES ASSUME ShellTypes, PreparedIsKept, [ShellNext]_shellState
             PROVE  PreparedIsKept'
  OBVIOUS
<1>1. /\ Revision \in Nat /\ Revision' \in Nat /\ Revision <= Revision'
      /\ \A n \in 1 .. Revision : timeline'[n] = timeline[n]
  BY TimelineGrows
<1>2. prepared \in Nat
  BY <1>1 DEF ShellTypes, ShellTypeOK
<1>3. CASE prepared' = prepared
  BY <1>1, <1>2, <1>3 DEF PreparedIsKept
<1>4. ASSUME NEW s \in Slots, PrepareDemo(s), prepared' # prepared
      PROVE  PreparedIsKept'
  <2>1. prepared = 0
    BY <1>4 DEF PrepareDemo
  <2> QED
    BY <1>4, <2>1, PrepareRecords DEF PreparedIsKept
<1>5. ASSUME ~\E s \in Slots : PrepareDemo(s) PROVE prepared' = prepared
  BY <1>5, PageAndServerSteps
  DEF ShellNext, ServerStep, Execute, Elsewhere, RunsGoOn, DeliveryUnderWay,
      shellState, shellVars, serverVars
<1> QED
  BY <1>3, <1>4, <1>5

\* A request that answers with a made demo finds it prepared: others may take
\* the project back, but not its revisions.
LEMMA StepPrepared ==
  ShellTypes /\ PreparedIsKept /\ DemoIsPrepared /\ [ShellNext]_shellState
    => DemoIsPrepared'
<1> SUFFICES ASSUME ShellTypes, PreparedIsKept, DemoIsPrepared,
                    [ShellNext]_shellState,
                    NEW u \in Slots, In(u, "made")'
             PROVE  \E n \in 1 .. Revision' :
                      n >= tasks'[u].expected /\ timeline'[n].state # "NEW"
  BY DEF DemoIsPrepared
<1>1. /\ Revision \in Nat /\ Revision' \in Nat /\ Revision <= Revision'
      /\ \A n \in 1 .. Revision : timeline'[n] = timeline[n]
  BY TimelineGrows
<1>k. ASSUME NEW n \in 1 .. Revision, n >= tasks'[u].expected,
             timeline[n].state # "NEW"
      PROVE  \E m \in 1 .. Revision' :
               m >= tasks'[u].expected /\ timeline'[m].state # "NEW"
  BY <1>1, <1>k
<1>2. CASE tasks'[u] = tasks[u]
  <2>1. In(u, "made")
    BY <1>2 DEF In
  <2> QED
    BY <1>2, <1>k, <2>1 DEF DemoIsPrepared
<1>3. tasks = [s \in Slots |-> tasks[s]]
  BY DEF ShellTypes, TasksAreInformed
<1>r. \A s \in Slots : tasks[s] # NULL => Informed(tasks[s], Revision)
  BY DEF ShellTypes, TasksAreInformed
<1>m. ASSUME NEW s \in Slots, NEW at, tasks[s] # NULL, Move(s, at) \/ Answer(s, at)
      PROVE  /\ tasks'[s].at = at
             /\ Move(s, at) => tasks'[s].expected = tasks[s].expected
             /\ \A v \in Slots : v # s => tasks'[v] = tasks[v]
  BY <1>3, <1>r, <1>m DEF Move, Answer, Informed
<1>n. ASSUME NEW s \in Slots, InspectProject(s)
      PROVE  /\ tasks'[s].at = IF state = "NEW" THEN "prepare" ELSE "made"
             /\ tasks'[s].expected = Revision
             /\ \A v \in Slots : v # s => tasks'[v] = tasks[v]
  <2> DEFINE at == IF state = "NEW" THEN "prepare" ELSE "made"
             moved == [tasks[s] EXCEPT !.at = at]
             t == [moved EXCEPT !.expected = Revision]
  <2>1. tasks[s] # NULL
    BY <1>n DEF InspectProject, In
  <2>2. /\ moved.at = at
        /\ DOMAIN moved = {"at", "action", "expected", "target", "view"}
    BY <1>r, <2>1 DEF Informed
  <2>3. t.at = at /\ t.expected = Revision
    <3> HIDE DEF moved, at
    <3> QED
      BY <2>2
  <2>4. tasks' = [tasks EXCEPT ![s] = t]
    BY <1>n DEF InspectProject
  <2> HIDE DEF t
  <2> QED
    BY <1>3, <2>3, <2>4
<1>4. ASSUME tasks'[u] # tasks[u] PROVE InspectProject(u) \/ PrepareDemo(u)
  <2>1. ASSUME UNCHANGED tasks PROVE FALSE
    BY <2>1, <1>4
  <2>2. ASSUME NEW s \in Slots, End(s) PROVE FALSE
    BY <2>2, <1>3, <1>4 DEF End, In
  <2>3. ASSUME NEW s \in Slots, tasks[s] # NULL, NEW at \in Places \ {"made"},
               Move(s, at) \/ Answer(s, at)
        PROVE  FALSE
    BY <2>3, <1>m, <1>4 DEF In
  <2>4. ASSUME NEW s \in Slots, NEW at \in {"create", "load", "command"},
               NEW action, NEW target, Begin(s, at, action, target)
        PROVE  FALSE
    BY <2>4, <1>3, <1>4 DEF Begin, In
  <2>5. ASSUME NEW s \in Slots, PageStep(s) PROVE FALSE
    BY <2>2, <2>3, <2>4, <2>5
    DEF PageStep, SubmitCreation, OpenProject, Click, ReceiveReply,
        ReceiveProject, ReceiveEvents, Places, In
  <2>6. ASSUME NEW s \in Slots, BindTarget(s) PROVE FALSE
    <3> DEFINE moved == [tasks[s] EXCEPT !.at = "bound"]
               bound(target) == [moved EXCEPT !.target = target]
    <3>1. tasks[s] # NULL
      BY <2>6 DEF BindTarget, In
    <3>2. /\ moved.at = "bound"
          /\ DOMAIN moved = {"at", "action", "expected", "target", "view"}
      BY <3>1, <1>r DEF Informed
    <3>3. \A target : bound(target).at = "bound"
      <4> HIDE DEF moved
      <4> QED
        BY <3>2
    <3>4. PICK target : \/ tasks' = [tasks EXCEPT ![s] = NULL]
                        \/ tasks' = [tasks EXCEPT ![s] = bound(target)]
      BY <2>6 DEF BindTarget, End
    <3> HIDE DEF bound
    <3>5. tasks'[u] = tasks[u] \/ tasks'[u] = NULL \/ tasks'[u].at = "bound"
      BY <1>3, <3>3, <3>4
    <3> QED
      BY <3>5, <1>4 DEF In
  <2>7. ASSUME NEW s \in Slots, ServerStep(s)
        PROVE  InspectProject(s) \/ PrepareDemo(s)
    BY <2>3, <2>6, <2>7
    DEF ServerStep, CreateProject, AnswerCreation, Execute, AnswerCommand,
        Refuse, AnswerProject, Places, In
  <2>8. ASSUME NEW s \in Slots, InspectProject(s) \/ PrepareDemo(s)
        PROVE  u = s
    BY <2>8, <1>m, <1>n, <1>4 DEF PrepareDemo, In
  <2> QED
    BY <2>1, <2>2, <2>5, <2>7, <2>8
    DEF ShellNext, Lose, PickCandidate, Poll, Elsewhere, RunsGoOn,
        DeliveryUnderWay, shellState, shellVars
<1>5. CASE InspectProject(u)
  <2>1. state # "NEW" /\ tasks'[u].expected = Revision
    BY <1>n, <1>5 DEF In
  <2>2. Revision > 0
    BY <1>r, <1>5 DEF InspectProject, In, Informed
  <2>3. timeline[Revision].state = state
    BY <2>2 DEF ShellTypes, ShellTypeOK, Projection
  <2> QED
    BY <1>1, <1>k, <2>1, <2>2, <2>3
<1>6. CASE PrepareDemo(u)
  <2>1. tasks'[u].expected = tasks[u].expected
    BY <1>m, <1>6 DEF PrepareDemo, In
  <2>2. CASE prepared = 0
    BY <1>1, <1>6, <2>1, <2>2, PrepareRecords
  <2>3. CASE prepared # 0
    <3>1. prepared \in Nat /\ tasks[u].expected = prepared
      BY <1>1, <1>6, <2>3 DEF PrepareDemo, ShellTypes, ShellTypeOK
    <3> QED
      BY <1>k, <2>1, <2>3, <3>1 DEF PreparedIsKept
  <2> QED
    BY <2>2, <2>3
<1> QED
  BY <1>2, <1>4, <1>5, <1>6

\* A creation is answered with a project that was prepared since the server
\* has read it, whichever of several equal creations made it, wherever another
\* one died, and whatever other callers restored meanwhile (create_demo).
THEOREM DemoCorrect == ShellSpec => []DemoIsPrepared
<1>1. ShellInit => ShellTypes /\ PreparedIsKept /\ DemoIsPrepared
  BY ShellInitTypes DEF ShellInit, PreparedIsKept, DemoIsPrepared, In
<1>2. ShellTypes /\ PreparedIsKept /\ DemoIsPrepared /\ [ShellNext]_shellState
      => (ShellTypes /\ PreparedIsKept /\ DemoIsPrepared)'
  BY ShellStepTypes, StepKept, StepPrepared
<1> QED
  BY <1>1, <1>2, PTL DEF ShellSpec, shellState

----------------------------------------------------------------------------
\* What a project has from the state it is in, whatever brought it there: its
\* package and brief while it waits for candidates, its package once it was
\* validated, and candidates once they were made, also where a run that waits
\* would be resumed and in every revision with an artifact.
Made == Feedbacked \cup {"AWAITING_DIRECTION_APPROVAL"}

HasSome(cs) == \E c \in CandidateId : cs[c] # NULL

HasGrounds ==
  /\ state = "READY_FOR_DESIGN" => context # NULL /\ brief
  /\ state \in {"AWAITING_EXPORT_APPROVAL", "READY_TO_DELIVER"} => context # NULL
  /\ \/ state \in Made \/ resume_state \in Made \/ artifact # NULL
     => HasSome(candidates)
  /\ \A source \in history : source.artifact # NULL => HasSome(source.candidates)

\* A commit adds the project as it is to the history.
LEMMA GroundsAreKept ==
  ASSUME HasGrounds,
         history' = history \cup {Snapshot'} \/ UNCHANGED history,
         state' = "READY_FOR_DESIGN" => context' # NULL /\ brief',
         state' \in {"AWAITING_EXPORT_APPROVAL", "READY_TO_DELIVER"}
           => context' # NULL,
         state' \in Made \/ resume_state' \in Made \/ artifact' # NULL
           => HasSome(candidates')
  PROVE  HasGrounds'
<1>1. Snapshot'.artifact = artifact' /\ Snapshot'.candidates = candidates'
  BY DEF Snapshot
<1>2. \A source \in history' :
        source.artifact # NULL => HasSome(source.candidates)
  BY <1>1 DEF HasGrounds, HasSome
<1> QED
  BY <1>2 DEF HasGrounds, Made, Feedbacked, HasSome

\* Every command leaves them, restores and resumed runs too: what a restored
\* state calls for is in its revision, and no run is resumed where a decision
\* on the export was awaited.
LEMMA StepKeepsGrounds ==
  TypeOK /\ HasGrounds /\ [Next]_vars => HasGrounds'
<1> SUFFICES ASSUME TypeOK, HasGrounds, [Next]_vars PROVE HasGrounds'
  OBVIOUS
<1> USE DEF Made, Feedbacked
<1>c. Commit => history' = history \cup {Snapshot'}
  BY DEF Commit
<1>1. ASSUME NEW input \in Inputs, Prepare(input) PROVE HasGrounds'
  <2>1. /\ context' = input.context /\ brief' = input.brief /\ Commit
        /\ state' = IF \/ input.context \in UncertainContexts \cup {NULL}
                       \/ ~input.brief
                    THEN "NEEDS_INPUT" ELSE "READY_FOR_DESIGN"
        /\ UNCHANGED <<candidates, artifact, resume_state>>
    BY <1>1 DEF Prepare, MoveVia
  <2>2. /\ state' \in {"NEEDS_INPUT", "READY_FOR_DESIGN"}
        /\ state' = "READY_FOR_DESIGN" => input.context # NULL /\ input.brief
    BY <2>1
  <2> QED
    BY <1>c, <2>1, <2>2, GroundsAreKept DEF HasGrounds
<1>2. CASE GenerateCandidates
  <2>1. context \in Contexts /\ <<context, 1>> \in CandidateId
    BY <1>2, BoundsAssumption, CandidatesAssumption
    DEF GenerateCandidates, TypeOK, CandidateId
  <2>2. [revision |-> 1, content |-> {}] # NULL
    BY NullAssumption DEF Candidate, Content
  <2>3. HasSome(candidates')
    BY <1>2, <2>1, <2>2 DEF GenerateCandidates, HasSome
  <2> QED
    BY <1>2, <1>c, <2>3, GroundsAreKept DEF GenerateCandidates, MoveVia
<1>3. ASSUME NEW c \in CandidateId, ApproveDirection(c) PROVE HasGrounds'
  <2>1. HasSome(candidates) /\ UNCHANGED candidates
    BY <1>3 DEF ApproveDirection, HasSome
  <2> QED
    BY <1>3, <1>c, <2>1, GroundsAreKept DEF ApproveDirection, MoveTo, HasSome
<1>4. ASSUME NEW c \in CandidateId, NEW note \in Notes,
             DirectionFeedback(c, note)
      PROVE  HasGrounds'
  <2> DEFINE revised == [revision |-> candidates[c].revision + 1,
                         content |-> candidates[c].content \cup {note}]
  <2>1. candidates[c] \in Candidate
    BY <1>4 DEF DirectionFeedback, TypeOK
  <2>2. revised \in Candidate
    BY <2>1 DEF Candidate, Content
  <2>3. candidates' = [candidates EXCEPT ![c] = revised]
    BY <1>4 DEF DirectionFeedback
  <2> HIDE DEF revised
  <2>4. HasSome(candidates')
    BY <2>2, <2>3, NullAssumption DEF TypeOK, HasSome
  <2> QED
    BY <1>4, <1>c, <2>4, GroundsAreKept DEF DirectionFeedback, MoveVia
<1>5. ASSUME \/ Produce \/ Validate \/ ApproveExport
             \/ \E profile \in Profiles : Deliver(profile) \/ ExportRejected(profile)
             \/ \E note \in Notes : ArtifactFeedback(note)
      PROVE  HasGrounds'
  <2>1. /\ state \in Made /\ UNCHANGED <<candidates, context>> /\ Commit
        /\ state' \in {"AWAITING_EXPORT_APPROVAL", "READY_TO_DELIVER"}
             => context # NULL
        /\ state' # "READY_FOR_DESIGN"
    BY <1>5 DEF Produce, Validate, ApproveExport, Deliver, ExportRejected,
                MayExport, ArtifactFeedback, MoveTo, MoveVia, contentVars,
                HasGrounds
  <2>2. HasSome(candidates')
    BY <2>1 DEF HasGrounds, HasSome
  <2> QED
    BY <1>c, <2>1, <2>2, GroundsAreKept
<1>6. CASE FactFeedback
  <2>1. /\ state' = "NEEDS_INPUT" /\ Commit
        /\ UNCHANGED <<candidates, artifact, resume_state>>
    BY <1>6 DEF FactFeedback, MoveTo, contentVars
  <2> QED
    BY <1>c, <2>1, GroundsAreKept DEF HasGrounds
<1>7. ASSUME NEW source \in history, Restore(source) PROVE HasGrounds'
  <2>1. /\ context' = source.context /\ brief' = source.brief
        /\ candidates' = source.candidates /\ artifact' = source.artifact
        /\ resume_state' = NULL /\ state' = RestoredState(source) /\ Commit
    BY <1>7 DEF Restore
  <2>2. resume_state' \notin Made
    BY <2>1, NullStateAssumption DEF ProjectState
  <2>3. source.artifact # NULL => HasSome(source.candidates)
    BY DEF HasGrounds
  <2>4. /\ state' = "READY_FOR_DESIGN" => source.context # NULL /\ source.brief
        /\ state' \notin {"AWAITING_EXPORT_APPROVAL", "READY_TO_DELIVER"}
        /\ state' \in Made => HasSome(source.candidates)
    BY <2>1, <2>3 DEF RestoredState, HasSome
  <2> QED
    BY <1>c, <2>1, <2>2, <2>3, <2>4, GroundsAreKept
<1>8. ASSUME NEW r \in Runs, Pause(r) PROVE HasGrounds'
  BY <1>8, GroundsAreKept DEF Pause, CommitControl, contentVars, HasGrounds
<1>9. ASSUME NEW r \in Runs, Cancel(r) PROVE HasGrounds'
  <2>1. /\ state' = "CANCELED" /\ history' = history \cup {Snapshot'}
        /\ UNCHANGED <<candidates, artifact, resume_state>>
    BY <1>9 DEF Cancel, MoveTo, contentVars
  <2> QED
    BY <2>1, GroundsAreKept DEF HasGrounds
<1>10. ASSUME NEW r \in Runs, NEW explicit \in BOOLEAN, Resume(r, explicit)
       PROVE  HasGrounds'
  <2>1. /\ UNCHANGED <<context, brief, candidates, artifact>>
        /\ resume_state' = NULL /\ history' = history \cup {Snapshot'}
    BY <1>10 DEF Resume, CommitControl, contentVars
  <2>s. \/ state' = state
        \/ state' = resume_state /\ MayMove("NEEDS_INPUT", state')
    BY <1>10 DEF Resume, MoveTo
  <2>2. resume_state' \notin Made
    BY <2>1, NullStateAssumption DEF ProjectState
  <2>3. MayMove("NEEDS_INPUT", state') =>
          state' \notin {"READY_FOR_DESIGN", "AWAITING_EXPORT_APPROVAL",
                        "READY_TO_DELIVER"}
    BY DEF MayMove, AllowedTransitions, AfterInput, Terminal
  <2> QED
    BY <2>1, <2>s, <2>2, <2>3, GroundsAreKept DEF HasGrounds
<1>11. ASSUME NEW r \in Runs, Reconcile(r) PROVE HasGrounds'
  <2>1. /\ UNCHANGED <<context, brief, candidates, artifact>>
        /\ history' = history \cup {Snapshot'}
        /\ \/ UNCHANGED <<state, resume_state>>
           \/ state' \in ReconcileTarget /\ resume_state' \in {state, NULL}
    BY <1>11 DEF Reconcile, MoveTo, CommitControl, contentVars
  <2>2. NULL \notin Made
    BY NullStateAssumption DEF ProjectState
  <2> QED
    BY <2>1, <2>2, GroundsAreKept DEF HasGrounds, ReconcileTarget
<1>12. CASE \/ Aside \/ ReadForDelivery \/ UNCHANGED vars
            \/ \E copy \in copies, profile \in Profiles :
                 DeliverUncommitted(copy, profile)
  <2>1. UNCHANGED <<state, contentVars, resume_state, history>>
    BY <1>12
    DEF Aside, StartRun, WorkerReports, WorkerResumes, CancelUncommitted,
        ResumeUncommitted, ReadForDelivery, DeliverUncommitted, vars,
        projectVars
  <2> QED
    BY <2>1, GroundsAreKept DEF HasGrounds, contentVars
<1> QED
  BY <1>1, <1>2, <1>3, <1>4, <1>5, <1>6, <1>7, <1>8, <1>9, <1>10, <1>11,
     <1>12 DEF Next, SavedCommand, Advance, TakeBack

\* And what it has besides as long as its commands alone have set its states:
\* package and brief with the candidates, a direction with the artifact.
CameByCommands ==
  ~returned =>
    /\ state \in Made => context # NULL /\ brief
    /\ state \in Feedbacked => direction # NULL

\* A command that takes nothing back keeps that.
LEMMA CommandKeepsCourse ==
  ASSUME TypeOK, Forward,
         state \in Made => context # NULL /\ brief,
         state \in Feedbacked => direction # NULL
  PROVE  /\ state' \in Made => context' # NULL /\ brief'
         /\ state' \in Feedbacked => direction' # NULL
<1> USE DEF Made, Feedbacked
<1>1. ASSUME NEW input \in Inputs, Prepare(input)
      PROVE  state' \notin Made
  BY <1>1 DEF Prepare, MoveVia
<1>2. ASSUME GenerateCandidates
      PROVE  /\ state' = "AWAITING_DIRECTION_APPROVAL"
             /\ context' # NULL /\ brief'
  BY <1>2 DEF GenerateCandidates, MoveVia
<1>3. ASSUME NEW c \in CandidateId, ApproveDirection(c)
      PROVE  /\ state = "AWAITING_DIRECTION_APPROVAL"
             /\ direction' # NULL /\ UNCHANGED <<context, brief>>
  <2>1. candidates[c] \in Candidate
    BY <1>3 DEF ApproveDirection, TypeOK
  <2>2. direction' \in Direction
    BY <1>3, <2>1
    DEF ApproveDirection, Direction, Candidate, CandidateVersion
  <2> QED
    BY <1>3, <2>2, NullAssumption DEF ApproveDirection, MoveTo
<1>4. ASSUME NEW c \in CandidateId, NEW note \in Notes,
             DirectionFeedback(c, note)
      PROVE  /\ state' = "AWAITING_DIRECTION_APPROVAL"
             /\ context' # NULL /\ brief'
  BY <1>4 DEF DirectionFeedback, MoveVia
<1>5. ASSUME \/ Produce \/ Validate \/ ApproveExport
             \/ \E profile \in Profiles : Deliver(profile) \/ ExportRejected(profile)
             \/ \E note \in Notes : ArtifactFeedback(note)
      PROVE  state \in Feedbacked /\ UNCHANGED <<context, brief, direction>>
  BY <1>5 DEF Produce, Validate, ApproveExport, Deliver, ExportRejected,
              MayExport, ArtifactFeedback, contentVars
<1>6. ASSUME FactFeedback \/ \E r \in Runs : Cancel(r)
      PROVE  state' \notin Made
  BY <1>6 DEF FactFeedback, Cancel, MoveTo
<1>7. ASSUME NEW r \in Runs, Pause(r)
      PROVE  UNCHANGED <<state, context, brief, direction>>
  BY <1>7 DEF Pause, contentVars
<1>8. ASSUME NEW r \in Runs, Reconcile(r)
      PROVE  state' \notin Made \/ UNCHANGED <<state, context, brief, direction>>
  BY <1>8 DEF Reconcile, ReconcileTarget, MoveTo, contentVars
<1> QED
  BY <1>1, <1>2, <1>3, <1>4, <1>5, <1>6, <1>7, <1>8
  DEF Forward, Advance

LEMMA ShellStepKeepsCourse ==
  TypeOK /\ CameByCommands /\ [ShellNext]_shellState => CameByCommands'
<1> SUFFICES ASSUME TypeOK, CameByCommands, [ShellNext]_shellState
             PROVE  CameByCommands'
  OBVIOUS
<1>1. ASSUME UNCHANGED <<state, context, brief, direction, returned>>
      PROVE  CameByCommands'
  BY <1>1 DEF CameByCommands, Made, Feedbacked
<1>2. ASSUME NEW s \in Slots, PrepareDemo(s) PROVE CameByCommands'
  <2>1. CASE prepared = 0
    <3>1. state' \notin Made
      BY <1>2, <2>1 DEF PrepareDemo, Prepare, MoveVia, Made, Feedbacked
    <3> QED
      BY <3>1 DEF CameByCommands, Made, Feedbacked
  <2>2. CASE prepared # 0
    BY <1>1, <1>2, <2>2 DEF PrepareDemo, vars, projectVars, contentVars
  <2> QED
    BY <2>1, <2>2
<1>3. ASSUME NEW s \in Slots, Execute(s) PROVE CameByCommands'
  BY <1>3, CommandKeepsCourse, CommandIsForward
  DEF Execute, CameByCommands, serverVars, Made, Feedbacked
<1>4. CASE Elsewhere
  BY <1>4, CommandKeepsCourse
  DEF Elsewhere, Forward, CameByCommands, Made, Feedbacked
<1>5. ASSUME \/ \E s \in Slots : PageStep(s) \/ Lose(s)
             \/ \E s \in Slots : ServerStep(s) /\ ~PrepareDemo(s) /\ ~Execute(s)
             \/ \E c \in CandidateId : PickCandidate(c)
             \/ Poll \/ UNCHANGED shellState
      PROVE  CameByCommands'
  BY <1>1, <1>5, PageAndServerSteps
  DEF shellState, shellVars, vars, projectVars, contentVars, serverVars
<1>6. CASE RunsGoOn \/ DeliveryUnderWay
  BY <1>1, <1>6, RunsAreControl, DeliveryIsControl
  DEF projectVars, contentVars, shellVars, serverVars
<1> QED
  BY <1>2, <1>3, <1>4, <1>5, <1>6 DEF ShellNext

\* The demands are no more than what the commands check: none is executed on a
\* project that does not meet them.
LEMMA CommandsDemand ==
  ASSUME NEW action, NEW target, Command(action, target)
  PROVE  Demand(action)
<1>1. CASE action \in {"generate_candidates", "produce_artifact",
                       "fact_feedback", "approve_export"}
  BY <1>1 DEF Command, Demand, GenerateCandidates, Produce, FactFeedback,
              ApproveExport, MoveTo, MoveVia, Feedbacked
<1>2. CASE action \in {"approve_direction", "direction_feedback"}
  BY <1>2 DEF Command, Demand, ApproveDirection, DirectionFeedback, MoveTo,
              MoveVia, Feedbacked
<1>3. CASE action \in {"local_feedback", "deliver"}
  BY <1>3 DEF Command, Demand, ArtifactFeedback, Deliver, ExportRejected,
              MoveTo, MoveVia, Feedbacked
<1>4. CASE action = "validate_artifact"
  <2>1. MayMove("VALIDATING", "PRODUCING")
        /\ MayMove("VALIDATING", "AWAITING_EXPORT_APPROVAL")
    BY DEF MayMove, AllowedTransitions
  <2> QED
    BY <1>4, <2>1 DEF Command, Demand, Validate
<1> QED
  BY <1>1, <1>2, <1>3, <1>4 DEF Command

\* With its grounds and what is safe, a project meets what every action on
\* offer demands, but for what it lacks since it was taken back.
LEMMA GroundsMeetOffers ==
  ASSUME TypeOK, Safe, HasGrounds, CameByCommands
  PROVE  OffersAreMet
<1> SUFFICES ASSUME NEW action \in Actions, <<state, action>> \in Offers,
                    action = "local_feedback" => artifact # NULL
             PROVE  Demand(action) \/ (returned /\ Lacking(action))
  BY DEF OffersAreMet, Offered, Projection
<1>1. CandidatesOf(Projection) # {} <=> HasSome(candidates)
  BY DEF CandidatesOf, Projection, HasSome
<1>l. ASSUME action \in {"produce_artifact", "direction_feedback",
                        "validate_artifact"},
             state \in Made, ~(returned /\ Lacking(action)),
             action = "produce_artifact" => state \in Feedbacked
      PROVE  /\ action = "produce_artifact" => direction # NULL
             /\ action = "direction_feedback" => context # NULL /\ brief
             /\ action = "validate_artifact" => context # NULL
  BY <1>l DEF CameByCommands, Lacking
<1>m. \A from, to : <<from, to>> \in AllowedTransitions => MayMove(from, to)
  BY DEF MayMove
<1>2. CASE state = "READY_FOR_DESIGN"
  <2>1. action \in {"generate_candidates", "fact_feedback"}
    BY <1>2 DEF Offers, Feedback
  <2>2. MayMove(state, "DESIGNING") /\ MayMove(state, "NEEDS_INPUT")
    BY <1>2, <1>m DEF AllowedTransitions
  <2> QED
    BY <1>2, <2>1, <2>2 DEF HasGrounds, Demand
<1>3. CASE state = "AWAITING_DIRECTION_APPROVAL"
  <2>1. action \in {"approve_direction", "direction_feedback", "fact_feedback"}
    BY <1>3 DEF Offers, Feedback
  <2>2. /\ MayMove(state, "DESIGNING") /\ MayMove(state, "PRODUCING")
        /\ MayMove(state, "NEEDS_INPUT")
    BY <1>3, <1>m DEF AllowedTransitions
  <2>3. HasSome(candidates) /\ state \in Made
    BY <1>3 DEF HasGrounds, Made
  <2> QED
    BY <1>1, <1>3, <1>l, <2>1, <2>2, <2>3 DEF Demand
<1>4. CASE state \in Feedbacked /\ action \in Feedback
  <2>1. /\ MayMove(state, "DESIGNING") /\ MayMove(state, "VALIDATING")
        /\ MayMove(state, "NEEDS_INPUT")
    BY <1>4, <1>m DEF AllowedTransitions, Feedbacked, MayMove
  <2>2. HasSome(candidates) /\ state \in Made
    BY <1>4 DEF HasGrounds, Made
  <2> QED
    BY <1>1, <1>4, <1>l, <2>1, <2>2 DEF Demand, Feedback
<1>5. CASE state = "PRODUCING" /\ action = "produce_artifact"
  <2>1. MayMove(state, "VALIDATING")
    BY <1>5, <1>m DEF AllowedTransitions
  <2> QED
    BY <1>5, <1>l, <2>1 DEF Demand, Made, Feedbacked
<1>6. CASE state = "VALIDATING" /\ action = "validate_artifact"
  <2>1. MayMove(state, "PRODUCING") /\ MayMove(state, "AWAITING_EXPORT_APPROVAL")
    BY <1>6, <1>m DEF AllowedTransitions
  <2> QED
    BY <1>6, <1>l, <2>1 DEF Demand, Made, Feedbacked, Safe, ValidatingHasArtifact
<1>7. CASE state = "AWAITING_EXPORT_APPROVAL" /\ action = "approve_export"
  <2>1. MayMove(state, "READY_TO_DELIVER")
    BY <1>7, <1>m DEF AllowedTransitions
  <2> QED
    BY <1>7, <2>1 DEF Demand, Safe, ExportGateHolds
<1>8. CASE state = "READY_TO_DELIVER" /\ action = "deliver"
  <2>1. MayMove(state, "DELIVERING")
    BY <1>8, <1>m DEF AllowedTransitions
  <2> QED
    BY <1>8, <2>1
    DEF HasGrounds, Demand, Safe, ExportGateHolds,
        ReadyIsAuthorized, MayExport
<1> QED
  BY <1>2, <1>3, <1>4, <1>5, <1>6, <1>7, <1>8
  DEF Offers, Feedback, Feedbacked

\* Whatever other callers and runs do, restores and reconciliations included,
\* the page offers nothing whose demands the project does not meet, but for
\* what a restore or a resumed run has left Lacking: the table of actions agrees
\* with the checks of the handlers and with the transition table (_actions,
\* control.py).
THEOREM OffersCorrect == ShellSpec => []OffersAreMet
<1>1. ShellInit => HasGrounds /\ CameByCommands
  BY NullStateAssumption
  DEF ShellInit, Init, HasGrounds, CameByCommands, Made, Feedbacked,
      ProjectState, Snapshot
<1>2. TypeOK /\ HasGrounds /\ [Next]_vars => HasGrounds'
  BY StepKeepsGrounds
<1>3. TypeOK /\ CameByCommands /\ [ShellNext]_shellState => CameByCommands'
  BY ShellStepKeepsCourse
<1>4. TypeOK /\ Safe /\ HasGrounds /\ CameByCommands => OffersAreMet
  BY GroundsMeetOffers
<1>5. [ShellNext]_shellState => [Next]_vars
  BY ShellStepIsControl
<1> QED
  BY <1>1, <1>2, <1>3, <1>4, <1>5, ShellIsSafe, PTL DEF ShellSpec, shellState

----------------------------------------------------------------------------
(* DurableDelivery: the delivery command and the ledger it uses.           *)

\* The ledger, with what is proved of it.
LP == INSTANCE DeliveryLedgerProofs WITH at <- turn, told <- handed

\* What the threads and their adapter are: a worker is not None, the profile
\* is one that can be asked for.
DurableAssumption ==
  /\ NULL \notin Workers
  /\ MaxReleases \in Nat
  /\ KeyProfile \in Profiles

\* The ledger's part, as it is proved of the ledger alone.
LedgerOK == LP!TypeOK /\ LP!Consistent

\* Who works for the key has read the project first, and so has whoever
\* released a bundle.
WorkersHaveRead ==
  /\ \A w \in Workers : turn[w] # "idle" => reading[w] # NULL
  /\ \A b \in LP!Released : reading[b] # NULL

\* What was read is of the key, was approved and passes as an export.
ReadingsStand ==
  /\ reading \in [Workers -> Artifact \cup {NULL}]
  /\ \A w \in Workers : reading[w] # NULL =>
       /\ reading[w] \in copies
       /\ VersionOf(reading[w]) = Key
       /\ ExportPasses(reading[w], KeyProfile)

\* As long as nobody has saved the project, it is as it was read.
FreshAreCurrent ==
  \A w \in fresh :
    /\ w \in Workers /\ reading[w] # NULL
    /\ MayExport /\ artifact = reading[w]

\* The row of the key is what Project Control has under the key.
RowIsEffect ==
  Under(effects, Key, KeyProfile) =
    {BundleOf(b) : b \in {row.result} \ {NULL}}

\* Whoever got an answer got what the row holds.
AnswersAreOfRow ==
  /\ answer \in [Workers -> Bundle \cup {NULL}]
  /\ \A w \in Workers : answer[w] # NULL =>
       row.result # NULL /\ answer[w] = BundleOf(row.result)

Linked ==
  /\ LedgerOK
  /\ WorkersHaveRead
  /\ ReadingsStand
  /\ FreshAreCurrent
  /\ RowIsEffect
  /\ AnswersAreOfRow

\* The ledger that the threads use is the one the theorems are about.
LEMMA SameLedger ==
  /\ Ledger!Init => LP!Init
  /\ Ledger!Released = LP!Released
  /\ \A w \in Workers :
       /\ Ledger!AnswerFromLedger(w) => LP!AnswerFromLedger(w)
       /\ Ledger!Claim(w) => LP!Claim(w)
       /\ Ledger!Reconcile(w) => LP!Reconcile(w)
       /\ Ledger!Release(w) => LP!Release(w)
       /\ Ledger!Settle(w) => LP!Settle(w)
       /\ Ledger!Complete(w) => LP!Complete(w)
       /\ Ledger!Fail(w) => LP!Fail(w)
       /\ Ledger!Audit(w) => LP!Audit(w)
       /\ Ledger!Expire(w) => LP!Expire(w)
       /\ Ledger!Crash(w) => LP!Crash(w)
       /\ Ledger!Accepts(found[w]) => LP!Accepts(found[w])
<1> USE DEF Ledger!Goto, LP!Goto, Ledger!Released, LP!Released,
            Ledger!Accepts, LP!Accepts, Ledger!Completed, LP!Completed
<1>1. Ledger!Init => LP!Init
  BY DEF Ledger!Init, LP!Init
<1>2. ASSUME NEW w \in Workers
      PROVE  /\ Ledger!AnswerFromLedger(w) => LP!AnswerFromLedger(w)
             /\ Ledger!Reconcile(w) => LP!Reconcile(w)
             /\ Ledger!Release(w) => LP!Release(w)
             /\ Ledger!Crash(w) => LP!Crash(w)
  BY DEF Ledger!AnswerFromLedger, LP!AnswerFromLedger, Ledger!Reconcile,
         LP!Reconcile, Ledger!Release, LP!Release, Ledger!Crash, LP!Crash
<1>3. ASSUME NEW w \in Workers
      PROVE  /\ Ledger!Settle(w) => LP!Settle(w)
             /\ Ledger!Complete(w) => LP!Complete(w)
             /\ Ledger!Audit(w) => LP!Audit(w)
             /\ Ledger!Expire(w) => LP!Expire(w)
  BY DEF Ledger!Settle, LP!Settle, Ledger!Complete, LP!Complete,
         Ledger!Audit, LP!Audit, Ledger!Expire, LP!Expire,
         Ledger!AtWork, LP!AtWork
<1>4. ASSUME NEW w \in Workers PROVE Ledger!Fail(w) => LP!Fail(w)
  BY Zenon DEF Ledger!Fail, LP!Fail
<1>5. ASSUME NEW w \in Workers PROVE Ledger!Claim(w) => LP!Claim(w)
  BY Zenon DEF Ledger!Claim, LP!Claim, Ledger!MayClaim, LP!MayClaim,
               Ledger!LeaseIsLive, LP!LeaseIsLive,
               Ledger!RecoveryRequired, LP!RecoveryRequired
<1> QED
  BY <1>1, <1>2, <1>3, <1>4, <1>5

\* A thread in the call moves the ledger as its own specification does.
LEMMA ThreadMovesLedger ==
  ASSUME NEW w \in Workers, Call(w) \/ Work(w)
  PROVE  LP!Next
  BY SameLedger DEF Call, Work, LP!Next

\* What is proved of the ledger alone holds of it here.
LEMMA LedgerStep ==
  ASSUME DurableAssumption, LedgerOK, [LP!Next]_(LP!vars)
  PROVE  LedgerOK'
<1>1. LP!TypeOK'
  BY LP!StepTypes DEF DurableAssumption, LedgerOK
<1>2. LP!Consistent'
  BY LP!StepConsistent DEF DurableAssumption, LedgerOK
<1> QED
  BY <1>1, <1>2 DEF LedgerOK

\* Outside the call the ledger stands still.
LEMMA LedgerStandsStill ==
  ASSUME DurableAssumption, LedgerOK, UNCHANGED ledgerVars
  PROVE  LedgerOK' /\ LP!Released' = LP!Released
<1>1. UNCHANGED LP!vars
  BY DEF ledgerVars, LP!vars
<1>2. LP!Released' = LP!Released
  BY DEF ledgerVars, LP!Released
<1> QED
  BY <1>1, <1>2, LedgerStep

\* A row is settled once, on a bundle that was released.
LEMMA RowSettlesOnce ==
  ASSUME DurableAssumption, LedgerOK, NEW w \in Workers, Call(w) \/ Work(w)
  PROVE  /\ LedgerOK'
         /\ \/ row'.result = row.result
            \/ row.result = NULL
         /\ row'.result # NULL => row'.result \in LP!Released'
<1>1. LP!Next
  BY ThreadMovesLedger
<1>2. LedgerOK'
  BY <1>1, LedgerStep
<1>3. [LP!Promise!EPNext]_<<row.result, handed>>
  BY <1>1, LP!StepImplements DEF DurableAssumption, LedgerOK
<1>4. row'.result = row.result \/ row.result = NULL
  BY <1>3
  DEF LP!Promise!EPNext, LP!Promise!Tell, LP!Promise!Settle,
      LP!Promise!SettleAndTell
<1>5. row'.result # NULL => row'.result \in LP!Released'
  <2>1. (row.status = "COMPLETED" => row.result \in LP!Released)'
    BY <1>2 DEF LedgerOK, LP!Consistent, LP!ResultsAreReal
  <2>2. ((row.status = "COMPLETED") = (row.result # NULL))'
    BY <1>2 DEF LedgerOK, LP!TypeOK
  <2> QED
    BY <2>1, <2>2
<1> QED
  BY <1>2, <1>4, <1>5

\* A thread moves nobody else's step, and what is released meanwhile is its
\* own.
LEMMA OneThreadMoves ==
  ASSUME DurableAssumption, LedgerOK, NEW w \in Workers, Call(w) \/ Work(w)
  PROVE  /\ \A v \in Workers : turn'[v] # "idle" => v = w \/ turn'[v] = turn[v]
         /\ LP!Released' \subseteq LP!Released \cup {w}
         /\ reading[w] # NULL \/ turn[w] # "idle" \/ UNCHANGED <<world, turn>>
<1>1. turn \in [Workers -> LP!Steps]
  BY DEF LedgerOK, LP!TypeOK
<1>2. world' = world => LP!Released' = LP!Released
  BY DEF LP!Released
<1>3. world' = Append(world, w) => LP!Released' = LP!Released \cup {w}
  BY LP!ReleasedGrows DEF DurableAssumption, LedgerOK
<1>4. world' = world \/ world' = Append(world, w)
  BY DEF Call, Work, Ledger!AnswerFromLedger, Ledger!Claim, Ledger!Reconcile,
         Ledger!Release, Ledger!Settle, Ledger!Complete, Ledger!Fail,
         Ledger!Audit, Ledger!Expire, Ledger!Crash
<1>5. \A v \in Workers : v # w => turn'[v] = turn[v]
  BY <1>1
  DEF Call, Work, Ledger!AnswerFromLedger, Ledger!Claim, Ledger!Reconcile,
      Ledger!Release, Ledger!Settle, Ledger!Complete, Ledger!Fail,
      Ledger!Audit, Ledger!Expire, Ledger!Crash, Ledger!Goto
<1>6. reading[w] # NULL \/ turn[w] # "idle" \/ UNCHANGED <<world, turn>>
  BY DEF Call, Work, Ledger!Reconcile,
         Ledger!Release, Ledger!Settle, Ledger!Complete, Ledger!Fail,
         Ledger!Audit, Ledger!Expire, Ledger!Crash
<1> QED
  BY <1>2, <1>3, <1>4, <1>5, <1>6

\* Bundles are named by the workers that had them released.
LEMMA ReleasedAreWorkers ==
  ASSUME LedgerOK PROVE LP!Released \subseteq Workers
  BY LenProperties DEF LedgerOK, LP!TypeOK, LP!Released

\* A thread's release is a release of Project Control, or one that was made
\* before.
LEMMA ReleaseIsControl ==
  ASSUME DurableAssumption, Linked, NEW w \in Workers, Release(w)
  PROVE  \/ \E copy \in copies, profile \in Profiles :
              DeliverUncommitted(copy, profile)
         \/ UNCHANGED vars
<1>1. /\ row'.result = row.result \/ row.result = NULL
      /\ row'.result # NULL => row'.result \in LP!Released'
      /\ LP!Released' \subseteq LP!Released \cup {w}
      /\ LP!Released \subseteq Workers
  BY RowSettlesOnce, OneThreadMoves, ReleasedAreWorkers DEF Linked, Release
<1>2. effects' = effects \cup {BundleOf(b) : b \in {row'.result} \ {NULL}}
  BY DEF Release
<1>3. UNCHANGED <<state, contentVars, approvalVars, gateVars, deliveries,
                  copies, resume_state, history, run, changed>>
  BY DEF Release
<1>4. CASE row'.result = row.result \/ row'.result = NULL
  <2>1. {BundleOf(b) : b \in {row'.result} \ {NULL}} \subseteq effects
    BY <1>1, <1>4 DEF Linked, RowIsEffect, Under
  <2>2. effects' = effects
    BY <1>2, <2>1
  <2> QED
    BY <1>3, <2>2 DEF vars, projectVars, releaseVars
<1>5. CASE row.result = NULL /\ row'.result # NULL
  <2> DEFINE b == row'.result
  <2>1. b \in Workers
    BY <1>1, <1>5
  <2>2. reading[b] # NULL
    <3>1. CASE b \in LP!Released
      BY <3>1 DEF Linked, WorkersHaveRead
    <3>2. CASE b \notin LP!Released
      <4>1. b = w /\ world' # world
        BY <1>1, <1>5, <3>2 DEF LP!Released
      <4>2. reading[w] # NULL \/ turn[w] # "idle"
        BY <4>1, OneThreadMoves DEF Linked, Release
      <4> QED
        BY <4>1, <4>2 DEF Linked, WorkersHaveRead
    <3> QED
      BY <3>1, <3>2
  <2>3. /\ reading[b] \in copies
        /\ VersionOf(reading[b]) = Key
        /\ ExportPasses(reading[b], KeyProfile)
    BY <2>1, <2>2 DEF Linked, ReadingsStand
  <2>4. Under(effects, Key, KeyProfile) = {}
    BY <1>5 DEF Linked, RowIsEffect
  <2>5. ReleaseOf(reading[b], KeyProfile) = {BundleOf(b)}
    BY <2>3, <2>4 DEF ReleaseOf, Under, BundleOf
  <2>6. effects' = effects \cup {BundleOf(b)}
    BY <1>2, <1>5
  <2>7. DeliverUncommitted(reading[b], KeyProfile)
    BY <1>3, <2>3, <2>5, <2>6 DEF DeliverUncommitted
  <2> QED
    BY <2>3, <2>7 DEF DurableAssumption
<1> QED
  BY <1>1, <1>4, <1>5

\* A thread that saves the project has found it as it read it, and shows what
\* the ledger holds.
LEMMA SaveIsDeliver ==
  ASSUME Linked, NEW w \in Workers, Save(w)
  PROVE  Deliver(KeyProfile)
<1>1. /\ MayExport /\ artifact = reading[w] /\ reading[w] # NULL
      /\ answer[w] = BundleOf(row.result) /\ row.result # NULL
  BY DEF Linked, FreshAreCurrent, AnswersAreOfRow, Save
<1>2. VersionOf(artifact) = Key /\ ExportPasses(artifact, KeyProfile)
  BY <1>1 DEF Linked, ReadingsStand
<1>3. Under(effects, Key, KeyProfile) = {answer[w]}
  BY <1>1 DEF Linked, RowIsEffect
<1>4. answer[w] \in ReleaseOf(artifact, KeyProfile)
  BY <1>2, <1>3 DEF ReleaseOf, Under
<1>5. effects' = effects \cup {answer[w]}
  BY <1>3 DEF Save, Under
<1> QED
  BY <1>1, <1>2, <1>4, <1>5 DEF Save, Deliver

\* Every step of threads and ledger is a step of Project Control or nothing.
LEMMA DurableStepIsControl ==
  ASSUME DurableAssumption, Linked, [DurableNext]_durableVars
  PROVE  [Next]_vars
<1>1. CASE Others
  BY <1>1 DEF Others, Next
<1>2. ASSUME NEW w \in Workers, Read(w) PROVE [Next]_vars
  BY <1>2 DEF Read, Next
<1>3. ASSUME NEW w \in Workers, Release(w) PROVE [Next]_vars
  BY <1>3, ReleaseIsControl DEF Next
<1>4. ASSUME NEW w \in Workers, Save(w) PROVE [Next]_vars
  BY <1>4, SaveIsDeliver DEF Next, DurableAssumption
<1>5. CASE UNCHANGED durableVars
  BY <1>5 DEF durableVars
<1> QED
  BY <1>1, <1>2, <1>3, <1>4, <1>5 DEF DurableNext

\* Who has read the project: the threads at work and those that released.
LEMMA StepWorkersHaveRead ==
  ASSUME DurableAssumption, Linked, DurableNext
  PROVE  WorkersHaveRead'
<1>1. ASSUME UNCHANGED ledgerVars,
             \A w \in Workers : reading[w] # NULL => reading'[w] # NULL
      PROVE  WorkersHaveRead'
  <2>1. LP!Released' = LP!Released /\ LP!Released \subseteq Workers
    BY <1>1, LedgerStandsStill, ReleasedAreWorkers DEF Linked
  <2> QED
    BY <1>1, <2>1 DEF Linked, WorkersHaveRead, ledgerVars
<1>2. CASE Others
  BY <1>1, <1>2 DEF Others
<1>3. ASSUME NEW w \in Workers, Read(w) PROVE WorkersHaveRead'
  <2>1. \A v \in Workers : reading[v] # NULL => reading'[v] # NULL
    BY <1>3 DEF Read, Linked, ReadingsStand
  <2> QED
    BY <1>1, <1>3, <2>1 DEF Read
<1>4. ASSUME NEW w \in Workers, Release(w) PROVE WorkersHaveRead'
  <2>1. /\ \A v \in Workers : turn'[v] # "idle" => v = w \/ turn'[v] = turn[v]
        /\ LP!Released' \subseteq LP!Released \cup {w}
        /\ reading[w] # NULL \/ turn[w] # "idle" \/ UNCHANGED <<world, turn>>
    BY <1>4, OneThreadMoves DEF Linked, Release
  <2>2. reading' = reading
    BY <1>4 DEF Release
  <2>3. CASE UNCHANGED <<world, turn>>
    <3>1. LP!Released' = LP!Released
      BY <2>3 DEF LP!Released
    <3> QED
      BY <2>2, <2>3, <3>1 DEF Linked, WorkersHaveRead
  <2>4. CASE reading[w] # NULL \/ turn[w] # "idle"
    <3>1. reading[w] # NULL
      BY <2>4 DEF Linked, WorkersHaveRead
    <3> QED
      BY <2>1, <2>2, <3>1 DEF Linked, WorkersHaveRead
  <2> QED
    BY <2>1, <2>3, <2>4
<1>5. ASSUME NEW w \in Workers, Save(w) PROVE WorkersHaveRead'
  BY <1>1, <1>5 DEF Save
<1> QED
  BY <1>2, <1>3, <1>4, <1>5 DEF DurableNext

\* What was read stays among what threads have read.
LEMMA CopiesGrow ==
  ASSUME [Next]_vars PROVE copies \subseteq copies'
  BY DEF Next, SavedCommand, Advance, TakeBack,
      Aside, vars, projectVars, releaseVars, Prepare,
         GenerateCandidates, ApproveDirection, Produce, Validate,
         ApproveExport, Deliver, ReadForDelivery, DeliverUncommitted,
         ExportRejected, DirectionFeedback, ArtifactFeedback, FactFeedback,
         Restore, StartRun, WorkerReports, WorkerResumes, Pause, Cancel,
         Resume, CancelUncommitted, ResumeUncommitted, Reconcile

\* Nothing that happens to the project changes what a thread has read.
LEMMA StepReadingsStand ==
  ASSUME DurableAssumption, TypeOK, Linked, DurableNext
  PROVE  ReadingsStand'
<1>1. copies \subseteq copies'
  BY DurableStepIsControl, CopiesGrow
<1>2. CASE UNCHANGED reading
  BY <1>1, <1>2 DEF Linked, ReadingsStand
<1>3. ASSUME NEW w \in Workers, Read(w) PROVE ReadingsStand'
  <2>1. /\ artifact \in Artifact /\ artifact \in copies'
        /\ VersionOf(artifact) = Key /\ ExportPasses(artifact, KeyProfile)
        /\ reading' = [reading EXCEPT ![w] = artifact]
    BY <1>3 DEF Read, ReadForDelivery, MayExport, TypeOK
  <2> QED
    BY <1>1, <2>1 DEF Linked, ReadingsStand
<1> QED
  BY <1>2, <1>3 DEF DurableNext, Others, Release, Save

\* A saved command makes all earlier readings stale; nothing else changes the
\* artifact or its approval.
LEMMA StepFreshAreCurrent ==
  ASSUME DurableAssumption, Linked, DurableNext
  PROVE  FreshAreCurrent'
<1>1. CASE fresh' = {}
  BY <1>1 DEF FreshAreCurrent
<1>2. CASE UNCHANGED <<state, context, artifact, exportApprovals, fresh,
                       reading>>
  BY <1>2 DEF Linked, FreshAreCurrent, MayExport
<1>3. ASSUME NEW w \in Workers, Read(w) PROVE FreshAreCurrent'
  <2>1. /\ MayExport /\ fresh' = fresh \cup {w}
        /\ reading[w] = NULL
        /\ reading' = [reading EXCEPT ![w] = artifact]
        /\ UNCHANGED <<state, context, artifact, exportApprovals>>
    BY <1>3 DEF Read, ReadForDelivery, contentVars, approvalVars
  <2>2. MayExport' /\ artifact # NULL
    BY <2>1 DEF MayExport
  <2>3. /\ reading'[w] = artifact
        /\ \A v \in Workers \ {w} : reading'[v] = reading[v]
    BY <2>1 DEF Linked, ReadingsStand
  <2> QED
    BY <2>1, <2>2, <2>3 DEF Linked, FreshAreCurrent
<1>4. CASE Others
  BY <1>1, <1>2, <1>4
  DEF Others, Aside, StartRun, WorkerReports, WorkerResumes,
      CancelUncommitted, ResumeUncommitted, ReadForDelivery,
      DeliverUncommitted, projectVars, contentVars, approvalVars
<1>5. ASSUME NEW w \in Workers, Release(w) PROVE FreshAreCurrent'
  BY <1>2, <1>5 DEF Release, contentVars, approvalVars
<1> QED
  BY <1>1, <1>3, <1>4, <1>5 DEF DurableNext, Save

\* Who settled the row has read what it settled it with, so nothing that is
\* read later changes the bundle.
LEMMA BundleStays ==
  ASSUME Linked, row.result # NULL,
         \A w \in Workers : reading[w] # NULL => reading'[w] = reading[w]
  PROVE  /\ row.result \in Workers /\ reading[row.result] # NULL
         /\ BundleOf(row.result) = [target |-> Key, profile |-> KeyProfile,
                                    content |-> reading'[row.result].content]
<1>1. row.result \in LP!Released
  BY DEF Linked, LedgerOK, LP!TypeOK, LP!Consistent, LP!ResultsAreReal
<1>2. row.result \in Workers /\ reading[row.result] # NULL
  BY <1>1, ReleasedAreWorkers DEF Linked, WorkersHaveRead
<1> QED
  BY <1>2 DEF BundleOf

\* Other deliveries leave the key alone.
LEMMA OthersLeaveKey ==
  ASSUME Others
  PROVE  Under(effects', Key, KeyProfile) = Under(effects, Key, KeyProfile)
<1>1. CASE effects' = effects
  BY <1>1
<1>2. ASSUME NEW a, NEW profile \in Profiles, ~OfKey(a, profile),
             NEW bundle \in ReleaseOf(a, profile),
             effects' = effects \cup {bundle}
      PROVE  Under(effects', Key, KeyProfile) = Under(effects, Key, KeyProfile)
  <2>1. bundle.target = VersionOf(a) /\ bundle.profile = profile
    BY <1>2 DEF ReleaseOf
  <2>2. ~(bundle.target = Key /\ bundle.profile = KeyProfile)
    BY <1>2, <2>1 DEF OfKey
  <2> QED
    BY <1>2, <2>2 DEF Under
<1>3. CASE SavedCommand
  BY <1>1, <1>3
  DEF SavedCommand, Advance, TakeBack, releaseVars, Prepare, GenerateCandidates,
      ApproveDirection, Produce, Validate, ApproveExport, ExportRejected,
      DirectionFeedback, ArtifactFeedback, FactFeedback, Restore, Pause,
      Cancel, Resume, Reconcile
<1>4. CASE Aside \/ ReadForDelivery
  BY <1>1, <1>4
  DEF Aside, StartRun, WorkerReports, WorkerResumes, CancelUncommitted,
      ResumeUncommitted, ReadForDelivery, projectVars, releaseVars
<1>5. ASSUME NEW profile \in Profiles, Deliver(profile),
             ~OfKey(artifact, profile)
      PROVE  Under(effects', Key, KeyProfile) = Under(effects, Key, KeyProfile)
  BY <1>2, <1>5 DEF Deliver
<1>6. ASSUME NEW copy \in copies, NEW profile \in Profiles,
             DeliverUncommitted(copy, profile), ~OfKey(copy, profile)
      PROVE  Under(effects', Key, KeyProfile) = Under(effects, Key, KeyProfile)
  BY <1>2, <1>6 DEF DeliverUncommitted
<1> QED
  BY <1>3, <1>4, <1>5, <1>6 DEF Others

LEMMA StepRowIsEffect ==
  ASSUME DurableAssumption, Linked, DurableNext
  PROVE  RowIsEffect'
<1>1. \A w \in Workers : reading[w] # NULL => reading'[w] = reading[w]
  BY DEF Linked, ReadingsStand, DurableNext, Others, Read, Release, Save
<1>2. ASSUME row' = row,
             Under(effects', Key, KeyProfile) = Under(effects, Key, KeyProfile)
      PROVE  RowIsEffect'
  <2>1. CASE row.result = NULL
    BY <1>2, <2>1 DEF Linked, RowIsEffect
  <2>2. CASE row.result # NULL
    <3>1. BundleOf(row.result)' = BundleOf(row.result)
      BY <1>1, <1>2, <2>2, BundleStays DEF BundleOf
    <3>2. Under(effects, Key, KeyProfile) = {BundleOf(row.result)}
      BY <2>2 DEF Linked, RowIsEffect
    <3>3. {BundleOf(b) : b \in {row.result} \ {NULL}}'
            = {BundleOf(row.result)'}
      BY <1>2, <2>2
    <3> QED
      BY <1>2, <3>1, <3>2, <3>3 DEF RowIsEffect
  <2> QED
    BY <2>1, <2>2
<1>3. CASE Others
  BY <1>2, <1>3, OthersLeaveKey DEF Others, ledgerVars
<1>4. ASSUME NEW w \in Workers, Read(w) \/ Save(w) PROVE RowIsEffect'
  BY <1>2, <1>4 DEF Read, ReadForDelivery, Save, ledgerVars
<1>5. ASSUME NEW w \in Workers, Release(w) PROVE RowIsEffect'
  <2>1. /\ reading' = reading
        /\ effects' = effects \cup {BundleOf(b) : b \in {row'.result} \ {NULL}}
    BY <1>5 DEF Release
  <2>2. row'.result = row.result \/ row.result = NULL
    BY <1>5, RowSettlesOnce DEF Linked, Release
  <2>3. \A b : BundleOf(b)' = BundleOf(b)
    BY <2>1 DEF BundleOf
  <2>4. Under(effects', Key, KeyProfile)
          = Under(effects, Key, KeyProfile)
            \cup {BundleOf(b) : b \in {row'.result} \ {NULL}}
    BY <2>1 DEF Under, BundleOf
  <2>5. Under(effects', Key, KeyProfile)
          = {BundleOf(b) : b \in {row'.result} \ {NULL}}
    BY <2>2, <2>4 DEF Linked, RowIsEffect
  <2> QED
    BY <2>3, <2>5 DEF RowIsEffect
<1> QED
  BY <1>3, <1>4, <1>5 DEF DurableNext

\* What a call returns is what the row holds.
LEMMA ReturnsAreOfRow ==
  ASSUME DurableAssumption, LedgerOK, NEW w \in Workers, Call(w) \/ Work(w)
  PROVE  \/ answer' = answer
         \/ row'.result \in Workers /\ Returns(w, row'.result)
<1>1. LP!AnswerFromLedger(w) => row' = row /\ row.result \in Workers
  BY DEF LP!AnswerFromLedger, LedgerOK, LP!TypeOK, LP!Row
<1>2. LP!Settle(w) /\ Ledger!Accepts(found[w])
      => row'.result = found[w] /\ found[w] \in Workers
  BY SameLedger
  DEF LP!Settle, LP!Completed, LedgerOK, LP!TypeOK
<1>3. LP!Audit(w) /\ turn[w] = "audit success"
      => row' = row /\ row.result = w
  BY DEF LP!Audit, LedgerOK, LP!Consistent, LP!WorkersConsistent
<1> QED
  BY <1>1, <1>2, <1>3, SameLedger DEF Call, Work

\* An answer stays right, because the row is settled once and for a reading
\* that stands.
LEMMA StepAnswersAreOfRow ==
  ASSUME DurableAssumption, TypeOK, Linked, DurableNext
  PROVE  AnswersAreOfRow'
<1>1. \A w \in Workers : reading[w] # NULL => reading'[w] = reading[w]
  BY DEF Linked, ReadingsStand, DurableNext, Others, Read, Release, Save
<1>2. ASSUME answer' = answer, row.result # NULL => row'.result = row.result
      PROVE  AnswersAreOfRow'
  <2>1. ASSUME NEW w \in Workers, answer[w] # NULL
        PROVE  /\ row'.result # NULL
               /\ answer[w] = [target |-> Key, profile |-> KeyProfile,
                               content |-> reading'[row'.result].content]
    <3>1. row.result # NULL /\ answer[w] = BundleOf(row.result)
      BY <2>1 DEF Linked, AnswersAreOfRow
    <3>2. BundleOf(row.result) = [target |-> Key, profile |-> KeyProfile,
                                  content |-> reading'[row.result].content]
      BY <1>1, <3>1, BundleStays
    <3> QED
      BY <1>2, <3>1, <3>2
  <2>2. answer \in [Workers -> Bundle \cup {NULL}]
    BY DEF Linked, AnswersAreOfRow
  <2> QED
    BY <1>2, <2>1, <2>2 DEF AnswersAreOfRow, BundleOf
<1>3. CASE Others
  BY <1>2, <1>3 DEF Others, ledgerVars
<1>4. ASSUME NEW w \in Workers, Read(w) \/ Save(w) PROVE AnswersAreOfRow'
  BY <1>2, <1>4 DEF Read, Save, ledgerVars
<1>5. ASSUME NEW w \in Workers, Release(w) PROVE AnswersAreOfRow'
  <2>1. row'.result = row.result \/ row.result = NULL
    BY <1>5, RowSettlesOnce DEF Linked, Release
  <2>2. CASE answer' = answer
    BY <1>2, <2>1, <2>2
  <2>3. CASE row'.result \in Workers /\ Returns(w, row'.result)
    <3> DEFINE b == row'.result
    <3>1. /\ b # NULL /\ b \in Workers
          /\ answer' = [answer EXCEPT ![w] = BundleOf(b)]
          /\ reading' = reading
      BY <1>5, <2>3 DEF Returns, Release, DurableAssumption
    <3>2. reading[b] # NULL
      <4>1. WorkersHaveRead' /\ b \in LP!Released'
        BY <1>5, <3>1, StepWorkersHaveRead, RowSettlesOnce
        DEF Linked, Release, DurableNext
      <4> QED
        BY <3>1, <4>1 DEF WorkersHaveRead
    <3>3. BundleOf(b) \in Bundle
      <4>1. reading[b] \in Artifact /\ VersionOf(reading[b]) = Key
        BY <3>1, <3>2 DEF Linked, ReadingsStand, TypeOK
      <4>2. Key \in ArtifactVersion /\ reading[b].content \in Content
        BY <4>1, VersionTypes DEF Artifact
      <4> QED
        BY <4>2 DEF BundleOf, Bundle, DurableAssumption
    <3>4. ASSUME NEW v \in Workers, answer'[v] # NULL
          PROVE  answer'[v] = BundleOf(b)
      <4>1. CASE v = w
        BY <3>1, <4>1 DEF Linked, AnswersAreOfRow
      <4>2. CASE v # w
        <5>1. answer[v] # NULL /\ answer'[v] = answer[v]
          BY <3>1, <3>4, <4>2 DEF Linked, AnswersAreOfRow
        <5>2. row.result # NULL /\ answer[v] = BundleOf(row.result)
          BY <5>1 DEF Linked, AnswersAreOfRow
        <5> QED
          BY <2>1, <5>1, <5>2
      <4> QED
        BY <4>1, <4>2
    <3>5. answer' \in [Workers -> Bundle \cup {NULL}]
      BY <3>1, <3>3 DEF Linked, AnswersAreOfRow
    <3>6. ASSUME NEW v \in Workers, answer'[v] # NULL
          PROVE  answer'[v] = [target |-> Key, profile |-> KeyProfile,
                               content |-> reading'[row'.result].content]
      BY <3>1, <3>4, <3>6 DEF BundleOf
    <3> QED
      BY <3>1, <3>5, <3>6 DEF AnswersAreOfRow, BundleOf
  <2> QED
    BY <1>5, <2>2, <2>3, ReturnsAreOfRow DEF Linked, Release
<1> QED
  BY <1>3, <1>4, <1>5 DEF DurableNext

\* The links between project, threads and ledger, together.
LEMMA StepLinked ==
  ASSUME DurableAssumption, TypeOK, Linked, [DurableNext]_durableVars
  PROVE  Linked'
<1>1. CASE UNCHANGED durableVars
  <2>1. UNCHANGED ledgerVars
    BY <1>1 DEF durableVars
  <2>2. LedgerOK' /\ LP!Released' = LP!Released
    BY <2>1, LedgerStandsStill DEF Linked
  <2> QED
    BY <1>1, <2>2
    DEF durableVars, ledgerVars, threadVars, vars, projectVars, releaseVars,
        contentVars, approvalVars, Linked, WorkersHaveRead, ReadingsStand,
        FreshAreCurrent, MayExport, RowIsEffect, AnswersAreOfRow, BundleOf
<1>2. CASE DurableNext
  <2>1. LedgerOK'
    BY <1>2, LedgerStandsStill, RowSettlesOnce
    DEF Linked, DurableNext, Others, Read, Release, Save
  <2> QED
    BY <1>2, <2>1, StepWorkersHaveRead, StepReadingsStand,
       StepFreshAreCurrent, StepRowIsEffect, StepAnswersAreOfRow
    DEF Linked
<1> QED
  BY <1>1, <1>2

\* Initially nobody has read, released or been answered.
LEMMA InitLinked ==
  ASSUME DurableAssumption, DurableInit PROVE Linked
<1>1. LP!Init
  BY SameLedger DEF DurableInit
<1>2. LedgerOK
  BY <1>1, LP!InitTypes, LP!InitConsistent DEF LedgerOK, DurableAssumption
<1>3. /\ row.result = NULL /\ LP!Released = {}
      /\ \A w \in Workers : turn[w] = "idle"
  BY <1>1, EmptySeq DEF LP!Init, LP!Released
<1>4. RowIsEffect
  BY <1>3 DEF DurableInit, Init, RowIsEffect, Under
<1> QED
  BY <1>2, <1>3, <1>4
  DEF DurableInit, Linked, WorkersHaveRead, ReadingsStand, FreshAreCurrent,
      AnswersAreOfRow

\* Deliveries through the ledger, with any threads, leases and crashes, are
\* what Project Control calls releases, whether saved or not.
THEOREM DurableImplementsControl ==
  ASSUME DurableAssumption PROVE DurableSpec => ImplementsControl
<1>1. DurableInit => Init /\ TypeOK /\ Linked
  BY InitTypes, InitLinked DEF DurableInit
<1>2. TypeOK /\ Linked /\ [DurableNext]_durableVars => [Next]_vars
  BY DurableStepIsControl
<1>3. TypeOK /\ Linked /\ [DurableNext]_durableVars => (TypeOK /\ Linked)'
  BY <1>2, StepTypes, StepLinked
<1> QED
  BY <1>1, <1>2, <1>3, PTL DEF DurableSpec, ImplementsControl, Spec

\* The threads use the ledger as its own specification says workers do.
THEOREM DurableImplementsLedger == DurableSpec => ImplementsLedger
<1>1. DurableInit => Ledger!Init
  BY DEF DurableInit
<1>2. [DurableNext]_durableVars => [Ledger!Next]_(Ledger!vars)
  BY DEF DurableNext, durableVars, ledgerVars, Others, Read, Release, Save,
         Call, Work, Ledger!Next, Ledger!vars
<1> QED
  BY <1>1, <1>2, PTL DEF DurableSpec, ImplementsLedger, Ledger!Spec

\* Whatever the adapter is made to release, and whatever becomes of the call,
\* has passed the gate, and what the project shows was released.
THEOREM DurableCorrect ==
  ASSUME DurableAssumption
  PROVE  DurableSpec => [](WorldIsSound /\ ShownIsReleased)
<1>1. DurableInit => TypeOK /\ Safe /\ Linked
  BY InitTypes, InitSafe, InitLinked DEF DurableInit
<1>2. TypeOK /\ Safe /\ Linked /\ [DurableNext]_durableVars
      => (TypeOK /\ Safe /\ Linked)'
  BY DurableStepIsControl, StepTypes, StepSafe, StepLinked
<1>3. TypeOK /\ Safe /\ Linked => WorldIsSound
  BY SameLedger, ReleasedAreWorkers
  DEF Linked, WorkersHaveRead, ReadingsStand, Safe, CopiesAreSound,
      ExportPasses, WorldIsSound
<1>4. TypeOK /\ Safe /\ Linked => ShownIsReleased
  <2> SUFFICES ASSUME TypeOK, Safe, Linked,
                      NEW d \in Under(deliveries, Key, KeyProfile)
               PROVE  /\ row.result \in Ledger!Released
                      /\ d = BundleOf(row.result)
    BY DEF ShownIsReleased
  <2>1. d \in Under(effects, Key, KeyProfile)
    BY DEF Safe, ReleasesAreSound, Under
  <2>2. row.result # NULL /\ d = BundleOf(row.result)
    BY <2>1 DEF Linked, RowIsEffect
  <2>3. row.result \in LP!Released
    BY <2>2
    DEF Linked, LedgerOK, LP!TypeOK, LP!Consistent, LP!ResultsAreReal
  <2> QED
    BY <2>2, <2>3, SameLedger
<1> QED
  BY <1>1, <1>2, <1>3, <1>4, PTL DEF DurableSpec
=============================================================================
