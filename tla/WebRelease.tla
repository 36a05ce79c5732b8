----------------------------- MODULE WebRelease -----------------------------
(***************************************************************************)
(* The path from a candidate to a release with the adapters Phase 6 binds: *)
(* which ports the composition root gives the control plane                *)
(* (src/src/oeydesign/phase6.py, composition.py), the Web quality gate and *)
(* the deterministic one it replaces (quality.py, stubs.py), the delivery  *)
(* validation the control plane does not call (delivery.py), and the       *)
(* commands of control.py that pass through them.                          *)
(*                                                                         *)
(* ProjectControl models every command with an abstract gate.  Here the    *)
(* gate is the code's, contents have the traits the gates look for, and a  *)
(* replaced artifact port answers with anything: an export of other        *)
(* content, of another revision, or without a manifest.                    *)
(*                                                                         *)
(* Abstractions: one candidate a brief, named by it; a direction is the    *)
(* candidate revision it was approved from and an artifact's id is its     *)
(* direction; the quality gate is one of the repository's two, under its   *)
(* own version or another; a release either happens or finds its key       *)
(* released (DeliveryLedger has the keys).  Restores and runs that end the *)
(* project, which withdraw every approval or leave nothing to release, are *)
(* left to ProjectControl.                                                 *)
(***************************************************************************)
EXTENDS Naturals

CONSTANTS
  NULL,           \* Python's None
  Contents,       \* contents the ports can produce
  Briefs,         \* briefs, each the preview the deterministic port draws
  Profiles,       \* delivery profiles a command can carry
  Bindings,       \* Phase6Bindings the application can be started with
  MaxRevision     \* bound: a candidate's and its artifact's revision together

(* What the gates can tell of a content. *)
Trait == {"BLANK",       \* nothing but white space
          "NO_ALT",      \* an image without alt
          "EXTERNAL",    \* refers to another site
          "ANCHOR",      \* stable data-oey anchors
          "BAD_ANCHOR",  \* one of them unsafe or twice the same
          "MOCK",        \* one of the mock signals
          "HARD_ERROR",  \* holds "[hard-error]"
          "VIOLATED"}    \* data-contract="violated"

ASSUME ContentsAssumption ==
  Contents \subseteq SUBSET Trait /\ Briefs \subseteq Contents
ASSUME BoundAssumption == MaxRevision \in Nat

----------------------------------------------------------------------------
(* Assembly *)

PortSlots == {"context.repository", "design.intelligence",
              "artifact.production", "quality.governance",
              "delivery.release"}
InfrastructureSlots == {"agent.engine", "render.web", "framework.build"}
RequiredSlots == PortSlots \cup InfrastructureSlots

\* What can be bound to a slot: nothing, a deterministic port under its own
\* version or under another one, as the tests bind it, and an adapter of its
\* own, under a version that is blank, says scaffold or says neither.
Adapter == {"none", "stub", "renamed", "blank", "scaffold", "real"}

ASSUME BindingsAssumption == Bindings \subseteq [RequiredSlots -> Adapter]

\* Mutant of Versions: whatever has a version is counted.
VersionsOfAny(bindings) ==
  {slot \in RequiredSlots : bindings[slot] \notin {"none", "blank"}}

\* Phase6Bindings.capability_versions: a port's version must not say stub, an
\* infrastructure version must not say scaffold either.  What goes by the
\* version is not looked at.
Versions(bindings) ==
  {slot \in PortSlots : bindings[slot] \in {"renamed", "scaffold", "real"}}
  \cup {slot \in InfrastructureSlots : bindings[slot] \in {"renamed", "real"}}

\* Phase6Application supplies a RepositoryIngestion where none is bound.
Supplied(bindings) ==
  [bindings EXCEPT !["context.repository"] =
     IF @ = "none" THEN "real" ELSE @]

\* assess_phase6_readiness.
Missing(bindings) == RequiredSlots \ Versions(Supplied(bindings))

\* require_real_slice_ready does not raise.
Ready(bindings) == Missing(bindings) = {}

----------------------------------------------------------------------------
(* Records *)

Candidate == [brief : Briefs, revision : 1 .. MaxRevision - 1,
              content : SUBSET Trait]
DirectionId == Briefs \X (1 .. MaxRevision - 1)
ApprovedDirection == [id : DirectionId, content : SUBSET Trait]
Version == {v \in DirectionId \X (1 .. MaxRevision - 1) :
              v[1][2] + v[2] <= MaxRevision}
ArtifactRevision == [id : DirectionId, revision : 1 .. MaxRevision,
                     content : SUBSET Trait]
RenderBundle == [version : Version, content : SUBSET Trait,
                 declared : BOOLEAN, errors : BOOLEAN]
DeliveryProfile == [declared : BOOLEAN, production : BOOLEAN,
                    simulate_hard_error : BOOLEAN]
\* mapping: its manifest is one.
ExportCandidate == [version : Version, content : SUBSET Trait,
                    declared : BOOLEAN, errors : BOOLEAN, mapping : BOOLEAN]

ASSUME ProfilesAssumption == Profiles \subseteq DeliveryProfile

FindingCode == {"EMPTY_RENDER", "IMAGE_ALT_MISSING", "EXTERNAL_RESOURCE",
                "ANCHOR_INVALID", "RENDERER_ERRORS", "MOCK_UNDECLARED",
                "MOCK_PRODUCTION", "DELIVERY_ANCHORS_MISSING",
                "EXPORT_INTEGRITY", "DELIVERY_CONTRACT_VIOLATION"}

\* A decision passes when it lists no hard error.
QualityDecision == [version : Version, hard_errors : SUBSET FindingCode]

VersionOf(a) == <<a.id, a.revision>>

\* The side effect, and what it was derived from.
DeliveryBundle == [artifact : Version, export : ExportCandidate,
                   decision : QualityDecision, approval : Version,
                   profile : Profiles]

VARIABLES
  bindings,       \* what the application was started with
  template_role,  \* constraints.template_role is DELIVERY_CONTRACT
  state,          \* project.state
  resume_state,   \* project.resume_state
  brief,          \* project.brief and context_package, NULL if one is missing
  candidate,      \* the candidate in hand
  assessed,       \* hard errors of its latest quality decision
  direction,      \* project.approved_direction
  artifact,       \* project.current_artifact
  quality,        \* the version project.current_quality is about
  approvals,      \* artifact versions with an active export approval
  released,       \* what the latest command released, NULL for nothing
  outlived        \* history: active export approvals older than the candidate

fixed == <<bindings, template_role>>
material == <<resume_state, brief>>
design == <<candidate, assessed>>
produced == <<direction, artifact>>
granted == <<approvals, outlived>>
vars == <<fixed, state, material, design, produced, quality, granted, released>>

ReleaseState == {"NEW", "NEEDS_INPUT", "READY_FOR_DESIGN",
                 "AWAITING_DIRECTION_APPROVAL", "PRODUCING", "VALIDATING",
                 "AWAITING_EXPORT_APPROVAL", "READY_TO_DELIVER", "DELIVERED"}

----------------------------------------------------------------------------
(* The gates *)

NoProfile == [declared |-> FALSE, production |-> FALSE,
              simulate_hard_error |-> FALSE]

\* _AccessibilityParser.
ImagesWithoutAlt(content) == "NO_ALT" \in content

\* AnchorRegistry.extract: one bad anchor and none is returned.
HasAnchors(content) == "ANCHOR" \in content /\ "BAD_ANCHOR" \notin content

\* A mock signal in an artifact: undeclared it blocks, declared it blocks a
\* production delivery only.
MockErrors(declared, production) ==
  IF ~declared THEN {"MOCK_UNDECLARED"}
  ELSE IF production THEN {"MOCK_PRODUCTION"} ELSE {}

\* WebQualityPort._check of a render or an export: one finding per check, and
\* none of the others once the content is empty.
WebErrors(subject, profile, contract) ==
  LET has(trait) == trait \in subject.content
      finds == [IMAGE_ALT_MISSING |-> ImagesWithoutAlt(subject.content),
                EXTERNAL_RESOURCE |-> has("EXTERNAL"),
                ANCHOR_INVALID |-> has("BAD_ANCHOR"),
                RENDERER_ERRORS |-> subject.errors,
                DELIVERY_ANCHORS_MISSING |->
                  contract /\ ~HasAnchors(subject.content)]
  IN IF has("BLANK") THEN {"EMPTY_RENDER"}
     ELSE {code \in DOMAIN finds : finds[code]}
          \cup IF has("MOCK")
               THEN MockErrors(subject.declared \/ profile.declared,
                               profile.production)
               ELSE {}

\* The same check of a candidate: it needs no anchors and may hold a mock.
WebCandidateErrors(content) ==
  LET finds == [IMAGE_ALT_MISSING |-> ImagesWithoutAlt(content),
                EXTERNAL_RESOURCE |-> "EXTERNAL" \in content,
                ANCHOR_INVALID |-> "BAD_ANCHOR" \in content]
  IN IF "BLANK" \in content THEN {"EMPTY_RENDER"}
     ELSE {code \in DOMAIN finds : finds[code]}

\* DeterministicQualityPort._hard_errors.
StubErrors(content, contract) ==
  {code \in {"EXPORT_INTEGRITY", "DELIVERY_CONTRACT_VIOLATION"} :
     \/ code = "EXPORT_INTEGRITY" /\ "HARD_ERROR" \in content
     \/ /\ code = "DELIVERY_CONTRACT_VIOLATION"
        /\ contract /\ "VIOLATED" \in content}

\* The composition root falls back to the deterministic port, and a version
\* of its own does not make it another port.
Deterministic(slot) == bindings[slot] \in {"none", "stub", "renamed"}
UsesWebQuality == ~Deterministic("quality.governance")
OwnDesignPort == ~Deterministic("design.intelligence")
OwnArtifactPort == ~Deterministic("artifact.production")

AssessCandidate(content) ==
  IF UsesWebQuality THEN WebCandidateErrors(content)
  ELSE StubErrors(content, template_role)

\* The decision names the version the subject names.
Decided(subject, errors) == [version |-> subject.version,
                             hard_errors |-> errors]

\* The Web gate reads an export's manifest, and raises if it has none to read.
Readable(export) ==
  UsesWebQuality => export.mapping \/ "BLANK" \in export.content

\* assess_artifact.
Assess(subject, profile) ==
  Decided(subject, IF UsesWebQuality
                   THEN WebErrors(subject, profile, template_role)
                   ELSE StubErrors(subject.content, template_role))

\* An active export approval of the version that was assessed (the
\* deterministic port's authorize_transition; the Web port looks for the same).
IsApproved(decision) == decision.version \in approvals

\* authorize_transition: a delivery also needs such an approval.
Authorized(decision, action) ==
  /\ decision.hard_errors = {}
  /\ action = "deliver" => IsApproved(decision)

----------------------------------------------------------------------------
(* Answers of the artifact port.  The deterministic one works on the artifact
   it is given; another one may answer with any content and any version. *)

Renders(profile) ==
  IF OwnArtifactPort
  THEN [version : Version, content : Contents,
        declared : {profile.declared}, errors : BOOLEAN]
  ELSE {[version |-> VersionOf(artifact), content |-> artifact.content,
         declared |-> profile.declared, errors |-> profile.errors]}

Exports(profile) ==
  IF OwnArtifactPort
  THEN {export \in [version : Version, content : Contents,
                     declared : BOOLEAN, errors : BOOLEAN,
                     mapping : BOOLEAN] : Readable(export)}
  ELSE {[version |-> VersionOf(artifact), declared |-> FALSE,
         errors |-> FALSE, mapping |-> TRUE,
         content |-> artifact.content
                     \cup IF profile.simulate_hard_error
                          THEN {"HARD_ERROR"} ELSE {}]}

\* Content with a piece of feedback worked into it.  Text is escaped, so it
\* can bring a trait that is words, never an element.
Spoken == {"EXTERNAL", "MOCK", "HARD_ERROR", "VIOLATED"}
Changed(content, own) ==
  IF own THEN Contents
  ELSE {content} \cup {content \cup {trait} : trait \in Spoken}

----------------------------------------------------------------------------
(* Commands *)

Init ==
  /\ bindings \in Bindings
  /\ template_role \in BOOLEAN
  /\ state = "NEW"
  /\ resume_state = NULL
  /\ brief = NULL
  /\ candidate = NULL
  /\ assessed = {}
  /\ direction = NULL
  /\ artifact = NULL
  /\ quality = NULL
  /\ approvals = {}
  /\ released = NULL
  /\ outlived = {}

ReleaseNothing == released' = NULL

\* New material replaces the old and leaves every approval as it is.  Without
\* one of the two, or with uncertainties, it asks for more.
Prepare ==
  /\ state \in {"NEW", "NEEDS_INPUT"}
  /\ brief' \in Briefs \cup {NULL}
  /\ \/ state' = "READY_FOR_DESIGN" /\ brief' # NULL
     \/ state' = "NEEDS_INPUT"
  /\ ReleaseNothing
  /\ UNCHANGED <<fixed, resume_state, design, produced, quality, granted>>

\* So do new candidates: the direction and the artifact in hand stay too.
Generate ==
  /\ state = "READY_FOR_DESIGN"
  /\ brief # NULL
  /\ \E content \in IF OwnDesignPort THEN Contents ELSE {brief} :
       candidate' = [brief |-> brief, revision |-> 1, content |-> content]
  /\ assessed' = AssessCandidate(candidate'.content)
  /\ outlived' = approvals
  /\ state' = "AWAITING_DIRECTION_APPROVAL"
  /\ ReleaseNothing
  /\ UNCHANGED <<fixed, material, produced, quality, approvals>>

\* A run of the project asks for input (_reconcile_workflow).
Reconcile ==
  /\ state # "NEEDS_INPUT"
  /\ resume_state' = state
  /\ state' = "NEEDS_INPUT"
  /\ ReleaseNothing
  /\ UNCHANGED <<fixed, brief, design, produced, quality, granted>>

\* It goes on: back to where the latest reconciliation found the project.
Resume ==
  /\ state' = IF state = "NEEDS_INPUT" /\ resume_state # NULL
              THEN resume_state ELSE state
  /\ resume_state' = NULL
  /\ ReleaseNothing
  /\ UNCHANGED <<fixed, brief, design, produced, quality, granted>>

ApproveDirection ==
  /\ state = "AWAITING_DIRECTION_APPROVAL"
  /\ assessed = {}
  /\ direction' = [id |-> <<candidate.brief, candidate.revision>>,
                   content |-> candidate.content]
  /\ state' = "PRODUCING"
  /\ ReleaseNothing
  /\ UNCHANGED <<fixed, material, design, artifact, quality, granted>>

\* The artifact is always revision 1 of its direction, also when the
\* direction was produced before.
Produce ==
  /\ state = "PRODUCING"
  /\ direction # NULL
  /\ \E content \in IF OwnArtifactPort THEN Contents ELSE {direction.content} :
       artifact' = [id |-> direction.id, revision |-> 1, content |-> content]
  /\ state' = "VALIDATING"
  /\ ReleaseNothing
  /\ UNCHANGED <<fixed, material, design, direction, quality, granted>>

\* The render is assessed under an empty delivery profile: only what the
\* render itself declares can let a mock pass.
Validate ==
  /\ state = "VALIDATING"
  /\ \E profile \in [declared : BOOLEAN, errors : BOOLEAN] :
       \E render \in Renders(profile) :
         LET decision == Assess(render, NoProfile) IN
           /\ quality' = decision.version
           /\ state' = IF Authorized(decision, "request-export-approval")
                       THEN "AWAITING_EXPORT_APPROVAL" ELSE "PRODUCING"
  /\ ReleaseNothing
  /\ UNCHANGED <<fixed, material, design, produced, granted>>

\* The decision on file must be about the version in hand; a render of
\* another version blocks here.
ApproveExport ==
  /\ state = "AWAITING_EXPORT_APPROVAL"
  /\ quality = VersionOf(artifact)
  /\ approvals' = approvals \cup {VersionOf(artifact)}
  /\ state' = "READY_TO_DELIVER"
  /\ ReleaseNothing
  /\ UNCHANGED <<fixed, material, design, produced, quality, outlived>>

\* _matching_export_approval: an active approval of the version in hand.
MatchingApproval == VersionOf(artifact) \in approvals

BundleOf(export, decision, profile) ==
  [artifact |-> VersionOf(artifact), export |-> export,
   decision |-> decision, approval |-> VersionOf(artifact),
   profile |-> profile]

\* DeterministicDeliveryPort.release: a key that was released before keeps its
\* first bundle, and nothing leaves.
Release(bundle) == released' \in {bundle, NULL}

\* The actual export is assessed under the profile it leaves with.  Control
\* calls the durable port itself, not ValidatedDeliveryPort.
Deliver(profile) ==
  /\ state = "READY_TO_DELIVER"
  /\ MatchingApproval
  /\ \E export \in Exports(profile) :
       LET decision == Assess(export, profile) IN
         /\ Authorized(decision, "deliver")
         /\ quality' = decision.version
         /\ Release(BundleOf(export, decision, profile))
  /\ state' = "DELIVERED"
  /\ UNCHANGED <<fixed, material, design, produced, granted>>

\* _invalidate_approvals.
WithdrawApprovals == approvals' = {} /\ outlived' = {}

ExportRejected(profile) ==
  /\ state = "READY_TO_DELIVER"
  /\ MatchingApproval
  /\ \E export \in Exports(profile) :
       /\ quality' = Assess(export, profile).version
       /\ ~Authorized(Assess(export, profile), "deliver")
  /\ WithdrawApprovals
  /\ state' = "PRODUCING"
  /\ ReleaseNothing
  /\ UNCHANGED <<fixed, material, design, produced>>

\* States that take feedback on an artifact; on a direction also before.
Working == {"PRODUCING", "VALIDATING", "AWAITING_EXPORT_APPROVAL",
            "READY_TO_DELIVER", "DELIVERED"}

DirectionFeedback ==
  /\ state \in Working \cup {"AWAITING_DIRECTION_APPROVAL"}
  /\ brief # NULL
  /\ candidate # NULL /\ candidate.revision < MaxRevision - 1
  /\ \E content \in Changed(candidate.content, OwnDesignPort) :
       candidate' = [candidate EXCEPT !.revision = @ + 1, !.content = content]
  /\ assessed' = AssessCandidate(candidate'.content)
  /\ WithdrawApprovals
  /\ direction' = NULL
  /\ state' = "AWAITING_DIRECTION_APPROVAL"
  /\ ReleaseNothing
  /\ UNCHANGED <<fixed, material, artifact, quality>>

\* Mutant of ArtifactFeedback: the approval of the old revision stays.
ArtifactFeedbackKeepsApproval ==
  /\ state \in Working
  /\ artifact # NULL /\ artifact.id[2] + artifact.revision < MaxRevision
  /\ \E content \in Changed(artifact.content, OwnArtifactPort) :
       artifact' = [artifact EXCEPT !.revision = @ + 1, !.content = content]
  /\ state' = "VALIDATING"
  /\ ReleaseNothing
  /\ UNCHANGED <<fixed, material, design, direction, quality, granted>>

ArtifactFeedback ==
  /\ state \in Working
  /\ artifact # NULL /\ artifact.id[2] + artifact.revision < MaxRevision
  /\ \E content \in Changed(artifact.content, OwnArtifactPort) :
       artifact' = [artifact EXCEPT !.revision = @ + 1, !.content = content]
  /\ WithdrawApprovals
  /\ state' = "VALIDATING"
  /\ ReleaseNothing
  /\ UNCHANGED <<fixed, material, design, direction, quality>>

FactFeedback ==
  /\ state \in Working \cup {"READY_FOR_DESIGN", "AWAITING_DIRECTION_APPROVAL"}
  /\ WithdrawApprovals
  /\ state' = "NEEDS_INPUT"
  /\ ReleaseNothing
  /\ UNCHANGED <<fixed, material, design, produced, quality>>

Next ==
  \/ Prepare
  \/ Generate
  \/ Reconcile
  \/ Resume
  \/ ApproveDirection
  \/ Produce
  \/ Validate
  \/ ApproveExport
  \/ \E profile \in Profiles : Deliver(profile)
  \/ \E profile \in Profiles : ExportRejected(profile)
  \/ DirectionFeedback
  \/ ArtifactFeedback
  \/ FactFeedback

Spec == Init /\ [][Next]_vars

----------------------------------------------------------------------------
(* Properties *)

\* ValidatedDeliveryPort._validate.
Validated(bundle) ==
  /\ bundle.decision.hard_errors = {}
  /\ bundle.export.version = bundle.artifact
  /\ bundle.decision.version = bundle.artifact
  /\ bundle.approval = bundle.artifact
  /\ bundle.export.mapping

\* The delivery validation is composed and never called (composition.py:116,
\* control gets the durable port).  With the deterministic artifact port
\* nothing it would have refused is released.  An artifact port of its own can
\* have two things released: an export of another version, but only of one
\* whose approval was left standing when new candidates were generated, since
\* every other change withdraws it; and an export without a manifest, but
\* only past the deterministic gate, since the Web gate reads it.
BypassIsHarmless ==
  released # NULL =>
    \/ Validated(released)
    \/ /\ OwnArtifactPort
       /\ released.decision.hard_errors = {}
       /\ released.decision.version = released.export.version
       /\ released.export.version \in outlived \cup {released.artifact}
       /\ released.export.mapping \/ ~UsesWebQuality

\* What an application that reports itself ready has released is clean by the
\* standard of the Web gate, whatever the artifact port made of it: no
\* fallback of the composition root, which would not have looked, stands in
\* for it.  Readiness goes by versions, so the deterministic gate bound under
\* a version of its own passes for a gate and is the one exception
\* (assess_phase6_readiness, SQLiteApplication, _deliver).
Clean(bundle) ==
  LET content == bundle.export.content IN
    /\ content \cap {"BLANK", "NO_ALT", "EXTERNAL", "BAD_ANCHOR"} = {}
    /\ ~bundle.export.errors
    /\ template_role => "ANCHOR" \in content
    /\ "MOCK" \in content =>
         /\ bundle.export.declared \/ bundle.profile.declared
         /\ ~bundle.profile.production

ReadyReleasesAreClean ==
  /\ released # NULL
  /\ Ready(bindings) /\ bindings["quality.governance"] # "renamed"
  => Clean(released)
=============================================================================
