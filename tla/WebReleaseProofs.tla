-------------------------- MODULE WebReleaseProofs --------------------------
(***************************************************************************)
(* Proofs about WebRelease, for every set of contents, profiles, bindings  *)
(* and for every bound.                                                    *)
(***************************************************************************)
EXTENDS WebRelease, TLAPS

\* Where the project holds the approval of the version in hand: it may deliver
\* it, has delivered it, or was given new material since.
Holding == {"READY_TO_DELIVER", "DELIVERED", "READY_FOR_DESIGN"}

\* Elsewhere every active export approval is older than the candidate.  A
\* project that asks for input counts as where a resumption takes it.
ApprovalsStand ==
  approvals \ outlived # {} =>
    \/ state \in Holding
    \/ state = "NEEDS_INPUT" /\ resume_state \in Holding

ApprovalIsCurrent == approvals \subseteq outlived \cup {VersionOf(artifact)}

\* What is released left with a decision of the bound gate on the export
\* itself, and under an approval of the version the export names.
ReleaseIsAssessed ==
  released # NULL =>
    /\ released.decision = Assess(released.export, released.profile)
    /\ released.decision.hard_errors = {}
    /\ released.approval = released.artifact
    /\ released.export.version \in outlived \cup {released.artifact}
    /\ released.export.mapping \/ ~UsesWebQuality
    /\ ~OwnArtifactPort => /\ released.export.version = released.artifact
                           /\ released.export.mapping

ReleaseInv == ApprovalsStand /\ ApprovalIsCurrent /\ ReleaseIsAssessed

\* What Deliver releases passed the gate as it left.
LEMMA DeliverIsAssessed ==
  ASSUME NEW profile, Deliver(profile), ReleaseInv
  PROVE  ReleaseIsAssessed'
<1>1. PICK export \in Exports(profile) :
        /\ Authorized(Assess(export, profile), "deliver")
        /\ Release(BundleOf(export, Assess(export, profile), profile))
  BY DEF Deliver
<1> DEFINE new == BundleOf(export, Assess(export, profile), profile)
<1> SUFFICES ASSUME released' # NULL
             PROVE  ReleaseIsAssessed'
  BY DEF ReleaseIsAssessed
<1>2. released' = new
  BY <1>1 DEF Release
<1>3. /\ Assess(export, profile).hard_errors = {}
      /\ export.version \in approvals
  BY <1>1 DEF Authorized, IsApproved, Assess, Decided
<1>4. export.version \in outlived \cup {VersionOf(artifact)}
  BY <1>3 DEF ReleaseInv, ApprovalIsCurrent
<1>5. export.mapping \/ ~UsesWebQuality
  <2> SUFFICES ASSUME UsesWebQuality
               PROVE  export.mapping
    OBVIOUS
  <2>1. "BLANK" \notin export.content
    BY <1>3 DEF Assess, Decided, WebErrors
  <2>2. CASE OwnArtifactPort
    BY <1>1, <2>1, <2>2 DEF Exports, Readable
  <2>3. CASE ~OwnArtifactPort
    BY <1>1, <2>3 DEF Exports
  <2> QED
    BY <2>2, <2>3
<1>6. ~OwnArtifactPort => /\ export.version = VersionOf(artifact)
                          /\ export.mapping
  BY <1>1 DEF Exports
<1>7. /\ new.decision = Assess(export, profile)
      /\ new.export = export
      /\ new.profile = profile
      /\ new.artifact = VersionOf(artifact)
      /\ new.approval = VersionOf(artifact)
  BY DEF BundleOf
<1>8. UNCHANGED <<UsesWebQuality, OwnArtifactPort, template_role, outlived>>
  BY DEF Deliver, fixed, granted, UsesWebQuality, OwnArtifactPort,
         Deterministic
<1> HIDE DEF new
<1> QED
  BY <1>2, <1>3, <1>4, <1>5, <1>6, <1>7, <1>8
     DEF ReleaseIsAssessed, Assess, Decided

\* A command that releases nothing.
LEMMA NothingReleased ==
  ASSUME ReleaseNothing
  PROVE  ReleaseIsAssessed'
<1> QED
  BY DEF ReleaseNothing, ReleaseIsAssessed

LEMMA ReleaseInvInit == Init => ReleaseInv
<1> QED
  BY DEF Init, ReleaseInv, ApprovalsStand, ApprovalIsCurrent,
         ReleaseIsAssessed

LEMMA ReleaseInvStep == ReleaseInv /\ [Next]_vars => ReleaseInv'
<1> SUFFICES ASSUME ReleaseInv, [Next]_vars
             PROVE  ReleaseInv'
  OBVIOUS
<1> USE DEF ReleaseInv, ApprovalsStand, ApprovalIsCurrent, Holding
<1> USE NothingReleased
<1>1. CASE Prepare
  BY <1>1 DEF Prepare, produced, granted, material, VersionOf
<1>2. CASE Generate
  BY <1>2 DEF Generate, produced
<1>3. CASE Reconcile
  BY <1>3 DEF Reconcile, produced, granted, VersionOf
<1>4. CASE Resume
  BY <1>4 DEF Resume, produced, granted, VersionOf
<1>5. CASE ApproveDirection
  BY <1>5 DEF ApproveDirection, granted, VersionOf
<1>6. CASE Produce
  BY <1>6 DEF Produce, granted
<1>7. CASE Validate
  BY <1>7 DEF Validate, produced, granted, VersionOf
<1>8. CASE ApproveExport
  BY <1>8 DEF ApproveExport, produced, VersionOf
<1>9. ASSUME NEW profile \in Profiles, Deliver(profile)
      PROVE  ReleaseInv'
  BY <1>9, DeliverIsAssessed DEF Deliver, produced, granted, VersionOf
<1>10. ASSUME NEW profile \in Profiles, ExportRejected(profile)
       PROVE  ReleaseInv'
  BY <1>10 DEF ExportRejected, WithdrawApprovals
<1>11. CASE DirectionFeedback
  BY <1>11 DEF DirectionFeedback, WithdrawApprovals
<1>12. CASE ArtifactFeedback
  BY <1>12 DEF ArtifactFeedback, WithdrawApprovals
<1>13. CASE FactFeedback
  BY <1>13 DEF FactFeedback, WithdrawApprovals
<1>14. CASE UNCHANGED vars
  BY <1>14 DEF vars, fixed, material, produced, granted, VersionOf,
               ReleaseIsAssessed, Assess, Decided, UsesWebQuality,
               OwnArtifactPort, Deterministic
<1> QED
  BY <1>1, <1>2, <1>3, <1>4, <1>5, <1>6, <1>7, <1>8, <1>9, <1>10, <1>11,
     <1>12, <1>13, <1>14 DEF Next

\* The releases made past the delivery validation are those it would have let
\* through, with the two exceptions a replaced artifact port makes (_deliver,
\* ValidatedDeliveryPort).
THEOREM BypassCorrect == Spec => []BypassIsHarmless
<1>1. ReleaseInv => BypassIsHarmless
  <2> SUFFICES ASSUME ReleaseInv, released # NULL
               PROVE  BypassIsHarmless
    BY DEF BypassIsHarmless
  <2>1. /\ released.decision = Assess(released.export, released.profile)
        /\ released.decision.hard_errors = {}
        /\ released.approval = released.artifact
        /\ released.export.version \in outlived \cup {released.artifact}
        /\ released.export.mapping \/ ~UsesWebQuality
        /\ ~OwnArtifactPort => /\ released.export.version = released.artifact
                               /\ released.export.mapping
    BY DEF ReleaseInv, ReleaseIsAssessed
  <2>2. released.decision.version = released.export.version
    BY <2>1 DEF Assess, Decided
  <2> QED
    BY <2>1, <2>2 DEF BypassIsHarmless, Validated
<1> QED
  BY <1>1, ReleaseInvInit, ReleaseInvStep, PTL DEF Spec

\* A ready application has a quality gate of its own, by its version.
LEMMA ReadyUsesWebQuality ==
  Ready(bindings) /\ bindings["quality.governance"] # "renamed"
    => UsesWebQuality
<1> SUFFICES ASSUME Ready(bindings),
                    bindings["quality.governance"] # "renamed"
             PROVE  UsesWebQuality
  OBVIOUS
<1>1. "quality.governance" \in Versions(Supplied(bindings))
  BY DEF Ready, Missing, RequiredSlots, PortSlots
<1>2. Supplied(bindings)["quality.governance"]
        \in {"renamed", "scaffold", "real"}
  BY <1>1 DEF Versions, InfrastructureSlots
<1>3. bindings["quality.governance"] \in {"scaffold", "real"}
  BY <1>2 DEF Supplied
<1> QED
  BY <1>3 DEF UsesWebQuality, Deterministic

\* A ready application has released only what is clean by the Web gate, for
\* every content an artifact port can produce, unless the deterministic gate is
\* bound under a version of its own.
THEOREM ReadyCorrect == Spec => []ReadyReleasesAreClean
<1>1. ReleaseInv => ReadyReleasesAreClean
  <2> SUFFICES ASSUME ReleaseInv, released # NULL, Ready(bindings),
                      bindings["quality.governance"] # "renamed"
               PROVE  Clean(released)
    BY DEF ReadyReleasesAreClean
  <2>1. WebErrors(released.export, released.profile, template_role) = {}
    <3>1. UsesWebQuality
      BY ReadyUsesWebQuality
    <3>2. /\ released.decision = Assess(released.export, released.profile)
          /\ released.decision.hard_errors = {}
      BY DEF ReleaseInv, ReleaseIsAssessed
    <3>3. Assess(released.export, released.profile).hard_errors =
            WebErrors(released.export, released.profile, template_role)
      BY <3>1 DEF Assess, Decided
    <3> QED
      BY <3>2, <3>3
  <2> DEFINE has(trait) == trait \in released.export.content
             finds == [IMAGE_ALT_MISSING |->
                         ImagesWithoutAlt(released.export.content),
                       EXTERNAL_RESOURCE |-> has("EXTERNAL"),
                       ANCHOR_INVALID |-> has("BAD_ANCHOR"),
                       RENDERER_ERRORS |-> released.export.errors,
                       DELIVERY_ANCHORS_MISSING |->
                         template_role /\ ~HasAnchors(released.export.content)]
             mocks == IF has("MOCK")
                      THEN MockErrors(released.export.declared
                                        \/ released.profile.declared,
                                      released.profile.production)
                      ELSE {}
  <2>2. ~has("BLANK") /\ {code \in DOMAIN finds : finds[code]} = {}
          /\ mocks = {}
    BY <2>1 DEF WebErrors
  <2>3. /\ ~finds["IMAGE_ALT_MISSING"] /\ ~finds["EXTERNAL_RESOURCE"]
        /\ ~finds["ANCHOR_INVALID"]
        /\ ~finds["RENDERER_ERRORS"] /\ ~finds["DELIVERY_ANCHORS_MISSING"]
    BY <2>2
  <2>4. /\ ~has("NO_ALT") /\ ~has("EXTERNAL") /\ ~has("BAD_ANCHOR")
        /\ ~released.export.errors
        /\ ~(template_role /\ ~has("ANCHOR"))
    BY <2>3 DEF ImagesWithoutAlt, HasAnchors
  <2>5. has("MOCK") => /\ released.export.declared \/ released.profile.declared
                       /\ ~released.profile.production
    BY <2>2 DEF MockErrors
  <2> QED
    BY <2>2, <2>4, <2>5 DEF Clean
<1> QED
  BY <1>1, ReleaseInvInit, ReleaseInvStep, PTL DEF Spec
=============================================================================
