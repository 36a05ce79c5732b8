-------------------------- MODULE ReleaseProtocol --------------------------
(***************************************************************************)
(* What the Project Control Plane promises about releasing work, without  *)
(* any of the machinery (candidates, revisions, approvals records, runs).  *)
(*                                                                         *)
(* A project has one current subject.  The subject must be assessed as it  *)
(* is, then approved as it is, and only then may somebody take it to leave *)
(* the house.  Whatever changes the subject, or merely doubts it, sends the *)
(* project back to drafting, where assessment and approval start again;    *)
(* but who has taken it before does not hear of that, and may be late.     *)
(*                                                                         *)
(* ProjectControl implements this specification.                           *)
(***************************************************************************)
CONSTANTS Subjects,     \* contents an artifact can have
          Sound,        \* those that pass the quality gate
          NoSubject     \* there is no artifact yet

VARIABLES phase,        \* how far the current subject has come
          subject,      \* the content in hand
          cleared,      \* what was taken for release while it was approved
          released      \* every content that has ever been handed out

rpVars == <<phase, subject, cleared, released>>

RPTypeOK ==
  /\ phase \in {"drafting", "assessed", "approved", "released"}
  /\ subject \in Subjects \cup {NoSubject}
  /\ cleared \subseteq Subjects
  /\ released \subseteq Subjects

RPInit ==
  /\ phase = "drafting"
  /\ subject = NoSubject
  /\ cleared = {}
  /\ released = {}

\* Any change of the subject, or any withdrawal, restarts the chain.
Draft ==
  /\ phase' = "drafting"
  /\ subject' \in Subjects \cup {NoSubject}
  /\ UNCHANGED <<cleared, released>>

Assess ==
  /\ phase = "drafting"
  /\ phase' = "assessed"
  /\ subject \in Sound
  /\ UNCHANGED <<subject, cleared, released>>

Approve ==
  /\ phase = "assessed"
  /\ phase' = "approved"
  /\ UNCHANGED <<subject, cleared, released>>

\* Somebody takes the subject to hand it out.
PickUp ==
  /\ phase = "approved"
  /\ cleared' = cleared \cup {subject}
  /\ UNCHANGED <<phase, subject, released>>

\* What was taken is handed out, and the project does not come to know of it:
\* the process has died, or the project has moved on.
Release ==
  /\ \E s \in cleared : released' = released \cup {s}
  /\ UNCHANGED <<phase, subject, cleared>>

\* The subject is handed out, and the project records it: it is still the one
\* that was approved.
Finish ==
  /\ phase = "approved"
  /\ phase' = "released"
  /\ released' = released \cup {subject}
  /\ UNCHANGED <<subject, cleared>>

\* An identity that was released before is answered with what it got then.
Reissue ==
  /\ phase = "approved"
  /\ phase' = "released"
  /\ UNCHANGED <<subject, cleared, released>>

RPNext ==
  Draft \/ Assess \/ Approve \/ PickUp \/ Release \/ Finish \/ Reissue

RPSpec == RPInit /\ [][RPNext]_rpVars

----------------------------------------------------------------------------
\* Nothing but what passes the gate is ever handed out, although the gate was
\* asked before the approval and the release may come after its withdrawal.
OnlySoundIsReleased == released \subseteq Sound
=============================================================================
