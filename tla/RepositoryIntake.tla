--------------------------- MODULE RepositoryIntake ---------------------------
(***************************************************************************)
(* The intake of a project and the scans that read its repositories.  A    *)
(* scan is over before the snapshot of what it collected is made, and it   *)
(* shares no state with the intake: a behaviour is about one of the two.   *)
(***************************************************************************)
EXTENDS Intake

CONSTANTS
  Roots, Paths, Directory, Kind, Contents, Bare, Absent, Size,
  MaxFiles, MaxBytes, MaxScans, MaxEdits

VARIABLES
  root, authorized, tree, phase, walk, expected, files, total, scans, edits,
  quiet,
  subject  \* which of the two the behaviour is about

Scan == INSTANCE RepositoryScan

ASSUME ScanAssumption == Scan!ConstantsAreSound

scan == <<root, authorized, tree, phase, walk, expected, files, total, scans,
          edits, quiet>>

IntakeInit ==
  /\ Init /\ Scan!Init
  /\ subject \in {"intake", "scan"}
  /\ subject = "intake" => \A p \in Paths : tree[p] = Absent

TakeIn == subject = "intake" /\ Next /\ UNCHANGED scan

ScanRepository == subject = "scan" /\ Scan!Next /\ UNCHANGED vars

IntakeNext == (TakeIn \/ ScanRepository) /\ UNCHANGED subject

IntakeSpec == IntakeInit /\ [][IntakeNext]_<<vars, scan, subject>>

----------------------------------------------------------------------------
(* Properties *)

\* What is collected stays within the limits (RepositoryScan).
ScanIsBounded == Scan!ScanIsBounded

\* An undisturbed scan finds exactly the admissible files (RepositoryScan).
QuietScanIsComplete == Scan!QuietScanIsComplete
=============================================================================
