\* The commands, with one workflow run driven beside them.
SPECIFICATION Spec
CONSTANTS
  NULL = NULL
  c1 = c1
  u1 = u1
  r1 = r1
  ok = ok
  bad = bad
  web = web
  faulty = faulty
  Contexts = {c1, u1}
  UncertainContexts = {u1}
  Inputs <- CompleteInputs
  CandidateCount = 1
  Notes = {ok, bad}
  BadNotes = {bad}
  Profiles = {web, faulty}
  BadProfiles = {faulty}
  Runs = {r1}
  MaxCandidateRevision = 2
  MaxArtifactRevision = 2
  MaxSnapshots = 6
INVARIANTS
  TypeOK
  ExportGateHolds
  ReadyIsAuthorized
  ReleasesAreSound
  DeliveredIsRecorded
PROPERTIES
  EndedStaysEnded
  ImplementsReleaseProtocol
CHECK_DEADLOCK FALSE
