\* Expected violation: a second content delivered under a spent key.
SPECIFICATION Spec
CONSTANTS
  NULL = NULL
  c1 = c1
  ok = ok
  bad = bad
  ok2 = ok2
  web = web
  faulty = faulty
  Contexts = {c1}
  UncertainContexts = {}
  Inputs <- CompleteInputs
  CandidateCount = 1
  Notes = {ok, ok2, bad}
  BadNotes = {bad}
  Profiles = {web, faulty}
  BadProfiles = {faulty}
  Runs = {}
  MaxCandidateRevision = 2
  MaxArtifactRevision = 2
  MaxSnapshots = 8
INVARIANTS
  DeliveredContentIsReleased
CHECK_DEADLOCK FALSE
