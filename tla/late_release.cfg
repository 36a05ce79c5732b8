\* Expected violation: a release after the project has changed.
SPECIFICATION DurableSpec
CONSTANTS
  NULL = NULL
  c1 = c1
  ok = ok
  web = web
  w = w
  Contexts = {c1}
  UncertainContexts = {}
  Inputs <- CompleteInputs
  CandidateCount = 1
  Notes = {ok}
  BadNotes = {}
  Profiles = {web}
  BadProfiles = {}
  Runs = {}
  MaxCandidateRevision = 1
  MaxArtifactRevision = 1
  MaxSnapshots = 8
  Workers = {w}
  MaxReleases = 1
  Key <- FirstVersion
  KeyProfile = web
PROPERTIES
  ReleasesAreAuthorized
CHECK_DEADLOCK FALSE
