\* One page with two requests under way, one run beside it, every command from elsewhere.
SPECIFICATION ShellSpec
VIEW ShellView
CONSTANTS
  NULL = NULL
  c1 = c1
  bad = bad
  web = web
  faulty = faulty
  r1 = r1
  s1 = s1
  s2 = s2
  Contexts = {c1}
  UncertainContexts = {}
  Inputs <- DemoInputs
  CandidateCount = 1
  Notes = {bad}
  BadNotes = {bad}
  Profiles = {web, faulty}
  BadProfiles = {faulty}
  Runs = {r1}
  MaxCandidateRevision = 2
  MaxArtifactRevision = 2
  MaxSnapshots = 8
  Slots = {s1, s2}
  MaxRevision = 8
  MaxRequests = 2
INVARIANTS
  DemoIsPrepared
  OfferedIsLegal
CHECK_DEADLOCK FALSE
