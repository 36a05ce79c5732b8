\* Two callers, two PNG files, one repository; one scan, two changes of the tree.
SPECIFICATION IntakeSpec
CONSTANTS
  NULL = NULL
  w1 = w1
  w2 = w2
  f1 = f1
  f2 = f2
  r1 = r1
  v1 = v1
  Workers = {w1, w2}
  Files = {f1, f2}
  Repos = {r1}
  Unparsable = {}
  Rights = {"ANALYSIS_ONLY", "CLEARED_FOR_DELIVERY"}
  Keys <- MCKeys
  KeyOf <- MCKeyOf
  RequiredKeys = {"image.dimensions"}
  RequiredAssets = {f1, f2}
  Facts = {v1}
  MaxSourceRevision = 2
  MaxLineage = 3
  MaxDerived = 2
  MaxContexts = 2
  MaxJobs = 4
  d1 = d1
  d2 = d2
  Roots = {d1, d2}
  Contents = {"short", "other", "long"}
  Bare = Bare
  Absent = Absent
  Paths <- MCPaths
  Kind <- MCKind
  Directory <- MCDirectory
  Size <- MCSize
  MaxFiles = 2
  MaxBytes = 3
  MaxScans = 1
  MaxEdits = 2
SYMMETRY Symmetry
VIEW IntakeView
INVARIANTS
  ReferencesResolve
  DeliveryIsCleared
  FactsAreKept
  NothingHalfMade
  ScanIsBounded
  QuietScanIsComplete
CHECK_DEADLOCK FALSE
