\* Two session threads of one host share a workspace, a third process runs the
\* acceptance.  A source tree esbuild refuses, and one that compiles, into two
\* different bundles.
SPECIFICATION Spec
CONSTANTS
  NULL = NULL
  CUT = CUT
  c1 = c1
  c2 = c2
  a = a
  h1 = h1
  h2 = h2
  Callers = {c1, c2, a}
  Hosts = {h1, h2}
  HostOf <- HostOfCaller
  Acceptors = {a}
  Shared = {s1}
  Stamped = {a1}
  Letters = {Y, Z}
  Versions = {flaky, failing}
  Malformed = {}
  Failing = {failing}
  Flaky = {flaky}
  Broken = {}
  MaxBuilds = 3
  MaxEdits = 1
  MaxCrashes = 1
INVARIANTS RunsConfined  LatestIsAccepted
SYMMETRY Symmetry
CHECK_DEADLOCK FALSE
