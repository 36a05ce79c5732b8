\* Two threads, ids sent with several expected revisions, crashes at any step;
\* without the writer, two projects.
SPECIFICATION StoresSpec
CONSTANTS
  NULL = NULL
  t1 = t1
  t2 = t2
  i1 = i1
  i2 = i2
  i3 = i3
  a = a
  b1 = b1
  b2 = b2
  p1 = p1
  p2 = p2
  Threads = {t1, t2}
  Ids = {i1, i2, i3}
  Bodies = {a}
  Projects = {p1, p2}
  DirectIds = {i1, i2}
  DirectBodies = {b1, b2}
  MaxRevision = 3
INVARIANTS
  LedgerMatchesHistory
  HistoryIsAChain
  CommittedIsDone
  StoresAgree
  ReadersAreNotMisled
PROPERTIES
  ImplementsCommandLog
SYMMETRY Symmetry
VIEW View
