\* One session, one loop at a time, users and crashes beside it.
SPECIFICATION Spec
CONSTANTS
  NULL = NULL
  Empty = c1
  Contents = {c1, c2}
  MaxSteps = 3
  MaxRenders = 1
  MaxRuns = 2
  MaxUserOps = 1
PROPERTIES
  CancelStands
CHECK_DEADLOCK FALSE
