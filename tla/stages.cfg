\* Two workers, one stage, users, crashes, three attempts; for the port's calls,
\* two projects, two requests each, every history of four events.
SPECIFICATION RuntimeSpec
CONSTANTS
  NULL = NULL
  w1 = w1
  w2 = w2
  Workers = {w1, w2}
  s1 = s1
  i1 = i1
  Stages = {s1}
  Inputs = {i1}
  MaxAttempts = 3
  p1 = p1
  p2 = p2
  k1 = k1
  k2 = k2
  e1 = e1
  Projects = {p1, p2}
  Keys = {k1, k2}
  Effects = {e1}
  MaxEvents = 3
  MaxStrayed = 1
INVARIANTS
  StagesHaveOutputs
  AdaptersAgree
  PollsMissNothing
  ProjectPollsMissNothing
PROPERTIES
  CompletedStands
  CallsEnd
