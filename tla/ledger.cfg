\* Three workers under one key, leases that run out, deaths, honest adapter.
SPECIFICATION Spec
CONSTANTS
  NULL = NULL
  w1 = w1
  w2 = w2
  w3 = w3
  Workers = {w1, w2, w3}
  MaxReleases = 3
INVARIANTS
  OneAtWork
  OneRelease
  ResultsAreReal
PROPERTIES
  ImplementsEffectPromise
SYMMETRY Symmetry
