\* Two briefs, two revisions of a candidate and of an artifact.  A rejected
\* command ends nothing here, so every state has a successor.
SPECIFICATION Spec
CONSTANTS
  NULL = NULL
  Contents <- MCContents
  Briefs <- MCBriefs
  Profiles <- MCProfiles
  Bindings <- MCBindings
  MaxRevision = 3
INVARIANTS
  BypassIsHarmless
  ReadyReleasesAreClean
