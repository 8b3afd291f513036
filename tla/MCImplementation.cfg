SPECIFICATION ImplementationSpec
CONSTANTS
  f1 = f1
  f2 = f2
  Files = {f1, f2}
  Manifest = f1
  Bases <- SmallBases
  Profiles <- SmallProfiles
  GitFails = TRUE
  MaxStops = 1
  None = None
CHECK_DEADLOCK FALSE
INVARIANTS
  ImplementationTypeOK
  NoiseIsExplained
  NoHollowSuccess
  ReviewShowsTree
  ResultsMatchDiff
  VerdictNeedsInstall
