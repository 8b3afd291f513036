SPECIFICATION Spec
CONSTANTS
  Jobs = {j1}
  Procs = {p1, p2, p3}
  NoJob = NoJob
  SlotLimit = 1
  GitRaises = FALSE
  MaxRequests = 8
  MaxStops = 2
SYMMETRY ProcSymmetry
INVARIANTS
  TypeOK
  ImplementedAtMostOnce
  CostRecorded
  ReviewableHasImplementation
  StuckOnlyAfterPush
PROPERTIES
  ReviewIsKept
  FollowsStages
  ServesOnlyRecovered
CHECK_DEADLOCK FALSE
