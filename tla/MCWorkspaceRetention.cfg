SPECIFICATION FairSpec
CONSTANTS
  Requests = {r1, r2, r3}
  Names = {n1}
  None = None
  Retention = TRUE
  MaxCrashes = 1
INVARIANTS
  RemovedStaysAtRest
PROPERTIES
  MarksOnlyExpired
  RemovedIsDeleted
CHECK_DEADLOCK FALSE
