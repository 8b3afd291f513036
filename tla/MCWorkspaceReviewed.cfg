SPECIFICATION Spec
CONSTANTS
  Requests = {r1, r2, r3}
  Names = {n1}
  None = None
  Retention = FALSE
  MaxCrashes = 0
PROPERTIES
  RecordedCommitIsReviewed
CHECK_DEADLOCK FALSE
