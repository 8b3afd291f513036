SPECIFICATION Spec
CONSTANTS
  Requests = {r1}
  Names = {n1}
  None = None
  Retention = TRUE
  MaxCrashes = 0
PROPERTIES
  WorkingJobsUntouched
CHECK_DEADLOCK FALSE
