SPECIFICATION Spec
CONSTANTS
  Requests = {r1, r2, r3, r4}
  Names = {n1, n2}
  None = None
  Retention = FALSE
  MaxCrashes = 1
SYMMETRY Symmetry
INVARIANTS
  TypeOK
  PushedIsRecorded
  WorkIsKept
CHECK_DEADLOCK FALSE
