SPECIFICATION Spec
CONSTANTS
  Jobs = {j1, j2}
  Procs = {p1, p2, p3}
  NoJob = NoJob
  SlotLimit = 1
  GitRaises = TRUE
  MaxRequests = 6
  MaxStops = 1
SYMMETRY Symmetry
INVARIANTS
  SlotsConserved
  ApprovalInv
PROPERTIES
  RecoveryKeepsUnusedAttempt
CHECK_DEADLOCK FALSE
