SPECIFICATION FairSpec
CONSTANTS
  Jobs = {j1, j2}
  Procs = {p1, p2, p3}
  NoJob = NoJob
  SlotLimit = 1
  GitRaises = FALSE
  MaxRequests = 5
  MaxStops = 1
PROPERTIES
  EndsUnlessBranched
CHECK_DEADLOCK FALSE
