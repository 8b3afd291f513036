SPECIFICATION SpendSpec
SYMMETRY Symmetry
CONSTANTS
  Jobs = {j1, j2}
  Limit = 2
  Window = 2
  Slots = 1
  Costs = {1, 2}
  MaxTime = 4
  MaxStops = 1
  None = None
INVARIANTS
  SpendTypeOK
  SpendIsBounded
  QueryIsComplete
  ResetsAtIsFirst
CHECK_DEADLOCK FALSE
