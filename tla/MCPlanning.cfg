SPECIFICATION MCSpec
SYMMETRY Symmetry
CONSTANTS
  Jobs = {j1, j2}
  Contents = {a, b}
  Attachments <- MCAttachments
  Branches = {"main", "feature"}
  OfTicket = {"feature"}
  Trees <- MCTrees
  Requests <- MCRequests
  Settings <- MCSettings
  Costs = {1}
  MaxChanges = 2
  MaxCount = 2
  MaxTotal = 3
  Heading = 1
  Mark = 1
  Stub = Stub
  None = None
INVARIANTS
  PlanningTypeOK
  PlanIsForItsInputs
  LastAnswerIsCharged
  AttachmentsBounded
  ReportedBranchIsCloned
CHECK_DEADLOCK FALSE
