SPECIFICATION ConnectionsSpec
CONSTANTS
  Users = {u1, u2}
  Requests = {r1, r2}
  States = {s1, s2}
  Providers <- SmallProviders
  Deployments <- SmallDeployments
  Rotating <- SmallRotating
  Answers <- SmallAnswers
  ConfiguredScope = "read"
  SharedJira = TRUE
  MaxRefreshes = 1
  MaxRestarts = 1
  None = None
SYMMETRY Symmetric
CHECK_DEADLOCK FALSE
INVARIANTS
  ConnectionsTypeOK
  OneExchangePerState
  ConnectionIsOwn
  StoredTokenLives
