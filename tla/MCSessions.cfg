SPECIFICATION SessionsSpec
CONSTANTS
  Users = {u1, u2}
  Browsers = {b1, b2}
  Tokens = {t1, t2, t3}
  None = None
SYMMETRY Symmetric
CHECK_DEADLOCK FALSE
INVARIANTS
  SessionsTypeOK
  ServedIsVouched
  SignedOutStaysOut
