CONSTANTS
  Credential = {c1}
  Name = {n1, n2}
  Token = {t1}
  Call = {k1, k2}
  InOrder = TRUE
  MayHalfFail = TRUE
  MaxSelections = 2
  MaxPreviews = 2
  MaxWire = 2
  None = None
SPECIFICATION Spec
CHECK_DEADLOCK FALSE
INVARIANTS MutationOfSession
