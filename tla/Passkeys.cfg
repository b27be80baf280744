CONSTANTS
  Credential = {c1}
  Name = {n1, n2}
  Token = {t1, t2}
  Call = {k1, k2}
  InOrder = FALSE
  MayHalfFail = TRUE
  MaxSelections = 2
  MaxPreviews = 2
  MaxWire = 2
  None = None
SPECIFICATION ShapedSpec
SYMMETRY Symmetry
CHECK_DEADLOCK FALSE
INVARIANTS MutationInv ReviewShowsRequest WritesReviewedOnce SettledIsCurrent
