SPECIFICATION ShapedSpec
CONSTANTS
  Credential = {c1}
  Content = {v1, v2}
  Empty = v1
  Token = {t1}
  Arrays <- MCArrays
  BlobCall = {k1, k2}
  InOrder = FALSE
  MaxSelections = 1
  MaxWire = 2
  MaxPreviews = 2
  MaxEntries = 3
  None = None
SYMMETRY Symmetry
CHECK_DEADLOCK FALSE
INVARIANTS BlobsWait SettledInOrder
