SPECIFICATION ShapedSpec
CONSTANTS
  None = None
  Selection = {s1, s2, s3}
  Op = {o1, o2}
  Delivery = "sent"
  MayReject = TRUE
  MaxPrompts = 2
  MaxUpdates = 4
  MaxWire = 3
INVARIANTS
  WorkbenchInv
  IdleUnlessRejected
  
PROPERTY SinglePromptKept
SYMMETRY Symmetry
CHECK_DEADLOCK FALSE
