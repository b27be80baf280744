SPECIFICATION FairSpec
CONSTANTS
  None = None
  Op = {o1, o2}
  Prompt = {p1, p2}
  Call = {c1, c2}
PROPERTIES
  WaitsEnd
INVARIANTS BridgeInv TrueMeansUsed RefusedMeansTaken NoStaleInteraction
CHECK_DEADLOCK FALSE
