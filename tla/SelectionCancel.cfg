SPECIFICATION Spec
CONSTANTS
  None = None
  Caller = {c1}
  Manager = {m1}
  Key = {k1}
  Selection = {s1}
  Op = {o1, o2}
  Shutdown = shutdown
  Stubborn = {}
  MaxPosts = 0
INVARIANT FalseMeansFinished
CHECK_DEADLOCK FALSE
