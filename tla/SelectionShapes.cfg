SPECIFICATION ShapedSpec
CONSTANTS
  None = None
  Caller = {c1, c2}
  Manager = {m1, m2}
  Key = {k1, k2}
  Selection = {s1, s2, s3, s4}
  Op = {o1, o2}
  Shutdown = shutdown
  Stubborn = {}
  MaxPosts = 2
INVARIANTS
  TypeOK
  WindowKnowsSelection
  SelectionInv
  NoManagerLeak
PROPERTY ImplementsLifecycle
SYMMETRY Symmetry
CHECK_DEADLOCK FALSE
