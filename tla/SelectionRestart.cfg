SPECIFICATION FairSpec
CONSTANTS
  None = None
  Caller = {c1}
  Manager = {m1, m2}
  Key = {k1}
  Selection = {s1, s2, s3}
  Op = {o1}
  Shutdown = shutdown
  Stubborn = {o1}
  MaxPosts = 1
PROPERTIES
  ShutdownCompletes
  RestartReturns
INVARIANTS NoForgottenOperation StoppedStaysEmpty
CHECK_DEADLOCK FALSE
