CONSTANTS
  Card = {card1}
  Key = {key1}
  Op = {o1, o2}
  OneReader = TRUE
  MaxSelections = 3
  MaxWire = 2
  None = None
  Authenticator = {s1, s2}
  Sensing = {s1}
  FingerName = {f1}
  Unnamed = Unnamed
  NoFinger = NoFinger
  SecurityCall = {q1, q2}
  MaxSecuritySelections = 2
  MaxSecurityWire = 2
  MaxSecurityChanges = 2
  MaxSecurityFailures = 1
  NoReport = NoReport
SPECIFICATION PartSpec
CHECK_DEADLOCK FALSE
INVARIANTS RecoveryInv RetryAfterRemoval SecurityWaits SecuritySettled
PROPERTIES OpeningEnds
