SPECIFICATION PartSpec
CONSTANTS
  Lookup = {k1, k2}
  RefreshInterval = 2
  MaxClock = 3
  MaxVersions = 2
  MaxLookups = 3
  Nothing = Nothing
  Corrupt = Corrupt
  Label <- MCLabel
  Domain <- MCDomain
  Written <- MCWritten
  Normal <- MCNormal
  Registrable <- MCRegistrable
  Entry <- MCEntry
  MaxEntries = 3
  Unclaimed = Unclaimed
  JournalLimit = 2
  EntryLimit = 2
  Bytes <- MCBytes
  ByteLimit = 3
  MaxSequence = 3
  MaxPending = 3
  MaxRuntimeFailures = 2
  NotSelected = NotSelected
  Size = {n1, n2}
  Screen = Screen
  Icon = Icon
  Handler = {h1, h2}
  Unsaved = Unsaved
  LabCall = {r1, r2}
  MaxLabSelections = 2
  MaxLabWire = 1
  MaxVerifying = 1
  NoCapture = NoCapture
INVARIANTS
  DirectoryInv
  DirectoryOfReport
  CatalogAnswers
  LogInv
  WindowComesBack
  LabInv
\* The catalogue is parsed once, the bounds end the others.
CHECK_DEADLOCK FALSE
