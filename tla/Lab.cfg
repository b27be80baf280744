SPECIFICATION LabSpec
CONSTANTS
  LabCall = {r1}
  MaxLabSelections = 2
  MaxLabWire = 2
  MaxVerifying = 1
  NoCapture = NoCapture
\* A window without an authenticator may stop.
CHECK_DEADLOCK FALSE
INVARIANT LabResultsOfSession
