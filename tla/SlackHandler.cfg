\* Dispatches of three checks; the system stops when all have ended.
CONSTANTS
  high = high
  critical = critical
  unset = unset
  Alert = {high, critical, unset}
  Misconfigured = {unset}
  Threshold = 2
  MaxAttempts = 3
SPECIFICATION FairSpec
CHECK_DEADLOCK FALSE
INVARIANTS
  TypeOK
PROPERTIES
  SilentDropNeedsOutage
  DispatchEnds
