\* One fetch, from its start to the payload, the error or the cancellation; it stops there.
CONSTANTS
  NaN = NaN
  None = None
  Text = Text
  Huge = Huge
  Number <- MCNumber
  Rules <- MCRules
  MaxAttempts = 3
  Second = 5
  MaxDelay = 50
  ClientTimeout = 20
  Timeout = 75
SPECIFICATION Spec
CHECK_DEADLOCK FALSE
INVARIANTS
  TypeOK
  FailureOutlastsBackoffs
  FetchIsBounded
  NothingPassesUnmeasured
  ComplementsMeet
