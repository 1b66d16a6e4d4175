\* Windows, counts and purges of two fingerprints.
CONSTANTS
  high = high
  critical = critical
  Fingerprint <- MCFingerprint
  Dedupe <- MCDedupe
  PurgeAge = {0, 1, 2}
  MaxTime = 7
  MaxCount = 2
SPECIFICATION Spec
INVARIANTS
  TypeOK
PROPERTIES
  DispatchSpacing
  ImplementsAlertWindow
