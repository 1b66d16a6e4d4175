\* The count of suppressed alerts.
CONSTANTS
  high = high
  critical = critical
  Fingerprint <- MCFingerprint
  Dedupe <- MCDedupe
  PurgeAge = {0, 1, 2}
  MaxTime = 7
  MaxCount = 2
SPECIFICATION Spec
PROPERTIES
  CountIsReported
