\* Overlapping executions: max_inflight = 2.
CONSTANTS
  c1 = c1
  c2 = c2
  c3 = c3
  c4 = c4
  Caller <- MCCaller
  Threshold <- MCThreshold
  MaxInflight = 2
  CbEnabled = TRUE
SPECIFICATION FairSpec
INVARIANTS
  TypeOK
  ClosedIffBelowThreshold
  OpenLeavesPermit
PROPERTIES
  OpenIsEventuallyTried
