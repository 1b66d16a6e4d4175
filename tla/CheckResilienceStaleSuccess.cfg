\* A call that began before the circuit opened ends while it is open.
CONSTANTS
  c1 = c1
  c2 = c2
  c3 = c3
  c4 = c4
  Caller <- MCCaller
  Threshold <- MCThreshold
  MaxInflight = 2
  CbEnabled = TRUE
SPECIFICATION Spec
PROPERTIES
  ClosesThroughTrial
