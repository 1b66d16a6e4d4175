\* Both modes, signals at any time.
CONSTANTS
  cpu = cpu
  disk = disk
  Check = {cpu, disk}
  Interval = 2
  MaxTime = 8
SPECIFICATION FairSpec
INVARIANTS
  TypeOK
  SlotsKept
  ReadyMeansServing
  ClosedAfterLastCheck
PROPERTIES
  NoBatchBeforeItsSlot
  ImplementsBatch
  SignalEndsProgram
