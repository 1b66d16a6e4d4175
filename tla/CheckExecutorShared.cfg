\* Three checks of one metric_id under two permits.
CONSTANTS
  cpu = cpu
  disk = disk
  high = high
  critical = critical
  N = 3
  Metric = {cpu}
  MetricOf <- SharedMetricOf
  Resilience <- SharedResilience
  Alerts <- SharedAlerts
  Fingerprint = {high, critical}
  Limit = 3
  HistorySize = 3
  MaxBatches = 2
  ClientTimeout = TRUE
  LongWindows = TRUE
SPECIFICATION Spec
INVARIANTS
  TypeOK
  PipelinesAccounted
  HistoryAgreesWithTotals
  OwnerIsFirst
  NoConcurrentDuplicate
PROPERTIES
  ImplementsCheckResilience
