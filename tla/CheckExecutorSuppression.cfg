\* One check that alerts twice in a window.
CONSTANTS
  cpu = cpu
  disk = disk
  high = high
  critical = critical
  N = 1
  Metric = {cpu}
  MetricOf <- SingleMetricOf
  Resilience <- SingleResilience
  Alerts <- SingleAlerts
  Fingerprint = {high, critical}
  Limit = 1
  HistorySize = 3
  MaxBatches = 2
  ClientTimeout = FALSE
  LongWindows = TRUE
SPECIFICATION Spec
INVARIANTS
  OnlyDuplicatesAreSuppressed
