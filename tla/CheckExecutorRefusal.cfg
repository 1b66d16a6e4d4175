\* A circuit that opens at the first failure.
CONSTANTS
  cpu = cpu
  disk = disk
  high = high
  critical = critical
  N = 1
  Metric = {cpu}
  MetricOf <- SingleMetricOf
  Resilience <- FragileResilience
  Alerts <- SingleAlerts
  Fingerprint = {high, critical}
  Limit = 1
  HistorySize = 3
  MaxBatches = 2
  ClientTimeout = FALSE
  LongWindows = TRUE
SPECIFICATION Spec
PROPERTIES
  RefusalIsCounted
