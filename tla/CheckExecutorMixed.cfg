\* Fetches and dispatches that may hang, executions that wait for a permit, and a
\* check with a metric_id of its own.
CONSTANTS
  cpu = cpu
  disk = disk
  high = high
  critical = critical
  N = 3
  Metric = {cpu, disk}
  MetricOf <- MixedMetricOf
  Resilience <- MixedResilience
  Alerts <- MixedAlerts
  Fingerprint = {high, critical}
  Limit = 2
  HistorySize = 3
  MaxBatches = 2
  ClientTimeout = FALSE
  LongWindows = FALSE
SPECIFICATION FairSpec
PROPERTIES
  EveryCheckEnds
  ImplementsBatch
  CircuitClosesThroughTrial
