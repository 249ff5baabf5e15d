SPECIFICATION FairSpec
CONSTANTS
  Jobs <- MetricsJobs
  Kind <- MetricsKind
  Periodic <- MetricsJobs
  Pids = {p1, p2}
  NoJob = NoJob
  NoPid = NoPid
  MaxConcurrentJobs = 1
  MaxRestarts = 1
  MaxFaults = 0
PROPERTIES
  QueuedSettles
  QueuedIsDispatched
