SPECIFICATION Spec
CONSTANTS
  Jobs <- HostJobs
  Kind <- HostKind
  Periodic <- NoPeriodic
  Pids = {p1, p2}
  NoJob = NoJob
  NoPid = NoPid
  MaxConcurrentJobs = 2
  MaxRestarts = 0
  MaxFaults = 0
SYMMETRY PidSymmetry
INVARIANTS
  HostWriteBlocksWrites
