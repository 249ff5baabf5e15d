SPECIFICATION Spec
CONSTANTS
  Jobs <- IntakeJobs
  Kind <- IntakeKind
  Periodic <- NoPeriodic
  Pids = {p1, p2}
  NoJob = NoJob
  NoPid = NoPid
  MaxConcurrentJobs = 1
  MaxRestarts = 0
  MaxFaults = 0
SYMMETRY PidSymmetry
INVARIANTS
  WithinLimit
  NoDuplicates
PROPERTIES
  DrainStopsDispatch
