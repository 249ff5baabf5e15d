SPECIFICATION Spec
CONSTANTS
  Jobs <- MixedJobs
  Kind <- MixedKind
  Periodic <- MixedPeriodic
  Pids = {p1, p2}
  NoJob = NoJob
  NoPid = NoPid
  MaxConcurrentJobs = 2
  MaxRestarts = 0
  MaxFaults = 0
SYMMETRY PidSymmetry
INVARIANTS
  TypeOK
  SlotExclusion
  RunningIsWatched
PROPERTIES
  ImplementsGate
