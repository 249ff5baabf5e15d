SPECIFICATION Spec
CONSTANTS
  Jobs <- PairJobs
  Kind <- PairKind
  Periodic <- NoPeriodic
  Pids = {p1, p2}
  NoJob = NoJob
  NoPid = NoPid
  MaxConcurrentJobs = 2
  MaxRestarts = 1
  MaxFaults = 1
SYMMETRY PidSymmetry
INVARIANTS
  WorkExclusion
  AtMostOnce
  IInv
  CompletedWasAnswered
  ServiceAnswerAgreesWithRow
PROPERTIES
  RowsMoveForward
