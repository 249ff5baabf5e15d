SPECIFICATION FairSpec
CONSTANTS
  Tasks = {t1}
  Versions <- AllVersions
  Target <- OneTarget
  Old = "old"
  NoTask = NoTask
  NoBin = NoBin
  LogVisible = TRUE
  MaxFaults = 2
  MaxRestarts = 3
CHECK_DEADLOCK FALSE
INVARIANTS
  TypeOK
  WorkingBinaryOnDisk
  ConfirmedOnce
PROPERTIES
  BrokenNeverConfirmed
  UpgradeAnswered
  RollbackRestores
