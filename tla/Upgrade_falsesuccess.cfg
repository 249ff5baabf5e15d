SPECIFICATION Spec
CONSTANTS
  Tasks = {t1}
  Versions <- AllVersions
  Target <- OneTarget
  Old = "old"
  NoTask = NoTask
  NoBin = NoBin
  LogVisible = TRUE
  MaxFaults = 0
  MaxRestarts = 0
CHECK_DEADLOCK FALSE
PROPERTY
  NoFalseUpgraded
