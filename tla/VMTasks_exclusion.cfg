SPECIFICATION Spec
CONSTANTS
  t1 = t1
  t2 = t2
  Tasks = {t1, t2}
  Scenarios <- ExclusionScenarios
  Hosts <- MCHosts
  Breakable <- MCBreakable
  MaxFaults = 0
  MaxActs = 0
CHECK_DEADLOCK FALSE
PROPERTY
  WritesExclusivePerVM
