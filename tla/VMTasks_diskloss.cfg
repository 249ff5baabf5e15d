SPECIFICATION Spec
CONSTANTS
  t1 = t1
  t2 = t2
  Tasks = {t1, t2}
  Scenarios <- DisklossScenarios
  Hosts <- MCHosts
  Breakable <- MCBreakable
  MaxFaults = 1
  MaxActs = 0
CHECK_DEADLOCK FALSE
PROPERTY
  ConversionKeepsDisk
