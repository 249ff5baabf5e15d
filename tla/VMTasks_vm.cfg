SPECIFICATION Spec
CONSTANTS
  t1 = t1
  t2 = t2
  Tasks = {t1, t2}
  Scenarios <- MCScenarios
  Hosts <- MCHosts
  Breakable <- MCBreakable
  MaxFaults = 2
  MaxActs = 1
CHECK_DEADLOCK FALSE
INVARIANTS
  TypeOK
  DisksIntact
  NothingLeftBehind
  LivesUnderItsName
PROPERTIES
  SourceUntouched
  EditAppliesAll
