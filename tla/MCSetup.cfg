SPECIFICATION Spec
CONSTANTS
  p1 = p1
  p2 = p2
  NoProc = NoProc
  Procs = {p1, p2}
  MaxFiles = 2
  BaseStatements = 3
  RebuiltAt = 2
  LastVersion = 3
  Rebuilds = {2}
  Checked = {2}
  MaxStarts = 2
CHECK_DEADLOCK FALSE
INVARIANTS
  TypeOK
  ServesAnAdministrator
  OpenedIsMigrated
  DanglingWasReported
PROPERTIES
  FinishedSurvives
  UpgradesInOrder
  StartsSettle
