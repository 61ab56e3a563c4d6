SPECIFICATION Spec
CONSTANTS
  Procs = {p1, p2}
  PassiveKeys = {passive}
  ActiveKeys = {active}
  UserKeys = {capability}
  Risk <- Risks
  Policy = TRUE
  AutoLowRisk = TRUE
  Budget <- OneLow
  MinStable = 1
  SignalMin = 1
  DailyCap = 1
  MaxIds = 3
  MaxPending = 1
  MaxDays = 2
  MaxAborts = 1
  None = None
INVARIANT TypeOK
INVARIANT RunsWarranted
PROPERTY RowsFollowRuns
SYMMETRY Symmetric
CHECK_DEADLOCK FALSE
