SPECIFICATION Spec
CONSTANTS
  Procs = {p1}
  PassiveKeys = {}
  ActiveKeys = {active}
  UserKeys = {}
  Risk <- Risks
  Policy = TRUE
  AutoLowRisk = TRUE
  Budget <- TwoADay
  MinStable = 1
  SignalMin = 1
  DailyCap = 5
  MaxIds = 4
  MaxPending = 1
  MaxDays = 1
  MaxAborts = 0
  None = None
INVARIANT BudgetHolds
CHECK_DEADLOCK FALSE
