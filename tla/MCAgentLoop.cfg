SPECIFICATION FairSpec
CONSTANTS
  MaxIterations = 3
  MaxCallsPerTask = 1
  FailureLimit = 2
  MaxClarifications = 1
  MaxStuck = 2
  MaxNoTool = 2
  MaxOverflow = 2
  AutoRecover = 2
  MaxBatch = 2
  MaxReplanTasks = 1
  InitialPlans <- SpreadPlans
  TaskArgs = {1, 2}
  IdModulus = 8
  DocSkills = {d}
INVARIANT RequestsWellFormed
INVARIANT CallBudget
PROPERTY AcknowledgementsTrue
PROPERTY ImplementsTaskList
PROPERTY Returns
