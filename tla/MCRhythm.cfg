SPECIFICATION FairSpec
CONSTANTS
  Pids = {p1, p2}
  Plans <- ThreePlans
  DayLength = 2
  Prints <- Little
  PipeRoom = 3
  Cwd = "workspace"
  MaxClock = 4
  MaxIncidents = 1
  Absent = Absent
INVARIANT RhythmTypeOK
INVARIANT OneChild
INVARIANT SchedulesKept
CHECK_DEADLOCK FALSE
PROPERTY DueJobsRun
