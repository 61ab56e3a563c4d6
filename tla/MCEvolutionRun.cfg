SPECIFICATION FairSpec
CONSTANTS
  server = server
  pulse = pulse
  timer = timer
  trigger = trigger
  command = command
  Procs = {server}
  Runs = {timer, trigger}
  ProcOf <- HomesInServer
  Sessions = {timer, trigger}
  Scopes <- TwoScopes
  Absent = {"examples"}
  External = TRUE
  Keep = 1
  Window = 1
  MaxNow = 2
  MaxStarts = 3
  MaxDecisions = 2
  MaxShifts = 1
INVARIANT FlagIsHeld
INVARIANT ActiveSnapshotKept
PROPERTY ChangesStay
PROPERTY LateDecisionsStay
PROPERTY FlagReleased
