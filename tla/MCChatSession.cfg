SPECIFICATION MCSpec
CONSTANTS
  Procs = {p1, p2, p3}
  Desktop = desktop
  Keys = {default, work, worktree, work2}
  Default = default
  KeyOf <- Sessions
  NamePrefix <- Prefixed
  DashPrefix <- Dashed
  Suffix <- AfterDash
  Directory <- ByName
  MaxDay = 2
  MaxOps = 4
  MaxSharedOps = 3
  MaxCrashes = 1
  FlushThreshold = 2
  CompactionThreshold = 3
  KeepRecent = 1
  Window = 3
  SessionOps = {"turn", "compact", "clear", "clear_full"}
  DesktopOps = {"create", "rename", "delete"}
  p1 = p1
  p2 = p2
  p3 = p3
  work = work
  worktree = worktree
  work2 = work2
SYMMETRY Sharing
INVARIANT SessionTypeOK
INVARIANT HistoryIsFit
INVARIANT CompactionsCounted
PROPERTY HistoryIsReplay
 
