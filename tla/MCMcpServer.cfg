SPECIFICATION ServerSpec
CONSTANTS
  s1 = s1
  s2 = s2
  tool = tool
  toolWithHelper = toolWithHelper
  risky = risky
  signed = signed
  mild = mild
  loud = loud
  fatal = fatal
  None = None
  Skills = {s1, s2}
  Versions = {tool, toolWithHelper, risky, signed}
  HashOf <- Hash
  Review <- Verdict
  Runnable = {tool, toolWithHelper, risky}
  Signed = {signed}
  Sources = {"official", "local"}
  Denied = {}
  Codes = {mild, loud, fatal}
  Severity <- Worst
  Configs <- Settings
  Folders <- Workspace
  Baseline <- Installed
  Ttl = 1
  MaxIds = 2
  MaxClock = 1
  MaxEdits = 1
  MaxRestarts = 1
  Limit = 2
  MaxBytes = 6
INVARIANT RunsAreReviewed
INVARIANT ReaderFramesLines
PROPERTY TokensHold
PROPERTY BlockHolds
