SPECIFICATION Spec
CONSTANTS
  Procs = {p1, p2}
  Langs = {"python", "node"}
  Serves <- Apart
  SystemHas = {}
  Packages = {a}
  MaxCalls = 4
  MaxCrashes = 1
  Files = {f1, f2}
  None = None
SYMMETRY Symmetric
INVARIANT TypeOK
INVARIANT RuntimesAreWhole
INVARIANT SkillHasPackages
CHECK_DEADLOCK FALSE
