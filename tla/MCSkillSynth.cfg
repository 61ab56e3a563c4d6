SPECIFICATION Spec
CONSTANTS
  n1 = n1
  n2 = n2
  r1 = r1
  r2 = r2
  fixer = fixer
  None = None
  Names = {n1, n2}
  Runs = {r1, r2}
  Fixers = {fixer}
  MaxEvolved = 1
  MaxRounds = 2
  RetireAfter = 1
  MaxDay = 1
  MaxStarts = 2
INVARIANT LimitHolds
PROPERTY ImplementsLifecycle
CHECK_DEADLOCK FALSE
SYMMETRY Interchangeable
