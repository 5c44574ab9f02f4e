SPECIFICATION Spec
CONSTANTS
  Token = {t1, t2, t3, t4}
  Call = {c1, c2, c3, c4}
  None = None
  MaxEpoch = 1
  Faults = {}
SYMMETRY Symmetry
INVARIANTS
  ChangeEndsSessions
CHECK_DEADLOCK FALSE
