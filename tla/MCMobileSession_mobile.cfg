SPECIFICATION ClientSpec
CONSTANTS
  Token = {t1, t2, t3}
  Call = {c1, c2, c3, c4}
  Device = {d1, d2}
  None = None
  MaxEpoch = 1
  Faults = {"query"}
  Acts = {"logout", "change", "lost", "disk", "kill"}
SYMMETRY Symmetry
INVARIANTS
  ClientTypeOK
  LoginIsKept
CHECK_DEADLOCK FALSE
