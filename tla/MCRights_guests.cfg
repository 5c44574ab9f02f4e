SPECIFICATION MCRightsSpec
CONSTANTS
  User = {o, u}
  Owner = o
  Guest = u
  MaxRow = 2
  Device = {d}
  Request = {r1, r2}
  Plain = {"VIEWER"}
  None = None
  MaxEvents = 0
  Conn = {}
  MaxUnauth = 1
  MaxAuth = 1
  MaxRevocations = 0
INVARIANTS
  GuestHasDevices
CHECK_DEADLOCK FALSE
