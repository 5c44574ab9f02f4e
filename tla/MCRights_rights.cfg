SPECIFICATION MCRightsSpec
CONSTANTS
  User = {o, u}
  Owner = o
  Guest = u
  MaxRow = 3
  Device = {d}
  Request = {r1, r2}
  Plain = {"VIEWER"}
  None = None
  MaxEvents = 1
  Conn = {c1, c2}
  MaxUnauth = 1
  MaxAuth = 1
  MaxRevocations = 1
INVARIANTS
  RightsTypeOK
  RowsLegal
  ConnectionsBounded
PROPERTIES
  CopyFollows
  RevokedIsClosed
  DeclineSparesMembers
CHECK_DEADLOCK FALSE
