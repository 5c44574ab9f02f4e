SPECIFICATION OneDeviceSpec
CONSTANTS
  Command = {c1, c2}
  Device = {d1, virtual}
  Simulated = {virtual}
  Orphan = {}
  MaxFaults = 1
SYMMETRY CallSymmetry
INVARIANTS
  PendingExact
  StateTracksRelay
PROPERTIES
  PowerFollowsAck
  LedgerSpec
