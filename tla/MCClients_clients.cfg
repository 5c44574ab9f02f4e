SPECIFICATION ClientsSpec
CONSTANTS
  Token = {t1, t2, t3}
  Call = {c1, c2, c3}
  None = None
  MaxEpoch = 1
  Faults = {"query"}
  MaxTurns = 3
  MaxNotes = 2
  PageSize = 1
  Foreign = {1}
  MaxTaps = 3
  Mark = {m1, m2}
  MaxLogins = 2
  MaxVisits = 5
  DataCall = {"d1", "d2"}
INVARIANTS
  FamiliesSound
  RevocationExact
  ScreensAgree
PROPERTIES
  EndedForGood
  EveryCallAnswered
  ScreensSettle
CHECK_DEADLOCK FALSE
