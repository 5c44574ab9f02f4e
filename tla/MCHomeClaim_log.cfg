SPECIFICATION LiveSpec
CONSTANTS
  Home = {h1, h2}
  User = {u1, u2}
  Code = {k1}
  Call = {a1, a2}
  Nobody = Nobody
  NoCode = NoCode
  AccountLimit = 1
  CodeLimit = 1
  Faults = {"query", "crash"}
INVARIANTS
  LogMatchesOwner
  LimitHolds
PROPERTIES
  EveryCallAnswered
