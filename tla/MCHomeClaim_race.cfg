SPECIFICATION Spec
CONSTANTS
  Home = {h1}
  User = {u1, u2}
  Code = {k1, k2}
  Call = {a1, a2}
  Nobody = Nobody
  NoCode = NoCode
  AccountLimit = 5
  CodeLimit = 5
  Faults = {"query", "commit", "crash"}
SYMMETRY Symmetry
INVARIANTS
  HomesAgree
PROPERTIES
  OwnershipSpec
