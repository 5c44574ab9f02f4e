SPECIFICATION HouseSpec
CONSTANTS
  Command = {c1}
  Device = {d1, virtual, orphan}
  Simulated = {virtual}
  Orphan = {orphan}
  MaxFaults = 2
  HomeA = a
  HomeB = b
  Home = {a, b}
  RoomA = ra
  Room = {ra, rb}
  HomeOf <- HouseHomeOf
  Node = {n, m}
  Hub = {gw, other}
  Self = gw
  OtherHub = other
  MoreThings = {m}
  Edit = {e1, e2}
  OneEdit = e1
  None = None
  Keep = Keep
  KnownSensors = {}
  RegistryMax = 1
  Lifetime = 2
  MaxOutages = 2
INVARIANTS
  HouseAgrees
PROPERTIES
  EveryCallAnswered
  GatewayKeepsUp
