SPECIFICATION FleetSpec
CONSTANTS
  Job = {j}
  Target = {s1, r1}
  Simulated = {s1}
  Gateway = {gw}
  RealGateway = gw
  GatewayOf <- FleetGatewayOf
  None = None
  Full = 3
  MaxFaults = 2
  Message = {m1, m2}
  GatewayDevice = {g}
  SensorDevice = {s}
  BlockThreshold = 2
  MaxCount = 3
  Window = 4
  Tick = {k1, k2}
  MaxSkips = 1
  MaxFailures = 1
  Operator = {op}
  House = {h}
  Caller = {c1, c2}
  DailyLimit = 1
  MaxGrant = 3
  MaxLogins = 1
  Nothing = Nothing
INVARIANTS
  FleetTypeOK
  JobTellsRows
  OutageIsTold
  GrantsHold
PROPERTIES
  OutcomeIsFinal
  OpenRowsEnd
  BlockingIsExact
  ChangesAreTold
  RightsMove
CHECK_DEADLOCK FALSE
