SPECIFICATION BackendOnlySpec
CONSTANTS
  Command = {c1}
  Device = {d1}
  Simulated = {}
  Orphan = {}
  MaxFaults = 1
PROPERTIES
  TimerBoundsCall
