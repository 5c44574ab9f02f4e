SPECIFICATION HomeSpec
CONSTANTS
  SensorRule = {s}
  ScheduleRule = {t}
  Threshold = {x, y}
  Event = {e1, e2}
  Tick = Tick
  Patch = {p}
  MaxClock = 6
  MaxDisturbances = 2
  Day = 8
  Radius = 2
  Step = 2
  MinDays = 2
  Habit = {h}
  Suggested = {0, 2, 4}
  Run = {r1, r2}
  Reply = {q1, q2}
  MaxOffer = 2
  RejectedDays = 1
  Absent = Absent
  Date = {1, 2, 3}
  MaxEvents = 4
SYMMETRY Symmetry
INVARIANTS
  HomeTypeOK
  RulesKeepUp
  SuggestionsSound
PROPERTIES
  RunsOnlyWhenDue
  NobodyIsPestered
CHECK_DEADLOCK FALSE
