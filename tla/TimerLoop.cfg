SPECIFICATION Spec
CONSTANTS
  TimerCap = 2
  RafCap = 2
  FireLimit = 2
  Delays = {1, 2}
  FrameTicks = 1
  Budget = 3
  MaxId = 3
  MaxRaf = 2
  LastTick = 3
INVARIANTS Armed
PROPERTIES FiresAsAsked ClearedByOthers
CHECK_DEADLOCK FALSE
