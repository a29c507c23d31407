SPECIFICATION Spec
CONSTANTS
  TimerCap = 2
  RafCap = 1
  FireLimit = 3
  Delays = {1, 2}
  FrameTicks = 1
  Budget = 3
  MaxId = 1
  MaxRaf = 0
  LastTick = 3
PROPERTIES ClearedIsQuiet
CHECK_DEADLOCK FALSE
