SPECIFICATION MCSpec
CONSTANTS
  r1 = r1
  r2 = r2
  r3 = r3
  Requests = {r1, r2, r3}
  Workers = {w1, w2}
  Kind <- MCKind
  Bytes <- MCBytes
  ScriptBytes = 3
  QueueCap = 1
SYMMETRY Symmetry
INVARIANTS TasksAccounted EnvUsable Answered
CHECK_DEADLOCK FALSE
