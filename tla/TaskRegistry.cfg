SPECIFICATION MCSpec
CONSTANTS
  t1 = t1
  t2 = t2
  t3 = t3
  Tasks = {t1, t2, t3}
  Clients = {c1}
  WorkerCap = 1
  AdmissionCap = 2
  Ttl = 1
  LastTick = 2
INVARIANTS Accounted Once OneTrueAnswer
PROPERTIES NoJobLost AdmissionComesBack
CHECK_DEADLOCK FALSE
