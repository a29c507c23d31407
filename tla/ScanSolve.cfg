SPECIFICATION Spec
CONSTANTS
  NJobs = 4
  Workers = {w1, w2, w3}
  ChanCap = 2
  WatchFires = TRUE
INVARIANTS ReturnsFound
CHECK_DEADLOCK FALSE
