SPECIFICATION Spec
CONSTANTS
  NJobs = 4
  Workers = {w1, w2}
  ChanCap = 4
  WatchFires = FALSE
INVARIANTS LeastNonce
CHECK_DEADLOCK FALSE
