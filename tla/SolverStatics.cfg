SPECIFICATION MCSpec
CONSTANTS
  Clients = {"c1", "c2"}
  Keys = {1, 2, 3}
  Slots = {0, 1}
  SlotOf <- LowBit
  CacheCalls = 2
  Callers = {"c1", "c2"}
  Kinds = {"until", "plain"}
  Patience = 1
  Threads = 2
  PoolCap = 1
  CallTasks = 2
  CallJobs = 2
  JobCap = 1
  Ahead <- Clocks
  WatchCalls = 2
  WatchTicks = 3
  Settings = 1
  First = "c1"
  Scripts = {"u", "w"}
  BridgeCap = 1
  BridgeCalls = 4
  Urls = {1, 2}
  Pages = {2}
  Builds = {1, 2}
  Visitors = {"v", "w"}
  ListCap = 1
  ListTtl = 0
  Usize = 8
  Visits = 1
  Rounds = 1
  ListTicks = 1
  Someone = "v"
  Other = 2
INVARIANTS StaticsSound ReturnIsTrue RepliesOwned
PROPERTIES UntilEnds CallsEnd WorkersReturn
CHECK_DEADLOCK FALSE
