SPECIFICATION MCSpec
CONSTANTS
  k1 = k1
  k2 = k2
  Keys = {k1, k2}
  CompactFactor = 4
  CompactSlack = 64
  Lanes = 2
  MaxTabs = 2
  MaxHandle = 2
  Ttl = 2
  BatchCap = 2
  Interval = 1
  DoneCap = 1
  MaxEvents = 2
  LastAttach = 3
  LastTick = 4
  HubFactor = 1
  HubSlack = 1
  StepLimit = 2
  HubTabs = 2
  MaxSites = 2
  MaxGen = 3
  LastHubTick = 2
  Texts <- MCTexts
  Distances = {1, 3, 8}
  NotchPx = 2
  Nudges = {1, 2}
  Delays = {1, 2, 3}
  Deadlines <- MCDeadlines
  LastCycle = 3
  Settings <- MCSettings
SYMMETRY MCSymmetry
INVARIANTS TablesAgree AnswersLandHome ReportedOnce HubSound InputWellFormed CookiesHome EvictsSoonest
PROPERTIES LivesItsTime
CHECK_DEADLOCK FALSE
