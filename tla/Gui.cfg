SPECIFICATION GuiPartsSpec
CONSTANTS
  ga = ga  gb = gb
  GuiNames = {ga, gb}
  MaxActs = 2
  GuiFaults = {"init", "row"}
  MaxErrors = 4
  MaxInstalls = 3
  Keys = {"a", "b"}
  Publishers = {"p", "q"}
  MaxRuns = 2
  ToastFaults = {"kill", "write"}
  HealthChecks = {"disk-low"}
  Host <- SomeHost
  HealthWorlds <- TwoWorlds
  Clickers = {"recheck"}
  CheckSlots = 1
  ActionIds = {"mkcert"}
  ActionSlots = 1
  MaxBatches = 3
  MaxSubmits = 2
  FeedSites = {"a"}
  Retention = 2
  RecentMax = 1
  FullMax = 2
  AuditMax = 2
  MaxPlans = 3
  MaxClock = 1
  MaxLoads = 1
  FeedFaults = {"clock", "insert", "read"}
  Described = {"a"}
  Writers = {"w1", "w2"}
  MaxVersion = 3
  MaxFetches = 4
  CacheFaults = {"describe"}
  PanelSites = {"a", "b"}
  MaxBoots = 3
SYMMETRY GuiSymmetry
INVARIANTS
  CalmListIsTheTable
  BusyMeansInstalling
  ToastsAreKept
  QuietWhenIdle
  CalmCacheIsTheHead
  RestIsFresh
  RegisteredIsShown
\* The bounds cut every part off.
CHECK_DEADLOCK FALSE
