SPECIFICATION RecordedSpec
CONSTANTS
  server = server
  retire = retire
  n1 = n1
  n2 = n2
  Lives = {1, 2}
  Timers = {server}
  Retirers = {retire}
  BatchMax = 1
  MaxOutbox = 9
  LivesInOrder = TRUE
  MaxEvents = 2
  MaxShipments = 2
  Shipments = {1, 2}
  Admins = {a1}
  BatchSize = 2
  MaxBuild = 2
  MaxLost = 1
  MaxReplays = 2
  Nodes = {n1, n2}
  Fleet = Fleet
  Window = 4
  Stride = 2
  Cooldown = 4
  Threshold <- Thresholds
  MaxTime = 3
  MaxCalls = 2
  MaxFaults = 1
  MaxLines = 3
  Unstorable = {3}
  SliceLines = 2
  MaxWiring = 2
  MaxTrouble = 2
  Adapters <- TwoAdapters
  MaxEdits = 4
  MaxDeaths = 2
CHECK_DEADLOCK FALSE
INVARIANT RecordedTypeOK
INVARIANT NothingLost
INVARIANT BurstCaught
INVARIANT SyncedIsAtCentral
INVARIANT AckedIsKept
INVARIANT EvidenceKept
INVARIANT NobodyForced
PROPERTY ImplementsDelivery
PROPERTY EventuallyDelivered
PROPERTY ReportsCome
PROPERTY WiringRestored
