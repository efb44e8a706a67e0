CONSTANTS
  p1 = p1
  p2 = p2
  c1 = c1
  c2 = c2
  Producers = {p1, p2}
  QueueCap = 2
  MaxPushes = 3
  MaxStoreFaults = 1
  Asks = {"a1"}
  WakeCap = 1
  MaxEvents = 3
  MaxBreaks = 1
  MaxLoads = 2
  McpCalls = {c1, c2}
  NoCall = "none"
  MaxRemote = 2
  MaxCatalogLoads = 2
  MaxMcpStarts = 2
  MaxResumes = 1
  Jobs = {"j1"}
  Slots = 1
  MaxLedgerFaults = 1
  MaxWorkerCrashes = 1
  Names = {"x"}
  Effects = {"e1"}
  Scopes = {"outer"}
  Above <- Nested
  Batches <- Dialogue
  MaxTurns = 1
  Parallelism = 2
  Runs = {"r1"}
  Profiles = {"disabled", "bubblewrap", "hardened"}
  MaxSwaps = 0
  MaxDeaths = 1
  AcpTurns = {"t1", "t2"}
  Nobody = "nobody"
  ChannelCap = 1
  TextCap = 1
  LineCap = 1
  MaxUpdates = 1
SPECIFICATION ServicesSpec
INVARIANT McpSafe
INVARIANT SinkSafe
INVARIANT WorkerSafe
PROPERTY CallsEnd
PROPERTY StreamCorrect
CHECK_DEADLOCK FALSE
