CONSTANTS
  c1 = c1
  c2 = c2
  DriveCalls = {c1, c2}
  Dirs = {"inbox", "finance"}
  Contents = {"h1", "h2"}
  Filing <- ToFinance
  MaxEntries = 2
  MaxProposals = 2
  MaxRuns = 2
  MaxDriveCalls = 3
  Tools = {c1, c2}
  Roots = {"r1", "r2"}
  StaticRoot = "r1"
  Paths = {"f", "g"}
  Texts = {"x", "y"}
  Mixes <- ToolMixes
  MaxInodes = 3
  MaxHead = 2
  MaxReboots = 1
  Names = {"x", "y"}
  Effects = {"e1", "e2", "e3"}
  Scopes = {"outer", "inner"}
  Above <- Nested
  Batches <- Dialogue
  MaxTurns = 2
  Parallelism = 2
  Runs = {"r1"}
  Profiles = {"disabled", "bubblewrap", "hardened"}
  MaxSwaps = 1
  MaxDeaths = 2
  Nil = "nil"
  Origins = {"o1", "o2"}
  Codes = {"q1", "q2"}
  Devs = {"v1", "v2"}
  Syncs = {"y1"}
  MaxChanges = 1
  MaxAppCrashes = 1
SPECIFICATION HostSpec
SYMMETRY Symmetry
INVARIANT CellsSafe
INVARIANT IsolationSafe
INVARIANT PhoneSafe
PROPERTY DriveCorrect
PROPERTY LinkedCorrect
CHECK_DEADLOCK FALSE
