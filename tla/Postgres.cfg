CONSTANTS
  s1 = s1
  t1 = t1
  t2 = t2
  w1 = w1
  w2 = w2
  p1 = p1
  p2 = p2
  e1 = e1
  e2 = e2
  None = None
  Sessions = {s1}
  Turns = {t1, t2}
  Workers = {w1, w2}
  ClientIds = {"c1", "c2"}
  Contents = {"h1"}
  StaleTimeout = 1
  MaxStamp = 1
  MaxMessages = 3
  Conns = {p1, p2}
  MaxRetries = 1
  MaxLog = 2
  Requests = {"a1"}
  Procs = {p1, p2}
  NoProc = "none"
  MaxEffectTries = 1
  MaxEpochs = 2
  Slots = {e1, e2}
  OwnerOf <- OwnProcess
  NoOwner = NoOwner
  MaxAttempts = 2
  Records = {"r1"}
  MaxKey = 2
  EmbedVersions = {"v1", "v2"}
  Deployments <- Rollout
  Oversized = {}
  MaxJobClaims = 2
  MaxEmbedFaults = 0
  RuntimeOrder <- ChatOnly
  MaxInFlight = 1
  TimelyHeartbeats = FALSE
  StoreErrors = FALSE
  Objects = {"tea", "coffee"}
  ProjectIds = {"p"}
  NoProject = "-"
  Backends = {"memory", "postgres"}
  MaxFactProposals = 3
SPECIFICATION PostgresSpec
SYMMETRY Symmetry
INVARIANT PgApprovalsSafe
INVARIANT PgTurnsSafe
INVARIANT DrainedOwnsNothing
PROPERTY EmbeddingsCorrect
PROPERTY MemoryCorrect
PROPERTY PgOutcomesFinal
CHECK_DEADLOCK FALSE
