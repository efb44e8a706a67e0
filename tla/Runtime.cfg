CONSTANTS
  c1 = c1
  c2 = c2
  w1 = w1
  w2 = w2
  e1 = e1
  e2 = e2
  Slots = {w1, w2}
  OwnerOf <- OneProcess
  NoOwner = NoOwner
  MaxAttempts = 2
  DreamSessions = {"s1"}
  MaxDreams = 1
  MaxDreamLog = 3
  MaxFire = 2
  FirstClock = 1
  MaxCatchUp = 1
  ClaimsPerTick = 1
  MaxSessions = 2
  MaxCronCrashes = 0
  PushDevices = {"d1"}
  PushApprovals = {"a1"}
  PushAnswers = {}
  MaxSends = 1
  MaxPushClaims = 3
  MaxPushCrashes = 0
  EvTurns = {"t1", "t2"}
  EvSessions = {"a", "b"}
  SessionOfTurn <- OneTurnEach
  RuntimeReward <- Passing
  Evolvers = {e1, e2}
  NMin = 1
  MaxTraceIds = 3
  MaxEvRuns = 2
  Actors = {"a", "b"}
  Root = "root"
  Strategy = "one_for_one"
  MaxRestarts = 1
  MaxLive = 3
  MaxConcurrent = 2
  MaxInc = 2
  Calls = {c1, c2}
  MaxVersion = 1
  MaxPolicies = 2
  MaxTokens = 1
  MaxStarts = 2
  RequestCap = 2
  ResponseCap = 1
  Handles = {c1, c2}
  Texts = {1, 2}
  Blobs = {1}
  Ids = {0, 1, 2}
  MaxSessionBytes = 2
  MaxArtifacts = 2
  MaxBlobs = 1
  EntrySlack = 3
  MaxTrouble = 2
SPECIFICATION RuntimeSpec
SYMMETRY Symmetry
INVARIANT ActorsSafe
INVARIANT EgressSafe
INVARIANT ArtifactsSafe
PROPERTY CronCorrect
PROPERTY DreamsCorrect
PROPERTY EvolutionCorrect
PROPERTY PushCorrect
CHECK_DEADLOCK FALSE
