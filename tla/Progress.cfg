CONSTANTS
  w1 = w1
  Slots = {w1}
  OwnerOf <- OwnProcess
  NoOwner = NoOwner
  MaxAttempts = 2
  DreamSessions = {"s1"}
  MaxDreams = 2
  MaxDreamLog = 2
  MaxFire = 2
  FirstClock = 2
  MaxCatchUp = 1
  ClaimsPerTick = 1
  MaxSessions = 1
  MaxCronCrashes = 1
  PushDevices = {"d1"}
  PushApprovals = {"a1"}
  PushAnswers = {"answer"}
  MaxSends = 1
  MaxPushClaims = 2
  MaxPushCrashes = 1
  Records = {"r1"}
  MaxKey = 2
  EmbedVersions = {"v1"}
  Deployments <- OneVersion
  Oversized = {1}
  MaxJobClaims = 4
  MaxEmbedFaults = 1
  Actors = {"a"}
  Root = "root"
  Strategy = "one_for_one"
  MaxRestarts = 1
  MaxLive = 3
  MaxConcurrent = 2
  MaxInc = 2
  Senders = {"s", "u"}
  Readers = {"r1", "r2"}
  ChannelCap = 1
  ByteBudget = 1
  MaxSent = 2
  MaxInboxes = 1
SPECIFICATION ProgressSpec
PROPERTY ActorsAnswer
PROPERTY WorkEnds
CHECK_DEADLOCK FALSE
