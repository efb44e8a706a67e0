CONSTANTS
  s1 = s1
  s2 = s2
  t1 = t1
  t2 = t2
  t3 = t3
  w1 = w1
  w2 = w2
  None = None
  Sessions = {s1, s2}
  Turns = {t1, t2, t3}
  Workers = {w1, w2}
  ClientIds = {"c1", "c2", "c3"}
  Contents = {"h1"}
  StaleTimeout = 2
  MaxStamp = 2
  MaxMessages = 3
  Preferences = {"k1", "k2"}
  Noticed = {"k1"}
  Tiers = {"moderate", "conservative"}
  ReviewVerdicts = {"approved", "denied"}
  Detectors = {w1, w2}
  Appliers = {w1, w2}
  NoDigest = NoDigest
  MaxReviews = 2
  MaxEffectTries = 2
  MaxRetried = 1
  MaxTierChanges = 1
  AcpTurns = {"a1", "a2"}
  Nobody = "nobody"
  ChannelCap = 1
  TextCap = 1
  LineCap = 2
  MaxUpdates = 2
  VNil = VNil
  Captures = {"v1", "v2"}
  HomeServers = {"home", "lab"}
  MaxRecordings = 2
  MaxUpsets = 1
SPECIFICATION ServerSpec
SYMMETRY Symmetry
INVARIANT DelegationSafe
INVARIANT VoiceSafe
PROPERTY StoreCorrect
PROPERTY ReviewsCorrect
CHECK_DEADLOCK FALSE
