CONSTANTS
  s1 = s1
  s2 = s2
  t1 = t1
  t2 = t2
  t3 = t3
  c1 = c1
  c2 = c2
  c3 = c3
  w1 = w1
  w2 = w2
  w3 = w3
  None = None
  Sessions = {s1}
  Turns = {t1, t2}
  Workers = {w1, w2}
  ClientIds = {c1, c2}
  Contents = {"h1"}
  StaleTimeout = 1
  MaxStamp = 1
  MaxMessages = 40
  RuntimeOrder <- BothRuntimes
  MaxInFlight = 2
  TimelyHeartbeats = FALSE
  StoreErrors = TRUE
  ModelFiles = 2
  MaxActivities = 2
  MaxDictations = 2
  MaxManaged = 1
  MaxSnags = 1
  Senders = {c1, c2}
  Readers = {w1, w2}
  ChannelCap = 1
  ByteBudget = 2
  MaxSent = 2
  MaxInboxes = 2
SPECIFICATION TurnVoiceSpec
SYMMETRY Symmetry
INVARIANT DispatchSafe
INVARIANT InboxSafe
INVARIANT VoiceModelSafe
PROPERTY StoreSpec
CHECK_DEADLOCK FALSE
