CONSTANTS
  a1 = a1
  a2 = a2
  h1 = h1
  h2 = h2
  w1 = w1
  w2 = w2
  d1 = d1
  d2 = d2
  None = None
  Approvals = {a1}
  Handlers = {h1}
  Workers = {w1}
  Digests = {d1, d2}
  Kinds = {"skill_write"}
  Payloads <- AllPayloads
  Owners <- AllOwners
  Expiry = 1
  BeatLimit = 2
  MaxLease = 2
  HandlerLease = 1
  WorkerLease = 2
  Backoff = 1
  MaxAttempts = 3
  MaxEpoch = 4
  Errors = FALSE
  MaxFaults = 1
  Families = {"skill", "addendum"}
  Versions = {"v1", "v2"}
  Proposals = {"p1"}
  Requests = {"r1"}
  Readers = {"x1"}
  Nothing = Nothing
  Pids = {1}
  MaxTries = 1
  MaxMishaps = 0
  MaxDeaths = 0
SPECIFICATION FlowScene
INVARIANT FailedChangedNothing
CHECK_DEADLOCK FALSE
