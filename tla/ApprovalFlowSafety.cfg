CONSTANTS
  a1 = a1
  a2 = a2
  h1 = h1
  h2 = h2
  w1 = w1
  w2 = w2
  d1 = d1
  d2 = d2
  None = None
  Approvals = {a1}
  Handlers = {h1, h2}
  Workers = {w1}
  Digests = {d1, d2}
  Kinds = {"memory_write", "approval_continuation", "skill_write"}
  Payloads <- AllPayloads
  Owners <- AllOwners
  Expiry = 1
  BeatLimit = 2
  MaxLease = 2
  HandlerLease = 1
  WorkerLease = 2
  Backoff = 1
  MaxAttempts = 2
  MaxEpoch = 3
  Errors = TRUE
  MaxFaults = 1
  Families = {"skill", "addendum"}
  Versions = {"v1", "v2"}
  Proposals = {"p1"}
  Requests = {"r1", "r2"}
  Readers = {"x1"}
  Nothing = Nothing
  Pids = {1}
  MaxTries = 2
  MaxMishaps = 1
  MaxDeaths = 1
SPECIFICATION ApprovalScenes
SYMMETRY Symmetry
INVARIANT FlowSafe
INVARIANT CatalogSafe
PROPERTY ApprovalSpec
PROPERTY ApprovalsCorrect
CHECK_DEADLOCK FALSE
