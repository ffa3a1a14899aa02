SPECIFICATION Spec
CONSTANTS
  None = None
  Requests = {r1, r2}
  MaxSessions = 2
  Account = "admin"
  Strangers = {"ghost"}
  Workloads = {"signed_in", "mistyped"}
  Sources = {"s"}
  Initial = "p0"
  Acceptable = {"p1"}
  SessionTTL = 3
  SessionIdleTimeout = 2
  FailureWindow = 2
  AccountFailureLimit = 2
  SourceFailureLimit = 3
  BlockDuration = 2
  MaxTrackedKeys = 2
  MaxClock = 4
INVARIANTS AdmissionIsCurrent
PROPERTIES NothingIsRevived BlockHolds
SYMMETRY RequestSymmetry
