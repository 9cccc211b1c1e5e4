SPECIFICATION MCSpec
CONSTANTS
  Handlers = {h1, h2}
  MaxTime = 3
  AccessTime = 1
  MaxLag = 1
  MaxRequests = 3
  MaxRestarts = 1
  Requests <- MCRequests
  AdminToken = "good"
  Ids = {s1, s2}
  TTL = 1
  IPs = {i1, i2}
  IPCap = 1
  IPCost = 1
  GlobalCap = 2
  GlobalCost = 3
  Second = 2
  IdleEvict = 2
SYMMETRY Symmetry
INVARIANTS
  SessionsExact
  ValidateTruthful
  Throttled
  RetryAfterSuffices
  OutcomesJustified
  LogoutFinal
PROPERTIES
  EvictionForgetsNothing
  ProtocolsKept
CHECK_DEADLOCK FALSE
