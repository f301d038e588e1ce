SPECIFICATION Spec
CONSTANTS
  Requests = {r1, r2}
  Worker = worker
  Nobody = nobody
  PoolSize = 3
  MaxSids = 2
  MaxTokens = 3
  MaxLicenses = 2
  MaxRows = 2
  MaxFaults = 1
SYMMETRY RequestSymmetry
INVARIANTS RefreshOnce NoRevocationLost
PROPERTIES AcceptedInLoginOrder
CHECK_DEADLOCK FALSE
