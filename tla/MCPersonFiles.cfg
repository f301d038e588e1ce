SPECIFICATION Spec
CONSTANTS
  Persons = {p1}
  Requests = {r1, r2}
  Worker = worker
  Limit = 1
  PoolSize = 4
  MaxImages = 3
  MaxFaults = 2
INVARIANTS FaceIsStored NothingLeaks
PROPERTIES CleanupCompletes
CHECK_DEADLOCK FALSE
