SPECIFICATION Spec
CONSTANTS
  Threads = {t1, t2}
  Worker = t1
  Waiters = {w1}
  Closers = {c1, c2}
  None = none
  MaxPending = 1
  MaxErrors = 1
  MaxEvents = 2
  MaxTasks = 2
  MaxCalls = 1
INVARIANTS BacklogBounded ClosedIsDrained NoErrorLost
PROPERTIES AcloseEnds
CHECK_DEADLOCK FALSE
