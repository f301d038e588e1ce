SPECIFICATION ServiceSpec
CONSTANTS
  Cameras = {c1, c2}
  Users = {u1}
  Definitions = {d1, d2}
  Slots = {1, 2}
  MaxActive = 1
  MaxCalls = 1
  MaxFaults = 2
  MaxEdits = 1
INVARIANTS LiveIsOwned StatusIsCurrent ShutdownLeavesNothing
PROPERTIES StopCompletes RequestsReturn Converges
CHECK_DEADLOCK FALSE
