SPECIFICATION Spec
CONSTANTS
  Cameras = {cam1}
  Records = {}
  Fields = {"name", "zones"}
  Edits = {{"name"}, {"zones"}}
  Flushers = {flush1}
  RevokeKey = revoke
  MaxCameras = 1
  MaxAttempts = 2
  BatchLimit = 2
  MaxRows = 3
  MaxClaims = 2
INVARIANTS SuccessorCarriesMutations

CHECK_DEADLOCK FALSE
