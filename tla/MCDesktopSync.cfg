SPECIFICATION Spec
CONSTANTS
  Cameras = {cam1}
  Records = {evt1}
  Fields = {"name", "zones"}
  Edits = {{"name", "zones"}}
  Flushers = {flush1, flush2}
  RevokeKey = revoke
  MaxCameras = 1
  MaxAttempts = 2
  BatchLimit = 2
  MaxRows = 3
  MaxClaims = 2
INVARIANTS RecordsFollowCamera SyncedRecordIsStored SettlesWhatItSent
PROPERTIES ImplementsSyncQueue AppliedInOrder
SYMMETRY FlushSymmetry
CHECK_DEADLOCK FALSE
