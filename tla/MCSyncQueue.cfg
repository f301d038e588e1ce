SPECIFICATION Spec
CONSTANTS
  CameraKeys = {cam}
  RecordKeys = {evt}
  RevokeKey = revoke
  CameraWork = {w1, w2}
  RecordWork = {send}
  RevokeWork = {logout}
  MaxAttempts = 2
  Limits = {2}
  MaxRows = 3
  MaxClaims = 2
INVARIANTS LiveLeaseOwnsRow VersionsInOrder ReferencesResolve CameraNeverWedged
PROPERTIES WorkImmutable
CHECK_DEADLOCK FALSE
