SPECIFICATION Spec
CONSTANTS
  RevokeKey = revoke
  MaxAttempts = 2
  MaxLogins = 2
  MaxRefresh = 3
  MaxClaims = 3
INVARIANTS LogoutsSpareActive LogoutIsFinal
PROPERTY SettlingKeepsActiveSession
CHECK_DEADLOCK FALSE
