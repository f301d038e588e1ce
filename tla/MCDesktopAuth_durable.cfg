SPECIFICATION Spec
CONSTANTS
  RevokeKey = revoke
  MaxAttempts = 2
  MaxLogins = 2
  MaxRefresh = 3
  MaxClaims = 3
INVARIANT RevocationItemIsDurable
CHECK_DEADLOCK FALSE
