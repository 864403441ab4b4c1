SPECIFICATION MCSpec
CONSTANTS
  Clients = {c1, c2}
  MaxFailed = 5
  MaxAttempts = 6
  MaxTokens = 1
  Requests = {c1, c2, c3}
  MaxRefreshes = 3
  MaxSecrets = 2
INVARIANTS FifthFailureLocks RefreshOnce LogoutHolds ProvenSecret
PROPERTIES LimitLocks LocksEventually CacheCatchesUp
CHECK_DEADLOCK FALSE
