SPECIFICATION SessionSpec
CONSTANTS
  Requests = {c1, c2}
  MaxRefreshes = 1
  MaxSecrets = 2
INVARIANT EnabledIsProven
CHECK_DEADLOCK FALSE
