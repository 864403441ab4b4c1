SPECIFICATION Spec
CONSTANTS
  Clients = {c1, c2}
  Actors = {a1}
  MaxLogs = 4
  Nobody = Nobody
INVARIANT UnalteredEntriesVerify
CHECK_DEADLOCK FALSE
