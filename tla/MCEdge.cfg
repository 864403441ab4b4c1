CONSTANTS
  Clients = {1, 2}
  MaxFailed = 2
  MaxCalls = 3
  MaxLapses = 1
  MaxRetries = 2
  Isolates = {i1, i2}
  MaxFaults = 1
SPECIFICATION Spec
INVARIANTS
  JarCurrent
  SecondFactor
  LinksWorkOnce
  KeyedOnce
PROPERTIES
  RpcImplementsLookup
CHECK_DEADLOCK FALSE
