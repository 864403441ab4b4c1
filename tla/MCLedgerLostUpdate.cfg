SPECIFICATION Spec
CONSTANTS
  Clients = {c1, c2}
  Wallets = {w1, w2}
  Amounts = {1}
  MaxEntries = 6
  Nobody = Nobody

PROPERTY RunningBalance
CHECK_DEADLOCK FALSE
