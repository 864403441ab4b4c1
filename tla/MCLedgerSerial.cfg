SPECIFICATION Spec
CONSTANTS
  Clients = {c1}
  Wallets = {w1, w2}
  Amounts <- MCAmounts
  MaxEntries = 5
  Nobody = Nobody
SYMMETRY Symmetry
INVARIANT LedgerVerifies
PROPERTY SerialLedgerSpec
CHECK_DEADLOCK FALSE
