SPECIFICATION FairSpec
CONSTANTS
  Clients = {c1, c2}
  Wallets = {w1, w2}
  Amounts <- MCAmounts
  MaxEntries = 5
  Nobody = Nobody
INVARIANTS OverdraftOnlyUnchecked TransfersPaired ReversalsLinked
PROPERTIES PostingsAtomic EveryCallEnds
CHECK_DEADLOCK FALSE
