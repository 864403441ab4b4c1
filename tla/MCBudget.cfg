SPECIFICATION Spec
CONSTANTS
  Clients = {c1, c2}
  Txs = {"t1"}
  Budgets = {"b1", "b2"}
  Categories = {food}
  Owner <- MCOwner
  MaxAmount = 2
  MaxSpent = 2
  Null = Null
SYMMETRY Symmetry
CONSTRAINT Focus
INVARIANTS TypeOK SpentIsTotal
PROPERTY RecalculationRestores
CHECK_DEADLOCK FALSE
