SPECIFICATION Spec
CONSTANTS
  Clients = {c1, c2}
  Actors = {a1}
  MaxLogs = 4
  Nobody = Nobody
SYMMETRY Symmetry
INVARIANTS TypeOK Rooted BreaksHaveACause
PROPERTY BreaksStay
CHECK_DEADLOCK FALSE
