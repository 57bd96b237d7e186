SPECIFICATION Spec
CONSTANTS
  Client = {c1, c2}
  MaxConnections = 2
INVARIANTS ActiveComplete
CHECK_DEADLOCK FALSE
