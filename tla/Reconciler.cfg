SPECIFICATION Spec
CONSTANTS
  Issues = {i, j}
  Limit = 1
  ReconcileMax = 1
  MaxOutside = 1
INVARIANTS RoomWakes OneComing
PROPERTIES NeverLeft
CHECK_DEADLOCK FALSE
