SPECIFICATION Spec
CONSTANTS
  States = {a, b, c, d}
  None = none
INVARIANT WalkIsAhead
PROPERTY WalkEnds
CHECK_DEADLOCK FALSE
