SPECIFICATION RSpec
CONSTANTS
  States = {a, b, c}
  None = none
  Issues = {i, j, k}
  MaxLimit = 1
INVARIANTS WalkFindsRing NeverStuck
PROPERTY CheckEnds
CHECK_DEADLOCK FALSE
