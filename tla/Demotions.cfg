SPECIFICATION Spec
CONSTANTS
  Kinds = {records}
  Every = every
  MarkRoom = 4
  Window = 2
  MaxBase = 3
  MaxTurns = 2
  MaxFaults = 1
INVARIANTS TypeOK 
PROPERTIES RestoredMerges
CHECK_DEADLOCK FALSE
