SPECIFICATION Spec
CONSTANTS
  N = 2
  Alone = TRUE
  ProposalsMax = 1
  UndoneMax = 1
  RevisionsMax = 1
  Overlap = FALSE
  MaxTurns = 2
INVARIANTS TypeOK LabelWaits 
PROPERTIES   YesIsDone
CHECK_DEADLOCK FALSE
