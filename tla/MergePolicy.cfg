SPECIFICATION Spec
CONSTANTS
  Kinds <- MCKinds
  MaxHeads = 2
  MaxTurns = 2
  MaxFaults = 1
   
PROPERTIES  LabelOffHeeded AcceptedMerges VetoStands
CHECK_DEADLOCK FALSE
