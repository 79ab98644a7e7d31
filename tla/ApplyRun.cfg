SPECIFICATION Spec
CONSTANTS
  Runs <- MCRuns
  Tries = 3
  IssuesMax = 1
  MaxFaults = 4
  MaxAttempts = 3
INVARIANTS SaidOnce AppliedIsThere
PROPERTIES KeepsPromise
CHECK_DEADLOCK FALSE
