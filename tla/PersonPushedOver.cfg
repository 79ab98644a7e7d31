SPECIFICATION Spec
CONSTANTS
  Runs <- MCRuns
  Tries = 3
  IssuesMax = 1
  MaxFaults = 4
  MaxAttempts = 3
PROPERTY PersonKept
CHECK_DEADLOCK FALSE
