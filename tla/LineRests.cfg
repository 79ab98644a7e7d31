SPECIFICATION FairSpec
CONSTANTS
  States <- MCStates
  None = "none"
  Pos <- MCPos
  Role <- MCRole
  NextOf <- MCNext
  Blocked = "blocked"
  Refine = "refine"
  Doing = "doing"
  Keeper = "product-owner"
  Reviewer = "reviewer"
  Tester = "tester"
  Developer = "developer"
  Routed <- MCRouted
  Limited = {"ready"}
  Ages = {"ready"}
  RevisitOn = TRUE
  MaxHops = 1
  ErrorBudget = 1
  Kinds = {"run"}
  MarkNames = {"unread"}
  Lasting = {}
  Marks <- MCMarks
  Acts <- MCActs
  Bodies = {"b1", "b2"}
  Dates = {d1, d2, d3, d4, d5, d6, d7, d8, d9, d10, d11, d12, d13, d14, d15, d16}
  Never = d0
  PersonLabels <- MCPersonLabels
  MaxOutside = 1
  MaxWrites = 0
  MaxReviews = 0
PROPERTIES BlockedIsSeen Settles
CHECK_DEADLOCK FALSE
