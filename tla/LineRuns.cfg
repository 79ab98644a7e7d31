SPECIFICATION FairSpec
CONSTANTS
    Runs = {r1, r2, r3}
    MaxInput = 3
    MaxOutside = 3
INVARIANTS QuietIsActed RecordIsOfDone
PROPERTY DueIsActed
CHECK_DEADLOCK FALSE
