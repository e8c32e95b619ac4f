CONSTANTS
    Postings = {1, 2}
    MaxPrint = 3
    MaxChanges = 5
    MaxStops = 1
SPECIFICATION IndexSpec
CHECK_DEADLOCK FALSE
INVARIANT PrunedLeavesNoVector
