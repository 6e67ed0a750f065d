SPECIFICATION MergeSpec
CONSTANTS
    MaxLabel = 4
    MaxRepeated = 0
    Values = {"old"}
INVARIANT OneSidedDiffsApply
CHECK_DEADLOCK FALSE
