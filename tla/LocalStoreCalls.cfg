SPECIFICATION FairSpec
CONSTANTS
  Items = {i1, i2}
  MaxOps = 3
  MaxInterrupts = 1
  RecordsOverlap = FALSE
INVARIANT IndexIsTrue
PROPERTIES IndexMovesForward CallsEndUnlessIndexFails
CHECK_DEADLOCK FALSE
