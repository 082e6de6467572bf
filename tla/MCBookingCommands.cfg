CONSTANTS
  Limit = 3
  IntMax = 31
  Keys <- MCKeys
  MaxText = 7
SPECIFICATION Spec
INVARIANTS ParsesFields FirstLineCounts
CHECK_DEADLOCK FALSE
