CONSTANTS
  Limit = 3
  IntMax = 11
  Amounts <- AllAmounts
SPECIFICATION Spec
INVARIANT StaysValid
