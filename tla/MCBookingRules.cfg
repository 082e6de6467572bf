CONSTANTS
  Limit = 3
  IntMax = 11
  Amounts <- FittingAmounts
SPECIFICATION Spec
INVARIANT StaysValid
PROPERTY AcceptsExactly
