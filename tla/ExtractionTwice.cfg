CONSTANTS
  Archives <- MCTwice
  Fold <- MCFold
  MaxForeign = 0
SPECIFICATION Spec
INVARIANT VerifiedAreKept
CHECK_DEADLOCK FALSE
