CONSTANTS
  N = 3
  MaxCrashes = 1
SPECIFICATION FairSpec
INVARIANTS
  ClientIsConsistent
  OutcomesAreOwn
PROPERTIES
  QueuedAbortDoesNotInterrupt
  EveryRequestSettles
CHECK_DEADLOCK FALSE
