CONSTANTS
  SolidJobs <- MCLinkedJobs
  MinStoreFallbackSize = 2
SPECIFICATION SolidSpec
INVARIANT ChainsUnbroken
CHECK_DEADLOCK FALSE
