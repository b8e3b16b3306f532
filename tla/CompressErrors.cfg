CONSTANTS
  Writers = {w1}
  N = 3
  Threads = 2
  Limit = 3
  Largest = 4
  Plans <- OnePlan
  Faults <- TwoFaults
SPECIFICATION BatchSpec
INVARIANTS
  FirstFailureReported
