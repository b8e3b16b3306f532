CONSTANTS
  Writers = {w1, w2}
  N = 3
  Threads = 2
  Limit = 3
  Largest = 4
  Plans <- MCPlans
  Faults <- MCFaults
SPECIFICATION BatchSpec
INVARIANTS
  JobsFitInMemory
  PermitsAreExact
  OutcomesAreHonest
PROPERTIES
  CallsReturn
