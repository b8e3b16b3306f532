CONSTANTS
  Scopes = {1, 2}
  Charges = {0, 3, 4}
  Limit = 9
  ReservationBytes = 1
  MaxHandles = 1
  Global = Global
  None = None
  N = 3
  Window = 2
  Overhead = 1
  MaxNeed = 3
  Hints <- MCHints
  Tasks <- MCTasks
  BatchMost = 2
  Memory = 2
  Jobs <- MCJobs
  NoLimit = 9
  Buffered = 1
  Paths = {"windowed", "batches", "members"}
SPECIFICATION ExtractionSpec
INVARIANTS
  AdmissionIsSound
  DrainedAtEnd
  PrefixIsDelivered
  HistoryIsChain
  MembersAreWhole
  OutputIsBounded
  BlameIsReal
PROPERTIES
  ImplementsDelivery
  EveryCallReturns
