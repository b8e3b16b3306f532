CONSTANTS
  Spools = {s1, s2}
  MaxName = 3
  MaxAttempts = 2
  StorageLimit = 2
  MaxWrite = 2
  MaxHolders = 2
  Absent = Absent
  Owners = {"spool", "bytes", "records"}
  Classes = {"payload", "preparation"}
  ClassOf <- MCClassOf
  Wants <- MCWants
  ExecLimit = 8
  ClassLimit = 6
  SolidJobs <- MCSolidJobs
  MinStoreFallbackSize = 2
  Bytes = {0, 1}
  WriteJobs <- MCWriteJobs
  Revisions <- MCRevisions
  MaxRevisions = 2
  MaxPayload = 2
  CipherBlock = 2
  Padding = Padding
  Table = Table
  NoData = NoData
  Layouts <- MCLayouts
  Omitted = Omitted
  Signature = 8
  HeadCrypt = 38
  MaxWidth = 4
  WidthLimit <- MCWidthLimit
  MaxOffset = 2113483
  SettledWithin = 5
SPECIFICATION MCSpec
INVARIANTS
  SpoolsAreExact
  MemoryIsAdmitted
  ChainsAgree
  WrittenSetsVerify
  LayoutSettles
PROPERTIES
  FilesKept
SYMMETRY Symmetric
CHECK_DEADLOCK FALSE
