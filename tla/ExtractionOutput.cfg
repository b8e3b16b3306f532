CONSTANTS
  Archives <- MCArchives
  Fold <- MCFold
  MaxForeign = 1
  Calls = {c1, c2}
  CallKinds <- MCCallKinds
  Destinations = {d1, d2}
  TempNames = {n1, n2}
SPECIFICATION OutputSpec
INVARIANTS
  PublishedIsVerified
  NothingByHalves
  VerifiedAreKept
  ArchivesAreAtomic
PROPERTIES
  NeverReplaces
  MembersAreKept
SYMMETRY Symmetric
CHECK_DEADLOCK FALSE
