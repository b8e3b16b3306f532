CONSTANTS
  N = 3
  Selected <- MCSelected
  Dependencies = {}
  Sizes <- MCSizes
  Quota = 3
  Readers = {1, 2}
  MaxOpens = 6
  Threads = 2
  Writers = {"legacy", "rar5"}
  MayStore <- AnyStored
SPECIFICATION RewriteSpec
INVARIANTS
  LegacyWindowsFit
  OnlyTheDecoderFails
PROPERTIES
  RewriteEnds
