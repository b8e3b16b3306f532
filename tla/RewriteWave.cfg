CONSTANTS
  N = 3
  Selected <- MCSelected
  Dependencies = {}
  Sizes <- MCSizes
  Quota = 2
  Readers = {1, 2}
  MaxOpens = 6
  Threads = 2
  Writers = {"rar5"}
  MayStore <- NoneStored
SPECIFICATION RewriteSpec
INVARIANTS
  WindowsFitTheQuota
