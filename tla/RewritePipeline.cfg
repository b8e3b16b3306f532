CONSTANTS
  N = 4
  Selected = {1, 4}
  Dependencies = {1, 2, 4}
  Sizes <- MCSizes
  Quota = 2
  Readers = {r1, r2}
  MaxOpens = 2
SPECIFICATION PipelineSpec
INVARIANTS
  Accounted
  OpenReadersKeepTheirFile
  EndIsClean
PROPERTIES
  EverybodyProceeds
