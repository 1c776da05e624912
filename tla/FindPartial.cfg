SPECIFICATION Spec
CONSTANTS
  Blocks <- SomeBlocks
  Validated = TRUE
  ZeroAnswers = {}
  MaxEventBlock = 9
  Faults = {"lost"}
  MaxFaults = 1
  MaxTime = 1
  MaxBlock = 1
  MaxTransmissions = 0
  MaxUpdate = 1
  TTL = 1
  Median = FALSE
  MayClose = FALSE
INVARIANTS
  CachedDetailsReported
