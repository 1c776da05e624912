SPECIFICATION Spec
CONSTANTS
  Blocks <- NoBlocks
  Validated = TRUE
  ZeroAnswers = {}
  MaxEventBlock = 9
  Faults = {"rpc"}
  MaxFaults = 1
  MaxTime = 4
  MaxBlock = 0
  MaxTransmissions = 1
  MaxUpdate = 1
  TTL = 1
  Median = TRUE
  MayClose = FALSE
INVARIANTS
  TransmissionsFresh
