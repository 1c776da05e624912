SPECIFICATION Spec
CONSTANTS
  Blocks <- NoBlocks
  Validated = FALSE
  ZeroAnswers = {}
  MaxEventBlock = 9
  Faults = {"rpc"}
  MaxFaults = 1
  MaxTime = 4
  MaxBlock = 0
  MaxTransmissions = 2
  MaxUpdate = 1
  TTL = 1
  Median = TRUE
  MayClose = TRUE
INVARIANTS
  NoPhantomTransmission
  TransmissionsFresh
  AbiRaceNeedsFailure
PROPERTIES
  ServesTransmissions
CHECK_DEADLOCK FALSE
