SPECIFICATION FairSpec
CONSTANTS
  Blocks <- SomeBlocks
  Validated = TRUE
  ZeroAnswers = {}
  MaxEventBlock = 2
  Faults = {"rpc"}
  MaxFaults = 2
  MaxTime = 4
  MaxBlock = 2
  MaxTransmissions = 0
  MaxUpdate = 1
  TTL = 1
  Median = FALSE
  MayClose = TRUE
INVARIANTS
  TypeOK
  ConfigFresh
  HeightCoversConfig
  CachedDetailsReported
PROPERTIES
  ServesConfigs
  ConfigCatchesUp
  ProviderCloses
CHECK_DEADLOCK FALSE
