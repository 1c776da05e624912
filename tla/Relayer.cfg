SPECIFICATION PluginFairSpec
CONSTANTS
  b = b
  c1 = c1
  c2 = c2
  k1 = k1
  k2 = k2
  k3 = k3
  Nil = Nil
  Callers = {b, c1, c2}
  Broadcaster = b
  Answers = {"match", "mismatch", "unparsable", "short", "fail"}
  Workloads <- SomeWorkloads
  Half = 128
  MaxBumps = 1
  Padding <- PaddingOf15
  DEFAULT_ENERGY_UNIT_PRICE = 2
  FixedEnergyValue = 0
  Energies = {9, 40, 300}
  PriceLists <- SomePrices
  AllKeys = {k1, k2, k3}
  BadKeys = {k2}
  MaxBalance = 1
  MaxMonitorFaults = 2
  Unset = Unset
  ChainIDs = {"10", "0xa", "ten", ""}
  Names = {"n1", "n2", "n3", "n4", ""}
  URLs = {"u1", "u2", "u3", "u4", "s1", "s2", "s3", "s4"}
  Settings = {0, 1, 2, 3}
  ChainIdNum <- SomeNumbers
  Deployments <- SomeDeployments
  Defaults <- SomeDefaults
  MaxEmitters = 2
INVARIANTS
  TypeOK
  GatedByChainId
  BuiltOnMatchingChain
  FeeLimitExact
  BumpRaisesFee
  QuietAfterStop
  KeysUnique
  LastFileWins
  BuiltFromConfig
PROPERTIES
  VerdictSticky
  CallsReturn
  BalancesCatchUp
  RelayerCloses
CHECK_DEADLOCK FALSE
