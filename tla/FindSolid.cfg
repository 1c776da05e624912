SPECIFICATION Spec
CONSTANTS
  r1 = r1
  r2 = r2
  k1 = k1
  k2 = k2
  a1 = a1
  a2 = a2
  i1 = i1
  i2 = i2
  Nil = Nil
  Requests = {r1}
  Keys = {k1}
  Key <- OneKey
  Account <- OneAccount
  Id <- OwnId
  MaxBuilds = 3
  Faults = {}
  MaxFaults = 0
  Outcomes = {"success","energy","time","fatal","unknown"}
  MAX_RETRY_ATTEMPTS = 2
  REORG_RETRY_COUNT = 1
  BroadcastChanSize = 1
  MayClose = FALSE
  SerialEnqueue = TRUE
INVARIANTS
  FinalizedIsSolid
