--------------------------- MODULE ContractCache ---------------------------
(***************************************************************************)
(* The cache of the OCR2 configuration (relayer/ocr2/contract_cache.go):   *)
(* updateConfig asks for the latest details, for the event when they have  *)
(* changed, and for the block height, and then writes under its lock.      *)
(* Only one goroutine at a time updates the cache, so comparing the        *)
(* details with the cache and writing it later see the same cache.         *)
(***************************************************************************)
EXTENDS CachePoller

CONSTANTS TTL  \* OCR2CacheTTL

ASSUME CacheAssumption == TTL \in Nat

VARIABLES contractConfig,   \* ConfigBlock and the digest of Config
          blockHeight,
          ccLastCheckedAt,
          details,          \* locals of updateConfig: the details fetched,
          newConfig,        \* the digest of the configuration fetched, and
          newHeight         \* the block height fetched

configVars == <<contractConfig, blockHeight, ccLastCheckedAt,
                details, newConfig, newHeight>>

ConfigTypeOK ==
    /\ contractConfig \in Details
    /\ blockHeight \in Nat
    /\ ccLastCheckedAt \in Nat
    /\ details \in Details
    /\ newConfig \in Nat
    /\ newHeight \in Nat

NewContractCache ==
    /\ contractConfig = NoDetails
    /\ blockHeight = 0
    /\ ccLastCheckedAt = 0
    /\ details = NoDetails
    /\ newConfig = 0
    /\ newHeight = 0

ForgetConfigLocals == details' = NoDetails /\ newConfig' = 0 /\ newHeight' = 0
cached == <<contractConfig, blockHeight, ccLastCheckedAt>>

\* Mutant: a failed update counts as a check.
UpdateConfigFailsChecked ==
    /\ Return("config")
    /\ ForgetConfigLocals
    /\ ccLastCheckedAt' = now
    /\ UNCHANGED <<contractConfig, blockHeight>>

\* Mutant: the poller ends with the first failed update.
UpdateConfigFailsExits ==
    /\ pc' = [pc EXCEPT !["config"] = "idle"]
    /\ mode' = [mode EXCEPT !["config"] = "done"]
    /\ spent' = [spent EXCEPT !["config"] = 0]
    /\ ForgetConfigLocals
    /\ UNCHANGED <<cached, abi, abiFailed>>

\* Mutant: a failed update empties the cache.
UpdateConfigFailsForgets ==
    /\ Return("config")
    /\ ForgetConfigLocals
    /\ contractConfig' = NoDetails
    /\ UNCHANGED <<blockHeight, ccLastCheckedAt>>

\* An error of updateConfig leaves the cache as it was.
UpdateConfigFails == Return("config") /\ ForgetConfigLocals /\ UNCHANGED cached

ConfigRpcFails ==
    /\ pc["config"] \in {"call", "events", "height"}
    /\ Fault("rpc")
    /\ UpdateConfigFails

FetchDetails ==
    /\ pc["config"] = "call"
    /\ details' = LatestConfigDetails
    /\ Goto("config", IF contractConfig = details' THEN "height" ELSE "lookupEvents")
    /\ UNCHANGED <<aggVars, cached, newConfig, newHeight>>

\* The queries for the block and for its transactions, some of which may fail.
LoseInfos(lost) == IF lost = {} THEN UNCHANGED aggVars ELSE Fault("lost")

FetchConfig ==
    /\ pc["config"] = "events"
    /\ \E lost \in SUBSET EventsIn(details.block) :
          /\ LoseInfos(lost)
          /\ \/ /\ newConfig' \in ConfigFromEventAt(details.block, lost)
                /\ Goto("config", "height")
                /\ UNCHANGED <<cached, details, newHeight>>
             \/ /\ ConfigFromEventAt(details.block, lost) = {}
                /\ UpdateConfigFails

FetchHeight ==
    /\ pc["config"] = "height"
    /\ newHeight' = height
    /\ Goto("config", "store")
    /\ UNCHANGED <<aggVars, cached, details, newConfig>>

\* Mutant: a new configuration is stored without its height.
StoreConfigKeepsHeight ==
    /\ pc["config"] = "store"
    /\ ccLastCheckedAt' = now
    /\ blockHeight' = IF contractConfig = details THEN newHeight ELSE blockHeight
    /\ contractConfig' = IF contractConfig = details THEN contractConfig
                         ELSE [block |-> details.block, digest |-> newConfig]
    /\ Return("config")
    /\ ForgetConfigLocals
    /\ UNCHANGED aggVars

StoreConfig ==
    /\ pc["config"] = "store"
    /\ ccLastCheckedAt' = now
    /\ blockHeight' = newHeight
    /\ contractConfig' = IF contractConfig = details THEN contractConfig
                         ELSE [block |-> details.block, digest |-> newConfig]
    /\ Return("config")
    /\ ForgetConfigLocals
    /\ UNCHANGED aggVars

updateConfig == \/ GetAbi("config") /\ UNCHANGED configVars
                \/ FetchDetails \/ FetchConfig \/ FetchHeight \/ StoreConfig
                \/ ConfigRpcFails

\* A read of a cache last checked at t returns an error.
Stale(t) == t = 0 \/ now - t > TTL

\* LatestConfigDetails, LatestConfig and LatestBlockHeight return no error.
ConfigServed == ~Stale(ccLastCheckedAt)
=============================================================================
