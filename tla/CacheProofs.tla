---------------------------- MODULE CacheProofs ----------------------------
(***************************************************************************)
(* What the configuration cache serves: the height covers the block, the   *)
(* block is not older than the TTL and the time of one update, and, where  *)
(* the reader sees the events of a block, the digest belongs to the block. *)
(***************************************************************************)
EXTENDS MedianProviderProofs

\* No block holds two configurations, or every transaction of a block is served.
SingleConfig == \A b \in Blocks : Len(b) <= 1
EventsServed == "lost" \notin Faults \/ SingleConfig

HasDetails == pc["config"] \in {"lookupEvents", "events", "height", "store"}
Before == {"idle", "lookup", "getContract", "writeAbi", "call"}

outside == <<now, height, sets, cached>>
locals == <<details, newConfig, newHeight>>

\* The step of FetchConfig that finds the configuration.
ConfigFound ==
    /\ pc["config"] = "events"
    /\ \E lost : /\ lost = {} \/ "lost" \in Faults
                 /\ newConfig' \in ConfigFromEventAt(details.block, lost)
    /\ Goto("config", "height")
    /\ UNCHANGED <<outside, details, newHeight>>

\* A step that is none of the configuration cache's own, or ends its update with
\* an error: the clock, the chain and the cache stay as they are, and the update
\* is where it was, or before the details.
Aside ==
    /\ UNCHANGED outside
    /\ \/ pc'["config"] \in Before
       \/ /\ \/ pc'["config"] = pc["config"]
             \/ pc["config"] = "lookupEvents" /\ pc'["config"] = "events"
          /\ spent'["config"] = spent["config"]
          /\ UNCHANGED locals

\* Every step is a block, a tick, a step of updateConfig proper, or aside.
LEMMA StepKinds ==
    ASSUME TypeOK, [Next]_vars
    PROVE  \/ \E b \in Blocks : NewBlock(b) /\ UNCHANGED <<pollVars, cacheFrame>>
           \/ Tick /\ UNCHANGED cacheFrame
           \/ FetchDetails \/ ConfigFound \/ FetchHeight \/ StoreConfig
           \/ Aside
<1>0. /\ "config" \in Caches /\ "transmissions" \in Caches /\ "config" # "transmissions"
      /\ Caches = {"config", "transmissions"}
      /\ pc \in [Caches -> Steps] /\ spent \in [Caches -> 0..MaxUpdate]
  BY DEF TypeOK, PollTypeOK, Caches
<1> USE <1>0
<1>1. CASE Start \/ Close \/ providerSteps
  <2>1. UNCHANGED outside /\ UNCHANGED locals /\ spent' = spent
    BY <1>1 DEF Start, Close, providerSteps, ConfigCacheStarted, TransmissionsCacheStarted,
                ConfigCacheClosed, TransmissionsCacheClosed, lifeFrame, aggVars, configVars,
                outside, cached, locals
  <2>2. pc'["config"] \in {pc["config"], "lookup"}
    BY <1>1 DEF Start, Close, providerSteps, ConfigCacheStarted, TransmissionsCacheStarted,
                ConfigCacheClosed, TransmissionsCacheClosed
  <2> QED
    BY <2>1, <2>2 DEF Aside, Before
<1>2. ASSUME UpdateConfigFails, UNCHANGED <<now, height, sets>> PROVE Aside
  BY <1>2 DEF UpdateConfigFails, Return, Aside, Before, outside
<1>3. CASE configStep
  <2>1. CASE GetAbi("config") /\ UNCHANGED configVars
    <3>1. UNCHANGED outside /\ UNCHANGED locals
      BY <2>1 DEF GetAbi, LookupAbi, GetContract, GetContractFails, WriteAbi,
                  LookupAbiForEvents, aggVars, Fault, configVars, outside, cached, locals
    <3>2. \/ pc'["config"] \in Before
          \/ /\ pc["config"] = "lookupEvents" /\ pc'["config"] = "events"
             /\ spent'["config"] = spent["config"]
      BY <2>1 DEF GetAbi, LookupAbi, GetContract, GetContractFails, WriteAbi,
                  LookupAbiForEvents, Goto, Before
    <3> QED
      BY <3>1, <3>2 DEF Aside
  <2>2. CASE ConfigRpcFails
    BY <1>2, <2>2 DEF ConfigRpcFails, Fault
  <2>3. CASE FetchConfig
    <3>1. PICK lost \in SUBSET EventsIn(details.block) :
             /\ LoseInfos(lost)
             /\ \/ /\ newConfig' \in ConfigFromEventAt(details.block, lost)
                   /\ Goto("config", "height")
                   /\ UNCHANGED <<cached, details, newHeight>>
                \/ UpdateConfigFails
      BY <2>3 DEF FetchConfig
    <3>2. UNCHANGED <<now, height, sets>>
      BY <3>1 DEF LoseInfos, Fault, aggVars
    <3>3. CASE UpdateConfigFails
      BY <1>2, <3>2, <3>3
    <3>4. CASE /\ newConfig' \in ConfigFromEventAt(details.block, lost)
               /\ Goto("config", "height")
               /\ UNCHANGED <<cached, details, newHeight>>
      <4>1. lost = {} \/ "lost" \in Faults
        BY <3>1 DEF LoseInfos, Fault
      <4> QED
        BY <2>3, <3>2, <3>4, <4>1 DEF ConfigFound, FetchConfig, outside
    <3> QED
      BY <3>1, <3>3, <3>4
  <2> QED
    BY <1>3, <2>1, <2>2, <2>3 DEF configStep, updateConfig
<1>4. CASE transStep
  <2>1. UNCHANGED <<now, height, sets>>
    BY <1>4 DEF transStep, updateTransmission, GetAbi, LookupAbi, GetContract,
                GetContractFails, WriteAbi, LookupAbiForEvents, FetchTransmission,
                StoreTransmission, TransmissionRpcFails, aggVars, Fault
  <2>2. UNCHANGED outside /\ UNCHANGED locals
    BY <1>4, <2>1 DEF transStep, transFrame, configVars, outside, cached, locals
  <2>3. pc'["config"] = pc["config"] /\ spent'["config"] = spent["config"]
    BY <1>4 DEF transStep, updateTransmission, GetAbi, LookupAbi, GetContract,
                GetContractFails, WriteAbi, LookupAbiForEvents, FetchTransmission,
                StoreTransmission, TransmissionRpcFails, Goto, Return
  <2> QED
    BY <2>2, <2>3 DEF Aside
<1>5. ASSUME NEW c \in Caches, polls(c) \/ stops(c) PROVE Aside
  <2>1. UNCHANGED outside /\ UNCHANGED locals
    BY <1>5 DEF polls, stops, PollTick, PollStops, aggVars, cacheFrame, configVars,
                outside, cached, locals
  <2>2. spent' = spent /\ pc'["config"] \in {pc["config"], "lookup"}
    BY <1>5 DEF polls, stops, PollTick, PollStops, Goto
  <2> QED
    BY <2>1, <2>2 DEF Aside, Before
<1>6. ASSUME Transmit \/ IncludeTransmission \/ SolidifyTransmission,
             UNCHANGED <<pollVars, cacheFrame>>
      PROVE  Aside
  BY <1>6 DEF Transmit, IncludeTransmission, SolidifyTransmission, pollVars, cacheFrame,
              configVars, outside, cached, locals, Aside
<1>7. CASE UNCHANGED vars
  BY <1>7 DEF vars, aggVars, pollVars, configVars, outside, cached, locals, Aside
<1> QED
  BY <1>1, <1>3, <1>4, <1>5, <1>6, <1>7 DEF Next, AggNext

\* What the type invariant says of the configuration cache and the chain.
LEMMA TypeFacts ==
    ASSUME TypeOK
    PROVE  /\ now \in Nat /\ now >= 1 /\ height \in Nat /\ newHeight \in Nat
           /\ blockHeight \in Nat /\ ccLastCheckedAt \in Nat /\ newConfig \in Nat
           /\ details \in Details /\ contractConfig \in Details
           /\ sets \in Seq(ConfigSet) /\ Len(sets) \in Nat
           /\ \A i \in 1..Len(sets) : sets[i].block \in Nat /\ sets[i].at \in Nat
           /\ "config" \in Caches /\ pc \in [Caches -> Steps]
           /\ spent["config"] \in 0..MaxUpdate
<1>1. sets \in Seq(ConfigSet) /\ \A i \in 1..Len(sets) : sets[i] \in ConfigSet
  BY DEF TypeOK, AggTypeOK
<1>2. \A i \in 1..Len(sets) : sets[i].block \in Nat /\ sets[i].at \in Nat
  BY <1>1 DEF ConfigSet
<1>3. now \in Nat /\ now >= 1 /\ height \in Nat /\ Len(sets) \in Nat
  BY <1>1 DEF TypeOK, AggTypeOK
<1>4. /\ newHeight \in Nat /\ blockHeight \in Nat /\ ccLastCheckedAt \in Nat
      /\ newConfig \in Nat /\ details \in Details /\ contractConfig \in Details
  BY DEF TypeOK, ConfigTypeOK
<1>5. "config" \in Caches /\ pc \in [Caches -> Steps] /\ spent["config"] \in 0..MaxUpdate
  BY DEF TypeOK, PollTypeOK, Caches
<1> QED
  BY <1>1, <1>2, <1>3, <1>4, <1>5
-----------------------------------------------------------------------------
(* The height *)

\* The configuration the update works on lies below the heights it has seen.
HeightInv ==
    /\ \A i \in 1..Len(sets) : sets[i].block <= height
    /\ HasDetails => details.block <= height
    /\ pc["config"] = "store" => details.block <= newHeight
    /\ HeightCoversConfig

\* Every step preserves the invariant of the heights.
LEMMA StepHeight == TypeOK /\ HeightInv /\ [Next]_vars => HeightInv'
<1> SUFFICES ASSUME TypeOK, HeightInv, [Next]_vars PROVE HeightInv'
  OBVIOUS
<1>0. /\ height \in Nat /\ newHeight \in Nat /\ blockHeight \in Nat
      /\ details \in Details /\ contractConfig \in Details
      /\ sets \in Seq(ConfigSet) /\ Len(sets) \in Nat
      /\ \A i \in 1..Len(sets) : sets[i].block \in Nat
      /\ "config" \in Caches /\ pc \in [Caches -> Steps]
  BY TypeFacts
<1> USE <1>0 DEF HeightInv, HeightCoversConfig, HasDetails
<1>1. ASSUME NEW b \in Blocks, NewBlock(b), UNCHANGED <<pollVars, cacheFrame>>
      PROVE  HeightInv'
  <2>1. /\ AggTypeOK' /\ height' = height + 1
        /\ \A i \in 1..Len(sets) : sets'[i] = sets[i]
        /\ \A i \in Len(sets)+1..Len(sets') : sets'[i].block = height + 1
    BY <1>1, NewBlockType DEF TypeOK, NewBlock
  <2>2. \A i \in 1..Len(sets') : i \in 1..Len(sets) \/ i \in Len(sets)+1..Len(sets')
    BY <2>1 DEF AggTypeOK
  <2>3. \A i \in 1..Len(sets') : sets'[i].block <= height'
    BY <2>1, <2>2
  <2>4. UNCHANGED <<pc, details, newHeight, contractConfig, blockHeight>>
    BY <1>1 DEF pollVars, cacheFrame, configVars
  <2> QED
    BY <2>1, <2>3, <2>4 DEF Details
<1>2. CASE Tick /\ UNCHANGED cacheFrame
  BY <1>2 DEF Tick, cacheFrame, configVars
<1>3. CASE FetchDetails
  <2>1. LatestConfigDetails.block <= height
    BY DEF LatestConfigDetails, DetailsAfter, NoDetails
  <2> QED
    BY <1>3, <2>1 DEF FetchDetails, aggVars, cached, Goto
<1>4. CASE ConfigFound
  BY <1>4 DEF ConfigFound, Goto, outside, cached
<1>5. CASE FetchHeight
  BY <1>5 DEF FetchHeight, aggVars, cached, Goto
<1>6. CASE StoreConfig
  BY <1>6 DEF StoreConfig, aggVars, Return
<1>7. CASE Aside
  BY <1>7 DEF Aside, Before, outside, cached, locals
<1> QED
  BY StepKinds, <1>1, <1>2, <1>3, <1>4, <1>5, <1>6, <1>7

\* The cached block height is never below the block of the cached configuration,
\* whatever blocks hold and whichever queries fail.
THEOREM HeightCovers == Spec => []HeightCoversConfig
<1>1. Init => HeightInv
  BY DEF Init, AggInit, PollInit, NewContractCache, NoDetails, HeightInv, HasDetails,
         HeightCoversConfig, Caches
<1>2. Spec => []HeightInv
  BY <1>1, StepHeight, ProviderTypeCorrect, PTL DEF Spec
<1>3. HeightInv => HeightCoversConfig
  BY DEF HeightInv
<1> QED
  BY <1>2, <1>3, PTL
-----------------------------------------------------------------------------
(* The configuration *)

\* The numbers of the blocks do not decrease.
Ordered ==
    /\ \A i \in 1..Len(sets) : 1 <= sets[i].block /\ sets[i].block <= height
    /\ \A i, j \in 1..Len(sets) : i < j => sets[i].block <= sets[j].block

\* The first k configurations of s are those up to block b.
IsLast(s, k, b) ==
    /\ \A i \in 1..k : s[i].block <= b
    /\ \A i \in k + 1..Len(s) : s[i].block > b

\* The last configuration of s up to block b was replaced at time t or later.
ConfigUntil(s, b, t) ==
    \E k \in 0..Len(s) : IsLast(s, k, b) /\ (k < Len(s) => s[k + 1].at >= t)

\* The block of the details an update works on is not before the one cached and had
\* the latest configuration when the update began, and the block cached had it when
\* the update that wrote it began.
ConfigInv ==
    /\ Ordered
    /\ contractConfig.block <= LatestConfigDetails.block
    /\ HasDetails =>
          /\ contractConfig.block <= details.block
          /\ details.block <= LatestConfigDetails.block
          /\ ConfigUntil(sets, details.block, now - spent["config"])
    /\ ccLastCheckedAt <= now
    /\ ConfigUntil(sets, contractConfig.block,
                   IF ccLastCheckedAt = 0 THEN 0 ELSE ccLastCheckedAt - MaxUpdate)

LastOf(s, b) == CHOOSE k \in 0..Len(s) : IsLast(s, k, b)

\* There is at most one such position.
LEMMA LastOfIs ==
    ASSUME NEW s \in Seq(ConfigSet), NEW b \in Nat, NEW k \in 0..Len(s), IsLast(s, k, b)
    PROVE  LastOf(s, b) = k
<1>0. Len(s) \in Nat /\ \A i \in 1..Len(s) : s[i].block \in Nat
  <2>1. Len(s) \in Nat /\ \A i \in 1..Len(s) : s[i] \in ConfigSet
    OBVIOUS
  <2> QED
    BY <2>1 DEF ConfigSet
<1>1. ASSUME NEW j \in 0..Len(s), IsLast(s, j, b) PROVE ~(j < k) /\ ~(k < j)
  <2>1. CASE j < k
    <3>1. j + 1 \in 1..k /\ j + 1 \in j + 1..Len(s)
      BY <1>0, <2>1
    <3> QED
      BY <1>0, <1>1, <3>1 DEF IsLast
  <2>2. CASE k < j
    <3>1. k + 1 \in 1..j /\ k + 1 \in k + 1..Len(s)
      BY <1>0, <2>2
    <3> QED
      BY <1>0, <1>1, <3>1 DEF IsLast
  <2> QED
    BY <2>1, <2>2
<1>2. \A j : j \in 0..Len(s) /\ IsLast(s, j, b) <=> j = k
  BY <1>0, <1>1
<1> QED
  BY <1>2 DEF LastOf

\* LastIn is what its definition says, where there is such a position.
LEMMA LastInIs ==
    ASSUME TypeOK, NEW b \in Nat, NEW k \in 0..Len(sets), IsLast(sets, k, b)
    PROVE  LastIn(b) = k
<1>1. LastIn(b) = LastOf(sets, b)
  BY DEF LastIn, LastOf, IsLast
<1> QED
  BY <1>1, LastOfIs, TypeFacts

\* The latest configuration is the last one up to its block, and no block of a
\* configuration is above the chain.
LEMMA LatestIsLast ==
    ASSUME TypeOK, Ordered
    PROVE  /\ LatestConfigDetails.block \in 0..height
           /\ IsLast(sets, Len(sets), LatestConfigDetails.block)
<1>0. /\ Len(sets) \in Nat /\ height \in Nat
      /\ \A i \in 1..Len(sets) : sets[i].block \in Nat
  BY TypeFacts
<1>1. CASE Len(sets) = 0
  BY <1>0, <1>1 DEF LatestConfigDetails, DetailsAfter, NoDetails, IsLast
<1>2. CASE Len(sets) # 0
  <2>1. Len(sets) \in 1..Len(sets) /\ LatestConfigDetails.block = sets[Len(sets)].block
    BY <1>0, <1>2 DEF LatestConfigDetails, DetailsAfter
  <2>2. \A i \in 1..Len(sets) : sets[i].block <= sets[Len(sets)].block
    BY <1>0, <2>1 DEF Ordered
  <2> QED
    BY <1>0, <2>1, <2>2 DEF Ordered, IsLast
<1> QED
  BY <1>1, <1>2

\* What a block does to the configurations.
LEMMA BlockFacts ==
    ASSUME TypeOK, Ordered, NEW b \in Blocks, NewBlock(b)
    PROVE  /\ AggTypeOK' /\ height' = height + 1 /\ now' = now
           /\ Len(sets) \in Nat /\ Len(b) \in Nat /\ Len(sets') = Len(sets) + Len(b)
           /\ \A i \in 1..Len(sets) : sets'[i] = sets[i]
           /\ \A i \in Len(sets)+1..Len(sets') :
                 sets'[i].block = height + 1 /\ sets'[i].at = now
           /\ Ordered'
           /\ LatestConfigDetails'.block \in Nat
           /\ LatestConfigDetails.block <= LatestConfigDetails'.block
<1>0. /\ Len(sets) \in Nat /\ height \in Nat
      /\ \A i \in 1..Len(sets) : sets[i].block \in Nat
  BY TypeFacts
<1>1. /\ AggTypeOK' /\ height' = height + 1 /\ now' = now
      /\ Len(b) \in Nat /\ Len(sets') = Len(sets) + Len(b)
      /\ \A i \in 1..Len(sets) : sets'[i] = sets[i]
      /\ \A i \in Len(sets)+1..Len(sets') :
            sets'[i].block = height + 1 /\ sets'[i].at = now
  <2>1. b \in Seq(BOOLEAN) /\ AggTypeOK
    BY AggregatorAssumption DEF TypeOK
  <2>2. Len(b) \in Nat
    BY <2>1
  <2> QED
    BY <2>1, <2>2, NewBlockType DEF NewBlock
<1>2. \A i \in 1..Len(sets') : i \in 1..Len(sets) \/ i \in Len(sets)+1..Len(sets')
  BY <1>0, <1>1
<1>3. \A i \in 1..Len(sets') : 1 <= sets'[i].block /\ sets'[i].block <= height'
  BY <1>0, <1>1, <1>2 DEF Ordered
<1>4. ASSUME NEW i \in 1..Len(sets'), NEW j \in 1..Len(sets'), i < j
      PROVE  sets'[i].block <= sets'[j].block
  <2>1. CASE j \in 1..Len(sets)
    <3>1. i \in 1..Len(sets)
      BY <1>0, <1>4, <2>1
    <3> QED
      BY <1>1, <1>4, <2>1, <3>1 DEF Ordered
  <2>2. CASE j \in Len(sets)+1..Len(sets')
    BY <1>1, <1>3, <2>2
  <2> QED
    BY <1>2, <2>1, <2>2
<1>5. /\ LatestConfigDetails'.block \in Nat
      /\ LatestConfigDetails.block <= LatestConfigDetails'.block
  <2>1. CASE Len(b) = 0
    <3>1. Len(sets') = Len(sets) /\ (Len(sets) # 0 => Len(sets) \in 1..Len(sets))
      BY <1>0, <1>1, <2>1
    <3>2. LatestConfigDetails.block = LatestConfigDetails'.block
      BY <1>1, <3>1 DEF LatestConfigDetails, DetailsAfter, NoDetails
    <3> QED
      BY <3>2, LatestIsLast
  <2>2. CASE Len(b) # 0
    <3>1. Len(sets') # 0 /\ Len(sets') \in Len(sets)+1..Len(sets')
      BY <1>0, <1>1, <2>2
    <3>2. LatestConfigDetails'.block = height + 1
      BY <1>1, <3>1 DEF LatestConfigDetails, DetailsAfter
    <3> QED
      BY <1>0, <3>2, LatestIsLast
  <2> QED
    BY <2>1, <2>2
<1> QED
  BY <1>0, <1>1, <1>3, <1>4, <1>5 DEF Ordered

\* A block changes nothing of what is up to an earlier one.
LEMMA BlockKeepsLast ==
    ASSUME TypeOK, Ordered, NEW b \in Blocks, NewBlock(b), NEW n \in Nat, n <= height,
           NEW k \in 0..Len(sets), IsLast(sets, k, n)
    PROVE  k \in 0..Len(sets') /\ IsLast(sets', k, n)
<1>0. Len(sets) \in Nat /\ height \in Nat
  BY TypeFacts
<1>1. \A i \in 1..k : i \in 1..Len(sets)
  BY <1>0
<1>2. \A i \in k + 1..Len(sets') : i \in k + 1..Len(sets) \/ i \in Len(sets)+1..Len(sets')
  BY <1>0, BlockFacts
<1>3. \A i \in k + 1..Len(sets) : i \in 1..Len(sets)
  BY <1>0
<1>4. \A i \in 1..k : sets'[i].block <= n
  BY <1>1, BlockFacts DEF IsLast
<1>5. ASSUME NEW i \in k + 1..Len(sets') PROVE sets'[i].block > n
  <2>1. CASE i \in k + 1..Len(sets)
    BY <1>3, <2>1, BlockFacts DEF IsLast
  <2>2. CASE i \in Len(sets)+1..Len(sets')
    BY <1>0, <2>2, BlockFacts
  <2> QED
    BY <1>2, <2>1, <2>2
<1> QED
  BY <1>0, <1>4, <1>5, BlockFacts DEF IsLast

\* Neither does it change when that was replaced.
LEMMA BlockKeepsUntil ==
    ASSUME TypeOK, Ordered, NEW b \in Blocks, NewBlock(b), NEW n \in Nat, n <= height,
           NEW t \in Int, t <= now, ConfigUntil(sets, n, t)
    PROVE  ConfigUntil(sets', n, t)
<1>0. Len(sets) \in Nat /\ now \in Nat
  BY TypeFacts
<1>1. PICK k \in 0..Len(sets) : IsLast(sets, k, n) /\ (k < Len(sets) => sets[k + 1].at >= t)
  BY DEF ConfigUntil
<1>2. k \in 0..Len(sets') /\ IsLast(sets', k, n)
  BY <1>1, BlockKeepsLast
<1>3. ASSUME k < Len(sets') PROVE sets'[k + 1].at >= t
  <2>1. CASE k < Len(sets)
    <3>1. k + 1 \in 1..Len(sets)
      BY <1>0, <2>1
    <3> QED
      BY <1>1, <2>1, <3>1, BlockFacts
  <2>2. CASE k = Len(sets)
    <3>1. k + 1 \in Len(sets) + 1..Len(sets')
      BY <1>0, <1>3, <2>2, BlockFacts
    <3> QED
      BY <1>0, <3>1, BlockFacts
  <2> QED
    BY <1>0, <2>1, <2>2
<1> QED
  BY <1>2, <1>3 DEF ConfigUntil

\* Every step preserves the invariant of the configuration cache.
LEMMA StepConfig == TypeOK /\ ConfigInv /\ [Next]_vars => ConfigInv'
<1> SUFFICES ASSUME TypeOK, ConfigInv, [Next]_vars PROVE ConfigInv'
  OBVIOUS
<1> DEFINE since == IF ccLastCheckedAt = 0 THEN 0 ELSE ccLastCheckedAt - MaxUpdate
<1>0. /\ now \in Nat /\ now >= 1 /\ ccLastCheckedAt \in Nat /\ MaxUpdate \in Nat
      /\ details.block \in Nat /\ contractConfig.block \in Nat
      /\ Len(sets) \in Nat /\ "config" \in Caches /\ pc \in [Caches -> Steps]
      /\ spent["config"] \in 0..MaxUpdate
      /\ \A i \in 1..Len(sets) : sets[i].at \in Nat
  BY TypeFacts, PollerAssumption DEF Details
<1>l. LatestConfigDetails.block \in Nat /\ height \in Nat /\ LatestConfigDetails.block <= height
  BY LatestIsLast, TypeFacts DEF ConfigInv
<1>1. ASSUME NEW b \in Blocks, NewBlock(b), UNCHANGED <<pollVars, cacheFrame>>
      PROVE  ConfigInv'
  <2>1. UNCHANGED <<pc, spent, contractConfig, ccLastCheckedAt, details>>
    BY <1>1 DEF pollVars, cacheFrame, configVars
  <2>2. /\ Ordered' /\ now' = now
        /\ LatestConfigDetails.block <= LatestConfigDetails'.block
        /\ LatestConfigDetails'.block \in Int
    BY <1>1, BlockFacts DEF ConfigInv
  <2>3. ASSUME HasDetails
        PROVE  ConfigUntil(sets', details.block, now - spent["config"])
    <3>1. PICK t \in Int : t = now - spent["config"] /\ t <= now
      BY <1>0
    <3>2. PICK n \in Nat : n = details.block /\ n <= height
      BY <1>0, <1>l, <2>3 DEF ConfigInv
    <3>3. ConfigUntil(sets, n, t)
      BY <2>3, <3>1, <3>2 DEF ConfigInv
    <3>4. ConfigUntil(sets', n, t)
      BY <1>1, <3>1, <3>2, <3>3, BlockKeepsUntil DEF ConfigInv
    <3> QED
      BY <3>1, <3>2, <3>4
  <2>4. ConfigUntil(sets', contractConfig.block, since)
    <3>0. since \in Int /\ since <= now
      BY <1>0 DEF ConfigInv
    <3>1. PICK t \in Int : t = since /\ t <= now
      BY <3>0
    <3>2. PICK n \in Nat : n = contractConfig.block /\ n <= height
      BY <1>0, <1>l DEF ConfigInv
    <3>3. ConfigUntil(sets, n, t)
      BY <3>1, <3>2 DEF ConfigInv
    <3>4. ConfigUntil(sets', n, t)
      BY <1>1, <3>1, <3>2, <3>3, BlockKeepsUntil DEF ConfigInv
    <3> QED
      BY <3>1, <3>2, <3>4
  <2> HIDE DEF since
  <2>5. since' = since
    BY <2>1 DEF since
  <2>6. ConfigUntil(sets, contractConfig.block, since)'
    BY <2>1, <2>4, <2>5
  <2> USE DEF since
  <2>7. HasDetails' = HasDetails
    BY <2>1 DEF HasDetails
  <2>8. HasDetails => ConfigUntil(sets, details.block, now - spent["config"])'
    BY <2>1, <2>2, <2>3
  <2>9. /\ contractConfig.block <= LatestConfigDetails'.block
        /\ HasDetails => details.block <= LatestConfigDetails'.block
    BY <1>0, <1>l, <2>2 DEF ConfigInv
  <2> QED
    BY <2>1, <2>2, <2>6, <2>7, <2>8, <2>9 DEF ConfigInv
<1>2. CASE Tick /\ UNCHANGED cacheFrame
  <2>1. /\ now' = now + 1 /\ UNCHANGED <<height, sets, pc>>
        /\ UNCHANGED <<contractConfig, ccLastCheckedAt, details>>
        /\ HasDetails => spent'["config"] = spent["config"] + 1
    BY <1>0, <1>2 DEF Tick, cacheFrame, configVars, HasDetails, Idle
  <2>2. HasDetails => (now - spent["config"])' = now - spent["config"]
    BY <1>0, <2>1
  <2>3. Ordered' /\ LatestConfigDetails' = LatestConfigDetails /\ HasDetails' = HasDetails
    BY <2>1 DEF ConfigInv, Ordered, LatestConfigDetails, DetailsAfter, HasDetails
  <2> QED
    BY <1>0, <2>1, <2>2, <2>3 DEF ConfigInv
<1>u. ASSUME UNCHANGED <<height, sets>>
      PROVE  Ordered' /\ LatestConfigDetails' = LatestConfigDetails
  BY <1>u DEF ConfigInv, Ordered, LatestConfigDetails, DetailsAfter
<1>3. CASE FetchDetails
  <2>1. /\ details' = LatestConfigDetails /\ spent' = spent
        /\ UNCHANGED <<now, height, sets, contractConfig, ccLastCheckedAt>>
    BY <1>0, <1>3 DEF FetchDetails, Goto, aggVars, cached
  <2>2. ConfigUntil(sets, LatestConfigDetails.block, now - spent["config"])
    <3>1. IsLast(sets, Len(sets), LatestConfigDetails.block)
      BY LatestIsLast DEF ConfigInv
    <3> QED
      BY <1>0, <3>1 DEF ConfigUntil
  <2>3. ConfigUntil(sets, details.block, now - spent["config"])'
    BY <2>1, <2>2
  <2> QED
    BY <1>0, <1>l, <1>u, <2>1, <2>3 DEF ConfigInv
<1>4. CASE ConfigFound \/ FetchHeight
  <2>1. /\ HasDetails /\ spent' = spent
        /\ UNCHANGED <<now, height, sets, contractConfig, ccLastCheckedAt, details>>
    BY <1>0, <1>4 DEF ConfigFound, FetchHeight, HasDetails, Goto, aggVars, outside, cached
  <2> QED
    BY <1>u, <2>1 DEF ConfigInv
<1>5. CASE StoreConfig
  <2>1. /\ pc["config"] = "store" /\ pc'["config"] = "idle" /\ ccLastCheckedAt' = now
        /\ UNCHANGED <<now, height, sets>>
        /\ contractConfig'.block = details.block
    BY <1>0, <1>5 DEF StoreConfig, Return, aggVars
  <2>2. /\ ConfigUntil(sets, details.block, now - spent["config"])
        /\ details.block <= LatestConfigDetails.block
    BY <2>1 DEF ConfigInv, HasDetails
  <2>3. PICK k \in 0..Len(sets) :
           /\ IsLast(sets, k, details.block)
           /\ k < Len(sets) => sets[k + 1].at >= now - spent["config"]
    BY <2>2 DEF ConfigUntil
  <2>4. ASSUME k < Len(sets) PROVE sets[k + 1].at >= now - MaxUpdate
    <3>1. k + 1 \in 1..Len(sets)
      BY <1>0, <2>4
    <3>2. PICK at \in Nat : at = sets[k + 1].at
      BY <1>0, <3>1
    <3> QED
      BY <1>0, <2>3, <2>4, <3>2
  <2>5. ConfigUntil(sets, details.block, now - MaxUpdate)
    BY <2>3, <2>4 DEF ConfigUntil
  <2>6. since' = now - MaxUpdate
    BY <1>0, <2>1
  <2> HIDE DEF since
  <2>7. ConfigUntil(sets, contractConfig.block, since)'
    BY <2>1, <2>5, <2>6
  <2> USE DEF since
  <2>8. ~HasDetails'
    BY <2>1 DEF HasDetails
  <2> QED
    BY <1>0, <1>u, <2>1, <2>2, <2>7, <2>8 DEF ConfigInv
<1>6. CASE Aside
  <2>1. UNCHANGED <<now, height, sets, contractConfig, ccLastCheckedAt>>
    BY <1>6 DEF Aside, outside, cached
  <2>2. HasDetails' => HasDetails /\ details' = details /\ spent'["config"] = spent["config"]
    BY <1>6 DEF Aside, Before, HasDetails, locals
  <2> QED
    BY <1>u, <2>1, <2>2 DEF ConfigInv
<1> QED
  BY StepKinds, <1>1, <1>2, <1>3, <1>4, <1>5, <1>6

\* The invariant of the configuration cache.
LEMMA ConfigInvariance == Spec => []ConfigInv
<1>1. Init => ConfigInv
  <2> SUFFICES ASSUME Init PROVE ConfigInv
    OBVIOUS
  <2>1. sets = <<>> /\ Len(sets) = 0 /\ contractConfig = NoDetails /\ now = 1
        /\ ccLastCheckedAt = 0 /\ ~HasDetails
    BY DEF Init, AggInit, PollInit, NewContractCache, HasDetails, Caches
  <2>2. ConfigUntil(sets, 0, 0)
    BY <2>1 DEF ConfigUntil, IsLast
  <2> QED
    BY <2>1, <2>2 DEF ConfigInv, Ordered, LatestConfigDetails, DetailsAfter, NoDetails
<1> QED
  BY <1>1, StepConfig, ProviderTypeCorrect, PTL DEF Spec

\* The invariants give the age of the block that is served.
LEMMA ServedBlock ==
    ASSUME TypeOK, ConfigInv
    PROVE  /\ LastIn(contractConfig.block) \in 0..Len(sets)
           /\ ConfigServed /\ LastIn(contractConfig.block) < Len(sets) =>
                 /\ sets[LastIn(contractConfig.block) + 1].at \in Nat
                 /\ sets[LastIn(contractConfig.block) + 1].at + (TTL + MaxUpdate) >= now
<1>0. /\ now \in Nat /\ ccLastCheckedAt \in Nat /\ TTL \in Nat /\ MaxUpdate \in Nat
      /\ Len(sets) \in Nat /\ contractConfig.block \in Nat
      /\ \A i \in 1..Len(sets) : sets[i].at \in Nat
  BY TypeFacts, CacheAssumption, PollerAssumption DEF Details
<1>1. PICK k \in 0..Len(sets) :
         /\ IsLast(sets, k, contractConfig.block)
         /\ k < Len(sets) => sets[k + 1].at >= IF ccLastCheckedAt = 0 THEN 0
                                               ELSE ccLastCheckedAt - MaxUpdate
  BY DEF ConfigInv, ConfigUntil
<1>2. LastIn(contractConfig.block) = k
  BY <1>0, <1>1, LastInIs
<1>3. ASSUME ConfigServed, k < Len(sets)
      PROVE  sets[k + 1].at \in Nat /\ sets[k + 1].at + (TTL + MaxUpdate) >= now
  <2>1. ccLastCheckedAt # 0 /\ now - ccLastCheckedAt <= TTL
    BY <1>0, <1>3 DEF ConfigServed, Stale
  <2>2. k + 1 \in 1..Len(sets)
    BY <1>0, <1>3
  <2>3. PICK at \in Nat : at = sets[k + 1].at
    BY <1>0, <2>2
  <2> QED
    BY <1>0, <1>1, <1>3, <2>1, <2>3
<1> QED
  BY <1>2, <1>3

\* A read that returns no error returns a configuration of a block that had the
\* latest one within the TTL and the time of one update, for every TTL, every duration
\* of an update, every failure and whatever blocks hold.
THEOREM ConfigIsFresh == Spec => []ConfigFresh
<1>1. ASSUME TypeOK, ConfigInv PROVE ConfigFresh
  <2> SUFFICES ASSUME ConfigServed, LastIn(contractConfig.block) < Len(sets)
               PROVE  sets[LastIn(contractConfig.block) + 1].at + TTL + MaxUpdate >= now
    BY DEF ConfigFresh
  <2>1. PICK at \in Nat : /\ at = sets[LastIn(contractConfig.block) + 1].at
                          /\ at + (TTL + MaxUpdate) >= now
    BY <1>1, ServedBlock
  <2> QED
    BY <1>1, <2>1, TypeFacts, CacheAssumption, PollerAssumption
<1> QED
  BY <1>1, ConfigInvariance, ProviderTypeCorrect, PTL
-----------------------------------------------------------------------------
(* The digest *)

\* What the contract reported once the first k configurations of s were set.
After(s, k) == IF k = 0 THEN NoDetails ELSE [block |-> s[k].block, digest |-> k]

\* d was reported at the end of its block.
Exact(s, d) == \E k \in 0..Len(s) : IsLast(s, k, d.block) /\ d = After(s, k)

\* d was reported at the end of its block, or the reader does not see the last
\* configuration of the block.
Seen(s, d) ==
    \E k \in 0..Len(s) :
        IsLast(s, k, d.block) /\ (d = After(s, k) \/ (k # 0 /\ ~s[k].direct))

\* The details were reported together, and what is stored and cached with them is
\* theirs where the reader sees the event.
DigestInv ==
    /\ SingleConfig => \A i, j \in 1..Len(sets) : i < j => sets[i].block < sets[j].block
    /\ HasDetails => Exact(sets, details)
    /\ pc["config"] \in {"height", "store"} /\ contractConfig # details =>
          Seen(sets, [block |-> details.block, digest |-> newConfig])
    /\ Seen(sets, contractConfig)

\* Blocks leave what was reported before as it is.
LEMMA BlockKeepsDetails ==
    ASSUME TypeOK, Ordered, NEW b \in Blocks, NewBlock(b),
           NEW d \in Details, d.block <= height
    PROVE  /\ Exact(sets, d) => Exact(sets', d)
           /\ Seen(sets, d) => Seen(sets', d)
<1>0. Len(sets) \in Nat /\ d.block \in Nat
  BY TypeFacts DEF Details
<1>1. ASSUME NEW k \in 0..Len(sets), IsLast(sets, k, d.block)
      PROVE  /\ k \in 0..Len(sets') /\ IsLast(sets', k, d.block)
             /\ After(sets', k) = After(sets, k)
             /\ k # 0 => sets'[k].direct = sets[k].direct
  <2>1. k \in 0..Len(sets') /\ IsLast(sets', k, d.block)
    BY <1>0, <1>1, BlockKeepsLast
  <2>2. k # 0 => k \in 1..Len(sets)
    BY <1>0
  <2>3. k # 0 => sets'[k] = sets[k]
    BY <2>2, BlockFacts
  <2> QED
    BY <2>1, <2>3 DEF After
<1>2. Exact(sets, d) => Exact(sets', d)
  BY <1>1 DEF Exact
<1>3. Seen(sets, d) => Seen(sets', d)
  BY <1>1 DEF Seen
<1> QED
  BY <1>2, <1>3

\* The one event that the reader finds in the block of reported details is the
\* event they were reported for, unless another contract set the last one.
LEMMA EventSeen ==
    ASSUME EventsServed, TypeOK, Ordered, DigestInv, HasDetails,
           NEW lost, lost = {} \/ "lost" \in Faults,
           NEW c \in ConfigFromEventAt(details.block, lost)
    PROVE  Seen(sets, [block |-> details.block, digest |-> c])
<1>0. Len(sets) \in Nat /\ details \in Details /\ DOMAIN sets = 1..Len(sets)
      /\ \A i \in 1..Len(sets) : sets[i].block \in Nat
  BY TypeFacts
<1>1. c \in 1..Len(sets) /\ sets[c].block = details.block
  BY <1>0 DEF ConfigFromEventAt, GetEventsFromBlock, EventsIn
<1>2. PICK k \in 0..Len(sets) : IsLast(sets, k, details.block) /\ details = After(sets, k)
  BY DEF DigestInv, Exact
<1>3. k # 0
  BY <1>0, <1>1, <1>2 DEF After, NoDetails, Ordered
<1>4. k \in 1..Len(sets) /\ sets[k].block = details.block /\ details.digest = k
  BY <1>0, <1>2, <1>3 DEF After
<1>5. ASSUME sets[k].direct PROVE c = k
  <2>1. CASE SingleConfig
    <3>1. ~(c < k) /\ ~(k < c)
      BY <1>0, <1>1, <1>4, <2>1 DEF DigestInv
    <3> QED
      BY <1>1, <1>4, <3>1
  <2>2. CASE lost = {}
    BY <1>0, <1>4, <1>5, <2>2 DEF ConfigFromEventAt, GetEventsFromBlock, EventsIn
  <2> QED
    BY <2>1, <2>2 DEF EventsServed
<1>6. CASE sets[k].direct
  <2>1. [block |-> details.block, digest |-> c] = After(sets, k)
    BY <1>3, <1>4, <1>5, <1>6 DEF After
  <2> QED
    BY <1>2, <2>1 DEF Seen
<1>7. CASE ~sets[k].direct
  BY <1>2, <1>3, <1>7 DEF Seen
<1> QED
  BY <1>6, <1>7

\* Every step preserves the invariant of the digests.
LEMMA StepDigest ==
    EventsServed /\ TypeOK /\ ConfigInv /\ DigestInv /\ [Next]_vars => DigestInv'
<1> SUFFICES ASSUME EventsServed, TypeOK, ConfigInv, DigestInv, [Next]_vars PROVE DigestInv'
  OBVIOUS
<1>0. /\ details \in Details /\ contractConfig \in Details /\ newConfig \in Nat
      /\ details.block \in Nat /\ contractConfig.block \in Nat
      /\ Len(sets) \in Nat /\ "config" \in Caches /\ pc \in [Caches -> Steps]
  BY TypeFacts DEF Details
<1>l. /\ LatestConfigDetails.block \in Nat /\ height \in Nat
      /\ LatestConfigDetails.block <= height
      /\ IsLast(sets, Len(sets), LatestConfigDetails.block)
  BY LatestIsLast, TypeFacts DEF ConfigInv
<1>1. ASSUME NEW b \in Blocks, NewBlock(b), UNCHANGED <<pollVars, cacheFrame>>
      PROVE  DigestInv'
  <2>1. UNCHANGED <<pc, contractConfig, details, newConfig>>
    BY <1>1 DEF pollVars, cacheFrame, configVars
  <2>2. ASSUME SingleConfig, NEW i \in 1..Len(sets'), NEW j \in 1..Len(sets'), i < j
        PROVE  sets'[i].block < sets'[j].block
    <3>1. Len(b) <= 1 /\ Len(b) \in Nat /\ Len(sets') = Len(sets) + Len(b)
      BY <1>1, <2>2, BlockFacts DEF SingleConfig, ConfigInv
    <3>2. i \in 1..Len(sets)
      BY <1>0, <2>2, <3>1
    <3>3. CASE j \in 1..Len(sets)
      BY <1>1, <2>2, <3>2, <3>3, BlockFacts DEF DigestInv, ConfigInv
    <3>4. CASE j \in Len(sets)+1..Len(sets')
      <4>1. sets'[j].block = height + 1 /\ sets'[i] = sets[i]
        BY <1>1, <3>2, <3>4, BlockFacts DEF ConfigInv
      <4>2. sets[i].block \in Nat /\ sets[i].block <= height
        BY <3>2, TypeFacts DEF ConfigInv, Ordered
      <4> QED
        BY <1>l, <4>1, <4>2
    <3> QED
      BY <1>0, <3>1, <3>3, <3>4
  <2>3. HasDetails => Exact(sets', details)
    <3>1. HasDetails => details.block <= height
      BY <1>0, <1>l DEF ConfigInv
    <3> QED
      BY <1>0, <1>1, <3>1, BlockKeepsDetails DEF ConfigInv, DigestInv
  <2>4. ASSUME pc["config"] \in {"height", "store"}, contractConfig # details
        PROVE  Seen(sets', [block |-> details.block, digest |-> newConfig])
    <3>1. PICK d \in Details : d = [block |-> details.block, digest |-> newConfig]
      BY <1>0 DEF Details
    <3>2. d.block <= height
      BY <1>0, <1>l, <2>4, <3>1 DEF ConfigInv, HasDetails
    <3>3. Seen(sets, d)
      BY <2>4, <3>1 DEF DigestInv
    <3>4. Seen(sets', d)
      BY <1>1, <3>2, <3>3, BlockKeepsDetails DEF ConfigInv
    <3> QED
      BY <3>1, <3>4
  <2>5. Seen(sets', contractConfig)
    <3>1. contractConfig.block <= height
      BY <1>0, <1>l DEF ConfigInv
    <3> QED
      BY <1>0, <1>1, <3>1, BlockKeepsDetails DEF ConfigInv, DigestInv
  <2> QED
    BY <2>1, <2>2, <2>3, <2>4, <2>5 DEF DigestInv, HasDetails
<1>2. CASE Tick /\ UNCHANGED cacheFrame
  <2>1. UNCHANGED <<sets, pc, contractConfig, details, newConfig>>
    BY <1>2 DEF Tick, cacheFrame, configVars
  <2> QED
    BY <2>1 DEF DigestInv, HasDetails
<1>3. CASE FetchDetails
  <2>1. /\ details' = LatestConfigDetails
        /\ pc'["config"] \in {"height", "lookupEvents"}
        /\ pc'["config"] = "height" => contractConfig = details'
        /\ UNCHANGED <<sets, contractConfig>>
    BY <1>0, <1>3 DEF FetchDetails, Goto, aggVars, cached
  <2>2. Exact(sets, LatestConfigDetails)
    BY <1>0, <1>l DEF Exact, LatestConfigDetails, DetailsAfter, After
  <2> QED
    BY <2>1, <2>2 DEF DigestInv, HasDetails
<1>4. CASE ConfigFound
  <2>1. /\ HasDetails /\ pc'["config"] = "height"
        /\ UNCHANGED <<sets, contractConfig, details>>
    BY <1>0, <1>4 DEF ConfigFound, HasDetails, Goto, outside, cached
  <2>2. Seen(sets, [block |-> details.block, digest |-> newConfig'])
    <3>1. PICK lost : /\ lost = {} \/ "lost" \in Faults
                      /\ newConfig' \in ConfigFromEventAt(details.block, lost)
      BY <1>4 DEF ConfigFound
    <3> QED
      BY <2>1, <3>1, EventSeen DEF ConfigInv
  <2> QED
    BY <2>1, <2>2 DEF DigestInv, HasDetails
<1>5. CASE FetchHeight
  <2>1. /\ HasDetails /\ pc["config"] = "height"
        /\ UNCHANGED <<sets, contractConfig, details, newConfig>>
    BY <1>0, <1>5 DEF FetchHeight, HasDetails, Goto, aggVars, cached
  <2> QED
    BY <2>1 DEF DigestInv
<1>6. CASE StoreConfig
  <2>1. /\ pc["config"] = "store" /\ pc'["config"] = "idle" /\ sets' = sets
        /\ contractConfig' = IF contractConfig = details THEN contractConfig
                             ELSE [block |-> details.block, digest |-> newConfig]
    BY <1>0, <1>6 DEF StoreConfig, Return, aggVars
  <2>2. Seen(sets, contractConfig')
    BY <2>1 DEF DigestInv
  <2> QED
    BY <2>1, <2>2 DEF DigestInv, HasDetails
<1>7. CASE Aside
  <2>1. UNCHANGED <<sets, contractConfig>>
    BY <1>7 DEF Aside, outside, cached
  <2>2. HasDetails' => HasDetails /\ UNCHANGED <<details, newConfig>>
    BY <1>7 DEF Aside, Before, HasDetails, locals
  <2>3. pc'["config"] \in {"height", "store"} => pc["config"] = pc'["config"] /\ HasDetails'
    BY <1>7 DEF Aside, Before, HasDetails
  <2> QED
    BY <2>1, <2>2, <2>3 DEF DigestInv
<1> QED
  BY StepKinds, <1>1, <1>2, <1>3, <1>4, <1>5, <1>6, <1>7

\* Where the reader gets the events of a block, the cached block and digest are a pair
\* that the contract itself reported at the end of the block, although an update takes
\* several queries, unless the last configuration of the block came through another
\* contract.
THEOREM CachedDetailsCorrect == EventsServed => (Spec => []CachedDetailsReported)
<1> SUFFICES ASSUME EventsServed PROVE Spec => []CachedDetailsReported
  OBVIOUS
<1>1. Init => DigestInv
  <2> SUFFICES ASSUME Init PROVE DigestInv
    OBVIOUS
  <2>1. /\ sets = <<>> /\ Len(sets) = 0 /\ contractConfig = NoDetails
        /\ pc["config"] = "idle"
    BY DEF Init, AggInit, PollInit, NewContractCache, Caches
  <2>2. Seen(sets, NoDetails)
    BY <2>1 DEF Seen, IsLast, After, NoDetails
  <2> QED
    BY <2>1, <2>2 DEF DigestInv, HasDetails
<1>2. TypeOK /\ ConfigInv /\ DigestInv /\ [Next]_vars => DigestInv'
  BY StepDigest
<1>3. ASSUME TypeOK, DigestInv PROVE CachedDetailsReported
  <2>1. PICK k \in 0..Len(sets) :
           /\ IsLast(sets, k, contractConfig.block)
           /\ contractConfig = After(sets, k) \/ (k # 0 /\ ~sets[k].direct)
    BY <1>3 DEF DigestInv, Seen
  <2>2. LastIn(contractConfig.block) = k
    BY <1>3, <2>1, LastInIs, TypeFacts DEF Details
  <2> QED
    BY <2>1, <2>2 DEF CachedDetailsReported, Masked, DetailsAfter, After
<1> QED
  BY <1>1, <1>2, <1>3, ConfigInvariance, ProviderTypeCorrect, PTL DEF Spec
=============================================================================
