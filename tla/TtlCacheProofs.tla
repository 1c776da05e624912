--------------------------- MODULE TtlCacheProofs ---------------------------
(***************************************************************************)
(* Both OCR2 caches implement TtlCache, and what follows for the cache of  *)
(* transmissions: it serves nothing that is not in a block, and nothing    *)
(* older than the TTL and the time of one update.                          *)
(***************************************************************************)
EXTENDS CacheProofs
-----------------------------------------------------------------------------
(* The configuration cache *)

\* The invariants give the freshness that the abstract cache asks for.
LEMMA ConfigTtlFresh ==
    ASSUME TypeOK, ConfigInv, ConfigServed PROVE ConfigTtl!Fresh
<1> DEFINE k == LastIn(contractConfig.block)
<1>0. /\ Len(ConfigTimes) = Len(sets) /\ Len(sets) \in Nat
      /\ \A i \in 1..Len(sets) : ConfigTimes[i] = sets[i].at
  BY TypeFacts DEF ConfigTimes
<1>1. /\ k \in 0..Len(sets)
      /\ k < Len(sets) => /\ sets[k + 1].at \in Nat
                          /\ sets[k + 1].at + (TTL + MaxUpdate) >= now
  BY ServedBlock
<1> HIDE DEF k
<1>2. k < Len(sets) => ConfigTimes[k + 1] = sets[k + 1].at
  <2>1. k < Len(sets) => k + 1 \in 1..Len(sets)
    BY <1>0, <1>1
  <2> QED
    BY <1>0, <2>1
<1>3. k < Len(ConfigTimes) => ConfigTimes[k + 1] + (TTL + MaxUpdate) >= now
  BY <1>0, <1>1, <1>2
<1> QED
  BY <1>3 DEF k, ConfigTtl!Fresh

\* The position that LastIn names in the next state.
LEMMA LastInNext ==
    ASSUME TypeOK', NEW b \in Nat, contractConfig'.block = b,
           NEW k \in 0..Len(sets'), IsLast(sets', k, b)
    PROVE  LastIn(contractConfig.block)' = k
<1>1. sets' \in Seq(ConfigSet)
  BY DEF TypeOK, AggTypeOK
<1>2. LastIn(contractConfig.block)' = LastOf(sets', b)
  BY DEF LastIn, LastOf, IsLast
<1> QED
  BY <1>1, <1>2, LastOfIs

\* A later block has no earlier configuration.
LEMMA LastInGrows ==
    ASSUME TypeOK, NEW b \in Nat, NEW c \in Nat, b <= c,
           NEW j \in 0..Len(sets), IsLast(sets, j, b),
           NEW k \in 0..Len(sets), IsLast(sets, k, c)
    PROVE  j <= k
<1>0. Len(sets) \in Nat /\ \A i \in 1..Len(sets) : sets[i].block \in Nat
  BY TypeFacts
<1>1. ASSUME k < j PROVE FALSE
  <2>1. k + 1 \in 1..j /\ k + 1 \in k + 1..Len(sets) /\ k + 1 \in 1..Len(sets)
    BY <1>0, <1>1
  <2> QED
    BY <1>0, <2>1 DEF IsLast
<1> QED
  BY <1>0, <1>1

\* Every step of the provider is a step of the abstract cache of configurations.
LEMMA ConfigTtlStep ==
    ASSUME TypeOK, ConfigInv, [Next]_vars, TypeOK', ConfigInv'
    PROVE  [ConfigTtl!Next]_(ConfigTtl!ttlVars)
<1>0. /\ now \in Nat /\ ccLastCheckedAt \in Nat /\ Len(sets) \in Nat
      /\ contractConfig.block \in Nat /\ details.block \in Nat /\ TTL \in Nat
      /\ "config" \in Caches /\ pc \in [Caches -> Steps]
      /\ Len(ConfigTimes) = Len(sets)
  BY TypeFacts, CacheAssumption DEF Details, ConfigTimes
<1>f. ConfigServed' => ConfigTtl!Fresh'
  <2>1. (TypeOK /\ ConfigInv /\ ConfigServed => ConfigTtl!Fresh)'
    BY ConfigTtlFresh, PTL
  <2> QED
    BY <2>1
<1> DEFINE held == LastIn(contractConfig.block)
<1>s. ASSUME UNCHANGED <<sets, contractConfig>> PROVE held' = held
  BY <1>s DEF LastIn
<1>q. ASSUME UNCHANGED outside PROVE [ConfigTtl!Next]_(ConfigTtl!ttlVars)
  <2>1. UNCHANGED <<now, sets, contractConfig, ccLastCheckedAt>>
    BY <1>q DEF outside, cached
  <2>2. held' = held /\ ConfigTimes' = ConfigTimes /\ ConfigServed' = ConfigServed
    BY <1>s, <2>1 DEF ConfigTimes, ConfigServed, Stale
  <2> QED
    BY <2>1, <2>2 DEF ConfigTtl!ttlVars
<1>1. ASSUME NEW b \in Blocks, NewBlock(b), UNCHANGED <<pollVars, cacheFrame>>
      PROVE  ConfigTtl!Next
  <2>1. /\ now' = now /\ Len(sets') \in Nat /\ Len(sets') >= Len(sets)
        /\ \A i \in 1..Len(sets) : sets'[i] = sets[i]
        /\ \A i \in Len(sets)+1..Len(sets') : sets'[i].at = now
    BY <1>0, <1>1, NewBlockType DEF TypeOK, NewBlock
  <2>2. UNCHANGED <<contractConfig, ccLastCheckedAt>>
    BY <1>1 DEF cacheFrame, configVars
  <2>3. ConfigTimes' = [i \in 1..Len(sets') |-> sets'[i].at] /\ Len(ConfigTimes') = Len(sets')
    BY <2>1 DEF ConfigTimes
  <2>4. \A i \in 1..Len(ConfigTimes) : ConfigTimes'[i] = ConfigTimes[i]
    <3> SUFFICES ASSUME NEW i \in 1..Len(sets) PROVE ConfigTimes'[i] = ConfigTimes[i]
      BY <1>0
    <3>1. i \in 1..Len(sets')
      BY <1>0, <2>1
    <3> QED
      BY <2>1, <2>3, <3>1 DEF ConfigTimes
  <2>5. \A i \in Len(ConfigTimes) + 1..Len(ConfigTimes') : ConfigTimes'[i] = now
    <3> SUFFICES ASSUME NEW i \in Len(sets) + 1..Len(sets') PROVE ConfigTimes'[i] = now
      BY <1>0, <2>3
    <3>1. i \in 1..Len(sets')
      BY <1>0, <2>1
    <3> QED
      BY <2>1, <2>3, <3>1
  <2>6. ConfigServed' = ConfigServed
    BY <2>1, <2>2 DEF ConfigServed, Stale
  <2>7. held' = held
    <3>1. PICK k \in 0..Len(sets) : IsLast(sets, k, contractConfig.block)
      BY DEF ConfigInv, ConfigUntil
    <3>2. contractConfig.block <= height
      BY <1>0, LatestIsLast, TypeFacts DEF ConfigInv
    <3>3. k \in 0..Len(sets') /\ IsLast(sets', k, contractConfig.block)
      BY <1>0, <1>1, <3>1, <3>2, BlockKeepsLast DEF ConfigInv
    <3>4. held = k
      BY <1>0, <3>1, LastInIs
    <3>5. held' = k
      BY <1>0, <2>2, <3>3, LastInNext
    <3> QED
      BY <3>4, <3>5
  <2>8. ConfigTtl!Publish
    BY <1>0, <2>1, <2>3, <2>4, <2>5, <2>6, <2>7 DEF ConfigTtl!Publish
  <2> QED
    BY <1>f, <2>8 DEF ConfigTtl!Next
<1>2. CASE Tick /\ UNCHANGED cacheFrame
  <2>1. now' = now + 1 /\ UNCHANGED <<sets, contractConfig, ccLastCheckedAt>>
    BY <1>2 DEF Tick, cacheFrame, configVars
  <2>2. ConfigServed' => ConfigServed
    BY <1>0, <2>1 DEF ConfigServed, Stale
  <2>3. held' = held /\ ConfigTimes' = ConfigTimes
    BY <1>s, <2>1 DEF ConfigTimes
  <2>4. ConfigTtl!Pass
    BY <1>0, <2>1, <2>2, <2>3 DEF ConfigTtl!Pass
  <2> QED
    BY <1>f, <2>4 DEF ConfigTtl!Next
<1>3. CASE FetchDetails \/ ConfigFound \/ FetchHeight \/ Aside
  <2>1. UNCHANGED outside
    BY <1>3 DEF FetchDetails, ConfigFound, FetchHeight, Aside, aggVars, outside
  <2> QED
    BY <1>q, <2>1
<1>4. CASE StoreConfig
  <2>1. UNCHANGED <<now, sets>> /\ pc["config"] = "store"
    BY <1>4 DEF StoreConfig, aggVars
  <2>2. contractConfig'.block = details.block /\ contractConfig.block <= details.block
    BY <1>0, <1>4, <2>1 DEF StoreConfig, ConfigInv, HasDetails
  <2>3. PICK j \in 0..Len(sets) : IsLast(sets, j, contractConfig.block)
    BY DEF ConfigInv, ConfigUntil
  <2>4. PICK k \in 0..Len(sets) : IsLast(sets, k, details.block)
    BY <2>1 DEF ConfigInv, HasDetails, ConfigUntil
  <2>7. held = j /\ LastIn(details.block) = k /\ j <= k
    BY <1>0, <2>2, <2>3, <2>4, LastInIs, LastInGrows
  <2>8. held' = LastIn(details.block)
    BY <2>1, <2>2 DEF LastIn
  <2>9. held' \in held..Len(ConfigTimes)
    BY <1>0, <2>7, <2>8
  <2>5. ConfigServed' \in BOOLEAN /\ ConfigTimes' = ConfigTimes
    BY <2>1 DEF ConfigServed, ConfigTimes
  <2>6. ConfigTtl!Refresh
    BY <2>1, <2>5, <2>9 DEF ConfigTtl!Refresh
  <2> QED
    BY <1>f, <2>6 DEF ConfigTtl!Next
<1> QED
  BY StepKinds, <1>1, <1>2, <1>3, <1>4

\* The configuration cache implements the abstract cache, for every TTL, every duration
\* of an update, every failure and whatever blocks hold: a reader never goes back to an
\* earlier block, never ahead, and never sees a block whose last configuration was
\* replaced longer than the TTL and one update ago.
THEOREM ConfigCacheServes == Spec => ServesConfigs
<1>1. Init => ConfigTtl!Init
  <2> SUFFICES ASSUME Init PROVE ConfigTtl!Init
    OBVIOUS
  <2>1. sets = <<>> /\ contractConfig = NoDetails /\ ccLastCheckedAt = 0 /\ now = 1
    BY DEF Init, AggInit, NewContractCache
  <2>2. TypeOK /\ Len(sets) = 0 /\ IsLast(sets, 0, 0)
    BY <2>1, InitType DEF IsLast
  <2>3. LastIn(contractConfig.block) = 0
    BY <2>1, <2>2, LastInIs DEF NoDetails
  <2> QED
    BY <2>1, <2>3 DEF ConfigTtl!Init, ConfigTimes, ConfigServed, Stale
<1> QED
  BY <1>1, ConfigTtlStep, ProviderTypeCorrect, ConfigInvariance, PTL
     DEF Spec, ServesConfigs, ConfigTtl!Spec
-----------------------------------------------------------------------------
(* The transmissions cache *)

\* The node asked does not show transmissions that are pending, or their answers
\* tell them from none.
AnswersTell == Validated \/ ZeroAnswers = {}

tCached == <<transmissionDetails, skipping, tdLastCheckedAt>>

\* The chain moves: a transmission is sent, included, dropped or solidified.
ChainStep ==
    /\ Transmit \/ IncludeTransmission \/ SolidifyTransmission
    /\ UNCHANGED <<pollVars, cacheFrame>>

\* A step that neither moves the chain or the clock nor writes the cache: the
\* update is where it was, or not at its end.
TransAside ==
    /\ UNCHANGED <<now, heads, solids, tCached>>
    /\ \/ pc'["transmissions"] # "store"
       \/ /\ pc'["transmissions"] = pc["transmissions"]
          /\ spent'["transmissions"] = spent["transmissions"]
          /\ fetched' = fetched

\* Every step is one of the chain, a tick, a step of updateTransmission proper, or
\* aside.
LEMMA TransStepKinds ==
    ASSUME TypeOK, [Next]_vars
    PROVE  \/ ChainStep
           \/ Tick /\ UNCHANGED cacheFrame
           \/ FetchTransmission \/ StoreTransmission
           \/ TransAside
<1>0. /\ "config" \in Caches /\ "transmissions" \in Caches /\ "config" # "transmissions"
      /\ pc \in [Caches -> Steps] /\ spent \in [Caches -> 0..MaxUpdate]
  BY DEF TypeOK, PollTypeOK, Caches
<1> USE <1>0
<1>1. CASE Start \/ Close \/ providerSteps
  <2>1. UNCHANGED <<now, heads, solids, tCached, fetched>> /\ spent' = spent
    BY <1>1 DEF Start, Close, providerSteps, ConfigCacheStarted, TransmissionsCacheStarted,
                ConfigCacheClosed, TransmissionsCacheClosed, lifeFrame, aggVars, transVars,
                tCached
  <2>2. pc'["transmissions"] \in {pc["transmissions"], "lookup"}
    BY <1>1 DEF Start, Close, providerSteps, ConfigCacheStarted, TransmissionsCacheStarted,
                ConfigCacheClosed, TransmissionsCacheClosed
  <2> QED
    BY <2>1, <2>2 DEF TransAside
<1>2. CASE configStep
  <2>1. UNCHANGED <<tCached, fetched>>
    BY <1>2 DEF configStep, configFrame, transVars, tCached
  <2>2. UNCHANGED <<now, heads, solids>>
    BY <1>2 DEF configStep, updateConfig, GetAbi, LookupAbi, GetContract, GetContractFails,
                WriteAbi, LookupAbiForEvents, FetchDetails, FetchConfig, FetchHeight,
                StoreConfig, ConfigRpcFails, LoseInfos, Fault, aggVars
  <2>3. /\ pc'["transmissions"] = pc["transmissions"]
        /\ spent'["transmissions"] = spent["transmissions"]
    BY <1>2 DEF configStep, updateConfig, GetAbi, LookupAbi, GetContract, GetContractFails,
                WriteAbi, LookupAbiForEvents, FetchDetails, FetchConfig, FetchHeight,
                StoreConfig, ConfigRpcFails, UpdateConfigFails, Goto, Return
  <2> QED
    BY <2>1, <2>2, <2>3 DEF TransAside
<1>3. CASE transStep
  <2>1. CASE GetAbi("transmissions") /\ UNCHANGED transVars
    <3>1. UNCHANGED <<now, heads, solids, tCached>>
      BY <2>1 DEF GetAbi, LookupAbi, GetContract, GetContractFails, WriteAbi,
                  LookupAbiForEvents, aggVars, Fault, transVars, tCached
    <3>2. pc'["transmissions"] # "store"
      BY <2>1 DEF GetAbi, LookupAbi, GetContract, GetContractFails, WriteAbi,
                  LookupAbiForEvents, Goto
    <3> QED
      BY <3>1, <3>2 DEF TransAside
  <2>2. CASE TransmissionRpcFails
    BY <2>2 DEF TransmissionRpcFails, Fault, Return, transVars, tCached, TransAside
  <2> QED
    BY <1>3, <2>1, <2>2 DEF transStep, updateTransmission
<1>4. ASSUME NEW c \in Caches, polls(c) \/ stops(c) PROVE TransAside
  <2>1. UNCHANGED <<now, heads, solids, tCached, fetched>>
    BY <1>4 DEF polls, stops, PollTick, PollStops, aggVars, cacheFrame, transVars, tCached
  <2>2. spent' = spent /\ pc'["transmissions"] \in {pc["transmissions"], "lookup"}
    BY <1>4 DEF polls, stops, PollTick, PollStops, Goto
  <2> QED
    BY <2>1, <2>2 DEF TransAside
<1>5. ASSUME NEW b \in Blocks, NewBlock(b), UNCHANGED <<pollVars, cacheFrame>>
      PROVE  TransAside
  BY <1>5 DEF NewBlock, pollVars, cacheFrame, transVars, tCached, TransAside
<1>6. CASE UNCHANGED vars
  BY <1>6 DEF vars, aggVars, pollVars, transVars, tCached, TransAside
<1> QED
  BY <1>1, <1>2, <1>3, <1>4, <1>5, <1>6 DEF Next, AggNext, ChainStep

\* What the type invariant says of the transmissions cache and the chain.
LEMMA TransFacts ==
    ASSUME TypeOK
    PROVE  /\ now \in Nat /\ now >= 1 /\ tdLastCheckedAt \in Nat /\ skipping \in BOOLEAN
           /\ transmissionDetails.n \in Nat /\ fetched.n \in Nat
           /\ heads \in Seq(Nat) /\ solids \in Seq(Nat)
           /\ Len(heads) \in Nat /\ Len(solids) \in Nat
           /\ "transmissions" \in Caches /\ pc \in [Caches -> Steps]
           /\ spent \in [Caches -> 0..MaxUpdate]
           /\ MaxUpdate \in Nat /\ TTL \in Nat
<1>1. now \in Nat /\ now >= 1 /\ heads \in Seq(Nat) /\ solids \in Seq(Nat)
  BY DEF TypeOK, AggTypeOK
<1>2. /\ tdLastCheckedAt \in Nat /\ skipping \in BOOLEAN
      /\ transmissionDetails.n \in Nat /\ fetched.n \in Nat
  BY DEF TypeOK, TransTypeOK, Transmission
<1>3. /\ "transmissions" \in Caches /\ pc \in [Caches -> Steps]
      /\ spent \in [Caches -> 0..MaxUpdate]
  BY DEF TypeOK, PollTypeOK, Caches
<1> QED
  BY <1>1, <1>2, <1>3, PollerAssumption, CacheAssumption

\* What the node asked holds is a sequence of inclusion times.
LEMMA SourceFacts ==
    ASSUME TypeOK
    PROVE  Len(Source) \in Nat /\ \A i \in 1..Len(Source) : Source[i] \in Nat
<1>1. heads \in Seq(Nat) /\ solids \in Seq(Nat)
  BY TransFacts
<1>2. Source \in Seq(Nat)
  BY <1>1 DEF Source
<1>3. PICK s \in Seq(Nat) : s = Source
  BY <1>2
<1>4. Len(s) \in Nat /\ \A i \in 1..Len(s) : s[i] \in Nat
  BY <1>3
<1> QED
  BY <1>3, <1>4

\* Transmission k was included by the node asked, and the next one at t or later.
LatestUntil(k, t) ==
    /\ k <= Len(Source)
    /\ k < Len(Source) => Source[k + 1] >= t

\* What an update is about to store was the latest when the update began and is not
\* older than the cache, and the cache was the latest when the update that wrote it
\* began, unless the last update was skipped.
TransInv ==
    /\ Len(solids) <= Len(heads)
    /\ pc["transmissions"] = "store" /\ ~Skip(fetched) =>
          /\ LatestUntil(fetched.n, now - spent["transmissions"])
          /\ transmissionDetails.n <= fetched.n
    /\ tdLastCheckedAt <= now
    /\ transmissionDetails.n <= Len(Source)
    /\ ~skipping =>
          LatestUntil(transmissionDetails.n,
                      IF tdLastCheckedAt = 0 THEN 0 ELSE tdLastCheckedAt - MaxUpdate)

\* The sequence of included transmissions stays, or grows by one that is dated now.
SourceGrows ==
    \/ Source' = Source
    \/ /\ Len(Source') = Len(Source) + 1
       /\ \A i \in 1..Len(Source) : Source'[i] = Source[i]
       /\ Source'[Len(Source) + 1] = now

\* What a step of the chain does to the sequences.
LEMMA ChainGrows ==
    ASSUME TypeOK, ChainStep, Len(solids) <= Len(heads)
    PROVE  SourceGrows /\ Len(solids') <= Len(heads')
<1>0. heads \in Seq(Nat) /\ solids \in Seq(Nat) /\ now \in Nat
  BY TransFacts
<1>1. ASSUME NEW s \in Seq(Nat)
      PROVE  /\ Len(Append(s, now)) = Len(s) + 1
             /\ \A i \in 1..Len(s) : Append(s, now)[i] = s[i]
             /\ Append(s, now)[Len(s) + 1] = now
  BY <1>0
<1>2. CASE Transmit
  BY <1>2 DEF Transmit, SourceGrows, Source
<1>3. CASE IncludeTransmission
  BY <1>0, <1>1, <1>3 DEF IncludeTransmission, SourceGrows, Source
<1>4. CASE SolidifyTransmission
  BY <1>0, <1>1, <1>4 DEF SolidifyTransmission, SourceGrows, Source
<1> QED
  BY <1>2, <1>3, <1>4 DEF ChainStep

\* What was the latest until t <= now still is after the chain has moved.
LEMMA GrowthKeeps ==
    ASSUME TypeOK, SourceGrows, NEW k \in Nat, NEW t \in Int, t <= now, LatestUntil(k, t)
    PROVE  /\ k <= Len(Source')
           /\ k < Len(Source') => Source'[k + 1] >= t
<1>0. Len(Source) \in Nat /\ now \in Nat
  BY TransFacts, SourceFacts
<1>1. CASE Source' = Source
  BY <1>1 DEF LatestUntil
<1>2. CASE /\ Len(Source') = Len(Source) + 1
           /\ \A i \in 1..Len(Source) : Source'[i] = Source[i]
           /\ Source'[Len(Source) + 1] = now
  <2>1. CASE k < Len(Source)
    <3>1. k + 1 \in 1..Len(Source)
      BY <1>0, <2>1
    <3> QED
      BY <1>0, <1>2, <2>1, <3>1 DEF LatestUntil
  <2>2. CASE k = Len(Source)
    BY <1>0, <1>2, <2>2
  <2> QED
    BY <1>0, <2>1, <2>2 DEF LatestUntil
<1> QED
  BY <1>1, <1>2 DEF SourceGrows

\* A query returns the latest transmission, or one that the update skips.
LEMMA FetchedIsLatest ==
    ASSUME AnswersTell, TypeOK, FetchTransmission, ~Skip(fetched')
    PROVE  fetched'.n = Len(Source)
<1>1. fetched' = TriggerConstantContractFullNode
  BY DEF FetchTransmission
<1>2. CASE Validated
  BY <1>1, <1>2 DEF TriggerConstantContractFullNode, SolidTransmission, Source
<1>3. CASE ~Validated /\ ~pending
  BY <1>1, <1>3 DEF TriggerConstantContractFullNode, HeadTransmission, Source
<1>4. CASE ~Validated /\ pending
  <2>1. fetched'.n = Len(heads) + 1 /\ fetched'.zeroTime
    BY <1>1, <1>4 DEF TriggerConstantContractFullNode, HeadTransmission
  <2>2. ~ZeroAnswer(fetched'.n)
    BY <1>4, <2>1, TransFacts DEF AnswersTell, ZeroAnswer
  <2> QED
    BY <2>1, <2>2 DEF Skip
<1> QED
  BY <1>2, <1>3, <1>4

\* Every step preserves the invariant of the transmissions cache.
LEMMA StepTrans == AnswersTell /\ TypeOK /\ TransInv /\ [Next]_vars => TransInv'
<1> SUFFICES ASSUME AnswersTell, TypeOK, TransInv, [Next]_vars PROVE TransInv'
  OBVIOUS
<1>0. /\ now \in Nat /\ now >= 1 /\ tdLastCheckedAt \in Nat /\ skipping \in BOOLEAN
      /\ transmissionDetails.n \in Nat /\ fetched.n \in Nat
      /\ "transmissions" \in Caches /\ pc \in [Caches -> Steps]
      /\ spent["transmissions"] \in 0..MaxUpdate /\ MaxUpdate \in Nat
      /\ Len(Source) \in Nat /\ \A i \in 1..Len(Source) : Source[i] \in Nat
  <2>1. "transmissions" \in Caches /\ spent \in [Caches -> 0..MaxUpdate]
    BY TransFacts
  <2>2. spent["transmissions"] \in 0..MaxUpdate
    BY <2>1
  <2> QED
    BY <2>1, <2>2, TransFacts, SourceFacts
<1> DEFINE since == IF tdLastCheckedAt = 0 THEN 0 ELSE tdLastCheckedAt - MaxUpdate
<1>1. CASE ChainStep
  <2>1. SourceGrows /\ Len(solids') <= Len(heads')
    BY <1>1, ChainGrows DEF TransInv
  <2>2. UNCHANGED <<now, pc, spent, transmissionDetails, skipping, tdLastCheckedAt, fetched>>
    BY <1>1 DEF ChainStep, Transmit, IncludeTransmission, SolidifyTransmission,
                pollVars, cacheFrame, transVars
  <2>3. ASSUME pc["transmissions"] = "store", ~Skip(fetched)
        PROVE  /\ LatestUntil(fetched.n, now - spent["transmissions"])'
               /\ transmissionDetails.n <= fetched.n
    <3>1. PICK t \in Int : t = now - spent["transmissions"] /\ t <= now
      BY <1>0
    <3>2. LatestUntil(fetched.n, t) /\ transmissionDetails.n <= fetched.n
      BY <2>3, <3>1 DEF TransInv
    <3>3. fetched.n <= Len(Source') /\ (fetched.n < Len(Source') => Source'[fetched.n + 1] >= t)
      BY <1>0, <2>1, <3>1, <3>2, GrowthKeeps
    <3> QED
      BY <2>2, <3>1, <3>2, <3>3 DEF LatestUntil
  <2>4. transmissionDetails.n <= Len(Source')
    BY <1>0, <2>1 DEF TransInv, SourceGrows
  <2>5. ASSUME ~skipping PROVE LatestUntil(transmissionDetails.n, since)'
    <3>0. since \in Int /\ since <= now
      BY <1>0 DEF TransInv
    <3>1. PICK t \in Int : t = since /\ t <= now
      BY <3>0
    <3>2. LatestUntil(transmissionDetails.n, t)
      BY <2>5, <3>1 DEF TransInv
    <3>3. /\ transmissionDetails.n <= Len(Source')
          /\ transmissionDetails.n < Len(Source') => Source'[transmissionDetails.n + 1] >= t
      BY <1>0, <2>1, <3>1, <3>2, GrowthKeeps
    <3>4. since' = t
      BY <2>2, <3>1
    <3> QED
      BY <2>2, <3>3, <3>4 DEF LatestUntil
  <2>6. Skip(fetched)' = Skip(fetched)
    BY <2>2 DEF Skip, ZeroAnswer
  <2> QED
    BY <2>1, <2>2, <2>3, <2>4, <2>5, <2>6 DEF TransInv
<1>2. CASE Tick /\ UNCHANGED cacheFrame
  <2>1. /\ now' = now + 1 /\ UNCHANGED <<heads, solids, pc>>
        /\ UNCHANGED <<transmissionDetails, skipping, tdLastCheckedAt, fetched>>
        /\ pc["transmissions"] = "store" =>
              spent'["transmissions"] = spent["transmissions"] + 1
    BY <1>0, <1>2 DEF Tick, cacheFrame, transVars, Idle
  <2>2. Source' = Source /\ Skip(fetched)' = Skip(fetched)
    BY <2>1 DEF Source, Skip, ZeroAnswer
  <2>3. ASSUME pc["transmissions"] = "store"
        PROVE  (now - spent["transmissions"])' = now - spent["transmissions"]
    BY <1>0, <2>1, <2>3
  <2> QED
    BY <1>0, <2>1, <2>2, <2>3 DEF TransInv, LatestUntil
<1>3. CASE FetchTransmission
  <2>1. /\ UNCHANGED <<now, heads, solids, transmissionDetails, skipping, tdLastCheckedAt>>
        /\ spent' = spent
    BY <1>3 DEF FetchTransmission, aggVars, Goto
  <2>2. Source' = Source
    BY <2>1 DEF Source
  <2>3. ASSUME ~Skip(fetched')
        PROVE  fetched'.n = Len(Source)
    BY <1>3, <2>3, FetchedIsLatest
  <2>4. transmissionDetails.n <= Len(Source)
    BY DEF TransInv
  <2> QED
    BY <1>0, <2>1, <2>2, <2>3, <2>4 DEF TransInv, LatestUntil
<1>4. CASE StoreTransmission
  <2>1. /\ pc["transmissions"] = "store" /\ pc'["transmissions"] = "idle"
        /\ tdLastCheckedAt' = now /\ skipping' = Skip(fetched)
        /\ transmissionDetails' = IF Skip(fetched) THEN transmissionDetails ELSE fetched
        /\ UNCHANGED <<now, heads, solids>>
    BY <1>0, <1>4 DEF StoreTransmission, Return, aggVars
  <2>2. Source' = Source
    BY <2>1 DEF Source
  <2>3. CASE Skip(fetched)
    BY <1>0, <2>1, <2>2, <2>3 DEF TransInv
  <2>4. CASE ~Skip(fetched)
    <3>1. fetched.n <= Len(Source)
          /\ (fetched.n < Len(Source) => Source[fetched.n + 1] >= now - spent["transmissions"])
      BY <2>1, <2>4 DEF TransInv, LatestUntil
    <3>2. ASSUME fetched.n < Len(Source) PROVE Source[fetched.n + 1] >= now - MaxUpdate
      <4>1. fetched.n + 1 \in 1..Len(Source)
        BY <1>0, <3>2
      <4>2. PICK at \in Nat : at = Source[fetched.n + 1]
        BY <1>0, <4>1
      <4> QED
        BY <1>0, <3>1, <3>2, <4>2
    <3>3. transmissionDetails' = fetched /\ tdLastCheckedAt' # 0
      BY <1>0, <2>1, <2>4
    <3>4. LatestUntil(transmissionDetails.n, tdLastCheckedAt - MaxUpdate)'
      BY <2>1, <2>2, <3>1, <3>2, <3>3 DEF LatestUntil
    <3> QED
      BY <1>0, <2>1, <2>2, <3>1, <3>3, <3>4 DEF TransInv
  <2> QED
    BY <2>3, <2>4
<1>5. CASE TransAside
  <2>1. Source' = Source
    BY <1>5 DEF TransAside, Source
  <2> QED
    BY <1>0, <1>5, <2>1 DEF TransAside, tCached, TransInv, LatestUntil, Skip, ZeroAnswer
<1> QED
  BY TransStepKinds, <1>1, <1>2, <1>3, <1>4, <1>5

\* The invariant of the transmissions cache.
LEMMA TransInvariance == AnswersTell => (Spec => []TransInv)
<1> SUFFICES ASSUME AnswersTell PROVE Spec => []TransInv
  OBVIOUS
<1>1. Init => TransInv
  BY DEF Init, AggInit, PollInit, NewTransmissionsCache, NoTransmission, TransInv,
         LatestUntil, Source, Caches
<1>2. TypeOK /\ TransInv /\ [Next]_vars => TransInv'
  BY StepTrans
<1> QED
  BY <1>1, <1>2, ProviderTypeCorrect, PTL DEF Spec

\* The cache never holds a transmission that is not in a block, although the full
\* node shows pending ones as if they had been executed.
THEOREM NothingPendingCached == AnswersTell => (Spec => []NoPhantomTransmission)
<1> SUFFICES ASSUME AnswersTell PROVE Spec => []NoPhantomTransmission
  OBVIOUS
<1>1. TypeOK /\ TransInv => NoPhantomTransmission
  BY TransFacts DEF TransInv, Source, NoPhantomTransmission
<1> QED
  BY <1>1, TransInvariance, ProviderTypeCorrect, PTL

\* What is served was the latest within the TTL and one update.
LEMMA ServedIsRecent ==
    ASSUME TypeOK, TransInv, TransmissionServed, ~skipping,
           transmissionDetails.n < Len(Source)
    PROVE  /\ Source[transmissionDetails.n + 1] \in Nat
           /\ Source[transmissionDetails.n + 1] + (TTL + MaxUpdate) >= now
<1>1. /\ now \in Nat /\ tdLastCheckedAt \in Nat /\ TTL \in Nat /\ MaxUpdate \in Nat
      /\ transmissionDetails.n \in Nat
      /\ Len(Source) \in Nat /\ \A i \in 1..Len(Source) : Source[i] \in Nat
  BY TransFacts, SourceFacts
<1>2. tdLastCheckedAt # 0 /\ now - tdLastCheckedAt <= TTL
  BY <1>1 DEF TransmissionServed, Stale
<1>3. transmissionDetails.n + 1 \in 1..Len(Source)
  BY <1>1
<1>4. PICK at \in Nat : at = Source[transmissionDetails.n + 1]
  BY <1>1, <1>3
<1>5. at >= tdLastCheckedAt - MaxUpdate
  BY <1>2, <1>4 DEF TransInv, LatestUntil
<1> QED
  BY <1>1, <1>2, <1>4, <1>5

\* With a client that asks the full node, and answers other than zero, a read that
\* returns no error returns the transmission the full node had last included within
\* the TTL and one update, unless the last update was skipped.
THEOREM TransmissionsAreFresh ==
    ~Validated /\ ZeroAnswers = {} => (Spec => []TransmissionsFresh)
<1> SUFFICES ASSUME ~Validated, ZeroAnswers = {} PROVE Spec => []TransmissionsFresh
  OBVIOUS
<1>1. AnswersTell
  BY DEF AnswersTell
<1>2. ASSUME TypeOK, TransInv PROVE TransmissionsFresh
  <2> SUFFICES ASSUME TransmissionServed, ~skipping, transmissionDetails.n < Len(heads)
               PROVE  heads[transmissionDetails.n + 1] + TTL + MaxUpdate >= now
    BY <1>2, TransFacts DEF TransmissionsFresh, Recent
  <2>1. Source = heads
    BY DEF Source
  <2>2. PICK at \in Nat : at = heads[transmissionDetails.n + 1] /\ at + (TTL + MaxUpdate) >= now
    BY <1>2, <2>1, ServedIsRecent
  <2> QED
    BY <1>2, <2>2, TransFacts
<1> QED
  BY <1>1, <1>2, TransInvariance, ProviderTypeCorrect, PTL

\* The freshness that the abstract cache asks for.
LEMMA TransmissionTtlFresh ==
    TypeOK /\ TransInv /\ TransmissionServed /\ ~skipping => TransmissionTtl!Fresh
  BY ServedIsRecent DEF TransmissionTtl!Fresh

\* Every step of the provider is a step of the abstract cache of transmissions.
LEMMA TransmissionTtlStep ==
    ASSUME TypeOK, TransInv, [Next]_vars, TypeOK', TransInv'
    PROVE  [TransmissionTtl!Next]_(TransmissionTtl!ttlVars)
<1>0. /\ now \in Nat /\ tdLastCheckedAt \in Nat /\ TTL \in Nat /\ skipping \in BOOLEAN
      /\ transmissionDetails.n \in Nat /\ fetched.n \in Nat /\ Len(Source) \in Nat
      /\ "transmissions" \in Caches /\ pc \in [Caches -> Steps]
  BY TransFacts, SourceFacts
<1>f. (TransmissionServed /\ ~skipping)' => TransmissionTtl!Fresh'
  <2>1. (TypeOK /\ TransInv /\ TransmissionServed /\ ~skipping => TransmissionTtl!Fresh)'
    BY TransmissionTtlFresh, PTL
  <2> QED
    BY <2>1
<1>1. CASE ChainStep
  <2>1. SourceGrows
    BY <1>1, ChainGrows DEF TransInv
  <2>2. UNCHANGED <<now, transmissionDetails, skipping, tdLastCheckedAt>>
    BY <1>1 DEF ChainStep, Transmit, IncludeTransmission, SolidifyTransmission,
                cacheFrame, transVars
  <2>3. TransmissionServed' = TransmissionServed
    BY <2>2 DEF TransmissionServed, Stale
  <2>4. TransmissionTtl!Publish
    BY <1>0, <2>1, <2>2, <2>3 DEF SourceGrows, TransmissionTtl!Publish
  <2> QED
    BY <1>f, <2>4 DEF TransmissionTtl!Next
<1>2. CASE Tick /\ UNCHANGED cacheFrame
  <2>1. /\ now' = now + 1 /\ Source' = Source
        /\ UNCHANGED <<transmissionDetails, skipping, tdLastCheckedAt>>
    BY <1>2 DEF Tick, cacheFrame, transVars, Source
  <2>2. TransmissionServed' => TransmissionServed
    BY <1>0, <2>1 DEF TransmissionServed, Stale
  <2>3. TransmissionTtl!Pass
    BY <1>0, <2>1, <2>2 DEF TransmissionTtl!Pass
  <2> QED
    BY <1>f, <2>3 DEF TransmissionTtl!Next
<1>3. CASE FetchTransmission \/ TransAside
  <2>1. UNCHANGED <<now, heads, solids, transmissionDetails, skipping, tdLastCheckedAt>>
    BY <1>3 DEF FetchTransmission, TransAside, tCached, aggVars
  <2> QED
    BY <2>1 DEF TransmissionTtl!ttlVars, Source, TransmissionServed, Stale
<1>4. CASE StoreTransmission
  <2>1. /\ pc["transmissions"] = "store"
        /\ transmissionDetails' = IF Skip(fetched) THEN transmissionDetails ELSE fetched
        /\ now' = now /\ Source' = Source
    BY <1>4 DEF StoreTransmission, aggVars, Source
  <2>2. transmissionDetails'.n \in transmissionDetails.n..Len(Source)
    BY <1>0, <2>1 DEF TransInv, LatestUntil
  <2>3. (TransmissionServed /\ ~skipping)' \in BOOLEAN
    OBVIOUS
  <2>4. TransmissionTtl!Refresh
    BY <2>1, <2>2, <2>3 DEF TransmissionTtl!Refresh
  <2> QED
    BY <1>f, <2>4 DEF TransmissionTtl!Next
<1> QED
  BY TransStepKinds, <1>1, <1>2, <1>3, <1>4

\* The transmissions cache implements the abstract cache over what the node it asks
\* has included, whichever client it uses, for every TTL, every duration of an update
\* and every failure.
THEOREM TransmissionsCacheServes == AnswersTell => (Spec => ServesTransmissions)
<1> SUFFICES ASSUME AnswersTell PROVE Spec => ServesTransmissions
  OBVIOUS
<1>1. Init => TransmissionTtl!Init
  BY DEF Init, AggInit, NewTransmissionsCache, NoTransmission, TransmissionTtl!Init, Source,
         TransmissionServed, Stale
<1>2. TypeOK /\ TransInv /\ [Next]_vars /\ TypeOK' /\ TransInv'
         => [TransmissionTtl!Next]_(TransmissionTtl!ttlVars)
  BY TransmissionTtlStep
<1> QED
  BY <1>1, <1>2, ProviderTypeCorrect, TransInvariance, PTL
     DEF Spec, ServesTransmissions, TransmissionTtl!Spec
=============================================================================
