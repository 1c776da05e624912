------------------------ MODULE MedianProviderProofs ------------------------
(***************************************************************************)
(* Invariance proofs for MedianProvider: type correctness, and that the    *)
(* goroutines of the two caches conflict on the ABI map only after a query *)
(* for the ABI has failed.                                                 *)
(***************************************************************************)
EXTENDS MedianProvider, SequenceTheorems, TLAPS

USE AggregatorAssumption, PollerAssumption, CacheAssumption, ProviderAssumption

\* The initial state is well typed.
LEMMA InitType == Init => TypeOK
<1> SUFFICES ASSUME Init PROVE TypeOK
  OBVIOUS
<1>1. AggTypeOK
  <2>1. <<>> \in Seq(ConfigSet) /\ <<>> \in Seq(Nat)
    BY EmptySeq
  <2>2. 1 \in 1..MaxTime /\ 0 \in 0..MaxBlock /\ 0 \in 0..MaxFaults
    OBVIOUS
  <2> QED
    BY <2>1, <2>2 DEF Init, AggInit, AggTypeOK
<1>2. PollTypeOK
  <2>1. 0 \in 0..MaxUpdate
    OBVIOUS
  <2> QED
    BY <2>1 DEF Init, PollInit, PollTypeOK, Modes, Steps
<1>3. ConfigTypeOK
  BY DEF Init, NewContractCache, ConfigTypeOK, NoDetails, Details
<1>4. TransTypeOK
  BY DEF Init, NewTransmissionsCache, TransTypeOK, NoTransmission, Transmission
<1> QED
  BY <1>1, <1>2, <1>3, <1>4 DEF Init, TypeOK

\* A block appends well-formed events, all with its own number and the time.
LEMMA NewBlockType ==
    ASSUME AggTypeOK, NEW b \in Blocks, NewBlock(b)
    PROVE  /\ AggTypeOK'
           /\ Len(sets') = Len(sets) + Len(b)
           /\ \A i \in 1..Len(sets) : sets'[i] = sets[i]
           /\ \A i \in Len(sets)+1..Len(sets') :
                 sets'[i].block = height + 1 /\ sets'[i].at = now
<1> DEFINE new == [i \in 1..Len(b) |->
                      [block |-> height + 1, direct |-> b[i], at |-> now]]
<1>1. b \in Seq(BOOLEAN) /\ Len(b) \in Nat
  OBVIOUS
<1>2. height + 1 \in Nat /\ now \in Nat /\ height + 1 \in 0..MaxBlock
  BY DEF AggTypeOK, NewBlock
<1>3. new \in Seq(ConfigSet) /\ Len(new) = Len(b)
  <2>1. \A i \in 1..Len(b) : b[i] \in BOOLEAN
    BY <1>1
  <2>2. \A i \in 1..Len(b) : new[i] \in ConfigSet
    BY <2>1, <1>2 DEF ConfigSet
  <2> QED
    BY <2>2, <1>1
<1>4. sets \in Seq(ConfigSet) /\ sets' = sets \o new
  BY DEF AggTypeOK, NewBlock
<1> HIDE DEF new
<1>5. sets' \in Seq(ConfigSet) /\ Len(sets') = Len(sets) + Len(b)
  BY <1>1, <1>3, <1>4, ConcatProperties
<1>6. AggTypeOK'
  BY <1>2, <1>5 DEF AggTypeOK, NewBlock
<1>7. \A i \in 1..Len(sets) : sets'[i] = sets[i]
  BY <1>3, <1>4
<1>8. ASSUME NEW i \in Len(sets)+1..Len(sets')
      PROVE  sets'[i].block = height + 1 /\ sets'[i].at = now
  <2>1. sets'[i] = new[i - Len(sets)] /\ i - Len(sets) \in 1..Len(b)
    BY <1>3, <1>4, <1>5
  <2> QED
    BY <2>1 DEF new
<1> QED
  BY <1>5, <1>6, <1>7, <1>8

\* What the readers return is well typed.
LEMMA ReaderTypes ==
    ASSUME AggTypeOK
    PROVE  /\ LatestConfigDetails \in Details
           /\ TriggerConstantContractFullNode \in Transmission
           /\ \A b, lost : ConfigFromEventAt(b, lost) \subseteq Nat
<1>1. LatestConfigDetails \in Details
  <2>1. Len(sets) \in Nat /\ (Len(sets) # 0 => sets[Len(sets)] \in ConfigSet)
    BY DEF AggTypeOK
  <2> QED
    BY <2>1 DEF LatestConfigDetails, DetailsAfter, NoDetails, Details, ConfigSet
<1>2. TriggerConstantContractFullNode \in Transmission
  BY DEF AggTypeOK, TriggerConstantContractFullNode, SolidTransmission,
         HeadTransmission, Transmission
<1>3. DOMAIN sets \subseteq Nat
  BY DEF AggTypeOK
<1>4. \A b, lost : ConfigFromEventAt(b, lost) \subseteq Nat
  BY <1>3 DEF ConfigFromEventAt
<1> QED
  BY <1>1, <1>2, <1>4

\* The steps of the contract and of the nodes, faults included, are well typed.
LEMMA AggStepType ==
    ASSUME AggTypeOK
    PROVE  /\ AggNext => AggTypeOK'
           /\ \A kind : Fault(kind) => AggTypeOK'
           /\ \A lost : LoseInfos(lost) => AggTypeOK'
           /\ UNCHANGED aggVars => AggTypeOK'
<1>1. UNCHANGED aggVars => AggTypeOK'
  BY DEF aggVars, AggTypeOK
<1>2. ASSUME NEW kind, Fault(kind) PROVE AggTypeOK'
  BY <1>2 DEF Fault, AggTypeOK
<1>3. ASSUME NEW lost, LoseInfos(lost) PROVE AggTypeOK'
  BY <1>1, <1>2, <1>3 DEF LoseInfos
<1>4. ASSUME NEW b \in Blocks, NewBlock(b) PROVE AggTypeOK'
  BY <1>4, NewBlockType
<1>5. ASSUME Transmit PROVE AggTypeOK'
  BY <1>5 DEF Transmit, AggTypeOK
<1>6. ASSUME IncludeTransmission PROVE AggTypeOK'
  <2>1. heads \in Seq(Nat) /\ now \in Nat
    BY DEF AggTypeOK
  <2>2. Append(heads, now) \in Seq(Nat)
    BY <2>1
  <2> QED
    BY <1>6, <2>1, <2>2 DEF IncludeTransmission, AggTypeOK
<1>7. ASSUME SolidifyTransmission PROVE AggTypeOK'
  BY <1>7 DEF SolidifyTransmission, AggTypeOK
<1>8. AggNext => AggTypeOK'
  BY <1>4, <1>5, <1>6, <1>7 DEF AggNext
<1> QED
  BY <1>1, <1>2, <1>3, <1>8

\* The control steps that the two caches share are well typed.
LEMMA PollStepType ==
    ASSUME PollTypeOK, NEW c \in Caches
    PROVE  /\ \A p \in Steps : Goto(c, p) => PollTypeOK'
           /\ Return(c) => PollTypeOK'
           /\ UNCHANGED pollVars => PollTypeOK'
<1>1. 0 \in 0..MaxUpdate
  OBVIOUS
<1> QED
  BY <1>1 DEF PollTypeOK, Goto, Return, pollVars, Steps

\* The steps of getContractABI are well typed.
LEMMA GetAbiType ==
    ASSUME AggTypeOK, PollTypeOK, NEW c \in Caches, GetAbi(c)
    PROVE  AggTypeOK' /\ PollTypeOK'
<1>1. CASE LookupAbi(c)
  BY <1>1, AggStepType, PollStepType DEF LookupAbi, Steps
<1>2. CASE GetContract(c)
  BY <1>2, AggStepType, PollStepType DEF GetContract, Steps
<1>3. CASE GetContractFails(c)
  <2>1. 0 \in 0..MaxUpdate
    OBVIOUS
  <2> QED
    BY <1>3, <2>1, AggStepType DEF GetContractFails, PollTypeOK, Steps
<1>4. CASE WriteAbi(c)
  BY <1>4, AggStepType DEF WriteAbi, PollTypeOK, Steps
<1>5. CASE LookupAbiForEvents(c)
  BY <1>5, AggStepType, PollStepType DEF LookupAbiForEvents, Steps
<1> QED
  BY <1>1, <1>2, <1>3, <1>4, <1>5 DEF GetAbi

\* updateConfig is well typed.
LEMMA UpdateConfigType ==
    ASSUME TypeOK, updateConfig
    PROVE  AggTypeOK' /\ PollTypeOK' /\ ConfigTypeOK'
<1> USE DEF TypeOK
<1>0. "config" \in Caches /\ NoDetails \in Details /\ now \in Nat /\ height \in Nat
  BY DEF Caches, NoDetails, Details, AggTypeOK
<1>1. CASE GetAbi("config") /\ UNCHANGED configVars
  BY <1>0, <1>1, GetAbiType DEF configVars, ConfigTypeOK
<1>2. CASE FetchDetails
  BY <1>0, <1>2, AggStepType, PollStepType, ReaderTypes
     DEF FetchDetails, cached, ConfigTypeOK, Steps
<1>3. ASSUME UpdateConfigFails PROVE PollTypeOK' /\ ConfigTypeOK'
  BY <1>0, <1>3, PollStepType DEF UpdateConfigFails, ForgetConfigLocals, cached, ConfigTypeOK
<1>4. CASE FetchConfig
  <2>1. PICK lost : /\ LoseInfos(lost)
                    /\ \/ /\ newConfig' \in ConfigFromEventAt(details.block, lost)
                          /\ Goto("config", "height")
                          /\ UNCHANGED <<cached, details, newHeight>>
                       \/ UpdateConfigFails
    BY <1>4 DEF FetchConfig
  <2> QED
    BY <1>0, <1>3, <2>1, AggStepType, PollStepType, ReaderTypes DEF cached, ConfigTypeOK, Steps
<1>5. CASE FetchHeight
  BY <1>0, <1>5, AggStepType, PollStepType DEF FetchHeight, cached, ConfigTypeOK, Steps
<1>6. CASE StoreConfig
  BY <1>0, <1>6, AggStepType, PollStepType
     DEF StoreConfig, ForgetConfigLocals, ConfigTypeOK, Details
<1>7. CASE ConfigRpcFails
  BY <1>3, <1>7, AggStepType DEF ConfigRpcFails
<1> QED
  BY <1>1, <1>2, <1>4, <1>5, <1>6, <1>7 DEF updateConfig

\* updateTransmission is well typed.
LEMMA UpdateTransmissionType ==
    ASSUME TypeOK, updateTransmission
    PROVE  AggTypeOK' /\ PollTypeOK' /\ TransTypeOK'
<1> USE DEF TypeOK
<1>0. "transmissions" \in Caches /\ NoTransmission \in Transmission /\ now \in Nat
  BY DEF Caches, NoTransmission, Transmission, AggTypeOK
<1>1. CASE GetAbi("transmissions") /\ UNCHANGED transVars
  BY <1>0, <1>1, GetAbiType DEF transVars, TransTypeOK
<1>2. CASE FetchTransmission
  BY <1>0, <1>2, AggStepType, PollStepType, ReaderTypes DEF FetchTransmission, TransTypeOK,
                                                              Steps
<1>3. CASE StoreTransmission
  <2>1. Skip(fetched) \in BOOLEAN
    BY DEF Skip, ZeroAnswer, TransTypeOK, Transmission
  <2> QED
    BY <1>0, <1>3, <2>1, AggStepType, PollStepType DEF StoreTransmission, TransTypeOK
<1>4. CASE TransmissionRpcFails
  BY <1>0, <1>4, AggStepType, PollStepType DEF TransmissionRpcFails, transVars, TransTypeOK
<1> QED
  BY <1>1, <1>2, <1>3, <1>4 DEF updateTransmission

\* Every step of the provider is well typed.
LEMMA StepType == TypeOK /\ [Next]_vars => TypeOK'
<1> SUFFICES ASSUME TypeOK, [Next]_vars PROVE TypeOK'
  OBVIOUS
<1> USE DEF TypeOK
<1>0. "config" \in Caches /\ "transmissions" \in Caches
  BY DEF Caches
<1>1. /\ UNCHANGED configVars => ConfigTypeOK'
      /\ UNCHANGED transVars => TransTypeOK'
      /\ UNCHANGED aggVars => AggTypeOK'
  BY AggStepType DEF configVars, ConfigTypeOK, transVars, TransTypeOK
<1>2. CASE Start \/ Close \/ providerSteps
  <2>1. UNCHANGED <<aggVars, configVars, transVars>> /\ UNCHANGED <<spent, abi, abiFailed>>
    BY <1>2 DEF Start, Close, providerSteps, ConfigCacheStarted, TransmissionsCacheStarted,
                ConfigCacheClosed, TransmissionsCacheClosed, lifeFrame
  <2>2. /\ mode' \in [Caches -> Modes]
        /\ pc' \in [Caches -> Steps]
        /\ provider' \in {"new", "starting", "started", "closing", "closed"}
    BY <1>0, <1>2 DEF Start, Close, providerSteps, ConfigCacheStarted,
                TransmissionsCacheStarted, ConfigCacheClosed, TransmissionsCacheClosed,
                PollTypeOK, Modes, Steps
  <2> QED
    BY <1>1, <2>1, <2>2 DEF PollTypeOK
<1>3. CASE configStep
  BY <1>1, <1>3, UpdateConfigType DEF configStep, configFrame
<1>4. CASE transStep
  BY <1>1, <1>4, UpdateTransmissionType DEF transStep, transFrame
<1>5. ASSUME NEW c \in Caches, polls(c) PROVE TypeOK'
  BY <1>1, <1>5, PollStepType DEF polls, PollTick, cacheFrame, Steps
<1>6. ASSUME NEW c \in Caches, stops(c) PROVE TypeOK'
  BY <1>1, <1>6 DEF stops, PollStops, cacheFrame, PollTypeOK, Modes
<1>7. CASE AggNext /\ UNCHANGED <<pollVars, cacheFrame>>
  BY <1>0, <1>1, <1>7, AggStepType, PollStepType DEF cacheFrame
<1>8. CASE Tick /\ UNCHANGED cacheFrame
  <2>1. now' \in 1..MaxTime
    BY <1>8 DEF Tick, AggTypeOK
  <2>2. spent' \in [Caches -> 0..MaxUpdate]
    BY <1>8 DEF Tick, PollTypeOK, Idle
  <2> QED
    BY <1>1, <1>8, <2>1, <2>2 DEF Tick, cacheFrame, AggTypeOK, PollTypeOK
<1>9. CASE UNCHANGED vars
  BY <1>0, <1>1, <1>9, PollStepType DEF vars
<1> QED
  BY <1>2, <1>3, <1>4, <1>5, <1>6, <1>7, <1>8, <1>9 DEF Next

\* Every reachable state of the provider and its caches is well typed.
THEOREM ProviderTypeCorrect == Spec => []TypeOK
  BY InitType, StepType, PTL DEF Spec
-----------------------------------------------------------------------------
(* The ABI map *)

\* An update that is past the lookup has found or written the ABI.
AbiKnown == \A c \in Caches : pc[c] \in {"call", "lookupEvents", "events", "height",
                                        "store"} => abi

\* Why the goroutines conflict only after a failure: the first update ends with
\* the ABI or with a failed query, the second cache starts after it, and without
\* a failed query nobody misses the ABI from then on.
AbiFirst ==
    /\ mode["transmissions"] = "new" => pc["transmissions"] = "idle"
    /\ mode["config"] # "new" /\ pc["config"] = "idle" => abi \/ abiFailed
    /\ mode["transmissions"] # "new" /\ ~abiFailed =>
          abi /\ \A c \in Caches : pc[c] \notin {"getContract", "writeAbi"}

\* What StartStopOnce has run, against the life of the caches.
Started ==
    /\ provider # "new" => mode["config"] # "new"
    /\ mode["transmissions"] # "new" => mode["config"] # "new"
    /\ Median /\ provider \in {"started", "closing", "closed"} =>
          mode["transmissions"] # "new"

AbiInv == AbiKnown /\ AbiFirst /\ Started

\* The steps of one cache preserve the invariant of the ABI map.
LEMMA AbiUpdate ==
    ASSUME TypeOK, AbiInv, NEW c \in Caches, mode' = mode, provider' = provider,
           \/ GetAbi(c)
           \/ /\ pc[c] \in {"call", "events", "height", "store"}
              /\ \E p \in {"idle", "lookupEvents", "events", "height", "store"} :
                    pc' = [pc EXCEPT ![c] = p]
              /\ abi' = abi /\ abiFailed' = abiFailed
    PROVE  AbiInv'
<1>1. pc \in [Caches -> Steps] /\ abi \in BOOLEAN /\ abiFailed \in BOOLEAN
  BY DEF TypeOK, PollTypeOK
<1>2. "config" \in Caches /\ "transmissions" \in Caches
  BY DEF Caches
<1> USE <1>1, <1>2 DEF AbiInv, AbiKnown, AbiFirst, Started
<1>3. CASE LookupAbi(c)
  BY <1>3 DEF LookupAbi, Goto
<1>4. CASE GetContract(c)
  BY <1>4 DEF GetContract, Goto
<1>5. CASE GetContractFails(c)
  BY <1>5 DEF GetContractFails
<1>6. CASE WriteAbi(c)
  BY <1>6 DEF WriteAbi
<1>7. CASE LookupAbiForEvents(c)
  BY <1>7 DEF LookupAbiForEvents, Goto
<1>8. CASE /\ pc[c] \in {"call", "events", "height", "store"}
           /\ \E p \in {"idle", "lookupEvents", "events", "height", "store"} :
                 pc' = [pc EXCEPT ![c] = p]
           /\ abi' = abi /\ abiFailed' = abiFailed
  BY <1>8
<1> QED
  BY <1>3, <1>4, <1>5, <1>6, <1>7, <1>8 DEF GetAbi

\* Every step preserves the invariant of the ABI map.
LEMMA StepAbi == TypeOK /\ AbiInv /\ [Next]_vars => AbiInv'
<1> SUFFICES ASSUME TypeOK, AbiInv, [Next]_vars PROVE AbiInv'
  OBVIOUS
<1>0. /\ "config" \in Caches /\ "transmissions" \in Caches /\ "config" # "transmissions"
      /\ pc \in [Caches -> Steps] /\ mode \in [Caches -> Modes]
      /\ Caches = {"config", "transmissions"}
  BY DEF TypeOK, PollTypeOK, Caches
<1>1. UNCHANGED <<mode, pc, abi, abiFailed, provider>> => AbiInv'
  BY DEF AbiInv, AbiKnown, AbiFirst, Started
<1>2. CASE Start \/ Close \/ providerSteps
  <2> USE <1>0 DEF AbiInv, AbiKnown, AbiFirst, Started, lifeFrame, Idle
  <2>1. CASE Start
    BY <2>1 DEF Start
  <2>2. CASE Close
    BY <2>2 DEF Close
  <2>3. CASE ConfigCacheStarted
    BY <2>3 DEF ConfigCacheStarted
  <2>4. CASE TransmissionsCacheStarted
    BY <2>4 DEF TransmissionsCacheStarted
  <2>5. CASE ConfigCacheClosed
    BY <2>5 DEF ConfigCacheClosed
  <2>6. CASE TransmissionsCacheClosed
    BY <2>6 DEF TransmissionsCacheClosed
  <2> QED
    BY <1>2, <2>1, <2>2, <2>3, <2>4, <2>5, <2>6 DEF providerSteps
<1>3. CASE configStep
  <2>0. provider' = provider
    BY <1>3 DEF configStep, configFrame
  <2>1. CASE GetAbi("config")
    BY <1>0, <2>0, <2>1, AbiUpdate DEF GetAbi, LookupAbi, GetContract, GetContractFails,
                                 WriteAbi, LookupAbiForEvents, Goto
  <2>2. CASE FetchDetails \/ FetchConfig \/ FetchHeight \/ StoreConfig \/ ConfigRpcFails
    <3>1. /\ mode' = mode /\ abi' = abi /\ abiFailed' = abiFailed
          /\ pc["config"] \in {"call", "events", "height", "store"}
          /\ \E p \in {"idle", "lookupEvents", "events", "height", "store"} :
                pc' = [pc EXCEPT !["config"] = p]
      BY <2>2 DEF FetchDetails, FetchConfig, FetchHeight, StoreConfig, ConfigRpcFails,
                  UpdateConfigFails, Goto, Return
    <3> QED
      BY <1>0, <2>0, <3>1, AbiUpdate
  <2> QED
    BY <1>3, <2>1, <2>2 DEF configStep, updateConfig
<1>4. CASE transStep
  <2>0. provider' = provider
    BY <1>4 DEF transStep, transFrame
  <2>1. CASE GetAbi("transmissions")
    BY <1>0, <2>0, <2>1, AbiUpdate DEF GetAbi, LookupAbi, GetContract, GetContractFails,
                                 WriteAbi, LookupAbiForEvents, Goto
  <2>2. CASE FetchTransmission \/ StoreTransmission \/ TransmissionRpcFails
    <3>1. /\ mode' = mode /\ abi' = abi /\ abiFailed' = abiFailed
          /\ pc["transmissions"] \in {"call", "events", "height", "store"}
          /\ \E p \in {"idle", "lookupEvents", "events", "height", "store"} :
                pc' = [pc EXCEPT !["transmissions"] = p]
      BY <2>2 DEF FetchTransmission, StoreTransmission, TransmissionRpcFails, Goto, Return
    <3> QED
      BY <1>0, <2>0, <3>1, AbiUpdate
  <2> QED
    BY <1>4, <2>1, <2>2 DEF transStep, updateTransmission
<1>5. ASSUME NEW c \in Caches, polls(c) PROVE AbiInv'
  <2>1. /\ mode[c] \in {"polling", "stopping"} /\ pc' = [pc EXCEPT ![c] = "lookup"]
        /\ UNCHANGED <<mode, abi, abiFailed, provider>>
    BY <1>5 DEF polls, PollTick, Goto, cacheFrame
  <2> QED
    BY <1>0, <2>1 DEF AbiInv, AbiKnown, AbiFirst, Started
<1>6. ASSUME NEW c \in Caches, stops(c) PROVE AbiInv'
  <2>1. /\ mode[c] = "stopping" /\ mode' = [mode EXCEPT ![c] = "done"]
        /\ UNCHANGED <<pc, abi, abiFailed, provider>>
    BY <1>6 DEF stops, PollStops, cacheFrame
  <2> QED
    BY <1>0, <2>1 DEF AbiInv, AbiKnown, AbiFirst, Started
<1>7. CASE AggNext /\ UNCHANGED <<pollVars, cacheFrame>>
  BY <1>1, <1>7 DEF pollVars, cacheFrame
<1>8. CASE Tick /\ UNCHANGED cacheFrame
  BY <1>1, <1>8 DEF Tick, cacheFrame
<1>9. CASE UNCHANGED vars
  BY <1>1, <1>9 DEF vars, pollVars
<1> QED
  BY <1>2, <1>3, <1>4, <1>5, <1>6, <1>7, <1>8, <1>9 DEF Next

\* The goroutines of the two caches are at conflicting accesses of the ABI map
\* only after a query for the ABI has failed.
THEOREM AbiMapSafe == Spec => []AbiRaceNeedsFailure
<1>1. Init => AbiInv
  BY DEF Init, PollInit, AbiInv, AbiKnown, AbiFirst, Started, Caches
<1>2. Spec => []AbiInv
  BY <1>1, StepAbi, ProviderTypeCorrect, PTL DEF Spec
<1>3. AbiInv => AbiRaceNeedsFailure
  BY DEF AbiInv, AbiFirst, AbiRaceNeedsFailure, ReadsAbi, WritesAbi, Caches
<1> QED
  BY <1>2, <1>3, PTL
=============================================================================
