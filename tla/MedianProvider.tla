--------------------------- MODULE MedianProvider ---------------------------
(***************************************************************************)
(* The OCR2 providers (relayer/ocr2/config_provider.go and                 *)
(* median_provider.go): the caches they start and close, one after the     *)
(* other, over one reader.  StartOnce and StopOnce run the functions once  *)
(* and in this order.                                                      *)
(***************************************************************************)
EXTENDS ContractCache, TransmissionsCache

CONSTANTS Median,   \* TRUE: the median provider, FALSE: the config provider
          MayClose  \* TRUE: the provider may be closed

ASSUME ProviderAssumption == Median \in BOOLEAN /\ MayClose \in BOOLEAN

VARIABLES provider  \* the state of StartStopOnce

vars == <<aggVars, pollVars, configVars, transVars, provider>>

TypeOK ==
    /\ AggTypeOK
    /\ PollTypeOK
    /\ ConfigTypeOK
    /\ TransTypeOK
    /\ provider \in {"new", "starting", "started", "closing", "closed"}

Init ==
    /\ AggInit
    /\ PollInit
    /\ NewContractCache
    /\ NewTransmissionsCache
    /\ provider = "new"

lifeFrame == <<aggVars, configVars, transVars, spent, abi, abiFailed>>

\* Mutant: the poller runs before the first update has ended.
StartPollingFirst ==
    /\ provider = "new"
    /\ provider' = IF Median THEN "starting" ELSE "started"
    /\ mode' = [mode EXCEPT !["config"] = "polling",
                            !["transmissions"] = IF Median THEN "starting" ELSE @]
    /\ pc' = [pc EXCEPT !["transmissions"] = IF Median THEN "lookup" ELSE @]
    /\ UNCHANGED lifeFrame

\* Start of a cache: an update in the caller's goroutine, then the poller.
Start ==
    /\ provider = "new"
    /\ provider' = "starting"
    /\ mode' = [mode EXCEPT !["config"] = "starting"]
    /\ pc' = [pc EXCEPT !["config"] = "lookup"]
    /\ UNCHANGED lifeFrame

ConfigCacheStarted ==
    /\ mode["config"] = "starting"
    /\ Idle("config")
    /\ IF Median
       THEN /\ mode' = [mode EXCEPT !["config"] = "polling",
                                    !["transmissions"] = "starting"]
            /\ pc' = [pc EXCEPT !["transmissions"] = "lookup"]
            /\ UNCHANGED provider
       ELSE /\ mode' = [mode EXCEPT !["config"] = "polling"]
            /\ provider' = "started"
            /\ UNCHANGED pc
    /\ UNCHANGED lifeFrame

TransmissionsCacheStarted ==
    /\ mode["transmissions"] = "starting"
    /\ Idle("transmissions")
    /\ mode' = [mode EXCEPT !["transmissions"] = "polling"]
    /\ provider' = "started"
    /\ UNCHANGED <<lifeFrame, pc>>

\* Mutant: stop is not closed.
CloseWithoutStop ==
    /\ MayClose
    /\ provider = "started"
    /\ provider' = "closing"
    /\ UNCHANGED <<lifeFrame, pc, mode>>

\* Close of a cache: close stop, then wait for the poller.
Close ==
    /\ MayClose
    /\ provider = "started"
    /\ provider' = "closing"
    /\ mode' = [mode EXCEPT !["config"] = "stopping"]
    /\ UNCHANGED <<lifeFrame, pc>>

ConfigCacheClosed ==
    /\ provider = "closing"
    /\ mode["config"] = "done"
    /\ mode["transmissions"] \in {"new", "polling"}
    /\ IF Median
       THEN /\ mode' = [mode EXCEPT !["transmissions"] = "stopping"]
            /\ UNCHANGED provider
       ELSE provider' = "closed" /\ UNCHANGED mode
    /\ UNCHANGED <<lifeFrame, pc>>

TransmissionsCacheClosed ==
    /\ provider = "closing"
    /\ mode["transmissions"] = "done"
    /\ provider' = "closed"
    /\ UNCHANGED <<lifeFrame, pc, mode>>

providerSteps == \/ ConfigCacheStarted \/ TransmissionsCacheStarted
                 \/ ConfigCacheClosed \/ TransmissionsCacheClosed

configFrame == <<transVars, provider>>
transFrame == <<configVars, provider>>
cacheFrame == <<configVars, transVars, provider>>

configStep == updateConfig /\ UNCHANGED configFrame
transStep == updateTransmission /\ UNCHANGED transFrame
polls(c) == PollTick(c) /\ UNCHANGED cacheFrame
stops(c) == PollStops(c) /\ UNCHANGED cacheFrame

Next ==
    \/ Start \/ Close \/ providerSteps
    \/ configStep
    \/ transStep
    \/ \E c \in Caches : polls(c) \/ stops(c)
    \/ AggNext /\ UNCHANGED <<pollVars, cacheFrame>>
    \/ Tick /\ UNCHANGED cacheFrame

Spec == Init /\ [][Next]_vars

\* The goroutines of the provider run, RPCs return, and a select whose stop case
\* stays ready picks it eventually.
Running == IF Median THEN Caches ELSE {"config"}
updates(c) == IF c = "config" THEN configStep ELSE transStep
Fairness ==
    /\ WF_vars(providerSteps)
    /\ \A c \in Running : WF_vars(updates(c)) /\ WF_vars(polls(c)) /\ SF_vars(stops(c))

FairSpec == Spec /\ Fairness
-----------------------------------------------------------------------------
(* The configuration cache *)

\* The last configuration of block b, or of the blocks before it when it has none.
LastIn(b) == CHOOSE k \in 0..Len(sets) :
                 /\ \A i \in 1..k : sets[i].block <= b
                 /\ \A i \in k + 1..Len(sets) : sets[i].block > b

\* The last configuration of a block was set through another contract, where
\* GetEventsFromBlock does not look: one of the same block that it replaced may be
\* the only event found.
Masked(b) == LastIn(b) # 0 /\ ~sets[LastIn(b)].direct

\* The block and digest that LatestConfigDetails and LatestConfig serve were
\* reported together by the contract at the end of the block: the details, the event
\* and the comparison with the cache, three steps of updateConfig, belong together.
\* The exception is a block whose last configuration GetEventsFromBlock does not see.
CachedDetailsReported ==
    Masked(contractConfig.block) \/ contractConfig = DetailsAfter(LastIn(contractConfig.block))

\* A read of the configuration that returns no error returns one of a block whose
\* last configuration was the latest within the TTL and the time of one update,
\* however updates fail.
ConfigFresh ==
    ConfigServed =>
        LET k == LastIn(contractConfig.block)
        IN  k < Len(sets) => sets[k + 1].at + TTL + MaxUpdate >= now

\* The block height served with a configuration is not below the block of the
\* configuration: height and configuration come from different queries.
HeightCoversConfig == contractConfig.block <= blockHeight

ConfigTimes == [i \in 1..Len(sets) |-> sets[i].at]

ConfigTtl == INSTANCE TtlCache WITH
    clock <- now, published <- ConfigTimes, value <- LastIn(contractConfig.block),
    readable <- ConfigServed, Lag <- TTL + MaxUpdate

\* The configuration cache implements the abstract cache: whoever calls
\* LatestConfigDetails and LatestConfig again gets an error or a configuration of a
\* block that is not before the one of the last call, never one that was not set, and
\* never one of a block whose last configuration was replaced longer than the TTL and
\* one update ago.
ServesConfigs == ConfigTtl!Spec
-----------------------------------------------------------------------------
(* The transmissions cache *)

\* LatestTransmissionDetails returns no error.
TransmissionServed == ~Stale(tdLastCheckedAt)

Recent(times, n) == n >= Len(times) \/ times[n + 1] + TTL + MaxUpdate >= now

\* The cache never serves a transmission that is not in a block (the comment on
\* the zero timestamp in updateTransmission).
NoPhantomTransmission == transmissionDetails.n <= Len(heads)

\* A read that returns no error returns the transmission that the full node had
\* last included within the TTL and the time of one update, unless the last
\* update was skipped (the comment on LatestTransmissionDetails in ocr2_reader.go).
TransmissionsFresh ==
    TransmissionServed /\ ~skipping => Recent(heads, transmissionDetails.n)

\* What the node that the client really asks has included.
Source == IF Validated THEN solids ELSE heads

TransmissionTtl == INSTANCE TtlCache WITH
    clock <- now, published <- Source, value <- transmissionDetails.n,
    readable <- TransmissionServed /\ ~skipping, Lag <- TTL + MaxUpdate

\* The transmissions cache implements the abstract cache over the node it asks: a
\* pending, dropped, skipped or failed transmission never takes the epoch that
\* LatestConfigDigestAndEpoch and the median contract read back or ahead.
ServesTransmissions == TransmissionTtl!Spec
-----------------------------------------------------------------------------
(* The reader they share *)

ReadsAbi(c) == pc[c] \in {"lookup", "lookupEvents"}
WritesAbi(c) == pc[c] = "writeAbi"

\* Two goroutines are at conflicting accesses of the ABI map, which makes the Go
\* runtime abort the process, only after a query for the ABI has failed: else
\* Start of the first cache fills the map before the second goroutine exists.
AbiRaceNeedsFailure ==
    \A c, d \in Caches :
        c # d /\ WritesAbi(c) /\ (ReadsAbi(d) \/ WritesAbi(d)) => abiFailed
-----------------------------------------------------------------------------
(* Liveness *)

\* The last configuration can be found: the only direct event of its block,
\* and a block number that GetEventsFromBlock accepts.
Loadable ==
    LET b == LatestConfigDetails.block IN
    sets # <<>> => /\ b <= MaxEventBlock
                   /\ GetEventsFromBlock(b, {}) = {Len(sets)}

\* While the provider runs, the cache catches up with every configuration that
\* can be found, whatever failed before.
ConfigCatchesUp ==
    []<>(provider = "started" /\ Loadable => contractConfig = LatestConfigDetails)

\* Close returns although an update may be running.
ProviderCloses == provider = "closing" ~> provider = "closed"
=============================================================================
