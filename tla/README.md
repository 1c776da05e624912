# Verification of chainlink-tron

TLA+ models of the Chainlink relayer for Tron (`src/relayer`), checked with TLC
on small instances and, for the central results, proved with TLAPS for every
value of the constants. Line numbers refer to `src/relayer`.

## 1. Inventory

| Component | State | Operations | Why it is hard | What makes it correct |
|---|---|---|---|---|
| Transaction store (`txm/txstore.go`, `tx.go`) | per account: maps `pendingTxs`, `unconfirmedTxs`, `confirmedTxs`, `finishedTxs`, index `hashToId`; the shared `TronTx` objects | `OnPending`, `OnBroadcasted`, `OnConfirmed`, `OnErrored`, `OnFatalError`, `OnReorg`, `OnFinalized`, `DeleteFinishedTxs`, `Has`, `GetUnconfirmed`, `GetConfirmed`, `GetStatus` | every operation is atomic, but its callers use several in a row; objects are shared by pointer | a key is in one map, the object's state fits the map, the index is exact |
| Transaction manager (`txm/txm.go`) | `BroadcastChan`, three goroutines, service state | `Enqueue`, `broadcastLoop`, `confirmLoop`, `reapLoop`, `Start`, `Close`, `GetTransactionStatus` | concurrent loops on snapshots taken before slow RPCs; retries, expiration, reorganisations, full channel, crash | one effect per request, true verdicts, bounded retries, every request settles, `Close` returns |
| Fee and serializer (`txm/energy.go`, `seralizer.go`, part of `txm.go`) | `EstimateEnergyEnabled`, `EnergyBumpTimes` of the object | `estimateEnergy`, `ParseLatestEnergyPrice`, `calculateFeeLimit`, `computeRefBlockBytesAndHash`, `BuildTransaction` | `int32` and float arithmetic, fallbacks that hide errors | the fee limit is exact when it fits and grows with bumps; nothing is built for a chain that was not validated |
| Clients (`sdk/`) | `done`, `err` of the chain id validation | RPC wrappers, `validate` | double-checked lock, sticky error | no call reaches a chain that was not validated |
| Reader (`reader/reader.go`) | ABI cache | `CallContract`, `CallContractFullNode`, `GetEventsFromBlock` | the cache is an unlocked map shared by goroutines | no concurrent write |
| OCR2 caches (`ocr2/contract_cache.go`, `transmissions_cache.go`) | cached config and transmission, time of the last check | `updateConfig`, `updateTransmission`, `poll`, readers, `Start`, `Close` | several RPCs per update, TTL, skipped updates | what is returned was on chain together, and not longer ago than the TTL |
| OCR2 readers, transmitter, digester, providers (`ocr2/`) | none | unpack contract results, enqueue transmissions, wire services | start and stop order | - |
| Balance monitor (`monitor/balance.go`) | lazily created client, a gauge per account | `Start`, `Close`, `monitor`, `getReader`, `updateBalances`, `updateProm` | client dropped and recreated, stop in the middle of a pass or beside a tick | falls silent after stop; the gauges catch up after failures |
| Relayer plugin (`plugin/relayer.go`, `cmd/chainlink-tron/main.go`) | the manager, the monitor, the client they share | `NewRelayer` of both, `Start`, `Close` | loops in the middle of RPCs when they are closed | `Close` returns |
| Configuration (`config/`) | the configurations of the chains | `SetFrom`, `SetDefaults`, `validateKeys`, `ValidateConfig`, `SelectRandom` | several files, pointers that may be nil, validation before the defaults | each key once, the last value of each field, nothing nil is dereferenced |
| Keystore adapter, utilities | none | key conversion | - | - |
| gotron-sdk, mocks, test utilities, integration tests | - | - | vendored, generated or test code | - |

The store is shared by the callers of `Enqueue` and by the three loops. The
broadcast loop is fed through `BroadcastChan` by `Enqueue`, by `maybeRetry` and
by `checkFinalized`. The loops reach the network through the full node (block
production, receipts) and the solidity node (finality). The OCR2 transmitter is
a caller of `Enqueue`. The manager and the OCR2 readers share the validating
client; the balance monitor gets the wrapped client of the solidity node.

`PROJECT.json` lists the components with their status and the hazards, each at
the line where it bites, with the properties that would catch it.

## 2. Modules

| Module | Models | Role |
|---|---|---|
| `TxIds` | names: requests, keys, accounts, hashes | shared constants |
| `TxStore` | `txm/txstore.go`, `tx.go` | state and operations of the store |
| `TronNode` | the Tron network, external | what `txm.go` relies on |
| `TronTxm` | `txm/txm.go` | the manager, composed of the two above; properties |
| `TxLifecycle` | `GetTransactionStatus`, as a promise | abstract specification |
| `MCTronTxm` | - | values of the constants for TLC |
| `TronTxmProofs` | - | inductive invariant and safety theorems |
| `LifecycleProofs` | - | refinement and reaping theorems |
| `ChainProofs` | - | what happened on chain: one effect, true verdicts; builds and stranded objects |
| `Aggregator` | the OCR2 aggregator contract and its nodes, external; `ocr2/ocr2_reader.go`, `reader/reader.go` | what the readers return |
| `CachePoller` | what the two OCR2 caches share: poller, clock, ABI map of the reader | process skeleton |
| `ContractCache` | `ocr2/contract_cache.go` | `updateConfig`, step by step |
| `TransmissionsCache` | `ocr2/transmissions_cache.go` | `updateTransmission`, step by step |
| `MedianProvider` | `ocr2/config_provider.go`, `median_provider.go` | composes the four above; properties |
| `MCMedianProvider` | - | values of the constants for TLC |
| `TtlCache` | what a reader of either OCR2 cache is promised | abstract specification |
| `MedianProviderProofs`, `CacheProofs` | - | type, ABI map, height, details and freshness theorems |
| `TtlCacheProofs` | - | both caches implement `TtlCache`; transmissions |
| `ValidatedClient` | `sdk/combined_client.go` 114-280 | the validating client; properties |
| `FeeLimit` | `txm/energy.go`, `txm.go` 175-268 and 602-640 | an object on its way to a transaction; fee arithmetic |
| `BalanceMonitor` | `monitor/balance.go`, `prom.go` | the polling goroutine |
| `TronRelayer` | `plugin/relayer.go` | composes the three above; properties |
| `TomlConfig` | `config/config.go`, `toml.go` | merging and validation, as operators |
| `PluginRelayer` | `cmd/chainlink-tron/main.go`, `NewRelayer` of `plugin/relayer.go` | from the files to a relayer: composes the two above; properties |
| `MCPluginRelayer` | - | values of the constants for TLC |
| `RelayerProofs` | - | gate and verdict of the client, kept by the composition; fee, build, monitor and plugin theorems |
| `ConfigProofs` | - | merging of files and what a relayer is built from |

`TronTxm`, `MedianProvider` and `TronRelayer`, with `PluginRelayer` around it, are three
specifications of their own. They overlap where the broadcast loop prepares a transaction: `TronTxm` has
it as one step that succeeds or fails, between the store and the network;
`TronRelayer` has its RPCs, its arithmetic and its refusals, and leaves the store
out.

### Names

A *request* is one call of `Enqueue` and the `TronTx` object it creates. A *key*
is an account together with the caller's idempotency key (`TronTx.ID`); as the
account store keeps one `TxStore` per account, a key says which store and which
map entry. The n-th transaction built from object `r` has the *hash* `<<r, n>>`:
`BuildTransaction` puts the current time into the transaction, so a rebuilt
transaction has a new hash. `MaxBuilds` bounds the builds per object. `Account` and
`Id` are the two parts of a key: two accounts may use the same ID.

### TxStore

The maps are functions from keys to an entry or `Nil`. An `InflightTx` is
represented by its hash, which determines the object; the mutable fields of the
objects (`State`, `Attempt`, `OutOfTimeErrors`, `EnergyBumpTimes`) live in the
heap `tx`, because the code mutates objects that several maps, the channel and
the loops point to. Each operation is an action fragment with the guards and
error returns of the Go method; an operation that returns an error changes
nothing. `OnPending(r, TRUE)` of a missing entry dereferences a nil pointer
(`txstore.go:63`): the caller's action then crashes the process. `FinishedTx.aged`
says that the retention period has passed.

### TronNode

`chain[h]` is `none`, `built`, `pool` or the receipt result of an included
transaction. `expired` and `solid` are the transactions whose expiration has
passed and those in solidified blocks. An expired transaction is never included,
and a solidified one never reorganised. Receipt results are grouped as
`checkUnconfirmed` distinguishes them. Faults (failed preparation or signature,
busy or rejecting node, malformed block, no HTTP response, failed query,
reorganisation) happen at any time, at most `MaxFaults` of them and only of the kinds
in `Faults`. `reorged` is history: the transactions that a reorganisation removed.

### TronTxm

Each goroutine is a program counter, and an action is the code between two
points at which others can act.

| Code | Actions |
|---|---|
| `Start`, `Close` | `Start`, `Close`, `CloseReturns` |
| `Enqueue` (123-163) | `EnqueueRejected` (argument errors), `EnqueueCheck` (`Has`), `EnqueueStore` (`OnPending`), `EnqueueSend` (`select` with `default`) |
| `broadcastLoop` (165-227) | `BroadcastReceive`, `PrepareTx`, `PrepareFails`, `PreparePanics` (a block without raw data or with a short id, 235-242), `Broadcasted`, `BroadcastStops` |
| `SignAndBroadcast`, `broadcastTx` (307-359) | `SignTx`, `SignFails`, `SendAccepted`, `SendBusy`, `SendRejected`, `SendPanics` |
| `confirmLoop` (361-387) | `ConfirmTick`, `UnconfirmedChecked`, `FinalizedChecked`, `ConfirmStops` |
| `checkUnconfirmed` (389-467), `maybeRetry` (469-504) | `CollectUnconfirmed`, `GetNowBlock`, `QueryUnconfirmed`, `HandleUnconfirmed` with `HandleResult` and `maybeRetry` (the verdict, or the change of the object), `Retry` (the move of its entry and the send) |
| `checkFinalized` (506-538), `checkReorged` (642-662) | `CollectConfirmed`, `QueryConfirmed`, `CheckReorged` (one per query), `HandleReorg`, `Finalize` |
| `reapLoop` (540-574) | `Age`, `ReapScan`, `ReapDelete`, `ReapStops` |
| `GetTransactionStatus` (576-596) | the operator of that name, over `GetStatusAll` |

`maybeRetry` sets the state of the object to Pending (496) before `OnPending` takes
the lock (497): between `maybeRetry` and `Retry` an entry of the unconfirmed map has
a Pending object, and callers and loops may act. `GetStatusAll(id)` is the set of
states that the lookup may return: the code asks the stores of the accounts in the
order of a Go map, which is random, and takes the first that has the ID.

Two variables are history that no step looks at: `failed`, the objects of which a
broadcast failed, and `misses`, how many queries of `checkReorged` failed for a
transaction that was on the chain.

`SerialEnqueue` is an assumption about callers: when it is TRUE, calls of
`Enqueue` that carry the same key do not overlap in time (they may still follow
each other, also while the first request is being processed). Without it the
manager does not keep its promise; see the finding `find_twice`. A call without
an idempotency key gets a fresh UUID, which is a request with a key of its own.

What is abstracted: the amount of the fee limit and the reference block (see
`FeeLimit`), the parameters of the call, logging, and the length of delays. That a delay is over
is nondeterministic: a tick, an expiration or the end of a retention period can
come at any moment. A tick of the reaper that finds nothing changes nothing and
is not an action.

### TxLifecycle

The statuses a caller can see and the moves between them: `Unknown`, `Pending`,
`Unconfirmed`, and the verdicts `Finalized`, `Failed`, `Fatal`, which change only
by being forgotten. Its variable `answers` has for every ID the set of answers that
a poll may get at that time, and the first promise is that there is one.
`TronTxm` implements it with the answers of an ID mapped to
`GetTransactionStatus(id)`, where no two accounts use the same ID.

### Aggregator

The chain as the OCR2 readers see it. `sets` lists the `ConfigSet` events of the
solidified blocks; the digest of a configuration is its position, 0 the zero
digest. An event is `direct` if its transaction calls the aggregator itself:
`GetEventsFromBlock` only looks at those (`reader.go:203`). A block may hold
several events. Transmissions are numbered: one may be pending, and the full node
shows it as if it had been executed, with the timestamp 0; `heads` and `solids`
say when each was included and solidified. The readers are operators over this
state: `LatestConfigDetails`, `GetEventsFromBlock` with the set of events whose
query failed, `ConfigFromEventAt` with its test for exactly one event and the
`int32` limit on block numbers, and `TriggerConstantContractFullNode` of either
client (`Validated` says which one is used; the relayer uses the validating one).
Faults are of two kinds: `rpc`, a call that returns an error, for whatever reason
(no answer, an ABI value of the wrong type), and `lost`, a failed query for a
transaction of a block, which the code only logs.

### CachePoller, ContractCache, TransmissionsCache, MedianProvider

Each cache has a mode (`new`, `starting`, `polling`, `stopping`, `done`) and a
program counter for its update, which runs first in `Start` and then in `poll`. A
step is the code up to the next RPC or lock; `time.Now` is the variable `now`,
and `spent` is the time since the update began, at most `MaxUpdate` because the
HTTP client gives up on a request.

| Code | Actions |
|---|---|
| `configProvider`, `medianProvider`: `Start`, `Close` | `Start`, `Close`, and as the caches come up and down one after the other `ConfigCacheStarted`, `TransmissionsCacheStarted`, `ConfigCacheClosed`, `TransmissionsCacheClosed` |
| `poll` of both caches | `PollTick`, `PollStops` |
| `getContractABI` (`reader.go:48-62`) | `LookupAbi`, `GetContract`, `GetContractFails`, `WriteAbi`; the second lookup of an update is `LookupAbiForEvents` |
| `updateConfig` (`contract_cache.go:53-90`) | `FetchDetails`, `FetchConfig`, `FetchHeight`, `StoreConfig`, `ConfigRpcFails` |
| `updateTransmission` (`transmissions_cache.go:59-122`) | `FetchTransmission`, `StoreTransmission` with `Skip`, `TransmissionRpcFails` |
| reads with `assertConfigNotStale`, `assertTransmissionsNotStale` | `Stale`, `ConfigServed`, `TransmissionServed` in the properties |

A read changes nothing, so the properties speak of what a read would return in
every state. The jittered poll period is nondeterministic: a tick can come at any
time.

### TtlCache

Versions are published at some time, the cache holds one, a read fails or returns
it. The cache moves forward only, never beyond what is published, and what a
successful read returns was the latest at most `Lag` ago. The configuration cache
implements it with the configurations as versions (`ServesConfigs`), the
transmissions cache with the transmissions that the node asked has included
(`ServesTransmissions`: the head, or the solidified blocks for the validating
client). `Lag` is the TTL and the duration of one update. For the transmissions a
read counts as failed while updates are being skipped: there the code serves an
older transmission on purpose, but still never goes back.

### ValidatedClient

Every caller is a goroutine that calls methods of the client: `Call`,
`CheckDone` (read lock), `Lock` (write lock and second test), `QueryFails` or
`QueryAnswered` while the lock is held, `Forward`. The genesis query may give
another answer every time, because an endpoint may be several nodes.
The getters `SolidityClient()` and `FullNodeClient()` hand out the wrapped clients
without any check; what is asked through them is no step of this module.
A block id of fewer than 8 characters makes the slice at line 151 panic,
which ends the process (`crashed`). `ForwardPanics` is a request whose answer makes
the caller panic.

### FeeLimit

One object from `BroadcastChan` to the transactions built from it.

| Code | Actions |
|---|---|
| `estimateEnergy` (602-640) | `ReceiveTx` (fixed value, or which RPC), `Estimated`, `EstimateUnsupported` (clears `EstimateEnergyEnabled`), `EstimateFails` (falls back to `TriggerConstantContract`) |
| `calculateFeeLimit` (246-268) | `PricesAnswered`, `PricesFail` (default price), the operator `FeeLimit` |
| `computeRefBlockBytesAndHash`, `BuildTransaction` | `BuildTransaction`, `PreparationFails`; the panics are `RefBlockPanics` of `TronRelayer` |
| `maybeRetry` of the confirm loop | `Retry` |

Integers have their width: `Int32` keeps the low bits, as the conversion of the
energy and the product with the price do; `FloatToInt32` drops the fraction, and
out of range it is a set of results, as the Go specification leaves them to the
implementation. `Half` is 2^31 in the code. `Padding[n]` is the multiplier to the
power n+1 as a fraction; with the relayer's 1.5 it is exact in `float64` for as many
bumps as there are attempts. `NewRelayer` sets no fixed energy, so the run has 0; the
proofs are for every value. The test of `BuildTransaction` for the lengths of the
reference block joins its two conditions with `&&` (`seralizer.go:38`), so that it
refuses nothing the manager can pass.

### BalanceMonitor

`MonitorTick` and `MonitorStops` are the two cases of the `select`; a pass is
`NoKeys` or `GetReader`, then for every key `CheckStop` and `GetAccount` with
`NextKey`, which drops the client after a pass without a balance. The keystore is
any sequence of keys, some of which cannot be converted. Faults are a failing
keystore and failing queries. The balances grow by themselves (`Deposit`).

### TronRelayer

`Start` and `Close` of the relayer, then of its services in the order of
`MultiStart` and in any order for `CloseAll`. Every RPC of the broadcast loop is a
call of the validating client by the caller `Broadcaster`: `BroadcastCalls`, the
steps of `validate`, and then either the error of the validation, which the loop
handles as it handles every error of that RPC (`AfterValidation`), or the answer of
the node (`AfterAnswer`). Other goroutines (`others`) use the same client; the
monitor does not. A panic of either ends the process.

### TomlConfig and PluginRelayer

A pointer is a value or `Unset`. `setFromChain` and `setFromNode` are one operator,
`Overlay`; the loops of both `SetFrom` are recursive functions over their rounds, and a
round (`SetNode`, `SetChain`) merges an entry into the first one with its key
(`IndexFunc`) or appends it (`SetEntry`). `validateKeys` and `ValidateConfig`
return errors in the code and are predicates here.

`PluginRelayer` merges the files of a deployment one after the other (`SetFrom`, which
refuses a file whose keys are not unique), then calls the plugin with one of the
merged configurations (`NewRelayer`). The plugin validates it, sets the defaults and
starts an emitter of the configuration; then `BuildRelayer` parses the chain id and
picks a node, or returns an error and leaves the emitter behind. Once there is a
relayer, the steps are those of `TronRelayer` (`Relay`). `UniqueStrings` is external.
What the durations do to the loops is left out; the default poll period of the confirm
loop, 500ms, is cut to 0 seconds by `plugin/relayer.go:76`, so that the loop pauses for
as long as its last pass took. The manager's model has its passes follow each other at
any distance.

## 3. Runs

| Run | Instance | Shows |
|---|---|---|
| `one_request` | 1 request, 2 attempts, all receipt results, one fault of preparing, signing or broadcasting, incl. a malformed block and crashes, `Close` at any time | `AtMostOneSuccess`, `VerdictMatchesChain`, `Settles`, `CloseTerminates` |
| `two_keys` | 2 requests of 2 accounts with different IDs, channel of size 1 | `TypeOK`, `SingleHome`, `SingleBroadcaster`, `ImplementsLifecycle` while sends are dropped |
| `reuse` | 2 requests with one key, one after the other, up to 2 faults, each a reorganisation or a failed query | `HomeMatchesState`, `HashIndexExact`, `SnapshotCurrent`, `StrandedByFailure`, `BuildsBounded`, `NoPanic`, `ReapsOnlyAged`, `ImplementsLifecycle` |
| `ocr_config` | config provider, 2 blocks of three kinds (see Bounds), 4 ticks, TTL 1, updates of 1 tick, 2 faults, `Close` | `TypeOK`, `ConfigFresh`, `HeightCoversConfig`, `CachedDetailsReported`, `ServesConfigs`, `ConfigCatchesUp`, `ProviderCloses` |
| `ocr_transmissions` | median provider on the plain client, 2 transmissions, 4 ticks, TTL 1, updates of 1 tick, 1 fault, `Close` | `NoPhantomTransmission`, `TransmissionsFresh`, `AbiRaceNeedsFailure`, `ServesTransmissions` |
| `relayer` | 3 callers with every kind of answer; an object with 2 attempts and 1 bump, 3 estimates and 3 price lists around the limits of 8 bit integers; 3 keys, 1 of them bad, 2 faults; `Close`; 3 of 7 files in any order | `KeysUnique`, `LastFileWins`, `BuiltFromConfig`, `TypeOK`, `GatedByChainId`, `VerdictSticky`, `CallsReturn`, `BuiltOnMatchingChain`, `FeeLimitExact`, `BumpRaisesFee`, `QuietAfterStop`, `BalancesCatchUp`, `RelayerCloses` |
| `find_unsolid` | no fault | violation of `FinalizedIsSolid` |
| `find_twice` | overlapping calls of `Enqueue` | violation of `SingleBroadcaster` |
| `find_panic` | a broadcast without a response | violation of `NoPanic` |
| `find_rebroadcast` | one failed query | violation of `AtMostOneSuccess` |
| `find_partial` | a block with 2 direct configurations, 1 lost query | violation of `CachedDetailsReported` |
| `find_solid_transmission` | the validating client | violation of `TransmissionsFresh` |

### Properties

- `SingleHome`, `HomeMatchesState`, `HashIndexExact`: the store is consistent in
  every state, not only after each operation on its own. `HomeMatchesState` has one
  exception, the object that `maybeRetry` has made Pending and not yet moved.
- `SingleBroadcaster`: channel and broadcast loop hold one copy of an object at
  most, and only of pending ones.
- `SnapshotCurrent`: what the confirm loop read under the lock is still true when
  it acts on it after its RPCs. The reason is subtle: nobody but the confirm loop
  takes entries out of the unconfirmed and confirmed maps.
- `EnqueueOwnsKey`: when calls with one key do not overlap, the three critical
  sections of `Enqueue` act like one, whatever the loops and the reaper do. It is a
  part of the inductive invariant and is proved, not a property of a run.
- `NoPanic`: no retry dereferences an entry that is gone. It is claimed where every
  broadcast is answered (see `find_panic`) and blocks are well formed: the panics at
  `txm.go:235` and `242` are `PreparePanics`, which `one_request` takes.
- `BuildsBounded`: an object is built once per counted attempt, and once more for each
  of its transactions that a reorganisation removed or that every query of one
  `checkReorged` missed. Nothing else costs a transaction; for faults of
  broadcasting, which `reuse` does not have, this is the theorem.
- `StrandedByFailure`: an object that is pending with nobody to broadcast it had a
  failed broadcast of its own. Neither a reorganisation nor a failed query, nor the
  failure of another object, is an excuse.
- `ReapsOnlyAged`.
- `ImplementsLifecycle`: the answers for an ID follow `TxLifecycle`. `two_keys` checks
  the lookup over several accounts, `reuse` the reuse of an ID. With an ID in two
  accounts a poll has two possible answers, and the one a caller saw may not come
  again; nothing in the repository says that IDs are unique across accounts or that
  they need not be, so this is a condition and not a finding.
- `AtMostOneSuccess`, `VerdictMatchesChain`: a request takes effect at most once
  and the verdict is what happened. Both depend on the order in which the block
  and the receipt are fetched and on queries being answered, and both are claimed
  for runs without failed queries and without reorganisations: the finding
  `find_rebroadcast` shows that a failed query is enough to break the first.
- `Settles`, `CloseTerminates`: liveness.
- `CachedDetailsReported`: the block and the digest that the config cache serves
  were reported together by the contract, although an update asks three times and
  compares with the cache in between. It is claimed as long as no query for a
  transaction of a block fails (see `find_partial`), and for blocks whose last
  configuration was not set through another contract (`Masked`). In such a block a
  configuration of its own may come before: `GetEventsFromBlock` then finds one event
  (`reader.go:203`), `ConfigFromEventAt` accepts it (`ocr2_reader.go:181`), and the
  replaced digest is cached as the one of the block, although nothing failed.
- `ConfigFresh`, `TransmissionsFresh`: what is served without an error was the latest within the TTL and the duration of one update
  (not within the TTL: the time of the check is taken at the end of the update).
  For configurations this is said of their blocks, as a masked one may be served.
  `TransmissionsFresh` excepts the time in which updates are skipped.
- `HeightCoversConfig`, `NoPhantomTransmission`, `AbiRaceNeedsFailure`. The second
  is claimed for answers other than zero: `updateTransmission` takes a zero answer
  with a zero timestamp for the state before the first transmission
  (`transmissions_cache.go:86-88`) and caches it.
- `GatedByChainId`, `VerdictSticky`: a gate that several goroutines open at once,
  with answers that differ, lets nothing through on a wrong chain, and its verdict
  does not change.
- `BuiltOnMatchingChain`: the error of a refused RPC is replaced by a default price,
  and by another way to estimate; still no transaction is built unless the chain id
  matched, because the query for the block, the last one, has no fallback.
- `FeeLimitExact`: three conversions and a wrapping product give the fee limit of
  unbounded integers whenever the energy, the fee and the padded fee fit.
- `BumpRaisesFee`: a bumped attempt offers strictly more than all attempts with fewer
  bumps, unless the estimate or the price has fallen. The default price after a
  failed query can be such a fall.
- `QuietAfterStop`: whichever case the `select` takes and wherever the pass is, one
  account at most is asked for after stop is closed.
- `KeysUnique`, `LastFileWins`: over several files, of which each is validated by itself,
  no entry occurs twice and each field has the value of the last file that set it. The
  second compares the loops with a definition that looks at all accepted files at once.
- `BuiltFromConfig`: the relayer dereferences nothing that is not set, and its two URLs
  belong to one configured node, although the defaults are merged after the validation.
- `ServesConfigs`, `ServesTransmissions`: the refinement of `TtlCache` above.
- `ConfigCatchesUp`, `ProviderCloses`, `CallsReturn`, `BalancesCatchUp`,
  `RelayerCloses`: liveness. A configuration
  can be caught up with if its event can be found (`Loadable`): the only direct
  event of a block whose number fits.

### Bounds

Two attempts are enough for a request to be built, retried and given up. One
fault at a time is enough to reach each error path; it may come at any point. `reuse`
has two, so that both queries of a `checkReorged` fail, or a reorganisation meets a
failed query or a second reorganisation, and three builds for what these cost. Two
requests are enough for a key to be reused and for a channel of size 1 to
overflow. `REORG_RETRY_COUNT` is 1 instead of 3: one repeated query.

For the caches, a TTL and an update of one tick each are enough for a value to
expire and for an update to straddle a tick; four ticks let a configuration be
set, an update fail, the TTL pass and another update end. Two blocks give a change
of a cached configuration. A block holds one configuration; or one that is
replaced through another contract, which the reader does not notice; or two of its
own after one that was set through another contract: the reader has to pass over
the first and to refuse the two. The limit on block numbers (`MaxEventBlock`) is not
reached in the run: a block above it is refused like one with two events, and the
theorems hold for every value of it. Two transmissions let one be cached and the next be
dropped. Three callers of the client are one that queries, one that waits
for the write lock and one that has not looked yet.

The relayer's run begins with one of five workloads (`SomeWorkloads`), so that the
interleavings that matter are there without their product: the object with one
other caller, three callers, the object with two attempts, the monitor with
three keys, and a relayer that is only started and closed. The last one comes with the
files: every three of seven that set, replace and switch fields of two chains, leave out
names, URLs and ids, or repeat keys; the others have one plain file. Two emitters allow a
call that fails and one that succeeds. With `Half` = 128 the estimates 9, 40 and 300 and the prices 2 (the
default), 4 and 128 give fees that fit, that overflow only when padded, that wrap,
an energy that is cut and a price that cannot be parsed. Two faults are enough for a
pass of the monitor in which both good keys fail, so that the client is dropped.

### Fairness

`FairSpec` of `MedianProvider` assumes that a goroutine in the middle of an update
goes on (RPCs return, at the latest with a timeout), that ticks come, and strong
fairness of the stop case as below. `FairSpec` of `TronRelayer` assumes that a call
of the client runs to its end (strong fairness of its steps: requests time out and a
`sync.RWMutex` starves nobody), that the loops and the closing goroutine run (weak
fairness), and strong fairness of both stop cases; `PluginFairSpec` adds nothing. Nothing is assumed of callers,
of the confirm loop's retries, of blocks, balances or faults.

`FairSpec` of `TronTxm` assumes that the goroutines keep running (weak fairness of each loop),
that a `select` with a ready `Stop` case eventually takes it (strong fairness: Go
chooses among ready cases at random), that a call of `Enqueue` that began runs to
its end, and that time passes (transactions expire). Nothing is assumed of
callers, of block production or of faults. `Settles` excepts requests whose
broadcast failed, as the code leaves them pending for ever: `StrandedByFailure`
says that nothing else strands a request when the channel has room for every key.

### Findings

1. `find_unsolid`: `checkFinalized` finalizes a transaction that the solidity
   node does not know as soon as the full node does (`txm.go:531`).
2. `find_twice`: two overlapping calls of `Enqueue` with one key are both sent to
   the broadcast loop (`txm.go:144-157`).
3. `find_panic`: a broadcast without a response is a nil dereference
   (`txm.go:342`).
4. `find_rebroadcast`: a failed query counts as a missing transaction
   (`txm.go:407`), so that a request can take effect twice.
5. `find_partial`: a failed query for a transaction is only logged
   (`reader.go:207`), so that a superseded configuration can be cached as the one
   of its block.
6. `find_solid_transmission`: `TriggerConstantContractFullNode` of the validating
   client asks the solidity node (`combined_client.go:251`).

## 4. Proofs

Assumptions: `IdsAssumption`, `StoreAssumption`, `NodeAssumption` and
`TxmAssumption`, the types of the constants. The sets of requests, keys and
accounts are arbitrary, as are all bounds.

`TronTxmProofs` first proves `TypeInv` inductive: `TypeOK` and `ControlOK`, which
ties the program counters to the other variables of the loops (for example, that
the broadcast loop works on the object its hash was built from). This gives
`TypeCorrect`.

The safety invariants are not inductive one by one. `SerialInv` is their
conjunction, and each part needs the others:

- `StoreInv` (`SingleHome`, `Homes`, `HashIndexExact`) needs
  `EnqueueOwnsKey` for `OnPending` to find the key free, `SingleBroadcaster` for
  `OnBroadcasted` to find its object pending, and `SnapshotCurrent` for every
  operation of the confirm loop to find the entry it read;
- `SnapshotCurrent` needs `SingleHome`, so that no other loop's operation
  touches the entry, and that `cur` is no longer in `todo`;
- `SingleBroadcaster` needs `EnqueueOwnsKey` for a new object and `SingleHome`
  for a retried one.

`HomeMatchesState` is split for this: `Homes` says it of the pending, confirmed and
finished entries, and `UnconfirmedState` of the unconfirmed ones, whose objects are
Broadcasted but for the one that is being retried. The operations of the store keep
the first; the second depends on where the confirm loop is.

Lemmas say what each store operation does to a consistent store when its entry is
where the caller expects it. `EntryMoves` and `EntryMovesSafely` collect what all
moves of the confirm loop have in common. From `Invariance` follow
`StoreConsistent`, `StateConsistent`, `HashIndexCorrect`, `NoDoubleBroadcast`,
`SnapshotsStayCurrent`, `EnqueueIsExclusive` and `NoNilDereference`. All are
stated for `SerialEnqueue`, the assumption about callers above; `NoNilDereference`
in addition for networks that answer every broadcast and give well-formed blocks. The proof also shows that
the `OnFatalError` after a failed broadcast never does anything
(`FailedBroadcastIsIgnored`).

`LifecycleProofs` adds `ReapInv` (what the reaper collected is still finished and
aged) and proves `ReapRespectsRetention` and the refinement
`LifecycleImplemented`: in a consistent store the status of a key follows from the
map it is in (`StatusLookup`); when no two accounts share an ID (`UniqueIds`) that is
the only answer of the lookup over all accounts (`OneAnswer`); and each store
operation is one move of the abstract life cycle. The object that is being retried
reads Pending like the Broadcasted one it was.

`ChainProofs` relates the store to the chain. `SucceedsOnce` and `VerdictsAreTrue`
hold when, besides, queries are answered and nothing is reorganised (`Faithful`).
`ChainInv` is their inductive form: a transaction of an object that may still be
included, or has been included, is the one the store, the channel or a loop still
accounts for (`LiveAccounted`), an object has at most one of them (`OneLive`), an
object whose verdict is Finalized has succeeded (`VerdictsSucceeded`), what was not
sent is not on the network (`Unsent`), and what the confirm loop has seen of an
entry still holds when it acts on it (`SeenHolds`). The last one carries the
argument of the code: the block is fetched before the receipt, so that a receipt
that is missing although the expiration has passed at that block stays missing.

The other two results of `ChainProofs` hold under every fault. `BuildsAreBounded` needs to
know who may still build: an object is `Due` one more transaction while its call of
`Enqueue` is on the way, while it is queued or being prepared, and while it is being
retried. A transaction is `Lost` when a reorganisation removed it, or a whole check
missed it, and nobody works on it any more. `BuildsCovered` says that what was built and
what is due is at most `Attempt` plus the lost transactions. A retry makes the object due
and counts an attempt; `HandleReorg` makes it due and its transaction lost; a build ends
it; and a failed broadcast leaves nothing due. That `HandleReorg` takes only
transactions that were doubted is `DoubtsFounded`: what is confirmed was on the chain, and
each failed query of `checkReorged` is due to a reorganisation or is one of `misses`.

`OnlyFailuresStrand` holds when the channel has a place for every key (`Room`): by
`SingleBroadcaster` the queued objects have different keys, so that a send finds a place
(`RoomToSend`, a counting argument), and only the end of a broadcast that failed leaves
an object pending and not queued, which `failed` records and nothing takes back
(`FailedStays`). TLC found no state that violates either invariant before they were
proved.

`MedianProviderProofs` proves `ProviderTypeCorrect` and `AbiMapSafe`. The second
needs `AbiInv`: as long as no query for the ABI has failed, the ABI is in the map
or the config cache is still in its first update and the transmissions cache has
not begun one. So one failed query in `Start` is all that stands between the
program and the race.

`CacheProofs` proves `HeightCovers` with `HeightInv`: every block that `sets`, the
details in flight or the cache name is at most the height, and the height fetched
in an update is not below the details fetched before it. `ConfigIsFresh` holds for
any content of blocks and any faults; `CachedDetailsCorrect` when no query for a
transaction of a block is lost or no block holds two configurations (`EventsServed`).
`ConfigInv`, for the first, is about blocks: those of `sets` do not decrease; the
block of the details in flight is not before the one of the cache, because updates
of one cache do not overlap; no block with a configuration came after it before the
update began (`ConfigUntil(sets, block, now - spent)`); and the same of the cache as
of its last check less `MaxUpdate`. `DigestInv`, for the second, is about digests: the
details in flight were reported at the end of their block (`Exact`), and what is
about to be stored, or is cached, was too, unless the reader does not see the last
configuration of the block (`Seen`). `EventSeen` is the reason: where one event is
found and none is lost, it is the last one of the block or the last one is masked. `StepKinds` reduces every
step of the provider to a block, a tick, one of the four steps of `updateConfig`,
or a step that leaves the clock, the chain and the cache alone.

`TtlCacheProofs` proves the refinements `ConfigCacheServes` and
`TransmissionsCacheServes`. The first follows from `ConfigInv`: a later
block has no earlier configuration (`LastInGrows`). For the second, `TransInv` says that what is about to be stored, and
is not skipped, was the latest when the update began and is not older than the
cache, and that the cache was the latest when the update that wrote it began, less
the skipped ones. `AnswersTell` is the assumption that the node asked does not show
pending transmissions or that answers are not zero. From `TransInv` follow
`NothingPendingCached` and `TransmissionsAreFresh`.

`RelayerProofs` first proves `NothingForwardedUnmatched` and `VerdictIsFinal` of the
client, for any number of callers: a caller that queries holds the write lock and `done`
is false, which is what the second test under the lock is for. Then it shows that the composition uses the client as the client's own
specification allows (`RelayerUsesClient`: every step of the relayer is a step of
`ClientNext` or leaves the client alone), so that `RelayerGated` and
`RelayerVerdictFinal` are the theorems about the client. `RelayerTypes` needs in
addition that the index of the monitor stays within the keys. `BuiltForConfiguredChain`
follows from the gate: the step that builds is an answer to a forwarded request.
`FeeLimitsExact` and `BumpsRaiseFees` hold for integers of any width and every
multiplier of at least 3/2: an exact fee is monotone in the energy and the price, and
half as much again is more than the fraction that is dropped. `MonitorFallsSilent`
needs that after stop at most one key is past the check. `PluginRelays` shows that the
plugin implements the relayer's specification, for any files and defaults, so that all
of these hold of the relayer that the plugin builds.

`ConfigProofs` proves `MergedKeysUnique`, `LastFileTakesEffect` and `RelayerFromConfig` for
any number of files of any length. They are about loops, and the library's induction
theorems cannot be used; but that a set of naturals has a least element can
(`LeastNatural`), and it gives that the recursive function of a loop exists (`LoopRuns`)
and that what its rounds keep holds at its end (`KeptAfter`). `Merged` is the invariant of
both loops, shown once for lists with unique keys and any way of merging two entries
(`RoundMerged`): an entry of the result is an old one whose key does not occur among the new
ones, a new one whose key did not occur, or the two with one key merged; and no key is lost.
`LastFileTakesEffect` is then an induction over the files: what was given last changes only
where the new file says something (`NotGiven`, `GivenOnce`), and of a chain or a node that
the configuration does not have nothing was said before (`ChainNeverSaid`, `NodeNeverSaid`),
which is why the invariant includes that none is lost. `RelayerFromConfig` uses the same
lemmas for the defaults, which have no nodes, so that all nodes that can be picked were
validated.

Further assumptions: `AggregatorAssumption`, `PollerAssumption`,
`CacheAssumption`, `ProviderAssumption`, `ClientAssumption`, `FeeAssumption`,
`MonitorAssumption`, `RelayerAssumption`, `ConfigAssumption` and `PluginAssumption`,
again types; `PaddingAssumption`, which is the multiplier of at least 3/2; and
`DefaultsAssumption`, that `docs.toml` gives every setting a default and that its nodes,
an array of tables, are examples only.

Only model-checked: as liveness is beyond the prover, `Settles`, `CloseTerminates`,
`ConfigCatchesUp`, `ProviderCloses`, `CallsReturn`, `BalancesCatchUp` and `RelayerCloses`.
Every invariant that a passing run checks is also the subject of a theorem.

## 5. Not modelled, and the plan

Left to prove: how far the theorems about the chain reach without their assumptions, in
particular which part of `VerdictMatchesChain` survives failed queries.

Left out, with the reasons in `PROJECT.json`: the transmitter, which keeps no state
and whose `Transmit` is a call of `Enqueue` with a fresh key; TOML encoding,
key and digest conversions: sequential data handling without state that a unit test
reaches; the SDK's encodings and generated code, mocks and test drivers.
