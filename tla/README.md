# TLA+ models of the SubQuery Ethereum indexer

The modules in this directory model the parts of `packages/node` that decide
what is indexed: the JSON-RPC clients, the HTTP exchange under them, the api of
an endpoint, the way blocks are fetched, the detection of forks, the dictionary
queries, the filters of handlers and the walk over a block; and the way of a
project from its manifest through validation and code generation
(`packages/common-ethereum`) to the node that indexes it. TLC checks each on
small instances; TLAPS proves theorems about each of them for every instance.
`PROJECT.json` lists the runs, the source lines behind every definition, the
hazards of the code and the theorems.

Run a check in this directory with `tlc -config <cfg> <MC module>` and a proof
with `tlapm <module>`. `N/` below stands for `packages/node/src/`, `C/` for
`packages/common-ethereum/src/`.

## The system

The node is one JavaScript process (workers are copies of it, each with its own
event loop). Inside it a handler runs to its next `await` without interruption,
so the actions of the models are the stretches of code between two awaits; what
interleaves is requests, replies and timers. The queue of blocks, the store, the
connection pool, the sandbox and the dictionaries' transport are in
`@subql/node-core`, and the formatting of RPC data is in `ethers`; neither is in
this repository. They are modelled from how this code uses them and marked
external in the map.

| Component | State | Operations | Interacts with | What is hard | What makes it correct |
|---|---|---|---|---|---|
| Batching client `N/ethereum/ethers/json-rpc-batch-provider.ts` | pending batch, its timer, batch size and counters, chain id cache | `send`, `flush`, `runRequests`, `adjustBatchSize` | `fetchJson`; every request of the api | several batches in flight; replies reordered, short, malformed; size changes under pending calls | each call is posted once, settled once, with its own payload; the size stays usable |
| Plain client `.../json-rpc-provider.ts` | promises kept for one turn | `send` | `fetchJson` | the promise is shared, and may be dropped before it is settled | callers get a value of their method |
| HTTP exchange `.../web/index.ts`, `geturl.ts` | attempt counter, timeout, the race between them | `_fetchData`, `fetchJson`, `getUrl` | the clients; `handleError` of the api | retries race the timeout, stalls outlast it, the loop goes on after it lost | the caller is answered once; its error keeps what the node decides on |
| Api of an endpoint `N/ethereum/api.ethereum.ts` | its clients, what the node supports, finality | constructor, `init`, `getFinalizedBlock`, `fetchBlock(s)`, `parseLog` | clients, connection pool | repeated `init`; finality by tag or by depth; two requests per block | requests go to the intended client; finality is never ahead of itself; blocks own their logs |
| Connection `N/ethereum/api.connection.ts` | - | `fetchBlocks`, `handleError` | pool of node-core | error classes drive back-off | a rate limit is seen as one |
| Api service `N/ethereum/api.service.ethereum.ts` | fetch function | `updateBlockFetching`, `safeApi` | project, pool | changes under running batches; retries across endpoints | blocks carry what handlers need |
| Handlers' api `N/ethereum/safe-api.ts` | height | pinned calls | `safeApi` | calls outlive their block | calls stay at their height and end |
| Fork detection `N/indexer/unfinalizedBlocks.service.ts` | cached headers, finalized height | `processUnfinalizedBlockHeader`'s `hasForked`, `getLastCorrectFinalizedBlock` | dispatcher, chain, proof of index | the chain moves during the search; restarts | the database holds one branch; rewinds go to the fork |
| Filters `N/ethereum/block.ethereum.ts` | - | three filter processors | indexer, dictionary | `undefined`, `null`, `!null` differ | same meaning as the dictionary query |
| Indexer `N/indexer/indexer.manager.ts` | position in the block | `indexBlockData`, `indexData` | filters, decoding, datasources | datasources grow during the walk; items are shared | each item once, in order, decoded with its own ABI |
| Dictionary queries `N/indexer/dictionary/**` | datasources, the queries | build v1 and v2 queries, convert blocks | node-core's dictionary service | two readings of one filter; datasources come later | nothing that a handler accepts is skipped |
| Dictionary service `N/indexer/dictionary/ethDictionary.service.ts` | dictionaries of both versions | `initDictionaries` | endpoints, the list of chain aliases; node-core's base class | an endpoint says what it is by failing; so does one that is only down | each endpoint is used once, in its newest version, for the chain of the project |
| Manifest `C/project/**` | the project on disk | `loadFromJsonOrYaml`, the validators | the node at its start | one set of validators for manifest, templates and dynamic datasources; keys that are passed over | what is accepted can be indexed |
| Code generation `C/codegen/codegen-controller.ts` | the files under `src/types` | `validateAbi`, `prepareSortedAssets`, `prepareAbiJob`, `generateAbis` | TypeChain, the file system | all ABIs at once, each run writing the same indexes; errors are printed and the rest goes on; earlier files stay | files agree with each other and with the project |
| Project `N/configure/SubqueryProject.ts`, `N/utils/project.ts`, `N/utils/string.ts` | datasources and templates, resolved | `createSubQueryProject`, `resolveTopicFiltersInProject` | manifest, ABIs | names of structs and enums replaced in signatures, templates long before their use | a filter matches what it was written for (which the code misses with its own library, see below) |
| Blockchain service `N/blockchain.service.ts` | - | headers, `onProjectChange`, `updateDynamicDs` | all | options overwritten before they are validated; restarts | an invalid datasource is neither indexed nor saved |
| Workers, configuration, chain formatters | - | forwarding, options, conversion | all | - | - |

## Modules

| Module | Models | Depends on |
|---|---|---|
| `RpcCalls` | abstract: what a client promises its callers | |
| `BatchSizing` | `adjustBatchSize`, and a run of failures in closed form | |
| `BatchProvider` | `JsonRpcBatchProvider` | `BatchSizing`; implements `RpcCalls` |
| `ProviderCache` | `JsonRpcProvider` | implements `RpcCalls` |
| `FetchData` | `_fetchData`, the classes of its errors | |
| `EthereumApi` | client choice, `init`, `getFinalizedBlock` | |
| `BlockFetching` | fetch mode, `fetchBlock`, `fetchLightBlock` | |
| `SafeCalls` | `safeApi`, `SafeEthProvider` | |
| `ChainIndex` | abstract: an index that follows a chain | |
| `UnfinalizedBlocks` | `UnfinalizedBlocksService` | implements `ChainIndex` |
| `Filters` | the filters, and which items a block offers | |
| `DictionaryQuery` | both query builders, `rawBlockToEthBlock` | `Filters` |
| `Indexing` | `indexBlockData`, `indexData`, `parseLog`, `parseTransaction` | `Filters` |
| `HandlerRuns` | composition: the handlers of block after block, with calls that outlive theirs | `Indexing`, `SafeCalls` |
| `AbiSignatures` | signatures, aliases, custom types: `string.ts` | |
| `ProjectManifest` | validation, the checks and names of code generation, the resolution of a project's filters | `AbiSignatures` |
| `GenerateAbis` | `generateAbis`: concurrent runs, indexes, interfaces | |
| `ProjectStart` | composition: edits, generation, the start of the node, dictionaries, dynamic datasources, restarts | `ProjectManifest`, `GenerateAbis` |
| `MC*` | instances for TLC: model values, sets of inputs | one each, where the cfg does not suffice |
| `BatchProviderProofs`, `FetchDataProofs`, `ProviderCacheProofs`, `UnfinalizedBlocksProofs`, `DictionaryQueryProofs` | theorems about the module of that name | that module |
| `EndpointProofs` | theorems about `EthereumApi` and `BlockFetching` | both |
| `HandlerProofs` | theorems about `Indexing` and `SafeCalls` | both |
| `ProjectProofs` | theorems about `GenerateAbis`, `ProjectStart` and the functions on parameters in `AbiSignatures` and `ProjectManifest` | `ProjectStart` |

### How state and actions correspond to the code

**BatchProvider.** `pendingBatch`, `aggregator`, `batchSize`, `successCount`,
`failureCount` and `chainIdCache` are the fields of the class; `inflight` is the
batches whose `fetchJson` is awaited; `reply` is the promises of the callers.
`SendCached`/`SendQueued` are `send` (with the flush of an overlong batch in the
same step), `TimerFires` the timer, and `FetchFails`, `ObjectReply`,
`NullIdReply`, `ArrayReply` the four ways `runRequests` goes on after its await.
A payload is an id and a kind; the message strings of limits are one kind.
A "malformed" payload has an error without a message, where `.includes` throws
and the `catch` rejects the rest. A reply calls `adjustBatchSize(false)` once per
refused call; `FailTimes` gives the effect in closed form, so that no recursion
is needed where proofs reach, and `MCBatchProvider` compares it with the calls
made one by one for the code's own constants (10 and 10).

**ProviderCache.** A request is named after the call that posted it; `joined`
says whose promise a caller holds. `Keep` is the last block of `send`. A caller
may send the same call again once it is settled, so a name can be reused while
others still hold the earlier promise.

**FetchData.** `pc` is the await at which `runningFetch` stands, `timer` is
`runningTimeout`, `outcome` what `Promise.race` gave. Time is left out: an armed
timeout may fire at any step, which contains every real schedule. `ErrorClass`
is `handleError` of the api and of the connection.

**EthereumApi.** `clients` are the provider objects, with whether they format
Celo blocks and whether `injectClient` counts their calls; `client` is the one in
use. `Probe` folds the requests for genesis hash and tags, whose order does not
matter, into one step. `NumberToHeight` is what ethers does with a negative
block number.

**BlockFetching.** `fetches` holds for every batch the place of each of its
heights between the two requests. A node answers `eth_getLogs` by hash, or fails
or answers none for a hash it lacks, or ignores the filter and answers for its
latest block (the case the comment in `fetchBlock` is about). `outdated` marks
batches begun before the project changed: whether node-core drops them is not
decided here.

**SafeCalls.** A call records the block it was made in (`block`) and the height
of the request that is out (`pin`), which the code keeps equal. `RequestFails`
takes an endpoint from the pool before it counts the retry, as the code does.

**HandlerRuns.** `IndexBlock` makes the api for the next block once the walk over
the last one has ended, and starts the walk over it; `WalkBlock` is a step of
`Indexing`, `MakeCall` and `AnswerCall` are the calls of a handler, awaited or
not. A call left open is answered, or tried again at another endpoint, during the
walk over a later block, which is what `CallsStayAtTheirBlock` is about.
Datasources that a handler created stay for the blocks after it.

**UnfinalizedBlocks.** A block is the path of branch numbers that leads to it, so
hashes and parents need no table. `unfinalized` and `finalized` are the fields of
the base class, `HeadersAbove` and `HeadersBelow` its filters of the cached
headers, `checking`, `forked` and `rest` the locals of the search, `pc` the
await. `poiEnabled` is a setting, chosen at the start and kept. A reorganisation can hit any step. `exposed` records one that hit a moment
in which the code checks nothing - during a search, between a rewind and the next
cached header, or below a finality that overtook an unverified header; the
properties about data hold until then, and say so.

**ChainIndex** is what that amounts to for whoever reads the database, with no
word of headers, finality or searches: the data grows by a child of its newest
block, taken from the chain of the moment; it is cut back only to blocks of the
chain; and when there is evidence of a newest good block (`known`), to exactly
that one. `IndexFollowsChain` maps `indexed` to its data, `fetched` to the block
taken, `exposed` to `lost`, and "proof of index, or a cached header left" to
`known`. After `lost` it promises nothing.

**Filters, DictionaryQuery, Indexing.** Addresses, topics and selectors are model
values; `undefined`, `null`, `'!null'` and the empty input are four distinct ones.
An entry of a query is a set of conditions, and the dictionary returns what meets
them; a block of a dictionary holds what is `Selected` from one of the chain.
`Indexing` walks a block by places `<<transaction, log>>`, where `LogsOf` a
transaction are positions in the block, and takes one step for every handler:
`at` is the place, `next` the datasource and `turn` its handler, so that a
datasource a handler creates is there before the next one runs. `since` remembers
when a datasource was created and `args` what the shared object currently holds.

**AbiSignatures, ProjectManifest.** A signature is the sequence of its words,
because words are what the regular expression of `resolveCustomTypesInSignature`
replaces; commas, parameter names and `indexed` are gone. A topic hash is the
canonical signature it is the hash of. Parameters nest; what the code computes of
them by recursion is a recursive function on `Params`, the parameters of all ABIs.
An array is the sequence of its brackets, `"[]"` or one of `FixedSizes`, so that
`tuple[2]` and `tuple[][]` are there beside `tuple[]`: the library writes all of
them, `InputToArg` of code generation only those of a `tuple[]`, and
`joinInputAbiName` rewrites only `"[]"`. Names of generated types are compared with
each other; that they are identifiers of TypeScript is not asked, and with a fixed
size they are not.
`ParamsWithin` is the order in which `extractCustomTypeFromInput` visits them, and
`ExtractCustomTypesFromAbi` keeps the order of the map of the code, in which the
first meaning of a name wins. `PrepareSortedAssets` takes, of the places that have
an asset of one name, the last.
`ValidateAbi`, `PrepareSortedAssets`, `TypeNames` and `FunctionNames` are the
checks and names of code generation. They look up an ABI by the name of the
asset, as `codegen-controller.ts` does; `AbiPaths` looks it up as a file under
`abis/`, as `getAbiInterfaceFromDs` of the node does. `KeepsInternalType` says
whether the `Interface` of ethers keeps the field from which the names of structs
and enums are read: the extraction is written for one that does, while that of
ethers 5.7, which the node uses, keeps only the fields of its own fragments. The
library is not in this repository, so the constant stands for it. Every run takes
FALSE, what the node has: the extraction finds nothing then, and
`custom_types_dropped` shows what becomes of the comment on it. The theorems hold
for both values.

**GenerateAbis.** `running` is the TypeChain runs under way, `factories` the
directory they write into, `indexes` the two `index.ts` files, `interfaces` the
rendered templates with the file each was made from. A run may fail while the
others go on and write after `generateAbis` has resolved; a stage that fails may
leave some of its files. Nothing of `contracts` is ever removed, and the
interfaces are removed only when there are assets, as in the code.

**ProjectStart.** `source` is the project on disk and `loadedFrom` the one the
node loaded; `params` is what the store keeps of dynamic datasources, `dynamicDs`
what was made of it. The developer edits and generates while the node is off, and
an edit waits for the generation before it: the code shares nothing between the
two but files. `Stop` is any end of the process, between any two steps of the
start. `InitDictionary` is one endpoint of `initDictionaries`; a request to it may
fail for reasons of its own, which `disturbed` remembers.

## Runs

### Properties that hold

| Run | Instance | Shows |
|---|---|---|
| `batch_provider` | 3 calls, two of them `eth_chainId`; replies of up to 2 payloads of 4 kinds; interval 3, limit 2 | calls are queued once and settled, the timer guards them, answers are own, batches are bounded, the chain id is kept, `RpcCalls` is implemented; on the side, `FailTimes` is repeated failure for the code's own interval and limit (an assumption of `MCBatchProvider` that TLC evaluates) |
| `fetch_data` | 5 attempts, all 16 connections | the caller is answered, the timer guards it, leftover timers are explained |
| `provider_cache` | 4 calls of 3 methods, 2 cached | callers wait on a request of their own method, every send is settled, `RpcCalls` is implemented |
| `ethereum_api` | both protocols, three kinds of chain, up to 2 switches, heights to 4, 2 confirmations | `init` ends and what it did survives a switch of client; the client formats its chain; finality is deep enough |
| `block_fetching` | 2 overlapping batches, 2 heights, 1 reorganisation, 3 projects, the three kinds of node | full blocks own their logs and have all of them; light blocks suffice |
| `unfinalized_blocks` | chain to height 5, 2 reorganisations, proof of index on and off | one branch in the database, rewinds exactly to the fork, orphans removed in the end, `ChainIndex` is implemented |
| `dictionary_query` | up to 3 datasources of every filter form over 2 addresses, blocks of 2 transactions | neither version of the query misses an item; a dictionary block runs the same handlers |
| `handler_runs` | blocks at 2 heights of up to 2 transactions and 3 logs, full and light; 3 datasources of which up to 2 come during the walk; 1 call at a time, 2 endpoints, 3 retries | each item once, in order, in a block after another; calls stay at the block they were made in while later blocks are walked, are retried, and end |
| `project_start` | 13 projects (plain, in the words of the contract, mixed, nested with overloads of arrays of tuples, one whose asset differs from the file the node reads, and one for each reason to refuse), 2 edits, 4 files of which two share a name, 4 endpoints, 2 dynamic datasources, restarts anywhere | generated files agree with each other and the project; overloads get types of their own and are looked up by their signature; what code generation accepts fits the ABI in the node; nothing invalid is indexed; dictionaries serve the chain |

### Disagreements with docs, comments and tests

Three are runs of the project, in which TLC finds the quoted statement violated;
the quotes and lines are under "findings" in `PROJECT.json`.

| Run | What happens |
|---|---|
| `fetch_throttled` | the last 429 is caught by its own `try` and reported as "missing response", not as a rate limit |
| `dictionary_no_filters` | a handler without filter and address is left out of a v2 query, and its blocks are skipped |
| `custom_types_dropped` | the comment on `resolveTopicFiltersInProject` says that the names of enums and structs are replaced; the `Interface` the node has drops `internalType`, so none is found, and a filter in the words of the contract matches nothing |

Fourteen more statements, with their configurations, show smaller or more debatable
differences, or where a property of the runs above ends. TLC refutes the property of each; the property's
comment quotes what it states.

| Configuration | Module, property | What happens |
|---|---|---|
| `BatchCounting.cfg` | `MCBatchProvider`, `OneCountPerBatch` | refused calls of a batch are counted beside the batch, so an interval is not ten batches |
| `BatchCounting.cfg`, with the other property in its place | `MCBatchProvider`, `BatchSizeIsRespected` | a batch is flushed when it exceeds the size: it holds one more |
| `ApiSwitching.cfg` | `MCEthereumApi`, `NonBatchAfterSwitch` | on Celo, `init` undoes the switch to non-batch mode, and on an endpoint that rejects batches repeats itself |
| `Zilliqa.cfg` | `MCProjectStart`, `AddressFindsItsContract` | a bech32 address is accepted and never converted: it equals no address of a log |
| `AddressTopic.cfg` | `MCProjectStart`, `DocumentedTopicsAreAccepted` | the types say that a topic may be an address (`types/src/ethereum/interfaces.ts:51`); code generation looks for it among the signatures and refuses the project |
| `OverloadLookup.cfg` | `MCProjectStart`, `OverloadsAreLookedUp` | `inputsToArgs` writes brackets for `tuple[]` only: an overload with `tuple[2]` or `tuple[][]` is looked up by a name that is not its signature, or by that of another overload |
| `ForkWindow.cfg` | `UnfinalizedBlocks`, `RewindRemovesForkedData` | without proof of index, a fork deeper than `blockForkReindex` leaves forked data |
| `DictionaryNotNull.cfg` | `MCDictionaryQuery`, `NotNullTopicsAreQueried` | the filter stops at `!null`, the query goes on: relevant logs are not asked for |
| `DictionaryAddress.cfg` | `MCDictionaryQuery`, `AddressIsFiltered` | a call handler may be run for transactions to other contracts than its datasource's |
| `DictionarySkip.cfg` | `MCDictionaryQuery`, `SkipTransactionsIsDisabled` | a v2 dictionary leaves out transactions though the project needs them, and their logs with them |
| `IndexingAbi.cfg` | `MCHandlerRuns`, `DecodedWithOwnAbi` | arguments decoded with one ABI stay on the shared log for datasources with another |
| `ApiCounting.cfg` | `MCEthereumApi`, `RpcCallsAreCounted` | the Celo clients made in `init` do not count calls |
| `ApiYoungChain.cfg` | `MCEthereumApi`, `FinalizedIsBehindHead` | a chain shorter than the confirmations is asked for a negative height |
| `BlockFetching.cfg`, with this property in place of its invariants | `MCBlockFetching`, `LightBlocksOwnTheirLogs` | a light block accepts logs that a full block refuses |

`SwitchIsKept` and `InitEnds` of the run `ethereum_api` set Celo apart for the
reasons that `ApiSwitching.cfg` and `ApiCounting.cfg` show; `FinalizedIsBehindHead`
holds there because the chain starts at the confirmations.
`NoFiltersNoDictionary`, `NotNullTopicsAreQueried` and `SkipTransactionsIsDisabled`
mark what `V1MissesNothing`, `V2MissesNothing` and `DictionaryIsTransparent` have to
leave aside, and their definitions name it: topics after a `!null`, and in version 2
handlers without filter and address, are covered by those statements alone.

Where the properties of the runs end:

- `RewindRemovesForkedData` is checked with a window that always reaches below the
  fork; what a shorter one leaves is `ForkWindow.cfg`, and a hypothesis of the
  theorem.
- `LightBlocksSuffice` sets aside batches begun before the project changed
  (`outdated`), since node-core decides what becomes of them.
- `FinalizedIsBehindHead` says nothing of a chain younger than its confirmations,
  which is `ApiYoungChain.cfg`.
- `ChainIdIsKept` is about a cached chain id that gets lost; an answer that replaces
  it by another is not excluded by the code, which trusts its endpoint.
- `OverloadsAreApart` compares the types of overloads without tuples (all tuples
  are called `tuple`), and the signatures of those whose tuples are in no array or
  in one `[]`; `OverloadLookup.cfg` is the rest.
- `AcceptedFiltersFit` has a condition, `NamesAreApart`: if the library kept the
  names of types, the node would take them from `abis/`, and a name in that file
  might be an event or function in the asset that code generation read. With the
  library the node has, nothing is taken and nothing is excluded.

Code generation and the node differ on filters in the words of the contract:
`validateAbi` compares canonical signatures and refuses what the node was meant to
resolve; a project with such filters runs only without its code generation.

### Bounds

Every bound is a constant: `MaxPayloads`, `AttemptLimit`, `MaxSwitches`,
`MaxHeight`, `MaxReorgs`, `MaxVersion`, `MaxDataSources`, `MaxSources`,
`MaxRetries`, `MaxEdits`, `MaxDynamic`, and the sizes of the sets of calls,
endpoints and batches.

- Three calls and sizes 1 and 2 give batches of one and two in flight together,
  one being filled, and a size that changes under them. An interval of 3 instead
  of 10 lets both the growth and the shrinking happen within the calls of the run;
  the code's own numbers are in the assumption `FailTimesIsRepeatedFailure`, with
  sizes to 12 and runs of 25 failures, and the theorems hold for all.
- `AttemptLimit` is five, a connection's `throttleLimit`; the loop treats the
  last attempt apart, and the others alike.
- Height 5 with 2 reorganisations holds a fork below three cached headers, and a
  second one during the recovery from the first; each step of the search looks at
  two neighbouring headers only. `BlockForkReindex` is 5 there, so that the window
  always reaches below the fork; `ForkWindow.cfg` shows what happens when it does
  not.
- Two addresses, two topics and one selector distinguish what a filter can
  distinguish: this value, another, none. Triples of datasources, with a limit of
  two addresses, put the grouping below, at and above the limit.
- Three datasources, two of them created on the way, put one before, at and after
  the position of the walk. One call and blocks at two heights are enough for a call
  to be open, retried and answered in a block it was not made in; what the calls
  share is the pool, and the theorems are about any number of calls and heights.
- Overloads with `tuple`, `tuple[2]` and `tuple[][]`, and with `uint256[][2]` and
  `uint256[2][]`, give every order of the two kinds of brackets.
- Two edits put three projects on disk one after the other, so that a generation
  meets the files of two earlier ones; two dynamic datasources, of one or two
  templates, are restored in order. Four endpoints are every subset of the two
  versions, with a v1 before the first v2.
- With 3 retries a call fails first, in the middle and last; the code's 5 adds
  more of the middle, and the theorems hold for all.

No run uses symmetry. Deadlock checking is off where the system rightly stops: an
exchange that is over (`FetchData`), an api that failed while its chain is at its
bound (`EthereumApi`) and datasources at their bound (`DictionaryQuery`). Type invariants that a theorem states are left to
the theorem in most runs.

### Fairness

- Timers fire (`BatchProvider`, `ProviderCache`, `FetchData`): the event loop runs
  what `setTimeout` was given.
- A posted request is settled, or fails (`BatchProvider`, `ProviderCache`,
  `HandlerRuns`, `EthereumApi`): `fetchJson` has a timeout, and `FetchData` shows
  that with it the caller is always answered (`CallerIsAnswered`). In `FetchData`
  itself nothing is assumed of the server; only the timeout must fire.
- The dispatcher keeps fetching and processing and awaits return
  (`UnfinalizedBlocks`), with finitely many restarts; a process that is stopped
  again and again need not clean up anything.
- `ProjectStart` and `GenerateAbis` assume none: any of their steps may be the last,
  and their properties are about what is there.
- Nothing is assumed of the environment: chains, endpoints, projects and servers
  may stop moving at any time.

## Proofs

All theorems are for arbitrary constants under the assumptions of the modules.
Most only bound domains (`SizeAssumption`, `CallsAssumption`,
`InitialSizesAssumption`, `ReplyAssumption`, `FetchAssumption`,
`SafeCallsAssumption`, `CacheAssumption`, `ApiAssumption`, `FetchingAssumption`,
`FilterAssumption`, `QueryAssumption`, `ForkAssumption`, `IndexingAssumption`).
Those that say more are about the data from outside:
`LogsAssumption`, that a log has at most four topics, which are words of the
chain; `BlocksAssumption`, that the blocks a dictionary serves are full and every
log is of a transaction of its block; `ProjectsAssumption`, the shape of a project
on disk, the ones that validation refuses included; `EndpointsAssumption`, that an
endpoint is an entry of the list the node is given and speaks versions 1 and 2 at
most; `SizesAssumption`, that brackets of a fixed size are no other words of a
signature; `ParamsAssumption`, that the parameters of an ABI have canonical types,
with brackets to any length, that exactly the tuples have components, and that
tuples are nested finitely deep (`Nesting` ranks them); `NamesAssumption`, that
structs and enums have names of their own, which are identifiers and no words of
types; `FiltersAssumption`, that the filters of a project have the form the manifest
gives them and that an ABI lists no event or function twice. `HeightsAssumption`
of `HandlerRuns`, that heights are those of the blocks, is about its instances; no
theorem uses it. TLC evaluates each on the instances of the
runs.

- **`BatchProviderProofs`.** `TypeCorrect` needs that `FailTimes` and
  `AdjustBatchSize` keep counters within an interval and sizes in range, which are
  lemmas about arithmetic of their own. `FailTimesCorrect` says that its closed
  form is what the code does, one `adjustBatchSize(false)` after another
  (`OneMoreFailure`), for any interval and counters; TLC compares the two as well,
  in `MCBatchProvider`. `QueuesCorrect` is proved from an invariant
  that takes `OpenCallsAreQueuedOnce` and `TimerGuardsPending` together: neither
  is inductive alone, for a timer must not post an empty batch and a settled batch
  must hold only open calls. That every item of a batch is settled exactly by that
  batch (`BatchReplySettles`) is used three times. `AnswersCorrect` follows with
  the cache, and `ChainIdCorrect`, about steps, from both: the call whose answer
  is empty is open because its batch is in flight. `LengthsCorrect` bounds the
  batches by the sizes the provider can reach. `Refinement` maps `send` to the
  service's send and a reply to the settlement of the batch's items.
- **`FetchDataProofs`.** `FetchTypeCorrect` bounds the attempts.
  `CallerIsCovered` is `TimerGuardsCaller`: while the caller waits, its timer is
  armed - the fact that the liveness of the run rests on. `LeftoverExplained` needs
  that an armed timer means a waiting caller as long as the fetch is under way
  (`LeftoverInv`), so that an end which keeps the timer is the caller's answer.
- **`ProviderCacheProofs`.** The inductive invariant `IInv` adds to the
  property of the run that a promise is in the cache exactly while its timer is
  armed (`TimersCorrect`), that a cached promise is one that was posted, for the
  method it is kept under, and that promises hold outcomes of their own method.
  `CacheRefinement` then settles together the callers that share a promise.
- **`UnfinalizedBlocksProofs`.** The invariant has three layers. `Shape` is what
  holds always: the index holds one block for each height, the cached headers
  link, the search walks down one height at a time. `TypeCorrect` and
  `CacheIsLinked` follow from it. `KnownOK` is what has been seen of the chain: a
  block once off the chain never comes back, for a new branch takes a new number.
  `Guarded` says that until a reorganisation hits an unguarded moment (`exposed`),
  the index is one branch, what is at or below the finalized height is on the
  chain, and a search rewinds to where it says (`Safe`); it is inductive only
  beside the other two. `IndexIsOneBranch`, `RewindIsDeepEnough` and
  `RewindIsNotTooDeep` follow from all three, under one hypothesis about the
  behaviour: without proof of index, no fork is deeper than `blockForkReindex`
  when no cached header is left (`WindowReachesFork`). `ForkWindow.cfg` shows that
  it is needed. `ForksAreRewound` discharges it, with proof of index always on or
  a window as deep as the chain. `IndexFollows` is the refinement of `ChainIndex`,
  under the same hypothesis, and `IndexAlwaysFollows` the same discharged: a block
  that `processUnfinalizedBlocks` accepts is a child of the newest indexed one
  (`FollowsAccept`, from `Shape`), the rewind is the abstract one (`FollowsRewind`,
  from `Safe`), every other step leaves the data alone or moves the chain.
- **`DictionaryQueryProofs`.** The queries are those for the datasources of the
  moment (`QueryInv`), so `V1Correct` and `V2Correct` are about one state: a group
  holds the address of each datasource of its handler (`AddressesAreKept`), and
  what a filter accepts meets, condition by condition, the entry made from it.
  `DictionaryTransparent` compares the blocks: an item that a handler accepts is
  selected (from `V2Correct`), with its transaction, and nothing is added. What
  `Selected` holds is proved by the least length for which it would be wrong.
- **`HandlerProofs`.** `WalkInv` relates the handlers that have run to the place of
  the walk: each run was due (`RunsAreDue`), each that is due before the place, the
  datasource and its handler has run (`DueHaveRun`), and the runs are in order. It
  needs that the place after another is the next one there is, with and without
  transactions. `RunsAreInOrder` is part of it, and `ItemsAreHandledOnce` follows
  at the end of the block. `CallsPinned` and `RetriesCorrect` are inductive beside
  the type invariant of `SafeCalls`, which bounds the retries.
- **`EndpointProofs`.** `FormatCorrect` and `SwitchCorrect` come from `ClientInv`,
  which says for every step of `init` which clients have been made for Celo and
  which count, before the probe and after. `FinalizedCorrect` needs that heights
  only grow, that a best height that was read stays below the head (`DepthInv`),
  and, as an explicit assumption, that the chain starts at the confirmations
  (`ChainIsDeep`): `ApiYoungChain.cfg` refutes it without.
  `FetchInv` says of every item of every batch what is
  known at its place: the block has the height it was asked for, a full item's
  logs are its block's, and a light batch that is not outdated was begun under a
  project with event handlers only, templates included. Reorganisations keep it
  because an item remembers the block it got.
- **`ProjectProofs`.** `GeneratedFilesCorrect` is proved of `GenerateAbis` by
  itself, with any sequence of generations: `GInv` relates, stage by stage, the
  runs that have ended to the factories, the listing and the indexes, and knows
  that after a stage began no run is left that could write an index.
  `ProjectGenerates` shows that `ProjectStart` implements `GenerateAbis`: what a
  project hands to it are files by their names (`AssetsOfProject`, where each name
  has a last place), and no other step touches them; `ProjectFilesAgree` is the
  consequence. `LoadedCorrect` rests on `IndexInv` - the project of the node is one
  that was valid on disk, resolved, and every dynamic datasource is valid - and on
  `DataSourceIsKept`: resolving custom types changes neither what a datasource is
  nor the keys of its filters. `DictionariesCorrect` rests on `TriedInv`, which
  says of the endpoints tried so far which dictionary each has become, if any.

  `AcceptedCorrect` and `OverloadsCorrect` are about what the recursive functions on
  parameters and the folds over custom types compute, for every ABI, any arrays and
  any nesting of tuples. The library's induction theorems take an operator, which
  the provers cannot instantiate, so the module has its own in the language of sets:
  of a set of elements that is not everything take one of the least rank. From it
  come recursion by rank (`TypeWordsAre`: a parameter has words), sequences joined
  or replaced word by word (`Concat`, `Spread`), and folds as the trace of their
  values (`FoldIsDefined`).
  `AcceptedCorrect` follows a filter from code generation to the node: what
  `validateAbi` accepted is a signature of the ABI (`AcceptedFilters`), and the node
  replaces no word of it. For that there are two cases: a library that drops
  `internalType` gives no custom type at all (`NothingExtracted`); with one that
  keeps it, what is looked for is the name of a struct or enum, which is no word of
  a type, and, by the condition `NamesAreApart` of the property, not the name of the
  event either (`WordsAreKept`).
  `OverloadsCorrect` has two parts. The arguments `inputsToArgs` writes are the words
  of the library for values in arrays of any kind, tuples and `tuple[]`, if the same
  holds of all that is within (`ArgIsType`, by induction on the nesting). And
  overloads without tuples get types of different names, because their arguments
  are written differently and replacing `[]` by `_arr` keeps that
  (`TypesAreNamedApart`, from `BracketsAreKept`).

Only model-checked: liveness, which needs `ENABLED` (`EverySendIsSettled` of both
clients, `CallerIsAnswered`, `OrphansAreRemoved`, `InitEnds`, `CallsEnd`).

## Not modelled

- Lazy receipts of `EthereumApi` (a handler may ask for one long after its block,
  when a reorganisation has removed it), the cache of ABI interfaces by name (which
  the code assumes never changes), and `disconnect`.
- `getNetwork` of the handlers' api, a cache of a value that does not change. That
  calls are pinned to a height and not to a block is inherent in block tags.
- Whether blocks fetched before an upgrade of the project are indexed under the
  new one, and the rest of `@subql/node-core`, except where a module names it as
  external.
- The end of the process by an exception that no promise catches, such as that of
  `gunzipSync` in `geturl.ts` for a damaged body: nothing comes after it.
- The templates that code generation renders, and the fields of a manifest that
  decide nothing.
- Workers: forwarding to the dispatcher of `@subql/node-core`, with no protocol of
  their own. Configuration: options and wiring; their values are constants here.
- Formatters of OP and Celo blocks: conversion of fields, one by one.
- `poll` of `web/index.ts`, which the node does not use.

Behaviour met on the way that no property is about: a full block without
transactions counts as a light one (`isFullBlock`), which the tests state as
intended; of two assets in files of one name only the last gets an interface
(`prepareSortedAssets`); a project whose last asset is gone keeps its old
interfaces. The first and the second are in the models as they are in the code.

## Plan

Order of the modules, most important first: the path of a request
(`BatchProvider`, `FetchData`, `ProviderCache`), then fork recovery
(`UnfinalizedBlocks`), then what is indexed (`Filters`, `DictionaryQuery`,
`Indexing`), then the api (`EthereumApi`, `BlockFetching`, `SafeCalls`), then the
project (`AbiSignatures`, `ProjectManifest`, `GenerateAbis`, `ProjectStart`).
These exist. What would come next:

1. Models: a client composed with the exchange below it, so that a timeout of one
   batch meets the batches beside it; the cache of ABI interfaces through an
   upgrade of the project, with `Indexing`; lazy receipts through a
   reorganisation, with `BlockFetching`.
2. Proofs: that `HandlerRuns` implements `Indexing`, block by block, and `SafeCalls`,
   so that the theorems about both carry over to the composition.
