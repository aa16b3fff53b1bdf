---------------------------- MODULE BlockFetching ----------------------------
(***************************************************************************)
(* How blocks are fetched: the mode that the project allows                *)
(* (EthereumApiService.updateBlockFetching, isOnlyEventHandlers), and the  *)
(* two requests a full or a light block takes (EthereumApi.fetchBlock,     *)
(* fetchLightBlock).  A batch fetches its heights concurrently, batches    *)
(* overlap, and between any two requests the chain may reorganise and the  *)
(* project may change.                                                     *)
(***************************************************************************)
EXTENDS Naturals

CONSTANTS
  Fetchers,          \* the batches that may be in flight at once
  Heights,
  MaxVersion,        \* bound on the versions of the block at a height
  Projects,          \* the projects the node may be upgraded to
  SkipTransactions,  \* nodeConfig.skipTransactions
  Nodes              \* what eth_getLogs does, among AllNodes

(* A data source or a template: whether it is custom, and the kinds of     *)
(* handler it has.                                                         *)
DataSources == [custom : BOOLEAN, kinds : SUBSET {"event", "call", "block"}]

(* A node finds logs by the block hash, and for a hash it does not have    *)
(* fails or answers none; or it does not know the filter and answers as    *)
(* for the latest block.                                                   *)
AllNodes == {"fails", "none", "latest"}

ASSUME FetchingAssumption ==
  /\ Heights \subseteq Nat /\ Heights # {} /\ MaxVersion \in Nat
  /\ Projects \subseteq [dataSources : SUBSET DataSources, templates : SUBSET DataSources]
  /\ SkipTransactions \in BOOLEAN /\ Nodes \subseteq AllNodes

VARIABLES
  node,            \* what the endpoint does for eth_getLogs
  chain,           \* the block at each height
  project,
  dynamic,         \* the data sources created from templates
  fetchFunction,   \* fetchBlocksFunction: "full" or "light"
  fetches          \* the batches

vars == <<node, chain, project, dynamic, fetchFunction, fetches>>

(* A block stands for its hash too; whether it has a log is drawn with it. *)
Blocks == [height : Heights, version : 0..MaxVersion, logs : BOOLEAN]

(* A log is named after its block.                                         *)
LogsOf(block) == IF block.logs THEN {block} ELSE {}

Head == chain[CHOOSE h \in Heights : \A g \in Heights : g <= h]

Asked == [at |-> "block"]
AskedLogs(block) == [at |-> "logs", block |-> block]
Fetched(block, logs, mode) ==
  [at |-> "done", block |-> block, logs |-> logs, transactions |-> mode = "full"]

(* outdated: the project has changed since the batch was begun.            *)
Batch(state, mode, items, outdated) ==
  [state |-> state, mode |-> mode, items |-> items, outdated |-> outdated]
NoBatch == Batch("idle", "full", <<>>, FALSE)

-----------------------------------------------------------------------------
(* The mode.                                                               *)

ContainsNonEventHandlers(ds) == ds.custom \/ \E k \in ds.kinds : k # "event"

(* A mutant: the templates are left out.                                   *)
IsOnlyEventHandlersInDataSources(p) ==
  \A ds \in p.dataSources : ~ContainsNonEventHandlers(ds)

IsOnlyEventHandlers(p) ==
  \A ds \in p.dataSources \cup p.templates : ~ContainsNonEventHandlers(ds)

FetchFunction(p) ==
  IF SkipTransactions /\ IsOnlyEventHandlers(p) THEN "light" ELSE "full"

Init ==
  /\ node \in Nodes
  /\ chain \in [Heights -> Blocks]
  /\ \A h \in Heights : chain[h].height = h /\ chain[h].version = 0
  /\ project \in Projects
  /\ dynamic = {}
  /\ fetchFunction = FetchFunction(project)
  /\ fetches = [f \in Fetchers |-> NoBatch]

(* A mutant: the mode that the service started with stays.                 *)
ProjectChangesWithoutUpdate(p) ==
  /\ p # project
  /\ project' = p
  /\ dynamic' = dynamic \cap p.templates
  /\ fetches' = [f \in Fetchers |-> [fetches[f] EXCEPT !.outdated = TRUE]]
  /\ UNCHANGED <<node, chain, fetchFunction>>

(* onProjectChange.                                                        *)
ProjectChanges(p) ==
  /\ p # project
  /\ project' = p
  /\ dynamic' = dynamic \cap p.templates
  /\ fetchFunction' = FetchFunction(p)
  /\ fetches' = [f \in Fetchers |-> [fetches[f] EXCEPT !.outdated = TRUE]]
  /\ UNCHANGED <<node, chain>>

(* updateDynamicDs: a handler creates a data source from a template.       *)
DataSourceIsCreated ==
  /\ \E template \in project.templates \ dynamic : dynamic' = dynamic \cup {template}
  /\ UNCHANGED <<node, chain, project, fetchFunction, fetches>>

-----------------------------------------------------------------------------
(* A batch.                                                                *)

SetItem(f, h, item) ==
  fetches' = [fetches EXCEPT ![f].items[h] = item]

Mode(f) == fetches[f].mode
At(f, h, place) ==
  /\ fetches[f].state = "running"
  /\ h \in DOMAIN fetches[f].items
  /\ fetches[f].items[h].at = place

(* fetchBlocks: the fetch function is read once for the batch.             *)
BeginBatch(f, heights) ==
  /\ fetches[f].state # "running"
  /\ fetches' = [fetches EXCEPT
       ![f] = Batch("running", fetchFunction, [h \in heights |-> Asked], FALSE)]
  /\ UNCHANGED <<node, chain, project, dynamic, fetchFunction>>

(* getBlockPromise *)
GetBlock(f, h) ==
  /\ At(f, h, "block")
  /\ SetItem(f, h, AskedLogs(chain[h]))
  /\ UNCHANGED <<node, chain, project, dynamic, fetchFunction>>

(* eth_getLogs by the hash of the block.                                   *)
LogsByHash(block) == IF chain[block.height] = block THEN LogsOf(block) ELSE {}
LogsGiven(block)  == IF node = "latest" THEN LogsOf(Head) ELSE LogsByHash(block)

(* A mutant: logs are asked for by the number of the block.                *)
GetLogsByNumber(f, h) ==
  /\ At(f, h, "logs")
  /\ LET block == fetches[f].items[h].block
         logs  == IF node = "latest" THEN LogsOf(Head) ELSE LogsOf(chain[h])
     IN  /\ Mode(f) = "full" => logs \subseteq {block}
         /\ SetItem(f, h, Fetched(block, logs, Mode(f)))
  /\ UNCHANGED <<node, chain, project, dynamic, fetchFunction>>

(* A mutant: the block hash of the logs is not compared.                   *)
GetLogsUnchecked(f, h) ==
  /\ At(f, h, "logs")
  /\ LET block == fetches[f].items[h].block IN
       /\ node = "fails" => chain[h] = block
       /\ SetItem(f, h, Fetched(block, LogsGiven(block), Mode(f)))
  /\ UNCHANGED <<node, chain, project, dynamic, fetchFunction>>

(* getLogs, and for a full block the comparison of the block hashes: one   *)
(* foreign log and the block has failed.                                   *)
GetLogs(f, h) ==
  /\ At(f, h, "logs")
  /\ LET block == fetches[f].items[h].block
         logs  == LogsGiven(block)
     IN  /\ node = "fails" => chain[h] = block
         /\ Mode(f) = "full" => logs \subseteq {block}
         /\ SetItem(f, h, Fetched(block, logs, Mode(f)))
  /\ UNCHANGED <<node, chain, project, dynamic, fetchFunction>>

(* A request or a check fails, or there is no such block: the batch, and   *)
(* not only the block, has failed.                                         *)
FetchFails(f, h) ==
  /\ At(f, h, "block") \/ At(f, h, "logs")
  /\ fetches' = [fetches EXCEPT ![f] = NoBatch]
  /\ UNCHANGED <<node, chain, project, dynamic, fetchFunction>>

(* Promise.all: every block is there.                                      *)
EndBatch(f) ==
  /\ fetches[f].state = "running"
  /\ \A h \in DOMAIN fetches[f].items : fetches[f].items[h].at = "done"
  /\ fetches' = [fetches EXCEPT ![f].state = "done"]
  /\ UNCHANGED <<node, chain, project, dynamic, fetchFunction>>

(* The chain replaces its blocks from height h on.                         *)
Reorg(h) ==
  /\ \A g \in Heights : g >= h => chain[g].version < MaxVersion
  /\ chain' \in [Heights -> Blocks]
  /\ \A g \in Heights :
       IF g < h THEN chain'[g] = chain[g]
       ELSE chain'[g].height = g /\ chain'[g].version = chain[g].version + 1
  /\ UNCHANGED <<node, project, dynamic, fetchFunction, fetches>>

Next ==
  \/ \E p \in Projects : ProjectChanges(p)
  \/ DataSourceIsCreated
  \/ \E f \in Fetchers, heights \in (SUBSET Heights) \ {{}} : BeginBatch(f, heights)
  \/ \E f \in Fetchers, h \in Heights : GetBlock(f, h)
  \/ \E f \in Fetchers, h \in Heights : GetLogs(f, h)
  \/ \E f \in Fetchers, h \in Heights : FetchFails(f, h)
  \/ \E f \in Fetchers : EndBatch(f)
  \/ \E h \in Heights : Reorg(h)

Spec == Init /\ [][Next]_vars

-----------------------------------------------------------------------------
(* Properties.                                                             *)

Items(f) == {fetches[f].items[h] : h \in DOMAIN fetches[f].items}
Done(f)  == {i \in Items(f) : i.at = "done"}

(* A batch holds one item for each of its heights, and the fetch function  *)
(* is the one for the project in force (updateBlockFetching).              *)
TypeOK ==
  /\ node \in Nodes
  /\ chain \in [Heights -> Blocks] /\ \A h \in Heights : chain[h].height = h
  /\ project \in Projects /\ dynamic \subseteq project.templates
  /\ fetchFunction = FetchFunction(project)
  /\ \A f \in Fetchers :
       /\ fetches[f].state \in {"idle", "running", "done"}
       /\ fetches[f].mode \in {"full", "light"}
       /\ DOMAIN fetches[f].items \subseteq Heights
       /\ \A h \in DOMAIN fetches[f].items :
            LET item == fetches[f].items[h] IN
            /\ item.at \in {"block", "logs", "done"}
            /\ item.at # "block" => item.block \in Blocks /\ item.block.height = h
            /\ item.at = "done" => item.logs \subseteq Blocks

(* A full block carries no log of another block, whatever the node answers *)
(* and whatever the chain does between the two requests (fetchBlock).      *)
FullBlocksOwnTheirLogs ==
  \A f \in Fetchers : \A i \in Done(f) : i.transactions => i.logs \subseteq {i.block}

(* The same of a light block: the comment in fetchBlock, "Certain RPC may  *)
(* not accommodate for blockHash, and would return wrong logs", is about   *)
(* the request that fetchLightBlock makes as well.                         *)
LightBlocksOwnTheirLogs ==
  \A f \in Fetchers : \A i \in Done(f) : ~i.transactions => i.logs \subseteq {i.block}

(* With a node that fails on a hash it does not have, a block that is      *)
(* delivered has all of its logs, a reorganisation between the requests    *)
(* included: they are asked for by hash.                                   *)
LogsAreComplete ==
  node = "fails" =>
    \A f \in Fetchers : \A i \in Done(f) : i.logs = LogsOf(i.block)

(* A light block lacks nothing that a handler needs, those of the data     *)
(* sources yet to be created from templates included, unless the project   *)
(* has changed since it was asked for.                                     *)
LightBlocksSuffice ==
  \A f \in Fetchers : \A i \in Done(f) :
    ~i.transactions /\ ~fetches[f].outdated =>
      \A ds \in project.dataSources \cup dynamic : ~ContainsNonEventHandlers(ds)
=============================================================================
