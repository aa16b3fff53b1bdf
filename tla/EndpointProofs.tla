--------------------------- MODULE EndpointProofs ---------------------------
(***************************************************************************)
(* Proofs about an endpoint, as EthereumApi uses it.                       *)
(*                                                                         *)
(* EthereumApi, for any protocols, chains, heights and confirmations: what *)
(* init leaves behind once the api is ready, however often it was called   *)
(* again, and how deep a finalized block is.                               *)
(*                                                                         *)
(* BlockFetching, for any heights, projects, nodes, batches in flight and  *)
(* reorganisations: whose logs a block carries, that they are all there,   *)
(* and that a light block suffices.                                        *)
(***************************************************************************)
EXTENDS EthereumApi, BlockFetching, TLAPS

(***************************************************************************)
(* EthereumApi.                                                            *)
(***************************************************************************)

Names == {"batch", "single", "ws"}
Places == {"inject", "network", "probe", "ready", "finalized", "failed"}

(* The clients and the progress of init.                                   *)
ApiTypeOK ==
  /\ endpoint \in Endpoints
  /\ client \in Names
  /\ clients \in [Names -> [celo : BOOLEAN, counted : BOOLEAN]]
  /\ switches \in Nat
  /\ pc \in Places

(* A client is made for Celo only where the chain is, and there before     *)
(* init has gone past the network.                                         *)
ClientsFit ==
  /\ endpoint.chain # "celo" => \A c \in Names : ~clients[c].celo
  /\ pc \in {"probe", "ready", "finalized"} =>
       (clients[client].celo <=> endpoint.chain = "celo")

(* Away from Celo the client is the one that injectClient has wrapped,     *)
(* and after a switch it is the one that does not batch.                   *)
ClientIsKept ==
  endpoint.chain # "celo" =>
    /\ switches > 0 => client = "single"
    /\ pc \in {"network", "probe", "ready", "finalized"} => clients[client].counted

ClientInv == ApiTypeOK /\ ClientsFit /\ ClientIsKept

LEMMA ClientInit == ApiInit => ClientInv
  BY DEF ApiInit, ClientInv, ApiTypeOK, ClientsFit, ClientIsKept, Names, Places, Client, Configured

LEMMA ClientStep == ClientInv /\ [ApiNext]_apiVars => ClientInv'
<1> SUFFICES ASSUME ClientInv, [ApiNext]_apiVars PROVE ClientInv'
  OBVIOUS
<1> USE DEF ClientInv, ApiTypeOK, ClientsFit, ClientIsKept, Names, Places, chainVars
<1>1. CASE InjectClient
  BY <1>1 DEF InjectClient
<1>2. CASE GetNetwork
  <2>1. CASE endpoint.chain # "celo"
    BY <1>2, <2>1 DEF GetNetwork
  <2>2. CASE endpoint.chain = "celo" /\ client = "ws"
    <3>1. clients' = [clients EXCEPT !["ws"] = [celo |-> TRUE, counted |-> FALSE]]
      BY <1>2, <2>2 DEF GetNetwork, Client
    <3>2. clients'["ws"] = [celo |-> TRUE, counted |-> FALSE]
      BY <3>1
    <3>3. clients' \in [Names -> [celo : BOOLEAN, counted : BOOLEAN]]
      BY <3>1
    <3>4. UNCHANGED <<endpoint, client, switches>> /\ pc' = "probe"
      BY <1>2, <2>2 DEF GetNetwork
    <3>5. QED
      BY <2>2, <3>2, <3>3, <3>4
  <2>3. CASE endpoint.chain = "celo" /\ client # "ws"
    <3> DEFINE new == [celo |-> TRUE, counted |-> FALSE]
    <3>1. clients' = [clients EXCEPT !["batch"] = new, !["single"] = new]
      BY <1>2, <2>3 DEF GetNetwork, Client
    <3>2. clients'["batch"] = new /\ clients'["single"] = new
      BY <3>1
    <3>3. clients' \in [Names -> [celo : BOOLEAN, counted : BOOLEAN]]
      BY <3>1
    <3>4. UNCHANGED <<endpoint, switches>> /\ pc' = "probe" /\ client' \in {"batch", "single"}
      BY <1>2, <2>3 DEF GetNetwork, Configured
    <3>5. clients'[client'] = new
      BY <3>2, <3>4
    <3>6. QED
      BY <2>3, <3>3, <3>4, <3>5
  <2>4. QED
    BY <2>1, <2>2, <2>3
<1>3. CASE Probe
  BY <1>3 DEF Probe
<1>4. CASE SwitchClient
  BY <1>4, ApiAssumption DEF SwitchClient
<1>5. CASE InitFails("network") \/ InitFails("probe")
  BY <1>5 DEF InitFails, initVars
<1>6. CASE ChainAdvances
  BY <1>6 DEF ChainAdvances, initVars
<1>7. CASE GetFinalizedByTag
  BY <1>7 DEF GetFinalizedByTag, initVars
<1>8. CASE ReadBest
  BY <1>8 DEF ReadBest, initVars
<1>9. CASE GetFinalizedByNumber
  BY <1>9 DEF GetFinalizedByNumber, initVars
<1>10. CASE GetFinalizedFails
  BY <1>10 DEF GetFinalizedFails, initVars
<1>11. CASE UNCHANGED apiVars
  BY <1>11 DEF apiVars, initVars
<1>12. QED
  BY <1>1, <1>2, <1>3, <1>4, <1>5, <1>6, <1>7, <1>8, <1>9, <1>10, <1>11 DEF ApiNext

(* An api that is ready formats the blocks of its chain as they are, also  *)
(* when init has run again with another client (init).                     *)
THEOREM FormatCorrect == ApiSpec => []FormatsItsChain
<1>1. ClientInv => FormatsItsChain
  BY DEF ClientInv, ClientsFit, FormatsItsChain
<1>2. QED
  BY <1>1, ClientInit, ClientStep, PTL DEF ApiSpec

(* A switch to the client that does not batch is kept, and the client in   *)
(* use counts its calls, except on Celo (init, injectClient).              *)
THEOREM SwitchCorrect == ApiSpec => []SwitchIsKept
<1>1. ClientInv => SwitchIsKept
  BY DEF ClientInv, ClientIsKept, SwitchIsKept
<1>2. QED
  BY <1>1, ClientInit, ClientStep, PTL DEF ApiSpec

-----------------------------------------------------------------------------
(* The depth of a finalized block.                                         *)

(* A chain that starts deeper than the confirmations.                      *)
ChainIsDeep == \A h \in StartHeights : h >= Confirmations

HeightsOK ==
  /\ head \in Int /\ safe \in Int /\ final \in Int
  /\ best \in Int /\ finalizedBlock \in Int
  /\ final <= safe /\ safe <= head
  /\ safe >= Confirmations

(* The best height that was read stays between the confirmations and the   *)
(* head while the request for the block is under way.                      *)
BestIsDeep == pc = "finalized" => best >= Confirmations /\ best <= head

DepthInv == HeightsOK /\ BestIsDeep /\ FinalizedIsBehindHead

(* What is so deep below the head stays so while the head advances.        *)
LEMMA StaysDeep ==
  ASSUME NEW block \in Int, NEW height \in Int, NEW later \in Int, NEW depth \in Int,
         block <= height - depth, height <= later
  PROVE  block <= later - depth
  OBVIOUS

LEMMA DepthInit == ChainIsDeep /\ ApiInit => DepthInv
<1> SUFFICES ASSUME ChainIsDeep, ApiInit PROVE DepthInv
  OBVIOUS
<1>1. safe \in Nat /\ head \in Nat /\ final \in Nat
  BY ApiAssumption DEF ApiInit
<1>2. QED
  BY <1>1, ApiAssumption DEF ApiInit, ChainIsDeep, DepthInv, HeightsOK, BestIsDeep,
     FinalizedIsBehindHead, NoHeight

LEMMA DepthStep == DepthInv /\ [ApiNext]_apiVars => DepthInv'
<1> SUFFICES ASSUME DepthInv, [ApiNext]_apiVars PROVE DepthInv'
  OBVIOUS
<1> USE ApiAssumption DEF DepthInv, HeightsOK, BestIsDeep, FinalizedIsBehindHead, chainVars, NoHeight
<1>1. CASE InjectClient \/ GetNetwork \/ Probe \/ SwitchClient
  BY <1>1 DEF InjectClient, GetNetwork, Probe, SwitchClient
<1>2. CASE InitFails("network") \/ InitFails("probe")
  BY <1>2 DEF InitFails
<1>3. CASE ChainAdvances
  <2>1. /\ head' \in Int /\ head' >= head
        /\ safe' \in Int /\ safe' >= safe /\ safe' <= head'
        /\ final' \in Int /\ final' >= final /\ final' <= safe'
    BY <1>3 DEF ChainAdvances
  <2>2. pc' = pc /\ best' = best /\ finalizedBlock' = finalizedBlock
    BY <1>3 DEF ChainAdvances
  <2>3. HeightsOK' /\ BestIsDeep'
    BY <2>1, <2>2
  <2>4. FinalizedIsBehindHead'
    <3>1. CASE finalizedBlock <= head - Confirmations
      <4>1. finalizedBlock' <= head' - Confirmations
        <5>1. /\ finalizedBlock \in Int /\ head \in Int /\ head' \in Int
              /\ Confirmations \in Int /\ head <= head'
          BY <2>1
        <5>2. finalizedBlock <= head' - Confirmations
          BY <3>1, <5>1, StaysDeep
        <5>3. QED
          BY <2>2, <5>2
      <4>2. QED
        BY <4>1
    <3>2. CASE finalizedBlock <= final
      <4>1. finalizedBlock' <= final'
        BY <2>1, <2>2, <3>2
      <4>2. QED
        BY <4>1
    <3>3. CASE ~(finalizedBlock > 0)
      BY <2>2, <3>3
    <3>4. QED
      BY <3>1, <3>2, <3>3
  <2>5. QED
    BY <2>3, <2>4
<1>4. CASE GetFinalizedByTag
  BY <1>4 DEF GetFinalizedByTag
<1>5. CASE ReadBest
  <2>1. BestBlockHeight \in {safe, head}
    BY DEF BestBlockHeight
  <2>2. QED
    BY <1>5, <2>1 DEF ReadBest
<1>6. CASE GetFinalizedByNumber
  <2>1. NumberToHeight(best - Confirmations) = best - Confirmations
    BY <1>6 DEF GetFinalizedByNumber, NumberToHeight
  <2>2. QED
    BY <1>6, <2>1 DEF GetFinalizedByNumber
<1>7. CASE GetFinalizedFails
  BY <1>7 DEF GetFinalizedFails
<1>8. CASE UNCHANGED apiVars
  BY <1>8 DEF apiVars
<1>9. QED
  BY <1>1, <1>2, <1>3, <1>4, <1>5, <1>6, <1>7, <1>8 DEF ApiNext

(* On a chain deeper than the confirmations a block that is reported as    *)
(* finalized is that deep, or the chain itself has finalized it, for every *)
(* number of confirmations (getFinalizedBlock, getBestBlockHeight).        *)
THEOREM FinalizedCorrect ==
  ASSUME ChainIsDeep
  PROVE  ApiSpec => []FinalizedIsBehindHead
<1>1. ApiInit => DepthInv
  BY DepthInit
<1>2. DepthInv => FinalizedIsBehindHead
  BY DEF DepthInv
<1>3. QED
  BY <1>1, <1>2, DepthStep, PTL DEF ApiSpec

-----------------------------------------------------------------------------
(***************************************************************************)
(* BlockFetching.                                                          *)
(***************************************************************************)

(* The inductive invariant: what is known of the item of a batch at h.     *)
Fields == {"state", "mode", "items", "outdated"}

ItemOK(item, h, mode) ==
  /\ item.at \in {"block", "logs", "done"}
  /\ item.at # "block" => item.block \in Blocks /\ item.block.height = h
  /\ item.at = "done" =>
       /\ item.transactions <=> mode = "full"
       /\ mode = "full" => item.logs \subseteq {item.block}
       /\ node = "fails" => item.logs = LogsOf(item.block)

(* A light batch that is not outdated was begun under the project.         *)
BatchOK(batch) ==
  /\ DOMAIN batch = Fields
  /\ batch.state \in {"idle", "running", "done"}
  /\ batch.mode \in {"full", "light"}
  /\ batch.outdated \in BOOLEAN
  /\ DOMAIN batch.items \subseteq Heights
  /\ \A h \in DOMAIN batch.items : ItemOK(batch.items[h], h, batch.mode)
  /\ batch.mode = "light" /\ ~batch.outdated => IsOnlyEventHandlers(project)

ChainOK ==
  /\ node \in Nodes
  /\ chain \in [Heights -> Blocks] /\ \A h \in Heights : chain[h].height = h
ProjectOK ==
  /\ project \in Projects /\ dynamic \subseteq project.templates
  /\ fetchFunction = FetchFunction(project)
FetchesOK ==
  /\ DOMAIN fetches = Fetchers
  /\ \A f \in Fetchers : BatchOK(fetches[f])

FetchInv == ChainOK /\ ProjectOK /\ FetchesOK

-----------------------------------------------------------------------------
(* A batch that is not under way holds nothing.                            *)
LEMMA NoBatchOK == BatchOK(NoBatch)
  BY DEF BatchOK, NoBatch, Batch, Fields

LEMMA FetchInit == Init => FetchInv
<1> SUFFICES ASSUME Init PROVE FetchInv
  OBVIOUS
<1>1. ChainOK
  BY DEF Init, ChainOK
<1>2. ProjectOK
  BY DEF Init, ProjectOK
<1>3. FetchesOK
  BY NoBatchOK DEF Init, FetchesOK
<1>4. QED
  BY <1>1, <1>2, <1>3 DEF FetchInv

(* The item of one height is replaced by another that is as it should be.  *)
LEMMA ItemStep ==
  ASSUME FetchInv, NEW f \in Fetchers, NEW h \in Heights, NEW item,
         h \in DOMAIN fetches[f].items,
         SetItem(f, h, item),
         ItemOK(item, h, Mode(f)),
         UNCHANGED <<node, chain, project, dynamic, fetchFunction>>
  PROVE  FetchInv'
<1> DEFINE old == fetches[f]
           new == fetches'[f]
<1>1. BatchOK(old)
  BY DEF FetchInv, FetchesOK
<1>2. /\ DOMAIN fetches' = Fetchers
      /\ \A g \in Fetchers \ {f} : fetches'[g] = fetches[g]
      /\ new = [old EXCEPT !.items = [old.items EXCEPT ![h] = item]]
  BY DEF SetItem, FetchInv, FetchesOK
<1>3. /\ DOMAIN new = Fields
      /\ new.state = old.state /\ new.mode = old.mode /\ new.outdated = old.outdated
      /\ new.items = [old.items EXCEPT ![h] = item]
  BY <1>1, <1>2 DEF BatchOK, Fields
<1>4. \A g \in DOMAIN new.items : ItemOK(new.items[g], g, new.mode)
  BY <1>1, <1>3 DEF BatchOK, Mode
<1>5. BatchOK(new)
  <2>1. DOMAIN new.items \subseteq Heights
    BY <1>1, <1>3 DEF BatchOK
  <2>2. QED
    BY <1>1, <1>3, <1>4, <2>1 DEF BatchOK
<1>6. \A g \in Fetchers : BatchOK(fetches'[g])
  BY <1>2, <1>5 DEF FetchInv, FetchesOK
<1>7. \A g \in Fetchers : BatchOK(fetches[g])'
  BY <1>6 DEF BatchOK, ItemOK, IsOnlyEventHandlers
<1>8. QED
  BY <1>2, <1>7 DEF FetchInv, ChainOK, ProjectOK, FetchesOK, FetchFunction, IsOnlyEventHandlers

(* One batch is replaced by another that is as it should be.               *)
LEMMA BatchStep ==
  ASSUME FetchInv, NEW f \in Fetchers, NEW batch,
         fetches' = [fetches EXCEPT ![f] = batch],
         BatchOK(batch),
         UNCHANGED <<node, chain, project, dynamic, fetchFunction>>
  PROVE  FetchInv'
<1>1. DOMAIN fetches' = Fetchers /\ \A g \in Fetchers : BatchOK(fetches'[g])
  BY DEF FetchInv, FetchesOK
<1>2. \A g \in Fetchers : BatchOK(fetches[g])'
  BY <1>1 DEF BatchOK, ItemOK, IsOnlyEventHandlers
<1>3. QED
  BY <1>1, <1>2 DEF FetchInv, ChainOK, ProjectOK, FetchesOK, FetchFunction, IsOnlyEventHandlers

-----------------------------------------------------------------------------
(* Every step keeps the invariant: those that touch an item by ItemStep,   *)
(* those that replace a batch by BatchStep.                                *)
LEMMA FetchStep == FetchInv /\ [Next]_vars => FetchInv'
<1> SUFFICES ASSUME FetchInv, [Next]_vars PROVE FetchInv'
  OBVIOUS
<1>1. ASSUME NEW p \in Projects, ProjectChanges(p) PROVE FetchInv'
  <2> DEFINE after(f) == [fetches[f] EXCEPT !.outdated = TRUE]
  <2>1. fetches' = [f \in Fetchers |-> after(f)]
    BY <1>1 DEF ProjectChanges
  <2>2. \A f \in Fetchers : BatchOK(after(f))
    BY DEF FetchInv, FetchesOK, BatchOK, Fields
  <2>3. \A f \in Fetchers :
          /\ DOMAIN after(f) = Fields /\ after(f).outdated = TRUE
    BY DEF FetchInv, FetchesOK, BatchOK, Fields
  <2>4. UNCHANGED <<node, chain>>
    BY <1>1 DEF ProjectChanges
  <2>5. \A f \in Fetchers : BatchOK(fetches[f])'
    <3> SUFFICES ASSUME NEW f \in Fetchers PROVE BatchOK(fetches[f])'
      OBVIOUS
    <3>1. fetches'[f] = after(f)
      BY <2>1
    <3>2. BatchOK(after(f)) /\ after(f).outdated = TRUE
      BY <2>2, <2>3
    <3> HIDE DEF after
    <3>3. QED
      BY <3>1, <3>2, <2>4 DEF BatchOK, ItemOK
  <2>6. ChainOK' /\ ProjectOK'
    BY <1>1 DEF ProjectChanges, FetchInv, ChainOK, ProjectOK, FetchFunction, IsOnlyEventHandlers
  <2>7. QED
    BY <2>1, <2>5, <2>6 DEF FetchInv, FetchesOK
<1>2. CASE DataSourceIsCreated
  BY <1>2 DEF DataSourceIsCreated, FetchInv, ChainOK, ProjectOK, FetchesOK, BatchOK, ItemOK,
     IsOnlyEventHandlers, FetchFunction
<1>3. ASSUME NEW f \in Fetchers, NEW heights \in SUBSET Heights, BeginBatch(f, heights)
      PROVE  FetchInv'
  <2> DEFINE batch == Batch("running", fetchFunction, [h \in heights |-> Asked], FALSE)
  <2>1. BatchOK(batch)
    BY DEF BatchOK, Batch, Fields, ItemOK, Asked, FetchInv, ProjectOK, FetchFunction
  <2>2. QED
    BY <1>3, <2>1, BatchStep DEF BeginBatch
<1>4. ASSUME NEW f \in Fetchers, NEW h \in Heights, GetBlock(f, h) PROVE FetchInv'
  <2>1. ItemOK(AskedLogs(chain[h]), h, Mode(f))
    BY DEF ItemOK, AskedLogs, FetchInv, ChainOK
  <2>2. QED
    BY <1>4, <2>1, ItemStep DEF GetBlock, At
<1>5. ASSUME NEW f \in Fetchers, NEW h \in Heights, GetLogs(f, h) PROVE FetchInv'
  <2> DEFINE block == fetches[f].items[h].block
             item == Fetched(block, LogsGiven(block), Mode(f))
  <2>1. block \in Blocks /\ block.height = h
    BY <1>5 DEF GetLogs, At, FetchInv, FetchesOK, BatchOK, ItemOK
  <2>2. ItemOK(item, h, Mode(f))
    BY <1>5, <2>1 DEF ItemOK, Fetched, GetLogs, LogsGiven, LogsByHash
  <2>3. QED
    BY <1>5, <2>2, ItemStep DEF GetLogs, At
<1>6. ASSUME NEW f \in Fetchers, NEW h \in Heights, FetchFails(f, h) PROVE FetchInv'
  BY <1>6, NoBatchOK, BatchStep DEF FetchFails
<1>7. ASSUME NEW f \in Fetchers, EndBatch(f) PROVE FetchInv'
  <2> DEFINE batch == [fetches[f] EXCEPT !.state = "done"]
  <2>1. BatchOK(batch)
    BY DEF FetchInv, FetchesOK, BatchOK, Fields
  <2>2. QED
    BY <1>7, <2>1, BatchStep DEF EndBatch
<1>8. ASSUME NEW h \in Heights, Reorg(h) PROVE FetchInv'
  <2>1. \A g \in Heights : chain'[g].height = g
    BY <1>8 DEF Reorg, FetchInv, ChainOK
  <2>2. ChainOK' /\ ProjectOK'
    BY <1>8, <2>1 DEF Reorg, FetchInv, ChainOK, ProjectOK, FetchFunction, IsOnlyEventHandlers
  <2>3. FetchesOK'
    BY <1>8 DEF Reorg, FetchInv, FetchesOK, BatchOK, ItemOK, IsOnlyEventHandlers
  <2>4. QED
    BY <2>2, <2>3 DEF FetchInv
<1>9. CASE UNCHANGED vars
  BY <1>9 DEF vars, FetchInv, ChainOK, ProjectOK, FetchesOK, BatchOK, ItemOK, IsOnlyEventHandlers,
     FetchFunction
<1>10. QED
  BY <1>1, <1>2, <1>3, <1>4, <1>5, <1>6, <1>7, <1>8, <1>9 DEF Next

LEMMA FetchInvariant == Spec => []FetchInv
  BY FetchInit, FetchStep, PTL DEF Spec

-----------------------------------------------------------------------------
(* What is known of the items that are done.                               *)
LEMMA DoneItem ==
  ASSUME FetchInv, NEW f \in Fetchers, NEW item \in Done(f)
  PROVE  \E h \in DOMAIN fetches[f].items :
           /\ item = fetches[f].items[h] /\ item.at = "done"
           /\ BatchOK(fetches[f]) /\ ItemOK(item, h, fetches[f].mode)
  BY DEF Done, Items, FetchInv, FetchesOK, BatchOK

(* A full block carries no log of another block (fetchBlock compares the   *)
(* block hashes), for any node and any reorganisation between the two      *)
(* requests.                                                               *)
THEOREM FullBlocksCorrect == Spec => []FullBlocksOwnTheirLogs
<1>1. FetchInv => FullBlocksOwnTheirLogs
  BY DoneItem DEF FullBlocksOwnTheirLogs, ItemOK
<1>2. QED
  BY <1>1, FetchInvariant, PTL

(* With a node that fails on a hash it does not have, fetchBlock and       *)
(* fetchLightBlock deliver all of the logs of the block.                   *)
THEOREM LogsCorrect == Spec => []LogsAreComplete
<1>1. FetchInv => LogsAreComplete
  BY DoneItem DEF LogsAreComplete, ItemOK
<1>2. QED
  BY <1>1, FetchInvariant, PTL

(* A light block lacks nothing that a handler needs, while the project is  *)
(* the one under which updateBlockFetching chose light blocks.             *)
THEOREM LightCorrect == Spec => []LightBlocksSuffice
<1>1. FetchInv => LightBlocksSuffice
  <2> SUFFICES ASSUME FetchInv, NEW f \in Fetchers, NEW item \in Done(f),
                      ~item.transactions, ~fetches[f].outdated,
                      NEW ds \in project.dataSources \cup dynamic
               PROVE  ~ContainsNonEventHandlers(ds)
    BY DEF LightBlocksSuffice
  <2>1. fetches[f].mode = "light" /\ BatchOK(fetches[f])
    BY DoneItem DEF BatchOK, ItemOK
  <2>2. IsOnlyEventHandlers(project)
    BY <2>1 DEF BatchOK
  <2>3. dynamic \subseteq project.templates
    BY DEF FetchInv, ProjectOK
  <2>4. QED
    BY <2>2, <2>3 DEF IsOnlyEventHandlers
<1>2. QED
  BY <1>1, FetchInvariant, PTL
=============================================================================
