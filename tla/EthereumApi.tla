----------------------------- MODULE EthereumApi -----------------------------
(***************************************************************************)
(* EthereumApi (ethereum/api.ethereum.ts) for one endpoint: the choice of  *)
(* the client and what it learns of the network (constructor, init), and   *)
(* the heights it then reports (getFinalizedBlock, getBestBlockHeight).    *)
(*                                                                         *)
(* An HTTP endpoint has two clients, one that batches and one that does    *)
(* not, and client names the one in use.  A client counts its calls once   *)
(* injectClient has wrapped its send, and formats blocks for Celo when it  *)
(* is one of the Celo providers.  How an endpoint answers arrays of        *)
(* requests decides which client works: it takes any, only those of one    *)
(* request, or none; a client that batches sends even one request in an    *)
(* array, and several at once while the api probes the network.            *)
(***************************************************************************)
EXTENDS Integers

CONSTANTS
  Protocols,       \* among "http" and "ws"
  Chains,          \* among "celo", "cronos" and "other"
  Confirmations,   \* blockConfirmations
  StartHeights,    \* the safe heights a chain may have at first
  MaxHeight,       \* bound on the head
  MaxSwitches      \* bound on the changes of client

ASSUME ApiAssumption ==
  /\ Protocols \subseteq {"http", "ws"} /\ Chains \subseteq {"celo", "cronos", "other"}
  /\ Confirmations \in Nat /\ MaxHeight \in Nat /\ MaxSwitches \in Nat
  /\ StartHeights \subseteq 0..MaxHeight

VARIABLES
  endpoint,              \* what the endpoint is: protocol, chain, arrays, batchSize
  clients, client,
  pc,
  supportsFinalization,  \* _supportsFinalization
  supportsSafe,          \* _supportsSafe
  switches,              \* how often the non-batch client was switched to
  head, safe, final,     \* the chain
  unfinalizedBlocks,
  best,                  \* the best height getFinalizedBlock has read
  finalizedBlock         \* the height getFinalizedBlock last returned

initVars   == <<clients, client, supportsFinalization, supportsSafe, switches>>
chainVars  == <<head, safe, final>>
apiVars == <<endpoint, initVars, pc, chainVars, unfinalizedBlocks, best, finalizedBlock>>

NoHeight == -1

Client(celo) == [celo |-> celo, counted |-> FALSE]

(* applyBatchSize with batchSize 0 takes the client that does not batch.   *)
Configured == IF endpoint.batchSize = 0 THEN "single" ELSE "batch"

Endpoints ==
  [protocol : Protocols, chain : Chains, arrays : {"any", "one", "none"}, batchSize : {0, 1}]

ApiInit ==
  /\ endpoint \in Endpoints
  /\ clients = [c \in {"batch", "single", "ws"} |-> Client(FALSE)]
  /\ client = IF endpoint.protocol = "ws" THEN "ws" ELSE Configured
  /\ pc = "inject"
  /\ supportsFinalization = TRUE /\ supportsSafe = TRUE
  /\ switches = 0
  /\ safe \in StartHeights /\ head \in safe..MaxHeight /\ final \in 0..safe
  /\ unfinalizedBlocks \in BOOLEAN
  /\ best = NoHeight /\ finalizedBlock = NoHeight

-----------------------------------------------------------------------------
InjectClient ==
  /\ pc = "inject"
  /\ clients' = [clients EXCEPT ![client].counted = TRUE]
  /\ pc' = "network"
  /\ UNCHANGED <<endpoint, client, supportsFinalization, supportsSafe, switches,
                 chainVars, unfinalizedBlocks, best, finalizedBlock>>

InitFails(at) ==
  /\ pc = at
  /\ pc' = "failed"
  /\ UNCHANGED <<endpoint, initVars, chainVars, unfinalizedBlocks, best, finalizedBlock>>

(* A mutant: the client that does not batch is left as it was.             *)
GetNetworkKeepingSingle ==
  /\ pc = "network"
  /\ client = "batch" => endpoint.arrays # "none"
  /\ IF endpoint.chain # "celo" THEN UNCHANGED <<clients, client>>
     ELSE IF client = "ws"
     THEN clients' = [clients EXCEPT !["ws"] = Client(TRUE)] /\ UNCHANGED client
     ELSE clients' = [clients EXCEPT !["batch"] = Client(TRUE)] /\ client' = Configured
  /\ pc' = "probe"
  /\ UNCHANGED <<endpoint, supportsFinalization, supportsSafe, switches,
                 chainVars, unfinalizedBlocks, best, finalizedBlock>>

(* getNetwork, and for Celo its own clients in place of the others.        *)
GetNetwork ==
  /\ pc = "network"
  /\ client = "batch" => endpoint.arrays # "none"
  /\ IF endpoint.chain # "celo" THEN UNCHANGED <<clients, client>>
     ELSE IF client = "ws"
     THEN clients' = [clients EXCEPT !["ws"] = Client(TRUE)] /\ UNCHANGED client
     ELSE /\ clients' = [clients EXCEPT !["batch"] = Client(TRUE), !["single"] = Client(TRUE)]
          /\ client' = Configured
  /\ pc' = "probe"
  /\ UNCHANGED <<endpoint, supportsFinalization, supportsSafe, switches,
                 chainVars, unfinalizedBlocks, best, finalizedBlock>>

(* The genesis block and the two tags; a tag that is not answered within   *)
(* two seconds, or with an error, is taken not to be supported.            *)
Probe ==
  /\ pc = "probe"
  /\ client = "batch" => endpoint.arrays = "any"
  /\ supportsFinalization' \in BOOLEAN
  /\ supportsSafe' \in BOOLEAN
  /\ pc' = "ready"
  /\ UNCHANGED <<endpoint, clients, client, switches,
                 chainVars, unfinalizedBlocks, best, finalizedBlock>>

(* A mutant: init goes on with the client at hand.                         *)
SwitchClientWithoutInit ==
  /\ pc = "probe"
  /\ client = "batch" /\ endpoint.arrays # "any"
  /\ switches < MaxSwitches
  /\ client' = "single"
  /\ switches' = switches + 1
  /\ pc' = "ready"
  /\ UNCHANGED <<endpoint, clients, supportsFinalization, supportsSafe,
                 chainVars, unfinalizedBlocks, best, finalizedBlock>>

(* A mutant: init is called again with the client that failed.             *)
SwitchClientKeepingClient ==
  /\ pc = "probe"
  /\ client = "batch" /\ endpoint.arrays # "any"
  /\ switches' = IF switches < MaxSwitches THEN switches + 1 ELSE switches
  /\ pc' = "inject"
  /\ UNCHANGED <<endpoint, clients, client, supportsFinalization, supportsSafe,
                 chainVars, unfinalizedBlocks, best, finalizedBlock>>

(* "Invalid response": the client that does not batch, and init again.     *)
SwitchClient ==
  /\ pc = "probe"
  /\ client = "batch" /\ endpoint.arrays # "any"
  /\ client' = "single"
  /\ switches' = IF switches < MaxSwitches THEN switches + 1 ELSE switches
  /\ pc' = "inject"
  /\ UNCHANGED <<endpoint, clients, supportsFinalization, supportsSafe,
                 chainVars, unfinalizedBlocks, best, finalizedBlock>>

-----------------------------------------------------------------------------
ChainAdvances ==
  /\ head' \in head..MaxHeight
  /\ safe' \in safe..head'
  /\ final' \in final..safe'
  /\ chainVars' # chainVars
  /\ UNCHANGED <<endpoint, initVars, pc, unfinalizedBlocks, best, finalizedBlock>>

(* The safe tag of Cronos is not used.                                     *)
SupportsSafe == supportsSafe /\ endpoint.chain # "cronos"

(* getBestBlockHeight *)
BestBlockHeight == IF ~unfinalizedBlocks /\ SupportsSafe THEN safe ELSE head

(* getFinalizedBlock by the tag ...                                        *)
GetFinalizedByTag ==
  /\ pc = "ready"
  /\ supportsFinalization
  /\ finalizedBlock' = final
  /\ UNCHANGED <<endpoint, initVars, pc, chainVars, unfinalizedBlocks, best>>

(* ... or by counting back from the best block.                            *)
ReadBest ==
  /\ pc = "ready"
  /\ ~supportsFinalization
  /\ best' = BestBlockHeight
  /\ pc' = "finalized"
  /\ UNCHANGED <<endpoint, initVars, chainVars, unfinalizedBlocks, finalizedBlock>>

(* getBlock of ethers: a negative number counts back from the head.        *)
NumberToHeight(n) == IF n >= 0 THEN n ELSE IF head + n > 0 THEN head + n ELSE 0

(* A mutant: the confirmations are counted from the head of the chain.     *)
GetFinalizedByNumberFromHead ==
  /\ pc = "finalized"
  /\ finalizedBlock' = NumberToHeight(-(Confirmations - 1))
  /\ best' = NoHeight
  /\ pc' = "ready"
  /\ UNCHANGED <<endpoint, initVars, chainVars, unfinalizedBlocks>>

GetFinalizedByNumber ==
  /\ pc = "finalized"
  /\ finalizedBlock' = NumberToHeight(best - Confirmations)
  /\ best' = NoHeight
  /\ pc' = "ready"
  /\ UNCHANGED <<endpoint, initVars, chainVars, unfinalizedBlocks>>

(* The block was not there (a node behind the others), or the request      *)
(* failed: getFinalizedBlock throws.                                       *)
GetFinalizedFails ==
  /\ pc = "finalized"
  /\ best' = NoHeight
  /\ pc' = "ready"
  /\ UNCHANGED <<endpoint, initVars, chainVars, unfinalizedBlocks, finalizedBlock>>

InitStep == InjectClient \/ GetNetwork \/ Probe \/ SwitchClient

ApiNext ==
  \/ InjectClient \/ GetNetwork \/ Probe \/ SwitchClient
  \/ InitFails("network") \/ InitFails("probe")
  \/ ChainAdvances
  \/ GetFinalizedByTag \/ ReadBest \/ GetFinalizedByNumber \/ GetFinalizedFails

ApiSpec == ApiInit /\ [][ApiNext]_apiVars

(* Requests are answered or fail: every step of init happens.              *)
FairSpec ==
  ApiSpec /\ WF_apiVars(InitStep \/ InitFails("network") \/ InitFails("probe"))

-----------------------------------------------------------------------------
(* Properties.                                                             *)

(* An api that is ready formats the blocks of its chain as they are: on    *)
(* Celo, and only there, with a Celo provider - also after a switch.       *)
FormatsItsChain ==
  pc \in {"ready", "finalized"} => (clients[client].celo <=> endpoint.chain = "celo")

(* From the switch to the client that does not batch on, nothing is        *)
(* batched, and the client that is used counts its calls (injectClient),   *)
(* though init has run twice with two clients.  Celo is apart: there init  *)
(* makes its clients anew (ApiSwitching, ApiCounting).                     *)
SwitchIsKept ==
  endpoint.chain # "celo" /\ pc \in {"ready", "finalized"} =>
    /\ switches > 0 => client = "single"
    /\ clients[client].counted

(* init ends: it is ready, or the endpoint is reported as unusable.  A     *)
(* Celo endpoint that refuses batches is apart for the same reason.        *)
InitEnds ==
  pc = "inject" /\ (endpoint.chain = "celo" => endpoint.arrays = "any")
    ~> pc \in {"ready", "failed"}

(* blockConfirmations is "how many blocks behind the head a block is       *)
(* considered finalized": a block that getFinalizedBlock returns is that   *)
(* deep, unless the chain itself has finalized it.                         *)
FinalizedIsBehindHead ==
  finalizedBlock > 0 => finalizedBlock <= head - Confirmations \/ finalizedBlock <= final

-----------------------------------------------------------------------------
(* What the repository says of init, and the code does not do on Celo.     *)

(* "eventEmitter - Used to monitor the number of RPC requests": the client *)
(* that is used counts its calls.                                          *)
RpcCallsAreCounted == pc \in {"ready", "finalized"} => clients[client].counted

(* "Switching to non-batch mode for subsequent requests": from the switch  *)
(* on, nothing is batched.                                                 *)
NonBatchAfterSwitch == switches > 0 => client = "single"
=============================================================================
