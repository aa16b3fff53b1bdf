---------------------------- MODULE BatchProvider ----------------------------
(***************************************************************************)
(* JsonRpcBatchProvider (ethereum/ethers/json-rpc-batch-provider.ts): the  *)
(* client that gathers eth_* calls into JSON-RPC batches.  A call joins    *)
(* the pending batch; the batch is posted by a 1 ms timer or as soon as it *)
(* outgrows batchSize; several posted batches may be in flight at once.    *)
(* When a batch is answered each call is settled from the payload with its *)
(* id, and batchSize follows the success rate of recent batches.           *)
(*                                                                         *)
(* A handler runs to completion (one JavaScript event loop), so each       *)
(* action below is one handler.  The server is the environment: it may     *)
(* answer in any order, leave calls out, repeat an id, or not answer.      *)
(***************************************************************************)
EXTENDS BatchSizing, Sequences, FiniteSets

CONSTANTS
  Calls,            \* the callers' requests; an id stands for its request
  ChainIdCalls,     \* those whose method is eth_chainId
  NoChainId,        \* the null of _chainIdCache
  Undefined,        \* the result of a payload with neither result nor error
  InitialSizes,     \* batch sizes the provider may start with
  Kinds,            \* kinds of payload the server may send
  MaxPayloads       \* bound on the payloads of one reply

AllKinds == {"result",      \* a result
             "empty",       \* neither result nor error
             "error",       \* an error about the request itself
             "limit",       \* an error naming a rate or size limit
             "malformed"}   \* an error object without a message

ASSUME CallsAssumption ==
  /\ ChainIdCalls \subseteq Calls
  /\ NoChainId \notin Calls \cup {Undefined}
ASSUME InitialSizesAssumption == InitialSizes \subseteq Nat \ {0}
ASSUME ReplyAssumption ==
  /\ Kinds \subseteq AllKinds
  /\ MaxPayloads \in Nat

VARIABLES
  reply,            \* what the promise of each call holds
  pendingBatch,     \* _pendingBatch (the empty sequence for null)
  aggregator,       \* _pendingBatchAggregator: is the timer armed?
  inflight,         \* batches posted and not yet answered
  batchSize,
  successCount,     \* successfulBatchCount
  failureCount,     \* failedBatchCount
  chainIdCache      \* _chainIdCache

vars == <<reply, pendingBatch, aggregator, inflight, batchSize,
          successCount, failureCount, chainIdCache>>

counters == <<batchSize, successCount, failureCount>>

-----------------------------------------------------------------------------
(* The values of the data.                                                 *)

(* The result of a payload is named after its id; two eth_chainId calls    *)
(* ask the same thing, so each may get the other's (cached) result.        *)
OwnValues(c) ==
  (IF c \in ChainIdCalls THEN ChainIdCalls ELSE {c}) \cup {Undefined}

Never       == [state |-> "never"]
Waiting     == [state |-> "waiting"]
Rejected    == [state |-> "rejected"]
Resolved(v) == [state |-> "resolved", value |-> v]

Replies ==
  {Never, Waiting, Rejected} \cup {Resolved(v) : v \in Calls \cup {Undefined}}

Payload == [id : Calls, kind : Kinds]

PayloadArrays == UNION {[1..n -> Payload] : n \in 0..MaxPayloads}

Items(batch) == {batch[i] : i \in 1..Len(batch)}

-----------------------------------------------------------------------------
CurrentCounts == Counts(batchSize, successCount, failureCount)

SetCounts(c) ==
  /\ batchSize' = c.size
  /\ successCount' = c.good
  /\ failureCount' = c.bad

-----------------------------------------------------------------------------
Init ==
  /\ reply = [c \in Calls |-> Never]
  /\ pendingBatch = <<>>
  /\ aggregator = FALSE
  /\ inflight = {}
  /\ batchSize \in InitialSizes
  /\ successCount = 0
  /\ failureCount = 0
  /\ chainIdCache = NoChainId

(* Mutants: the queue, or the timer's handle, is not cleared.              *)
RunRequestsKeepingQueue(batch) ==
  /\ aggregator' = FALSE
  /\ inflight' = inflight \cup {batch}
  /\ UNCHANGED pendingBatch
RunRequestsKeepingTimer(batch) ==
  /\ pendingBatch' = <<>>
  /\ inflight' = inflight \cup {batch}
  /\ aggregator' = TRUE

(* runRequests up to fetchJson: the batch leaves the queue and is posted.  *)
RunRequests(batch) ==
  /\ pendingBatch' = <<>>
  /\ aggregator' = FALSE
  /\ inflight' = inflight \cup {batch}

(* send, answered from the cache.                                          *)
SendCached(c) ==
  /\ reply[c] # Waiting
  /\ c \in ChainIdCalls
  /\ chainIdCache # NoChainId
  /\ reply' = [reply EXCEPT ![c] = Resolved(chainIdCache)]
  /\ UNCHANGED <<pendingBatch, aggregator, inflight, counters, chainIdCache>>

(* A mutant: only the timer posts a batch.                                 *)
SendQueuedWithoutFlush(c) ==
  /\ reply[c] # Waiting
  /\ c \in ChainIdCalls => chainIdCache = NoChainId
  /\ reply' = [reply EXCEPT ![c] = Waiting]
  /\ pendingBatch' = Append(pendingBatch, c)
  /\ aggregator' = TRUE
  /\ UNCHANGED <<inflight, counters, chainIdCache>>

(* send, queued: the timer is armed unless it is already, and a batch that *)
(* is now longer than batchSize is flushed at once.                        *)
SendQueued(c) ==
  /\ reply[c] # Waiting
  /\ c \in ChainIdCalls => chainIdCache = NoChainId
  /\ reply' = [reply EXCEPT ![c] = Waiting]
  /\ LET batch == Append(pendingBatch, c) IN
       IF Len(batch) > batchSize
       THEN RunRequests(batch)
       ELSE /\ pendingBatch' = batch
            /\ aggregator' = TRUE
            /\ UNCHANGED inflight
  /\ UNCHANGED <<counters, chainIdCache>>

(* The 1 ms timer fires.                                                   *)
TimerFires ==
  /\ aggregator
  /\ RunRequests(pendingBatch)
  /\ UNCHANGED <<reply, counters, chainIdCache>>

-----------------------------------------------------------------------------
(* The reply of a batch.                                                   *)

Arrived(batch) ==
  /\ batch \in inflight
  /\ inflight' = inflight \ {batch}
  /\ UNCHANGED <<pendingBatch, aggregator>>

(* A mutant: a failing batch rejects calls it does not hold.               *)
RejectEveryone(batch) ==
  /\ reply' = [c \in Calls |-> Rejected]
  /\ UNCHANGED chainIdCache

RejectAll(batch) ==
  /\ reply' = [c \in Calls |-> IF c \in Items(batch) THEN Rejected ELSE reply[c]]
  /\ UNCHANGED chainIdCache

(* fetchJson rejects: the catch clause; batch sizing is left alone.        *)
FetchFails(batch) ==
  /\ Arrived(batch)
  /\ RejectAll(batch)
  /\ UNCHANGED counters

(* An object instead of an array; only the message 'Batch size is too      *)
(* large' counts as a failure of the batch.                                *)
ObjectReply(batch) ==
  /\ Arrived(batch)
  /\ RejectAll(batch)
  /\ \/ SetCounts(AdjustBatchSize(CurrentCounts, FALSE))
     \/ UNCHANGED counters

(* A mutant: the rate limited batch shrinks the size at once, floor or not.*)
NullIdReplyShrinking(batch) ==
  /\ Arrived(batch)
  /\ RejectAll(batch)
  /\ SetCounts(Counts(batchSize - 1, 0, 0))

(* One payload with id null: BSC's reply to a rate limited batch.          *)
NullIdReply(batch) ==
  /\ Arrived(batch)
  /\ RejectAll(batch)
  /\ SetCounts(AdjustBatchSize(CurrentCounts, FALSE))

(* resultMap: the payload of a call is the last one with its id.           *)
PositionsOf(payloads, c) ==
  {i \in 1..Len(payloads) : payloads[i].id = c}

PayloadFor(payloads, c) ==
  LET at == PositionsOf(payloads, c) IN
  payloads[CHOOSE i \in at : \A j \in at : j <= i]

KindFor(payloads, c) ==
  IF PositionsOf(payloads, c) = {} THEN "missing"
  ELSE PayloadFor(payloads, c).kind

(* Reading .includes of a missing message throws: the calls from that one  *)
(* on are rejected by the catch clause, whatever their payload.            *)
Reached(batch, payloads) ==
  {i \in 1..Len(batch) :
     \A j \in 1..i : KindFor(payloads, batch[j]) # "malformed"}

ReachedCalls(batch, payloads) == {batch[i] : i \in Reached(batch, payloads)}

(* Mutants: payloads are matched by position; an exception leaves the      *)
(* calls after it open.                                                    *)
SettlementByPosition(batch, payloads, c) ==
  LET i == CHOOSE i \in 1..Len(batch) : batch[i] = c IN
  IF i > Len(payloads) THEN Rejected
  ELSE IF payloads[i].kind = "result" THEN Resolved(payloads[i].id)
  ELSE Rejected
SettlementWithoutCatch(batch, payloads, c) ==
  IF c \notin ReachedCalls(batch, payloads) THEN reply[c]
  ELSE IF KindFor(payloads, c) = "result" THEN Resolved(c)
  ELSE Rejected

Settlement(batch, payloads, c) ==
  LET kind == KindFor(payloads, c) IN
  IF c \notin ReachedCalls(batch, payloads) THEN Rejected
  ELSE IF kind = "result" THEN Resolved(PayloadFor(payloads, c).id)
  ELSE IF kind = "empty" THEN Resolved(Undefined)
  ELSE Rejected

CountLimits(batch, payloads) ==
  Cardinality({i \in Reached(batch, payloads) :
                 KindFor(payloads, batch[i]) = "limit"})

(* A mutant: a refused eth_chainId call writes null to the cache.          *)
CacheAfterAnyPayload(batch, payloads) ==
  LET writers == {i \in Reached(batch, payloads) : batch[i] \in ChainIdCalls}
      last == CHOOSE i \in writers : \A j \in writers : j <= i
  IN  IF writers = {} THEN chainIdCache
      ELSE IF KindFor(payloads, batch[last]) = "result" THEN batch[last]
      ELSE NoChainId

(* Every eth_chainId call that is answered writes the cache, so the last   *)
(* one in the batch wins; an empty payload writes null.                    *)
CacheAfter(batch, payloads) ==
  LET writers == {i \in Reached(batch, payloads) :
                    /\ batch[i] \in ChainIdCalls
                    /\ KindFor(payloads, batch[i]) \in {"result", "empty"}}
      last == CHOOSE i \in writers : \A j \in writers : j <= i
  IN  IF writers = {} THEN chainIdCache
      ELSE IF KindFor(payloads, batch[last]) = "result"
           THEN PayloadFor(payloads, batch[last]).id
      ELSE NoChainId

(* An array: one adjustBatchSize(false) for each call refused by a limit,  *)
(* then one adjustBatchSize(true), which an exception skips.               *)
ArrayReply(batch, payloads) ==
  /\ Arrived(batch)
  /\ reply' = [c \in Calls |-> IF c \in Items(batch)
                               THEN Settlement(batch, payloads, c)
                               ELSE reply[c]]
  /\ chainIdCache' = CacheAfter(batch, payloads)
  /\ LET failed == FailTimes(CurrentCounts, CountLimits(batch, payloads)) IN
       SetCounts(IF Reached(batch, payloads) = 1..Len(batch)
                 THEN AdjustBatchSize(failed, TRUE) ELSE failed)

BatchReply(batch) ==
  \/ FetchFails(batch)
  \/ ObjectReply(batch)
  \/ NullIdReply(batch)
  \/ \E payloads \in PayloadArrays : ArrayReply(batch, payloads)

Next ==
  \/ \E c \in Calls : SendCached(c)
  \/ \E c \in Calls : SendQueued(c)
  \/ TimerFires
  \/ \E batch \in inflight : FetchFails(batch)
  \/ \E batch \in inflight : ObjectReply(batch)
  \/ \E batch \in inflight : NullIdReply(batch)
  \/ \E batch \in inflight, payloads \in PayloadArrays :
       ArrayReply(batch, payloads)

Spec == Init /\ [][Next]_vars

(* Timers fire, and fetchJson settles every post (it has a timeout of its  *)
(* own, module FetchData).                                                 *)
Fairness ==
  /\ WF_vars(TimerFires)
  /\ \A c \in Calls :
       WF_vars(\E batch \in inflight : c \in Items(batch) /\ BatchReply(batch))

FairSpec == Spec /\ Fairness

-----------------------------------------------------------------------------
(* The properties.                                                         *)

(* Every variable keeps its type; the counters stay inside one interval    *)
(* and a batch size is never 0, which would make send post each call in a  *)
(* batch of one, nor above what growth or the configuration allows.        *)
TypeOK ==
  /\ reply \in [Calls -> Replies]
  /\ pendingBatch \in Seq(Calls)
  /\ aggregator \in BOOLEAN
  /\ inflight \in SUBSET Seq(Calls)
  /\ batchSize \in Nat \ {0}
  /\ \E size \in InitialSizes \cup {GrowthLimit} : batchSize <= size
  /\ successCount \in Nat
  /\ failureCount \in Nat
  /\ successCount + failureCount < Interval
  /\ chainIdCache \in ChainIdCalls \cup {NoChainId}

(* A call whose promise is open sits in exactly one place, once: in the    *)
(* pending batch or in one batch in flight (send, runRequests).  A call    *)
(* that sits nowhere would never be settled; one that sits twice would be  *)
(* posted twice.                                                           *)
OpenCallsAreQueuedOnce ==
  LET batches == inflight \cup {pendingBatch} IN
  /\ \A c \in Calls : reply[c] = Waiting <=> \E b \in batches : c \in Items(b)
  /\ \A b1, b2 \in batches : b1 # b2 => Items(b1) \cap Items(b2) = {}
  /\ \A b \in batches : \A i, j \in 1..Len(b) : b[i] = b[j] => i = j
  /\ pendingBatch \notin inflight

(* The timer is armed exactly while calls are pending, so none waits for a *)
(* timer that is not there and no empty batch is ever posted (flush and    *)
(* the timer both test and clear _pendingBatchAggregator).                 *)
TimerGuardsPending ==
  /\ aggregator <=> pendingBatch # <<>>
  /\ <<>> \notin inflight

(* A promise is resolved with the payload that carries its own id, however *)
(* the server orders, repeats or drops payloads; the chain id cache holds  *)
(* only what an eth_chainId call returned (resultMap, _chainIdCache).      *)
AnswersAreOwn ==
  /\ \A c \in Calls : \A v \in Calls \cup {Undefined} :
       reply[c] = Resolved(v) => v \in OwnValues(c)
  /\ chainIdCache \in ChainIdCalls \cup {NoChainId}

(* What send guarantees of the lengths of batches, though the size may     *)
(* shrink while calls are pending: the pending one is never longer than    *)
(* the largest size the provider may reach, a posted one by one call more. *)
BatchesAreBounded ==
  LET largest == InitialSizes \cup {GrowthLimit} IN
  /\ \E size \in largest : Len(pendingBatch) <= size
  /\ \A b \in inflight : \E size \in largest : Len(b) <= size + 1

(* Once the chain id is known the provider keeps it, replies to earlier    *)
(* eth_chainId calls arriving late included: only an empty answer to such  *)
(* a call (payload.result ?? null) makes it forget.                        *)
ChainIdIsKept ==
  [][chainIdCache # NoChainId /\ chainIdCache' = NoChainId =>
       \E c \in ChainIdCalls :
         reply[c] = Waiting /\ reply'[c] = Resolved(Undefined)]_vars

(* Every call that is sent is settled, whatever the server does.           *)
EverySendIsSettled ==
  \A c \in Calls : reply[c] = Waiting ~> reply[c] # Waiting

(* The provider implements the abstract service: a call is settled once,   *)
(* with a value of its own.                                                *)
Service == INSTANCE RpcCalls WITH Values <- [c \in Calls |-> OwnValues(c)]
ImplementsRpcCalls == Service!Spec

(* The comment on batchSizeAdjustmentInterval: "Adjust batch size after    *)
(* every 10 batches" - a batch that is settled counts once.                *)
OneCountPerBatch ==
  [][\A b \in inflight \ inflight' :
       LET before == successCount + failureCount
           after  == successCount' + failureCount'
       IN  after \in {before, (before + 1) % Interval}]_vars

(* The doc of the endpoint's batchSize: "The JSON RPC batch size" - a      *)
(* batch that is posted holds no more calls than the size in force.        *)
BatchSizeIsRespected ==
  [][\A b \in inflight' \ inflight : Len(b) <= batchSize]_vars
=============================================================================
