------------------------------ MODULE SafeCalls ------------------------------
(***************************************************************************)
(* The api that handlers are given (EthereumApiService.safeApi and         *)
(* SafeEthProvider in ethereum/safe-api.ts): calls that are pinned to the  *)
(* height of the block being indexed, and are tried again at another       *)
(* endpoint when a request fails.  A handler may leave calls unawaited, so *)
(* those of one block may still be under way in the next.                  *)
(***************************************************************************)
EXTENDS Integers

CONSTANTS
  Endpoints,
  Calls,
  Heights,      \* the heights of the blocks that are indexed
  MaxRetries    \* maxRetries (5 in the code)

ASSUME SafeCallsAssumption ==
  /\ Heights \subseteq Nat
  /\ MaxRetries \in Nat \ {0}

VARIABLES
  connected,   \* the endpoints in the connection pool
  height,      \* the block being indexed
  target,      \* the endpoint of the provider its handlers were given
  calls        \* the calls

callsVars == <<connected, height, target, calls>>

NoBlock == -1

(* A call: its height; the endpoint and the height of the request that is  *)
(* out; how many have failed.  (block is the one it was made in.)          *)
Idle == [state |-> "idle"]
Requesting(block, endpoint, pin, retries) ==
  [state |-> "requesting", block |-> block, endpoint |-> endpoint,
   pin |-> pin, retries |-> retries]
Resolved(block, pin) == [state |-> "resolved", block |-> block, pin |-> pin]
(* An error of the request ("transient": a code in retryErrorCodes), of    *)
(* the call itself ("final"), or of a pool that has no endpoint.           *)
Rejected(error, requests) ==
  [state |-> "rejected", error |-> error, requests |-> requests]

CallsInit ==
  /\ connected \in SUBSET Endpoints
  /\ height = NoBlock
  /\ target \in Endpoints
  /\ calls = [c \in Calls |-> Idle]

Settle(c, result) == calls' = [calls EXCEPT ![c] = result]

-----------------------------------------------------------------------------
(* The pool gains and loses endpoints.                                     *)
PoolChanges ==
  /\ connected' \in (SUBSET Endpoints) \ {connected}
  /\ UNCHANGED <<height, target, calls>>

(* safeApi(height): a provider on the endpoint that the pool offers.       *)
NextBlock ==
  /\ \E h \in Heights : h > height /\ height' = h
  /\ target' \in connected
  /\ UNCHANGED <<connected, calls>>

(* getBalance, getTransactionCount, getCode, getStorageAt, call: at the    *)
(* height of the provider, whatever block tag the handler gave.            *)
CallPinned(c) ==
  /\ height # NoBlock
  /\ calls[c].state # "requesting"
  /\ Settle(c, Requesting(height, target, height, 0))
  /\ UNCHANGED <<connected, height, target>>

(* The other methods throw, with no code.                                  *)
CallUnsupported(c) ==
  /\ height # NoBlock
  /\ calls[c].state # "requesting"
  /\ Settle(c, Rejected("final", 0))
  /\ UNCHANGED <<connected, height, target>>

RequestSucceeds(c) ==
  /\ calls[c].state = "requesting"
  /\ Settle(c, Resolved(calls[c].block, calls[c].pin))
  /\ UNCHANGED <<connected, height, target>>

RequestRefused(c) ==
  /\ calls[c].state = "requesting"
  /\ Settle(c, Rejected("final", calls[c].retries + 1))
  /\ UNCHANGED <<connected, height, target>>

(* Mutants: the retry reads at the height of the moment; it is not         *)
(* counted; it gives up too soon, or never.                                *)
RetryAtCurrentHeight(c, e) ==
  IF calls[c].retries + 1 < MaxRetries
  THEN Requesting(calls[c].block, e, height, calls[c].retries + 1)
  ELSE Rejected("transient", calls[c].retries + 1)
RetryUncounted(c, e) ==
  Requesting(calls[c].block, e, calls[c].pin, calls[c].retries)
RetryTooFew(c, e) ==
  IF calls[c].retries + 2 < MaxRetries
  THEN Requesting(calls[c].block, e, calls[c].pin, calls[c].retries + 1)
  ELSE Rejected("transient", calls[c].retries + 1)

RetryUnlimited(c, e) ==
  Requesting(calls[c].block, e, calls[c].pin, calls[c].retries + 1)

(* After a failed request: another at endpoint e, at the same height, or   *)
(* after maxRetries the error.                                             *)
Retry(c, e) ==
  IF calls[c].retries + 1 < MaxRetries
  THEN Requesting(calls[c].block, e, calls[c].pin, calls[c].retries + 1)
  ELSE Rejected("transient", calls[c].retries + 1)

(* A provider is taken from the pool before the retries are counted, so    *)
(* without an endpoint the error is the pool's.                            *)
RequestFails(c) ==
  /\ calls[c].state = "requesting"
  /\ IF connected = {} THEN Settle(c, Rejected("pool", calls[c].retries + 1))
     ELSE \E e \in connected : Settle(c, Retry(c, e))
  /\ UNCHANGED <<connected, height, target>>

CallsNext ==
  \/ PoolChanges
  \/ NextBlock
  \/ \E c \in Calls : CallPinned(c)
  \/ \E c \in Calls : CallUnsupported(c)
  \/ \E c \in Calls : RequestSucceeds(c)
  \/ \E c \in Calls : RequestRefused(c)
  \/ \E c \in Calls : RequestFails(c)

CallsSpec == CallsInit /\ [][CallsNext]_callsVars

-----------------------------------------------------------------------------
(* Properties.                                                             *)

CallsTypeOK ==
  /\ connected \subseteq Endpoints
  /\ height \in Heights \cup {NoBlock}
  /\ target \in Endpoints
  /\ calls \in [Calls ->
       {Idle}
         \cup {Requesting(b, e, p, n) : b \in Heights, e \in Endpoints,
                                        p \in Heights, n \in 0..MaxRetries - 1}
         \cup {Resolved(b, p) : b \in Heights, p \in Heights}
         \cup {Rejected(x, n) : x \in {"transient", "final", "pool"}, n \in 0..MaxRetries}]

(* A handler of one block never reads the state at another: every request  *)
(* of a call, the retries at other endpoints included, and also when the   *)
(* node has moved on meanwhile, is at the height of the block the call was *)
(* made in (safeApi's height, SafeEthProvider's blockHeight).              *)
CallsStayAtTheirBlock ==
  \A c \in Calls :
    calls[c].state \in {"requesting", "resolved"} => calls[c].pin = calls[c].block

(* A handler sees the failure of a request only after maxRetries of them   *)
(* have failed: "Maximum retries exceeded".                                *)
TransientErrorsAreRetried ==
  \A c \in Calls :
    calls[c].state = "rejected" /\ calls[c].error = "transient" =>
      calls[c].requests = MaxRetries

(* Every call ends, however many requests fail and endpoints come and go.  *)
CallsEnd ==
  \A c \in Calls : calls[c].state = "requesting" ~> calls[c].state # "requesting"
=============================================================================
