---------------------------- MODULE ProviderCache ----------------------------
(***************************************************************************)
(* JsonRpcProvider (ethereum/ethers/json-rpc-provider.ts), the client that *)
(* does not batch: every call is a request of its own, but a call of a     *)
(* cached method shares the promise of the last request for it until a     *)
(* timer of 0 ms drops the promise.  The request may be answered before or *)
(* after the timer fires.                                                  *)
(***************************************************************************)
CONSTANTS
  Calls,           \* the callers' calls; the request of a call is named after it
  Method,          \* the method of each
  CachedMethods,   \* eth_chainId and eth_blockNumber
  None

ASSUME CacheAssumption == None \notin Calls /\ DOMAIN Method = Calls

VARIABLES
  reply,     \* what the promise of each call holds
  joined,    \* the request whose promise that is
  request,   \* what became of each request
  cache,     \* _cache: for each cached method the request it holds
  timers     \* the methods whose timer is armed

vars == <<reply, joined, request, cache, timers>>

Never    == [state |-> "never"]
Waiting  == [state |-> "waiting"]
Rejected == [state |-> "rejected"]
Resolved(v) == [state |-> "resolved", value |-> v]
Outcomes(c) == {Rejected, Resolved(Method[c])}   \* a result is named after its method

Init ==
  /\ reply = [c \in Calls |-> Never]
  /\ joined = [c \in Calls |-> None]
  /\ request = [c \in Calls |-> Never]
  /\ cache = [m \in CachedMethods |-> None]
  /\ timers = {}

Cached(c) == Method[c] \in CachedMethods /\ cache[Method[c]] # None

(* send of a method whose promise is there, settled or not.                *)
SendCached(c) ==
  /\ reply[c] # Waiting /\ Cached(c)
  /\ joined' = [joined EXCEPT ![c] = cache[Method[c]]]
  /\ reply' = [reply EXCEPT ![c] = request[cache[Method[c]]]]
  /\ UNCHANGED <<request, cache, timers>>

(* Mutants: every method is kept; one entry for all methods.               *)
KeepAnyMethod(c) ==
  /\ cache' = [m \in DOMAIN cache \cup {Method[c]} |-> IF m = Method[c] THEN c ELSE cache[m]]
  /\ timers' = timers \cup {Method[c]}
KeepForEveryMethod(c) ==
  /\ cache' = IF Method[c] \in CachedMethods THEN [m \in CachedMethods |-> c] ELSE cache
  /\ timers' = IF Method[c] \in CachedMethods THEN CachedMethods ELSE timers

(* The promise is kept, and its timer set.                                 *)
Keep(c) ==
  IF Method[c] \in CachedMethods
  THEN /\ cache' = [cache EXCEPT ![Method[c]] = c]
       /\ timers' = timers \cup {Method[c]}
  ELSE UNCHANGED <<cache, timers>>

(* send with a request of its own.                                         *)
Send(c) ==
  /\ reply[c] # Waiting /\ ~Cached(c)
  /\ joined' = [joined EXCEPT ![c] = c]
  /\ reply' = [reply EXCEPT ![c] = Waiting]
  /\ request' = [request EXCEPT ![c] = Waiting]
  /\ Keep(c)

(* A mutant: only the call that posted the request is settled.             *)
SettleOnePoster(r, outcome) ==
  /\ request[r] = Waiting
  /\ request' = [request EXCEPT ![r] = outcome]
  /\ reply' = [reply EXCEPT ![r] = outcome]
  /\ UNCHANGED <<joined, cache, timers>>

(* fetchJson and getResult settle the promise, for all who share it.       *)
Settle(r, outcome) ==
  /\ request[r] = Waiting
  /\ request' = [request EXCEPT ![r] = outcome]
  /\ reply' = [c \in Calls |-> IF joined[c] = r /\ reply[c] = Waiting
                             THEN outcome ELSE reply[c]]
  /\ UNCHANGED <<joined, cache, timers>>

TimerFires(m) ==
  /\ m \in timers
  /\ timers' = timers \ {m}
  /\ cache' = [cache EXCEPT ![m] = None]
  /\ UNCHANGED <<reply, joined, request>>

Next ==
  \/ \E c \in Calls : SendCached(c)
  \/ \E c \in Calls : Send(c)
  \/ \E r \in Calls : \E outcome \in Outcomes(r) : Settle(r, outcome)
  \/ \E m \in CachedMethods : TimerFires(m)

Spec == Init /\ [][Next]_vars

(* Timers fire, and fetchJson settles every post (FetchData).              *)
FairSpec ==
  /\ Spec
  /\ \A r \in Calls : WF_vars(\E outcome \in Outcomes(r) : Settle(r, outcome))
  /\ \A m \in CachedMethods : WF_vars(TimerFires(m))

-----------------------------------------------------------------------------
(* Properties.                                                             *)

Replies == {Never, Waiting, Rejected} \cup {Resolved(Method[c]) : c \in Calls}

TypeOK ==
  /\ reply \in [Calls -> Replies] /\ joined \in [Calls -> Calls \cup {None}]
  /\ request \in [Calls -> Replies]
  /\ cache \in [CachedMethods -> Calls \cup {None}]
  /\ timers \subseteq CachedMethods

(* A promise is in the cache exactly while its timer is armed: it is       *)
(* dropped, failed or not, and no timer drops the promise of a later turn. *)
TimerGuardsCache == \A m \in CachedMethods : cache[m] # None <=> m \in timers

(* A caller waits on a request that is under way and asks for its own      *)
(* method, though the caller that posted it may long have been sent again. *)
WaitingOnOwnRequest ==
  \A c \in Calls : reply[c] = Waiting =>
    joined[c] # None /\ request[joined[c]] = Waiting /\ Method[joined[c]] = Method[c]

(* The client implements the abstract service: every caller that shares a  *)
(* promise is settled with it, once, by a value of its own method.         *)
Service == INSTANCE RpcCalls WITH Values <- [c \in Calls |-> {Method[c]}]
ImplementsRpcCalls == Service!Spec

(* Every call that is sent is settled.                                     *)
EverySendIsSettled ==
  \A c \in Calls : reply[c] = Waiting ~> reply[c] # Waiting
=============================================================================
