------------------------------ MODULE RpcCalls ------------------------------
(***************************************************************************)
(* What a JSON-RPC provider promises its callers, whatever it does with    *)
(* batches, timers and retries: every call that is waiting is settled      *)
(* once, either rejected or resolved with a value that belongs to it.      *)
(* ethers' JsonRpcProvider.send(method, params) returns a promise of just  *)
(* this; JsonRpcBatchProvider is shown to implement it (BatchProvider).    *)
(***************************************************************************)
CONSTANTS
  Calls,      \* the callers' requests; one that is settled may be sent again
  Values      \* Values[c] is the set of values c may be resolved with

VARIABLE
  reply       \* what each caller's promise holds

Never    == [state |-> "never"]
Waiting  == [state |-> "waiting"]
Rejected == [state |-> "rejected"]
Resolved(v) == [state |-> "resolved", value |-> v]

Settled(c) == {Rejected} \cup {Resolved(v) : v \in Values[c]}

Init == reply = [c \in Calls |-> Never]

(* A call that is not waiting is sent: it waits, or is settled at once     *)
(* from a cache.                                                           *)
Send(c) ==
  /\ reply[c] # Waiting
  /\ \E r \in {Waiting} \cup Settled(c) : reply' = [reply EXCEPT ![c] = r]

(* A group of waiting calls is settled, every one of them.                 *)
Settle(S) ==
  /\ \A c \in S : reply[c] = Waiting
  /\ \E r \in [S -> UNION {Settled(c) : c \in S}] :
       /\ \A c \in S : r[c] \in Settled(c)
       /\ reply' = [c \in Calls |-> IF c \in S THEN r[c] ELSE reply[c]]

Next ==
  \/ \E c \in Calls : Send(c)
  \/ \E S \in (SUBSET Calls) \ {{}} : Settle(S)

Spec == Init /\ [][Next]_reply
=============================================================================
