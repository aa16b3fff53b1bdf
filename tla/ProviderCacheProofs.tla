------------------------- MODULE ProviderCacheProofs -------------------------
(***************************************************************************)
(* Proofs about ProviderCache: for all calls, methods and cached methods.  *)
(***************************************************************************)
EXTENDS ProviderCache, TLAPS

(* What a promise of call c can hold.                                      *)
OwnStates(c) == {Never, Waiting} \cup Outcomes(c)

(* The inductive invariant.  A promise in the cache is that of a request   *)
(* for its method, posted, whether answered or not; and every promise      *)
(* holds an outcome of its own method.                                     *)
OwnOutcomes ==
  /\ reply \in [Calls -> UNION {OwnStates(c) : c \in Calls}]
  /\ \A c \in Calls : reply[c] \in OwnStates(c)
  /\ request \in [Calls -> UNION {OwnStates(c) : c \in Calls}]
  /\ \A r \in Calls : request[r] \in OwnStates(r)

CachedIsPosted ==
  \A m \in CachedMethods : cache[m] # None =>
    Method[cache[m]] = m /\ request[cache[m]] # Never

Shape ==
  /\ joined \in [Calls -> Calls \cup {None}]
  /\ cache \in [CachedMethods -> Calls \cup {None}]
  /\ timers \subseteq CachedMethods

IInv ==
  /\ Shape /\ OwnOutcomes /\ CachedIsPosted
  /\ TimerGuardsCache /\ WaitingOnOwnRequest

(* The values a promise may hold are different ones.                       *)
LEMMA StatesDiffer ==
  ASSUME NEW c, NEW s \in Outcomes(c)
  PROVE  s # Waiting /\ s # Never /\ Waiting # Never
BY DEF Outcomes, Rejected, Resolved, Waiting, Never

LEMMA NeverIsNotWaiting == Never # Waiting
BY DEF Never, Waiting

(* Outcomes go by the method alone.                                        *)
LEMMA SameMethodSameStates ==
  ASSUME NEW c, NEW d, Method[c] = Method[d]
  PROVE  OwnStates(c) = OwnStates(d) /\ Outcomes(c) = Outcomes(d)
BY DEF OwnStates, Outcomes, Resolved

(* A call that is answered from the cache shares a request of its method.  *)
LEMMA CachedRequest ==
  ASSUME IInv, NEW c \in Calls, Cached(c)
  PROVE  LET r == cache[Method[c]]
         IN  /\ r \in Calls /\ Method[r] = Method[c]
             /\ request[r] \in {Waiting} \cup Outcomes(c)
<1> DEFINE r == cache[Method[c]]
<1>1. Method[c] \in CachedMethods /\ r # None
  BY DEF Cached
<1>2. r \in Calls
  BY <1>1 DEF IInv, Shape
<1>3. Method[r] = Method[c] /\ request[r] # Never
  BY <1>1 DEF IInv, CachedIsPosted
<1>4. request[r] \in OwnStates(c)
  BY <1>2, <1>3, SameMethodSameStates DEF IInv, OwnOutcomes
<1> QED
  BY <1>2, <1>3, <1>4 DEF OwnStates

-----------------------------------------------------------------------------
LEMMA InitIInv == Init => IInv
<1> SUFFICES ASSUME Init PROVE IInv
  OBVIOUS
<1>1. Shape /\ CachedIsPosted /\ TimerGuardsCache
  BY DEF Init, Shape, CachedIsPosted, TimerGuardsCache
<1>2. OwnOutcomes
  BY DEF Init, OwnOutcomes, OwnStates
<1>3. WaitingOnOwnRequest
  BY NeverIsNotWaiting DEF Init, WaitingOnOwnRequest
<1> QED
  BY <1>1, <1>2, <1>3 DEF IInv

LEMMA SendCachedIInv ==
  ASSUME IInv, NEW c \in Calls, SendCached(c) PROVE IInv'
<1> DEFINE r == cache[Method[c]]
<1>1. r \in Calls /\ Method[r] = Method[c] /\ request[r] \in {Waiting} \cup Outcomes(c)
  BY CachedRequest DEF SendCached
<1>2. /\ joined' = [joined EXCEPT ![c] = r] /\ reply' = [reply EXCEPT ![c] = request[r]]
      /\ UNCHANGED <<request, cache, timers>>
  BY DEF SendCached
<1>3. Shape'
  BY <1>1, <1>2 DEF IInv, Shape
<1>4. OwnOutcomes'
  BY <1>1, <1>2 DEF IInv, OwnOutcomes, OwnStates
<1>5. CachedIsPosted' /\ TimerGuardsCache'
  BY <1>2 DEF IInv, CachedIsPosted, TimerGuardsCache
<1>6. WaitingOnOwnRequest'
  <2> SUFFICES ASSUME NEW d \in Calls, reply'[d] = Waiting
               PROVE  /\ joined'[d] # None /\ request'[joined'[d]] = Waiting
                      /\ Method[joined'[d]] = Method[d]
    BY DEF WaitingOnOwnRequest
  <2>1. CASE d = c
    BY <1>1, <1>2, <2>1, CacheAssumption DEF IInv, Shape, OwnOutcomes
  <2>2. CASE d # c
    BY <1>2, <2>2 DEF IInv, Shape, OwnOutcomes, WaitingOnOwnRequest
  <2> QED
    BY <2>1, <2>2
<1> QED
  BY <1>3, <1>4, <1>5, <1>6 DEF IInv

LEMMA SendIInv ==
  ASSUME IInv, NEW c \in Calls, Send(c) PROVE IInv'
<1>1. /\ joined' = [joined EXCEPT ![c] = c] /\ reply' = [reply EXCEPT ![c] = Waiting]
      /\ request' = [request EXCEPT ![c] = Waiting] /\ Keep(c)
  BY DEF Send
<1>2. Shape'
  BY <1>1 DEF IInv, Shape, Keep
<1>3. OwnOutcomes'
  BY <1>1 DEF IInv, OwnOutcomes, OwnStates
<1>4. CachedIsPosted'
  BY <1>1, NeverIsNotWaiting DEF IInv, Shape, OwnOutcomes, CachedIsPosted, Keep
<1>5. TimerGuardsCache'
  BY <1>1, CacheAssumption DEF IInv, Shape, TimerGuardsCache, Keep
<1>6. WaitingOnOwnRequest'
  <2> SUFFICES ASSUME NEW d \in Calls, reply'[d] = Waiting
               PROVE  /\ joined'[d] # None /\ request'[joined'[d]] = Waiting
                      /\ Method[joined'[d]] = Method[d]
    BY DEF WaitingOnOwnRequest
  <2>1. CASE d = c
    BY <1>1, <2>1, CacheAssumption DEF IInv, Shape, OwnOutcomes
  <2>2. CASE d # c
    BY <1>1, <2>2 DEF IInv, Shape, OwnOutcomes, WaitingOnOwnRequest
  <2> QED
    BY <2>1, <2>2
<1> QED
  BY <1>2, <1>3, <1>4, <1>5, <1>6 DEF IInv

LEMMA SettleIInv ==
  ASSUME IInv, NEW r \in Calls, NEW outcome \in Outcomes(r), Settle(r, outcome)
  PROVE  IInv'
<1>1. /\ request' = [request EXCEPT ![r] = outcome]
      /\ reply' = [c \in Calls |-> IF joined[c] = r /\ reply[c] = Waiting
                                   THEN outcome ELSE reply[c]]
      /\ UNCHANGED <<joined, cache, timers>>
  BY DEF Settle
<1>2. outcome # Waiting /\ outcome # Never
  BY StatesDiffer
<1>3. Shape' /\ TimerGuardsCache'
  BY <1>1 DEF IInv, Shape, TimerGuardsCache
<1>4. OwnOutcomes'
  <2>1. ASSUME NEW c \in Calls PROVE reply'[c] \in OwnStates(c)
    <3>1. CASE joined[c] = r /\ reply[c] = Waiting
      <4>1. Method[r] = Method[c]
        BY <3>1 DEF IInv, WaitingOnOwnRequest
      <4>2. outcome \in OwnStates(c)
        BY <4>1, SameMethodSameStates DEF OwnStates
      <4> QED
        BY <1>1, <3>1, <4>2
    <3>2. CASE ~(joined[c] = r /\ reply[c] = Waiting)
      BY <1>1, <3>2 DEF IInv, OwnOutcomes
    <3> QED
      BY <3>1, <3>2
  <2>2. ASSUME NEW c \in Calls PROVE request'[c] \in OwnStates(c)
    BY <1>1 DEF IInv, OwnOutcomes, OwnStates
  <2>3. DOMAIN reply' = Calls /\ DOMAIN request' = Calls
    BY <1>1 DEF IInv, OwnOutcomes
  <2>4. /\ reply' = [c \in Calls |-> reply'[c]]
        /\ request' = [c \in Calls |-> request'[c]]
    BY <1>1, <2>3 DEF IInv, OwnOutcomes
  <2>5. /\ reply' \in [Calls -> UNION {OwnStates(c) : c \in Calls}]
        /\ request' \in [Calls -> UNION {OwnStates(c) : c \in Calls}]
    BY <2>1, <2>2, <2>4
  <2> QED
    BY <2>1, <2>2, <2>5 DEF OwnOutcomes, OwnStates, Outcomes
<1>5. CachedIsPosted'
  BY <1>1, <1>2 DEF IInv, Shape, OwnOutcomes, CachedIsPosted
<1>6. WaitingOnOwnRequest'
  <2> SUFFICES ASSUME NEW d \in Calls, reply'[d] = Waiting
               PROVE  /\ joined'[d] # None /\ request'[joined'[d]] = Waiting
                      /\ Method[joined'[d]] = Method[d]
    BY DEF WaitingOnOwnRequest
  <2>1. reply[d] = Waiting /\ joined[d] # r
    BY <1>1, <1>2
  <2>2. joined[d] # None /\ request[joined[d]] = Waiting /\ Method[joined[d]] = Method[d]
    BY <2>1 DEF IInv, WaitingOnOwnRequest
  <2> QED
    BY <1>1, <2>1, <2>2 DEF IInv, Shape, OwnOutcomes
<1> QED
  BY <1>3, <1>4, <1>5, <1>6 DEF IInv

LEMMA TimerFiresIInv ==
  ASSUME IInv, NEW m \in CachedMethods, TimerFires(m) PROVE IInv'
<1>1. /\ timers' = timers \ {m} /\ cache' = [cache EXCEPT ![m] = None]
      /\ UNCHANGED <<reply, joined, request>>
  BY DEF TimerFires
<1>2. Shape' /\ OwnOutcomes' /\ WaitingOnOwnRequest'
  BY <1>1 DEF IInv, Shape, OwnOutcomes, WaitingOnOwnRequest, OwnStates, Outcomes
<1>3. CachedIsPosted'
  BY <1>1 DEF IInv, Shape, CachedIsPosted
<1>4. TimerGuardsCache'
  BY <1>1 DEF IInv, Shape, TimerGuardsCache
<1> QED
  BY <1>2, <1>3, <1>4 DEF IInv

LEMMA StepIInv == IInv /\ [Next]_vars => IInv'
<1> SUFFICES ASSUME IInv, [Next]_vars PROVE IInv'
  OBVIOUS
<1>1. CASE UNCHANGED vars
  BY <1>1 DEF vars, IInv, Shape, OwnOutcomes, CachedIsPosted, TimerGuardsCache,
              WaitingOnOwnRequest, OwnStates, Outcomes
<1> QED
  BY <1>1, SendCachedIInv, SendIInv, SettleIInv, TimerFiresIInv DEF Next

LEMMA AlwaysIInv == Spec => []IInv
BY InitIInv, StepIInv, PTL DEF Spec

(* Every promise, request and cache entry keeps its kind (send).           *)
THEOREM CacheTypeCorrect == Spec => []TypeOK
<1>1. ASSUME NEW c \in Calls PROVE OwnStates(c) \subseteq Replies
  BY DEF OwnStates, Outcomes, Replies
<1>2. IInv => TypeOK
  BY <1>1 DEF IInv, Shape, OwnOutcomes, TypeOK
<1> QED
  BY <1>2, AlwaysIInv, PTL

(* A promise is in the cache exactly while the timer that drops it is      *)
(* armed (send's setTimeout).                                              *)
THEOREM TimersCorrect == Spec => []TimerGuardsCache
<1>1. IInv => TimerGuardsCache
  BY DEF IInv
<1> QED
  BY <1>1, AlwaysIInv, PTL

(* A caller never waits on a request that is settled, or that was posted   *)
(* for another method (send's shared promise).                             *)
THEOREM SharingCorrect == Spec => []WaitingOnOwnRequest
<1>1. IInv => WaitingOnOwnRequest
  BY DEF IInv
<1> QED
  BY <1>1, AlwaysIInv, PTL

-----------------------------------------------------------------------------
(* The refinement.  What the service may settle a call with is what this   *)
(* module calls its outcomes.                                              *)
LEMMA ServiceSettled ==
  ASSUME NEW c \in Calls
  PROVE  Service!Settled(c) = Outcomes(c)
BY DEF Service!Settled, Service!Rejected, Service!Resolved, Outcomes, Rejected, Resolved

LEMMA ServiceWaiting == Service!Waiting = Waiting /\ Service!Never = Never
BY DEF Service!Waiting, Service!Never, Waiting, Never

LEMMA InitImplements == Init => Service!Init
BY ServiceWaiting DEF Init, Service!Init

(* A send, from the cache or not, is a send of the service.                *)
LEMMA SendImplements ==
  ASSUME IInv, NEW c \in Calls, SendCached(c) \/ Send(c)
  PROVE  Service!Send(c)
<1>1. ASSUME SendCached(c) PROVE \E s \in {Waiting} \cup Outcomes(c) :
                                   reply' = [reply EXCEPT ![c] = s]
  BY <1>1, CachedRequest DEF SendCached
<1>2. ASSUME Send(c) PROVE reply' = [reply EXCEPT ![c] = Waiting]
  BY <1>2 DEF Send
<1>3. reply[c] # Waiting
  BY DEF SendCached, Send
<1> QED
  BY <1>1, <1>2, <1>3, ServiceSettled, ServiceWaiting DEF Service!Send

(* A settled request settles together the calls that share its promise, if *)
(* any is left.                                                            *)
LEMMA SettleImplements ==
  ASSUME IInv, NEW r \in Calls, NEW outcome \in Outcomes(r), Settle(r, outcome)
  PROVE  Service!Next \/ UNCHANGED reply
<1> DEFINE S == {c \in Calls : joined[c] = r /\ reply[c] = Waiting}
           outcomes == [c \in S |-> outcome]
<1>1. reply' = [c \in Calls |-> IF c \in S THEN outcomes[c] ELSE reply[c]]
  BY DEF Settle
<1>2. ASSUME NEW c \in S PROVE outcome \in Outcomes(c)
  <2>1. Method[r] = Method[c]
    BY DEF IInv, WaitingOnOwnRequest
  <2> QED
    BY <2>1, SameMethodSameStates
<1>3. CASE S = {}
  <2>1. reply' = [c \in Calls |-> reply[c]]
    BY <1>1, <1>3
  <2> QED
    BY <2>1 DEF IInv, OwnOutcomes
<1>4. CASE S # {}
  <2>1. \A c \in S : reply[c] = Service!Waiting
    BY ServiceWaiting
  <2>2. \A c \in S : outcomes[c] \in Service!Settled(c)
    BY <1>2, ServiceSettled
  <2>3. outcomes \in [S -> UNION {Service!Settled(c) : c \in S}]
    BY <2>2
  <2>4. Service!Settle(S)
    BY <1>1, <2>1, <2>2, <2>3 DEF Service!Settle
  <2> QED
    BY <1>4, <2>4 DEF Service!Next
<1> QED
  BY <1>3, <1>4

LEMMA StepImplements == IInv /\ [Next]_vars => [Service!Next]_reply
<1> SUFFICES ASSUME IInv, [Next]_vars PROVE Service!Next \/ UNCHANGED reply
  OBVIOUS
<1>1. ASSUME NEW c \in Calls, SendCached(c) \/ Send(c) PROVE Service!Next
  BY <1>1, SendImplements DEF Service!Next
<1>2. ASSUME NEW r \in Calls, NEW outcome \in Outcomes(r), Settle(r, outcome)
      PROVE  Service!Next \/ UNCHANGED reply
  BY <1>2, SettleImplements
<1>3. ASSUME NEW m \in CachedMethods, TimerFires(m) PROVE UNCHANGED reply
  BY <1>3 DEF TimerFires
<1>4. CASE UNCHANGED vars
  BY <1>4 DEF vars
<1> QED
  BY <1>1, <1>2, <1>3, <1>4 DEF Next

(* JsonRpcProvider settles every call once, with a value of its method,    *)
(* though calls share promises (send).                                     *)
THEOREM CacheRefinement == Spec => ImplementsRpcCalls
BY InitImplements, StepImplements, AlwaysIInv, PTL
   DEF Spec, ImplementsRpcCalls, Service!Spec
=============================================================================
