------------------------- MODULE BatchProviderProofs -------------------------
(***************************************************************************)
(* Proofs about BatchProvider, for every set of calls, every starting size *)
(* and every adjustment interval.                                          *)
(***************************************************************************)
EXTENDS BatchProvider, FiniteSetTheorems, TLAPS

-----------------------------------------------------------------------------
(* Sizing.                                                                 *)

Capped(size) == \E cap \in InitialSizes \cup {GrowthLimit} : size <= cap

CountsSet == [size : Nat \ {0}, good : Nat, bad : Nat]

CountsOK(c) ==
  /\ c \in CountsSet
  /\ Capped(c.size)
  /\ c.good + c.bad < Interval

(* The remainders that adjustBatchSize takes.                              *)
LEMMA Remainder ==
  ASSUME NEW n \in Nat \ {0}, NEW m \in Nat
  PROVE  /\ m % n \in Nat
         /\ m % n < n
         /\ m \div n \in Nat
         /\ n % n = 0
<1>1. n % n = 0
  BY SMT
<1>2. QED
  BY <1>1, SMT

(* The end of an interval (adjustBatchSize) keeps the size in its bounds   *)
(* and the counters below the interval.                                    *)
LEMMA EndIntervalBounds ==
  ASSUME NEW c \in CountsSet, Capped(c.size), c.good + c.bad <= Interval
  PROVE  CountsOK(EndInterval(c))
<1> USE SizeAssumption, InitialSizesAssumption
<1> DEFINE total == c.good + c.bad
           d == EndInterval(c)
<1>0. total \in Nat
  BY DEF CountsSet
<1>1. /\ Shrunk(c.size) \in Nat \ {0} /\ Capped(Shrunk(c.size))
      /\ Grown(c.size) \in Nat \ {0} /\ Capped(Grown(c.size))
  BY DEF Shrunk, Grown, Capped, CountsSet
<1>2. CASE total % Interval = 0
  <2>1. \/ d = Counts(Shrunk(c.size), 0, 0)
        \/ d = Counts(Grown(c.size), 0, 0)
        \/ d = Counts(c.size, 0, 0)
    BY <1>2 DEF EndInterval
  <2>2. ASSUME NEW size \in Nat \ {0}, Capped(size)
        PROVE  CountsOK(Counts(size, 0, 0))
    BY <2>2 DEF Counts, CountsOK, CountsSet
  <2>3. Capped(c.size) /\ c.size \in Nat \ {0}
    BY DEF CountsSet
  <2>4. QED
    BY <1>1, <2>1, <2>2, <2>3
<1>3. CASE total % Interval # 0
  <2>1. d = c
    BY <1>3 DEF EndInterval
  <2>2. total # Interval
    BY <1>3, Remainder
  <2>3. QED
    BY <1>0, <2>1, <2>2 DEF CountsOK, CountsSet
<1>4. QED
  BY <1>2, <1>3

(* One call of adjustBatchSize keeps the bounds.                           *)
LEMMA AdjustBounds ==
  ASSUME NEW c, CountsOK(c), NEW success \in BOOLEAN
  PROVE  CountsOK(AdjustBatchSize(c, success))
<1> USE SizeAssumption
<1> DEFINE d == IF success THEN [c EXCEPT !.good = @ + 1]
                           ELSE [c EXCEPT !.bad = @ + 1]
<1>1. /\ d \in CountsSet /\ d.size = c.size
      /\ d.good + d.bad <= Interval
  BY DEF CountsOK, CountsSet
<1>2. CountsOK(EndInterval(d))
  BY <1>1, EndIntervalBounds DEF CountsOK
<1>3. QED
  BY <1>2 DEF AdjustBatchSize

(* So do any number of failures reported in one reply.                     *)
LEMMA FailTimesBounds ==
  ASSUME NEW c, CountsOK(c), NEW n \in Nat
  PROVE  CountsOK(FailTimes(c, n))
<1> USE SizeAssumption, InitialSizesAssumption
<1> DEFINE left  == Interval - (c.good + c.bad)
           d     == [c EXCEPT !.bad = @ + left]
           first == EndInterval(d)
           more  == (n - left) \div Interval
           size  == IF first.size - more > 1 THEN first.size - more ELSE 1
<1>1. /\ left \in Nat \ {0}
      /\ c.good \in Nat /\ c.bad \in Nat /\ c.size \in Nat \ {0}
  BY DEF CountsOK, CountsSet
<1>2. CASE n < left
  <2>1. FailTimes(c, n) = [c EXCEPT !.bad = @ + n]
    BY <1>2 DEF FailTimes
  <2>2. QED
    BY <1>1, <1>2, <2>1 DEF CountsOK, CountsSet
<1>3. CASE ~(n < left)
  <2>1. /\ d \in CountsSet /\ d.size = c.size /\ d.good + d.bad <= Interval
    BY <1>1 DEF CountsOK, CountsSet
  <2>2. CountsOK(first)
    BY <2>1, EndIntervalBounds DEF CountsOK
  <2>3. n - left \in Nat
    BY <1>1, <1>3
  <2>4. /\ more \in Nat
        /\ (n - left) % Interval \in Nat
        /\ (n - left) % Interval < Interval
    BY <2>3, Remainder
  <2>5. first.size \in Nat \ {0} /\ Capped(first.size)
    BY <2>2 DEF CountsOK, CountsSet
  <2> HIDE DEF first, more
  <2>6. size \in Nat \ {0} /\ size <= first.size
    BY <2>4, <2>5
  <2>7. Capped(size)
    BY <2>5, <2>6 DEF Capped
  <2>8. FailTimes(c, n) = Counts(size, 0, (n - left) % Interval)
    BY <1>3 DEF FailTimes, first, more
  <2> HIDE DEF size
  <2>9. QED
    BY <2>4, <2>6, <2>7, <2>8 DEF Counts, CountsOK, CountsSet
<1>4. QED
  BY <1>2, <1>3

(* A non-empty set of naturals has a least element.                        *)
LEMMA HasLeast ==
  ASSUME NEW T \in SUBSET Nat, T # {}
  PROVE  \E x \in T : \A y \in T : x <= y
<1>1. \E x \in T : \A y \in T : ~ (<<y, x>> \in OpToRel(<, Nat))
  BY NatLessThanWellFounded, WFMin
<1>2. ASSUME NEW x \in Nat, NEW y \in Nat, <<y, x>> \notin OpToRel(<, Nat)
      PROVE  ~ (y < x)
  <2>1. <<y, x>> \in Nat \X Nat
    OBVIOUS
  <2>2. <<y, x>>[1] = y /\ <<y, x>>[2] = x
    OBVIOUS
  <2>3. ~ (<<y, x>>[1] < <<y, x>>[2])
    BY <1>2, <2>1, Zenon DEF OpToRel
  <2>4. QED
    BY <2>2, <2>3
<1>3. QED
  <2>1. PICK x \in T : \A y \in T : ~ (<<y, x>> \in OpToRel(<, Nat))
    BY <1>1, Zenon
  <2>2. \A y \in T : ~ (y < x)
    BY <1>2, <2>1, Zenon
  <2>3. QED
    BY <2>2

(* Counting one further: within an interval, or into the next.             *)
LEMMA NextRemainder ==
  ASSUME NEW n \in Nat \ {0}, NEW m \in Nat
  PROVE  \/ /\ (m % n) + 1 < n
            /\ (m + 1) % n = (m % n) + 1 /\ (m + 1) \div n = m \div n
         \/ /\ (m % n) + 1 = n
            /\ (m + 1) % n = 0 /\ (m + 1) \div n = (m \div n) + 1
<1> DEFINE q == m \div n
           r == m % n
<1>1. /\ r \in Nat /\ r < n /\ q \in Nat /\ m = n * q + r
  BY SMT
<1>2. ASSUME NEW a \in Nat, NEW b \in Nat, b < n, m + 1 = n * a + b
      PROVE  (m + 1) \div n = a /\ (m + 1) % n = b
  BY <1>2, SMT
<1>3. QED
  BY <1>1, <1>2, SMT

(* A total below the interval does not end it.                             *)
LEMMA SmallRemainder ==
  ASSUME NEW n \in Nat \ {0}, NEW m \in Nat, m < n
  PROVE  m % n = m /\ m \div n = 0
  BY SMT

(* A record of counts with one failure more.                               *)
LEMMA CountedFailure ==
  ASSUME NEW c \in CountsSet, NEW k \in Nat
  PROVE  /\ [c EXCEPT !.bad = @ + k] = Counts(c.size, c.good, c.bad + k)
         /\ AdjustBatchSize(Counts(c.size, c.good, c.bad + k), FALSE)
            = EndInterval(Counts(c.size, c.good, c.bad + (k + 1)))
<1>1. c = [size |-> c.size, good |-> c.good, bad |-> c.bad] /\ c.bad \in Nat
  BY DEF CountsSet
<1>2. [c EXCEPT !.bad = @ + k] = Counts(c.size, c.good, c.bad + k)
  BY <1>1 DEF Counts
<1>3. (c.bad + k) + 1 = c.bad + (k + 1)
  BY <1>1
<1>4. QED
  BY <1>2, <1>3 DEF AdjustBatchSize, Counts

(* An interval that has not ended, ...                                     *)
LEMMA IntervalGoesOn ==
  ASSUME NEW size, NEW good \in Nat, NEW bad \in Nat, good + bad \in 1..(Interval - 1)
  PROVE  EndInterval(Counts(size, good, bad)) = Counts(size, good, bad)
<1> USE SizeAssumption
<1>1. (good + bad) % Interval # 0
  BY SmallRemainder
<1>2. QED
  BY <1>1 DEF EndInterval, Counts

(* ... one that has, ...                                                   *)
LEMMA IntervalEnds ==
  ASSUME NEW c, c.good + c.bad = Interval
  PROVE  EndInterval(c) = Counts(EndInterval(c).size, 0, 0)
<1> USE SizeAssumption
<1>1. (c.good + c.bad) % Interval = 0
  BY Remainder
<1>2. PICK s : EndInterval(c) = Counts(s, 0, 0)
  BY <1>1 DEF EndInterval
<1>3. QED
  BY <1>2 DEF Counts

(* ... and one that held failures only.                                    *)
LEMMA IntervalOfFailures ==
  ASSUME NEW size
  PROVE  EndInterval(Counts(size, 0, Interval)) = Counts(Shrunk(size), 0, 0)
<1> USE SizeAssumption
<1>1. (0 + Interval) % Interval = 0 /\ 10 * 0 < 9 * (0 + Interval)
  BY Remainder
<1>2. QED
  BY <1>1 DEF EndInterval, Counts

(* One failure more is one more call of adjustBatchSize(false).            *)
LEMMA OneMoreFailure ==
  ASSUME NEW c, CountsOK(c), NEW n \in Nat
  PROVE  FailTimes(c, n + 1) = AdjustBatchSize(FailTimes(c, n), FALSE)
<1> USE SizeAssumption
<1> DEFINE left  == Interval - (c.good + c.bad)
           Failed(k) == Counts(c.size, c.good, c.bad + k)
           first == EndInterval(Failed(left))
           Size(q) == IF first.size - q > 1 THEN first.size - q ELSE 1
           Later(m) == Counts(Size(m \div Interval), 0, m % Interval)
           more == AdjustBatchSize(FailTimes(c, n), FALSE)
<1>1. /\ left \in Nat \ {0} /\ c \in CountsSet
      /\ c.good \in Nat /\ c.bad \in Nat /\ c.size \in Nat \ {0}
      /\ Interval = c.good + (c.bad + left)
  BY DEF CountsOK, CountsSet
<1>2. /\ \A k \in Nat : k < left => FailTimes(c, k) = Failed(k)
      /\ \A k \in Nat : k >= left => FailTimes(c, k) = Later(k - left)
  <2>1. \A k \in Nat : [c EXCEPT !.bad = @ + k] = Failed(k)
    BY <1>1, CountedFailure
  <2>2. [c EXCEPT !.bad = @ + left] = Failed(left)
    BY <1>1, <2>1
  <2> HIDE DEF Failed
  <2>3. QED
    BY <1>1, <2>1, <2>2 DEF FailTimes
<1>3. first.size \in Nat \ {0}
  <2>1. Failed(left) \in CountsSet /\ Failed(left).size = c.size
        /\ Failed(left).good + Failed(left).bad <= Interval
    BY <1>1 DEF CountsSet, Counts
  <2>2. Capped(Failed(left).size)
    BY <2>1 DEF CountsOK
  <2> HIDE DEF Failed
  <2>3. CountsOK(first)
    BY <2>1, <2>2, EndIntervalBounds
  <2> HIDE DEF first
  <2>4. QED
    BY <2>3 DEF CountsOK, CountsSet
<1>4. ASSUME n < left PROVE more = EndInterval(Failed(n + 1))
  <2>1. FailTimes(c, n) = Failed(n)
    BY <1>2, <1>4
  <2>2. QED
    BY <1>1, <2>1, CountedFailure
<1>5. CASE n + 1 < left
  <2>1. c.good + (c.bad + (n + 1)) \in 1..(Interval - 1) /\ c.bad + (n + 1) \in Nat
    BY <1>1, <1>5
  <2>2. EndInterval(Failed(n + 1)) = Failed(n + 1)
    BY <1>1, <2>1, IntervalGoesOn
  <2>3. FailTimes(c, n + 1) = Failed(n + 1) /\ more = EndInterval(Failed(n + 1))
    <3>1. n + 1 \in Nat /\ n < left
      BY <1>1, <1>5
    <3> HIDE DEF Failed, more
    <3>2. QED
      BY <1>2, <1>4, <1>5, <3>1
  <2>4. QED
    BY <2>2, <2>3
<1>6. CASE n + 1 = left
  <2>1. Later(0) = Counts(first.size, 0, 0)
    <3>1. 0 \div Interval = 0 /\ 0 % Interval = 0
      BY SmallRemainder
    <3> HIDE DEF first
    <3>2. Size(0) = first.size
      BY <1>3
    <3>3. QED
      BY <3>1, <3>2
  <2>2. FailTimes(c, n + 1) = Later(0)
    <3>1. (n + 1) - left = 0 /\ n + 1 >= left /\ n + 1 \in Nat
      BY <1>1, <1>6
    <3> HIDE DEF Later
    <3>2. QED
      BY <1>2, <3>1
  <2>3. first = Counts(first.size, 0, 0)
    <3>1. c.bad + left \in Nat /\ c.good + (c.bad + left) = Interval
      BY <1>1
    <3>2. Failed(left).good + Failed(left).bad = Interval
      BY <3>1 DEF Counts
    <3>3. QED
      BY <3>2, IntervalEnds
  <2>4. more = first
    <3>1. n < left
      BY <1>1, <1>6
    <3> HIDE DEF Failed, more
    <3>2. QED
      BY <1>4, <1>6, <3>1
  <2> HIDE DEF first, Later
  <2>5. QED
    BY <2>1, <2>2, <2>3, <2>4
<1>7. CASE n >= left
  <2> DEFINE m == n - left
             q == m \div Interval
             r == m % Interval
  <2>1. m \in Nat /\ (n + 1) - left = m + 1 /\ n + 1 >= left /\ n + 1 \in Nat
    BY <1>1, <1>7
  <2>2. FailTimes(c, n) = Later(m) /\ FailTimes(c, n + 1) = Later(m + 1)
    <3> HIDE DEF Later
    <3>1. QED
      BY <1>2, <1>7, <2>1
  <2> HIDE DEF m, first
  <2>3. q \in Nat /\ r \in Nat /\ r < Interval
    BY <2>1, Remainder
  <2>4. \/ r + 1 < Interval /\ Later(m + 1) = Counts(Size(q), 0, r + 1)
        \/ r + 1 = Interval /\ Later(m + 1) = Counts(Size(q + 1), 0, 0)
    BY <2>1, NextRemainder
  <2>5. Later(m) = Counts(Size(q), 0, r)
    OBVIOUS
  <2> HIDE DEF Later, q, r
  <2>6. more = EndInterval(Counts(Size(q), 0, r + 1))
    <3>1. more = AdjustBatchSize(Counts(Size(q), 0, r), FALSE)
      BY <2>2, <2>5
    <3>2. QED
      BY <3>1 DEF AdjustBatchSize, Counts
  <2>7. Size(q + 1) = Shrunk(Size(q))
    BY <1>3, <2>3 DEF Shrunk
  <2> HIDE DEF Size, more
  <2>8. /\ r + 1 < Interval => more = Counts(Size(q), 0, r + 1)
        /\ r + 1 = Interval => more = Counts(Size(q + 1), 0, 0)
    <3>1. r + 1 \in Nat /\ (r + 1 < Interval => 0 + (r + 1) \in 1..(Interval - 1))
      BY <2>3
    <3>2. r + 1 < Interval => EndInterval(Counts(Size(q), 0, r + 1)) = Counts(Size(q), 0, r + 1)
      BY <3>1, IntervalGoesOn
    <3>3. QED
      BY <2>6, <2>7, <3>2, IntervalOfFailures
  <2>9. QED
    BY <2>2, <2>4, <2>8 DEF more
<1>8. QED
  <2>1. n + 1 < left \/ n + 1 = left \/ n >= left
    BY <1>1
  <2>2. QED
    BY <1>5, <1>6, <1>7, <2>1

(* A reply that reports n failures leaves what n calls of                  *)
(* adjustBatchSize(false) one after the other leave, which are what the    *)
(* code makes; the model takes them in one step.                           *)
THEOREM FailTimesCorrect ==
  ASSUME NEW c, CountsOK(c), NEW f,
         f[0] = c, \A n \in Nat : f[n + 1] = AdjustBatchSize(f[n], FALSE)
  PROVE  \A n \in Nat : FailTimes(c, n) = f[n]
<1> USE SizeAssumption
<1> DEFINE Wrong == {n \in Nat : FailTimes(c, n) # f[n]}
<1>1. FailTimes(c, 0) = f[0]
  <2>1. c \in CountsSet /\ c.good + c.bad < Interval /\ c.good \in Nat /\ c.bad \in Nat
    BY DEF CountsOK, CountsSet
  <2>2. 0 < Interval - (c.good + c.bad)
    BY <2>1
  <2>3. FailTimes(c, 0) = [c EXCEPT !.bad = @ + 0]
    BY <2>2 DEF FailTimes
  <2>4. c = Counts(c.size, c.good, c.bad) /\ c.bad + 0 = c.bad
    <3>1. c = [size |-> c.size, good |-> c.good, bad |-> c.bad]
      BY <2>1 DEF CountsSet
    <3>2. QED
      BY <2>1, <3>1 DEF Counts
  <2>5. [c EXCEPT !.bad = @ + 0] = Counts(c.size, c.good, c.bad + 0)
    BY <2>1, CountedFailure
  <2>6. QED
    BY <2>3, <2>4, <2>5
<1>2. ASSUME Wrong # {} PROVE FALSE
  <2>1. PICK n \in Wrong : \A k \in Wrong : n <= k
    BY <1>2, HasLeast
  <2>2. n # 0 /\ n - 1 \in Nat /\ (n - 1) + 1 = n
    BY <1>1, <2>1
  <2>3. FailTimes(c, n - 1) = f[n - 1]
    BY <2>1, <2>2
  <2>4. FailTimes(c, n) = f[n]
    <3> DEFINE k == n - 1
    <3>1. k \in Nat /\ k + 1 = n /\ FailTimes(c, k) = f[k]
      BY <2>2, <2>3
    <3> HIDE DEF k
    <3>2. FailTimes(c, k + 1) = AdjustBatchSize(FailTimes(c, k), FALSE)
      BY <3>1, OneMoreFailure
    <3>3. f[k + 1] = AdjustBatchSize(f[k], FALSE)
      BY <3>1
    <3>4. QED
      BY <3>1, <3>2, <3>3
  <2>5. QED
    BY <2>1, <2>4
<1>3. QED
  BY <1>2

-----------------------------------------------------------------------------
(* Payloads and settlements.                                               *)

(* A non-empty set of positions has a last one: the payload of resultMap.  *)
LEMMA HasGreatest ==
  ASSUME NEW n \in Nat, NEW T \in SUBSET (1..n), T # {}
  PROVE  \E x \in T : \A y \in T : y <= x
<1> DEFINE U == {k \in Nat : n - k \in T}
<1>0. \A i \in T : i \in Nat /\ n - i \in Nat /\ n - (n - i) = i
  OBVIOUS
<1>1. U \in SUBSET Nat /\ U # {}
  BY <1>0
<1>2. PICK u \in U : \A v \in U : u <= v
  BY <1>1, HasLeast
<1>3. n - u \in T
  OBVIOUS
<1>4. ASSUME NEW y \in T PROVE y <= n - u
  <2>1. n - y \in U
    BY <1>0
  <2>2. u <= n - y
    BY <1>2, <2>1
  <2>3. QED
    BY <1>0, <1>1, <2>2
<1>5. QED
  BY <1>3, <1>4

(* The values a promise may hold are all different.                        *)
LEMMA RepliesDiffer ==
  /\ Waiting # Never /\ Waiting # Rejected
  /\ \A v : Resolved(v) # Waiting /\ Resolved(v) # Never /\ Resolved(v) # Rejected
  /\ \A v, w : Resolved(v) = Resolved(w) => v = w
<1>1. Never.state = "never" /\ Waiting.state = "waiting" /\ Rejected.state = "rejected"
  BY DEF Never, Waiting, Rejected
<1>2. \A v : Resolved(v).state = "resolved" /\ Resolved(v).value = v
  BY DEF Resolved
<1>3. QED
  BY <1>1, <1>2

(* The payload of a call is one of the reply's and carries the call's id.  *)
LEMMA PayloadIsOwn ==
  ASSUME NEW payloads \in PayloadArrays, NEW c \in Calls,
         PositionsOf(payloads, c) # {}
  PROVE  /\ PayloadFor(payloads, c) \in Payload
         /\ PayloadFor(payloads, c).id = c
<1> DEFINE at == PositionsOf(payloads, c)
           last == CHOOSE i \in at : \A j \in at : j <= i
<1>1. PICK n \in 0..MaxPayloads : payloads \in [1..n -> Payload]
  BY DEF PayloadArrays
<1>2. n \in Nat /\ Len(payloads) = n
  BY <1>1, ReplyAssumption
<1>3. at \in SUBSET (1..n)
  BY <1>2 DEF PositionsOf
<1>4. \E i \in at : \A j \in at : j <= i
  BY <1>2, <1>3, HasGreatest
<1>5. last \in at
  BY <1>4
<1>6. payloads[last] \in Payload /\ payloads[last].id = c
  BY <1>1, <1>2, <1>5 DEF PositionsOf
<1>7. PayloadFor(payloads, c) = payloads[last]
  BY DEF PayloadFor
<1>8. QED
  BY <1>6, <1>7

(* A payload settles its call with a value of the call's own.              *)
LEMMA SettlementIsOwn ==
  ASSUME NEW payloads \in PayloadArrays, NEW batch, NEW c \in Calls
  PROVE  Settlement(batch, payloads, c) \in
           {Rejected} \cup {Resolved(v) : v \in OwnValues(c)}
<1>1. CASE KindFor(payloads, c) = "result"
  <2>1. PositionsOf(payloads, c) # {}
    BY <1>1 DEF KindFor
  <2>2. PayloadFor(payloads, c).id = c
    BY <2>1, PayloadIsOwn
  <2>3. c \in OwnValues(c)
    BY DEF OwnValues
  <2>4. Settlement(batch, payloads, c) \in {Rejected, Resolved(c)}
    BY <1>1, <2>2 DEF Settlement
  <2>5. QED
    BY <2>3, <2>4
<1>2. CASE KindFor(payloads, c) # "result"
  <2>1. Undefined \in OwnValues(c)
    BY DEF OwnValues
  <2>2. Settlement(batch, payloads, c) \in {Rejected, Resolved(Undefined)}
    BY <1>2 DEF Settlement
  <2>3. QED
    BY <2>1, <2>2
<1>3. QED
  BY <1>1, <1>2

-----------------------------------------------------------------------------
(* What any reply of a batch does.                                         *)

Settles(batch) ==
  /\ batch \in inflight
  /\ inflight' = inflight \ {batch}
  /\ UNCHANGED <<pendingBatch, aggregator>>
  /\ reply' = [c \in Calls |-> IF c \in Items(batch) THEN reply'[c] ELSE reply[c]]
  /\ \A c \in Items(batch) :
       reply'[c] \in {Rejected} \cup {Resolved(v) : v \in OwnValues(c)}

CountersOK == CountsOK(CurrentCounts)

CacheOK == chainIdCache \in ChainIdCalls \cup {NoChainId}

LEMMA CountersType ==
  CountersOK <=>
    /\ batchSize \in Nat \ {0} /\ Capped(batchSize)
    /\ successCount \in Nat /\ failureCount \in Nat
    /\ successCount + failureCount < Interval
BY DEF CountersOK, CurrentCounts, Counts, CountsOK, CountsSet

(* The items of a batch are calls.                                         *)
LEMMA ItemsAreCalls ==
  ASSUME NEW batch \in Seq(Calls)
  PROVE  /\ Items(batch) \subseteq Calls
         /\ Len(batch) \in Nat
         /\ \A i \in 1..Len(batch) : batch[i] \in Calls /\ batch[i] \in Items(batch)
BY DEF Items

LEMMA SetCountsOK ==
  ASSUME NEW c, CountsOK(c), SetCounts(c)
  PROVE  CountersOK'
<1>1. CurrentCounts' = c
  BY DEF SetCounts, CurrentCounts, Counts, CountsOK, CountsSet
<1>2. QED
  BY <1>1 DEF CountersOK

LEMMA RejectAllSettles ==
  ASSUME NEW batch, inflight \in SUBSET Seq(Calls),
         Arrived(batch), RejectAll(batch)
  PROVE  Settles(batch)
<1>1. Items(batch) \subseteq Calls
  BY ItemsAreCalls DEF Arrived
<1>2. QED
  BY <1>1 DEF Arrived, RejectAll, Settles

LEMMA CacheAfterOK ==
  ASSUME NEW batch \in Seq(Calls), NEW payloads \in PayloadArrays, CacheOK
  PROVE  CacheAfter(batch, payloads) \in ChainIdCalls \cup {NoChainId}
<1> DEFINE writers == {i \in Reached(batch, payloads) :
                         /\ batch[i] \in ChainIdCalls
                         /\ KindFor(payloads, batch[i]) \in {"result", "empty"}}
           last == CHOOSE i \in writers : \A j \in writers : j <= i
<1>1. CASE writers = {}
  BY <1>1 DEF CacheAfter, CacheOK
<1>2. CASE writers # {}
  <2>1. writers \in SUBSET (1..Len(batch)) /\ Len(batch) \in Nat
    BY ItemsAreCalls DEF Reached
  <2>2. \E i \in writers : \A j \in writers : j <= i
    BY <1>2, <2>1, HasGreatest
  <2>3. last \in writers
    BY <2>2
  <2>4. batch[last] \in ChainIdCalls /\ batch[last] \in Calls
    BY <2>1, <2>3, ItemsAreCalls
  <2>5. CASE KindFor(payloads, batch[last]) = "result"
    <3>1. PositionsOf(payloads, batch[last]) # {}
      BY <2>5 DEF KindFor
    <3>2. PayloadFor(payloads, batch[last]).id = batch[last]
      BY <2>4, <3>1, PayloadIsOwn
    <3>3. CacheAfter(batch, payloads) = batch[last]
      BY <1>2, <2>5, <3>2 DEF CacheAfter
    <3>4. QED
      BY <2>4, <3>3
  <2>6. CASE KindFor(payloads, batch[last]) # "result"
    BY <1>2, <2>6 DEF CacheAfter
  <2>7. QED
    BY <2>5, <2>6
<1>3. QED
  BY <1>1, <1>2

LEMMA CountLimitsType ==
  ASSUME NEW batch \in Seq(Calls), NEW payloads
  PROVE  CountLimits(batch, payloads) \in Nat
<1> DEFINE limited == {i \in Reached(batch, payloads) :
                         KindFor(payloads, batch[i]) = "limit"}
<1>1. limited \subseteq 1..Len(batch)
  BY DEF Reached
<1>2. IsFiniteSet(1..Len(batch))
  BY ItemsAreCalls, FS_Interval
<1>3. IsFiniteSet(limited)
  BY <1>1, <1>2, FS_Subset
<1>4. QED
  BY <1>3, FS_CardinalityType DEF CountLimits

(* Whatever the server does, the calls of the batch are settled, each with *)
(* a value of its own, and the counters and the cache keep their bounds.   *)
LEMMA BatchReplySettles ==
  ASSUME NEW batch \in inflight, inflight \in SUBSET Seq(Calls),
         CountersOK, CacheOK, BatchReply(batch)
  PROVE  Settles(batch) /\ CountersOK' /\ CacheOK'
<1> batch \in Seq(Calls)
  OBVIOUS
<1>1. CASE FetchFails(batch)
  <2>1. Settles(batch) /\ CacheOK'
    BY <1>1, RejectAllSettles DEF FetchFails, RejectAll, CacheOK
  <2>2. CountersOK'
    BY <1>1 DEF FetchFails, counters, CountersOK, CurrentCounts
  <2>3. QED
    BY <2>1, <2>2
<1>2. CASE ObjectReply(batch)
  <2>1. Settles(batch) /\ CacheOK'
    BY <1>2, RejectAllSettles DEF ObjectReply, RejectAll, CacheOK
  <2>2. CASE UNCHANGED counters
    BY <2>1, <2>2 DEF counters, CountersOK, CurrentCounts
  <2>3. CASE SetCounts(AdjustBatchSize(CurrentCounts, FALSE))
    BY <2>1, <2>3, AdjustBounds, SetCountsOK DEF CountersOK
  <2>4. QED
    BY <1>2, <2>1, <2>2, <2>3 DEF ObjectReply
<1>3. CASE NullIdReply(batch)
  <2>1. Settles(batch) /\ CacheOK'
    BY <1>3, RejectAllSettles DEF NullIdReply, RejectAll, CacheOK
  <2>2. CountersOK'
    BY <1>3, AdjustBounds, SetCountsOK DEF NullIdReply, CountersOK
  <2>3. QED
    BY <2>1, <2>2
<1>4. ASSUME NEW payloads \in PayloadArrays, ArrayReply(batch, payloads)
      PROVE  Settles(batch) /\ CountersOK' /\ CacheOK'
  <2>1. Items(batch) \subseteq Calls
    BY ItemsAreCalls
  <2>2. Settles(batch)
    BY <1>4, <2>1, SettlementIsOwn DEF ArrayReply, Arrived, Settles
  <2>3. CacheOK'
    BY <1>4, CacheAfterOK DEF ArrayReply, CacheOK
  <2>4. CountsOK(FailTimes(CurrentCounts, CountLimits(batch, payloads)))
    BY CountLimitsType, FailTimesBounds DEF CountersOK
  <2>5. CountersOK'
    BY <1>4, <2>4, AdjustBounds, SetCountsOK DEF ArrayReply
  <2>6. QED
    BY <2>2, <2>3, <2>5
<1>5. QED
  BY <1>1, <1>2, <1>3, <1>4 DEF BatchReply

-----------------------------------------------------------------------------
(* Type correctness.                                                       *)

(* TypeOK, with its conjuncts on the counters gathered in CountersOK.      *)
TypeInv ==
  /\ reply \in [Calls -> Replies]
  /\ pendingBatch \in Seq(Calls)
  /\ aggregator \in BOOLEAN
  /\ inflight \in SUBSET Seq(Calls)
  /\ CountersOK
  /\ CacheOK

LEMMA TypeInvIsTypeOK == TypeInv => TypeOK
BY CountersType DEF TypeInv, TypeOK, CacheOK, Capped

LEMMA OwnValuesType ==
  ASSUME NEW c \in Calls
  PROVE  /\ \A v \in OwnValues(c) : v \in Calls \cup {Undefined}
         /\ \A v \in OwnValues(c) : Resolved(v) \in Replies
BY CallsAssumption DEF OwnValues, Replies

LEMMA SettlesType ==
  ASSUME NEW batch, Settles(batch), reply \in [Calls -> Replies],
         inflight \in SUBSET Seq(Calls)
  PROVE  reply' \in [Calls -> Replies]
<1>1. \A c \in Items(batch) : c \in Calls
  BY ItemsAreCalls DEF Settles
<1>2. \A c \in Items(batch) : reply'[c] \in Replies
  BY <1>1, OwnValuesType DEF Settles, Replies
<1>3. QED
  BY <1>2 DEF Settles

LEMMA SendType ==
  ASSUME TypeInv, NEW c \in Calls, SendQueued(c)
  PROVE  TypeInv'
<1> USE DEF TypeInv
<1>1. reply' \in [Calls -> Replies]
  BY DEF SendQueued, Replies
<1>2. CountersOK' /\ CacheOK'
  BY DEF SendQueued, counters, CountersOK, CurrentCounts, CacheOK
<1>3. Append(pendingBatch, c) \in Seq(Calls) /\ <<>> \in Seq(Calls)
  OBVIOUS
<1>4. pendingBatch' \in Seq(Calls) /\ inflight' \in SUBSET Seq(Calls)
  BY <1>3 DEF SendQueued, RunRequests
<1>5. aggregator' \in BOOLEAN
  BY Zenon DEF SendQueued, RunRequests
<1>6. QED
  BY <1>1, <1>2, <1>4, <1>5

LEMMA TypeInit == Init => TypeInv
<1> SUFFICES ASSUME Init PROVE TypeInv
  OBVIOUS
<1> USE SizeAssumption, InitialSizesAssumption
<1>1. reply \in [Calls -> Replies]
  BY DEF Init, Replies
<1>2. CountersOK
  BY CountersType DEF Init, Capped
<1>3. aggregator \in BOOLEAN
  BY Zenon DEF Init
<1>4. QED
  BY <1>1, <1>2, <1>3 DEF Init, CacheOK, TypeInv

LEMMA TypeStep == TypeInv /\ [Next]_vars => TypeInv'
<1> SUFFICES ASSUME TypeInv, [Next]_vars PROVE TypeInv'
  OBVIOUS
<1> USE DEF TypeInv
<1>1. ASSUME NEW c \in Calls, SendCached(c) PROVE TypeInv'
  <2>1. chainIdCache \in Calls
    BY <1>1, CallsAssumption DEF SendCached, CacheOK
  <2>2. reply' \in [Calls -> Replies]
    BY <1>1, <2>1 DEF SendCached, Replies
  <2>3. CountersOK' /\ CacheOK'
    BY <1>1 DEF SendCached, counters, CountersOK, CurrentCounts, CacheOK
  <2>4. QED
    BY <1>1, <2>2, <2>3 DEF SendCached
<1>2. ASSUME NEW c \in Calls, SendQueued(c) PROVE TypeInv'
  BY <1>2, SendType
<1>3. CASE TimerFires
  <2>1. CountersOK' /\ CacheOK'
    BY <1>3 DEF TimerFires, counters, CountersOK, CurrentCounts, CacheOK
  <2>2. aggregator' \in BOOLEAN
    BY <1>3, Zenon DEF TimerFires, RunRequests
  <2>3. QED
    BY <1>3, <2>1, <2>2 DEF TimerFires, RunRequests
<1>4. ASSUME NEW batch \in inflight, BatchReply(batch) PROVE TypeInv'
  <2>1. Settles(batch) /\ CountersOK' /\ CacheOK'
    BY <1>4, BatchReplySettles
  <2>2. reply' \in [Calls -> Replies]
    BY <2>1, SettlesType
  <2>3. QED
    BY <2>1, <2>2 DEF Settles
<1>5. CASE UNCHANGED vars
  BY <1>5 DEF vars, counters, CountersOK, CurrentCounts, CacheOK
<1>6. QED
  BY <1>1, <1>2, <1>3, <1>4, <1>5 DEF Next, BatchReply

(* TypeOK holds for every configuration: the counters never reach the      *)
(* interval and the batch size never leaves 1 .. max(configured, limit).   *)
THEOREM TypeCorrect == Spec => []TypeOK
<1>1. Spec => []TypeInv
  BY TypeInit, TypeStep, PTL DEF Spec
<1>2. QED
  BY <1>1, TypeInvIsTypeOK, PTL

-----------------------------------------------------------------------------
(* The queues: every open call is in exactly one batch, exactly once.      *)

QueueInv == OpenCallsAreQueuedOnce /\ TimerGuardsPending

(* A call that is sent joins the end of the pending batch.                 *)
LEMMA AppendItems ==
  ASSUME NEW batch \in Seq(Calls), NEW c \in Calls
  PROVE  /\ Items(Append(batch, c)) = Items(batch) \cup {c}
         /\ Append(batch, c) # <<>>
         /\ c \notin Items(batch) /\
              (\A i, j \in 1..Len(batch) : batch[i] = batch[j] => i = j)
            => \A i, j \in 1..Len(Append(batch, c)) :
                 Append(batch, c)[i] = Append(batch, c)[j] => i = j
<1> DEFINE b == Append(batch, c)
<1>1. /\ Len(batch) \in Nat /\ Len(b) = Len(batch) + 1
      /\ \A i \in 1..Len(batch) : b[i] = batch[i]
      /\ b[Len(batch) + 1] = c
  OBVIOUS
<1>2. 1..Len(b) = (1..Len(batch)) \cup {Len(batch) + 1}
  BY <1>1
<1>3. b # <<>>
  BY <1>1
<1> HIDE DEF b
<1>4. Items(b) = Items(batch) \cup {c}
  BY <1>1, <1>2 DEF Items
<1>5. ASSUME c \notin Items(batch),
             \A i, j \in 1..Len(batch) : batch[i] = batch[j] => i = j,
             NEW i \in 1..Len(b), NEW j \in 1..Len(b), b[i] = b[j]
      PROVE  i = j
  BY <1>1, <1>2, <1>5 DEF Items
<1>6. QED
  BY <1>3, <1>4, <1>5 DEF b

LEMMA EmptyItems == Items(<<>>) = {}
BY DEF Items

(* A step that moves the pending batch, changed or not, into flight keeps  *)
(* the partition; so does one that only extends it.                        *)
LEMMA SendQueueStep ==
  ASSUME TypeInv, QueueInv, NEW c \in Calls, SendQueued(c)
  PROVE  QueueInv'
<1> DEFINE b == Append(pendingBatch, c)
<1> USE DEF TypeInv
<1>1. \A q \in inflight \cup {pendingBatch} : c \notin Items(q)
  BY DEF SendQueued, QueueInv, OpenCallsAreQueuedOnce
<1>2. /\ Items(b) = Items(pendingBatch) \cup {c} /\ b # <<>>
      /\ \A i, j \in 1..Len(b) : b[i] = b[j] => i = j
  BY <1>1, AppendItems DEF QueueInv, OpenCallsAreQueuedOnce
<1>3. b \notin inflight /\ <<>> \notin inflight /\ pendingBatch \notin inflight
  BY <1>1, <1>2 DEF QueueInv, OpenCallsAreQueuedOnce, TimerGuardsPending
<1>4. reply' = [reply EXCEPT ![c] = Waiting]
  BY DEF SendQueued
<1>5. \/ /\ pendingBatch' = <<>> /\ inflight' = inflight \cup {b}
         /\ ~aggregator'
      \/ /\ pendingBatch' = b /\ inflight' = inflight
         /\ aggregator'
  BY Zenon DEF SendQueued, RunRequests
<1> HIDE DEF b
<1>6. /\ \A d \in Calls :
           reply'[d] = Waiting <=> \E q \in inflight \cup {b} : d \in Items(q)
      /\ \A p, q \in inflight \cup {b} : p # q => Items(p) \cap Items(q) = {}
      /\ \A q \in inflight \cup {b} : \A i, j \in 1..Len(q) : q[i] = q[j] => i = j
  <2>1. \A d \in Calls : reply'[d] = Waiting <=> d = c \/ reply[d] = Waiting
    BY <1>4
  <2>2. \A d \in Calls : (\E q \in inflight \cup {b} : d \in Items(q)) <=>
          d = c \/ \E q \in inflight \cup {pendingBatch} : d \in Items(q)
    BY <1>2
  <2>3. \A d \in Calls :
          reply'[d] = Waiting <=> \E q \in inflight \cup {b} : d \in Items(q)
    BY <2>1, <2>2 DEF QueueInv, OpenCallsAreQueuedOnce
  <2>4. \A q \in inflight : Items(q) \cap Items(b) = {}
    BY <1>1, <1>2, <1>3 DEF QueueInv, OpenCallsAreQueuedOnce
  <2>5. \A p, q \in inflight \cup {b} : p # q => Items(p) \cap Items(q) = {}
    BY <2>4 DEF QueueInv, OpenCallsAreQueuedOnce
  <2>6. \A q \in inflight \cup {b} :
          \A i, j \in 1..Len(q) : q[i] = q[j] => i = j
    BY <1>2 DEF QueueInv, OpenCallsAreQueuedOnce
  <2>7. QED
    BY <2>3, <2>5, <2>6
<1>7. CASE /\ pendingBatch' = <<>> /\ inflight' = inflight \cup {b}
           /\ ~aggregator'
  <2>1. OpenCallsAreQueuedOnce'
    BY <1>2, <1>3, <1>6, <1>7, EmptyItems DEF OpenCallsAreQueuedOnce
  <2>2. TimerGuardsPending'
    BY <1>2, <1>3, <1>7 DEF TimerGuardsPending
  <2>3. QED
    BY <2>1, <2>2 DEF QueueInv
<1>8. CASE pendingBatch' = b /\ inflight' = inflight /\ aggregator'
  <2>1. OpenCallsAreQueuedOnce'
    BY <1>3, <1>6, <1>8 DEF OpenCallsAreQueuedOnce
  <2>2. TimerGuardsPending'
    BY <1>2, <1>3, <1>8 DEF TimerGuardsPending
  <2>3. QED
    BY <2>1, <2>2 DEF QueueInv
<1>9. QED
  BY <1>5, <1>7, <1>8

LEMMA TimerQueueStep ==
  ASSUME TypeInv, QueueInv, TimerFires
  PROVE  QueueInv'
<1> USE DEF QueueInv
<1>1. pendingBatch # <<>> /\ <<>> \notin inflight
  BY DEF TimerFires, TimerGuardsPending
<1>2. /\ pendingBatch' = <<>> /\ inflight' = inflight \cup {pendingBatch}
      /\ reply' = reply /\ ~aggregator'
  BY DEF TimerFires, RunRequests
<1>3. OpenCallsAreQueuedOnce'
  BY <1>1, <1>2, EmptyItems DEF OpenCallsAreQueuedOnce
<1>4. TimerGuardsPending'
  BY <1>1, <1>2 DEF TimerGuardsPending
<1>5. QED
  BY <1>3, <1>4

LEMMA SettleQueueStep ==
  ASSUME TypeInv, QueueInv, NEW batch, Settles(batch)
  PROVE  QueueInv'
<1> USE DEF QueueInv
<1>1. Items(batch) \subseteq Calls
  BY ItemsAreCalls DEF Settles, TypeInv
<1>2. /\ pendingBatch' = pendingBatch /\ inflight' = inflight \ {batch}
      /\ (aggregator' <=> aggregator) /\ batch \in inflight
  BY DEF Settles
<1>3. \A c \in Items(batch) : reply'[c] # Waiting
  BY RepliesDiffer DEF Settles
<1>4. \A c \in Calls : c \notin Items(batch) => reply'[c] = reply[c]
  BY DEF Settles
<1>5. \A c \in Calls :
        reply'[c] = Waiting <=> reply[c] = Waiting /\ c \notin Items(batch)
  BY <1>3, <1>4
<1>6. \A c \in Calls :
        (\E q \in inflight' \cup {pendingBatch'} : c \in Items(q)) <=>
        /\ \E q \in inflight \cup {pendingBatch} : c \in Items(q)
        /\ c \notin Items(batch)
  BY <1>2 DEF OpenCallsAreQueuedOnce
<1>7. OpenCallsAreQueuedOnce'
  BY <1>2, <1>5, <1>6 DEF OpenCallsAreQueuedOnce
<1>8. TimerGuardsPending'
  BY <1>2 DEF TimerGuardsPending
<1>9. QED
  BY <1>7, <1>8

LEMMA QueueStep == TypeInv /\ QueueInv /\ [Next]_vars => QueueInv'
<1> SUFFICES ASSUME TypeInv, QueueInv, [Next]_vars PROVE QueueInv'
  OBVIOUS
<1>1. ASSUME NEW c \in Calls, SendCached(c) PROVE QueueInv'
  <2>1. chainIdCache \in ChainIdCalls /\ reply[c] # Waiting
    BY <1>1 DEF SendCached, TypeInv, CacheOK
  <2>2. \A d \in Calls : reply'[d] = Waiting <=> reply[d] = Waiting
    BY <1>1, <2>1, RepliesDiffer DEF SendCached, TypeInv
  <2>3. UNCHANGED <<pendingBatch, inflight, aggregator>>
    BY <1>1 DEF SendCached
  <2>4. QED
    BY <2>2, <2>3 DEF QueueInv, OpenCallsAreQueuedOnce, TimerGuardsPending
<1>2. ASSUME NEW c \in Calls, SendQueued(c) PROVE QueueInv'
  BY <1>2, SendQueueStep
<1>3. CASE TimerFires
  BY <1>3, TimerQueueStep
<1>4. ASSUME NEW batch \in inflight, BatchReply(batch) PROVE QueueInv'
  BY <1>4, BatchReplySettles, SettleQueueStep DEF TypeInv
<1>5. CASE UNCHANGED vars
  BY <1>5 DEF vars, QueueInv, OpenCallsAreQueuedOnce, TimerGuardsPending
<1>6. QED
  BY <1>1, <1>2, <1>3, <1>4, <1>5 DEF Next, BatchReply

LEMMA QueueInit == Init => QueueInv
<1> SUFFICES ASSUME Init PROVE QueueInv
  OBVIOUS
<1>1. \A c \in Calls : reply[c] # Waiting
  BY RepliesDiffer DEF Init
<1>2. inflight = {} /\ pendingBatch = <<>> /\ ~aggregator /\ Len(<<>>) = 0
  BY DEF Init
<1>3. OpenCallsAreQueuedOnce
  BY <1>1, <1>2, EmptyItems DEF OpenCallsAreQueuedOnce
<1>4. TimerGuardsPending
  BY <1>2 DEF TimerGuardsPending
<1>5. QED
  BY <1>3, <1>4 DEF QueueInv

(* No call is lost and none is posted twice, and the timer is armed        *)
(* exactly while it is needed, for any interleaving of sends, timers and   *)
(* replies.                                                                *)
THEOREM QueuesCorrect == Spec => [](OpenCallsAreQueuedOnce /\ TimerGuardsPending)
<1>1. Spec => []QueueInv
  BY QueueInit, TypeInit, TypeStep, QueueStep, PTL DEF Spec
<1>2. QED
  BY <1>1 DEF QueueInv

(* Pending calls are never left without the timer that posts them (send).  *)
THEOREM PendingIsGuarded == Spec => []TimerGuardsPending
  BY QueuesCorrect, PTL

-----------------------------------------------------------------------------
(* The chain id.                                                           *)

(* A known chain id is forgotten by the empty answer of an open call only. *)
LEMMA ForgottenByAnswer ==
  ASSUME TypeInv, QueueInv, NEW batch \in inflight, NEW payloads \in PayloadArrays,
         ArrayReply(batch, payloads),
         chainIdCache # NoChainId, chainIdCache' = NoChainId
  PROVE  \E c \in ChainIdCalls : reply[c] = Waiting /\ reply'[c] = Resolved(Undefined)
<1> DEFINE writers == {i \in Reached(batch, payloads) :
                         /\ batch[i] \in ChainIdCalls
                         /\ KindFor(payloads, batch[i]) \in {"result", "empty"}}
           last == CHOOSE i \in writers : \A j \in writers : j <= i
           c == batch[last]
<1>1. batch \in Seq(Calls) /\ CacheAfter(batch, payloads) = NoChainId
  BY DEF TypeInv, ArrayReply
<1>2. writers # {}
  BY <1>1 DEF CacheAfter
<1>3. writers \in SUBSET (1..Len(batch)) /\ Len(batch) \in Nat
  BY <1>1, ItemsAreCalls DEF Reached
<1>4. \E i \in writers : \A j \in writers : j <= i
  BY <1>2, <1>3, HasGreatest
<1>5. last \in writers
  BY <1>4
<1>6. /\ c \in ChainIdCalls /\ c \in Calls /\ c \in Items(batch)
      /\ c \in ReachedCalls(batch, payloads)
  BY <1>1, <1>3, <1>5, ItemsAreCalls DEF ReachedCalls
<1>7. KindFor(payloads, c) # "result"
  <2>1. SUFFICES ASSUME KindFor(payloads, c) = "result" PROVE FALSE
    OBVIOUS
  <2>2. PositionsOf(payloads, c) # {}
    BY <2>1 DEF KindFor
  <2>3. PayloadFor(payloads, c).id = c
    BY <1>6, <2>2, PayloadIsOwn
  <2>4. CacheAfter(batch, payloads) = c
    BY <1>2, <2>1, <2>3 DEF CacheAfter
  <2>5. QED
    BY <1>1, <1>6, <2>4, CallsAssumption
<1>8. KindFor(payloads, c) = "empty"
  BY <1>5, <1>7
<1>9. reply[c] = Waiting
  BY <1>6 DEF QueueInv, OpenCallsAreQueuedOnce
<1>10. Settlement(batch, payloads, c) = Resolved(Undefined)
  BY <1>6, <1>8 DEF Settlement
<1>11. reply'[c] = Resolved(Undefined)
  BY <1>6, <1>10 DEF ArrayReply
<1>12. QED
  BY <1>6, <1>9, <1>11

(* Once the chain id is known it stays known, in any order of the replies  *)
(* to calls sent before: only the empty answer to such a call makes the    *)
(* provider forget it (send, runRequests).                                 *)
THEOREM ChainIdCorrect == Spec => ChainIdIsKept
<1> DEFINE Forgotten == chainIdCache # NoChainId /\ chainIdCache' = NoChainId
           Answered == \E c \in ChainIdCalls :
                         reply[c] = Waiting /\ reply'[c] = Resolved(Undefined)
<1>1. TypeInv /\ QueueInv /\ [Next]_vars => [Forgotten => Answered]_vars
  <2> SUFFICES ASSUME TypeInv, QueueInv, [Next]_vars, Forgotten PROVE Answered
    OBVIOUS
  <2>1. PICK batch \in inflight, payloads \in PayloadArrays : ArrayReply(batch, payloads)
    BY DEF Next, vars, SendCached, SendQueued, TimerFires, FetchFails, ObjectReply, NullIdReply,
           RejectAll
  <2>2. QED
    BY <2>1, ForgottenByAnswer
<1>2. QED
  BY <1>1, QueueInit, TypeInit, TypeStep, QueueStep, PTL DEF Spec, ChainIdIsKept

-----------------------------------------------------------------------------
(* The lengths: a batch is flushed as soon as it outgrows the size of the  *)
(* moment, which Capped bounds.                                            *)
LEMMA LengthStep == TypeInv /\ BatchesAreBounded /\ [Next]_vars => BatchesAreBounded'
<1> SUFFICES ASSUME TypeInv, BatchesAreBounded, [Next]_vars PROVE BatchesAreBounded'
  OBVIOUS
<1> USE SizeAssumption, InitialSizesAssumption DEF BatchesAreBounded
<1> DEFINE largest == InitialSizes \cup {GrowthLimit}
<1>0. largest \subseteq Nat /\ Len(<<>>) = 0
  OBVIOUS
<1>1. ASSUME NEW c \in Calls, SendQueued(c) PROVE BatchesAreBounded'
  <2> DEFINE batch == Append(pendingBatch, c)
  <2>1. Len(batch) = Len(pendingBatch) + 1 /\ Len(pendingBatch) \in Nat
    BY DEF TypeInv
  <2>2. PICK size \in largest : Len(pendingBatch) <= size
    OBVIOUS
  <2>3. PICK cap \in largest : batchSize \in Nat /\ batchSize <= cap
    BY CountersType DEF TypeInv, Capped
  <2>4. CASE Len(batch) > batchSize
    <3>1. pendingBatch' = <<>> /\ inflight' = inflight \cup {batch}
      BY <1>1, <2>4 DEF SendQueued, RunRequests
    <3>2. Len(batch) <= size + 1
      BY <1>0, <2>1, <2>2
    <3>3. Len(pendingBatch') <= size
      BY <1>0, <2>2, <3>1
    <3> QED
      BY <2>2, <3>1, <3>2, <3>3
  <2>5. CASE ~(Len(batch) > batchSize)
    <3>1. pendingBatch' = batch /\ inflight' = inflight
      BY <1>1, <2>5 DEF SendQueued
    <3>2. Len(batch) <= cap
      BY <1>0, <2>1, <2>3, <2>5
    <3> QED
      BY <2>3, <3>1, <3>2
  <2> QED
    BY <2>4, <2>5
<1>2. CASE TimerFires
  <2>1. pendingBatch' = <<>> /\ inflight' = inflight \cup {pendingBatch}
    BY <1>2 DEF TimerFires, RunRequests
  <2>2. PICK size \in largest : Len(pendingBatch) <= size
    OBVIOUS
  <2>3. Len(pendingBatch) <= size + 1 /\ Len(pendingBatch') <= size
    BY <1>0, <2>1, <2>2 DEF TypeInv
  <2> QED
    BY <2>1, <2>2, <2>3
<1>3. ASSUME pendingBatch' = pendingBatch, inflight' \subseteq inflight
      PROVE  BatchesAreBounded'
  BY <1>3
<1>4. ASSUME NEW c \in Calls, SendCached(c) PROVE BatchesAreBounded'
  BY <1>3, <1>4 DEF SendCached
<1>5. ASSUME NEW batch \in inflight, BatchReply(batch) PROVE BatchesAreBounded'
  BY <1>3, <1>5 DEF BatchReply, FetchFails, ObjectReply, NullIdReply, ArrayReply, Arrived
<1>6. CASE UNCHANGED vars
  BY <1>3, <1>6 DEF vars
<1> QED
  BY <1>1, <1>2, <1>4, <1>5, <1>6 DEF Next, BatchReply

(* No batch outgrows the largest size by more than one call, also when the *)
(* size shrinks while calls are pending (send, flush, adjustBatchSize).    *)
THEOREM LengthsCorrect == Spec => []BatchesAreBounded
<1>1. Init => BatchesAreBounded
  <2> SUFFICES ASSUME Init PROVE BatchesAreBounded
    OBVIOUS
  <2>1. Len(pendingBatch) <= GrowthLimit /\ inflight = {}
    BY SizeAssumption DEF Init
  <2> QED
    BY <2>1 DEF BatchesAreBounded
<1> QED
  BY <1>1, TypeInit, TypeStep, LengthStep, PTL DEF Spec

-----------------------------------------------------------------------------
(* Answers.                                                                *)

LEMMA AnswerStep == TypeInv /\ AnswersAreOwn /\ [Next]_vars => AnswersAreOwn'
<1> SUFFICES ASSUME TypeInv, AnswersAreOwn, [Next]_vars PROVE AnswersAreOwn'
  OBVIOUS
<1> CacheOK'
  BY TypeStep DEF TypeInv
<1> USE DEF AnswersAreOwn, CacheOK
<1>1. ASSUME NEW c \in Calls, SendCached(c) PROVE AnswersAreOwn'
  <2>1. chainIdCache \in OwnValues(c)
    BY <1>1 DEF SendCached, OwnValues, TypeInv
  <2>2. reply' = [reply EXCEPT ![c] = Resolved(chainIdCache)]
    BY <1>1 DEF SendCached
  <2>3. QED
    BY <2>1, <2>2, RepliesDiffer DEF TypeInv
<1>2. ASSUME NEW c \in Calls, SendQueued(c) PROVE AnswersAreOwn'
  BY <1>2, RepliesDiffer DEF SendQueued, TypeInv
<1>3. CASE TimerFires
  BY <1>3 DEF TimerFires
<1>4. ASSUME NEW batch \in inflight, BatchReply(batch) PROVE AnswersAreOwn'
  <2>1. Settles(batch)
    BY <1>4, BatchReplySettles DEF TypeInv
  <2>2. ASSUME NEW c \in Calls, NEW v, reply'[c] = Resolved(v),
               c \in Items(batch)
        PROVE  v \in OwnValues(c)
    BY <2>1, <2>2, RepliesDiffer DEF Settles
  <2>3. \A c \in Calls : c \notin Items(batch) => reply'[c] = reply[c]
    BY <2>1 DEF Settles
  <2>4. QED
    BY <2>2, <2>3
<1>5. CASE UNCHANGED vars
  BY <1>5 DEF vars
<1>6. QED
  BY <1>1, <1>2, <1>3, <1>4, <1>5 DEF Next, BatchReply

(* A promise is only ever resolved with the result of its own request,     *)
(* however replies are ordered, repeated or cut short.                     *)
THEOREM AnswersCorrect == Spec => []AnswersAreOwn
<1>1. Init => AnswersAreOwn
  BY RepliesDiffer DEF Init, AnswersAreOwn
<1>2. QED
  BY <1>1, TypeInit, TypeStep, AnswerStep, PTL DEF Spec

-----------------------------------------------------------------------------
(* Refinement.                                                             *)

LEMMA ServiceValues ==
  /\ Service!Waiting = Waiting /\ Service!Rejected = Rejected
  /\ Service!Never = Never
  /\ \A v : Service!Resolved(v) = Resolved(v)
  /\ \A c \in Calls : Service!Settled(c) =
       {Rejected} \cup {Resolved(v) : v \in OwnValues(c)}
BY DEF Service!Waiting, Waiting, Service!Rejected, Rejected, Service!Never,
       Never, Service!Resolved, Resolved, Service!Settled

LEMMA ServiceStep ==
  TypeInv /\ QueueInv /\ [Next]_vars => [Service!Next]_reply
<1> SUFFICES ASSUME TypeInv, QueueInv, [Next]_vars PROVE [Service!Next]_reply
  OBVIOUS
<1>1. ASSUME NEW c \in Calls, SendCached(c) PROVE Service!Send(c)
  <2>1. chainIdCache \in OwnValues(c)
    BY <1>1 DEF SendCached, OwnValues, TypeInv, CacheOK
  <2>2. QED
    BY <1>1, <2>1, ServiceValues DEF SendCached, Service!Send
<1>2. ASSUME NEW c \in Calls, SendQueued(c) PROVE Service!Send(c)
  BY <1>2, ServiceValues DEF SendQueued, Service!Send
<1>3. CASE TimerFires
  BY <1>3 DEF TimerFires
<1>4. ASSUME NEW batch \in inflight, BatchReply(batch) PROVE Service!Next
  <2> DEFINE S == Items(batch)
             r == [c \in S |-> reply'[c]]
  <2>1. Settles(batch)
    BY <1>4, BatchReplySettles DEF TypeInv
  <2>2. batch \in Seq(Calls) /\ batch # <<>>
    BY DEF TypeInv, QueueInv, TimerGuardsPending
  <2>3. 1 \in 1..Len(batch)
    BY <2>2
  <2>4. S \in (SUBSET Calls) \ {{}}
    BY <2>2, <2>3, ItemsAreCalls
  <2>5. \A c \in S : reply[c] = Waiting
    BY <2>4 DEF QueueInv, OpenCallsAreQueuedOnce
  <2>6. \A c \in S : r[c] \in Service!Settled(c)
    BY <2>1, <2>4, ServiceValues DEF Settles
  <2>7. r \in [S -> UNION {Service!Settled(c) : c \in S}]
    BY <2>6
  <2>8. reply' = [c \in Calls |-> IF c \in S THEN r[c] ELSE reply[c]]
    BY <2>1 DEF Settles
  <2> HIDE DEF r, S
  <2>9. Service!Settle(S)
    BY <2>5, <2>6, <2>7, <2>8, ServiceValues DEF Service!Settle
  <2>10. QED
    BY <2>4, <2>9 DEF Service!Next
<1>5. CASE UNCHANGED vars
  BY <1>5 DEF vars
<1>6. QED
  BY <1>1, <1>2, <1>3, <1>4, <1>5 DEF Next, BatchReply, Service!Next

(* The batching provider implements the service its callers rely on: every *)
(* call is settled at most once per send and with a value of its own.      *)
THEOREM Refinement == Spec => ImplementsRpcCalls
<1>1. Init => Service!Init /\ TypeInv /\ QueueInv
  <2>1. Init => Service!Init
    BY ServiceValues DEF Init, Service!Init
  <2>2. QED
    BY <2>1, TypeInit, QueueInit
<1>2. QED
  BY <1>1, TypeStep, QueueStep, ServiceStep, PTL
  DEF Spec, ImplementsRpcCalls, Service!Spec
=============================================================================
