---------------------------- MODULE HandlerProofs ----------------------------
(***************************************************************************)
(* Proofs about what the handlers of a project are given.                  *)
(*                                                                         *)
(* Indexing, for any blocks, datasources, filters and ABIs, and whatever   *)
(* datasources the handlers create on the way: every handler runs exactly  *)
(* once for every item it accepts, in the order of the chain.              *)
(*                                                                         *)
(* SafeCalls, for every set of endpoints, calls and heights and every      *)
(* limit on the retries: the calls of a handler stay at its block.         *)
(***************************************************************************)
EXTENDS Indexing, SafeCalls, SequenceTheorems, WellFoundedInduction, TLAPS

(***************************************************************************)
(* Indexing.                                                               *)
(***************************************************************************)

(* A nonempty set of natural numbers has a least element.                  *)
LEMMA LeastNumber ==
  ASSUME NEW T, T \subseteq Nat, T # {}
  PROVE  \E m \in T : \A n \in T : m <= n
<1>. DEFINE Less == OpToRel(<, Nat)
<1>1. IsWellFoundedOn(Less, Nat)
  BY NatLessThanWellFounded
<1>2. Less = {ss \in Nat \X Nat : ss[1] < ss[2]}
  BY Zenon DEF OpToRel
<1>. HIDE DEF Less
<1>3. PICK m \in T : \A n \in T : ~(<<n, m>> \in Less)
  BY <1>1, WFMin
<1>4. ASSUME NEW n \in T PROVE m <= n
  <2>1. n \in Nat /\ m \in Nat
    OBVIOUS
  <2>2. ~(<<n, m>> \in Less)
    BY <1>3
  <2>3. ~(n < m)
    BY <2>1, <2>2, <1>2
  <2>. QED BY <2>1, <2>3
<1>. QED BY <1>3, <1>4

LEMMA SequenceProperties ==
  ASSUME NEW s, IsSequence(s)
  PROVE  Len(s) \in Nat /\ DOMAIN s = 1..Len(s)
BY LenProperties DEF IsSequence

LEMMA AppendSequence ==
  ASSUME NEW s, IsSequence(s), NEW e, NEW t, t = Append(s, e)
  PROVE  /\ IsSequence(t) /\ Len(t) = Len(s) + 1 /\ t[Len(s) + 1] = e
         /\ DOMAIN t = 1..(Len(s) + 1)
         /\ \A i \in 1..Len(s) : t[i] = s[i]
<1>. DEFINE S == {s[i] : i \in DOMAIN s} \cup {e}
<1>1. s \in Seq(S) /\ e \in S
  <2>1. s \in Seq({s[i] : i \in DOMAIN s})
    BY DEF IsSequence
  <2>. QED BY <2>1
<1>. HIDE DEF S
<1>2. /\ t \in Seq(S) /\ Len(t) = Len(s) + 1 /\ t[Len(s) + 1] = e
      /\ \A i \in 1..Len(s) : t[i] = s[i]
  BY <1>1, AppendProperties
<1>3. DOMAIN t = 1..(Len(s) + 1) /\ Len(t) \in Nat /\ DOMAIN t = 1..Len(t)
  BY <1>2, LenProperties
<1>4. t \in Seq({t[i] : i \in DOMAIN t})
  <2>1. t \in Seq(Range(t))
    BY <1>2, SeqOfRange
  <2>. QED BY <2>1 DEF Range
<1>. QED BY <1>2, <1>3, <1>4 DEF IsSequence

-----------------------------------------------------------------------------
(* The places of a block and their order.                                  *)

BlockOK == block \in Blocks

LEMMA BlockLists ==
  ASSUME BlockOK
  PROVE  /\ Len(block.transactions) \in Nat
         /\ DOMAIN block.logs \subseteq Nat \ {0}
         /\ \A t \in Transactions : /\ t \in 0..Len(block.transactions)
                                    /\ LogsAt(t) \subseteq Nat \ {0}
         /\ ~IsFullBlock(block) => Transactions = {0}
<1>1. IsSequence(block.transactions) /\ IsSequence(block.logs)
  BY IndexingAssumption DEF BlockOK
<1>2. Len(block.transactions) \in Nat /\ DOMAIN block.logs \subseteq Nat \ {0}
  BY <1>1, SequenceProperties
<1>3. ASSUME NEW t \in Transactions PROVE t \in 0..Len(block.transactions)
  BY <1>2 DEF Transactions
<1>4. ASSUME NEW t \in Transactions PROVE LogsAt(t) \subseteq Nat \ {0}
  BY <1>2 DEF LogsAt, LogsOf
<1>. QED BY <1>2, <1>3, <1>4 DEF Transactions

LEMMA PlaceParts ==
  ASSUME BlockOK, NEW p
  PROVE  p \in Places <=> \E t \in Transactions :
                            \/ \E l \in LogsAt(t) : p = <<t, l>>
                            \/ IsFullBlock(block) /\ p = <<t, 0>>
<1>. DEFINE N == 0..Len(block.logs)
<1>1. /\ 0 \in N
      /\ \A t \in Transactions : LogsAt(t) \subseteq N /\ 0 \notin LogsAt(t)
  <2>1. IsSequence(block.logs)
    BY IndexingAssumption DEF BlockOK
  <2>2. Len(block.logs) \in Nat /\ DOMAIN block.logs = 1..Len(block.logs)
    BY <2>1, SequenceProperties
  <2>3. DOMAIN block.logs \subseteq N /\ 0 \in N /\ 0 \notin DOMAIN block.logs
    BY <2>2
  <2>4. \A t \in Transactions : LogsAt(t) \subseteq DOMAIN block.logs
    BY DEF LogsAt, LogsOf
  <2>. QED BY <2>3, <2>4
<1>2. p \in Places <=> \E t \in Transactions, l \in N :
        /\ p = <<t, l>>
        /\ IF l = 0 THEN IsFullBlock(block) ELSE l \in LogsAt(t)
  BY DEF Places
<1>. HIDE DEF N
<1>. QED BY <1>1, <1>2

LEMMA PlacesAreNumbers ==
  ASSUME BlockOK
  PROVE  Places \cup {Done} \subseteq Nat \X Nat
<1>1. \A t \in Transactions : t \in Nat /\ LogsAt(t) \subseteq Nat
  BY BlockLists
<1>2. ASSUME NEW p \in Places PROVE p \in Nat \X Nat
  BY <1>1, PlaceParts
<1>3. Done \in Nat \X Nat
  BY BlockLists DEF Done
<1>. QED BY <1>2, <1>3

LEMMA AfterIsNext ==
  ASSUME BlockOK, NEW t \in Transactions, NEW l \in Nat
  PROVE  /\ After(<<t, l>>) \in Places \cup {Done}
         /\ \A q \in Places : /\ Before(q, After(<<t, l>>)) <=> Before(q, <<t, l>>) \/ q = <<t, l>>
                              /\ ~Before(q, q)
<1>. DEFINE n == Len(block.transactions)
<1>1. /\ n \in Nat /\ t \in 0..n
      /\ \A u \in Transactions : u \in 0..n /\ LogsAt(u) \subseteq Nat \ {0}
      /\ ~IsFullBlock(block) => Transactions = {0}
  BY BlockLists
<1>2. LaterLogs(<<t, l>>) = {k \in LogsAt(t) : k > l}
  BY DEF LaterLogs
<1>3. Done = <<n + 1, 0>>
  BY DEF Done
<1>. HIDE DEF n
<1>4. ASSUME NEW q \in Places
      PROVE  \E u \in Transactions, k \in Nat :
               /\ q = <<u, k>> /\ u \in 0..n
               /\ (k > 0 => k \in LogsAt(u))
  BY <1>1, PlaceParts
<1>5. CASE LaterLogs(<<t, l>>) # {}
  <2>. DEFINE L == LaterLogs(<<t, l>>)
              m == CHOOSE x \in L : \A k \in L : x <= k
  <2>1. L \subseteq Nat
    BY <1>1, <1>2
  <2>2. m \in L /\ \A k \in L : m <= k
    <3>1. \E x \in L : \A k \in L : x <= k
      BY <1>5, <2>1, LeastNumber
    <3>. QED BY <3>1
  <2>3. After(<<t, l>>) = <<t, m>>
    BY <1>5 DEF After
  <2>. HIDE DEF m
  <2>4. m \in LogsAt(t) /\ m \in Nat /\ l < m
    BY <1>1, <1>2, <2>2
  <2>5. <<t, m>> \in Places
    BY <2>4, PlaceParts
  <2>6. ASSUME NEW q \in Places
        PROVE  /\ Before(q, <<t, m>>) <=> Before(q, <<t, l>>) \/ q = <<t, l>>
               /\ ~Before(q, q)
    <3>1. PICK u \in Transactions, k \in Nat : q = <<u, k>> /\ u \in 0..n /\ (k > 0 => k \in LogsAt(u))
      BY <1>4
    <3>2. u = t /\ k > l => m <= k
      BY <1>2, <2>2, <3>1
    <3>. QED BY <1>1, <2>4, <3>1, <3>2 DEF Before
  <2>. QED BY <2>3, <2>5, <2>6
<1>6. CASE LaterLogs(<<t, l>>) = {} /\ IsFullBlock(block) /\ t < n
  <2>1. After(<<t, l>>) = <<t + 1, 0>>
    BY <1>6 DEF After, n
  <2>2. t + 1 \in Transactions
    BY <1>1, <1>6 DEF Transactions, n
  <2>3. <<t + 1, 0>> \in Places
    BY <1>6, <2>2, PlaceParts
  <2>4. ASSUME NEW q \in Places
        PROVE  /\ Before(q, <<t + 1, 0>>) <=> Before(q, <<t, l>>) \/ q = <<t, l>>
               /\ ~Before(q, q)
    <3>1. PICK u \in Transactions, k \in Nat : q = <<u, k>> /\ u \in 0..n /\ (k > 0 => k \in LogsAt(u))
      BY <1>4
    <3>2. u = t => ~(k > l)
      BY <1>2, <1>6, <3>1
    <3>. QED BY <1>1, <3>1, <3>2 DEF Before
  <2>. QED BY <2>1, <2>3, <2>4
<1>7. CASE LaterLogs(<<t, l>>) = {} /\ ~(IsFullBlock(block) /\ t < n)
  <2>1. After(<<t, l>>) = <<n + 1, 0>>
    BY <1>3, <1>7 DEF After, n
  <2>2. ASSUME NEW q \in Places
        PROVE  /\ Before(q, <<n + 1, 0>>) <=> Before(q, <<t, l>>) \/ q = <<t, l>>
               /\ ~Before(q, q)
    <3>1. PICK u \in Transactions, k \in Nat : q = <<u, k>> /\ u \in 0..n /\ (k > 0 => k \in LogsAt(u))
      BY <1>4
    <3>2. u = t => ~(k > l)
      BY <1>2, <1>7, <3>1
    <3>3. u <= t
      BY <1>1, <1>7, <3>1
    <3>. QED BY <1>1, <3>1, <3>2, <3>3 DEF Before
  <2>. QED BY <1>3, <2>1, <2>2
<1>. QED BY <1>5, <1>6, <1>7

(* The walk starts before every place, and ends after every place.         *)
LEMMA StartAndDone ==
  ASSUME BlockOK
  PROVE  /\ Start \in Places \cup {Done}
         /\ \A q \in Places : ~Before(q, Start) /\ Before(q, Done) /\ q # Done
<1>1. /\ Len(block.transactions) \in Nat
      /\ \A u \in Transactions : u \in 0..Len(block.transactions) /\ LogsAt(u) \subseteq Nat \ {0}
      /\ ~IsFullBlock(block) => Transactions = {0}
      /\ 0 \in Transactions
  BY BlockLists DEF Transactions
<1>2. ASSUME NEW q \in Places
      PROVE  \E u \in Transactions, k \in Nat :
               /\ q = <<u, k>> /\ u \in 0..Len(block.transactions)
               /\ (~IsFullBlock(block) => k > 0)
  BY <1>1, PlaceParts
<1>3. ASSUME NEW q \in Places PROVE ~Before(q, <<0, 0>>) /\ Before(q, Done) /\ q # Done
  <2>1. PICK u \in Transactions, k \in Nat : q = <<u, k>> /\ u \in 0..Len(block.transactions)
    BY <1>2
  <2>. QED BY <1>1, <2>1 DEF Before, Done
<1>4. CASE IsFullBlock(block)
  <2>1. <<0, 0>> \in Places
    BY <1>1, <1>4, PlaceParts
  <2>. QED BY <1>3, <1>4, <2>1 DEF Start
<1>5. CASE ~IsFullBlock(block)
  <2>1. Start = After(<<0, 0>>)
    BY <1>5 DEF Start
  <2>2. ASSUME NEW q \in Places PROVE q # <<0, 0>>
    BY <1>2, <1>5
  <2>. QED BY <1>1, <1>3, <2>1, <2>2, AfterIsNext
<1>. QED BY <1>4, <1>5

-----------------------------------------------------------------------------
(* Handler k of datasource d has been looked at for the item at place p.   *)
Passed(p, d, k) ==
  \/ Before(p, at)
  \/ p = at /\ (d < next \/ (d = next /\ k < turn))

ListOK ==
  /\ IsSequence(dataSources)
  /\ \A d \in DOMAIN dataSources : IsSequence(dataSources[d].handlers)
  /\ IsSequence(since) /\ Len(since) = Len(dataSources)

TurnOK ==
  /\ at \in Places \cup {Done}
  /\ next \in Nat \ {0} /\ turn \in Nat \ {0}

(* A datasource that was created on the way is not from later on.          *)
SinceOK == \A d \in DOMAIN since : since[d] \in Nat \X Nat /\ ~Before(at, since[d])

(* A run is one that was due ...                                           *)
Due(d, k, p) == ~Before(p, since[d]) /\ Takes(d, k, p)

RunIsDue(r) ==
  /\ r.source \in DOMAIN dataSources
  /\ r.handler \in DOMAIN dataSources[r.source].handlers
  /\ r.place \in Places
  /\ Passed(r.place, r.source, r.handler)
  /\ Due(r.source, r.handler, r.place)

RunsAreDue == \A i \in DOMAIN runs : RunIsDue(runs[i])

(* ... and all that were due so far have run.                              *)
Ran(d, k, p) ==
  \E i \in DOMAIN runs : runs[i].place = p /\ runs[i].source = d /\ runs[i].handler = k

DueHaveRun ==
  \A d \in DOMAIN dataSources : \A k \in DOMAIN dataSources[d].handlers : \A p \in Places :
    Passed(p, d, k) /\ Due(d, k, p) => Ran(d, k, p)

WalkInv == /\ BlockOK /\ ListOK /\ TurnOK /\ SinceOK /\ IsSequence(runs)
           /\ RunsAreDue /\ DueHaveRun /\ HandledInOrder

LEMMA WalkInit == Init => WalkInv
<1>. SUFFICES ASSUME Init PROVE WalkInv
  OBVIOUS
<1>1. /\ BlockOK /\ dataSources \in ProjectSources
      /\ since = [d \in DOMAIN dataSources |-> <<0, 0>>]
      /\ at = Start /\ next = 1 /\ turn = 1 /\ runs = <<>>
  BY DEF Init, BlockOK
<1>2. /\ IsSequence(dataSources)
      /\ \A d \in DOMAIN dataSources : IsSequence(dataSources[d].handlers)
  BY <1>1, IndexingAssumption
<1>3. ListOK
  <2>1. Len(dataSources) \in Nat /\ DOMAIN dataSources = 1..Len(dataSources)
    BY <1>2, SequenceProperties
  <2>2. since = [d \in 1..Len(dataSources) |-> <<0, 0>>]
    BY <1>1, <2>1
  <2>3. since \in Seq({<<0, 0>>}) /\ Len(since) = Len(dataSources)
    BY <2>1, <2>2
  <2>4. since \in Seq({since[i] : i \in DOMAIN since})
    BY <2>1, <2>2, SeqDef
  <2>. QED BY <1>2, <2>3, <2>4 DEF ListOK, IsSequence
<1>4. at \in Places \cup {Done} /\ \A q \in Places : ~Before(q, at)
  BY <1>1, StartAndDone
<1>5. DOMAIN runs = {} /\ IsSequence(runs)
  BY <1>1, EmptySeq DEF IsSequence
<1>6. \A d \in DOMAIN dataSources : \A k \in DOMAIN dataSources[d].handlers : \A p \in Places :
        ~Passed(p, d, k)
  <2>. SUFFICES ASSUME NEW d \in DOMAIN dataSources, NEW k \in DOMAIN dataSources[d].handlers,
                       NEW p \in Places, Passed(p, d, k)
                PROVE  FALSE
    OBVIOUS
  <2>1. d \in Nat \ {0} /\ k \in Nat \ {0}
    BY <1>2, SequenceProperties
  <2>. QED BY <1>1, <1>4, <2>1 DEF Passed
<1>7. SinceOK
  <2>1. at \in Nat \X Nat
    BY <1>1, <1>4, PlacesAreNumbers
  <2>2. ~Before(at, <<0, 0>>)
    BY <2>1 DEF Before
  <2>. QED BY <1>1, <2>2 DEF SinceOK
<1>. QED BY <1>1, <1>3, <1>4, <1>5, <1>6, <1>7 DEF WalkInv, TurnOK, RunsAreDue, DueHaveRun, HandledInOrder

(* The walk goes on without a run, and passes what was not due.            *)
LEMMA WalkOn ==
  ASSUME WalkInv, UNCHANGED <<block, dataSources, since, runs>>, TurnOK', SinceOK',
         \A d \in DOMAIN dataSources : \A k \in DOMAIN dataSources[d].handlers :
           \A p \in Places :
             /\ Passed(p, d, k) => Passed(p, d, k)'
             /\ Passed(p, d, k)' => Passed(p, d, k) \/ ~Takes(d, k, p)
  PROVE  WalkInv'
<1>. BlockOK /\ ListOK /\ IsSequence(runs) /\ RunsAreDue /\ DueHaveRun /\ HandledInOrder
  BY DEF WalkInv
<1>1. /\ Places' = Places
      /\ \A d, k, p : Takes(d, k, p)' <=> Takes(d, k, p)
  BY DEF Places, Takes, Transactions, LogsAt, KindAt, DataAt
<1>2. \A d, k, p : (Due(d, k, p)' <=> Due(d, k, p)) /\ (Ran(d, k, p)' <=> Ran(d, k, p))
  BY <1>1 DEF Due, Ran
<1>3. BlockOK' /\ ListOK' /\ IsSequence(runs') /\ HandledInOrder'
  BY DEF BlockOK, ListOK, HandledInOrder
<1>4. RunsAreDue'
  <2>1. ASSUME NEW r, RunIsDue(r) PROVE RunIsDue(r)'
    <3>1. PICK d, k, p : d = r.source /\ k = r.handler /\ p = r.place
      OBVIOUS
    <3>2. /\ d \in DOMAIN dataSources /\ k \in DOMAIN dataSources[d].handlers
          /\ p \in Places /\ Passed(p, d, k) /\ Due(d, k, p)
      BY <2>1, <3>1 DEF RunIsDue
    <3>3. Passed(p, d, k)' /\ Due(d, k, p)'
      BY <1>2, <3>2
    <3>. QED BY <1>1, <3>1, <3>2, <3>3 DEF RunIsDue
  <2>2. ASSUME NEW i \in DOMAIN runs PROVE \E r : r = runs'[i] /\ RunIsDue(r)'
    BY <2>1 DEF RunsAreDue
  <2>. QED BY <2>2 DEF RunsAreDue
<1>5. DueHaveRun'
  <2>. SUFFICES ASSUME NEW d \in DOMAIN dataSources, NEW k \in DOMAIN dataSources[d].handlers,
                       NEW p \in Places, Passed(p, d, k)', Due(d, k, p)
                PROVE  Ran(d, k, p)
    BY <1>1, <1>2 DEF DueHaveRun
  <2>1. Passed(p, d, k)
    BY DEF Due
  <2>. QED BY <2>1 DEF DueHaveRun
<1>. QED BY <1>3, <1>4, <1>5 DEF WalkInv

LEMMA NextItemWalks ==
  ASSUME WalkInv, NextItem
  PROVE  WalkInv'
<1>. BlockOK /\ ListOK /\ TurnOK
  BY DEF WalkInv
<1>1. /\ at # Done /\ next > Len(dataSources) /\ at' = After(at) /\ next' = 1 /\ turn' = 1
      /\ UNCHANGED <<block, dataSources, since, runs>>
  BY DEF NextItem
<1>2. at \in Places
  BY <1>1 DEF TurnOK
<1>3. PICK t \in Transactions, l \in Nat : at = <<t, l>>
  BY <1>2, PlaceParts, BlockLists
<1>4. /\ at' \in Places \cup {Done}
      /\ \A q \in Places : (Before(q, at') <=> Before(q, at) \/ q = at) /\ ~Before(q, q)
  BY <1>1, <1>3, AfterIsNext
<1>5. Places' = Places /\ Done' = Done
  BY <1>1 DEF Places, Done, Transactions, LogsAt
<1>6. TurnOK'
  BY <1>1, <1>4, <1>5 DEF TurnOK
<1>7. ASSUME NEW d \in DOMAIN dataSources, NEW k \in DOMAIN dataSources[d].handlers,
             NEW p \in Places
      PROVE  Passed(p, d, k)' <=> Passed(p, d, k)
  <2>1. d \in Nat /\ d >= 1 /\ d < next /\ k \in Nat /\ k >= 1
    BY <1>1, SequenceProperties DEF ListOK, TurnOK
  <2>2. ~(d < next' \/ (d = next' /\ k < turn'))
    BY <1>1, <2>1
  <2>3. Passed(p, d, k)' <=> Before(p, at')
    BY <2>2 DEF Passed
  <2>4. Passed(p, d, k) <=> Before(p, at) \/ p = at
    BY <2>1 DEF Passed
  <2>. QED BY <1>4, <2>3, <2>4
<1>8. SinceOK'
  <2>1. at' \in Nat \X Nat /\ at \in Nat \X Nat
    BY <1>2, <1>4, PlacesAreNumbers
  <2>2. Before(at, at')
    BY <1>2, <1>4
  <2>3. ASSUME NEW d \in DOMAIN since PROVE since[d] \in Nat \X Nat /\ ~Before(at', since[d])
    <3>1. since[d] \in Nat \X Nat /\ ~Before(at, since[d])
      BY DEF WalkInv, SinceOK
    <3>. QED BY <2>1, <2>2, <3>1 DEF Before
  <2>. QED BY <1>1, <2>3 DEF SinceOK
<1>. QED BY <1>1, <1>6, <1>7, <1>8, WalkOn

LEMMA NextSourceWalks ==
  ASSUME WalkInv, NextSource
  PROVE  WalkInv'
<1>. BlockOK /\ ListOK /\ TurnOK
  BY DEF WalkInv
<1>1. /\ next <= Len(dataSources) /\ turn > Len(dataSources[next].handlers)
      /\ next' = next + 1 /\ turn' = 1
      /\ UNCHANGED <<block, at, dataSources, since, runs>>
  BY DEF NextSource
<1>2. Places' = Places /\ Done' = Done
  BY <1>1 DEF Places, Done, Transactions, LogsAt
<1>3. TurnOK'
  BY <1>1, <1>2 DEF TurnOK
<1>4. ASSUME NEW d \in DOMAIN dataSources, NEW k \in DOMAIN dataSources[d].handlers,
             NEW p \in Places
      PROVE  Passed(p, d, k)' <=> Passed(p, d, k)
  <2>1. d \in Nat /\ k \in Nat /\ k >= 1 /\ k <= Len(dataSources[d].handlers)
        /\ Len(dataSources[d].handlers) \in Nat /\ next \in Nat /\ turn \in Nat
    BY SequenceProperties DEF ListOK, TurnOK
  <2>2. d = next => k < turn
    BY <1>1, <2>1
  <2>3. (d < next' \/ (d = next' /\ k < turn')) <=> (d < next \/ (d = next /\ k < turn))
    BY <1>1, <2>1, <2>2
  <2>. QED BY <1>1, <2>3 DEF Passed
<1>5. SinceOK'
  BY <1>1 DEF WalkInv, SinceOK
<1>. QED BY <1>1, <1>3, <1>4, <1>5, WalkOn

(* A handler is passed over when its filter does not accept the item.      *)
LEMMA HandlerSkipped ==
  ASSUME WalkInv, IndexData, ~Takes(next, turn, at)
  PROVE  WalkInv'
<1>. BlockOK /\ ListOK /\ TurnOK
  BY DEF WalkInv
<1>1. /\ next <= Len(dataSources) /\ turn' = turn + 1
      /\ UNCHANGED <<block, at, next, dataSources, since, runs>>
  BY DEF IndexData
<1>2. Places' = Places /\ Done' = Done
  BY <1>1 DEF Places, Done, Transactions, LogsAt
<1>3. TurnOK'
  BY <1>1, <1>2 DEF TurnOK
<1>4. ASSUME NEW d \in DOMAIN dataSources, NEW k \in DOMAIN dataSources[d].handlers,
             NEW p \in Places
      PROVE  /\ Passed(p, d, k) => Passed(p, d, k)'
             /\ Passed(p, d, k)' => Passed(p, d, k) \/ ~Takes(d, k, p)
  <2>1. d \in Nat /\ k \in Nat /\ next \in Nat /\ turn \in Nat
    BY SequenceProperties DEF ListOK, TurnOK
  <2>2. (d = next /\ k < turn') <=> (d = next /\ (k < turn \/ k = turn))
    BY <1>1, <2>1
  <2>. QED BY <1>1, <2>2 DEF Passed
<1>5. SinceOK'
  BY <1>1 DEF WalkInv, SinceOK
<1>. QED BY <1>1, <1>3, <1>4, <1>5, WalkOn

(* A handler is run, and may create a datasource, which is looked at from  *)
(* this item on.                                                           *)
LEMMA HandlerRun ==
  ASSUME WalkInv, IndexData, Takes(next, turn, at)
  PROVE  WalkInv'
<1>. BlockOK /\ ListOK /\ TurnOK /\ SinceOK /\ IsSequence(runs) /\ RunsAreDue
     /\ DueHaveRun /\ HandledInOrder
  BY DEF WalkInv
<1>. DEFINE kind == KindAt(at)
            run == [place |-> at, source |-> next, handler |-> turn,
                    args |-> IF kind = "Block" THEN NoArgs ELSE args'[DataAt(at)]]
            n == Len(dataSources)
            m == Len(runs)
<1>1. /\ at # Done /\ next <= n /\ turn <= Len(dataSources[next].handlers)
      /\ turn' = turn + 1 /\ runs' = Append(runs, run)
      /\ UNCHANGED <<block, at, next>>
  BY DEF IndexData
<1>2. \/ dataSources' = dataSources /\ since' = since
      \/ \E new \in TemplateSources : dataSources' = Append(dataSources, new)
                                      /\ since' = Append(since, at)
  BY DEF IndexData
<1>3. run.place = at /\ run.source = next /\ run.handler = turn
  OBVIOUS
<1>. HIDE DEF run
<1>4. /\ at \in Places /\ Places' = Places /\ Done' = Done
  BY <1>1 DEF TurnOK, Places, Done, Transactions, LogsAt
<1>5. /\ n \in Nat /\ DOMAIN dataSources = 1..n /\ DOMAIN since = 1..n /\ Len(since) = n
      /\ m \in Nat /\ DOMAIN runs = 1..m
      /\ next \in 1..n /\ turn \in Nat /\ turn \in DOMAIN dataSources[next].handlers
      /\ \A d \in 1..n : d \in Nat
      /\ \A d \in 1..n : \A k \in DOMAIN dataSources[d].handlers : k \in Nat
  <2>1. /\ n \in Nat /\ DOMAIN dataSources = 1..n /\ DOMAIN since = 1..n /\ Len(since) = n
        /\ m \in Nat /\ DOMAIN runs = 1..m
    BY SequenceProperties DEF ListOK
  <2>2. \A d \in 1..n : /\ Len(dataSources[d].handlers) \in Nat
                        /\ DOMAIN dataSources[d].handlers = 1..Len(dataSources[d].handlers)
    BY <2>1, SequenceProperties DEF ListOK
  <2>3. next \in 1..n /\ turn \in Nat
    BY <1>1, <2>1 DEF TurnOK
  <2>4. turn \in DOMAIN dataSources[next].handlers
    BY <1>1, <2>2, <2>3 DEF TurnOK
  <2>. QED BY <2>1, <2>2, <2>3, <2>4
(* The lists: the old entries stay, a new datasource begins here.          *)
<1>6. /\ IsSequence(dataSources') /\ IsSequence(since') /\ Len(since') = Len(dataSources')
      /\ \A d \in 1..n : /\ d \in DOMAIN dataSources' /\ dataSources'[d] = dataSources[d]
                         /\ since'[d] = since[d]
      /\ \A d \in DOMAIN dataSources' : d \in 1..n \/ (d = n + 1 /\ since'[d] = at)
      /\ \A d \in DOMAIN dataSources' : IsSequence(dataSources'[d].handlers)
  <2>1. CASE dataSources' = dataSources /\ since' = since
    BY <1>5, <2>1 DEF ListOK
  <2>2. CASE ~(dataSources' = dataSources /\ since' = since)
    <3>1. PICK new \in TemplateSources : dataSources' = Append(dataSources, new)
                                         /\ since' = Append(since, at)
      BY <1>2, <2>2
    <3>2. PICK ds, si : ds = dataSources' /\ si = since'
      OBVIOUS
    <3>3. /\ IsSequence(ds) /\ Len(ds) = n + 1 /\ ds[n + 1] = new
          /\ DOMAIN ds = 1..(n + 1) /\ \A i \in 1..n : ds[i] = dataSources[i]
      <4>1. ds = Append(dataSources, new) /\ IsSequence(dataSources)
        BY <3>1, <3>2 DEF ListOK
      <4>2. IsSequence(ds)
        BY <4>1, AppendSequence
      <4>3. Len(ds) = n + 1 /\ ds[n + 1] = new /\ DOMAIN ds = 1..(n + 1)
        BY <4>1, AppendSequence
      <4>4. \A i \in 1..n : ds[i] = dataSources[i]
        BY <4>1, AppendSequence
      <4>. QED BY <4>2, <4>3, <4>4
    <3>4. /\ IsSequence(si) /\ Len(si) = n + 1 /\ si[n + 1] = at
          /\ \A i \in 1..n : si[i] = since[i]
      <4>1. si = Append(since, at) /\ IsSequence(since) /\ Len(since) = n
        BY <1>5, <3>1, <3>2 DEF ListOK
      <4>2. IsSequence(si)
        BY <4>1, AppendSequence
      <4>3. Len(si) = n + 1 /\ si[n + 1] = at
        BY <4>1, AppendSequence
      <4>4. \A i \in 1..n : si[i] = since[i]
        BY <4>1, AppendSequence
      <4>. QED BY <4>2, <4>3, <4>4
    <3>5. IsSequence(new.handlers)
      BY IndexingAssumption
    <3>6. \A d \in 1..(n + 1) : d \in 1..n \/ d = n + 1
      BY <1>5
    <3>7. \A d \in 1..n : d \in 1..(n + 1)
      BY <1>5
    <3>8. ASSUME NEW d \in 1..(n + 1) PROVE IsSequence(ds[d].handlers)
      BY <1>5, <3>3, <3>5, <3>6 DEF ListOK
    <3>. QED BY <3>2, <3>3, <3>4, <3>6, <3>7, <3>8
  <2>. QED BY <2>1, <2>2
<1>7. /\ IsSequence(runs') /\ DOMAIN runs' = 1..(m + 1)
      /\ runs'[m + 1] = run /\ \A i \in 1..m : runs'[i] = runs[i]
  <2>1. PICK r : r = runs'
    OBVIOUS
  <2>2. /\ IsSequence(r) /\ DOMAIN r = 1..(m + 1) /\ r[m + 1] = run /\ \A i \in 1..m : r[i] = runs[i]
    <3>1. r = Append(runs, run) /\ IsSequence(runs)
      BY <1>1, <2>1
    <3>2. IsSequence(r)
      BY <3>1, AppendSequence
    <3>3. DOMAIN r = 1..(m + 1) /\ r[m + 1] = run
      BY <3>1, AppendSequence
    <3>4. \A i \in 1..m : r[i] = runs[i]
      BY <3>1, AppendSequence
    <3>. QED BY <3>2, <3>3, <3>4
  <2>. QED BY <2>1, <2>2
<1>. HIDE DEF n, m
<1>8. \A i \in 1..(m + 1) : i \in 1..m \/ i = m + 1
  BY <1>5
<1>9. \A i \in 1..m : i \in 1..(m + 1)
  BY <1>5
<1>10. m + 1 \in 1..(m + 1)
  BY <1>5
<1>11. BlockOK' /\ ListOK' /\ TurnOK'
  BY <1>1, <1>4, <1>5, <1>6 DEF BlockOK, ListOK, TurnOK
(* What is due of the old datasources stays due.                           *)
<1>12. ASSUME NEW d \in 1..n, NEW k, NEW p
       PROVE  (Due(d, k, p)' <=> Due(d, k, p)) /\ (Takes(d, k, p)' <=> Takes(d, k, p))
  <2>1. dataSources'[d] = dataSources[d] /\ since'[d] = since[d]
    BY <1>6
  <2>. QED BY <1>1, <2>1 DEF Due, Takes, KindAt, DataAt
<1>13. ASSUME NEW d \in 1..n, NEW k \in DOMAIN dataSources[d].handlers, NEW p \in Places
       PROVE  Passed(p, d, k)' <=> Passed(p, d, k) \/ (p = at /\ d = next /\ k = turn)
  <2>1. d \in Nat /\ k \in Nat /\ next \in Nat /\ turn \in Nat
    BY <1>5
  <2>2. (d = next /\ k < turn') <=> (d = next /\ (k < turn \/ k = turn))
    BY <1>1, <2>1
  <2>. QED BY <1>1, <2>2 DEF Passed
<1>14. at \in Nat \X Nat /\ ~Before(at, at)
  <2>1. at \in Nat \X Nat
    BY <1>4, PlacesAreNumbers
  <2>. QED BY <2>1 DEF Before
<1>15. SinceOK'
  <2>1. DOMAIN since' = DOMAIN dataSources'
    BY <1>6, SequenceProperties
  <2>2. ASSUME NEW d \in DOMAIN since' PROVE since'[d] \in Nat \X Nat /\ ~Before(at, since'[d])
    <3>1. CASE d \in 1..n
      BY <1>5, <1>6, <3>1 DEF SinceOK
    <3>2. CASE ~(d \in 1..n)
      BY <1>6, <1>14, <2>1, <3>2
    <3>. QED BY <3>1, <3>2
  <2>. QED BY <1>1, <2>2 DEF SinceOK
<1>16. Due(next, turn, at) /\ next \in 1..n
  <2>1. ~Before(at, since[next])
    BY <1>5 DEF SinceOK
  <2>. QED BY <1>5, <2>1 DEF Due
<1>17. RunsAreDue'
  <2>1. ASSUME NEW r, RunIsDue(r) \/ r = run
        PROVE  RunIsDue(r)'
    <3>1. PICK d, k, p : d = r.source /\ k = r.handler /\ p = r.place
      OBVIOUS
    <3>2. /\ d \in 1..n /\ k \in DOMAIN dataSources[d].handlers /\ p \in Places
          /\ Passed(p, d, k) \/ (p = at /\ d = next /\ k = turn)
          /\ Due(d, k, p)
      <4>1. CASE RunIsDue(r)
        BY <1>5, <3>1, <4>1 DEF RunIsDue
      <4>2. CASE r = run
        BY <1>3, <1>4, <1>5, <1>16, <3>1, <4>2
      <4>. QED BY <2>1, <4>1, <4>2
    <3>3. Passed(p, d, k)' /\ Due(d, k, p)'
      BY <1>12, <1>13, <3>2
    <3>4. d \in DOMAIN dataSources' /\ dataSources'[d] = dataSources[d]
      BY <1>6, <3>2
    <3>. QED BY <1>4, <3>1, <3>2, <3>3, <3>4 DEF RunIsDue
  <2>2. ASSUME NEW i \in 1..(m + 1)
        PROVE  RunIsDue(runs'[i]) \/ runs'[i] = run
    BY <1>5, <1>7, <1>8 DEF RunsAreDue
  <2>3. ASSUME NEW i \in 1..(m + 1)
        PROVE  \E r : r = runs'[i] /\ RunIsDue(r)'
    BY <2>1, <2>2
  <2>. QED BY <1>7, <2>3 DEF RunsAreDue
<1>18. DueHaveRun'
  <2>. SUFFICES ASSUME NEW d \in DOMAIN dataSources', NEW k \in DOMAIN dataSources'[d].handlers,
                       NEW p \in Places, Passed(p, d, k)', Due(d, k, p)'
                PROVE  Ran(d, k, p)'
    BY <1>4 DEF DueHaveRun
  <2>1. CASE d \in 1..n
    <3>1. k \in DOMAIN dataSources[d].handlers /\ Due(d, k, p)
      BY <1>6, <1>12, <2>1
    <3>2. CASE Passed(p, d, k)
      <4>1. Ran(d, k, p)
        BY <1>5, <2>1, <3>1, <3>2 DEF DueHaveRun
      <4>2. PICK i \in 1..m : runs[i].place = p /\ runs[i].source = d /\ runs[i].handler = k
        BY <1>5, <4>1 DEF Ran
      <4>. QED BY <1>7, <1>9, <4>2 DEF Ran
    <3>3. CASE ~Passed(p, d, k)
      <4>1. p = at /\ d = next /\ k = turn
        BY <1>13, <2>1, <3>1, <3>3
      <4>. QED BY <1>3, <1>7, <1>10, <4>1 DEF Ran
    <3>. QED BY <3>2, <3>3
  <2>2. CASE ~(d \in 1..n)
    <3>1. d = n + 1 /\ since'[d] = at
      BY <1>6, <2>2
    <3>2. ~Before(p, at)
      BY <3>1 DEF Due
    <3>3. d > next /\ next \in Nat /\ d \in Nat
      BY <1>5, <3>1
    <3>4. ~(d < next' \/ (d = next' /\ k < turn'))
      BY <1>1, <3>3
    <3>. QED BY <1>1, <3>2, <3>4 DEF Passed
  <2>. QED BY <2>1, <2>2
<1>19. HandledInOrder'
  <2>. DEFINE Sorted(a, b) ==
         \/ Before(a.place, b.place)
         \/ /\ a.place = b.place
            /\ Before(<<a.source, a.handler>>, <<b.source, b.handler>>)
  <2>. SUFFICES ASSUME NEW i \in 1..(m + 1), NEW j \in 1..(m + 1), i < j
                PROVE  Sorted(runs'[i], runs'[j])
    BY <1>7 DEF HandledInOrder
  <2>1. i \in 1..m
    BY <1>5
  <2>2. CASE j \in 1..m
    BY <1>5, <1>7, <2>1, <2>2 DEF HandledInOrder
  <2>3. CASE ~(j \in 1..m)
    <3>1. runs'[j] = run /\ runs'[i] = runs[i]
      BY <1>7, <1>8, <2>1, <2>3
    <3>2. Passed(runs[i].place, runs[i].source, runs[i].handler)
      BY <1>5, <2>1 DEF RunsAreDue, RunIsDue
    <3>3. \/ Before(runs[i].place, at)
          \/ /\ runs[i].place = at
             /\ Before(<<runs[i].source, runs[i].handler>>, <<next, turn>>)
      BY <3>2 DEF Passed, Before
    <3>. QED BY <1>3, <3>1, <3>3
  <2>. QED BY <2>2, <2>3
<1>. QED BY <1>7, <1>11, <1>15, <1>17, <1>18, <1>19 DEF WalkInv

LEMMA WalkStep == WalkInv /\ [Next]_vars => WalkInv'
<1>. SUFFICES ASSUME WalkInv, [Next]_vars PROVE WalkInv'
  OBVIOUS
<1>1. CASE IndexData
  BY <1>1, HandlerSkipped, HandlerRun
<1>2. CASE NextSource
  BY <1>2, NextSourceWalks
<1>3. CASE NextItem
  BY <1>3, NextItemWalks
<1>4. CASE UNCHANGED vars
  <2>1. UNCHANGED <<block, dataSources, since, at, next, turn, runs>>
    BY <1>4 DEF vars
  <2>2. TurnOK' /\ SinceOK'
    BY <2>1 DEF WalkInv, TurnOK, SinceOK, Places, Done, Transactions, LogsAt
  <2>3. \A d, k, p : Passed(p, d, k)' <=> Passed(p, d, k)
    BY <2>1 DEF Passed
  <2>. QED BY <2>1, <2>2, <2>3, WalkOn
<1>. QED BY <1>1, <1>2, <1>3, <1>4 DEF Next

LEMMA WalkInvariant == Spec => []WalkInv
<1>1. WalkInv /\ [Next]_vars => WalkInv'
  BY WalkStep
<1>. QED BY <1>1, WalkInit, PTL DEF Spec

(* Handlers run in the order of the chain and of their datasources, for    *)
(* any block, datasources and handlers that create others.                 *)
THEOREM RunsAreInOrder == Spec => []HandledInOrder
<1>1. WalkInv => HandledInOrder
  BY DEF WalkInv
<1>. QED BY <1>1, WalkInvariant, PTL

(* Every handler runs exactly once for every item that its filter accepts. *)
THEOREM ItemsAreHandledOnce == Spec => []EveryItemIsHandledOnce
<1>1. ASSUME WalkInv PROVE EveryItemIsHandledOnce
  <2>. SUFFICES ASSUME at = Done, NEW d \in DOMAIN dataSources,
                       NEW k \in DOMAIN dataSources[d].handlers
                PROVE  /\ {runs[i].place : i \in RunsOf(d, k)} =
                            {p \in Places : ~Before(p, since[d]) /\ Takes(d, k, p)}
                       /\ \A i, j \in RunsOf(d, k) : runs[i].place = runs[j].place => i = j
    BY DEF EveryItemIsHandledOnce
  <2>0. BlockOK /\ RunsAreDue /\ DueHaveRun /\ HandledInOrder /\ IsSequence(runs) /\ ListOK
    BY <1>1 DEF WalkInv
  <2>1. \A p \in Places : Passed(p, d, k)
    BY <2>0, StartAndDone DEF Passed
  <2>2. ASSUME NEW i \in RunsOf(d, k)
        PROVE  runs[i].place \in Places /\ Due(d, k, runs[i].place)
    BY <2>0 DEF RunsAreDue, RunIsDue, RunsOf
  <2>3. ASSUME NEW p \in Places, Due(d, k, p)
        PROVE  \E i \in RunsOf(d, k) : runs[i].place = p
    <3>1. Ran(d, k, p)
      BY <2>0, <2>1, <2>3 DEF DueHaveRun
    <3>. QED BY <3>1 DEF Ran, RunsOf
  <2>4. ASSUME NEW i \in RunsOf(d, k), NEW j \in RunsOf(d, k),
               runs[i].place = runs[j].place, i < j
        PROVE  FALSE
    <3>1. /\ i \in DOMAIN runs /\ j \in DOMAIN runs
          /\ runs[i].source = d /\ runs[i].handler = k
          /\ runs[j].source = d /\ runs[j].handler = k
      BY DEF RunsOf
    <3>2. runs[i].place \in Nat \X Nat
      BY <2>0, <2>2, PlacesAreNumbers
    <3>3. d \in Nat /\ k \in Nat
      BY <2>0, SequenceProperties DEF ListOK
    <3>4. \/ Before(runs[i].place, runs[i].place)
          \/ Before(<<d, k>>, <<d, k>>)
      BY <2>0, <2>4, <3>1 DEF HandledInOrder
    <3>. QED BY <3>2, <3>3, <3>4 DEF Before
  <2>5. \A i, j \in RunsOf(d, k) : runs[i].place = runs[j].place => i = j
    <3>1. RunsOf(d, k) \subseteq Nat
      BY <2>0, SequenceProperties DEF RunsOf
    <3>2. \A i, j \in Nat : i # j => i < j \/ j < i
      OBVIOUS
    <3>. QED BY <2>4, <3>1, <3>2
  <2>. QED BY <2>2, <2>3, <2>5 DEF Due
<1>. QED BY <1>1, WalkInvariant, PTL

(***************************************************************************)
(* SafeCalls.                                                              *)
(***************************************************************************)

(* What the calls can be, as one set.                                      *)
CallStates ==
  {Idle}
    \cup {Requesting(b, e, p, n) : b \in Heights, e \in Endpoints,
                                   p \in Heights, n \in 0..MaxRetries - 1}
    \cup {Resolved(b, p) : b \in Heights, p \in Heights}
    \cup {Rejected(x, n) : x \in {"transient", "final", "pool"}, n \in 0..MaxRetries}

(* What a request that is out is made of.                                  *)
LEMMA RequestingFields ==
  ASSUME NEW s \in CallStates, s.state = "requesting"
  PROVE  /\ s.block \in Heights /\ s.pin \in Heights
         /\ s.retries \in 0..MaxRetries - 1
<1>1. CASE s = Idle
  BY <1>1 DEF Idle
<1>2. CASE \E b \in Heights, e \in Endpoints, p \in Heights, n \in 0..MaxRetries - 1 :
             s = Requesting(b, e, p, n)
  BY <1>2 DEF Requesting
<1>3. CASE \E b \in Heights, p \in Heights : s = Resolved(b, p)
  BY <1>3 DEF Resolved
<1>4. CASE \E x \in {"transient", "final", "pool"}, n \in 0..MaxRetries : s = Rejected(x, n)
  BY <1>4 DEF Rejected
<1> QED
  BY <1>1, <1>2, <1>3, <1>4 DEF CallStates

(* A retry is another request at the same height, counted, or the error.   *)
LEMMA RetryIsCounted ==
  ASSUME NEW c \in Calls, NEW e \in Endpoints,
         calls \in [Calls -> CallStates], calls[c].state = "requesting"
  PROVE  \/ /\ Retry(c, e) = Requesting(calls[c].block, e, calls[c].pin,
                                        calls[c].retries + 1)
            /\ calls[c].retries + 1 \in 0..MaxRetries - 1
         \/ Retry(c, e) = Rejected("transient", MaxRetries)
<1>1. calls[c].retries \in 0..MaxRetries - 1
  BY RequestingFields
<1>2. CASE calls[c].retries + 1 < MaxRetries
  BY <1>1, <1>2, SafeCallsAssumption DEF Retry
<1>3. CASE ~(calls[c].retries + 1 < MaxRetries)
  <2>1. calls[c].retries + 1 = MaxRetries
    BY <1>1, <1>3, SafeCallsAssumption
  <2> QED
    BY <1>3, <2>1 DEF Retry
<1> QED
  BY <1>2, <1>3

-----------------------------------------------------------------------------
LEMMA InitTypeOK == CallsInit => CallsTypeOK
BY DEF CallsInit, CallsTypeOK

LEMMA StepTypeOK == CallsTypeOK /\ [CallsNext]_callsVars => CallsTypeOK'
<1> SUFFICES ASSUME CallsTypeOK, [CallsNext]_callsVars PROVE CallsTypeOK'
  OBVIOUS
<1>0. /\ connected \subseteq Endpoints /\ height \in Heights \cup {NoBlock}
      /\ target \in Endpoints /\ calls \in [Calls -> CallStates]
  BY DEF CallsTypeOK, CallStates
<1> SUFFICES /\ connected' \subseteq Endpoints /\ height' \in Heights \cup {NoBlock}
             /\ target' \in Endpoints /\ calls' \in [Calls -> CallStates]
  BY DEF CallsTypeOK, CallStates
<1>1. CASE PoolChanges
  BY <1>0, <1>1 DEF PoolChanges
<1>2. CASE NextBlock
  BY <1>0, <1>2 DEF NextBlock
<1>3. ASSUME NEW c \in Calls, NEW s \in CallStates, Settle(c, s),
             UNCHANGED <<connected, height, target>>
      PROVE  /\ connected' \subseteq Endpoints /\ height' \in Heights \cup {NoBlock}
             /\ target' \in Endpoints /\ calls' \in [Calls -> CallStates]
  BY <1>0, <1>3 DEF Settle
<1>4. ASSUME NEW c \in Calls, CallPinned(c) PROVE calls' \in [Calls -> CallStates]
  <2>1. Requesting(height, target, height, 0) \in CallStates
    BY <1>0, <1>4, SafeCallsAssumption DEF CallPinned, CallStates
  <2> QED
    BY <1>3, <1>4, <2>1 DEF CallPinned
<1>5. ASSUME NEW c \in Calls, CallUnsupported(c) PROVE calls' \in [Calls -> CallStates]
  <2>1. Rejected("final", 0) \in CallStates
    BY SafeCallsAssumption DEF CallStates
  <2> QED
    BY <1>3, <1>5, <2>1 DEF CallUnsupported
<1>6. ASSUME NEW c \in Calls, RequestSucceeds(c) PROVE calls' \in [Calls -> CallStates]
  <2>1. Resolved(calls[c].block, calls[c].pin) \in CallStates
    BY <1>0, <1>6, RequestingFields DEF RequestSucceeds, CallStates
  <2> QED
    BY <1>3, <1>6, <2>1 DEF RequestSucceeds
<1>7. ASSUME NEW c \in Calls, RequestRefused(c) PROVE calls' \in [Calls -> CallStates]
  <2>1. calls[c].retries + 1 \in 0..MaxRetries
    BY <1>0, <1>7, RequestingFields, SafeCallsAssumption DEF RequestRefused
  <2>2. Rejected("final", calls[c].retries + 1) \in CallStates
    BY <2>1 DEF CallStates
  <2> QED
    BY <1>3, <1>7, <2>2 DEF RequestRefused
<1>8. ASSUME NEW c \in Calls, RequestFails(c) PROVE calls' \in [Calls -> CallStates]
  <2>1. calls[c] \in CallStates /\ calls[c].state = "requesting"
    BY <1>0, <1>8 DEF RequestFails
  <2>2. calls[c].retries + 1 \in 0..MaxRetries
    BY <2>1, RequestingFields, SafeCallsAssumption
  <2>3. Rejected("pool", calls[c].retries + 1) \in CallStates
    BY <2>2 DEF CallStates
  <2>4. ASSUME NEW e \in connected PROVE Retry(c, e) \in CallStates
    <3>1. e \in Endpoints
      BY <1>0
    <3>2. calls[c].block \in Heights /\ calls[c].pin \in Heights
      BY <2>1, RequestingFields
    <3>3. Rejected("transient", MaxRetries) \in CallStates
      BY SafeCallsAssumption DEF CallStates
    <3>4. ASSUME calls[c].retries + 1 \in 0..MaxRetries - 1
          PROVE  Requesting(calls[c].block, e, calls[c].pin, calls[c].retries + 1) \in CallStates
      BY <3>1, <3>2, <3>4 DEF CallStates
    <3> QED
      BY <1>0, <2>1, <3>1, <3>3, <3>4, RetryIsCounted
  <2> QED
    BY <1>3, <1>8, <2>3, <2>4 DEF RequestFails
<1>9. CASE UNCHANGED callsVars
  BY <1>0, <1>9 DEF callsVars
<1> QED
  BY <1>0, <1>1, <1>2, <1>4, <1>5, <1>6, <1>7, <1>8, <1>9
     DEF CallsNext, CallPinned, CallUnsupported, RequestSucceeds, RequestRefused, RequestFails

(* The state of every call keeps its kind, and the retries their bound:    *)
(* safeApi never asks more than maxRetries times.                          *)
THEOREM SafeTypeCorrect == CallsSpec => []CallsTypeOK
BY InitTypeOK, StepTypeOK, PTL DEF CallsSpec

-----------------------------------------------------------------------------
(* The two invariants about the calls are inductive beside CallsTypeOK.    *)
CallsCorrect == CallsStayAtTheirBlock /\ TransientErrorsAreRetried

(* What one call must satisfy for both.                                    *)
CallCorrect(s) ==
  /\ s.state \in {"requesting", "resolved"} => s.pin = s.block
  /\ s.state = "rejected" /\ s.error = "transient" => s.requests = MaxRetries

LEMMA InitCallsCorrect == CallsInit => CallsCorrect
BY DEF CallsInit, CallsCorrect, CallsStayAtTheirBlock, TransientErrorsAreRetried, Idle

LEMMA StepCallsCorrect == CallsTypeOK /\ CallsCorrect /\ [CallsNext]_callsVars => CallsCorrect'
<1> SUFFICES ASSUME CallsTypeOK, \A d \in Calls : CallCorrect(calls[d]), [CallsNext]_callsVars
             PROVE  \A d \in Calls : CallCorrect(calls'[d])
  BY DEF CallsCorrect, CallsStayAtTheirBlock, TransientErrorsAreRetried, CallCorrect
<1>0. connected \subseteq Endpoints /\ calls \in [Calls -> CallStates]
  BY DEF CallsTypeOK, CallStates
<1>1. ASSUME NEW c \in Calls, NEW s, CallCorrect(s), Settle(c, s)
      PROVE  \A d \in Calls : CallCorrect(calls'[d])
  BY <1>0, <1>1 DEF Settle
<1>2. ASSUME NEW x, NEW n, x # "transient" PROVE CallCorrect(Rejected(x, n))
  BY <1>2 DEF CallCorrect, Rejected
<1>3. ASSUME NEW c \in Calls, CallPinned(c) PROVE \A d \in Calls : CallCorrect(calls'[d])
  <2>1. CallCorrect(Requesting(height, target, height, 0))
    BY DEF CallCorrect, Requesting
  <2> QED
    BY <1>1, <1>3, <2>1 DEF CallPinned
<1>4. ASSUME NEW c \in Calls, CallUnsupported(c) PROVE \A d \in Calls : CallCorrect(calls'[d])
  BY <1>1, <1>2, <1>4 DEF CallUnsupported
<1>5. ASSUME NEW c \in Calls, RequestSucceeds(c) PROVE \A d \in Calls : CallCorrect(calls'[d])
  <2>1. CallCorrect(Resolved(calls[c].block, calls[c].pin))
    BY <1>5 DEF RequestSucceeds, CallCorrect, Resolved
  <2> QED
    BY <1>1, <1>5, <2>1 DEF RequestSucceeds
<1>6. ASSUME NEW c \in Calls, RequestRefused(c) PROVE \A d \in Calls : CallCorrect(calls'[d])
  BY <1>1, <1>2, <1>6 DEF RequestRefused
<1>7. ASSUME NEW c \in Calls, RequestFails(c) PROVE \A d \in Calls : CallCorrect(calls'[d])
  <2>1. CASE connected = {}
    BY <1>1, <1>2, <1>7, <2>1 DEF RequestFails
  <2>2. ASSUME NEW e \in connected PROVE CallCorrect(Retry(c, e))
    <3>1. calls[c].state = "requesting" /\ calls[c].pin = calls[c].block
      BY <1>7 DEF RequestFails, CallCorrect
    <3>2. CallCorrect(Rejected("transient", MaxRetries))
      BY DEF CallCorrect, Rejected
    <3>3. CallCorrect(Requesting(calls[c].block, e, calls[c].pin, calls[c].retries + 1))
      BY <3>1 DEF CallCorrect, Requesting
    <3> QED
      BY <1>0, <3>1, <3>2, <3>3, RetryIsCounted
  <2> QED
    BY <1>1, <1>7, <2>1, <2>2 DEF RequestFails
<1>8. CASE PoolChanges \/ NextBlock \/ UNCHANGED callsVars
  BY <1>8 DEF PoolChanges, NextBlock, callsVars
<1> QED
  BY <1>3, <1>4, <1>5, <1>6, <1>7, <1>8 DEF CallsNext

LEMMA CallsAlwaysCorrect == CallsSpec => []CallsCorrect
BY InitCallsCorrect, StepCallsCorrect, SafeTypeCorrect, PTL DEF CallsSpec

(* A handler's call is pinned to the block it was made in, through every   *)
(* retry at another endpoint (safeApi).                                    *)
THEOREM CallsPinned == CallsSpec => []CallsStayAtTheirBlock
<1>1. CallsCorrect => CallsStayAtTheirBlock
  BY DEF CallsCorrect
<1> QED
  BY <1>1, CallsAlwaysCorrect, PTL

(* The error of a request reaches the handler only after maxRetries of     *)
(* them (safeApi's "Maximum retries exceeded").                            *)
THEOREM RetriesCorrect == CallsSpec => []TransientErrorsAreRetried
<1>1. CallsCorrect => TransientErrorsAreRetried
  BY DEF CallsCorrect
<1> QED
  BY <1>1, CallsAlwaysCorrect, PTL
=============================================================================
