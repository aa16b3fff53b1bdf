----------------------- MODULE UnfinalizedBlocksProofs -----------------------
(***************************************************************************)
(* Proofs about UnfinalizedBlocks: for a chain of any height, any number   *)
(* of reorganisations of any depth, and restarts at any moment.            *)
(*                                                                         *)
(* A block is the path of branches from the genesis block to it, so that   *)
(* its ancestors are its prefixes.  The first part is about such paths and *)
(* the filters of lists of them; the second (Shape) about what the service *)
(* holds at any time: one block for every height indexed, and cached       *)
(* headers that are blocks of the index and link; the third (KnownOK,      *)
(* Guarded) about what it knows of the chain: up to the last header        *)
(* checked, the index is a branch, and a search has passed only orphans.   *)
(***************************************************************************)
EXTENDS UnfinalizedBlocks, SequenceTheorems, WellFoundedInduction, TLAPS

(***************************************************************************)
(* Filters and paths.                                                      *)
(***************************************************************************)

(* A nonempty set of natural numbers has a least element.                  *)
LEMMA LeastNatural ==
  ASSUME NEW T, T \subseteq Nat, T # {}
  PROVE  \E m \in T : \A n \in T : m <= n
<1>. DEFINE Less == OpToRel(<, Nat)
<1>1. IsWellFoundedOn(Less, Nat)
  BY NatLessThanWellFounded
<1>2. Less = {ss \in Nat \X Nat : ss[1] < ss[2]}
  BY Zenon DEF OpToRel
<1>. HIDE DEF Less
<1>3. PICK m \in T : \A n \in T : ~(<<n, m>> \in Less)
  BY <1>1, WFMin
<1>4. ASSUME NEW n \in T PROVE m <= n
  <2>1. n \in Nat /\ m \in Nat
    OBVIOUS
  <2>2. ~(<<n, m>> \in Less)
    BY <1>3
  <2>3. ~(n < m)
    BY <2>1, <2>2, <1>2
  <2>. QED BY <2>1, <2>3
<1>. QED BY <1>3, <1>4

(* The filter of the indices of an interval is a part of the sequence.     *)
LEMMA KeepAtInterval ==
  ASSUME NEW S, NEW s \in Seq(S), NEW a \in 1..(Len(s) + 1), NEW b \in (a - 1)..Len(s),
         NEW keep, \A i \in 1..Len(s) : i \in keep <=> i \in a..b
  PROVE  KeepAt(s, keep) = SubSeq(s, a, b)
<1>0. Len(s) \in Nat /\ a \in Nat /\ b \in Int
  BY LenProperties
<1>. DEFINE Upto(i) == IF i < b THEN i ELSE b
<1>. DEFINE Step(f) == [i \in 0..Len(s) |->
        IF i = 0 THEN <<>>
        ELSE IF i \in keep THEN Append(f[i - 1], s[i]) ELSE f[i - 1]]
<1>. DEFINE w == [i \in 0..Len(s) |-> SubSeq(s, a, Upto(i))]
<1>1. w = Step(w)
  <2>. SUFFICES ASSUME NEW i \in 0..Len(s)
                PROVE  w[i] = IF i = 0 THEN <<>>
                              ELSE IF i \in keep THEN Append(w[i - 1], s[i]) ELSE w[i - 1]
    BY Zenon
  <2>1. CASE i = 0
    BY <2>1, SubSeqEmpty
  <2>2. CASE i # 0 /\ i \in keep
    <3>1. i \in a..b /\ i \in 1..Len(s)
      BY <2>2
    <3>2. w[i] = SubSeq(s, a, i) /\ w[i - 1] = SubSeq(s, a, i - 1)
      BY <3>1
    <3>3. SubSeq(s, a, i) = SubSeq(s, a, i - 1) \o <<s[i]>>
      BY <3>1, SubSeqRecursiveSecond
    <3>4. SubSeq(s, a, i - 1) \in Seq(S)
      BY <3>1, SubSeqProperties
    <3>5. Append(SubSeq(s, a, i - 1), s[i]) = SubSeq(s, a, i - 1) \o <<s[i]>>
      BY <3>1, <3>4, AppendIsConcat
    <3>. QED BY <2>2, <3>2, <3>3, <3>5
  <2>3. CASE i # 0 /\ i \notin keep /\ i < a
    <3>1. w[i] = <<>> /\ w[i - 1] = <<>>
      BY <2>3, SubSeqEmpty
    <3>. QED BY <2>3, <3>1
  <2>4. CASE i # 0 /\ i \notin keep /\ i >= a
    <3>1. i > b
      BY <2>4
    <3>2. w[i] = w[i - 1]
      BY <2>4, <3>1
    <3>. QED BY <2>4, <3>2
  <2>5. i < a \/ i >= a
    BY <1>0
  <2>. QED BY <2>1, <2>2, <2>3, <2>4, <2>5, Zenon
<1>2. ASSUME NEW f, f = Step(f) PROVE f[Len(s)] = w[Len(s)]
  <2>. DEFINE Bad == {i \in 0..Len(s) : f[i] # w[i]}
  <2>1. ASSUME Bad # {} PROVE FALSE
    <3>1. PICK m \in Bad : \A n \in Bad : m <= n
      <4>1. Bad \subseteq Nat
        BY <1>0
      <4>. QED BY <2>1, <4>1, LeastNatural, Zenon
    <3>2. m \in 0..Len(s) /\ f[m] # w[m]
      OBVIOUS
    <3>3. CASE m = 0
      BY <1>2, <1>1, <3>2, <3>3
    <3>4. CASE m # 0
      <4>0. m - 1 \in 0..Len(s) /\ ~(m <= m - 1)
        BY <1>0, <3>2, <3>4
      <4>1. m - 1 \notin Bad
        BY <3>1, <4>0, Zenon
      <4>2. f[m - 1] = w[m - 1]
        BY <4>0, <4>1
      <4>3. f[m] = Step(f)[m] /\ w[m] = Step(w)[m]
        BY <1>2, <1>1
      <4>. QED BY <4>0, <4>2, <4>3, <3>2, <3>4
    <3>. QED BY <3>3, <3>4
  <2>2. Len(s) \in 0..Len(s)
    BY <1>0
  <2>. QED BY <2>1, <2>2, Zenon
<1>3. KeepAt(s, keep) = (CHOOSE f : f = Step(f))[Len(s)]
  BY DEF KeepAt
<1>4. (CHOOSE f : f = Step(f)) = Step(CHOOSE f : f = Step(f))
  BY <1>1, Zenon
<1>5. KeepAt(s, keep) = w[Len(s)]
  BY <1>2, <1>3, <1>4
<1>. QED BY <1>5

-----------------------------------------------------------------------------
(* Paths: a block's path is a bounded sequence of branch numbers.          *)

LEMMA PathIsSeq ==
  ASSUME NEW p
  PROVE  p \in Paths <=> p \in Seq(0..MaxReorgs) /\ Len(p) <= MaxHeight
<1>. MaxHeight \in Nat
  BY ForkAssumption
<1>1. ASSUME p \in Paths PROVE p \in Seq(0..MaxReorgs) /\ Len(p) <= MaxHeight
  <2>1. PICK n \in 0..MaxHeight : p \in [1..n -> 0..MaxReorgs]
    BY <1>1 DEF Paths, BoundedSeq, SeqOf
  <2>2. n \in Nat /\ n <= MaxHeight
    BY <2>1
  <2>3. p \in Seq(0..MaxReorgs)
    BY <2>1, <2>2, SeqDef, Zenon
  <2>4. Len(p) \in Nat /\ DOMAIN p = 1..Len(p)
    BY <2>3, LenProperties
  <2>5. Len(p) = n
    BY <2>1, <2>2, <2>4
  <2>. QED BY <2>2, <2>3, <2>5
<1>2. ASSUME p \in Seq(0..MaxReorgs), Len(p) <= MaxHeight PROVE p \in Paths
  <2>0. Len(p) \in Nat /\ p \in [1..Len(p) -> 0..MaxReorgs]
    BY <1>2, LenProperties, Zenon
  <2>1. Len(p) \in 0..MaxHeight
    BY <1>2, <2>0
  <2>. QED BY <2>0, <2>1 DEF Paths, BoundedSeq, SeqOf
<1>. QED BY <1>1, <1>2

LEMMA PathHeight ==
  ASSUME NEW p \in Paths
  PROVE  Height(p) \in Nat /\ Height(p) <= MaxHeight /\ p # NoBlock
<1>1. p \in Seq(0..MaxReorgs) /\ Len(p) <= MaxHeight
  BY PathIsSeq
<1>2. p # NoBlock
  <2>1. CASE Len(p) # 1
    BY <2>1 DEF NoBlock
  <2>2. CASE Len(p) = 1
    <3>1. p[1] \in 0..MaxReorgs
      <4>1. 1 \in 1..Len(p)
        BY <2>2
      <4>. QED BY <1>1, <4>1, ElementOfSeq, Zenon
    <3>. QED BY <3>1 DEF NoBlock
  <2>. QED BY <2>1, <2>2
<1>. QED BY <1>1, <1>2, LenProperties DEF Height

(* The ancestors of a block.                                               *)
LEMMA AncestorProperties ==
  ASSUME NEW p \in Paths, NEW k \in 0..Height(p)
  PROVE  /\ AncestorAt(p, k) \in Paths
         /\ Height(AncestorAt(p, k)) = k
         /\ \A i \in 1..k : AncestorAt(p, k)[i] = p[i]
<1>1. p \in Seq(0..MaxReorgs) /\ Len(p) <= MaxHeight /\ Len(p) \in Nat /\ MaxHeight \in Nat
  BY PathIsSeq, LenProperties, ForkAssumption
<1>2. \A i \in 1..k : p[i] \in 0..MaxReorgs
  <2>. SUFFICES ASSUME NEW i \in 1..k PROVE p[i] \in 0..MaxReorgs
    OBVIOUS
  <2>1. i \in 1..Len(p)
    BY <1>1 DEF Height
  <2>. QED BY <1>1, <2>1, ElementOfSeq, Zenon
<1>3. /\ SubSeq(p, 1, k) \in Seq(0..MaxReorgs)
      /\ Len(SubSeq(p, 1, k)) = k
      /\ \A i \in 1..k : SubSeq(p, 1, k)[i] = p[i]
  <2>1. k \in Nat /\ 1 \in Int /\ k \in Int
    BY <1>1 DEF Height
  <2>2. /\ SubSeq(p, 1, k) \in Seq(0..MaxReorgs)
        /\ Len(SubSeq(p, 1, k)) = IF 1 <= k THEN k - 1 + 1 ELSE 0
        /\ \A i \in 1..(k - 1 + 1) : SubSeq(p, 1, k)[i] = p[1 + i - 1]
    BY <1>2, <2>1, SubSeqProperties
  <2>3. k - 1 + 1 = k /\ \A i \in 1..k : 1 + i - 1 = i
    BY <2>1
  <2>. QED BY <2>1, <2>2, <2>3
<1>4. k <= MaxHeight
  BY <1>1 DEF Height
<1>5. SubSeq(p, 1, k) \in Paths
  BY <1>3, <1>4, PathIsSeq
<1>. QED BY <1>3, <1>5 DEF Height, AncestorAt

LEMMA PathEqual ==
  ASSUME NEW p \in Paths, NEW q \in Paths, Height(p) = Height(q),
         \A i \in 1..Height(p) : p[i] = q[i]
  PROVE  p = q
BY PathIsSeq, SeqEqual DEF Height

LEMMA AncestorOfAncestor ==
  ASSUME NEW p \in Paths, NEW k \in 0..Height(p), NEW j \in 0..k
  PROVE  AncestorAt(AncestorAt(p, k), j) = AncestorAt(p, j)
<1>1. Height(p) \in Nat /\ j \in 0..Height(p)
  BY PathHeight
<1>2. AncestorAt(p, k) \in Paths /\ Height(AncestorAt(p, k)) = k
  BY AncestorProperties
<1>3. /\ AncestorAt(AncestorAt(p, k), j) \in Paths
      /\ Height(AncestorAt(AncestorAt(p, k), j)) = j
      /\ \A i \in 1..j : AncestorAt(AncestorAt(p, k), j)[i] = AncestorAt(p, k)[i]
  BY <1>2, AncestorProperties
<1>4. /\ AncestorAt(p, j) \in Paths /\ Height(AncestorAt(p, j)) = j
      /\ \A i \in 1..j : AncestorAt(p, j)[i] = p[i]
  BY <1>1, AncestorProperties
<1>5. \A i \in 1..j : AncestorAt(p, k)[i] = p[i]
  BY AncestorProperties
<1>. QED BY <1>3, <1>4, <1>5, PathEqual

LEMMA AncestorSelf ==
  ASSUME NEW p \in Paths
  PROVE  AncestorAt(p, Height(p)) = p
BY PathIsSeq, SubSeqFull DEF AncestorAt, Height

LEMMA ParentIsAncestor ==
  ASSUME NEW p
  PROVE  ParentOf(p) = AncestorAt(p, Height(p) - 1)
BY DEF ParentOf, Front, AncestorAt, Height

(* A block is on the chain when it is the chain's ancestor at its height.  *)
LEMMA OnChainIsAncestor ==
  ASSUME NEW p \in Paths
  PROVE  OnChain(p) <=> Height(p) <= Height(chain) /\ p = AncestorAt(chain, Height(p))
BY AncestorSelf DEF OnChain, IsPrefix, AncestorAt, Height

-----------------------------------------------------------------------------
(* The chain as a value: is p on the chain whose head is c?                *)
On(c, p) == Height(p) <= Height(c) /\ p = AncestorAt(c, Height(p))

LEMMA OnChainOn ==
  ASSUME NEW p \in Paths
  PROVE  OnChain(p) <=> On(chain, p)
BY OnChainIsAncestor DEF On

LEMMA OnSelf ==
  ASSUME NEW c \in Paths, NEW k \in 0..Height(c)
  PROVE  On(c, AncestorAt(c, k))
BY AncestorProperties, PathHeight DEF On

LEMMA OnAncestor ==
  ASSUME NEW c \in Paths, NEW p \in Paths, On(c, p), NEW k \in 0..Height(p)
  PROVE  On(c, AncestorAt(p, k))
<1>1. /\ Height(p) \in Nat /\ Height(c) \in Nat
      /\ Height(p) <= Height(c) /\ p = AncestorAt(c, Height(p))
  BY PathHeight DEF On
<1>2. AncestorAt(AncestorAt(c, Height(p)), k) = AncestorAt(c, k)
  BY <1>1, AncestorOfAncestor
<1>3. k \in 0..Height(c)
  BY <1>1
<1>. QED BY <1>1, <1>2, <1>3, OnSelf

LEMMA OnUnique ==
  ASSUME NEW c, NEW p, NEW q, On(c, p), On(c, q), Height(p) = Height(q)
  PROVE  p = q
BY DEF On

(* Two chains that agree up to a height hold the same blocks up to there.  *)
LEMMA OnAgree ==
  ASSUME NEW c \in Paths, NEW d \in Paths, NEW p \in Paths, NEW k \in Nat,
         k <= Height(c), k <= Height(d), AncestorAt(c, k) = AncestorAt(d, k),
         Height(p) <= k
  PROVE  On(c, p) <=> On(d, p)
<1>. DEFINE h == Height(p)
<1>1. h \in 0..k /\ k \in 0..Height(c) /\ k \in 0..Height(d) /\ h <= Height(c) /\ h <= Height(d)
  BY PathHeight
<1>2. AncestorAt(c, h) = AncestorAt(d, h)
  BY <1>1, AncestorOfAncestor
<1>. QED BY <1>1, <1>2 DEF On

(* The chain grows by a block.                                             *)
LEMMA Growth ==
  ASSUME NEW c \in Paths, NEW b \in 0..MaxReorgs, Height(c) < MaxHeight
  PROVE  /\ Append(c, b) \in Paths
         /\ Height(Append(c, b)) = Height(c) + 1
         /\ AncestorAt(Append(c, b), Height(c)) = c
         /\ \A i \in 1..Height(c) : Append(c, b)[i] = c[i]
         /\ Append(c, b)[Height(c) + 1] = b
<1>1. c \in Seq(0..MaxReorgs) /\ Height(c) \in Nat
  BY PathIsSeq, PathHeight
<1>2. /\ Append(c, b) \in Seq(0..MaxReorgs)
      /\ Len(Append(c, b)) = Len(c) + 1
      /\ \A i \in 1..Len(c) : Append(c, b)[i] = c[i]
      /\ Append(c, b)[Len(c) + 1] = b
  BY <1>1, AppendProperties
<1>3. Append(c, b) \in Paths
  <2>1. Len(c) < MaxHeight /\ MaxHeight \in Nat /\ Len(c) \in Nat
    BY <1>1, ForkAssumption DEF Height
  <2>2. Len(Append(c, b)) <= MaxHeight
    BY <1>2, <2>1
  <2>. QED BY <1>2, <2>2, PathIsSeq, Zenon
<1>4. Height(Append(c, b)) = Height(c) + 1
  BY <1>2 DEF Height
<1>5. AncestorAt(Append(c, b), Height(c)) = c
  <2>1. Height(c) \in 0..Height(Append(c, b))
    BY <1>1, <1>4
  <2>2. /\ AncestorAt(Append(c, b), Height(c)) \in Paths
        /\ Height(AncestorAt(Append(c, b), Height(c))) = Height(c)
        /\ \A i \in 1..Height(c) : AncestorAt(Append(c, b), Height(c))[i] = Append(c, b)[i]
    BY <1>3, <2>1, AncestorProperties
  <2>3. \A i \in 1..Height(c) : Append(c, b)[i] = c[i]
    BY <1>2 DEF Height
  <2>. QED BY <2>2, <2>3, PathEqual
<1>. QED BY <1>2, <1>3, <1>4, <1>5 DEF Height

(* The blocks of p are of the branches up to b.                            *)
Settled(p, b) == \A i \in 1..Len(p) : p[i] <= b

(* d is c with the blocks above keep replaced by n, of a later branch.     *)
Replaced(c, keep, a, b, n, d) ==
  /\ c \in Paths /\ keep \in 0..Height(c)
  /\ a \in Nat /\ b \in 0..MaxReorgs /\ a < b
  /\ n \in Seq({b}) /\ n # <<>>
  /\ d = AncestorAt(c, keep) \o n /\ Len(d) <= MaxHeight

(* The chain is reorganised above a height.                                *)
LEMMA Reorganisation ==
  ASSUME NEW c, NEW keep, NEW a, NEW b, NEW n, NEW d, Replaced(c, keep, a, b, n, d)
  PROVE  /\ d \in Paths
         /\ keep < Height(d)
         /\ AncestorAt(d, keep) = AncestorAt(c, keep)
         /\ Settled(c, a) => Settled(d, b)
         /\ ~Settled(d, a)
<1>a. /\ c \in Paths /\ keep \in 0..Height(c)
      /\ a \in Nat /\ b \in 0..MaxReorgs /\ a < b
      /\ n \in Seq({b}) /\ n # <<>>
      /\ d = AncestorAt(c, keep) \o n /\ Len(d) <= MaxHeight
  BY DEF Replaced
<1>. USE <1>a
<1>0. MaxHeight \in Nat /\ Height(c) \in Nat /\ keep \in Nat
  BY ForkAssumption, PathHeight
<1>. DEFINE s == AncestorAt(c, keep)
<1>1. s \in Paths /\ Height(s) = keep /\ \A i \in 1..keep : s[i] = c[i]
  BY AncestorProperties
<1>2. s \in Seq(0..MaxReorgs) /\ Len(s) = keep
  BY <1>1, PathIsSeq DEF Height
<1>3. /\ n \in Seq(0..MaxReorgs) /\ Len(n) \in Nat /\ Len(n) > 0
      /\ \A i \in 1..Len(n) : n[i] = b
  <2>1. \A i \in 1..Len(n) : n[i] \in {b}
    BY ElementOfSeq, Zenon
  <2>2. n \in Seq(0..MaxReorgs)
    BY SeqMonotonic
  <2>3. Len(n) \in Nat /\ Len(n) > 0
    BY EmptySeq, LenProperties
  <2>. QED BY <2>1, <2>2, <2>3
<1>. HIDE DEF s
<1>4. /\ d \in Seq(0..MaxReorgs)
      /\ Len(d) = keep + Len(n)
      /\ \A i \in 1..Len(d) : d[i] = IF i <= keep THEN s[i] ELSE n[i - keep]
  <2>1. d = s \o n
    BY DEF s
  <2>2. /\ s \o n \in Seq(0..MaxReorgs)
        /\ Len(s \o n) = Len(s) + Len(n)
        /\ \A i \in 1..(Len(s) + Len(n)) :
              (s \o n)[i] = IF i <= Len(s) THEN s[i] ELSE n[i - Len(s)]
    BY <1>2, <1>3, ConcatProperties
  <2>. QED BY <1>2, <1>3, <2>1, <2>2
<1>5. ASSUME NEW i \in 1..Len(d)
      PROVE  /\ i <= keep => i \in 1..keep /\ d[i] = c[i]
             /\ i > keep => d[i] = b
  <2>1. i <= keep => i \in 1..keep
    BY <1>0
  <2>2. i > keep => i - keep \in 1..Len(n) /\ ~(i <= keep)
    BY <1>0, <1>3, <1>4
  <2>. QED BY <1>1, <1>3, <1>4, <2>1, <2>2
<1>6. d \in Paths /\ keep < Height(d) /\ Height(d) = Len(d)
  <2>1. d \in Paths
    BY <1>4, PathIsSeq, Zenon
  <2>2. keep < Len(d)
    BY <1>0, <1>3, <1>4
  <2>. QED BY <2>1, <2>2 DEF Height
<1>7. AncestorAt(d, keep) = s
  <2>1. keep \in 0..Height(d)
    BY <1>0, <1>6, PathHeight
  <2>2. /\ AncestorAt(d, keep) \in Paths /\ Height(AncestorAt(d, keep)) = keep
        /\ \A i \in 1..keep : AncestorAt(d, keep)[i] = d[i]
    BY <1>6, <2>1, AncestorProperties
  <2>3. \A i \in 1..keep : d[i] = c[i]
    <3>. SUFFICES ASSUME NEW i \in 1..keep PROVE d[i] = c[i]
      OBVIOUS
    <3>1. i \in 1..Len(d) /\ i <= keep
      BY <1>0, <1>3, <1>4
    <3>. QED BY <1>5, <3>1
  <2>. QED BY <1>1, <2>2, <2>3, PathEqual
<1>8. ASSUME Settled(c, a) PROVE Settled(d, b)
  <2>. SUFFICES ASSUME NEW i \in 1..Len(d) PROVE d[i] <= b
    BY DEF Settled
  <2>1. CASE i <= keep
    <3>1. i \in 1..Len(c) /\ d[i] = c[i]
      BY <1>0, <1>5, <2>1 DEF Height
    <3>2. c[i] \in 0..MaxReorgs
      BY <3>1, PathIsSeq, ElementOfSeq
    <3>3. c[i] <= a
      BY <1>8, <3>1 DEF Settled
    <3>. QED BY <3>1, <3>2, <3>3
  <2>2. CASE i > keep
    BY <1>5, <2>2
  <2>. QED BY <1>0, <2>1, <2>2
<1>9. ~Settled(d, a)
  <2>1. Len(d) \in 1..Len(d) /\ Len(d) > keep
    BY <1>0, <1>3, <1>4
  <2>2. d[Len(d)] = b
    BY <1>5, <2>1
  <2>. QED BY <2>1, <2>2 DEF Settled
<1>. QED BY <1>6, <1>7, <1>8, <1>9 DEF s

-----------------------------------------------------------------------------
(* Lists of blocks at consecutive heights: a filter by height keeps a      *)
(* prefix or a suffix.                                                     *)

Consecutive(s, h) == \A i \in 1..Len(s) : Height(s[i]) = h + i

LEMMA BelowIsPrefix ==
  ASSUME NEW s \in Seq(Paths), NEW h \in Int, Consecutive(s, h), NEW k \in Int,
         NEW b \in 0..Len(s), b < Len(s) => h + b + 1 >= k, b > 0 => h + b < k
  PROVE  HeadersBelow(s, k) = SubSeq(s, 1, b)
<1>. DEFINE keep == {i \in DOMAIN s : Height(s[i]) < k}
<1>1. Len(s) \in Nat /\ DOMAIN s = 1..Len(s)
  BY LenProperties
<1>0. b \in Nat /\ b <= Len(s)
  BY <1>1
<1>2. ASSUME NEW i \in 1..Len(s) PROVE i \in keep <=> i \in 1..b
  <2>1. Height(s[i]) = h + i
    BY DEF Consecutive
  <2>2. i \in keep <=> h + i < k
    BY <1>1, <2>1
  <2>3. h + i < k <=> i \in 1..b
    BY <1>0, <1>1
  <2>. QED BY <2>2, <2>3
<1>. HIDE DEF keep
<1>3. 1 \in 1..(Len(s) + 1) /\ b \in (1 - 1)..Len(s)
  BY <1>0, <1>1
<1>4. KeepAt(s, keep) = SubSeq(s, 1, b)
  BY <1>2, <1>3, KeepAtInterval
<1>. QED BY <1>4 DEF HeadersBelow, keep

LEMMA AboveIsSuffix ==
  ASSUME NEW s \in Seq(Paths), NEW h \in Int, Consecutive(s, h), NEW k \in Int,
         NEW a \in 1..(Len(s) + 1), a > 1 => h + a - 1 <= k, a <= Len(s) => h + a > k
  PROVE  HeadersAbove(s, k) = SubSeq(s, a, Len(s))
<1>. DEFINE keep == {i \in DOMAIN s : Height(s[i]) > k}
<1>1. Len(s) \in Nat /\ DOMAIN s = 1..Len(s)
  BY LenProperties
<1>2. ASSUME NEW i \in 1..Len(s) PROVE i \in keep <=> i \in a..Len(s)
  <2>1. Height(s[i]) = h + i
    BY DEF Consecutive
  <2>2. i \in keep <=> h + i > k
    BY <1>1, <2>1
  <2>3. h + i > k <=> i \in a..Len(s)
    BY <1>1
  <2>. QED BY <2>2, <2>3
<1>. HIDE DEF keep
<1>3. Len(s) \in (a - 1)..Len(s)
  BY <1>1
<1>4. KeepAt(s, keep) = SubSeq(s, a, Len(s))
  BY <1>2, <1>3, KeepAtInterval
<1>. QED BY <1>4 DEF HeadersAbove, keep

(* A list of headers of which each is the parent of the next.              *)
Chained(u) ==
  /\ u \in Seq(Paths)
  /\ \A i \in 1..Len(u) : Height(u[i]) >= 1 /\ Height(u[i]) = Height(u[1]) - 1 + i
  /\ \A i \in 2..Len(u) : ParentOf(u[i]) = u[i - 1]

PartOf(v, u, a, b) ==
  /\ Chained(u) /\ a \in 1..(Len(u) + 1) /\ b \in (a - 1)..Len(u)
  /\ v = SubSeq(u, a, b)

ShiftedPart(v, u, a, b) ==
  /\ Chained(v)
  /\ Len(v) = b - a + 1
  /\ \A i \in 1..Len(v) : i + a - 1 \in 1..Len(u) /\ v[i] = u[i + a - 1]

LEMMA ChainedPart ==
  ASSUME NEW u, NEW v, NEW a, NEW b, PartOf(v, u, a, b)
  PROVE  ShiftedPart(v, u, a, b)
<1>a. /\ Chained(u) /\ a \in 1..(Len(u) + 1) /\ b \in (a - 1)..Len(u)
      /\ v = SubSeq(u, a, b)
  BY DEF PartOf
<1>. USE <1>a
<1>0. u \in Seq(Paths) /\ Len(u) \in Nat /\ a \in Nat /\ b \in Int
  BY LenProperties DEF Chained
<1>1. \A i \in a..b : u[i] \in Paths
  <2>. SUFFICES ASSUME NEW i \in a..b PROVE u[i] \in Paths
    OBVIOUS
  <2>1. i \in 1..Len(u)
    BY <1>0
  <2>. QED BY <1>0, <2>1, ElementOfSeq, Zenon
<1>2. /\ v \in Seq(Paths)
      /\ Len(v) = IF a <= b THEN b - a + 1 ELSE 0
      /\ \A i \in 1..(b - a + 1) : v[i] = u[a + i - 1]
  BY <1>0, <1>1, SubSeqProperties
<1>3. Len(v) = b - a + 1
  BY <1>0, <1>2
<1>4. ASSUME NEW i \in 1..Len(v)
      PROVE  i + a - 1 \in 1..Len(u) /\ v[i] = u[i + a - 1]
  <2>1. i + a - 1 \in 1..Len(u) /\ i \in 1..(b - a + 1) /\ i + a - 1 = a + i - 1
    BY <1>0, <1>3
  <2>. QED BY <1>2, <2>1
<1>5. ASSUME NEW i \in 1..Len(v)
      PROVE  Height(v[i]) >= 1 /\ Height(v[i]) = Height(v[1]) - 1 + i
  <2>1. 1 \in 1..Len(v) /\ i \in Int
    BY <1>0, <1>3
  <2>2. v[1] = u[1 + a - 1] /\ v[i] = u[i + a - 1]
    BY <1>4, <2>1
  <2>3. /\ Height(u[1 + a - 1]) = Height(u[1]) - 1 + (1 + a - 1)
        /\ Height(u[i + a - 1]) = Height(u[1]) - 1 + (i + a - 1)
        /\ Height(u[i + a - 1]) >= 1
    BY <1>4, <2>1 DEF Chained
  <2>4. u[1] \in Paths
    <3>1. 1 \in 1..Len(u)
      BY <1>0, <1>3, <2>1
    <3>. QED BY <1>0, <3>1, ElementOfSeq, Zenon
  <2>5. Height(u[1]) \in Int
    BY <2>4, PathHeight
  <2>. QED BY <1>0, <2>1, <2>2, <2>3, <2>5
<1>6. ASSUME NEW i \in 2..Len(v) PROVE ParentOf(v[i]) = v[i - 1]
  <2>1. i \in 1..Len(v) /\ i - 1 \in 1..Len(v) /\ (i - 1) + a - 1 = (i + a - 1) - 1
    BY <1>0, <1>3
  <2>2. v[i] = u[i + a - 1] /\ v[i - 1] = u[(i + a - 1) - 1]
    BY <1>4, <2>1
  <2>3. i + a - 1 \in 2..Len(u)
    BY <1>0, <1>3
  <2>. QED BY <2>2, <2>3 DEF Chained
<1>7. Chained(v)
  BY <1>2, <1>5, <1>6 DEF Chained
<1>. QED BY <1>3, <1>4, <1>7 DEF ShiftedPart

LEMMA ChainedConsecutive ==
  ASSUME NEW u, Chained(u)
  PROVE  /\ u \in Seq(Paths) /\ Len(u) \in Nat
         /\ \E h \in Nat : Consecutive(u, h)
<1>1. u \in Seq(Paths) /\ Len(u) \in Nat
  BY LenProperties DEF Chained
<1>2. CASE Len(u) = 0
  BY <1>1, <1>2 DEF Consecutive
<1>3. CASE Len(u) > 0
  <2>1. 1 \in 1..Len(u)
    BY <1>1, <1>3
  <2>2. u[1] \in Paths
    BY <1>1, <2>1, ElementOfSeq, Zenon
  <2>3. Height(u[1]) \in Nat /\ Height(u[1]) >= 1
    BY <2>1, <2>2, PathHeight DEF Chained
  <2>4. Height(u[1]) - 1 \in Nat
    BY <2>3
  <2>5. Consecutive(u, Height(u[1]) - 1)
    BY DEF Chained, Consecutive
  <2>. QED BY <1>1, <2>4, <2>5
<1>. QED BY <1>1, <1>2, <1>3

LEMMA AboveChained ==
  ASSUME NEW u, Chained(u), NEW k \in Nat, NEW v, v = HeadersAbove(u, k)
  PROVE  /\ Chained(v)
         /\ \A i \in 1..Len(v) : \E j \in 1..Len(u) : v[i] = u[j]
         /\ Len(v) > 0 => /\ Len(u) > 0 /\ v[Len(v)] = u[Len(u)]
                          /\ Height(v[Len(v)]) > k
         /\ Len(v) = 0 /\ Len(u) > 0 => Height(u[Len(u)]) <= k
<1>1. PICK h \in Nat : Consecutive(u, h)
  BY ChainedConsecutive
<1>2. u \in Seq(Paths) /\ Len(u) \in Nat
  BY ChainedConsecutive
<1>3. \E a \in 1..(Len(u) + 1) :
        (a > 1 => h + a - 1 <= k) /\ (a <= Len(u) => h + a > k)
  <2>1. CASE k < h + 1
    <3>1. 1 \in 1..(Len(u) + 1) /\ h + 1 > k
      BY <1>2, <2>1
    <3>. QED BY <3>1
  <2>2. CASE k >= h + 1 /\ k < h + Len(u)
    <3>1. k - h + 1 \in 1..(Len(u) + 1) /\ h + (k - h + 1) - 1 <= k /\ h + (k - h + 1) > k
      BY <1>2, <2>2
    <3>. QED BY <3>1
  <2>3. CASE k >= h + 1 /\ k >= h + Len(u)
    <3>1. Len(u) + 1 \in 1..(Len(u) + 1) /\ h + (Len(u) + 1) - 1 <= k /\ ~(Len(u) + 1 <= Len(u))
      BY <1>2, <2>3
    <3>. QED BY <3>1
  <2>. QED BY <1>2, <2>1, <2>2, <2>3
<1>4. PICK a \in 1..(Len(u) + 1) :
        (a > 1 => h + a - 1 <= k) /\ (a <= Len(u) => h + a > k)
  BY <1>3
<1>5. v = SubSeq(u, a, Len(u))
  BY <1>1, <1>2, <1>4, AboveIsSuffix
<1>6. Len(u) \in (a - 1)..Len(u)
  BY <1>2
<1>7. /\ Chained(v) /\ Len(v) = Len(u) - a + 1
      /\ \A i \in 1..Len(v) : i + a - 1 \in 1..Len(u) /\ v[i] = u[i + a - 1]
  <2>1. PartOf(v, u, a, Len(u))
    BY <1>5, <1>6 DEF PartOf
  <2>2. ShiftedPart(v, u, a, Len(u))
    BY <2>1, ChainedPart
  <2>. QED BY <2>2 DEF ShiftedPart
<1>8. ASSUME Len(v) > 0
      PROVE  Len(u) > 0 /\ v[Len(v)] = u[Len(u)] /\ Height(v[Len(v)]) > k
  <2>1. Len(v) \in 1..Len(v) /\ Len(v) + a - 1 = Len(u) /\ Len(u) > 0
    BY <1>2, <1>7, <1>8
  <2>2. v[Len(v)] = u[Len(v) + a - 1]
    BY <1>7, <2>1
  <2>3. a <= Len(u) /\ Len(u) \in 1..Len(u)
    BY <1>2, <2>1
  <2>4. Height(u[Len(u)]) = h + Len(u)
    BY <1>1, <2>3 DEF Consecutive
  <2>5. h + Len(u) > k
    BY <1>2, <1>4, <2>3
  <2>. QED BY <2>1, <2>2, <2>4, <2>5
<1>9. ASSUME Len(v) = 0, Len(u) > 0 PROVE Height(u[Len(u)]) <= k
  <2>1. a = Len(u) + 1 /\ a > 1 /\ Len(u) \in 1..Len(u)
    BY <1>2, <1>7, <1>9
  <2>2. h + Len(u) <= k
    BY <1>2, <1>4, <2>1
  <2>3. Height(u[Len(u)]) = h + Len(u)
    BY <1>1, <2>1 DEF Consecutive
  <2>. QED BY <2>2, <2>3
<1>. QED BY <1>7, <1>8, <1>9

LEMMA BelowChained ==
  ASSUME NEW u, Chained(u), NEW k \in Nat, NEW v, v = HeadersBelow(u, k)
  PROVE  /\ Chained(v) /\ Len(v) <= Len(u)
         /\ \A i \in 1..Len(v) : i \in 1..Len(u) /\ v[i] = u[i] /\ Height(v[i]) < k
         /\ Len(v) < Len(u) => Height(u[Len(v) + 1]) >= k
<1>1. PICK h \in Nat : Consecutive(u, h)
  BY ChainedConsecutive
<1>2. u \in Seq(Paths) /\ Len(u) \in Nat
  BY ChainedConsecutive
<1>3. \E b \in 0..Len(u) : (b < Len(u) => h + b + 1 >= k) /\ (b > 0 => h + b < k)
  <2>1. CASE k <= h + 1
    <3>1. 0 \in 0..Len(u) /\ h + 0 + 1 >= k /\ ~(0 > 0)
      BY <1>2, <2>1
    <3>. QED BY <3>1
  <2>2. CASE k > h + 1 /\ k <= h + Len(u)
    <3>1. k - h - 1 \in 0..Len(u) /\ h + (k - h - 1) + 1 >= k /\ h + (k - h - 1) < k
      BY <1>2, <2>2
    <3>. QED BY <3>1
  <2>3. CASE k > h + 1 /\ k > h + Len(u)
    <3>1. Len(u) \in 0..Len(u) /\ ~(Len(u) < Len(u)) /\ h + Len(u) < k
      BY <1>2, <2>3
    <3>. QED BY <3>1
  <2>. QED BY <1>2, <2>1, <2>2, <2>3
<1>4. PICK b \in 0..Len(u) : (b < Len(u) => h + b + 1 >= k) /\ (b > 0 => h + b < k)
  BY <1>3
<1>5. v = SubSeq(u, 1, b)
  <2>1. u \in Seq(Paths) /\ h \in Int /\ k \in Int
    BY <1>1, <1>2
  <2>. QED BY <1>1, <1>4, <2>1, BelowIsPrefix, Zenon
<1>6. PICK a \in 1..(Len(u) + 1) : a = 1
  BY <1>2
<1>7. /\ Chained(v) /\ Len(v) = b - a + 1
      /\ \A i \in 1..Len(v) : i + a - 1 \in 1..Len(u) /\ v[i] = u[i + a - 1]
  <2>1. v = SubSeq(u, a, b) /\ b \in (a - 1)..Len(u)
    BY <1>2, <1>5, <1>6
  <2>2. PartOf(v, u, a, b)
    BY <2>1 DEF PartOf
  <2>3. ShiftedPart(v, u, a, b)
    BY <2>2, ChainedPart
  <2>. QED BY <2>3 DEF ShiftedPart
<1>8. Len(v) = b
  BY <1>2, <1>6, <1>7
<1>9. ASSUME NEW i \in 1..Len(v)
      PROVE  i \in 1..Len(u) /\ v[i] = u[i] /\ Height(v[i]) < k
  <2>1. i + a - 1 = i /\ h + i < k
    BY <1>2, <1>4, <1>6, <1>8
  <2>2. i \in 1..Len(u) /\ v[i] = u[i]
    BY <1>7, <2>1
  <2>3. Height(u[i]) = h + i
    BY <1>1, <2>2 DEF Consecutive
  <2>. QED BY <2>1, <2>2, <2>3
<1>10. ASSUME Len(v) < Len(u) PROVE Height(u[Len(v) + 1]) >= k
  <2>1. b + 1 \in 1..Len(u) /\ h + (b + 1) >= k
    BY <1>2, <1>4, <1>8, <1>10
  <2>2. Height(u[b + 1]) = h + (b + 1)
    BY <1>1, <2>1 DEF Consecutive
  <2>. QED BY <1>8, <2>1, <2>2
<1>11. Len(v) <= Len(u)
  BY <1>2, <1>8
<1>. QED BY <1>7, <1>9, <1>10, <1>11

-----------------------------------------------------------------------------
(* The shape of the state, which holds whatever the chain does.            *)

ChainOK ==
  /\ poiEnabled \in PoiSettings
  /\ chain \in Paths /\ branch \in 0..MaxReorgs
  /\ chainFinal \in 0..Height(chain) /\ finalized \in 0..chainFinal
  /\ exposed \in BOOLEAN

IndexOK ==
  /\ indexed \in Seq(Paths) /\ \A i \in 1..Len(indexed) : Height(indexed[i]) = i
  /\ fetched \in MaybePaths
  /\ fetched # NoBlock => Height(fetched) = Len(indexed) + 1
  /\ startupCheck \in BOOLEAN

(* The block being processed may be in the cache before it is indexed.     *)
Pending == unfinalized = <<fetched>> /\ fetched # NoBlock
(* The cached headers are the last blocks of the index d.                  *)
InIndex(u, d) == \A i \in 1..Len(u) : Height(u[i]) \in 1..Len(d) /\ u[i] = d[Height(u[i])]
IndexTop == InIndex(unfinalized, indexed) /\ Height(unfinalized[Len(unfinalized)]) = Len(indexed)

CacheOK ==
  /\ Chained(unfinalized)
  /\ Len(unfinalized) > 0 => IndexTop \/ (Pending /\ pc # "idle")
  /\ startupCheck => Len(unfinalized) = 0
  /\ pc = "checkLast" => Len(unfinalized) > 0 /\ (fetched = NoBlock \/ Pending)

WalkOK ==
  /\ pc \in {"idle", "checkLast", "search", "rewind"}
  /\ forked \in MaybePaths /\ checking \in MaybePaths
  /\ pc = "search" => forked \in Paths
  /\ pc \in {"search", "rewind"} => checking \in Paths
  /\ rest \in Seq(Paths)
  /\ InIndex(rest, indexed)
  /\ \A i \in 1..Len(rest) : Height(rest[i]) = Height(rest[1]) - i + 1
  /\ pc = "search" /\ Len(rest) > 0 => Height(rest[1]) = Height(checking) - 1

Shape == ChainOK /\ IndexOK /\ CacheOK /\ WalkOK

LEMMA ShapeInit == Init => Shape
<1>. SUFFICES ASSUME Init PROVE Shape
  OBVIOUS
<1>0. MaxHeight \in Nat /\ MaxReorgs \in Nat
  BY ForkAssumption
<1>1. ChainOK
  <2>1. PICK n \in 0..MaxHeight : chain = [i \in 1..n |-> 0]
    BY DEF Init
  <2>2. chain \in Seq(0..MaxReorgs) /\ Len(chain) = n
    BY <1>0, <2>1
  <2>3. chain \in Paths /\ Height(chain) = n
    BY <1>0, <2>1, <2>2, PathIsSeq DEF Height
  <2>4. /\ poiEnabled \in PoiSettings /\ branch = 0 /\ exposed = FALSE
        /\ chainFinal \in 0..Len(chain) /\ finalized = chainFinal
    BY DEF Init
  <2>5. chainFinal \in 0..n /\ finalized \in 0..chainFinal
    BY <2>2, <2>4
  <2>6. branch \in 0..MaxReorgs /\ exposed \in BOOLEAN
    <3>1. 0 \in 0..MaxReorgs
      BY <1>0
    <3>. QED BY <2>4, <3>1, Zenon
  <2>7. chainFinal \in 0..Height(chain)
    BY <2>3, <2>5
  <2>. QED BY <2>3, <2>4, <2>5, <2>6, <2>7, Zenon DEF ChainOK
<1>2. <<>> \in Seq(Paths) /\ Len(<<>>) = 0 /\ \A i \in 1..Len(<<>>) : FALSE
  BY EmptySeq
<1>3. IndexOK
  BY <1>2 DEF Init, IndexOK, MaybePaths
<1>4. CacheOK
  BY <1>2 DEF Init, CacheOK, Chained
<1>5. WalkOK
  BY <1>2 DEF Init, WalkOK, MaybePaths, InIndex
<1>. QED BY <1>1, <1>3, <1>4, <1>5 DEF Shape

(* ChainReorganises: the chains agree up to keep, which is not below the   *)
(* finalized height, and the new head is of a branch nobody has seen.      *)
LEMMA ReorganisedChain ==
  ASSUME ChainOK, ChainReorganises
  PROVE  /\ chain' \in Paths /\ branch \in Nat /\ branch' \in 0..MaxReorgs /\ branch < branch'
         /\ \E keep \in Nat : /\ chainFinal <= keep /\ keep < Height(chain) /\ keep < Height(chain')
                              /\ AncestorAt(chain', keep) = AncestorAt(chain, keep)
         /\ Settled(chain, branch) => Settled(chain', branch')
         /\ ~Settled(chain', branch)
<1>0. /\ Height(chain) \in Nat /\ chain \in Paths /\ branch \in Nat
      /\ chainFinal \in Nat /\ MaxReorgs \in Nat
  BY PathHeight, ForkAssumption DEF ChainOK
<1>1. branch < MaxReorgs /\ branch' = branch + 1
  BY DEF ChainReorganises
<1>2. branch' \in 0..MaxReorgs /\ branch < branch'
  BY <1>0, <1>1
<1>3. PICK keep \in chainFinal..(Height(chain) - 1), new \in 1..MaxHeight :
        /\ keep + new <= MaxHeight
        /\ chain' = AncestorAt(chain, keep) \o [i \in 1..new |-> branch + 1]
  BY DEF ChainReorganises, Height
<1>4. /\ keep \in Nat /\ keep \in 0..Height(chain) /\ chainFinal <= keep
      /\ keep < Height(chain) /\ new \in Nat /\ new >= 1
  BY <1>0, <1>3
<1>5. PICK b \in 0..MaxReorgs : b = branch'
  BY <1>2
<1>6. PICK n : n = [i \in 1..new |-> b]
  OBVIOUS
<1>7. n \in Seq({b}) /\ n \in Seq(0..MaxReorgs) /\ Len(n) = new /\ n # <<>>
  BY <1>4, <1>5, <1>6
<1>8. PICK d : d = chain'
  OBVIOUS
<1>9. d = AncestorAt(chain, keep) \o n
  BY <1>1, <1>3, <1>5, <1>6, <1>8
<1>10. Len(d) <= MaxHeight
  <2>1. /\ AncestorAt(chain, keep) \in Seq(0..MaxReorgs)
        /\ Len(AncestorAt(chain, keep)) = keep
    BY <1>0, <1>4, AncestorProperties, PathIsSeq DEF Height
  <2>2. Len(AncestorAt(chain, keep) \o n) = keep + new
    BY <1>7, <2>1, ConcatProperties
  <2>. QED BY <1>3, <1>9, <2>2
<1>11. branch < b
  BY <1>2, <1>5
<1>12. /\ d \in Paths /\ keep < Height(d) /\ AncestorAt(d, keep) = AncestorAt(chain, keep)
       /\ (Settled(chain, branch) => Settled(d, b)) /\ ~Settled(d, branch)
  <2>1. Replaced(chain, keep, branch, b, n, d)
    BY <1>0, <1>4, <1>7, <1>9, <1>10, <1>11 DEF Replaced
  <2>. QED BY <2>1, Reorganisation
<1>. QED BY <1>0, <1>2, <1>4, <1>5, <1>8, <1>12

(* What the chain and its finality do leaves the service where it was.     *)
Environment == ChainGrows \/ ChainFinalizes \/ ChainReorganises \/ RegisterFinalized
serviceVars == <<indexVars, pc, walkVars>>

LEMMA ChainStep ==
  ASSUME ChainOK, Environment
  PROVE  ChainOK' /\ UNCHANGED serviceVars
<1>. USE DEF chainVars, indexVars, walkVars
<1>0. /\ Height(chain) \in Nat /\ chain \in Paths /\ branch \in 0..MaxReorgs /\ MaxReorgs \in Nat
      /\ chainFinal \in 0..Height(chain) /\ finalized \in 0..chainFinal /\ Height(chain) <= MaxHeight
      /\ poiEnabled \in PoiSettings /\ exposed \in BOOLEAN
  BY PathHeight, ForkAssumption DEF ChainOK
<1>1. CASE ChainGrows
  <2>1. Height(chain) < MaxHeight /\ chain' = Append(chain, branch)
    BY <1>1 DEF ChainGrows, Height
  <2>2. chain' \in Paths /\ Height(chain') = Height(chain) + 1
    BY <1>0, <2>1, Growth
  <2>3. UNCHANGED <<poiEnabled, branch, chainFinal, finalized, exposed>>
    BY <1>1 DEF ChainGrows
  <2>4. chainFinal' \in 0..Height(chain')
    BY <1>0, <2>2, <2>3
  <2>. QED BY <1>0, <1>1, <2>2, <2>3, <2>4 DEF ChainGrows, ChainOK, serviceVars, Height
<1>2. CASE ChainFinalizes
  <2>1. PICK k \in (chainFinal + 1)..Height(chain) : chainFinal' = k
    BY <1>2 DEF ChainFinalizes, Height
  <2>2. UNCHANGED <<poiEnabled, chain, branch, finalized, exposed, serviceVars>>
    BY <1>2 DEF ChainFinalizes, serviceVars
  <2>3. chainFinal' \in 0..Height(chain) /\ finalized' \in 0..chainFinal'
    BY <1>0, <2>1, <2>2
  <2>. QED BY <1>0, <2>2, <2>3 DEF ChainOK, serviceVars, Height
<1>3. CASE ChainReorganises
  <2>1. /\ exposed' = (exposed \/ Unguarded)
        /\ UNCHANGED <<poiEnabled, chainFinal, finalized, serviceVars>>
    BY <1>3 DEF ChainReorganises, serviceVars
  <2>2. chain' \in Paths /\ branch' \in 0..MaxReorgs
    BY <1>3, ReorganisedChain
  <2>3. PICK keep \in Nat : chainFinal <= keep /\ keep < Height(chain')
    BY <1>3, ReorganisedChain
  <2>4. chainFinal' \in 0..Height(chain') /\ exposed' \in BOOLEAN
    BY <1>0, <2>1, <2>2, <2>3, PathHeight
  <2>. QED BY <1>0, <2>1, <2>2, <2>4 DEF ChainOK, serviceVars
<1>4. CASE RegisterFinalized
  <2>1. /\ finalized' = chainFinal /\ exposed' \in BOOLEAN
        /\ UNCHANGED <<poiEnabled, chain, branch, chainFinal, serviceVars>>
    BY <1>0, <1>4 DEF RegisterFinalized, serviceVars
  <2>2. finalized' \in 0..chainFinal'
    BY <1>0, <2>1
  <2>. QED BY <1>0, <2>1, <2>2 DEF ChainOK, serviceVars, Height
<1>. QED BY <1>1, <1>2, <1>3, <1>4 DEF Environment

(* The shape is kept by steps that leave the service alone.                *)
LEMMA ShapeUnchanged ==
  ASSUME IndexOK, CacheOK, WalkOK, UNCHANGED serviceVars
  PROVE  IndexOK' /\ CacheOK' /\ WalkOK'
<1>. /\ UNCHANGED <<indexed, unfinalized, fetched, startupCheck>> /\ UNCHANGED pc
     /\ UNCHANGED <<forked, checking, rest>>
  BY DEF serviceVars, indexVars, walkVars
<1>1. IndexOK'
  BY DEF IndexOK
<1>2. CacheOK'
  BY DEF CacheOK, IndexTop, Pending
<1>3. WalkOK'
  BY DEF WalkOK
<1>. QED BY <1>1, <1>2, <1>3

LEMMA ShapeFetch ==
  ASSUME Shape, FetchBlock
  PROVE  IndexOK' /\ CacheOK' /\ WalkOK'
<1>1. /\ pc = "idle" /\ fetched = NoBlock /\ Len(indexed) + 1 \in 0..Height(chain)
      /\ fetched' = AncestorAt(chain, Len(indexed) + 1)
      /\ UNCHANGED <<indexed, unfinalized, startupCheck, pc, forked, checking, rest>>
  BY DEF FetchBlock, HasHeight, HeaderForHeight, walkVars, Height
<1>2. chain \in Paths
  BY DEF Shape, ChainOK
<1>3. fetched' \in Paths /\ Height(fetched') = Len(indexed) + 1
  BY <1>1, <1>2, AncestorProperties
<1>4. IndexOK'
  BY <1>1, <1>3 DEF Shape, IndexOK, MaybePaths
<1>5. CacheOK'
  BY <1>1 DEF Shape, CacheOK, IndexTop
<1>6. WalkOK'
  BY <1>1 DEF Shape, WalkOK
<1>. QED BY <1>4, <1>5, <1>6

(* The block is indexed, with cached headers that belong to it.            *)
Accepted == IF fetched = NoBlock THEN indexed ELSE Append(indexed, fetched)

LEMMA AcceptedIndex ==
  ASSUME Shape
  PROVE  /\ Accepted \in Seq(Paths)
         /\ \A i \in 1..Len(Accepted) : Height(Accepted[i]) = i
         /\ \A i \in 1..Len(indexed) : i \in 1..Len(Accepted) /\ Accepted[i] = indexed[i]
         /\ fetched = NoBlock => Accepted = indexed
         /\ fetched # NoBlock => /\ fetched \in Paths
                                 /\ Len(Accepted) = Len(indexed) + 1
                                 /\ Accepted[Len(indexed) + 1] = fetched
                                 /\ Height(fetched) = Len(indexed) + 1
<1>1. /\ indexed \in Seq(Paths) /\ Len(indexed) \in Nat
      /\ \A i \in 1..Len(indexed) : Height(indexed[i]) = i
  BY LenProperties DEF Shape, IndexOK
<1>2. CASE fetched = NoBlock
  BY <1>1, <1>2 DEF Accepted
<1>3. CASE fetched # NoBlock
  <2>1. fetched \in Paths /\ Height(fetched) = Len(indexed) + 1
    BY <1>3 DEF Shape, IndexOK, MaybePaths
  <2>2. Accepted = Append(indexed, fetched)
    BY <1>3 DEF Accepted
  <2>3. /\ Append(indexed, fetched) \in Seq(Paths)
        /\ Len(Append(indexed, fetched)) = Len(indexed) + 1
        /\ \A i \in 1..Len(indexed) : Append(indexed, fetched)[i] = indexed[i]
        /\ Append(indexed, fetched)[Len(indexed) + 1] = fetched
    BY <1>1, <2>1, AppendProperties
  <2>4. ASSUME NEW i \in 1..Len(Accepted) PROVE Height(Accepted[i]) = i
    <3>1. i \in 1..Len(indexed) \/ i = Len(indexed) + 1
      BY <1>1, <2>2, <2>3
    <3>. QED BY <1>1, <2>1, <2>2, <2>3, <3>1
  <2>5. \A i \in 1..Len(indexed) : i \in 1..Len(Accepted)
    BY <1>1, <2>2, <2>3
  <2>. QED BY <1>3, <2>1, <2>2, <2>3, <2>4, <2>5
<1>. QED BY <1>2, <1>3

LEMMA ShapeAccept ==
  ASSUME Shape, NEW cached, AcceptBlock(cached), startupCheck' = FALSE,
         Chained(cached), InIndex(cached, Accepted),
         Len(cached) > 0 /\ Height(cached[Len(cached)]) > finalized
           => Height(cached[Len(cached)]) = Len(Accepted)
  PROVE  IndexOK' /\ CacheOK' /\ WalkOK'
<1>1. /\ unfinalized' = HeadersAbove(cached, finalized) /\ indexed' = Accepted
      /\ fetched' = NoBlock /\ pc' = "idle" /\ UNCHANGED <<forked, checking, rest>>
  BY DEF AcceptBlock, Accepted, walkVars
<1>2. IndexOK'
  BY <1>1, AcceptedIndex DEF IndexOK, MaybePaths
<1>3. finalized \in Nat
  BY DEF Shape, ChainOK
<1>4. PICK v : v = unfinalized'
  OBVIOUS
<1>5. /\ Chained(v)
      /\ \A i \in 1..Len(v) : \E j \in 1..Len(cached) : v[i] = cached[j]
      /\ Len(v) > 0 => /\ Len(cached) > 0 /\ v[Len(v)] = cached[Len(cached)]
                       /\ Height(v[Len(v)]) > finalized
  BY <1>1, <1>3, <1>4, AboveChained
<1>6. InIndex(v, Accepted)
  BY <1>5 DEF InIndex
<1>7. Len(v) > 0 => Height(v[Len(v)]) = Len(Accepted)
  BY <1>5
<1>8. CacheOK'
  BY <1>1, <1>4, <1>5, <1>6, <1>7 DEF CacheOK, IndexTop
<1>9. WalkOK'
  <2>1. ASSUME NEW i \in 1..Len(rest)
        PROVE  Height(rest[i]) \in 1..Len(Accepted) /\ rest[i] = Accepted[Height(rest[i])]
    BY AcceptedIndex DEF Shape, WalkOK, InIndex
  <2>2. InIndex(rest', indexed')
    BY <1>1, <2>1 DEF InIndex
  <2>. QED BY <1>1, <2>2 DEF Shape, WalkOK
<1>. QED BY <1>2, <1>8, <1>9

LEMMA ReverseElements ==
  ASSUME NEW S, NEW s \in Seq(S), NEW r, r = Reverse(s)
  PROVE  /\ r \in Seq(S) /\ Len(r) = Len(s) /\ Len(s) \in Nat
         /\ \A i \in 1..Len(r) : Len(s) - i + 1 \in 1..Len(s) /\ r[i] = s[Len(s) - i + 1]
<1>1. Len(s) \in Nat
  BY LenProperties
<1>2. \A i \in 1..Len(s) : Len(s) - i + 1 \in 1..Len(s)
  BY <1>1
<1>3. \A i \in 1..Len(s) : s[(Len(s) - i) + 1] \in S
  BY <1>1, <1>2, ElementOfSeq
<1>4. r = [i \in 1..Len(s) |-> s[(Len(s) - i) + 1]]
  BY DEF Reverse
<1>. QED BY <1>1, <1>2, <1>3, <1>4

(* The search begins at a header next to the top of the cache.             *)
LEMMA ShapeBeginSearch ==
  ASSUME Shape, NEW header \in Paths, BeginSearch(header, unfinalized),
         UNCHANGED startupCheck, Len(unfinalized) > 0,
         \/ Height(header) = Height(unfinalized[Len(unfinalized)])
         \/ Height(header) = Height(unfinalized[Len(unfinalized)]) + 1 /\ IndexTop
  PROVE  IndexOK' /\ CacheOK' /\ WalkOK'
<1>. DEFINE u == unfinalized
            n == Len(u)
            k == Height(header)
<1>1. /\ forked' = header /\ checking' = header /\ pc' = "search" /\ unfinalized' = u
      /\ rest' = Reverse(HeadersBelow(u, k)) /\ UNCHANGED <<indexed, fetched, startupCheck>>
  BY DEF BeginSearch
<1>2. Chained(u) /\ (IndexTop \/ (Pending /\ pc # "idle"))
  BY DEF Shape, CacheOK
<1>3. IndexOK'
  BY <1>1 DEF Shape, IndexOK
<1>4. CacheOK'
  <2>1. IndexTop' \/ Pending'
    BY <1>1, <1>2 DEF IndexTop, Pending
  <2>. QED BY <1>1, <1>2, <2>1 DEF Shape, CacheOK
<1>5. k \in Nat
  BY PathHeight
<1>6. PICK v : v = HeadersBelow(u, k)
  OBVIOUS
<1>7. /\ Chained(v) /\ Len(v) <= n
      /\ \A i \in 1..Len(v) : i \in 1..n /\ v[i] = u[i] /\ Height(v[i]) < k
      /\ Len(v) < n => Height(u[Len(v) + 1]) >= k
  BY <1>2, <1>5, <1>6, BelowChained
<1>8. PICK r : r = Reverse(v)
  OBVIOUS
<1>9. /\ r \in Seq(Paths) /\ Len(r) = Len(v) /\ Len(v) \in Nat
      /\ \A i \in 1..Len(r) : Len(v) - i + 1 \in 1..Len(v) /\ r[i] = v[Len(v) - i + 1]
  BY <1>7, <1>8, ReverseElements DEF Chained
<1>10. n \in Nat /\ n \in 1..n
  BY <1>2, LenProperties DEF Chained
<1>11. InIndex(v, indexed)
  <2>1. CASE IndexTop
    BY <1>7, <2>1 DEF IndexTop, InIndex
  <2>2. CASE ~IndexTop
    <3>1. n = 1 /\ k = Height(u[1])
      BY <1>2, <2>2 DEF Pending
    <3>2. ~(Height(v[1]) < k) \/ Len(v) = 0
      <4>1. ASSUME Len(v) # 0 PROVE ~(Height(v[1]) < k)
        <5>1. 1 \in 1..Len(v)
          BY <1>9, <4>1
        <5>2. v[1] = u[1]
          BY <1>7, <5>1
        <5>. QED BY <1>5, <3>1, <5>2
      <4>. QED BY <4>1
    <3>3. Len(v) = 0
      <4>1. ASSUME Len(v) # 0 PROVE FALSE
        <5>1. 1 \in 1..Len(v)
          BY <1>9, <4>1
        <5>. QED BY <1>7, <3>2, <4>1, <5>1
      <4>. QED BY <4>1
    <3>. QED BY <3>3 DEF InIndex
  <2>. QED BY <2>1, <2>2
<1>12. InIndex(r, indexed)
  BY <1>9, <1>11 DEF InIndex
<1>13. ASSUME NEW i \in 1..Len(r) PROVE Height(r[i]) = Height(r[1]) - i + 1
  <2>1. 1 \in 1..Len(r) /\ Len(v) - 1 + 1 = Len(v) /\ Len(v) \in 1..Len(v)
    BY <1>9
  <2>2. r[1] = v[Len(v)] /\ r[i] = v[Len(v) - i + 1] /\ Len(v) - i + 1 \in 1..Len(v)
    BY <1>9, <2>1
  <2>3. /\ Height(v[Len(v)]) = Height(v[1]) - 1 + Len(v)
        /\ Height(v[Len(v) - i + 1]) = Height(v[1]) - 1 + (Len(v) - i + 1)
    BY <1>7, <2>1, <2>2 DEF Chained
  <2>4. Height(v[1]) \in Nat
    <3>1. 1 \in 1..Len(v) /\ v \in Seq(Paths)
      BY <1>7, <1>9, <2>1 DEF Chained
    <3>. QED BY <3>1, ElementOfSeq, PathHeight
  <2>5. i \in Nat /\ Len(v) \in Nat
    BY <1>9
  <2>6. /\ Height(r[1]) = Height(v[1]) - 1 + Len(v)
        /\ Height(r[i]) = Height(v[1]) - 1 + (Len(v) - i + 1)
    BY <2>2, <2>3
  <2>. QED BY <2>4, <2>5, <2>6
<1>14. ASSUME Len(r) > 0 PROVE Height(r[1]) = k - 1
  <2>1. 1 \in 1..Len(r) /\ Len(v) - 1 + 1 = Len(v) /\ Len(v) \in 1..Len(v)
    BY <1>9, <1>14
  <2>2. r[1] = v[Len(v)]
    BY <1>9, <2>1
  <2>3. Len(v) \in 1..n /\ v[Len(v)] = u[Len(v)] /\ Height(u[Len(v)]) < k
    BY <1>7, <2>1
  <2>4. 1 \in 1..n
    BY <1>10, <2>3
  <2>5. Height(u[1]) \in Nat
    BY <1>2, <2>4, ElementOfSeq, PathHeight DEF Chained
  <2>6. /\ Height(u[Len(v)]) = Height(u[1]) - 1 + Len(v)
        /\ Height(u[n]) = Height(u[1]) - 1 + n
    BY <1>2, <1>10, <2>3 DEF Chained
  <2>7. CASE Len(v) < n
    <3>1. Len(v) + 1 \in 1..n
      BY <1>9, <1>10, <2>7
    <3>2. Height(u[Len(v) + 1]) = Height(u[1]) - 1 + (Len(v) + 1)
      BY <1>2, <3>1 DEF Chained
    <3>3. Height(u[Len(v) + 1]) >= k
      BY <1>7, <2>7
    <3>4. PICK h \in Nat : h = Height(u[1])
      BY <2>5
    <3>5. PICK m \in Nat : m = Len(v)
      BY <1>9
    <3>6. h - 1 + m < k /\ h - 1 + (m + 1) >= k
      BY <2>3, <2>6, <3>2, <3>3, <3>4, <3>5
    <3>7. k - 1 = h - 1 + m
      BY <1>5, <3>6
    <3>. QED BY <2>2, <2>3, <2>6, <3>4, <3>5, <3>7, Zenon
  <2>8. CASE Len(v) = n
    <3>1. k = Height(u[n]) \/ k = Height(u[n]) + 1
      OBVIOUS
    <3>. QED BY <1>5, <1>10, <2>2, <2>3, <2>5, <2>6, <2>8, <3>1
  <2>. QED BY <1>7, <1>9, <1>10, <2>7, <2>8
<1>15. WalkOK'
  <2>1. rest' = r
    BY <1>1, <1>6, <1>8
  <2>2. InIndex(rest', indexed')
    BY <1>1, <1>12, <2>1
  <2>3. \A i \in 1..Len(rest') : Height(rest'[i]) = Height(rest'[1]) - i + 1
    BY <1>13, <2>1
  <2>4. Len(rest') > 0 => Height(rest'[1]) = Height(checking') - 1
    BY <1>1, <1>14, <2>1
  <2>5. rest' \in Seq(Paths)
    BY <1>9, <2>1
  <2>6. forked' \in Paths /\ checking' \in Paths /\ forked' \in MaybePaths /\ checking' \in MaybePaths
    BY <1>1 DEF MaybePaths
  <2>. QED BY <1>1, <2>2, <2>3, <2>4, <2>5, <2>6 DEF WalkOK
<1>. QED BY <1>3, <1>4, <1>15

(* The branch at the end of hasForked is dead for a list that links.       *)
LEMMA LinksNeverBroken ==
  ASSUME NEW u, Chained(u)
  PROVE  ~LinksBroken(u)
<1>1. Len(u) \in Nat
  BY LenProperties DEF Chained
<1>2. CASE Len(u) > 2
  <2>1. Len(u) \in 2..Len(u)
    BY <1>1, <1>2
  <2>2. ParentOf(u[Len(u)]) = u[Len(u) - 1]
    BY <2>1 DEF Chained
  <2>. QED BY <2>2 DEF LinksBroken, Last
<1>. QED BY <1>1, <1>2 DEF LinksBroken

LEMMA TopOfCache ==
  ASSUME Shape
  PROVE  /\ unfinalized \in Seq(Paths) /\ Len(unfinalized) \in Nat
         /\ unfinalized = <<>> <=> Len(unfinalized) = 0
         /\ Len(unfinalized) > 0 => /\ Len(unfinalized) \in 1..Len(unfinalized)
                                    /\ Last(unfinalized) = unfinalized[Len(unfinalized)]
                                    /\ Last(unfinalized) \in Paths
<1>1. unfinalized \in Seq(Paths)
  BY DEF Shape, CacheOK, Chained
<1>2. Len(unfinalized) \in Nat /\ (unfinalized = <<>> <=> Len(unfinalized) = 0)
  BY <1>1, EmptySeq, LenProperties
<1>3. Len(unfinalized) > 0 => Len(unfinalized) \in 1..Len(unfinalized)
  BY <1>2
<1>. QED BY <1>1, <1>2, <1>3, ElementOfSeq DEF Last

(* registerUnfinalizedBlock: the list with the header of the fetched block.*)
Registered == IF Height(fetched) <= finalized THEN unfinalized
              ELSE Append(unfinalized, fetched)

LEMMA RegisteredLinks ==
  ASSUME Shape, pc = "idle", fetched # NoBlock, Links(fetched)
  PROVE  /\ Chained(Registered)
         /\ InIndex(Registered, Accepted)
         /\ Len(Registered) > 0 /\ Height(Registered[Len(Registered)]) > finalized
              => Height(Registered[Len(Registered)]) = Len(Accepted)
         /\ Len(unfinalized) = 0 /\ Len(Registered) > 0 => Registered = <<fetched>>
<1>. DEFINE u == unfinalized
            n == Len(u)
<1>1. /\ fetched \in Paths /\ Height(fetched) = Len(indexed) + 1 /\ finalized \in Nat
      /\ Len(indexed) \in Nat /\ Height(fetched) \in Nat
  BY PathHeight, LenProperties DEF Shape, IndexOK, MaybePaths, ChainOK
<1>2. Chained(u) /\ u \in Seq(Paths) /\ n \in Nat /\ (n > 0 => IndexTop)
  BY TopOfCache DEF Shape, CacheOK
<1>3. InIndex(u, Accepted)
  <2>. SUFFICES ASSUME NEW i \in 1..n
                PROVE  Height(u[i]) \in 1..Len(Accepted) /\ u[i] = Accepted[Height(u[i])]
    BY DEF InIndex
  <2>1. Height(u[i]) \in 1..Len(indexed) /\ u[i] = indexed[Height(u[i])]
    BY <1>2 DEF IndexTop, InIndex
  <2>. QED BY <2>1, AcceptedIndex
<1>4. CASE Height(fetched) <= finalized
  <2>1. Registered = u
    BY <1>4 DEF Registered
  <2>2. n > 0 => ~(Height(u[n]) > finalized)
    BY <1>1, <1>2, <1>4 DEF IndexTop
  <2>. QED BY <1>2, <1>3, <2>1, <2>2
<1>5. CASE ~(Height(fetched) <= finalized)
  <2>. DEFINE v == Append(u, fetched)
  <2>1. Registered = v
    BY <1>5 DEF Registered
  <2>2. /\ v \in Seq(Paths) /\ Len(v) = n + 1 /\ v[n + 1] = fetched
        /\ \A i \in 1..n : v[i] = u[i]
    BY <1>1, <1>2, AppendProperties
  <2>. HIDE DEF v
  <2>3. n = 0 \/ (n > 0 /\ ParentOf(fetched) = u[n])
    BY <1>2, <1>5, TopOfCache DEF Links
  <2>4. ASSUME NEW i \in 1..Len(v)
        PROVE  i \in 1..n \/ i = n + 1
    BY <1>2, <2>2
  <2>5. n > 0 => 1 \in 1..n /\ n \in 1..n
    BY <1>2
  <2>6. n > 0 => Height(fetched) = Height(u[1]) - 1 + (n + 1)
    <3>1. ASSUME n > 0 PROVE Height(fetched) = Height(u[1]) - 1 + (n + 1)
      <4>1. Height(u[n]) = Height(u[1]) - 1 + n
        BY <1>2, <2>5, <3>1 DEF Chained
      <4>2. Height(u[n]) = Len(indexed)
        BY <1>2, <3>1 DEF IndexTop
      <4>3. Height(u[1]) \in Nat
        BY <1>2, <2>5, <3>1, ElementOfSeq, PathHeight
      <4>. QED BY <1>1, <1>2, <4>1, <4>2, <4>3
    <3>. QED BY <3>1
  <2>7. ASSUME NEW i \in 1..Len(v)
        PROVE  Height(v[i]) >= 1 /\ Height(v[i]) = Height(v[1]) - 1 + i
    <3>1. CASE i \in 1..n
      <4>1. 1 \in 1..n
        BY <1>2, <3>1
      <4>. QED BY <1>2, <2>2, <3>1, <4>1 DEF Chained
    <3>2. CASE i = n + 1 /\ n > 0
      BY <1>1, <1>2, <2>2, <2>5, <2>6, <3>2
    <3>3. CASE i = n + 1 /\ n = 0
      BY <1>1, <1>2, <2>2, <3>3
    <3>. QED BY <1>2, <2>4, <3>1, <3>2, <3>3
  <2>8. ASSUME NEW i \in 2..Len(v) PROVE ParentOf(v[i]) = v[i - 1]
    <3>1. (i \in 2..n /\ i - 1 \in 1..n /\ i \in 1..n) \/ (i = n + 1 /\ n > 0 /\ i - 1 = n)
      BY <1>2, <2>2
    <3>2. CASE i \in 2..n /\ i - 1 \in 1..n /\ i \in 1..n
      BY <1>2, <2>2, <3>2 DEF Chained
    <3>3. CASE i = n + 1 /\ n > 0 /\ i - 1 = n
      <4>1. v[i] = fetched /\ v[i - 1] = u[n]
        BY <2>2, <2>5, <3>3
      <4>. QED BY <2>3, <3>3, <4>1
    <3>. QED BY <3>1, <3>2, <3>3
  <2>9. Chained(v)
    BY <2>2, <2>7, <2>8 DEF Chained
  <2>10. InIndex(v, Accepted)
    <3>. SUFFICES ASSUME NEW i \in 1..Len(v)
                  PROVE  Height(v[i]) \in 1..Len(Accepted) /\ v[i] = Accepted[Height(v[i])]
      BY DEF InIndex
    <3>1. CASE i \in 1..n
      BY <1>3, <2>2, <3>1 DEF InIndex
    <3>2. CASE i = n + 1
      <4>1. /\ Len(Accepted) = Len(indexed) + 1 /\ Accepted[Len(indexed) + 1] = fetched
        BY AcceptedIndex
      <4>2. Len(indexed) + 1 \in 1..(Len(indexed) + 1)
        BY <1>1
      <4>. QED BY <1>1, <2>2, <3>2, <4>1, <4>2
    <3>. QED BY <2>4, <3>1, <3>2
  <2>11. Height(v[Len(v)]) = Len(Accepted)
    BY <1>1, <2>2, AcceptedIndex
  <2>12. n = 0 => v = <<fetched>>
    BY <1>2, <2>2, TopOfCache DEF v
  <2>. QED BY <2>1, <2>9, <2>10, <2>11, <2>12
<1>. QED BY <1>4, <1>5

LEMMA ShapeProcess ==
  ASSUME Shape, ProcessBlock
  PROVE  IndexOK' /\ CacheOK' /\ WalkOK'
<1>1. pc = "idle" /\ fetched # NoBlock
  BY DEF ProcessBlock
<1>2. fetched \in Paths /\ Height(fetched) = Len(indexed) + 1
  BY <1>1 DEF Shape, IndexOK, MaybePaths
<1>3. CASE ~Links(fetched)
  <2>1. BeginSearch(fetched, unfinalized) /\ UNCHANGED startupCheck
    BY <1>3 DEF ProcessBlock
  <2>2. Len(unfinalized) > 0
    BY <1>3, TopOfCache DEF Links
  <2>3. IndexTop
    BY <1>1, <2>2 DEF Shape, CacheOK
  <2>4. Height(fetched) = Height(unfinalized[Len(unfinalized)]) + 1
    BY <1>2, <2>3 DEF IndexTop
  <2>. QED BY <1>2, <2>1, <2>2, <2>3, <2>4, ShapeBeginSearch
<1>4. CASE Links(fetched) /\ startupCheck /\ Registered # <<>>
  <2>1. /\ startupCheck' = FALSE /\ pc' = "checkLast" /\ unfinalized' = Registered
        /\ UNCHANGED <<indexed, fetched, forked, checking, rest>>
    BY <1>4 DEF ProcessBlock, Registered, walkVars
  <2>2. Chained(Registered)
    BY <1>1, <1>4, RegisteredLinks
  <2>3. Len(Registered) > 0
    BY <1>4, <2>2, EmptySeq, LenProperties DEF Chained
  <2>4. Registered = <<fetched>>
    BY <1>1, <1>4, <2>3, RegisteredLinks DEF Shape, CacheOK
  <2>5. IndexOK'
    BY <2>1 DEF Shape, IndexOK
  <2>6. Pending' /\ Chained(unfinalized') /\ Len(unfinalized') > 0
    BY <1>1, <2>1, <2>2, <2>3, <2>4 DEF Pending
  <2>7. CacheOK'
    BY <2>1, <2>6 DEF CacheOK
  <2>8. WalkOK'
    BY <2>1 DEF Shape, WalkOK
  <2>. QED BY <2>5, <2>7, <2>8
<1>5. CASE Links(fetched) /\ ~(startupCheck /\ Registered # <<>>)
  <2>1. startupCheck' = FALSE /\ EndHasForked(Registered)
    BY <1>5 DEF ProcessBlock, Registered
  <2>2. AcceptBlock(Registered)
    BY <1>1, <1>5, <2>1, RegisteredLinks, LinksNeverBroken DEF EndHasForked
  <2>. QED BY <1>1, <1>5, <2>1, <2>2, RegisteredLinks, ShapeAccept
<1>. QED BY <1>3, <1>4, <1>5

LEMMA ShapeCheckLast ==
  ASSUME Shape, CheckLast
  PROVE  IndexOK' /\ CacheOK' /\ WalkOK'
<1>. DEFINE u == unfinalized
            last == Last(u)
<1>1. /\ pc = "checkLast" /\ UNCHANGED startupCheck /\ HasHeight(Height(last))
      /\ IF HeaderForHeight(Height(last)) # last
         THEN BeginSearch(HeaderForHeight(Height(last)), u) ELSE EndHasForked(u)
  BY DEF CheckLast
<1>2. Len(u) > 0 /\ startupCheck = FALSE /\ Chained(u) /\ (fetched = NoBlock \/ Pending)
  BY <1>1 DEF Shape, CacheOK, IndexOK
<1>3. Len(u) \in 1..Len(u) /\ last = u[Len(u)]
  BY <1>2, TopOfCache
<1>. HIDE DEF last
<1>4. CASE HeaderForHeight(Height(last)) # last
  <2>1. HeaderForHeight(Height(last)) \in Paths
        /\ Height(HeaderForHeight(Height(last))) = Height(last)
    BY <1>1, AncestorProperties DEF Shape, ChainOK, HasHeight, HeaderForHeight, Height
  <2>. QED BY <1>1, <1>2, <1>3, <1>4, <2>1, ShapeBeginSearch
<1>5. CASE ~(HeaderForHeight(Height(last)) # last)
  <2>1. AcceptBlock(u)
    BY <1>1, <1>2, <1>5, LinksNeverBroken DEF EndHasForked
  <2>2. CASE fetched = NoBlock
    <3>1. IndexTop /\ Accepted = indexed
      BY <1>2, <2>2, AcceptedIndex DEF Shape, CacheOK, Pending
    <3>. QED BY <1>1, <1>2, <2>1, <3>1, ShapeAccept DEF IndexTop
  <2>3. CASE fetched # NoBlock
    <3>1. u = <<fetched>>
      BY <1>2, <2>3 DEF Pending
    <3>2. /\ Height(fetched) = Len(indexed) + 1 /\ Len(Accepted) = Len(indexed) + 1
          /\ Accepted[Len(indexed) + 1] = fetched /\ Len(indexed) \in Nat
      BY <2>3, AcceptedIndex, LenProperties DEF Shape, IndexOK
    <3>3. Len(indexed) + 1 \in 1..Len(Accepted)
      BY <3>2
    <3>4. InIndex(u, Accepted) /\ Height(u[Len(u)]) = Len(Accepted)
      BY <3>1, <3>2, <3>3 DEF InIndex
    <3>. QED BY <1>1, <1>2, <2>1, <3>4, ShapeAccept
  <2>. QED BY <2>2, <2>3
<1>. QED BY <1>4, <1>5

(* The headers not yet looked at are below the block being checked.        *)
LEMMA RestOfSearch ==
  ASSUME Shape, pc = "search", rest # <<>>
  PROVE  /\ checking \in Paths /\ Len(rest) \in Nat /\ Len(rest) > 0
         /\ Head(rest) = rest[1] /\ rest[1] \in Paths
         /\ Height(rest[1]) \in 1..Len(indexed) /\ rest[1] = indexed[Height(rest[1])]
         /\ Height(checking) \in Nat /\ Height(checking) >= 2
         /\ Height(rest[1]) = Height(checking) - 1
<1>1. rest \in Seq(Paths) /\ Len(rest) \in Nat /\ Len(rest) > 0
  BY EmptySeq, LenProperties DEF Shape, WalkOK
<1>2. 1 \in 1..Len(rest)
  BY <1>1
<1>3. rest[1] \in Paths /\ Head(rest) = rest[1]
  BY <1>1, <1>2, ElementOfSeq
<1>4. /\ Height(rest[1]) \in 1..Len(indexed) /\ rest[1] = indexed[Height(rest[1])]
      /\ checking \in Paths /\ Height(rest[1]) = Height(checking) - 1
  BY <1>1, <1>2 DEF Shape, WalkOK, InIndex
<1>5. Height(checking) \in Nat
  BY <1>4, PathHeight
<1>6. Height(checking) >= 2
  BY <1>4, <1>5
<1>. QED BY <1>1, <1>3, <1>4, <1>5, <1>6

LEMMA ShapeSearchStep ==
  ASSUME Shape, SearchStep
  PROVE  IndexOK' /\ CacheOK' /\ WalkOK'
<1>1. /\ pc = "search" /\ rest # <<>>
      /\ UNCHANGED <<indexed, unfinalized, fetched, startupCheck, forked>>
  BY DEF SearchStep, indexVars
<1>2. IndexOK'
  BY <1>1 DEF Shape, IndexOK
<1>. DEFINE header == Head(rest)
<1>3. CASE header = checking \/ header = ParentOf(checking)
  <2>1. checking' = header /\ pc' = "rewind" /\ rest' = rest
    BY <1>3 DEF SearchStep
  <2>2. header \in Paths
    BY <1>1, RestOfSearch
  <2>3. CacheOK'
    BY <1>1, <2>1 DEF Shape, CacheOK, IndexTop, Pending
  <2>4. WalkOK'
    BY <1>1, <2>1, <2>2 DEF Shape, WalkOK, MaybePaths
  <2>. QED BY <1>2, <2>3, <2>4
<1>4. CASE ~(header = checking \/ header = ParentOf(checking))
  <2>1. /\ \/ checking' = ParentOf(checking)
           \/ /\ HasHeight(Height(checking) - 1)
              /\ checking' = HeaderForHeight(Height(checking) - 1)
        /\ rest' = Tail(rest) /\ pc' = pc
    BY <1>4 DEF SearchStep
  <2>2. Height(checking) - 1 \in 0..Height(checking)
    BY <1>1, RestOfSearch
  <2>3. checking' \in Paths /\ Height(checking') = Height(checking) - 1
    <3>1. CASE checking' = ParentOf(checking)
      BY <1>1, <2>2, <3>1, RestOfSearch, ParentIsAncestor, AncestorProperties
    <3>2. CASE HasHeight(Height(checking) - 1) /\ checking' = HeaderForHeight(Height(checking) - 1)
      <4>1. chain \in Paths /\ Height(checking) - 1 \in 0..Height(chain)
        BY <3>2 DEF Shape, ChainOK, HasHeight, Height
      <4>. QED BY <3>2, <4>1, AncestorProperties DEF HeaderForHeight
    <3>. QED BY <2>1, <3>1, <3>2
  <2>4. PICK r : r = Tail(rest)
    OBVIOUS
  <2>5. /\ rest \in Seq(Paths) /\ InIndex(rest, indexed) /\ forked \in Paths
        /\ \A i \in 1..Len(rest) : Height(rest[i]) = Height(rest[1]) - i + 1
    BY <1>1 DEF Shape, WalkOK
  <2>6. /\ r \in Seq(Paths) /\ Len(r) = Len(rest) - 1 /\ Len(rest) \in Nat
        /\ \A i \in 1..Len(r) : r[i] = rest[i + 1]
    BY <1>1, <2>4, <2>5, HeadTailProperties, LenProperties
  <2>7. \A i \in 1..Len(r) : i + 1 \in 1..Len(rest)
    BY <2>6
  <2>8. InIndex(r, indexed)
    BY <2>5, <2>6, <2>7 DEF InIndex
  <2>9. ASSUME NEW i \in 1..Len(r)
        PROVE  Height(r[i]) = Height(r[1]) - i + 1 /\ Height(r[1]) = Height(checking') - 1
    <3>1. i + 1 \in 1..Len(rest) /\ 1 + 1 \in 1..Len(rest) /\ 1 \in 1..Len(r)
      BY <2>6
    <3>2. r[i] = rest[i + 1] /\ r[1] = rest[1 + 1]
      BY <2>6, <3>1
    <3>3. /\ Height(rest[i + 1]) = Height(rest[1]) - (i + 1) + 1
          /\ Height(rest[1 + 1]) = Height(rest[1]) - (1 + 1) + 1
      BY <2>5, <3>1
    <3>4. Height(rest[1]) = Height(checking) - 1 /\ Height(checking) \in Nat
      BY <1>1, RestOfSearch
    <3>5. i \in Nat
      BY <2>6
    <3>6. /\ Height(r[i]) = Height(checking) - 1 - (i + 1) + 1
          /\ Height(r[1]) = Height(checking) - 1 - 2 + 1
      BY <3>2, <3>3, <3>4
    <3>7. PICK h \in Nat : h = Height(checking)
      BY <3>4
    <3>8. Height(r[i]) = h - i - 1 /\ Height(r[1]) = h - 2
      <4>1. h - 1 - (i + 1) + 1 = h - i - 1 /\ h - 1 - 2 + 1 = h - 2
        BY <3>5
      <4>2. Height(r[i]) = h - 1 - (i + 1) + 1 /\ Height(r[1]) = h - 1 - 2 + 1
        BY <3>6, <3>7, Zenon
      <4>. QED BY <4>1, <4>2, Zenon
    <3>9. Height(checking') = h - 1
      BY <2>3, <3>7
    <3>10. h - i - 1 = (h - 2) - i + 1 /\ h - 2 = (h - 1) - 1
      BY <3>5, <3>7
    <3>. QED BY <3>8, <3>9, <3>10
  <2>10. Len(r) > 0 => Height(r[1]) = Height(checking') - 1
    <3>1. ASSUME Len(r) > 0 PROVE Height(r[1]) = Height(checking') - 1
      <4>1. 1 \in 1..Len(r)
        BY <2>6, <3>1
      <4>. QED BY <2>9, <4>1
    <3>. QED BY <3>1
  <2>11. WalkOK'
    <3>1. rest' = r /\ pc' = "search" /\ forked' = forked /\ indexed' = indexed
      BY <1>1, <2>1, <2>4
    <3>2. rest' \in Seq(Paths) /\ InIndex(rest', indexed')
      BY <2>6, <2>8, <3>1
    <3>3. \A i \in 1..Len(rest') : Height(rest'[i]) = Height(rest'[1]) - i + 1
      BY <2>9, <3>1
    <3>4. Len(rest') > 0 => Height(rest'[1]) = Height(checking') - 1
      BY <2>10, <3>1
    <3>. QED BY <2>3, <2>5, <3>1, <3>2, <3>3, <3>4 DEF WalkOK, MaybePaths
  <2>12. CacheOK'
    BY <1>1, <2>1 DEF Shape, CacheOK, IndexTop, Pending
  <2>. QED BY <1>2, <2>11, <2>12
<1>. QED BY <1>3, <1>4

(* A nonempty set of heights up to n has a greatest element.               *)
LEMMA GreatestHeight ==
  ASSUME NEW n \in Nat, NEW T, T \subseteq 1..n, T # {}
  PROVE  \E k \in T : \A j \in T : j <= k
<1>. DEFINE below == {n - j : j \in T}
<1>0. \A j \in T : j \in Nat /\ n - j \in Nat
  OBVIOUS
<1>1. below \subseteq Nat /\ below # {}
  BY <1>0
<1>2. PICK m \in below : \A x \in below : m <= x
  BY <1>1, LeastNatural
<1>3. PICK k \in T : m = n - k
  BY <1>2
<1>4. ASSUME NEW j \in T PROVE j <= k
  <2>1. n - j \in below
    OBVIOUS
  <2>2. n - k <= n - j
    BY <1>2, <1>3, <2>1
  <2>. QED BY <1>0, <2>2
<1>. QED BY <1>4

(* findFinalizedUsingPOI finds the newest block that is an ancestor.       *)
PoiHeight == IF PoiMatches = {} THEN 0 ELSE CHOOSE k \in PoiMatches : \A j \in PoiMatches : j <= k

LEMMA PoiTargetIs ==
  ASSUME checking \in Paths
  PROVE  /\ PoiTarget = AncestorAt(checking, PoiHeight)
         /\ PoiHeight \in 0..Height(checking) /\ PoiHeight \in Nat
         /\ PoiHeight > 0 => PoiHeight \in PoiMatches
         /\ \A j \in PoiMatches : j <= PoiHeight
<1>1. PoiTarget = AncestorAt(checking, PoiHeight)
  BY DEF PoiTarget, PoiHeight
<1>2. Height(checking) \in Nat
  BY PathHeight
<1>3. CASE PoiMatches = {}
  BY <1>1, <1>2, <1>3 DEF PoiHeight
<1>4. CASE PoiMatches # {}
  <2>1. PoiMatches \subseteq 1..(Height(checking) - 1)
    BY DEF PoiMatches
  <2>2. PoiMatches \subseteq 1..Height(checking)
    BY <1>2, <2>1
  <2>3. \E k \in PoiMatches : \A j \in PoiMatches : j <= k
    BY <1>2, <1>4, <2>2, GreatestHeight
  <2>4. PoiHeight = CHOOSE k \in PoiMatches : \A j \in PoiMatches : j <= k
    BY <1>4 DEF PoiHeight
  <2>5. PoiHeight \in PoiMatches /\ \A j \in PoiMatches : j <= PoiHeight
    BY <2>3, <2>4
  <2>6. PoiHeight \in 1..Height(checking)
    BY <2>2, <2>5
  <2>. QED BY <1>1, <1>2, <2>5, <2>6
<1>. QED BY <1>3, <1>4

LEMMA ShapeNoMatch ==
  ASSUME Shape, NoMatch
  PROVE  IndexOK' /\ CacheOK' /\ WalkOK' /\ checking' \in Paths
<1>1. /\ pc = "search" /\ pc' = "rewind" /\ rest = <<>>
      /\ UNCHANGED <<indexed, unfinalized, fetched, startupCheck, forked, rest>>
  BY DEF NoMatch, indexVars
<1>2. checking \in Paths /\ forked \in Paths /\ chain \in Paths
  BY <1>1 DEF Shape, WalkOK, ChainOK
<1>3. checking' \in Paths
  <2>1. CASE poiEnabled
    <3>1. checking' = PoiTarget
      BY <2>1 DEF NoMatch
    <3>. QED BY <1>2, <3>1, PoiTargetIs, AncestorProperties
  <2>2. CASE ~poiEnabled
    <3>1. PICK target : HasHeight(target) /\ checking' = HeaderForHeight(target)
      BY <2>2 DEF NoMatch
    <3>. QED BY <1>2, <3>1, AncestorProperties DEF HasHeight, HeaderForHeight, Height
  <2>. QED BY <2>1, <2>2
<1>4. IndexOK'
  BY <1>1 DEF Shape, IndexOK
<1>5. CacheOK'
  BY <1>1 DEF Shape, CacheOK, IndexTop, Pending
<1>6. WalkOK'
  BY <1>1, <1>3 DEF Shape, WalkOK, MaybePaths
<1>. QED BY <1>3, <1>4, <1>5, <1>6

(* The index cut at a height.                                              *)
LEMMA IndexBelow ==
  ASSUME Shape, NEW k \in Nat, NEW d, d = HeadersBelow(indexed, k + 1)
  PROVE  /\ d \in Seq(Paths) /\ Len(d) \in Nat
         /\ \A i \in 1..Len(d) : i \in 1..Len(indexed) /\ i <= k /\ d[i] = indexed[i]
<1>1. indexed \in Seq(Paths) /\ Len(indexed) \in Nat /\ Consecutive(indexed, 0)
  BY LenProperties DEF Shape, IndexOK, Consecutive
<1>2. PICK b \in 0..Len(indexed) : b <= k /\ (b < Len(indexed) => b + 1 >= k + 1)
  <2>1. CASE k < Len(indexed)
    <3>1. k \in 0..Len(indexed) /\ k <= k /\ k + 1 >= k + 1
      BY <1>1, <2>1
    <3>. QED BY <3>1
  <2>2. CASE ~(k < Len(indexed))
    <3>1. Len(indexed) \in 0..Len(indexed) /\ Len(indexed) <= k /\ ~(Len(indexed) < Len(indexed))
      BY <1>1, <2>2
    <3>. QED BY <3>1
  <2>. QED BY <2>1, <2>2
<1>3. d = SubSeq(indexed, 1, b)
  <2>1. /\ 0 \in Int /\ k + 1 \in Int /\ (b < Len(indexed) => 0 + b + 1 >= k + 1)
        /\ (b > 0 => 0 + b < k + 1)
    BY <1>1, <1>2
  <2>. QED BY <1>1, <1>2, <2>1, BelowIsPrefix
<1>4. \A i \in 1..b : i \in 1..Len(indexed) /\ i <= k
  BY <1>1, <1>2
<1>5. /\ d \in Seq(Paths) /\ Len(d) = b
      /\ \A i \in 1..b : d[i] = indexed[i]
  <2>1. \A i \in 1..b : indexed[i] \in Paths
    BY <1>1, <1>4, ElementOfSeq
  <2>2. b \in Nat
    BY <1>1, <1>2
  <2>. QED BY <1>3, <2>1, <2>2, SubSeqProperties
<1>. QED BY <1>1, <1>2, <1>4, <1>5

LEMMA ShapeRewind ==
  ASSUME Shape, Rewind
  PROVE  IndexOK' /\ CacheOK' /\ WalkOK'
<1>1. /\ pc = "rewind" /\ indexed' = HeadersBelow(indexed, Height(checking) + 1)
      /\ unfinalized' = <<>> /\ fetched' = NoBlock /\ pc' = "idle"
      /\ forked' = NoBlock /\ checking' = NoBlock /\ rest' = <<>> /\ UNCHANGED startupCheck
  BY DEF Rewind
<1>2. Height(checking) \in Nat
  BY <1>1, PathHeight DEF Shape, WalkOK
<1>3. PICK d : d = HeadersBelow(indexed, Height(checking) + 1)
  OBVIOUS
<1>4. /\ d \in Seq(Paths)
      /\ \A i \in 1..Len(d) : i \in 1..Len(indexed) /\ d[i] = indexed[i]
  BY <1>2, <1>3, IndexBelow
<1>5. IndexOK'
  BY <1>1, <1>3, <1>4 DEF Shape, IndexOK, MaybePaths
<1>6. <<>> \in Seq(Paths) /\ Len(<<>>) = 0 /\ \A i \in 1..Len(<<>>) : FALSE
  BY EmptySeq
<1>7. CacheOK'
  BY <1>1, <1>6 DEF CacheOK, Chained
<1>8. WalkOK'
  BY <1>1, <1>6 DEF WalkOK, MaybePaths, InIndex
<1>. QED BY <1>5, <1>7, <1>8

(* The headers saved with the index: all of them, or none when the only    *)
(* one is of a block not indexed.                                          *)
LEMMA SavedHeaders ==
  ASSUME Shape, NEW v, v = HeadersBelow(unfinalized, Len(indexed) + 1)
  PROVE  /\ Chained(v) /\ Len(v) \in Nat
         /\ Len(v) > 0 => /\ Len(unfinalized) > 0 /\ InIndex(v, indexed)
                          /\ Height(v[Len(v)]) = Len(indexed)
                          /\ v[Len(v)] = unfinalized[Len(unfinalized)]
         /\ Len(v) = 0 => Len(unfinalized) = 0 \/ Pending
<1>. DEFINE u == unfinalized
<1>1. Len(indexed) \in Nat /\ Len(indexed) + 1 \in Nat
  BY LenProperties DEF Shape, IndexOK
<1>2. Chained(u) /\ Len(u) \in Nat /\ (Len(u) > 0 => IndexTop \/ Pending)
  BY TopOfCache DEF Shape, CacheOK
<1>3. /\ Chained(v) /\ Len(v) <= Len(u)
      /\ \A i \in 1..Len(v) : i \in 1..Len(u) /\ v[i] = u[i] /\ Height(v[i]) < Len(indexed) + 1
      /\ Len(v) < Len(u) => Height(u[Len(v) + 1]) >= Len(indexed) + 1
  BY <1>1, <1>2, BelowChained
<1>4. Len(v) \in Nat
  BY <1>3, LenProperties DEF Chained
<1>5. CASE Len(u) = 0
  BY <1>2, <1>3, <1>4, <1>5
<1>6. CASE Len(u) > 0 /\ IndexTop
  <2>1. ASSUME Len(v) < Len(u) PROVE FALSE
    <3>1. Len(v) + 1 \in 1..Len(u)
      BY <1>2, <1>4, <2>1
    <3>2. Height(u[Len(v) + 1]) \in 1..Len(indexed)
      BY <1>6, <3>1 DEF IndexTop, InIndex
    <3>. QED BY <1>1, <1>3, <2>1, <3>2
  <2>2. Len(v) = Len(u) /\ Len(v) > 0
    BY <1>2, <1>3, <1>4, <1>6, <2>1
  <2>3. InIndex(v, indexed)
    BY <1>3, <1>6 DEF IndexTop, InIndex
  <2>4. Len(v) \in 1..Len(v)
    BY <1>4, <2>2
  <2>5. v[Len(v)] = u[Len(u)]
    BY <1>3, <2>2, <2>4
  <2>. QED BY <1>3, <1>4, <1>6, <2>2, <2>3, <2>5 DEF IndexTop
<1>7. CASE Len(u) > 0 /\ Pending
  <2>1. Height(u[1]) = Len(indexed) + 1
    BY <1>7 DEF Pending, Shape, IndexOK
  <2>2. Len(v) = 0
    <3>1. ASSUME Len(v) # 0 PROVE FALSE
      <4>1. 1 \in 1..Len(v)
        BY <1>4, <3>1
      <4>. QED BY <1>1, <1>3, <2>1, <4>1
    <3>. QED BY <3>1
  <2>. QED BY <1>3, <1>4, <1>7, <2>2
<1>. QED BY <1>2, <1>5, <1>6, <1>7

LEMMA ShapeRestart ==
  ASSUME Shape, Restart
  PROVE  IndexOK' /\ CacheOK' /\ WalkOK'
<1>1. PICK v : v = HeadersBelow(unfinalized, Len(indexed) + 1)
  OBVIOUS
<1>2. /\ unfinalized' = v /\ startupCheck' = (v = <<>>) /\ fetched' = NoBlock
      /\ pc' = IF v = <<>> THEN "idle" ELSE "checkLast"
      /\ forked' = NoBlock /\ checking' = NoBlock /\ rest' = <<>> /\ indexed' = indexed
  BY <1>1 DEF Restart
<1>3. /\ Chained(v) /\ Len(v) \in Nat
      /\ Len(v) > 0 => InIndex(v, indexed) /\ Height(v[Len(v)]) = Len(indexed)
  BY <1>1, SavedHeaders
<1>4. v = <<>> <=> Len(v) = 0
  BY <1>3, EmptySeq DEF Chained
<1>5. IndexOK'
  BY <1>2 DEF Shape, IndexOK, MaybePaths
<1>6. CacheOK'
  <2>1. Chained(unfinalized')
    BY <1>2, <1>3
  <2>2. startupCheck' \in BOOLEAN
    BY <1>2
  <2>3. startupCheck' => Len(unfinalized') = 0
    BY <1>2, <1>4
  <2>4. Len(unfinalized') > 0 => IndexTop'
    BY <1>2, <1>3 DEF IndexTop
  <2>5. pc' = "checkLast" => Len(unfinalized') > 0 /\ (fetched' = NoBlock \/ Pending')
    <3>1. ASSUME pc' = "checkLast" PROVE Len(unfinalized') > 0
      <4>1. v # <<>>
        BY <1>2, <3>1
      <4>2. Len(v) # 0
        BY <1>4, <4>1
      <4>. QED BY <1>2, <1>3, <4>2
    <3>. QED BY <1>2, <3>1
  <2>. QED BY <2>1, <2>2, <2>3, <2>4, <2>5 DEF CacheOK
<1>7. <<>> \in Seq(Paths) /\ Len(<<>>) = 0 /\ \A i \in 1..Len(<<>>) : FALSE
  BY EmptySeq
<1>8. WalkOK'
  BY <1>2, <1>7 DEF WalkOK, MaybePaths, InIndex
<1>. QED BY <1>5, <1>6, <1>8

LEMMA ShapeStep == Shape /\ [Next]_vars => Shape'
<1>. SUFFICES ASSUME Shape, [Next]_vars PROVE Shape'
  OBVIOUS
<1>. ChainOK /\ IndexOK /\ CacheOK /\ WalkOK
  BY DEF Shape
<1>1. CASE Environment
  BY <1>1, ChainStep, ShapeUnchanged DEF Shape
<1>2. CASE \/ FetchBlock \/ ProcessBlock \/ CheckLast \/ SearchStep \/ NoMatch
           \/ Rewind \/ Restart
  <2>1. UNCHANGED <<poiEnabled, chain, branch, chainFinal, finalized, exposed>>
    BY <1>2 DEF FetchBlock, ProcessBlock, CheckLast, SearchStep, NoMatch, Rewind, Restart, chainVars
  <2>2. ChainOK'
    BY <2>1 DEF ChainOK
  <2>3. IndexOK' /\ CacheOK' /\ WalkOK'
    BY <1>2, ShapeFetch, ShapeProcess, ShapeCheckLast, ShapeSearchStep, ShapeNoMatch,
       ShapeRewind, ShapeRestart
  <2>. QED BY <2>2, <2>3 DEF Shape
<1>3. CASE UNCHANGED vars
  <2>1. ChainOK'
    BY <1>3 DEF vars, chainVars, ChainOK
  <2>2. UNCHANGED serviceVars
    BY <1>3 DEF vars, serviceVars
  <2>. QED BY <2>1, <2>2, ShapeUnchanged DEF Shape
<1>. QED BY <1>1, <1>2, <1>3 DEF Next, Environment

LEMMA ShapeInvariant == Spec => []Shape
<1>1. Init => Shape
  BY ShapeInit
<1>2. Shape /\ [Next]_vars => Shape'
  BY ShapeStep
<1>. QED BY <1>1, <1>2, PTL DEF Spec

(* Every variable keeps its kind, and the index holds one block for every  *)
(* height up to the last indexed, whatever the chain, restarts and rewinds *)
(* do.                                                                     *)
THEOREM TypeCorrect == Spec => []TypeOK
<1>1. Shape => TypeOK
  <2>. SUFFICES ASSUME Shape PROVE TypeOK
    OBVIOUS
  <2>. ChainOK /\ IndexOK /\ CacheOK /\ WalkOK
    BY DEF Shape
  <2>1. \A i \in DOMAIN indexed : Height(indexed[i]) = i
    BY LenProperties DEF IndexOK
  <2>2. chainFinal \in 0..Len(chain)
    BY DEF ChainOK, Height
  <2>. QED BY <2>1, <2>2 DEF TypeOK, ChainOK, IndexOK, CacheOK, WalkOK, Chained
<1>. QED BY <1>1, ShapeInvariant, PTL

(* The headers that hasForked finds in the cache link, for a chain of any  *)
(* height and any number of reorganisations: its last branch is dead.      *)
THEOREM CacheIsLinked == Spec => []CachedHeadersLink
<1>1. Shape => CachedHeadersLink
  BY DEF Shape, CacheOK, Chained, CachedHeadersLink
<1>. QED BY <1>1, ShapeInvariant, PTL

-----------------------------------------------------------------------------
(* What is known of the chain, whatever it does: the branch numbers of the *)
(* blocks that were seen are those of the branches so far, and no block    *)
(* that was seen lies ahead of the chain, where it could grow back to it.  *)

NeverAhead(p) == On(p, chain) => chain = p
Seen(p) == Settled(p, branch) /\ NeverAhead(p)

KnownOK ==
  /\ Settled(chain, branch)
  /\ \A k \in 1..Len(indexed) : Seen(indexed[k])
  /\ fetched # NoBlock => Seen(fetched)

LEMMA BlocksOfShape ==
  ASSUME Shape
  PROVE  /\ chain \in Paths /\ Height(chain) \in Nat /\ branch \in 0..MaxReorgs /\ branch \in Nat
         /\ finalized \in Nat /\ chainFinal \in Nat /\ finalized <= chainFinal
         /\ Len(indexed) \in Nat
         /\ \A k \in 1..Len(indexed) : /\ k \in Nat /\ indexed[k] \in Paths
                                       /\ Height(indexed[k]) = k
         /\ fetched # NoBlock =>
              /\ fetched \in Paths /\ Height(fetched) = Len(indexed) + 1
              /\ ParentOf(fetched) = AncestorAt(fetched, Len(indexed))
              /\ ParentOf(fetched) \in Paths /\ Height(ParentOf(fetched)) = Len(indexed)
<1>1. chain \in Paths /\ branch \in 0..MaxReorgs /\ chainFinal \in 0..Height(chain)
      /\ finalized \in 0..chainFinal
  BY DEF Shape, ChainOK
<1>2. Height(chain) \in Nat
  BY <1>1, PathHeight
<1>3. finalized \in Nat /\ chainFinal \in Nat /\ finalized <= chainFinal /\ branch \in Nat
  BY <1>1, <1>2, ForkAssumption
<1>4. indexed \in Seq(Paths) /\ \A i \in 1..Len(indexed) : Height(indexed[i]) = i
  BY DEF Shape, IndexOK
<1>5. Len(indexed) \in Nat
  BY <1>4, LenProperties
<1>6. \A k \in 1..Len(indexed) : k \in Nat /\ indexed[k] \in Paths /\ Height(indexed[k]) = k
  BY <1>4, <1>5, ElementOfSeq
<1>7. ASSUME fetched # NoBlock
      PROVE  /\ fetched \in Paths /\ Height(fetched) = Len(indexed) + 1
             /\ ParentOf(fetched) = AncestorAt(fetched, Len(indexed))
             /\ ParentOf(fetched) \in Paths /\ Height(ParentOf(fetched)) = Len(indexed)
  <2>1. fetched \in Paths /\ Height(fetched) = Len(indexed) + 1
    BY <1>7 DEF Shape, IndexOK, MaybePaths
  <2>2. Height(fetched) - 1 = Len(indexed) /\ Len(indexed) \in 0..Height(fetched)
    BY <1>5, <2>1
  <2>3. ParentOf(fetched) = AncestorAt(fetched, Len(indexed))
    BY <2>2, ParentIsAncestor
  <2>. QED BY <2>1, <2>2, <2>3, AncestorProperties
<1>. QED BY <1>1, <1>2, <1>3, <1>5, <1>6, <1>7

(* The chain grows by a block that nobody has seen.                        *)
LEMMA OnAfterGrowth ==
  ASSUME Shape, ChainGrows, NEW p \in Paths
  PROVE  /\ On(chain, p) => On(chain', p)
         /\ NeverAhead(p) => ~On(p, chain')
         /\ NeverAhead(p) /\ On(chain', p) => On(chain, p)
<1>0. /\ chain \in Paths /\ Height(chain) \in Nat /\ branch \in 0..MaxReorgs
      /\ Height(p) \in Nat
  BY BlocksOfShape, PathHeight
<1>1. PICK d : d = chain'
  OBVIOUS
<1>2. /\ d \in Paths /\ Height(d) = Height(chain) + 1 /\ AncestorAt(d, Height(chain)) = chain
  BY <1>0, <1>1, Growth DEF ChainGrows, Height
<1>3. AncestorAt(chain, Height(chain)) = chain
  BY <1>0, AncestorSelf
<1>4. ASSUME On(chain, p) PROVE On(d, p)
  <2>1. Height(p) <= Height(chain)
    BY <1>4 DEF On
  <2>. QED BY <1>0, <1>2, <1>3, <1>4, <2>1, OnAgree
<1>5. ASSUME NeverAhead(p), On(p, d) PROVE FALSE
  <2>1. Height(d) <= Height(p) /\ d = AncestorAt(p, Height(d))
    BY <1>5 DEF On
  <2>2. Height(chain) \in 0..Height(d)
    BY <1>0, <1>2
  <2>3. On(p, AncestorAt(d, Height(chain)))
    BY <1>2, <1>5, <2>2, OnAncestor
  <2>4. chain = p
    BY <1>2, <1>5, <2>3 DEF NeverAhead
  <2>. QED BY <1>0, <1>2, <2>1, <2>4
<1>6. ASSUME NeverAhead(p), On(d, p) PROVE On(chain, p)
  <2>1. Height(p) <= Height(d) /\ p = AncestorAt(d, Height(p))
    BY <1>6 DEF On
  <2>2. CASE Height(p) <= Height(chain)
    BY <1>0, <1>2, <1>3, <1>6, <2>2, OnAgree
  <2>3. CASE ~(Height(p) <= Height(chain))
    <3>1. Height(p) = Height(d)
      BY <1>0, <1>2, <2>1, <2>3
    <3>2. p = d
      BY <1>2, <2>1, <3>1, AncestorSelf
    <3>3. AncestorAt(d, Height(d)) = d /\ Height(d) <= Height(d)
      BY <1>0, <1>2, AncestorSelf
    <3>4. On(p, d)
      BY <3>2, <3>3 DEF On
    <3>. QED BY <1>5, <1>6, <3>4
  <2>. QED BY <2>2, <2>3
<1>. QED BY <1>1, <1>4, <1>5, <1>6

(* A reorganisation leaves what was finalized, and its blocks are new.     *)
LEMMA OnAfterReorganisation ==
  ASSUME Shape, ChainReorganises, NEW p \in Paths
  PROVE  /\ Height(p) <= finalized => (On(chain, p) <=> On(chain', p))
         /\ Settled(p, branch) => ~On(p, chain')
<1>0. /\ chain \in Paths /\ Height(chain) \in Nat /\ Height(p) \in Nat
      /\ finalized \in Nat /\ chainFinal \in Nat /\ finalized <= chainFinal
  BY BlocksOfShape, PathHeight
<1>1. /\ chain' \in Paths /\ branch \in Nat /\ ~Settled(chain', branch)
  BY ReorganisedChain DEF Shape
<1>2. PICK keep \in Nat : /\ chainFinal <= keep /\ keep < Height(chain) /\ keep < Height(chain')
                          /\ AncestorAt(chain', keep) = AncestorAt(chain, keep)
  BY ReorganisedChain DEF Shape
<1>3. PICK d : d = chain'
  OBVIOUS
<1>4. Height(d) \in Nat /\ d \in Paths
  BY <1>1, <1>3, PathHeight
<1>5. ASSUME Height(p) <= finalized PROVE On(chain, p) <=> On(d, p)
  <2>1. keep <= Height(chain) /\ keep <= Height(d) /\ Height(p) <= keep
    BY <1>0, <1>2, <1>3, <1>4, <1>5
  <2>. QED BY <1>0, <1>2, <1>3, <1>4, <2>1, OnAgree
<1>6. ASSUME Settled(p, branch), On(p, d) PROVE FALSE
  <2>1. Height(d) <= Height(p) /\ d = AncestorAt(p, Height(d))
    BY <1>6 DEF On
  <2>2. Height(d) \in 0..Height(p)
    BY <1>0, <1>4, <2>1
  <2>3. \A i \in 1..Height(d) : d[i] = p[i]
    BY <2>1, <2>2, AncestorProperties
  <2>4. \A i \in 1..Height(d) : i \in 1..Height(p)
    BY <1>0, <1>4, <2>1
  <2>5. \A i \in 1..Height(d) : d[i] <= branch
    BY <1>6, <2>3, <2>4 DEF Settled, Height
  <2>6. Settled(d, branch)
    BY <2>5 DEF Settled, Height
  <2>. QED BY <1>1, <1>3, <2>6
<1>. QED BY <1>3, <1>5, <1>6

LEMMA KnownInit == Init => KnownOK
<1>. SUFFICES ASSUME Init PROVE KnownOK
  OBVIOUS
<1>1. PICK n \in 0..MaxHeight : chain = [i \in 1..n |-> 0]
  BY DEF Init
<1>2. n \in Nat
  BY <1>1, ForkAssumption
<1>3. Len(chain) = n /\ \A i \in 1..n : chain[i] = 0
  BY <1>1, <1>2
<1>4. branch = 0 /\ indexed = <<>> /\ fetched = NoBlock
  BY DEF Init
<1>5. Settled(chain, branch)
  BY <1>2, <1>3, <1>4 DEF Settled
<1>6. Len(indexed) = 0
  BY <1>4, EmptySeq
<1>. QED BY <1>4, <1>5, <1>6 DEF KnownOK

(* A step that keeps the chain keeps what is known of a block.             *)
LEMMA KnownOfSeen ==
  ASSUME Shape, KnownOK, UNCHANGED <<chain, branch>>,
         \A k \in 1..Len(indexed') : \/ \E j \in 1..Len(indexed) : indexed'[k] = indexed[j]
                                     \/ fetched # NoBlock /\ indexed'[k] = fetched,
         fetched' # NoBlock => fetched' = fetched \/ Seen(fetched')
  PROVE  KnownOK'
<1>1. /\ Settled(chain, branch) /\ \A j \in 1..Len(indexed) : Seen(indexed[j])
      /\ fetched # NoBlock => Seen(fetched)
  BY DEF KnownOK
<1>2. PICK c, b : c = chain /\ b = branch
  OBVIOUS
<1>3. chain' = c /\ branch' = b
  BY <1>2
<1>4. ASSUME NEW k \in 1..Len(indexed')
      PROVE  Seen(indexed'[k])
  BY <1>1
<1>5. fetched' # NoBlock => Seen(fetched')
  BY <1>1
<1>6. Settled(chain', branch')
  BY <1>1
<1>7. \A k \in 1..Len(indexed') : Settled(indexed'[k], branch') /\ (On(indexed'[k], chain') => chain' = indexed'[k])
  BY <1>4 DEF Seen, NeverAhead
<1>8. fetched' # NoBlock => Settled(fetched', branch') /\ (On(fetched', chain') => chain' = fetched')
  BY <1>5 DEF Seen, NeverAhead
<1>. QED BY <1>6, <1>7, <1>8 DEF KnownOK, Seen, NeverAhead

LEMMA KnownStep ==
  ASSUME Shape, KnownOK, [Next]_vars
  PROVE  KnownOK'
<1>0. /\ chain \in Paths /\ Height(chain) \in Nat /\ branch \in 0..MaxReorgs /\ branch \in Nat
      /\ Len(indexed) \in Nat
      /\ \A k \in 1..Len(indexed) : indexed[k] \in Paths
      /\ fetched # NoBlock => fetched \in Paths
  BY BlocksOfShape
<1>1. /\ Settled(chain, branch) /\ \A k \in 1..Len(indexed) : Seen(indexed[k])
      /\ fetched # NoBlock => Seen(fetched)
  BY DEF KnownOK
<1>2. CASE ChainGrows
  <2>1. UNCHANGED <<branch, indexed, fetched>>
    BY <1>2 DEF ChainGrows, indexVars
  <2>2. ASSUME NEW p \in Paths, Seen(p)
        PROVE  Settled(p, branch') /\ (On(p, chain') => chain' = p)
    BY <1>2, <2>1, <2>2, OnAfterGrowth DEF Seen
  <2>3. Settled(chain', branch')
    <3>1. PICK d : d = chain'
      OBVIOUS
    <3>2. /\ Height(d) = Height(chain) + 1 /\ d[Height(chain) + 1] = branch
          /\ \A i \in 1..Height(chain) : d[i] = chain[i]
      BY <1>0, <1>2, <3>1, Growth DEF ChainGrows, Height
    <3>3. ASSUME NEW i \in 1..Len(d) PROVE d[i] <= branch
      <4>1. CASE i \in 1..Height(chain)
        BY <1>1, <3>2, <4>1 DEF Settled, Height
      <4>2. CASE ~(i \in 1..Height(chain))
        <5>1. i = Height(chain) + 1
          BY <1>0, <3>2, <3>3, <4>2 DEF Height
        <5>. QED BY <1>0, <3>2, <5>1
      <4>. QED BY <4>1, <4>2
    <3>4. Settled(d, branch)
      BY <3>3 DEF Settled
    <3>. QED BY <2>1, <3>1, <3>4
  <2>. QED BY <1>0, <1>1, <2>1, <2>2, <2>3 DEF KnownOK, Seen, NeverAhead
<1>3. CASE ChainReorganises
  <2>1. UNCHANGED <<indexed, fetched>>
    BY <1>3 DEF ChainReorganises, indexVars
  <2>2. /\ branch' \in 0..MaxReorgs /\ branch < branch' /\ Settled(chain', branch')
    BY <1>1, <1>3, ReorganisedChain DEF Shape
  <2>3. ASSUME NEW p \in Paths, Seen(p)
        PROVE  Settled(p, branch') /\ ~On(p, chain')
    <3>1. Settled(p, branch)
      BY <2>3 DEF Seen
    <3>2. p \in Seq(0..MaxReorgs)
      BY PathIsSeq
    <3>3. ASSUME NEW i \in 1..Len(p) PROVE p[i] <= branch'
      <4>1. p[i] \in 0..MaxReorgs /\ MaxReorgs \in Nat
        BY <3>2, <3>3, ElementOfSeq, ForkAssumption
      <4>2. p[i] <= branch
        BY <3>1 DEF Settled
      <4>. QED BY <1>0, <2>2, <4>1, <4>2
    <3>. QED BY <1>3, <3>1, <3>3, OnAfterReorganisation DEF Settled
  <2>. QED BY <1>0, <1>1, <2>1, <2>2, <2>3 DEF KnownOK, Seen, NeverAhead
<1>4. CASE FetchBlock
  <2>1. UNCHANGED <<chain, branch, indexed>>
    BY <1>4 DEF FetchBlock, chainVars
  <2>2. Len(indexed) + 1 \in 0..Height(chain) /\ fetched' = AncestorAt(chain, Len(indexed) + 1)
    BY <1>4 DEF FetchBlock, HasHeight, HeaderForHeight, Height
  <2>3. PICK k \in 0..Height(chain) : k = Len(indexed) + 1
    BY <2>2
  <2>4. PICK p : p = AncestorAt(chain, k)
    OBVIOUS
  <2>5. p \in Paths /\ Height(p) = k /\ \A i \in 1..k : p[i] = chain[i]
    BY <1>0, <2>4, AncestorProperties
  <2>6. Settled(p, branch)
    <3>1. \A i \in 1..k : i \in 1..Height(chain)
      BY <1>0
    <3>. QED BY <1>1, <2>5, <3>1 DEF Settled, Height
  <2>7. NeverAhead(p)
    <3>1. ASSUME On(p, chain) PROVE chain = p
      <4>1. Height(chain) <= k
        BY <2>5, <3>1 DEF On
      <4>2. Height(chain) = k
        BY <1>0, <4>1
      <4>. QED BY <1>0, <2>4, <4>2, AncestorSelf
    <3>. QED BY <3>1 DEF NeverAhead
  <2>8. fetched' = p /\ Seen(p)
    BY <2>2, <2>3, <2>4, <2>6, <2>7 DEF Seen
  <2>. QED BY <2>1, <2>8, KnownOfSeen
<1>5. CASE ProcessBlock \/ CheckLast
  <2>1. UNCHANGED <<chain, branch>>
    BY <1>5 DEF ProcessBlock, CheckLast, chainVars
  <2>2. /\ indexed' = indexed \/ indexed' = Accepted
        /\ fetched' = fetched \/ fetched' = NoBlock
    BY <1>5 DEF ProcessBlock, CheckLast, EndHasForked, AcceptBlock, BeginSearch, Accepted
  <2>3. ASSUME NEW k \in 1..Len(Accepted)
        PROVE  \/ \E j \in 1..Len(indexed) : Accepted[k] = indexed[j]
               \/ fetched # NoBlock /\ Accepted[k] = fetched
    <3>1. CASE k \in 1..Len(indexed)
      BY <3>1, AcceptedIndex
    <3>2. CASE ~(k \in 1..Len(indexed))
      <4>1. fetched # NoBlock
        BY <3>2, AcceptedIndex
      <4>2. Len(Accepted) = Len(indexed) + 1 /\ Accepted[Len(indexed) + 1] = fetched
        BY <4>1, AcceptedIndex
      <4>3. k = Len(indexed) + 1
        BY <1>0, <2>3, <3>2, <4>2
      <4>. QED BY <4>1, <4>2, <4>3
    <3>. QED BY <3>1, <3>2
  <2>. QED BY <2>1, <2>2, <2>3, KnownOfSeen
<1>6. CASE Rewind
  <2>1. /\ UNCHANGED <<chain, branch>> /\ fetched' = NoBlock
        /\ indexed' = HeadersBelow(indexed, Height(checking) + 1)
    BY <1>6 DEF Rewind, chainVars
  <2>2. Height(checking) \in Nat
    BY <1>6, PathHeight DEF Rewind, Shape, WalkOK
  <2>3. \A k \in 1..Len(indexed') : k \in 1..Len(indexed) /\ indexed'[k] = indexed[k]
    BY <2>1, <2>2, IndexBelow
  <2>. QED BY <2>1, <2>3, KnownOfSeen
<1>7. CASE \/ ChainFinalizes \/ RegisterFinalized \/ SearchStep \/ NoMatch \/ Restart
           \/ UNCHANGED vars
  <2>1. UNCHANGED <<chain, branch, indexed>> /\ (fetched' = fetched \/ fetched' = NoBlock)
    BY <1>7 DEF ChainFinalizes, RegisterFinalized, SearchStep, NoMatch, Restart, vars, chainVars, indexVars
  <2>. QED BY <2>1, KnownOfSeen
<1>. QED BY <1>2, <1>3, <1>4, <1>5, <1>6, <1>7 DEF Next

-----------------------------------------------------------------------------
(* What holds as long as no reorganisation hit an unguarded moment.        *)

OnIt(p) == On(chain, p)
NewestCached == unfinalized[Len(unfinalized)]

OneBranch == \A k \in 1..Len(indexed) : \A j \in 1..k : indexed[j] = AncestorAt(indexed[k], j)

(* Without a header to compare the next block with, the index is clean.    *)
CleanBase ==
  Len(unfinalized) = 0 \/ Pending => \A k \in 1..Len(indexed) : OnIt(indexed[k])

(* What is finalized without having been compared is on the chain.         *)
FinalizedOn ==
  /\ Len(unfinalized) > 0 /\ Height(NewestCached) < finalized => OnIt(NewestCached)
  /\ fetched # NoBlock /\ Height(fetched) <= finalized => OnIt(fetched)

FetchedOn ==
  /\ Len(unfinalized) = 0 /\ fetched # NoBlock => OnIt(ParentOf(fetched))
  /\ pc = "idle" /\ fetched # NoBlock /\ ~Links(fetched) => OnIt(fetched)

(* The search walks down the chain, and what it has passed is orphaned.    *)
SearchOn ==
  pc = "search" => /\ OnIt(checking)
                   /\ \A k \in 1..Len(indexed) : k >= Height(checking) => ~OnIt(indexed[k])

RewindTo ==
  pc = "rewind" =>
    /\ \A k \in 1..Len(indexed) : k <= Height(checking) => OnIt(indexed[k])
    /\ poiEnabled \/ rest # <<>> =>
         \A k \in 1..Len(indexed) : k > Height(checking) => ~OnIt(indexed[k])

Safe == OneBranch /\ CleanBase /\ FinalizedOn /\ FetchedOn /\ SearchOn /\ RewindTo
Guarded == ~exposed => Safe

(* Without proof of index the search that found no header takes the block  *)
(* blockForkReindex below the fork, so the fork must not be deeper.        *)
WindowReachesFork ==
  pc = "search" /\ rest = <<>> /\ ~poiEnabled /\ ~exposed =>
    \A k \in DOMAIN indexed : k <= Height(forked) - BlockForkReindex => OnChain(indexed[k])

LEMMA PendingIsAhead ==
  ASSUME Shape, Pending
  PROVE  /\ fetched \in Paths /\ pc # "idle" /\ Len(unfinalized) = 1
         /\ NewestCached = fetched
<1>1. unfinalized = <<fetched>> /\ fetched # NoBlock
  BY DEF Pending
<1>2. fetched \in Paths /\ Height(fetched) = Len(indexed) + 1 /\ Len(indexed) \in Nat
  BY <1>1, BlocksOfShape
<1>3. Len(unfinalized) = 1 /\ NewestCached = fetched
  BY <1>1, <1>2 DEF NewestCached
<1>4. ~IndexTop
  BY <1>2, <1>3 DEF IndexTop, NewestCached
<1>5. pc # "idle"
  BY <1>3, <1>4 DEF Shape, CacheOK
<1>. QED BY <1>2, <1>3, <1>5

(* The newest cached header is that of the last block of the index.        *)
LEMMA NewestIsIndexed ==
  ASSUME Shape, Len(unfinalized) > 0, ~Pending
  PROVE  /\ Len(indexed) \in 1..Len(indexed) /\ NewestCached = indexed[Len(indexed)]
         /\ NewestCached \in Paths /\ Height(NewestCached) = Len(indexed)
         /\ Last(unfinalized) = NewestCached
<1>1. IndexTop
  BY DEF Shape, CacheOK
<1>2. Len(unfinalized) \in 1..Len(unfinalized) /\ Last(unfinalized) = NewestCached
      /\ Last(unfinalized) \in Paths
  BY TopOfCache DEF NewestCached
<1>3. Height(NewestCached) = Len(indexed) /\ Height(NewestCached) \in 1..Len(indexed)
      /\ NewestCached = indexed[Height(NewestCached)]
  BY <1>1, <1>2 DEF IndexTop, InIndex, NewestCached
<1>. QED BY <1>2, <1>3

LEMMA SafeInit == Init => Safe
<1>. SUFFICES ASSUME Init PROVE Safe
  OBVIOUS
<1>1. indexed = <<>> /\ unfinalized = <<>> /\ fetched = NoBlock /\ pc = "idle"
  BY DEF Init
<1>2. Len(indexed) = 0 /\ Len(unfinalized) = 0
  BY <1>1, EmptySeq
<1>. QED BY <1>1, <1>2 DEF Safe, OneBranch, CleanBase, FinalizedOn, FetchedOn, SearchOn, RewindTo

(* A step of the chain keeps the claims when it keeps what is on it: no    *)
(* block it knows comes back, and none that matters is lost.               *)
LEMMA SafeGrows ==
  ASSUME Shape, KnownOK, Safe, ChainGrows
  PROVE  Safe'
<1>0. /\ Len(indexed) \in Nat
      /\ \A k \in 1..Len(indexed) : indexed[k] \in Paths
      /\ fetched # NoBlock => fetched \in Paths /\ ParentOf(fetched) \in Paths
  BY BlocksOfShape
<1>1. UNCHANGED <<poiEnabled, finalized, indexed, unfinalized, fetched, pc, checking, rest>>
  BY DEF ChainGrows, indexVars, walkVars
<1>2. \A p \in Paths : OnIt(p) => OnIt(p)'
  BY OnAfterGrowth DEF OnIt
<1>3. \A k \in 1..Len(indexed) : OnIt(indexed[k])' => OnIt(indexed[k])
  <2>. SUFFICES ASSUME NEW k \in 1..Len(indexed), On(chain', indexed[k])
                PROVE  On(chain, indexed[k])
    BY <1>1 DEF OnIt
  <2>1. NeverAhead(indexed[k])
    BY DEF KnownOK, Seen
  <2>. QED BY <1>0, <2>1, OnAfterGrowth
<1>4. pc = "search" => checking \in Paths
  BY DEF Shape, WalkOK
<1>5. Len(unfinalized) > 0 => NewestCached \in Paths
  BY TopOfCache DEF NewestCached
<1>6. OneBranch'
  BY <1>1 DEF Safe, OneBranch
<1>7. CleanBase'
  BY <1>0, <1>1, <1>2 DEF Safe, CleanBase, Pending
<1>8. FinalizedOn'
  BY <1>0, <1>1, <1>2, <1>5 DEF Safe, FinalizedOn, NewestCached
<1>9. FetchedOn'
  BY <1>0, <1>1, <1>2 DEF Safe, FetchedOn, Links
<1>10. SearchOn'
  BY <1>1, <1>2, <1>3, <1>4 DEF Safe, SearchOn
<1>11. RewindTo'
  BY <1>0, <1>1, <1>2, <1>3 DEF Safe, RewindTo
<1>. QED BY <1>6, <1>7, <1>8, <1>9, <1>10, <1>11 DEF Safe

LEMMA SafeReorganises ==
  ASSUME Shape, Safe, ChainReorganises, ~exposed'
  PROVE  Safe'
<1>0. /\ Len(indexed) \in Nat /\ finalized \in Nat
      /\ \A k \in 1..Len(indexed) : k \in Nat /\ indexed[k] \in Paths /\ Height(indexed[k]) = k
      /\ fetched # NoBlock => /\ fetched \in Paths /\ ParentOf(fetched) \in Paths
                              /\ Height(fetched) = Len(indexed) + 1
                              /\ Height(ParentOf(fetched)) = Len(indexed)
  BY BlocksOfShape
<1>1. UNCHANGED <<poiEnabled, finalized, indexed, unfinalized, fetched, pc, checking, rest>>
  BY DEF ChainReorganises, indexVars, walkVars
<1>2. ~Unguarded
  BY DEF ChainReorganises
<1>3. /\ pc # "search" /\ pc # "rewind"
      /\ fetched # NoBlock => Links(fetched)
      /\ unfinalized = <<>> => ~(Len(indexed) > finalized)
  BY <1>2 DEF Unguarded
<1>4. \A p \in Paths : Height(p) <= finalized => (OnIt(p) => OnIt(p)')
  BY OnAfterReorganisation DEF OnIt
<1>5. Len(unfinalized) > 0 => NewestCached \in Paths /\ Height(NewestCached) \in Nat
  BY TopOfCache, PathHeight DEF NewestCached
<1>6. unfinalized = <<>> <=> Len(unfinalized) = 0
  BY TopOfCache
<1>7. OneBranch'
  BY <1>1 DEF Safe, OneBranch
<1>8. CleanBase'
  <2>1. ASSUME Len(unfinalized) = 0 \/ Pending PROVE Len(indexed) <= finalized
    <3>1. CASE Len(unfinalized) = 0
      BY <1>0, <1>3, <1>6, <3>1
    <3>2. CASE Pending
      <4>1. fetched # NoBlock /\ Links(fetched)
        BY <1>3, <3>2 DEF Pending
      <4>2. Len(unfinalized) = 1 /\ NewestCached = fetched
        BY <3>2, PendingIsAhead
      <4>3. Last(unfinalized) = fetched
        BY <4>2, TopOfCache DEF NewestCached
      <4>4. Height(fetched) <= finalized
        BY <1>0, <1>6, <4>1, <4>2, <4>3 DEF Links
      <4>. QED BY <1>0, <4>1, <4>4
    <3>. QED BY <2>1, <3>1, <3>2
  <2>2. ASSUME Len(unfinalized) = 0 \/ Pending, NEW k \in 1..Len(indexed)
        PROVE  OnIt(indexed[k])'
    <3>1. Height(indexed[k]) <= finalized
      BY <1>0, <2>1, <2>2
    <3>2. OnIt(indexed[k])
      BY <2>2 DEF Safe, CleanBase
    <3>. QED BY <1>0, <1>1, <1>4, <3>1, <3>2 DEF OnIt
  <2>. QED BY <1>1, <2>2 DEF CleanBase, Pending
<1>9. FinalizedOn'
  BY <1>0, <1>1, <1>4, <1>5 DEF Safe, FinalizedOn, NewestCached
<1>10. FetchedOn'
  <2>1. ASSUME Len(unfinalized) = 0, fetched # NoBlock PROVE OnIt(ParentOf(fetched))'
    <3>1. Height(ParentOf(fetched)) <= finalized
      BY <1>0, <1>3, <1>6, <2>1
    <3>2. OnIt(ParentOf(fetched))
      BY <2>1 DEF Safe, FetchedOn
    <3>. QED BY <1>0, <1>1, <1>4, <2>1, <3>1, <3>2 DEF OnIt
  <2>2. fetched # NoBlock => Links(fetched)'
    BY <1>1, <1>3 DEF Links
  <2>. QED BY <1>1, <2>1, <2>2 DEF FetchedOn
<1>. QED BY <1>1, <1>3, <1>7, <1>8, <1>9, <1>10 DEF Safe, SearchOn, RewindTo

LEMMA SafeFinality ==
  ASSUME Shape, Safe, ChainFinalizes \/ RegisterFinalized, ~exposed'
  PROVE  Safe'
<1>0. /\ finalized \in Nat /\ chainFinal \in Nat /\ chain \in Paths
      /\ fetched # NoBlock => fetched \in Paths /\ Height(fetched) \in Nat
  BY BlocksOfShape, PathHeight
<1>1. UNCHANGED <<poiEnabled, chain, indexed, unfinalized, fetched, pc, checking, rest>>
  BY DEF ChainFinalizes, RegisterFinalized, indexVars, walkVars, chainVars
<1>2. OneBranch' /\ CleanBase' /\ SearchOn' /\ RewindTo'
  BY <1>1 DEF Safe, OneBranch, CleanBase, SearchOn, RewindTo, OnIt, Pending
<1>3. CASE ChainFinalizes
  <2>1. finalized' = finalized
    BY <1>3 DEF ChainFinalizes
  <2>. QED BY <1>1, <1>2, <2>1 DEF Safe, FinalizedOn, FetchedOn, OnIt, NewestCached, Links
<1>4. CASE RegisterFinalized
  <2>1. /\ chainFinal > finalized /\ finalized' = chainFinal
        /\ ~Overtaken(fetched, chainFinal)
        /\ unfinalized # <<>> => ~Overtaken(Last(unfinalized), chainFinal - 1)
    BY <1>4 DEF RegisterFinalized
  <2>2. ASSUME Len(unfinalized) > 0, Height(NewestCached) < chainFinal PROVE OnIt(NewestCached)
    <3>1. /\ unfinalized # <<>> /\ Last(unfinalized) = NewestCached /\ NewestCached \in Paths
      BY <2>2, TopOfCache DEF NewestCached
    <3>2. Height(NewestCached) \in Nat /\ NewestCached # NoBlock
      BY <3>1, PathHeight
    <3>3. Height(NewestCached) <= chainFinal - 1
      BY <1>0, <2>2, <3>2
    <3>4. OnChain(NewestCached)
      BY <2>1, <3>1, <3>2, <3>3 DEF Overtaken
    <3>. QED BY <3>1, <3>4, OnChainOn DEF OnIt
  <2>3. ASSUME fetched # NoBlock, Height(fetched) <= chainFinal PROVE OnIt(fetched)
    <3>1. OnChain(fetched)
      BY <2>1, <2>3 DEF Overtaken
    <3>. QED BY <1>0, <2>3, <3>1, OnChainOn DEF OnIt
  <2>4. FinalizedOn'
    BY <1>1, <2>1, <2>2, <2>3 DEF FinalizedOn, NewestCached, OnIt
  <2>5. fetched # NoBlock /\ Links(fetched) => Links(fetched)'
    BY <1>0, <1>1, <2>1 DEF Links
  <2>6. FetchedOn'
    BY <1>1, <2>5 DEF Safe, FetchedOn, OnIt
  <2>. QED BY <1>2, <2>4, <2>6 DEF Safe
<1>. QED BY <1>3, <1>4

LEMMA SafeFetch ==
  ASSUME Shape, Safe, FetchBlock
  PROVE  Safe'
<1>0. /\ Len(indexed) \in Nat /\ chain \in Paths
  BY BlocksOfShape
<1>1. /\ pc = "idle" /\ Len(indexed) + 1 \in 0..Height(chain)
      /\ fetched' = AncestorAt(chain, Len(indexed) + 1)
      /\ UNCHANGED <<poiEnabled, chain, finalized, indexed, unfinalized, pc>>
  BY DEF FetchBlock, HasHeight, HeaderForHeight, Height, chainVars
<1>2. PICK k \in 0..Height(chain) : k = Len(indexed) + 1
  BY <1>1
<1>3. PICK p : p = AncestorAt(chain, k)
  OBVIOUS
<1>4. p \in Paths /\ Height(p) = k /\ On(chain, p)
  BY <1>0, <1>3, AncestorProperties, OnSelf
<1>5. On(chain, ParentOf(p))
  <2>1. k - 1 \in 0..k
    BY <1>0, <1>2
  <2>. QED BY <1>0, <1>4, <2>1, ParentIsAncestor, OnAncestor
<1>6. fetched' = p
  BY <1>1, <1>2, <1>3
<1>7. OneBranch'
  BY <1>1 DEF Safe, OneBranch
<1>8. CleanBase'
  <2>1. ~(unfinalized = <<p>>)
    <3>. SUFFICES ASSUME unfinalized = <<p>> PROVE FALSE
      OBVIOUS
    <3>1. Len(unfinalized) = 1 /\ unfinalized[1] = p
      BY <1>4
    <3>2. IndexTop
      BY <1>1, <3>1 DEF Shape, CacheOK
    <3>. QED BY <1>0, <1>2, <1>4, <3>1, <3>2 DEF IndexTop
  <2>. QED BY <1>1, <1>6, <2>1 DEF Safe, CleanBase, Pending, OnIt
<1>9. FinalizedOn' /\ FetchedOn'
  BY <1>1, <1>4, <1>5, <1>6 DEF Safe, FinalizedOn, FetchedOn, OnIt, NewestCached
<1>. QED BY <1>1, <1>7, <1>8, <1>9 DEF Safe, SearchOn, RewindTo

-----------------------------------------------------------------------------
(* A block of one branch on the chain brings those below it.               *)
LEMMA BranchOn ==
  ASSUME Shape, OneBranch, NEW k \in 1..Len(indexed), OnIt(indexed[k]), NEW j \in 1..k
  PROVE  OnIt(indexed[j])
<1>1. /\ chain \in Paths /\ indexed[k] \in Paths /\ Height(indexed[k]) = k
      /\ Len(indexed) \in Nat
  BY BlocksOfShape
<1>2. indexed[j] = AncestorAt(indexed[k], j) /\ j \in 0..k
  BY <1>1 DEF OneBranch
<1>. QED BY <1>1, <1>2, OnAncestor DEF OnIt

(* An index that is on the chain is the branch of any higher block on it.  *)
LEMMA OneChain ==
  ASSUME Shape, NEW q \in Paths, OnIt(q), NEW k \in 1..Len(indexed), k <= Height(q),
         OnIt(indexed[k])
  PROVE  indexed[k] = AncestorAt(q, k)
<1>1. /\ chain \in Paths /\ indexed[k] \in Paths /\ Height(indexed[k]) = k
      /\ Len(indexed) \in Nat /\ Height(q) \in Nat
  BY BlocksOfShape, PathHeight
<1>2. k \in 0..Height(q)
  BY <1>1
<1>3. On(chain, AncestorAt(q, k)) /\ Height(AncestorAt(q, k)) = k
  BY <1>1, <1>2, OnAncestor, AncestorProperties DEF OnIt
<1>. QED BY <1>1, <1>3, OnUnique DEF OnIt

(* The fetched block continues the branch of the index.                    *)
Fits ==
  fetched # NoBlock => \A j \in 1..Len(indexed) : indexed[j] = AncestorAt(fetched, j)

LEMMA SafeAccept ==
  ASSUME Shape, Safe, NEW cached, AcceptBlock(cached), Chained(cached),
         UNCHANGED <<chain, finalized, poiEnabled>>, Fits,
         Len(cached) = 0 \/ Height(cached[Len(cached)]) <= finalized
           => \A k \in 1..Len(Accepted) : OnIt(Accepted[k])
  PROVE  Safe'
<1>0. /\ Len(indexed) \in Nat /\ finalized \in Nat
      /\ \A k \in 1..Len(indexed) : indexed[k] \in Paths /\ Height(indexed[k]) = k
      /\ fetched # NoBlock => fetched \in Paths /\ Height(fetched) = Len(indexed) + 1
  BY BlocksOfShape
<1>1. /\ unfinalized' = HeadersAbove(cached, finalized) /\ indexed' = Accepted
      /\ fetched' = NoBlock /\ pc' = "idle"
  BY DEF AcceptBlock, Accepted
<1>2. PICK v : v = unfinalized'
  OBVIOUS
<1>3. /\ Len(v) > 0 => Height(v[Len(v)]) > finalized
      /\ Len(v) = 0 /\ Len(cached) > 0 => Height(cached[Len(cached)]) <= finalized
      /\ Chained(v)
  BY <1>0, <1>1, <1>2, AboveChained
<1>4. ASSUME NEW k \in 1..Len(Accepted), NEW j \in 1..k
      PROVE  Accepted[j] = AncestorAt(Accepted[k], j)
  <2>1. CASE k \in 1..Len(indexed)
    <3>1. j \in 1..Len(indexed)
      BY <1>0, <2>1
    <3>2. Accepted[j] = indexed[j] /\ Accepted[k] = indexed[k]
      BY <2>1, <3>1, AcceptedIndex
    <3>. QED BY <2>1, <3>2 DEF Safe, OneBranch
  <2>2. CASE ~(k \in 1..Len(indexed))
    <3>1. fetched # NoBlock
      BY <2>2, AcceptedIndex
    <3>2. Len(Accepted) = Len(indexed) + 1 /\ Accepted[Len(indexed) + 1] = fetched
      BY <3>1, AcceptedIndex
    <3>3. k = Len(indexed) + 1
      BY <1>0, <2>2, <3>2
    <3>4. CASE j \in 1..Len(indexed)
      BY <3>1, <3>2, <3>3, <3>4, AcceptedIndex DEF Fits
    <3>5. CASE ~(j \in 1..Len(indexed))
      <4>1. j = Len(indexed) + 1
        BY <1>0, <3>3, <3>5
      <4>. QED BY <1>0, <3>1, <3>2, <3>3, <4>1, AncestorSelf
    <3>. QED BY <3>4, <3>5
  <2>. QED BY <2>1, <2>2
<1>5. OneBranch'
  BY <1>1, <1>4 DEF OneBranch
<1>6. CleanBase'
  <2>1. ASSUME Len(v) = 0 PROVE \A k \in 1..Len(Accepted) : OnIt(Accepted[k])
    <3>1. Len(cached) \in Nat
      BY LenProperties DEF Chained
    <3>2. Len(cached) = 0 \/ Len(cached) > 0
      BY <3>1
    <3>. QED BY <1>3, <2>1, <3>2
  <2>. QED BY <1>1, <1>2, <2>1 DEF CleanBase, Pending, OnIt
<1>7. FinalizedOn'
  <2>1. Len(v) > 0 => ~(Height(v[Len(v)]) < finalized)
    <3>1. ASSUME Len(v) > 0 PROVE ~(Height(v[Len(v)]) < finalized)
      <4>1. v[Len(v)] \in Paths
        <5>1. v \in Seq(Paths) /\ Len(v) \in Nat
          BY <1>3, LenProperties DEF Chained
        <5>2. Len(v) \in 1..Len(v)
          BY <3>1, <5>1
        <5>. QED BY <5>1, <5>2, ElementOfSeq
      <4>2. Height(v[Len(v)]) \in Nat
        BY <4>1, PathHeight
      <4>. QED BY <1>0, <1>3, <3>1, <4>2
    <3>. QED BY <3>1
  <2>. QED BY <1>1, <1>2, <2>1 DEF FinalizedOn, NewestCached
<1>. QED BY <1>1, <1>5, <1>6, <1>7 DEF Safe, FetchedOn, SearchOn, RewindTo

LEMMA SafeBeginSearch ==
  ASSUME Shape, Safe, NEW header \in Paths, BeginSearch(header, unfinalized),
         UNCHANGED <<chain, finalized, poiEnabled>>, OnIt(header),
         \A k \in 1..Len(indexed) : k >= Height(header) => ~OnIt(indexed[k])
  PROVE  Safe'
<1>1. /\ checking' = header /\ pc' = "search"
      /\ UNCHANGED <<indexed, unfinalized, fetched>>
  BY DEF BeginSearch
<1>2. OneBranch' /\ CleanBase' /\ FinalizedOn'
  BY <1>1 DEF Safe, OneBranch, CleanBase, FinalizedOn, OnIt, NewestCached, Pending
<1>3. FetchedOn' /\ SearchOn' /\ RewindTo'
  BY <1>1 DEF Safe, FetchedOn, SearchOn, RewindTo, OnIt
<1>. QED BY <1>2, <1>3 DEF Safe

(* A block that links is one whose branch is the index.                    *)
LEMMA LinkedFits ==
  ASSUME Shape, Safe, pc = "idle", fetched # NoBlock, Links(fetched)
  PROVE  /\ Fits
         /\ Height(fetched) <= finalized => \A k \in 1..Len(Accepted) : OnIt(Accepted[k])
<1>0. /\ Len(indexed) \in Nat /\ finalized \in Nat /\ chain \in Paths
      /\ \A k \in 1..Len(indexed) : k \in Nat /\ indexed[k] \in Paths /\ Height(indexed[k]) = k
      /\ fetched \in Paths /\ Height(fetched) = Len(indexed) + 1
      /\ ParentOf(fetched) = AncestorAt(fetched, Len(indexed))
      /\ ParentOf(fetched) \in Paths /\ Height(ParentOf(fetched)) = Len(indexed)
  BY BlocksOfShape
<1>1. ~Pending
  BY PendingIsAhead
<1>2. \A j \in 1..Len(indexed) : /\ j \in 0..Len(indexed) /\ Len(indexed) \in 0..Height(fetched)
                                 /\ j <= Height(ParentOf(fetched)) /\ j <= Height(fetched)
  BY <1>0
<1>3. \A j \in 1..Len(indexed) : AncestorAt(ParentOf(fetched), j) = AncestorAt(fetched, j)
  BY <1>0, <1>2, AncestorOfAncestor
<1>4. ASSUME Len(unfinalized) = 0 PROVE Fits
  <2>1. OnIt(ParentOf(fetched)) /\ \A k \in 1..Len(indexed) : OnIt(indexed[k])
    BY <1>4 DEF Safe, FetchedOn, CleanBase
  <2>2. \A j \in 1..Len(indexed) : indexed[j] = AncestorAt(ParentOf(fetched), j)
    BY <1>0, <1>2, <2>1, OneChain
  <2>. QED BY <1>3, <2>2 DEF Fits
<1>5. ASSUME Len(unfinalized) > 0 PROVE Fits
  <2>1. /\ Len(indexed) \in 1..Len(indexed) /\ NewestCached = indexed[Len(indexed)]
        /\ Height(NewestCached) = Len(indexed) /\ Last(unfinalized) = NewestCached
    BY <1>1, <1>5, NewestIsIndexed
  <2>2. unfinalized # <<>>
    BY <1>5, TopOfCache
  <2>3. CASE Height(fetched) <= finalized
    <3>1. OnIt(fetched)
      BY <2>3 DEF Safe, FinalizedOn
    <3>2. Height(NewestCached) < finalized
      BY <1>0, <2>1, <2>3
    <3>3. OnIt(indexed[Len(indexed)])
      BY <1>5, <2>1, <3>2 DEF Safe, FinalizedOn
    <3>4. \A k \in 1..Len(indexed) : OnIt(indexed[k])
      BY <2>1, <3>3, BranchOn DEF Safe
    <3>5. \A j \in 1..Len(indexed) : indexed[j] = AncestorAt(fetched, j)
      BY <1>0, <1>2, <3>1, <3>4, OneChain
    <3>. QED BY <3>5 DEF Fits
  <2>4. CASE ~(Height(fetched) <= finalized)
    <3>1. ParentOf(fetched) = indexed[Len(indexed)]
      BY <2>1, <2>2, <2>4 DEF Links
    <3>2. \A j \in 1..Len(indexed) : indexed[j] = AncestorAt(ParentOf(fetched), j)
      BY <2>1, <3>1 DEF Safe, OneBranch
    <3>. QED BY <1>3, <3>2 DEF Fits
  <2>. QED BY <2>3, <2>4
<1>6. Fits
  BY <1>4, <1>5, TopOfCache
<1>7. ASSUME Height(fetched) <= finalized, NEW k \in 1..Len(Accepted)
      PROVE  OnIt(Accepted[k])
  <2>1. OnIt(fetched)
    BY <1>7 DEF Safe, FinalizedOn
  <2>2. CASE k \in 1..Len(indexed)
    <3>1. Accepted[k] = AncestorAt(fetched, k)
      BY <1>6, <2>2, AcceptedIndex DEF Fits
    <3>2. k \in 0..Height(fetched)
      BY <1>0, <2>2
    <3>. QED BY <1>0, <2>1, <3>1, <3>2, OnAncestor DEF OnIt
  <2>3. CASE ~(k \in 1..Len(indexed))
    <3>1. Len(Accepted) = Len(indexed) + 1 /\ Accepted[Len(indexed) + 1] = fetched
      BY AcceptedIndex
    <3>2. k = Len(indexed) + 1
      BY <1>0, <1>7, <2>3, <3>1
    <3>. QED BY <2>1, <3>1, <3>2
  <2>. QED BY <2>2, <2>3
<1>. QED BY <1>6, <1>7

LEMMA SafeProcess ==
  ASSUME Shape, Safe, ProcessBlock
  PROVE  Safe'
<1>1. pc = "idle" /\ fetched # NoBlock /\ UNCHANGED <<chain, finalized, poiEnabled>>
  BY DEF ProcessBlock, chainVars
<1>2. /\ fetched \in Paths /\ Height(fetched) = Len(indexed) + 1 /\ Len(indexed) \in Nat
      /\ finalized \in Nat
  BY <1>1, BlocksOfShape
<1>3. CASE ~Links(fetched)
  <2>1. BeginSearch(fetched, unfinalized)
    BY <1>3 DEF ProcessBlock
  <2>2. OnIt(fetched)
    BY <1>1, <1>3 DEF Safe, FetchedOn
  <2>3. \A k \in 1..Len(indexed) : ~(k >= Height(fetched))
    BY <1>2
  <2>. QED BY <1>1, <1>2, <2>1, <2>2, <2>3, SafeBeginSearch
<1>4. CASE Links(fetched) /\ startupCheck /\ Registered # <<>>
  <2>1. /\ pc' = "checkLast" /\ unfinalized' = Registered /\ UNCHANGED <<indexed, fetched>>
    BY <1>4 DEF ProcessBlock, Registered
  <2>2. Len(unfinalized) = 0
    BY <1>4 DEF Shape, CacheOK
  <2>3. Chained(Registered)
    BY <1>1, <1>4, RegisteredLinks
  <2>4. Len(Registered) > 0
    BY <1>4, <2>3, EmptySeq, LenProperties DEF Chained
  <2>5. Registered = <<fetched>>
    BY <1>1, <1>4, <2>2, <2>4, RegisteredLinks
  <2>6. Height(fetched) > finalized
    <3>1. unfinalized # Registered
      BY <2>2, <2>4
    <3>. QED BY <1>2, <3>1 DEF Registered
  <2>7. Len(<<fetched>>) = 1 /\ <<fetched>>[1] = fetched
    BY <1>2
  <2>8. OneBranch' /\ CleanBase'
    BY <1>1, <2>1, <2>2 DEF Safe, OneBranch, CleanBase, OnIt
  <2>9. FinalizedOn'
    BY <1>1, <1>2, <2>1, <2>5, <2>6, <2>7 DEF Safe, FinalizedOn, NewestCached, OnIt
  <2>. QED BY <2>1, <2>5, <2>7, <2>8, <2>9 DEF Safe, FetchedOn, SearchOn, RewindTo
<1>5. CASE Links(fetched) /\ ~(startupCheck /\ Registered # <<>>)
  <2>1. EndHasForked(Registered)
    BY <1>5 DEF ProcessBlock, Registered
  <2>2. Chained(Registered)
    BY <1>1, <1>5, RegisteredLinks
  <2>3. AcceptBlock(Registered)
    BY <2>1, <2>2, LinksNeverBroken DEF EndHasForked
  <2>4. ASSUME Len(Registered) = 0 \/ Height(Registered[Len(Registered)]) <= finalized
        PROVE  Height(fetched) <= finalized
    <3>. SUFFICES ASSUME ~(Height(fetched) <= finalized) PROVE FALSE
      OBVIOUS
    <3>1. Registered = Append(unfinalized, fetched)
      BY DEF Registered
    <3>2. /\ Len(Registered) = Len(unfinalized) + 1 /\ Len(unfinalized) \in Nat
          /\ Registered[Len(unfinalized) + 1] = fetched
      BY <1>2, <3>1, TopOfCache, AppendProperties
    <3>. QED BY <1>2, <2>4, <3>2
  <2>. QED BY <1>1, <1>5, <2>2, <2>3, <2>4, LinkedFits, SafeAccept
<1>. QED BY <1>3, <1>4, <1>5

LEMMA SafeCheckLast ==
  ASSUME Shape, Safe, CheckLast
  PROVE  Safe'
<1>. DEFINE last == Last(unfinalized)
<1>0. /\ Len(indexed) \in Nat /\ finalized \in Nat /\ chain \in Paths /\ Height(chain) \in Nat
      /\ \A k \in 1..Len(indexed) : k \in Nat /\ indexed[k] \in Paths /\ Height(indexed[k]) = k
  BY BlocksOfShape
<1>1. /\ pc = "checkLast" /\ UNCHANGED <<chain, finalized, poiEnabled>>
      /\ Height(last) \in 0..Height(chain)
      /\ IF AncestorAt(chain, Height(last)) # last
         THEN BeginSearch(AncestorAt(chain, Height(last)), unfinalized)
         ELSE EndHasForked(unfinalized)
  BY DEF CheckLast, chainVars, HasHeight, HeaderForHeight, Height
<1>2. Len(unfinalized) > 0 /\ Chained(unfinalized) /\ (fetched = NoBlock \/ Pending)
  BY <1>1 DEF Shape, CacheOK
<1>3. last = NewestCached /\ last \in Paths
  BY <1>2, TopOfCache DEF NewestCached
<1>4. PICK header : header = AncestorAt(chain, Height(last))
  OBVIOUS
<1>5. header \in Paths /\ Height(header) = Height(last) /\ OnIt(header)
  BY <1>0, <1>1, <1>4, AncestorProperties, OnSelf DEF OnIt
<1>6. Pending => /\ fetched \in Paths /\ fetched # NoBlock /\ last = fetched
                 /\ Height(fetched) = Len(indexed) + 1
  BY <1>3, PendingIsAhead, BlocksOfShape DEF Pending
<1>7. ~Pending => /\ last = indexed[Len(indexed)] /\ Len(indexed) \in 1..Len(indexed)
                  /\ Height(last) = Len(indexed)
  BY <1>2, <1>3, NewestIsIndexed
<1>. HIDE DEF last
<1>8. CASE header # last
  <2>1. BeginSearch(header, unfinalized)
    BY <1>1, <1>4, <1>8
  <2>2. ASSUME NEW k \in 1..Len(indexed), k >= Height(header), OnIt(indexed[k])
        PROVE  FALSE
    <3>1. ~Pending
      BY <1>0, <1>5, <1>6, <2>2
    <3>2. k = Len(indexed)
      BY <1>0, <1>5, <1>7, <2>2, <3>1
    <3>. QED BY <1>5, <1>7, <1>8, <2>2, <3>1, <3>2, OnUnique DEF OnIt
  <2>. QED BY <1>1, <1>5, <2>1, <2>2, SafeBeginSearch
<1>9. CASE header = last
  <2>1. AcceptBlock(unfinalized)
    BY <1>1, <1>2, <1>4, <1>9, LinksNeverBroken DEF EndHasForked
  <2>2. CASE Pending
    <3>1. OnIt(fetched) /\ \A k \in 1..Len(indexed) : OnIt(indexed[k])
      BY <1>5, <1>6, <1>9, <2>2 DEF Safe, CleanBase
    <3>2. \A k \in 1..Len(indexed) : k <= Height(fetched)
      BY <1>0, <1>6, <2>2
    <3>3. Fits
      BY <1>6, <2>2, <3>1, <3>2, OneChain DEF Fits
    <3>4. ASSUME NEW k \in 1..Len(Accepted) PROVE OnIt(Accepted[k])
      <4>1. CASE k \in 1..Len(indexed)
        BY <3>1, <4>1, AcceptedIndex
      <4>2. CASE ~(k \in 1..Len(indexed))
        <5>1. Len(Accepted) = Len(indexed) + 1 /\ Accepted[Len(indexed) + 1] = fetched
          BY <1>6, <2>2, AcceptedIndex
        <5>2. k = Len(indexed) + 1
          BY <1>0, <3>4, <4>2, <5>1
        <5>. QED BY <3>1, <5>1, <5>2
      <4>. QED BY <4>1, <4>2
    <3>. QED BY <1>1, <1>2, <2>1, <3>3, <3>4, SafeAccept
  <2>3. CASE ~Pending
    <3>1. fetched = NoBlock /\ Accepted = indexed
      BY <1>2, <2>3, AcceptedIndex
    <3>2. OnIt(indexed[Len(indexed)])
      BY <1>5, <1>7, <1>9, <2>3
    <3>3. \A k \in 1..Len(indexed) : OnIt(indexed[k])
      BY <1>7, <2>3, <3>2, BranchOn DEF Safe
    <3>4. Fits
      BY <3>1 DEF Fits
    <3>. QED BY <1>1, <1>2, <2>1, <3>1, <3>3, <3>4, SafeAccept
  <2>. QED BY <2>2, <2>3
<1>. QED BY <1>8, <1>9

LEMMA SafeSearchStep ==
  ASSUME Shape, Safe, SearchStep
  PROVE  Safe'
<1>. DEFINE header == rest[1]
            h == Height(header)
<1>0. /\ Len(indexed) \in Nat /\ chain \in Paths
      /\ \A k \in 1..Len(indexed) : k \in Nat /\ indexed[k] \in Paths /\ Height(indexed[k]) = k
  BY BlocksOfShape
<1>1. /\ pc = "search" /\ rest # <<>>
      /\ UNCHANGED <<chain, finalized, poiEnabled, indexed, unfinalized, fetched>>
  BY DEF SearchStep, chainVars, indexVars
<1>2. /\ checking \in Paths /\ Height(checking) \in Nat /\ Height(checking) >= 2
      /\ Head(rest) = header /\ header \in Paths /\ h \in 1..Len(indexed)
      /\ header = indexed[h] /\ h = Height(checking) - 1
  BY <1>1, RestOfSearch
<1>3. OnIt(checking) /\ \A k \in 1..Len(indexed) : k >= Height(checking) => ~OnIt(indexed[k])
  BY <1>1 DEF Safe, SearchOn
<1>4. PICK parent : parent = ParentOf(checking)
  OBVIOUS
<1>5. parent \in Paths /\ Height(parent) = h /\ OnIt(parent)
  <2>1. h \in 0..Height(checking) /\ parent = AncestorAt(checking, h)
    BY <1>2, <1>4, ParentIsAncestor
  <2>. QED BY <1>0, <1>2, <1>3, <2>1, AncestorProperties, OnAncestor DEF OnIt
<1>6. OneBranch' /\ CleanBase' /\ FinalizedOn'
  BY <1>1 DEF Safe, OneBranch, CleanBase, FinalizedOn, OnIt, NewestCached, Pending
<1>. HIDE DEF header, h
<1>7. CASE header = checking \/ header = parent
  <2>1. checking' = header /\ pc' = "rewind"
    BY <1>1, <1>2, <1>4, <1>7 DEF SearchStep
  <2>2. header # checking
    BY <1>2 DEF h
  <2>3. OnIt(header)
    BY <1>5, <1>7, <2>2
  <2>4. \A k \in 1..Len(indexed) : k <= h => OnIt(indexed[k])
    <3>1. ASSUME NEW k \in 1..Len(indexed), k <= h PROVE k \in 1..h
      BY <1>0, <1>2, <3>1
    <3>2. OnIt(indexed[h])
      BY <1>2, <2>3
    <3>. QED BY <1>2, <3>1, <3>2, BranchOn DEF Safe
  <2>5. \A k \in 1..Len(indexed) : k > h => ~OnIt(indexed[k])
    <3>1. \A k \in 1..Len(indexed) : k > h => k >= Height(checking)
      BY <1>0, <1>2
    <3>. QED BY <1>3, <3>1
  <2>6. RewindTo'
    BY <1>1, <2>1, <2>4, <2>5 DEF RewindTo, OnIt, h
  <2>. QED BY <1>1, <1>6, <2>1, <2>6 DEF Safe, FetchedOn, SearchOn, OnIt
<1>8. CASE ~(header = checking \/ header = parent)
  <2>1. pc' = pc
    BY <1>2, <1>4, <1>8 DEF SearchStep
  <2>2. checking' = parent
    <3>1. \/ checking' = parent
          \/ ~OnChain(parent)
      BY <1>2, <1>4, <1>8 DEF SearchStep
    <3>2. OnChain(parent)
      BY <1>5, OnChainOn DEF OnIt
    <3>. QED BY <3>1, <3>2
  <2>3. ASSUME NEW k \in 1..Len(indexed), k >= h PROVE ~OnIt(indexed[k])
    <3>1. CASE k >= Height(checking)
      BY <1>3, <3>1
    <3>2. CASE ~(k >= Height(checking))
      <4>1. k = h
        BY <1>0, <1>2, <2>3, <3>2
      <4>2. indexed[k] # parent /\ Height(indexed[k]) = Height(parent)
        BY <1>0, <1>2, <1>5, <1>8, <4>1
      <4>. QED BY <1>5, <4>2, OnUnique DEF OnIt
    <3>. QED BY <3>1, <3>2
  <2>4. SearchOn'
    BY <1>1, <1>5, <2>1, <2>2, <2>3 DEF SearchOn, OnIt
  <2>. QED BY <1>1, <1>6, <2>1, <2>4 DEF Safe, FetchedOn, RewindTo, OnIt
<1>. QED BY <1>7, <1>8

LEMMA SafeNoMatch ==
  ASSUME Shape, Safe, NoMatch, ~exposed, WindowReachesFork
  PROVE  Safe'
<1>0. /\ Len(indexed) \in Nat /\ chain \in Paths
      /\ \A k \in 1..Len(indexed) : k \in Nat /\ indexed[k] \in Paths /\ Height(indexed[k]) = k
  BY BlocksOfShape
<1>1. /\ pc = "search" /\ rest = <<>> /\ pc' = "rewind"
      /\ UNCHANGED <<chain, finalized, poiEnabled, indexed, unfinalized, fetched, rest>>
  BY DEF NoMatch, chainVars, indexVars
<1>2. /\ checking \in Paths /\ forked \in Paths
      /\ OnIt(checking) /\ \A k \in 1..Len(indexed) : k >= Height(checking) => ~OnIt(indexed[k])
  BY <1>1 DEF Safe, SearchOn, Shape, WalkOK
<1>3. Height(checking) \in Nat /\ Height(forked) \in Nat /\ BlockForkReindex \in Nat
  BY <1>2, PathHeight, ForkAssumption
<1>4. OneBranch' /\ CleanBase' /\ FinalizedOn'
  BY <1>1 DEF Safe, OneBranch, CleanBase, FinalizedOn, OnIt, NewestCached, Pending
<1>5. CASE poiEnabled
  <2>1. checking' = PoiTarget
    BY <1>5 DEF NoMatch
  <2>2. PICK t \in 0..Height(checking) : t = PoiHeight
    BY <1>2, PoiTargetIs
  <2>3. /\ checking' = AncestorAt(checking, t)
        /\ t > 0 => t \in PoiMatches
        /\ \A j \in PoiMatches : j <= t
    BY <1>2, <2>1, <2>2, PoiTargetIs
  <2>4. Height(checking') = t
    BY <1>2, <2>3, AncestorProperties
  <2>5. ASSUME NEW k \in 1..Len(indexed), k <= t PROVE OnIt(indexed[k])
    <3>1. t > 0
      BY <1>0, <1>3, <2>5
    <3>2. t \in 1..Len(indexed) /\ indexed[t] = AncestorAt(checking, t)
      BY <1>0, <1>3, <2>3, <3>1 DEF PoiMatches
    <3>3. OnIt(indexed[t])
      BY <1>0, <1>2, <3>2, OnAncestor DEF OnIt
    <3>4. k \in 1..t
      BY <1>0, <1>3, <2>5
    <3>. QED BY <3>2, <3>3, <3>4, BranchOn DEF Safe
  <2>6. ASSUME NEW k \in 1..Len(indexed), k > t PROVE ~OnIt(indexed[k])
    <3>1. CASE k >= Height(checking)
      BY <1>2, <3>1
    <3>2. CASE ~(k >= Height(checking))
      <4>1. k \in 1..(Height(checking) - 1) /\ k \in 0..Height(checking) /\ k <= Len(indexed)
            /\ k <= Height(checking)
        BY <1>0, <1>3, <3>2
      <4>2. k \notin PoiMatches
        BY <1>0, <1>3, <2>3, <2>6
      <4>3. indexed[k] # AncestorAt(checking, k)
        BY <4>1, <4>2 DEF PoiMatches
      <4>. QED BY <1>2, <4>1, <4>3, OneChain
    <3>. QED BY <3>1, <3>2
  <2>7. RewindTo'
    BY <1>1, <2>4, <2>5, <2>6 DEF RewindTo, OnIt
  <2>. QED BY <1>1, <1>4, <2>7 DEF Safe, FetchedOn, SearchOn, OnIt
<1>6. CASE ~poiEnabled
  <2>. DEFINE back == Height(forked) - BlockForkReindex
              target == IF back > 0 THEN back ELSE 0
  <2>1. target \in 0..Height(chain) /\ checking' = AncestorAt(chain, target)
    BY <1>6 DEF NoMatch, HasHeight, HeaderForHeight, Height
  <2>2. Height(checking') = target
    BY <1>0, <2>1, AncestorProperties
  <2>3. \A k \in 1..Len(indexed) : k <= back => OnChain(indexed[k])
    BY <1>0, <1>1, <1>6 DEF WindowReachesFork
  <2>4. ASSUME NEW k \in 1..Len(indexed), k <= target PROVE OnIt(indexed[k])
    <3>1. k <= back
      BY <1>0, <1>3, <2>4
    <3>. QED BY <1>0, <2>3, <3>1, OnChainOn DEF OnIt
  <2>. HIDE DEF target
  <2>5. RewindTo'
    BY <1>1, <1>6, <2>2, <2>4 DEF RewindTo, OnIt
  <2>. QED BY <1>1, <1>4, <2>5 DEF Safe, FetchedOn, SearchOn, OnIt
<1>. QED BY <1>5, <1>6

LEMMA SafeRewind ==
  ASSUME Shape, Safe, Rewind
  PROVE  Safe'
<1>0. /\ Len(indexed) \in Nat
      /\ \A k \in 1..Len(indexed) : k \in Nat /\ indexed[k] \in Paths /\ Height(indexed[k]) = k
  BY BlocksOfShape
<1>1. /\ pc = "rewind" /\ pc' = "idle" /\ unfinalized' = <<>> /\ fetched' = NoBlock
      /\ indexed' = HeadersBelow(indexed, Height(checking) + 1)
      /\ UNCHANGED <<chain, finalized, poiEnabled>>
  BY DEF Rewind, chainVars
<1>2. Height(checking) \in Nat
  BY <1>1, PathHeight DEF Shape, WalkOK
<1>3. PICK d : d = indexed'
  OBVIOUS
<1>4. /\ Len(d) \in Nat
      /\ \A i \in 1..Len(d) : i \in 1..Len(indexed) /\ i <= Height(checking) /\ d[i] = indexed[i]
  BY <1>1, <1>2, <1>3, IndexBelow
<1>5. ASSUME NEW k \in 1..Len(d), NEW j \in 1..k PROVE d[j] = AncestorAt(d[k], j)
  <2>1. j \in 1..Len(d)
    BY <1>4
  <2>. QED BY <1>4, <2>1 DEF Safe, OneBranch
<1>6. \A k \in 1..Len(d) : OnIt(d[k])
  BY <1>1, <1>4 DEF Safe, RewindTo
<1>7. OneBranch' /\ CleanBase'
  BY <1>1, <1>3, <1>5, <1>6 DEF OneBranch, CleanBase, OnIt
<1>8. Len(unfinalized') = 0
  BY <1>1, EmptySeq
<1>. QED BY <1>1, <1>7, <1>8 DEF Safe, FinalizedOn, FetchedOn, SearchOn, RewindTo

LEMMA SafeRestart ==
  ASSUME Shape, Safe, Restart
  PROVE  Safe'
<1>1. PICK v : v = HeadersBelow(unfinalized, Len(indexed) + 1)
  OBVIOUS
<1>2. /\ unfinalized' = v /\ fetched' = NoBlock /\ (pc' = "idle" \/ pc' = "checkLast")
      /\ UNCHANGED <<chain, finalized, poiEnabled, indexed>>
  BY <1>1 DEF Restart, chainVars
<1>3. /\ Len(v) > 0 => Len(unfinalized) > 0 /\ v[Len(v)] = NewestCached
      /\ Len(v) = 0 => Len(unfinalized) = 0 \/ Pending
  BY <1>1, SavedHeaders DEF NewestCached
<1>4. OneBranch' /\ CleanBase'
  BY <1>2, <1>3 DEF Safe, OneBranch, CleanBase, Pending, OnIt
<1>5. FinalizedOn'
  BY <1>2, <1>3 DEF Safe, FinalizedOn, NewestCached, OnIt
<1>. QED BY <1>2, <1>4, <1>5 DEF Safe, FetchedOn, SearchOn, RewindTo

LEMMA SafeUnchanged ==
  ASSUME Safe, UNCHANGED vars
  PROVE  Safe'
<1>1. UNCHANGED <<chain, finalized, poiEnabled, indexed, unfinalized, fetched, pc, checking, rest>>
  BY DEF vars, chainVars, indexVars, walkVars
<1>2. OneBranch' /\ CleanBase' /\ FinalizedOn'
  BY <1>1 DEF Safe, OneBranch, CleanBase, FinalizedOn, Pending, NewestCached, OnIt
<1>3. FetchedOn' /\ SearchOn' /\ RewindTo'
  BY <1>1 DEF Safe, FetchedOn, SearchOn, RewindTo, Links, OnIt
<1>. QED BY <1>2, <1>3 DEF Safe

(* What the theorems rest on: the shape, what is known of the chain, and   *)
(* the claims that hold until a reorganisation hits an unguarded moment.   *)
ForkInv == Shape /\ KnownOK /\ Guarded

LEMMA ForkStep == ForkInv /\ WindowReachesFork /\ [Next]_vars => ForkInv'
<1>. SUFFICES ASSUME ForkInv, WindowReachesFork, [Next]_vars PROVE ForkInv'
  OBVIOUS
<1>. Shape /\ KnownOK /\ Guarded
  BY DEF ForkInv
<1>1. Shape' /\ KnownOK'
  BY ShapeStep, KnownStep
<1>2. ASSUME ~exposed' PROVE Safe'
  <2>1. exposed => exposed'
    BY DEF Next, ChainGrows, ChainFinalizes, ChainReorganises, RegisterFinalized, FetchBlock,
           ProcessBlock, CheckLast, SearchStep, NoMatch, Rewind, Restart, vars
  <2>2. ~exposed /\ Safe
    BY <1>2, <2>1 DEF Guarded
  <2>3. CASE ChainGrows
    BY <2>2, <2>3, SafeGrows
  <2>4. CASE ChainReorganises
    BY <1>2, <2>2, <2>4, SafeReorganises
  <2>5. CASE ChainFinalizes \/ RegisterFinalized
    BY <1>2, <2>2, <2>5, SafeFinality
  <2>6. CASE FetchBlock
    BY <2>2, <2>6, SafeFetch
  <2>7. CASE ProcessBlock
    BY <2>2, <2>7, SafeProcess
  <2>8. CASE CheckLast
    BY <2>2, <2>8, SafeCheckLast
  <2>9. CASE SearchStep
    BY <2>2, <2>9, SafeSearchStep
  <2>10. CASE NoMatch
    BY <2>2, <2>10, SafeNoMatch
  <2>11. CASE Rewind
    BY <2>2, <2>11, SafeRewind
  <2>12. CASE Restart
    BY <2>2, <2>12, SafeRestart
  <2>13. CASE UNCHANGED vars
    BY <2>2, <2>13, SafeUnchanged
  <2>. QED BY <2>3, <2>4, <2>5, <2>6, <2>7, <2>8, <2>9, <2>10, <2>11, <2>12, <2>13 DEF Next
<1>. QED BY <1>1, <1>2 DEF ForkInv, Guarded

LEMMA ForkInvariant == Spec /\ []WindowReachesFork => []ForkInv
<1>1. Init => ForkInv
  BY ShapeInit, KnownInit, SafeInit DEF ForkInv, Guarded
<1>2. ForkInv /\ WindowReachesFork /\ [Next]_vars => ForkInv'
  BY ForkStep
<1>. QED BY <1>1, <1>2, PTL DEF Spec

LEMMA ForkInvImplies ==
  ASSUME ForkInv
  PROVE  IndexedIsOneBranch /\ RewindRemovesForkedData /\ RewindKeepsCorrectData
<1>0. /\ Len(indexed) \in Nat /\ DOMAIN indexed = 1..Len(indexed)
      /\ \A k \in 1..Len(indexed) : k \in Nat /\ indexed[k] \in Paths /\ Height(indexed[k]) = k
  BY BlocksOfShape, LenProperties DEF ForkInv, Shape, IndexOK
<1>1. ~exposed => OneBranch /\ RewindTo
  BY DEF ForkInv, Guarded, Safe
<1>2. \A k \in 1..Len(indexed) : OnChain(indexed[k]) <=> OnIt(indexed[k])
  BY <1>0, OnChainOn DEF OnIt
<1>3. IndexedIsOneBranch
  <2>. SUFFICES ASSUME ~exposed, NEW k \in 1..(Len(indexed) - 1)
                PROVE  indexed[k] = ParentOf(indexed[k + 1])
    BY DEF IndexedIsOneBranch
  <2>1. k + 1 \in 1..Len(indexed) /\ k \in 1..(k + 1) /\ (k + 1) - 1 = k
    BY <1>0
  <2>2. indexed[k] = AncestorAt(indexed[k + 1], k)
    BY <1>1, <2>1 DEF OneBranch
  <2>. QED BY <1>0, <2>1, <2>2, ParentIsAncestor
<1>4. RewindRemovesForkedData /\ RewindKeepsCorrectData
  BY <1>0, <1>1, <1>2 DEF RewindRemovesForkedData, RewindKeepsCorrectData, RewindTo
<1>. QED BY <1>3, <1>4

(* However often the chain is reorganised, the index holds one branch      *)
(* unless a reorganisation hit an unguarded moment: the header checks of   *)
(* registerUnfinalizedBlock and hasForked are enough.                      *)
THEOREM IndexIsOneBranch == Spec /\ []WindowReachesFork => []IndexedIsOneBranch
<1>1. ForkInv => IndexedIsOneBranch
  BY ForkInvImplies
<1>. QED BY <1>1, ForkInvariant, PTL

(* The block that getLastCorrectFinalizedBlock returns has no orphan at or *)
(* below it.                                                               *)
THEOREM RewindIsDeepEnough == Spec /\ []WindowReachesFork => []RewindRemovesForkedData
<1>1. ForkInv => RewindRemovesForkedData
  BY ForkInvImplies
<1>. QED BY <1>1, ForkInvariant, PTL

(* And with proof of index, or a cached header on the chain, it is the     *)
(* newest such block: every block dropped is an orphan.                    *)
THEOREM RewindIsNotTooDeep == Spec /\ []WindowReachesFork => []RewindKeepsCorrectData
<1>1. ForkInv => RewindKeepsCorrectData
  BY ForkInvImplies
<1>. QED BY <1>1, ForkInvariant, PTL

(* The window reaches every fork when proof of index is always on, or when *)
(* blockForkReindex is no less than the height of the chain.               *)
LEMMA WindowAlwaysReaches ==
  ASSUME PoiSettings = {TRUE} \/ BlockForkReindex >= MaxHeight
  PROVE  Spec => []WindowReachesFork
<1>1. Shape => WindowReachesFork
  <2>. SUFFICES ASSUME Shape, pc = "search", ~poiEnabled,
                       NEW k \in DOMAIN indexed, k <= Height(forked) - BlockForkReindex
                PROVE  FALSE
    BY DEF WindowReachesFork
  <2>1. PoiSettings # {TRUE}
    <3>. SUFFICES ASSUME PoiSettings = {TRUE} PROVE FALSE
      OBVIOUS
    <3>1. poiEnabled \in PoiSettings
      BY DEF Shape, ChainOK
    <3>2. poiEnabled = TRUE
      BY <3>1
    <3>3. poiEnabled
      BY <3>2, Zenon
    <3>. QED BY <3>3
  <2>2. forked \in Paths
    BY DEF Shape, WalkOK
  <2>3. /\ Height(forked) \in Nat /\ Height(forked) <= MaxHeight /\ MaxHeight \in Nat
        /\ BlockForkReindex \in Nat /\ BlockForkReindex >= MaxHeight
    BY <2>1, <2>2, PathHeight, ForkAssumption
  <2>4. k \in 1..Len(indexed) /\ Len(indexed) \in Nat
    BY LenProperties DEF Shape, IndexOK
  <2>. QED BY <2>3, <2>4
<1>. QED BY <1>1, ShapeInvariant, PTL

(* So in these settings a rewind removes the data of orphaned blocks and   *)
(* nothing else, and the index is one branch.                              *)
THEOREM ForksAreRewound ==
  ASSUME PoiSettings = {TRUE} \/ BlockForkReindex >= MaxHeight
  PROVE  Spec => [](IndexedIsOneBranch /\ RewindRemovesForkedData /\ RewindKeepsCorrectData)
<1>1. Spec => []WindowReachesFork
  BY WindowAlwaysReaches
<1>2. ForkInv => IndexedIsOneBranch /\ RewindRemovesForkedData /\ RewindKeepsCorrectData
  BY ForkInvImplies
<1>. QED BY <1>1, <1>2, ForkInvariant, PTL

-----------------------------------------------------------------------------
(* The promise of ChainIndex, step by step.  What leaves the database and  *)
(* the fetched block alone is a move of the chain or a change of evidence. *)
Known == poiEnabled \/ rest # <<>>

LEMMA Moves ==
  ASSUME Shape', exposed => exposed', exposed \in BOOLEAN, UNCHANGED <<indexed, fetched>>
  PROVE  Index!ChainMoves
<1>1. chain' \in Paths /\ exposed' \in BOOLEAN
  BY DEF Shape, ChainOK
<1>2. exposed' \in {exposed, TRUE}
  <2>1. CASE exposed = TRUE
    BY <1>1, <2>1, Zenon
  <2>2. CASE exposed = FALSE
    BY <1>1, <2>2, Zenon
  <2>. QED BY <2>1, <2>2
<1>. QED BY <1>1, <1>2 DEF Index!ChainMoves

(* A block that is accepted is a child of the newest one.                  *)
LEMMA AcceptedIsChild ==
  ASSUME Shape, Shape', OneBranch', fetched # NoBlock, indexed' = Append(indexed, fetched)
  PROVE  Front(fetched) = Index!Newest
<1>1. /\ indexed \in Seq(Paths) /\ fetched \in Paths
      /\ Height(fetched) = Len(indexed) + 1 /\ Len(indexed) \in Nat
  BY LenProperties DEF Shape, IndexOK, MaybePaths
<1>2. Front(fetched) = AncestorAt(fetched, Len(indexed))
  BY <1>1, ParentIsAncestor DEF ParentOf
<1>3. CASE Len(indexed) = 0
  <2>1. indexed = <<>> /\ Index!Newest = <<>>
    BY <1>1, <1>3, EmptySeq DEF Index!Newest
  <2>2. AncestorAt(fetched, 0) \in Paths /\ Height(AncestorAt(fetched, 0)) = 0
    BY <1>1, AncestorProperties
  <2>3. AncestorAt(fetched, 0) = <<>>
    BY <2>2, PathIsSeq, EmptySeq DEF Height
  <2>. QED BY <1>2, <1>3, <2>1, <2>3
<1>4. CASE Len(indexed) > 0
  <2>1. indexed # <<>> /\ Index!Newest = indexed[Len(indexed)]
    BY <1>1, <1>4, EmptySeq DEF Index!Newest, Index!Last
  <2>2. /\ Len(indexed') = Len(indexed) + 1
        /\ indexed'[Len(indexed)] = indexed[Len(indexed)]
        /\ indexed'[Len(indexed) + 1] = fetched
    BY <1>1, <1>4, AppendProperties
  <2>3. indexed'[Len(indexed)] = AncestorAt(indexed'[Len(indexed) + 1], Len(indexed))
    <3>1. Len(indexed) + 1 \in 1..Len(indexed') /\ Len(indexed) \in 1..(Len(indexed) + 1)
      BY <1>1, <1>4, <2>2
    <3>. QED BY <3>1 DEF OneBranch
  <2>. QED BY <1>2, <2>1, <2>2, <2>3
<1>. QED BY <1>1, <1>3, <1>4

LEMMA FollowsAccept ==
  ASSUME ForkInv, ForkInv', NEW cached, AcceptBlock(cached), UNCHANGED <<chain, exposed>>
  PROVE  Index!ChainMoves \/ Index!Add \/ Index!Astray
<1>1. /\ indexed' = IF fetched = NoBlock THEN indexed ELSE Append(indexed, fetched)
      /\ fetched' = NoBlock
  BY DEF AcceptBlock
<1>2. Shape /\ Shape' /\ exposed \in BOOLEAN
  BY DEF ForkInv, Shape, ChainOK
<1>3. CASE fetched = NoBlock
  BY <1>1, <1>2, <1>3, Moves
<1>4. CASE fetched # NoBlock /\ exposed
  <2>1. indexed' \in Seq(Paths) /\ fetched' \in Paths \cup {NoBlock}
    BY <1>1, <1>2 DEF Shape, IndexOK
  <2>. QED BY <1>4, <2>1 DEF Index!Astray
<1>5. CASE fetched # NoBlock /\ ~exposed
  <2>1. indexed' = Append(indexed, fetched)
    BY <1>1, <1>5
  <2>2. OneBranch'
    BY <1>5 DEF ForkInv, Guarded, Safe
  <2>3. Front(fetched) = Index!Newest
    BY <1>2, <1>5, <2>1, <2>2, AcceptedIsChild
  <2>. QED BY <1>1, <1>5, <2>1, <2>3 DEF Index!Add, Index!Front, Front
<1>. QED BY <1>3, <1>4, <1>5

(* The cut of a rewind: the data up to a height.                           *)
LEMMA CutAt ==
  ASSUME Shape, NEW k \in Nat, NEW d, d = HeadersBelow(indexed, k + 1)
  PROVE  \E b \in 0..Len(indexed) : /\ d = SubSeq(indexed, 1, b) /\ b <= k
                                    /\ b < Len(indexed) => b = k
<1>1. indexed \in Seq(Paths) /\ Len(indexed) \in Nat /\ Consecutive(indexed, 0)
  BY LenProperties DEF Shape, IndexOK, Consecutive
<1>2. PICK b \in 0..Len(indexed) : b <= k /\ (b < Len(indexed) => b = k)
  <2>1. CASE k < Len(indexed)
    <3>1. k \in 0..Len(indexed) /\ k <= k
      BY <1>1, <2>1
    <3>. QED BY <3>1
  <2>2. CASE ~(k < Len(indexed))
    <3>1. Len(indexed) \in 0..Len(indexed) /\ Len(indexed) <= k /\ ~(Len(indexed) < Len(indexed))
      BY <1>1, <2>2
    <3>. QED BY <3>1
  <2>. QED BY <2>1, <2>2
<1>3. /\ b < Len(indexed) => 0 + b + 1 >= k + 1
      /\ b > 0 => 0 + b < k + 1
      /\ 0 \in Int /\ k + 1 \in Int
  BY <1>2
<1>4. d = SubSeq(indexed, 1, b)
  BY <1>1, <1>3, BelowIsPrefix
<1>. QED BY <1>2, <1>4

LEMMA FollowsRewind ==
  ASSUME ForkInv, ForkInv', Rewind
  PROVE  Index!Rewind \/ Index!Astray
<1>1. /\ pc = "rewind" /\ fetched' = NoBlock
      /\ indexed' = HeadersBelow(indexed, Height(checking) + 1)
      /\ UNCHANGED <<chain, exposed>>
  BY DEF Rewind, chainVars
<1>2. Shape /\ Shape'
  BY DEF ForkInv
<1>3. CASE exposed
  <2>1. indexed' \in Seq(Paths)
    BY <1>2 DEF Shape, IndexOK
  <2>. QED BY <1>1, <1>3, <2>1 DEF Index!Astray
<1>4. CASE ~exposed
  <2>0. /\ Len(indexed) \in Nat
        /\ \A k \in 1..Len(indexed) : k \in Nat /\ indexed[k] \in Paths
    BY <1>2, BlocksOfShape
  <2>1. /\ \A k \in 1..Len(indexed) : k <= Height(checking) => OnIt(indexed[k])
        /\ poiEnabled \/ rest # <<>> =>
             \A k \in 1..Len(indexed) : k > Height(checking) => ~OnIt(indexed[k])
    BY <1>1, <1>4 DEF ForkInv, Guarded, Safe, RewindTo
  <2>2. \A k \in 1..Len(indexed) : Index!OnChain(indexed[k]) <=> OnIt(indexed[k])
    BY <2>0, OnChainOn DEF OnIt, OnChain, IsPrefix, Index!OnChain, Index!IsPrefix
  <2>3. Height(checking) \in Nat
    BY <1>1, <1>2, PathHeight DEF Shape, WalkOK
  <2>4. PICK b \in 0..Len(indexed) :
          /\ indexed' = SubSeq(indexed, 1, b) /\ b <= Height(checking)
          /\ b < Len(indexed) => b = Height(checking)
    BY <1>1, <1>2, <2>3, CutAt
  <2>5. \A i \in 1..b : Index!OnChain(indexed[i])
    <3>. SUFFICES ASSUME NEW i \in 1..b PROVE Index!OnChain(indexed[i])
      OBVIOUS
    <3>1. i \in 1..Len(indexed) /\ i <= Height(checking)
      BY <2>0, <2>3, <2>4
    <3>. QED BY <2>1, <2>2, <3>1
  <2>6. ASSUME poiEnabled \/ rest # <<>>, NEW i \in (b + 1)..Len(indexed)
        PROVE  ~Index!OnChain(indexed[i])
    <3>1. i \in 1..Len(indexed) /\ i > Height(checking)
      BY <2>0, <2>3, <2>4
    <3>. QED BY <2>1, <2>2, <2>6, <3>1
  <2>. QED BY <1>1, <2>4, <2>5, <2>6 DEF Index!Rewind
<1>. QED BY <1>3, <1>4

LEMMA FollowsStep ==
  ASSUME ForkInv, ForkInv', [Next]_vars
  PROVE  [Index!Next]_(Index!vars)
<1>0. /\ Shape /\ Shape' /\ exposed \in BOOLEAN
      /\ Known \in BOOLEAN /\ Known' \in BOOLEAN
  BY DEF ForkInv, Shape, ChainOK, Known
<1>. DEFINE AStep == \/ Index!ChainMoves \/ Index!Take \/ Index!Add
                    \/ Index!Forget \/ Index!Rewind \/ Index!Astray
<1>1. ASSUME AStep PROVE Index!Next
  BY <1>0, <1>1 DEF Index!Next, Known
<1>. HIDE DEF AStep
<1>2. CASE ChainGrows \/ ChainFinalizes \/ ChainReorganises \/ RegisterFinalized
           \/ SearchStep \/ NoMatch
  <2>1. UNCHANGED <<indexed, fetched>> /\ (exposed => exposed')
    <3>1. CASE ChainGrows \/ ChainFinalizes
      BY <3>1 DEF ChainGrows, ChainFinalizes, indexVars
    <3>2. CASE ChainReorganises
      BY <3>2 DEF ChainReorganises, indexVars
    <3>3. CASE RegisterFinalized
      BY <3>3 DEF RegisterFinalized, indexVars
    <3>4. CASE SearchStep \/ NoMatch
      BY <3>4 DEF SearchStep, NoMatch, indexVars
    <3>. QED BY <1>2, <3>1, <3>2, <3>3, <3>4
  <2>. QED BY <1>0, <1>1, <2>1, Moves DEF AStep
<1>3. CASE FetchBlock
  <2>1. /\ fetched = NoBlock /\ HasHeight(Len(indexed) + 1)
        /\ fetched' = AncestorAt(chain, Len(indexed) + 1)
        /\ UNCHANGED <<chain, indexed, exposed>>
    BY <1>3 DEF FetchBlock, HeaderForHeight, chainVars
  <2>2. Len(indexed) \in Nat /\ Len(chain) \in Nat
    BY <1>0, PathIsSeq, LenProperties DEF Shape, ChainOK, IndexOK
  <2>3. Len(indexed) < Len(chain)
    BY <2>1, <2>2 DEF HasHeight
  <2>. QED BY <1>1, <2>1, <2>3 DEF AStep, Index!Take, AncestorAt
<1>4. CASE ProcessBlock \/ CheckLast
  <2>1. UNCHANGED <<chain, exposed>>
    BY <1>4 DEF ProcessBlock, CheckLast, chainVars
  <2>2. UNCHANGED <<indexed, fetched>> \/ \E cached : AcceptBlock(cached)
    BY <1>4, Zenon DEF ProcessBlock, CheckLast, BeginSearch, EndHasForked
  <2>3. CASE UNCHANGED <<indexed, fetched>>
    BY <1>0, <1>1, <2>1, <2>3, Moves DEF AStep
  <2>4. CASE \E cached : AcceptBlock(cached)
    BY <1>1, <2>1, <2>4, FollowsAccept DEF AStep
  <2>. QED BY <2>2, <2>3, <2>4
<1>5. CASE Rewind
  BY <1>1, <1>5, FollowsRewind DEF AStep
<1>6. CASE Restart
  BY <1>1, <1>6 DEF Restart, chainVars, AStep, Index!Forget
<1>7. CASE UNCHANGED vars
  BY <1>7 DEF vars, chainVars, indexVars, walkVars, Index!vars
<1>. QED BY <1>2, <1>3, <1>4, <1>5, <1>6, <1>7 DEF Next

(* The service implements the promise: the database follows the chain step *)
(* by step, whatever the chain, finality, restarts and awaits do, as long  *)
(* as the window reaches below the forks that it is used for.              *)
THEOREM IndexFollows == Spec /\ []WindowReachesFork => IndexFollowsChain
<1>1. Init => Index!Init
  <2>. SUFFICES ASSUME Init PROVE Index!Init
    OBVIOUS
  <2>1. Shape
    BY ShapeInit
  <2>2. chain \in Paths /\ (poiEnabled \/ rest # <<>>) \in BOOLEAN
    BY <2>1 DEF Shape, ChainOK
  <2>. QED BY <2>2 DEF Init, Index!Init
<1>2. ForkInv /\ ForkInv' /\ [Next]_vars => [Index!Next]_(Index!vars)
  BY FollowsStep
<1>. QED BY <1>1, <1>2, ForkInvariant, PTL DEF Spec, IndexFollowsChain, Index!Spec

(* So it does without further conditions where proof of index is always    *)
(* on, or blockForkReindex is no less than the height of the chain.        *)
THEOREM IndexAlwaysFollows ==
  ASSUME PoiSettings = {TRUE} \/ BlockForkReindex >= MaxHeight
  PROVE  Spec => IndexFollowsChain
<1>1. Spec => []WindowReachesFork
  BY WindowAlwaysReaches
<1>. QED BY <1>1, IndexFollows, PTL
=============================================================================
