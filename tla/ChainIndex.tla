----------------------------- MODULE ChainIndex ------------------------------
(***************************************************************************)
(* What fork recovery promises of an index, whatever the service does with *)
(* cached headers, proof of index and finality: the database follows a     *)
(* chain that may become another at any time.  A block is a path, as in    *)
(* UnfinalizedBlocks, which is shown to implement this.                    *)
(*                                                                         *)
(* The data grows by one block, a child of the newest indexed one that     *)
(* was on the chain when it was taken.  A rewind keeps nothing but blocks  *)
(* of the chain, and keeps them all when the newest of them is known.  The *)
(* promise ends when a reorganisation escapes notice (lost): then whatever *)
(* is indexed may be wrong.                                                *)
(***************************************************************************)
EXTENDS Naturals, Sequences, SequencesExt

CONSTANTS
  Blocks,     \* the blocks; the empty path is block 0, which is never indexed
  NoBlock

VARIABLES
  chain,      \* the head of the chain
  data,       \* the blocks indexed, by height
  next,       \* the block that was taken to be indexed next
  known,      \* is there evidence of the newest indexed block on the chain?
  lost        \* has a reorganisation escaped notice?

vars == <<chain, data, next, known, lost>>

OnChain(b) == IsPrefix(b, chain)
Newest == IF data = <<>> THEN <<>> ELSE Last(data)

Init ==
  /\ chain \in Blocks
  /\ data = <<>>
  /\ next = NoBlock
  /\ known \in BOOLEAN
  /\ lost = FALSE

(* The chain moves, and evidence comes and goes.                           *)
ChainMoves ==
  /\ chain' \in Blocks
  /\ lost' \in {lost, TRUE}
  /\ UNCHANGED <<data, next>>

Take ==
  /\ next = NoBlock
  /\ Len(data) < Len(chain)
  /\ next' = SubSeq(chain, 1, Len(data) + 1)
  /\ UNCHANGED <<chain, data, lost>>

Add ==
  /\ next # NoBlock
  /\ Front(next) = Newest
  /\ data' = Append(data, next)
  /\ next' = NoBlock
  /\ UNCHANGED <<chain, lost>>

(* A restart forgets what was taken, and leaves the data alone.            *)
Forget ==
  /\ next' = NoBlock
  /\ UNCHANGED <<chain, data, lost>>

Rewind ==
  /\ \E k \in 0..Len(data) :
       /\ data' = SubSeq(data, 1, k)
       /\ \A i \in 1..k : OnChain(data[i])
       /\ known => \A i \in (k + 1)..Len(data) : ~OnChain(data[i])
  /\ next' = NoBlock
  /\ UNCHANGED <<chain, lost>>

Astray ==
  /\ lost
  /\ data' \in Seq(Blocks) /\ next' \in Blocks \cup {NoBlock}
  /\ UNCHANGED <<chain, lost>>

Next ==
  /\ known' \in BOOLEAN
  /\ ChainMoves \/ Take \/ Add \/ Forget \/ Rewind \/ Astray

Spec == Init /\ [][Next]_vars
=============================================================================
