-------------------------- MODULE UnfinalizedBlocks --------------------------
(***************************************************************************)
(* UnfinalizedBlocksService (indexer/unfinalizedBlocks.service.ts): how    *)
(* the indexer notices that blocks it has indexed are no longer on the     *)
(* chain, and how far it rewinds.                                          *)
(*                                                                         *)
(* A block is named by its path: the sequence of the branch numbers of its *)
(* ancestors and itself, so its height is the length of the path, its      *)
(* parent is the path without its last element, and two blocks are the     *)
(* same exactly when their hashes are.  The empty path is block 0.  The    *)
(* chain may be reorganised above its last finalized block at any time, in *)
(* particular while the service awaits a header.                           *)
(*                                                                         *)
(* The base class and the dispatcher of @subql/node-core call the two      *)
(* methods of the service and are modelled from those calls: a header is   *)
(* registered before its block is indexed, headers at or below the         *)
(* finalized height are not cached, a cached header must be the parent of  *)
(* the next one, and a rewind drops the data above the target and empties  *)
(* the cache.                                                              *)
(***************************************************************************)
EXTENDS Integers, Sequences, SequencesExt

CONSTANTS
  MaxHeight,        \* bound on the height of the chain
  MaxReorgs,        \* bound on the number of reorganisations
  PoiSettings,      \* may proof of index be on, off, or either?
  BlockForkReindex  \* nodeConfig.blockForkReindex

ASSUME ForkAssumption ==
  /\ MaxHeight \in Nat /\ MaxReorgs \in Nat
  /\ PoiSettings \subseteq BOOLEAN
  /\ BlockForkReindex \in Nat

VARIABLES
  poiEnabled,       \* is proof of index on?  (a setting, it stays)
  chain,            \* the head of the canonical chain, a path
  branch,           \* the number of the current branch
  chainFinal,       \* the height the chain has finalized
  finalized,        \* finalizedBlockNumber, as the service knows it
  indexed,          \* the blocks whose data is in the database, by height
  unfinalized,      \* unfinalizedBlocks: the cached headers, oldest first
  fetched,          \* a block fetched and not yet processed
  startupCheck,
  pc,               \* where processUnfinalizedBlocks is
  forked,           \* forkedHeader, once a fork was noticed
  checking,         \* checkingHeader of getLastCorrectFinalizedBlock
  rest,             \* bestVerifiableBlocks not yet looked at, newest first
  exposed           \* did a reorganisation hit a moment without a check?

chainVars   == <<poiEnabled, chain, branch, chainFinal>>
walkVars    == <<forked, checking, rest>>
indexVars   == <<indexed, unfinalized, fetched, startupCheck>>
vars == <<chainVars, finalized, indexVars, pc, walkVars, exposed>>

NoBlock == <<-1>>

Height(b) == Len(b)
ParentOf(b) == Front(b)
AncestorAt(b, k) == SubSeq(b, 1, k)
OnChain(b) == IsPrefix(b, chain)

(* getHeaderForHeight: the block of the chain at a height, if it is there. *)
HasHeight(k) == k \in 0..Len(chain)
HeaderForHeight(k) == AncestorAt(chain, k)

(* The elements of s at the indices of keep, in their order: a filter.     *)
KeepAt(s, keep) ==
  LET kept[i \in 0..Len(s)] ==
        IF i = 0 THEN <<>>
        ELSE IF i \in keep THEN Append(kept[i - 1], s[i]) ELSE kept[i - 1]
  IN  kept[Len(s)]

HeadersAbove(s, k) == KeepAt(s, {i \in DOMAIN s : Height(s[i]) > k})
HeadersBelow(s, k) == KeepAt(s, {i \in DOMAIN s : Height(s[i]) < k})

-----------------------------------------------------------------------------
Init ==
  /\ poiEnabled \in PoiSettings
  /\ chain \in {[i \in 1..n |-> 0] : n \in 0..MaxHeight}
  /\ branch = 0
  /\ chainFinal \in 0..Len(chain)
  /\ finalized = chainFinal
  /\ indexed = <<>>
  /\ unfinalized = <<>>
  /\ fetched = NoBlock
  /\ startupCheck = TRUE
  /\ pc = "idle"
  /\ forked = NoBlock
  /\ checking = NoBlock
  /\ rest = <<>>
  /\ exposed = FALSE

(* The environment: the chain.                                             *)

ChainGrows ==
  /\ Len(chain) < MaxHeight
  /\ chain' = Append(chain, branch)
  /\ UNCHANGED <<poiEnabled, branch, chainFinal, finalized, indexVars, pc, walkVars, exposed>>

ChainFinalizes ==
  /\ \E k \in (chainFinal + 1)..Len(chain) : chainFinal' = k
  /\ UNCHANGED <<poiEnabled, chain, branch, finalized, indexVars, pc, walkVars, exposed>>

(* What one indexed block says of the next: it is its parent.              *)
Links(b) ==
  \/ Height(b) <= finalized
  \/ unfinalized = <<>>
  \/ ParentOf(b) = Last(unfinalized)

(* A reorganisation is noticed against a cached header, and the chain is   *)
(* taken as it was read from the block that does not link to the rewind.   *)
Unguarded ==
  \/ pc \in {"search", "rewind"}
  \/ fetched # NoBlock /\ ~Links(fetched)
  \/ unfinalized = <<>> /\ Len(indexed) > finalized

(* The blocks above height keep are replaced by others.                    *)
ChainReorganises ==
  /\ branch < MaxReorgs
  /\ branch' = branch + 1
  /\ \E keep \in chainFinal..(Len(chain) - 1), new \in 1..MaxHeight :
       /\ keep + new <= MaxHeight
       /\ chain' = AncestorAt(chain, keep) \o [i \in 1..new |-> branch + 1]
  /\ exposed' = (exposed \/ Unguarded)
  /\ UNCHANGED <<poiEnabled, chainFinal, finalized, indexVars, pc, walkVars>>

-----------------------------------------------------------------------------
(* The dispatcher and the base class.                                      *)

(* registerFinalizedBlock.  Headers that finality overtakes are compared   *)
(* with nothing: a block at or below the finalized height needs no link.   *)
Overtaken(b, height) ==
  b # NoBlock /\ ~OnChain(b) /\ Height(b) <= height

RegisterFinalized ==
  /\ chainFinal > finalized
  /\ finalized' = chainFinal
  /\ exposed' = \/ exposed
                \/ Overtaken(fetched, chainFinal)
                \/ unfinalized # <<>> /\ Overtaken(Last(unfinalized), chainFinal - 1)
  /\ UNCHANGED <<chainVars, indexVars, pc, walkVars>>

FetchBlock ==
  /\ pc = "idle"
  /\ fetched = NoBlock
  /\ HasHeight(Len(indexed) + 1)
  /\ fetched' = HeaderForHeight(Len(indexed) + 1)
  /\ UNCHANGED <<chainVars, finalized, indexed, unfinalized, startupCheck, pc,
                 walkVars, exposed>>

(* deleteFinalizedBlock, then the block is indexed.                        *)
AcceptBlock(cached) ==
  /\ unfinalized' = HeadersAbove(cached, finalized)
  /\ indexed' = IF fetched = NoBlock THEN indexed ELSE Append(indexed, fetched)
  /\ fetched' = NoBlock
  /\ pc' = "idle"
  /\ UNCHANGED walkVars

(* getLastCorrectFinalizedBlock up to its first await: the cached headers  *)
(* below the fork, newest first.                                           *)
BeginSearch(header, cached) ==
  /\ forked' = header
  /\ checking' = header
  /\ rest' = Reverse(HeadersBelow(cached, Height(header)))
  /\ pc' = "search"
  /\ unfinalized' = cached
  /\ UNCHANGED <<indexed, fetched>>

(* The end of hasForked: do the last two cached headers link?              *)
LinksBroken(cached) ==
  /\ Len(cached) > 2
  /\ ParentOf(Last(cached)) # cached[Len(cached) - 1]

EndHasForked(cached) ==
  IF LinksBroken(cached) THEN BeginSearch(Last(cached), cached)
  ELSE AcceptBlock(cached)

(* A mutant: the parent hash is not compared.                              *)
ProcessBlockWithoutLink ==
  LET cached == IF Height(fetched) <= finalized THEN unfinalized
                ELSE Append(unfinalized, fetched)
  IN
  /\ pc = "idle" /\ fetched # NoBlock
  /\ AcceptBlock(cached)
  /\ startupCheck' = FALSE
  /\ UNCHANGED <<chainVars, finalized, exposed>>

(* registerUnfinalizedBlock and then hasForked, up to its await at the     *)
(* first call after a start.                                               *)
ProcessBlock ==
  LET cached == IF Height(fetched) <= finalized THEN unfinalized
                ELSE Append(unfinalized, fetched)
  IN
  /\ pc = "idle" /\ fetched # NoBlock
  /\ IF ~Links(fetched)
     THEN BeginSearch(fetched, unfinalized) /\ UNCHANGED startupCheck
     ELSE /\ startupCheck' = FALSE
          /\ IF startupCheck /\ cached # <<>>
             THEN /\ pc' = "checkLast"
                  /\ unfinalized' = cached
                  /\ UNCHANGED <<indexed, fetched, walkVars>>
             ELSE EndHasForked(cached)
  /\ UNCHANGED <<chainVars, finalized, exposed>>

(* hasForked after its await: the last cached header against the chain.    *)
CheckLast ==
  LET last == Last(unfinalized) IN
  /\ pc = "checkLast"
  /\ HasHeight(Height(last))
  /\ IF HeaderForHeight(Height(last)) # last
     THEN BeginSearch(HeaderForHeight(Height(last)), unfinalized)
     ELSE EndHasForked(unfinalized)
  /\ UNCHANGED <<chainVars, finalized, startupCheck, exposed>>

(* A mutant: the first cached header below the fork is taken.              *)
SearchStepTakingFirst ==
  /\ pc = "search"
  /\ rest # <<>>
  /\ checking' = Head(rest)
  /\ pc' = "rewind"
  /\ UNCHANGED <<chainVars, finalized, indexVars, forked, rest, exposed>>

(* A mutant: only the block being checked is compared, not its parent.     *)
SearchStepWithoutParent ==
  /\ pc = "search"
  /\ rest # <<>>
  /\ IF Head(rest) = checking
     THEN checking' = checking /\ pc' = "rewind" /\ UNCHANGED rest
     ELSE checking' = ParentOf(checking) /\ rest' = Tail(rest) /\ UNCHANGED pc
  /\ UNCHANGED <<chainVars, finalized, indexVars, forked, exposed>>

(* A mutant: the parent is fetched and the list of headers not advanced.   *)
SearchStepWithoutAdvance ==
  /\ pc = "search"
  /\ rest # <<>>
  /\ IF Head(rest) = ParentOf(checking)
     THEN checking' = Head(rest) /\ pc' = "rewind"
     ELSE checking' = ParentOf(checking) /\ UNCHANGED pc
  /\ UNCHANGED <<chainVars, finalized, indexVars, forked, rest, exposed>>

(* One round of the search: the newest header left is on the branch of the *)
(* block being checked, or the search moves to that block's parent - by    *)
(* hash, or by height when the node no longer knows the hash.              *)
SearchStep ==
  /\ pc = "search"
  /\ rest # <<>>
  /\ LET header == Head(rest) IN
       IF header = checking \/ header = ParentOf(checking)
       THEN /\ checking' = header
            /\ pc' = "rewind"
            /\ UNCHANGED rest
       ELSE /\ \/ checking' = ParentOf(checking)
               \/ /\ ~OnChain(ParentOf(checking))
                  /\ HasHeight(Height(checking) - 1)
                  /\ checking' = HeaderForHeight(Height(checking) - 1)
            /\ rest' = Tail(rest)
            /\ UNCHANGED pc
  /\ UNCHANGED <<chainVars, finalized, indexVars, forked, exposed>>

(* findFinalizedUsingPOI: the newest block below the one being checked     *)
(* whose recorded hash is that of an ancestor of it (block 0 always is).   *)
PoiMatches ==
  {k \in 1..(Height(checking) - 1) :
     k <= Len(indexed) /\ indexed[k] = AncestorAt(checking, k)}
PoiTarget ==
  AncestorAt(checking, IF PoiMatches = {} THEN 0 ELSE
                       CHOOSE k \in PoiMatches : \A j \in PoiMatches : j <= k)

(* No cached header matches: proof of index, or blockForkReindex blocks.   *)
NoMatch ==
  LET back == Height(forked) - BlockForkReindex
      target == IF back > 0 THEN back ELSE 0
  IN
  /\ pc = "search" /\ rest = <<>>
  /\ IF poiEnabled THEN checking' = PoiTarget
     ELSE HasHeight(target) /\ checking' = HeaderForHeight(target)
  /\ pc' = "rewind"
  /\ UNCHANGED <<chainVars, finalized, indexVars, forked, rest, exposed>>

(* A mutant: the block that was fetched before the rewind is still indexed.*)
RewindKeepingFetched ==
  /\ pc = "rewind"
  /\ indexed' = HeadersBelow(indexed, Height(checking) + 1)
  /\ unfinalized' = <<>>
  /\ pc' = "idle"
  /\ forked' = NoBlock /\ checking' = NoBlock /\ rest' = <<>>
  /\ UNCHANGED <<chainVars, finalized, fetched, startupCheck, exposed>>

(* reindex: the data above the target goes, and the cache is emptied.      *)
Rewind ==
  /\ pc = "rewind"
  /\ indexed' = HeadersBelow(indexed, Height(checking) + 1)
  /\ unfinalized' = <<>>
  /\ fetched' = NoBlock
  /\ pc' = "idle"
  /\ forked' = NoBlock /\ checking' = NoBlock /\ rest' = <<>>
  /\ UNCHANGED <<chainVars, finalized, startupCheck, exposed>>

(* The process stops (also when a header cannot be fetched) and starts     *)
(* again: init checks the cached headers, which are committed with the     *)
(* block they belong to.                                                   *)
Restart ==
  LET saved == HeadersBelow(unfinalized, Len(indexed) + 1) IN
  /\ unfinalized' = saved
  /\ startupCheck' = (saved = <<>>)
  /\ fetched' = NoBlock
  /\ pc' = IF saved = <<>> THEN "idle" ELSE "checkLast"
  /\ forked' = NoBlock /\ checking' = NoBlock /\ rest' = <<>>
  /\ UNCHANGED <<chainVars, finalized, indexed, exposed>>

Search == SearchStep \/ NoMatch \/ Rewind

Next ==
  \/ ChainGrows \/ ChainFinalizes \/ ChainReorganises
  \/ RegisterFinalized \/ FetchBlock \/ ProcessBlock \/ CheckLast
  \/ SearchStep \/ NoMatch \/ Rewind
  \/ Restart

Spec == Init /\ [][Next]_vars

(* The dispatcher keeps fetching and processing, awaits come back, and the *)
(* process is stopped only finitely often.                                 *)
FairSpec ==
  /\ Spec
  /\ WF_vars(FetchBlock) /\ WF_vars(ProcessBlock) /\ WF_vars(CheckLast)
  /\ WF_vars(Search)
  /\ <>[][~Restart]_vars

-----------------------------------------------------------------------------
(* Properties.                                                             *)

Paths == BoundedSeq(0..MaxReorgs, MaxHeight)
MaybePaths == Paths \cup {NoBlock}

(* Every variable keeps its kind, and the database holds one block for     *)
(* every height up to the last indexed.                                    *)
TypeOK ==
  /\ poiEnabled \in PoiSettings
  /\ chain \in Paths /\ branch \in 0..MaxReorgs
  /\ chainFinal \in 0..Len(chain) /\ finalized \in 0..chainFinal
  /\ indexed \in Seq(Paths) /\ \A i \in DOMAIN indexed : Height(indexed[i]) = i
  /\ unfinalized \in Seq(Paths)
  /\ fetched \in MaybePaths /\ startupCheck \in BOOLEAN
  /\ pc \in {"idle", "checkLast", "search", "rewind"}
  /\ forked \in MaybePaths /\ checking \in MaybePaths
  /\ rest \in Seq(Paths)
  /\ exposed \in BOOLEAN

(* The headers that hasForked finds in the cache always link: the branch   *)
(* at the end of hasForked is dead, as its comment says, whatever the      *)
(* chain, restarts and rewinds did in between.                             *)
CachedHeadersLink ==
  \A i \in 2..Len(unfinalized) : ParentOf(unfinalized[i]) = unfinalized[i - 1]

(* The database holds the data of one branch, however often the chain was  *)
(* reorganised under the indexer: each indexed block is the parent of the  *)
(* next, unless a reorganisation hit an unguarded moment.                  *)
IndexedIsOneBranch ==
  exposed \/ \A k \in 1..(Len(indexed) - 1) : indexed[k] = ParentOf(indexed[k + 1])

(* The block returned by getLastCorrectFinalizedBlock is one to rewind to: *)
(* no orphaned block's data is at or below it.                             *)
RewindRemovesForkedData ==
  pc = "rewind" /\ ~exposed =>
    \A k \in DOMAIN indexed : k <= Height(checking) => OnChain(indexed[k])

(* With proof of index, or when a cached header is on the chain, nothing   *)
(* is rewound in vain: the first block dropped is an orphan.               *)
RewindKeepsCorrectData ==
  pc = "rewind" /\ ~exposed /\ (poiEnabled \/ rest # <<>>) =>
    \A k \in DOMAIN indexed : k > Height(checking) => ~OnChain(indexed[k])

(* The database follows the chain step by step: it only grows by a child   *)
(* of its newest block that was fetched from the chain, and is only cut    *)
(* back to blocks of the chain - to the newest of them, when a cached      *)
(* header or proof of index tells which - unless a reorganisation hit an   *)
(* unguarded moment (ChainIndex).                                          *)
Index == INSTANCE ChainIndex WITH
  Blocks <- Paths,
  data   <- indexed,
  next   <- fetched,
  known  <- poiEnabled \/ rest # <<>>,
  lost   <- exposed
IndexFollowsChain == Index!Spec

(* While the chain is ahead of the index, orphaned data does not stay.     *)
Behind == Len(chain) > Len(indexed)
Clean == \A k \in DOMAIN indexed : OnChain(indexed[k])
OrphansAreRemoved == Behind ~> (Clean \/ ~Behind \/ exposed)
=============================================================================
