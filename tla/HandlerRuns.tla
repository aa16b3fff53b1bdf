----------------------------- MODULE HandlerRuns -----------------------------
(***************************************************************************)
(* IndexerManager.indexBlock, block after block: the walk over a block     *)
(* (Indexing) runs handlers, which are given the api at its height         *)
(* (SafeCalls).  A handler may leave its calls unawaited: they are         *)
(* answered, or tried again, while the walk goes on and in the blocks      *)
(* after it.  Datasources that handlers created stay for those blocks.     *)
(***************************************************************************)
EXTENDS Indexing, SafeCalls

ASSUME HeightsAssumption == Heights = {b.number : b \in Blocks}

runVars == <<vars, callsVars>>

(* The first block is chosen by Init, the api for it made by IndexBlock.   *)
RunInit == Init /\ CallsInit

WalkBegins ==
  /\ since' = [d \in DOMAIN dataSources |-> <<0, 0>>]
  /\ at' = Start' /\ next' = 1 /\ turn' = 1
  /\ args' = [i \in Items' |-> NoArgs]
  /\ runs' = <<>>
  /\ UNCHANGED dataSources

(* A block is indexed once the walk over the one before has ended.         *)
IndexBlock ==
  /\ NextBlock
  /\ \/ height = NoBlock /\ height' = block.number /\ UNCHANGED vars
     \/ /\ height = block.number /\ at = Done
        /\ block' \in Blocks /\ height' = block'.number
        /\ WalkBegins

WalkBlock == height = block.number /\ Next /\ UNCHANGED callsVars

(* A handler of the block makes a call, awaited or not.                    *)
MakeCall ==
  /\ runs # <<>>
  /\ \E c \in Calls : CallPinned(c) \/ CallUnsupported(c)
  /\ UNCHANGED vars

AnswerCall(c) ==
  /\ RequestSucceeds(c) \/ RequestRefused(c) \/ RequestFails(c)
  /\ UNCHANGED vars

RunNext ==
  \/ IndexBlock
  \/ WalkBlock
  \/ MakeCall
  \/ \E c \in Calls : AnswerCall(c)
  \/ PoolChanges /\ UNCHANGED vars

RunSpec == RunInit /\ [][RunNext]_runVars

(* fetchJson settles every request: it has a timeout (FetchData).          *)
FairRunSpec == RunSpec /\ \A c \in Calls : WF_runVars(AnswerCall(c))
=============================================================================
