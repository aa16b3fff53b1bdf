------------------------------ MODULE Indexing -------------------------------
(***************************************************************************)
(* IndexerManager (indexer/indexer.manager.ts): the walk over one block,   *)
(* which looks for the handlers of the block, of every transaction and of  *)
(* the logs of that transaction, one datasource after the other, and       *)
(* decodes what it gives them with the datasource's ABI (parseLog and      *)
(* parseTransaction of ethereum/api.ethereum.ts).                          *)
(*                                                                         *)
(* Decoding writes the arguments into the transaction or log itself, which *)
(* the datasources share.  The handlers of a datasource run one after the  *)
(* other, and each of them may create a dynamic datasource, which          *)
(* @subql/node-core appends to the list that is being walked.              *)
(***************************************************************************)
EXTENDS Filters

CONSTANTS
  Blocks,
  ProjectSources,     \* sequences of datasources a block may be indexed for
  TemplateSources,    \* the dynamic datasources a handler may create
  MaxSources,         \* bound on the length of the list
  Decodes(_, _),      \* has the ABI an entry for this transaction or log?
  NoArgs

IsSequence(s) == s \in Seq({s[i] : i \in DOMAIN s})

ASSUME IndexingAssumption ==
  /\ \A b \in Blocks : IsSequence(b.transactions) /\ IsSequence(b.logs)
  /\ \A list \in ProjectSources :
       IsSequence(list) /\ \A d \in DOMAIN list : IsSequence(list[d].handlers)
  /\ \A ds \in TemplateSources : IsSequence(ds.handlers)

VARIABLES
  block,
  dataSources,        \* a sequence of datasources
  since,              \* for each, the place in the block it was there from
  at,                 \* the place in the block: <<transaction, log>>
  next,               \* the next datasource to look at
  turn,               \* the next of its handlers
  args,               \* the ABI whose arguments each item carries
  runs                \* the handlers run so far, oldest first

vars == <<block, dataSources, since, at, next, turn, args, runs>>

(* Place <<0, 0>> is the block itself, <<t, 0>> its t-th transaction,      *)
(* <<t, l>> the log at position l of the block, one of that transaction,   *)
(* and <<0, l>> the l-th log of a block that is not full.                  *)
Done == <<Len(block.transactions) + 1, 0>>
Before(p, q) == p[1] < q[1] \/ (p[1] = q[1] /\ p[2] < q[2])

Transactions == IF IsFullBlock(block) THEN 0..Len(block.transactions) ELSE {0}
LogsAt(t) == IF t > 0 THEN LogsOf(block.transactions[t], block)
             ELSE IF IsFullBlock(block) THEN {} ELSE DOMAIN block.logs

KindAt(p) == IF p[2] > 0 THEN "Event" ELSE IF p[1] > 0 THEN "Call" ELSE "Block"
DataAt(p) == IF p[2] > 0 THEN block.logs[p[2]]
             ELSE IF p[1] > 0 THEN block.transactions[p[1]] ELSE block

Places ==
  {p \in Transactions \X (0..Len(block.logs)) :
     IF p[2] = 0 THEN IsFullBlock(block) ELSE p[2] \in LogsAt(p[1])}

(* A mutant: the transactions come first and all the logs after them.      *)
AfterLogsLast(p) ==
  LET later == {q \in Places : q[2] > 0 /\ (p[2] = 0 \/ Before(p, q))} IN
  IF p[2] = 0 /\ IsFullBlock(block) /\ p[1] < Len(block.transactions) THEN <<p[1] + 1, 0>>
  ELSE IF later = {} THEN Done
  ELSE CHOOSE q \in later : \A r \in later : ~Before(r, q)

(* The place after p, in the order of the nested loops of indexBlockData.  *)
LaterLogs(p) == {l \in LogsAt(p[1]) : l > p[2]}
After(p) ==
  IF LaterLogs(p) # {}
  THEN <<p[1], CHOOSE l \in LaterLogs(p) : \A k \in LaterLogs(p) : l <= k>>
  ELSE IF IsFullBlock(block) /\ p[1] < Len(block.transactions) THEN <<p[1] + 1, 0>>
  ELSE Done

Start == IF IsFullBlock(block) THEN <<0, 0>> ELSE After(<<0, 0>>)

Items == {DataAt(p) : p \in Places \ {<<0, 0>>}}

Init ==
  /\ block \in Blocks
  /\ dataSources \in ProjectSources
  /\ since = [d \in DOMAIN dataSources |-> <<0, 0>>]
  /\ at = Start
  /\ next = 1
  /\ turn = 1
  /\ args = [i \in Items |-> NoArgs]
  /\ runs = <<>>

-----------------------------------------------------------------------------
ParseLog(known, log, ds) ==
  IF ds.abi # Undefined /\ Decodes(ds.abi, log) THEN [known EXCEPT ![log] = ds.abi]
  ELSE known

(* parseTransaction decodes the logs of the transaction as well.           *)
ParseTransaction(known, tx, ds) ==
  IF ds.abi # Undefined /\ Decodes(ds.abi, tx)
  THEN [i \in DOMAIN known |->
          IF i = tx THEN ds.abi
          ELSE IF i \in {log \in AllLogs(block) : log.transactionHash = tx.hash}
                  /\ Decodes(ds.abi, i) THEN ds.abi
          ELSE known[i]]
  ELSE known

(* prepareFilteredData *)
Parse(kind, data, ds) ==
  CASE kind = "Block" -> args
    [] kind = "Call"  -> ParseTransaction(args, data, ds)
    [] kind = "Event" -> ParseLog(args, data, ds)

(* Does handler k of datasource d take what is at place p?                 *)
Takes(d, k, p) ==
  Handles(KindAt(p), dataSources[d].handlers[k], dataSources[d].address, DataAt(p))

(* indexData, the next handler of the datasource: it is run if its filter  *)
(* accepts the data, and may create a datasource.                          *)
IndexData ==
  LET ds == dataSources[next]
      kind == KindAt(at)
      data == DataAt(at)
  IN
  /\ at # Done
  /\ next <= Len(dataSources)
  /\ turn <= Len(ds.handlers)
  /\ turn' = turn + 1
  /\ IF Takes(next, turn, at)
     THEN /\ args' = Parse(kind, data, ds)
          /\ runs' = Append(runs,
               [place |-> at, source |-> next, handler |-> turn,
                args |-> IF kind = "Block" THEN NoArgs ELSE args'[data]])
          /\ \/ UNCHANGED <<dataSources, since>>
             \/ /\ Len(dataSources) < MaxSources
                /\ \E new \in TemplateSources : dataSources' = Append(dataSources, new)
                /\ since' = Append(since, at)
     ELSE UNCHANGED <<args, runs, dataSources, since>>
  /\ UNCHANGED <<block, at, next>>

NextSource ==
  /\ at # Done
  /\ next <= Len(dataSources)
  /\ turn > Len(dataSources[next].handlers)
  /\ next' = next + 1
  /\ turn' = 1
  /\ UNCHANGED <<block, at, dataSources, since, args, runs>>

(* A mutant: the logs of a transaction are passed over.                    *)
NextItemSkippingLogs ==
  /\ at # Done
  /\ next > Len(dataSources)
  /\ at' = IF IsFullBlock(block) /\ at[1] < Len(block.transactions)
           THEN <<at[1] + 1, 0>> ELSE After(at)
  /\ next' = 1 /\ turn' = 1
  /\ UNCHANGED <<block, dataSources, since, args, runs>>

NextItem ==
  /\ at # Done
  /\ next > Len(dataSources)
  /\ at' = After(at)
  /\ next' = 1 /\ turn' = 1
  /\ UNCHANGED <<block, dataSources, since, args, runs>>

Next == IndexData \/ NextSource \/ NextItem

Spec == Init /\ [][Next]_vars

-----------------------------------------------------------------------------
(* Properties.                                                             *)

(* The runs of a handler, one for every item its filter accepts.           *)
RunsOf(d, k) == {i \in DOMAIN runs : runs[i].source = d /\ runs[i].handler = k}

(* When the walk ends, every handler of every datasource has run exactly   *)
(* once for every item its filter accepts, from the item on at which the   *)
(* datasource was created - in a full block on the block, transactions and *)
(* logs, in any other on the logs.                                         *)
EveryItemIsHandledOnce ==
  at = Done =>
    \A d \in DOMAIN dataSources :
      \A k \in DOMAIN dataSources[d].handlers :
        /\ {runs[i].place : i \in RunsOf(d, k)} =
             {p \in Places : ~Before(p, since[d]) /\ Takes(d, k, p)}
        /\ \A i, j \in RunsOf(d, k) : runs[i].place = runs[j].place => i = j

(* Handlers run in the order of the chain: what a transaction's handler    *)
(* stores is there for the handlers of its logs and of all that follows,   *)
(* and at one place the datasources and their handlers go in their order.  *)
HandledInOrder ==
  \A i, j \in DOMAIN runs :
    i < j =>
      \/ Before(runs[i].place, runs[j].place)
      \/ /\ runs[i].place = runs[j].place
         /\ Before(<<runs[i].source, runs[i].handler>>, <<runs[j].source, runs[j].handler>>)

(* The option abi of a datasource is "the abi that will be used to decode  *)
(* transaction or log arguments": a handler is never given arguments that  *)
(* another datasource's ABI decoded.                                       *)
DecodedWithOwnAbi ==
  \A i \in DOMAIN runs :
    runs[i].args \in {NoArgs, dataSources[runs[i].source].abi}
=============================================================================
