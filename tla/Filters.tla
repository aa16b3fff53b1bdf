------------------------------- MODULE Filters -------------------------------
(***************************************************************************)
(* What a handler is run for: the filters of ethereum/block.ethereum.ts,   *)
(* which indexer/indexer.manager.ts applies to every block, transaction    *)
(* and log (FilterTypeMap), and which of a block's items it looks at.      *)
(*                                                                         *)
(* Addresses, topics and function selectors are opaque values, equal when  *)
(* the code's normalised strings are.  A project writes undefined and null *)
(* in a filter, and they mean different things.                            *)
(***************************************************************************)
EXTENDS Integers, Sequences, FiniteSets

CONSTANTS
  Undefined,
  Null,
  NotNull,   \* NOT_NULL_FILTER, the topic filter '!null'
  NoInput    \* the input '0x' of a transaction, and the filter for it

ASSUME FilterAssumption == Cardinality({Undefined, Null, NotNull, NoInput}) = 4

(* The values JavaScript takes for false among those.                      *)
Given(value) == value \notin {Undefined, Null}

MaxTopics == 4

(***************************************************************************)
(* A log has an address and a sequence of topics, a transaction a to (Null *)
(* when it creates a contract), a from, an input - its selector - and a    *)
(* type.  A filter is Undefined or a record of what it asks for.           *)
(***************************************************************************)
FilterBlocksProcessor(block, filter, address) ==
  filter = Undefined \/
    /\ filter.modulo \notin {Undefined, 0} => block.number % filter.modulo = 0
    /\ filter.timestamp # Undefined => block.number \in filter.timestamp

FilterTransactionsProcessor(tx, filter, address) ==
  filter = Undefined \/
    /\ filter.to = Null => tx.to = Null
    /\ Given(filter.to) => tx.to = filter.to
    /\ filter.from # Undefined => tx.from = filter.from
    /\ address # Undefined /\ filter.to = Undefined => tx.to = address
    /\ filter.function \in {Null, NoInput} => tx.input = NoInput
    /\ Given(filter.function) => tx.input = filter.function
    /\ filter.type # Undefined => tx.type = filter.type

FilteredTopics(filter) ==
  IF filter = Undefined \/ filter.topics = Undefined THEN {}
  ELSE {i \in 1..MaxTopics : i <= Len(filter.topics) /\ Given(filter.topics[i])}

(* The loop ends with true at the first '!null' that finds a topic: the    *)
(* topics after it are not compared.                                       *)
ComparedTopics(filter) ==
  {i \in FilteredTopics(filter) :
     \A j \in FilteredTopics(filter) : j < i => filter.topics[j] # NotNull}

FilterLogsProcessor(log, filter, address) ==
  /\ address # Undefined => log.address = address
  /\ \A i \in ComparedTopics(filter) :
       i <= Len(log.topics) /\ filter.topics[i] \in {NotNull, log.topics[i]}

(* FilterTypeMap: a handler has a kind and a filter, and its datasource    *)
(* gives the address.                                                      *)
Handles(kind, handler, address, data) ==
  /\ handler.kind = kind
  /\ CASE kind = "Block" -> FilterBlocksProcessor(data, handler.filter, address)
       [] kind = "Call"  -> FilterTransactionsProcessor(data, handler.filter, address)
       [] kind = "Event" -> FilterLogsProcessor(data, handler.filter, address)

(***************************************************************************)
(* A block has a number, transactions and logs; a light block has only     *)
(* hashes for transactions.  A log names its transaction by hash, and a    *)
(* full transaction carries the logs of the block that name it, here their *)
(* positions in the block.                                                 *)
(***************************************************************************)
IsFullBlock(block) == block.transactions # <<>> /\ ~block.light

LogsOf(tx, block) ==
  {l \in DOMAIN block.logs : block.logs[l].transactionHash = tx.hash}

(* The transactions and the logs whose handlers indexBlockData looks for.  *)
IndexedTransactions(block) ==
  IF IsFullBlock(block) THEN {block.transactions[i] : i \in DOMAIN block.transactions}
  ELSE {}

AllLogs(block) == {block.logs[i] : i \in DOMAIN block.logs}

IndexedLogs(block) ==
  IF IsFullBlock(block)
  THEN {block.logs[l] : l \in UNION {LogsOf(tx, block) : tx \in IndexedTransactions(block)}}
  ELSE AllLogs(block)
=============================================================================
