---------------------------- MODULE MCHandlerRuns ----------------------------
(***************************************************************************)
(* HandlerRuns for TLC: blocks at two heights, of up to two transactions   *)
(* and three logs, two contracts with an ABI each; an ABI decodes what its *)
(* contract received or emitted.                                           *)
(***************************************************************************)
EXTENDS HandlerRuns

CONSTANTS a1, a2, t1

MCDecodes(abi, data) ==
  IF "topics" \in DOMAIN data THEN data.address = abi ELSE data.to = abi

TxOf(hash, to) == [hash |-> hash, to |-> to, from |-> a1, input |-> NoInput, type |-> "0x2"]
LogOf(i, hash, a) == [logIndex |-> i, transactionHash |-> hash, address |-> a, topics |-> <<t1>>]

MCTransactions == <<TxOf("h1", a1), TxOf("h2", a2)>>
MCLogs == <<LogOf(1, "h1", a1), LogOf(2, "h1", a2), LogOf(3, "h2", a1)>>

FullBlock(n, txs, logs) == [number |-> n, light |-> FALSE, transactions |-> txs, logs |-> logs]
MCBlocks ==
  UNION {{FullBlock(n, <<>>, <<>>), FullBlock(n, MCTransactions, <<>>),
          FullBlock(n, MCTransactions, MCLogs)} : n \in {2, 3}}
  \cup {[number |-> 2, light |-> TRUE, transactions |-> <<"h1">>,
         logs |-> <<LogOf(1, "h1", a1), LogOf(2, "h1", a2)>>]}

Event == [kind |-> "Event", filter |-> Undefined]
Topic == [kind |-> "Event", filter |-> [topics |-> <<t1>>]]
Call  == [kind |-> "Call", filter |-> Undefined]
Even  == [kind |-> "Block", filter |-> [modulo |-> 2, timestamp |-> Undefined]]

DataSource(address, abi, handlers) ==
  [address |-> address, abi |-> abi, handlers |-> handlers]

MCProjectSources ==
  {<<DataSource(Undefined, a1, <<Even, Call, Event>>)>>,
   <<DataSource(a1, a1, <<Event, Topic>>), DataSource(Undefined, Undefined, <<Event>>)>>,
   <<DataSource(a2, a2, <<Call>>), DataSource(Undefined, a1, <<Topic>>)>>}

MCTemplateSources == {DataSource(a2, a2, <<Event>>), DataSource(Undefined, a1, <<Call>>)}
=============================================================================
