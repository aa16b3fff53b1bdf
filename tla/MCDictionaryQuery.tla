------------------------- MODULE MCDictionaryQuery -------------------------
(***************************************************************************)
(* DictionaryQuery for TLC: two contracts, two topics, one selector.       *)
(***************************************************************************)
EXTENDS DictionaryQuery

CONSTANTS a1, a2, t1, t2, f1

Addresses == {a1, a2}

EventFilters ==
  {Undefined} \cup
  {[topics |-> ts] : ts \in {Undefined, <<t1>>, <<Null, t2>>, <<t1, t2>>, <<t1, NotNull>>}}

CallFilter(to, from, function) ==
  [to |-> to, from |-> from, function |-> function, type |-> Undefined]

CallFilters ==
  {Undefined, CallFilter(Undefined, Undefined, Undefined), CallFilter(Null, Undefined, Undefined),
   CallFilter(Undefined, a2, Null), CallFilter(a1, Undefined, f1), CallFilter(Null, a2, f1)}

Handlers ==
  {[kind |-> "Event", filter |-> f] : f \in EventFilters}
  \cup {[kind |-> "Call", filter |-> f] : f \in CallFilters}
  \cup {[kind |-> "Block", filter |-> [modulo |-> m, timestamp |-> Undefined]] :
          m \in {Undefined, 2}}

(* Datasources with two handlers, and '!null' before another topic.        *)
TwoHandlers ==
  {[address |-> a,
    handlers |-> {[kind |-> "Event", filter |-> [topics |-> e]],
                  [kind |-> "Call", filter |-> c]}] :
     a \in {a1, Undefined}, e \in {<<t1>>, <<NotNull, t2>>},
     c \in {Undefined, CallFilter(a1, Undefined, f1)}}

MCDataSources ==
  {[address |-> a, handlers |-> {h}] : a \in Addresses \cup {Undefined}, h \in Handlers}
  \cup TwoHandlers

TopicSequences == {<<>>} \cup {<<x>> : x \in {t1, t2}} \cup
                  {<<x, y>> : x \in {t1, t2}, y \in {t1, t2}}

LogOf(hash, a, ts) == [transactionHash |-> hash, address |-> a, topics |-> ts]
TxOf(hash, to, from, input) ==
  [hash |-> hash, to |-> to, from |-> from, input |-> input, type |-> "0x2"]

MCLogs == {LogOf(h, a, ts) : h \in {"h1", "h2"}, a \in Addresses, ts \in TopicSequences}
MCTransactions ==
  {TxOf("h1", to, from, i) : to \in Addresses \cup {Null}, from \in Addresses,
                             i \in {NoInput, f1}}

(* Blocks of two transactions, with a log in each.                         *)
MCBlocks ==
  {[number |-> 3, light |-> FALSE,
    transactions |-> <<TxOf("h1", a1, a2, i), TxOf("h2", to, a2, NoInput)>>,
    logs |-> <<LogOf("h1", a, <<t1>>), LogOf("h2", b, ts)>>] :
      i \in {NoInput, f1}, to \in {a1, Null}, a \in Addresses, b \in Addresses,
      ts \in {<<>>, <<t1, t1>>, <<t2>>}}

AllFields == {"address", "topics0", "topics1", "topics2", "topics3",
              "to", "from", "func", "type"}
=============================================================================
