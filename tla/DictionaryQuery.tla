--------------------------- MODULE DictionaryQuery ---------------------------
(***************************************************************************)
(* The queries the indexer sends a dictionary, from the handlers of its    *)
(* datasources (indexer/dictionary/utils.ts, v1/ethDictionaryV1.ts and     *)
(* v2/ethDictionaryV2.ts).  A dictionary skips the blocks, and a           *)
(* dictionary v2 also the transactions and logs, that match no entry, so   *)
(* whatever a handler's filter accepts must match one.                     *)
(*                                                                         *)
(* The datasources grow while indexing: a handler creates dynamic ones     *)
(* from the project's templates, and the queries are built again.          *)
(*                                                                         *)
(* An entry is a kind of item and a set of conditions, all of which the    *)
(* item has to meet; an empty list of values is no condition.  An empty    *)
(* query means that the dictionary is not used and every block is fetched. *)
(* The dictionary itself, and the blocks fetched for modulo filters, are   *)
(* the part of @subql/node-core.                                           *)
(***************************************************************************)
EXTENDS Filters

CONSTANTS
  DataSources,        \* the datasources a project may have
  MaxDataSources,     \* bound on their number
  QueryAddressLimit,  \* the option query-address-limit
  AvailableFilters,   \* the fields a dictionary v2 can filter by
  Transactions, Logs, \* what may be on the chain
  Blocks

ASSUME QueryAssumption ==
  /\ MaxDataSources \in Nat /\ QueryAddressLimit \in Nat

(* A log has at most four topics, and they are words of the chain.         *)
ASSUME LogsAssumption ==
  \A log \in Logs :
    /\ Len(log.topics) \in 0..MaxTopics /\ DOMAIN log.topics = 1..Len(log.topics)
    /\ \A i \in DOMAIN log.topics : log.topics[i] \notin {Undefined, Null, NotNull}

(* The blocks of the chain are full, and a log is of a transaction.        *)
ASSUME BlocksAssumption ==
  \A b \in Blocks :
    /\ ~b.light /\ b.logs \in Seq(Logs)
    /\ b.transactions \in Seq({b.transactions[i] : i \in DOMAIN b.transactions})
    /\ \A log \in AllLogs(b) :
         \E tx \in IndexedTransactions(b) : log.transactionHash = tx.hash

VARIABLES
  dataSources,        \* the datasources at the current height
  queryV1,            \* what buildDictionaryV1QueryEntries returned
  queryV2             \* what buildDictionaryV2QueryEntry returned

vars == <<dataSources, queryV1, queryV2>>

-----------------------------------------------------------------------------
(* groupedDataSources: handlers of one kind and filter, with the addresses *)
(* of the datasources that have them (Undefined for a datasource without). *)
GroupedDataSources(sources) ==
  {[handler |-> h, addresses |-> {ds.address : ds \in {d \in sources : h \in d.handlers}}] :
     h \in UNION {ds.handlers : ds \in sources}}

ValidAddresses(addresses) == addresses \ {Undefined}

In(field, values) == {[field |-> field, is |-> "in", values |-> values]}
IsNull(field)     == {[field |-> field, is |-> "null", values |-> {}]}
IsNotNull(field)  == {[field |-> field, is |-> "notNull", values |-> {}]}

(* A mutant: a datasource without an address does not lift the condition.  *)
AddressConditionOfValid(field, addresses) ==
  IF ValidAddresses(addresses) = {} \/ Cardinality(addresses) > QueryAddressLimit
  THEN {} ELSE In(field, ValidAddresses(addresses))

(* applyAddresses: no condition when a datasource has no address.          *)
AddressCondition(field, addresses) ==
  IF \/ Cardinality(addresses) > QueryAddressLimit
     \/ Undefined \in addresses
  THEN {} ELSE In(field, addresses)

TopicField(i) == <<"topics0", "topics1", "topics2", "topics3">>[i]

(* A mutant: '!null' is sent as if it were a topic.                        *)
TopicConditionsV1Literal(filter) ==
  UNION {In(TopicField(i), {filter.topics[i]}) : i \in FilteredTopics(filter)}

TopicConditionsV1(filter) ==
  UNION {IF filter.topics[i] = NotNull THEN IsNotNull(TopicField(i))
         ELSE In(TopicField(i), {filter.topics[i]}) : i \in FilteredTopics(filter)}

EventEntryV1(filter, addresses) ==
  [kind |-> "Event",
   conditions |-> AddressCondition("address", addresses) \cup TopicConditionsV1(filter)]

(* The address of the datasource takes the place of the filter's to.       *)
CallEntryV1(filter, addresses) ==
  LET to == AddressCondition("to", addresses) IN
  [kind |-> "Call",
   conditions |->
     IF filter = Undefined THEN to ELSE
       (IF filter.from = Undefined THEN {} ELSE In("from", {filter.from}))
       \cup (IF to # {} THEN to
             ELSE IF filter.to = Null THEN IsNull("to")
             ELSE IF Given(filter.to) THEN In("to", {filter.to}) ELSE {})
       \cup (IF filter.function \in {Null, NoInput} THEN IsNull("func")
             ELSE IF Given(filter.function) THEN In("func", {filter.function}) ELSE {})]

(* Does a filter say anything at all?                                      *)
Restricts(handler, addresses) ==
  \/ ValidAddresses(addresses) # {}
  \/ /\ handler.filter # Undefined
     /\ CASE handler.kind = "Call" ->
               \E v \in {handler.filter.to, handler.filter.from,
                         handler.filter.function, handler.filter.type} : v # Undefined
          [] handler.kind = "Event" ->
               handler.filter.topics \notin {Undefined, <<>>}
          [] OTHER -> FALSE

(* A block handler goes with a dictionary only when it has a modulo.       *)
NeedsEveryBlock(group) ==
  /\ group.handler.kind = "Block"
  /\ group.handler.filter = Undefined \/ group.handler.filter.modulo = Undefined

BuildDictionaryV1QueryEntries(sources) ==
  LET groups == GroupedDataSources(sources)
      queried == {g \in groups : g.handler.kind # "Block"}
  IN
  IF \/ \E g \in groups : NeedsEveryBlock(g)
     \/ \E g \in queried : ~Restricts(g.handler, g.addresses)
  THEN {}
  ELSE {IF g.handler.kind = "Call" THEN CallEntryV1(g.handler.filter, g.addresses)
        ELSE EventEntryV1(g.handler.filter, g.addresses) : g \in queried}

-----------------------------------------------------------------------------
Available(conditions) == {c \in conditions : c.field \in AvailableFilters}

(* '!null' empties the list of values of its field: no condition.          *)
EventConditionV2(filter, addresses) ==
  [kind |-> "Event",
   conditions |-> Available(
     AddressCondition("address", addresses)
     \cup UNION {In(TopicField(i), {filter.topics[i]}) :
                   i \in {i \in FilteredTopics(filter) : filter.topics[i] # NotNull}})]

(* A mutant: a condition on to is added beside the address's.              *)
CallConditionV2WithBoth(filter, addresses) ==
  [kind |-> "Call",
   conditions |-> Available(
     AddressCondition("to", addresses)
     \cup (IF filter = Undefined THEN {} ELSE
             (IF filter.from = Undefined THEN {} ELSE In("from", {filter.from}))
             \cup (IF filter.to = Undefined THEN In("to", {Null}) ELSE In("to", {filter.to}))
             \cup (IF Given(filter.function) THEN In("func", {filter.function}) ELSE {})
             \cup (IF filter.type = Undefined THEN {} ELSE In("type", {filter.type}))))]

CallConditionV2(filter, addresses) ==
  LET to == AddressCondition("to", addresses) IN
  [kind |-> "Call",
   conditions |-> Available(
     to
     \cup (IF filter = Undefined THEN {} ELSE
             (IF filter.from = Undefined THEN {} ELSE In("from", {filter.from}))
             \cup (IF to # {} \/ filter.to = Undefined THEN {} ELSE In("to", {filter.to}))
             \cup (IF Given(filter.function) THEN In("func", {filter.function}) ELSE {})
             \cup (IF filter.type = Undefined THEN {} ELSE In("type", {filter.type}))))]

(* A call or log handler that asks for everything is left out.             *)
BuildDictionaryV2QueryEntry(sources) ==
  LET groups == GroupedDataSources(sources)
      queried == {g \in groups :
                    g.handler.kind # "Block" /\ Restricts(g.handler, g.addresses)}
  IN
  IF \E g \in groups : NeedsEveryBlock(g) THEN {}
  ELSE {IF g.handler.kind = "Call" THEN CallConditionV2(g.handler.filter, g.addresses)
        ELSE EventConditionV2(g.handler.filter, g.addresses) : g \in queried}

-----------------------------------------------------------------------------
(* The dictionary.                                                         *)

Field(data, kind, field) ==
  IF kind = "Call"
  THEN CASE field = "to"   -> data.to
         [] field = "from" -> data.from
         [] field = "func" -> IF data.input = NoInput THEN Null ELSE data.input
         [] field = "type" -> data.type
  ELSE IF field = "address" THEN data.address
  ELSE LET topic == {i \in DOMAIN data.topics : TopicField(i) = field} IN
       IF topic = {} THEN Null ELSE data.topics[CHOOSE i \in topic : TRUE]

Meets(condition, kind, data) ==
  LET value == Field(data, kind, condition.field) IN
  CASE condition.is = "in"      -> \/ value \in condition.values
                                   \/ condition.field = "func" /\ value = Null
                                      /\ NoInput \in condition.values
    [] condition.is = "null"    -> value = Null
    [] condition.is = "notNull" -> value # Null

Matches(entry, kind, data) ==
  entry.kind = kind /\ \A c \in entry.conditions : Meets(c, kind, data)

Finds(query, kind, data) == \E e \in query : Matches(e, kind, data)

(* The elements of a sequence that are in a set, in their order.           *)
Selected(s, S) ==
  LET kept[i \in 0..Len(s)] ==
        IF i = 0 THEN <<>>
        ELSE IF s[i] \in S THEN Append(kept[i - 1], s[i]) ELSE kept[i - 1]
  IN  kept[Len(s)]

(* The content a dictionary v2 returns for a block: what an entry matches, *)
(* with the logs of the transactions that match and, unless the node was   *)
(* started with skipTransactions, the transactions of the logs that do     *)
(* (getData, then rawBlockToEthBlock).                                     *)
DictionaryBlock(block, query, skipTransactions) ==
  LET matched == {tx \in IndexedTransactions(block) : Finds(query, "Call", tx)}
      found   == {log \in AllLogs(block) : Finds(query, "Event", log)}
      logsOfMatched == {log \in AllLogs(block) :
                          \E tx \in matched : log.transactionHash = tx.hash}
      txsOfFound == {tx \in IndexedTransactions(block) :
                       \E log \in found : log.transactionHash = tx.hash}
  IN
  [number |-> block.number,
   light |-> FALSE,
   transactions |-> Selected(block.transactions,
                      IF skipTransactions THEN matched ELSE matched \cup txsOfFound),
   logs |-> Selected(block.logs, found \cup logsOfMatched)]

-----------------------------------------------------------------------------
Build(sources) ==
  /\ dataSources' = sources
  /\ queryV1' = BuildDictionaryV1QueryEntries(sources)
  /\ queryV2' = BuildDictionaryV2QueryEntry(sources)

Init ==
  /\ dataSources \in {{ds} : ds \in DataSources}
  /\ queryV1 = BuildDictionaryV1QueryEntries(dataSources)
  /\ queryV2 = BuildDictionaryV2QueryEntry(dataSources)

CreateDynamicDatasource(ds) ==
  /\ Cardinality(dataSources) < MaxDataSources
  /\ Build(dataSources \cup {ds})

Next == \E ds \in DataSources \ dataSources : CreateDynamicDatasource(ds)

Spec == Init /\ [][Next]_vars

-----------------------------------------------------------------------------
(* Properties.                                                             *)

Data(kind) == IF kind = "Call" THEN Transactions ELSE Logs

(* The handlers whose filter and whose query are meant to say the same.    *)
(* Not among them: a call handler of a datasource with an address that has *)
(* no filter, or one that names another to (the filter then ignores the    *)
(* address and the query ignores to); and a topic after '!null', which     *)
(* the query asks for and the filter does not compare.                     *)
Agrees(ds, h) ==
  CASE h.kind = "Event" -> ComparedTopics(h.filter) = FilteredTopics(h.filter)
    [] h.kind = "Call" ->
         ds.address # Undefined =>
           h.filter # Undefined /\ h.filter.to \in {Undefined, ds.address}
    [] OTHER -> FALSE

(* A handler that a dictionary v2 is asked anything for.                   *)
Queried(h) ==
  \A g \in GroupedDataSources(dataSources) :
    g.handler = h => Restricts(h, g.addresses)

(* Nothing a handler wants is lost to a query for a dictionary v1: every   *)
(* transaction and log its filter accepts is found by some entry, whatever *)
(* other datasources share or vary its handlers.                           *)
V1MissesNothing ==
  queryV1 # {} =>
    \A ds \in dataSources : \A h \in ds.handlers :
      Agrees(ds, h) =>
        \A data \in Data(h.kind) :
          Handles(h.kind, h, ds.address, data) => Finds(queryV1, h.kind, data)

(* The same of a dictionary v2, of the handlers it is asked for.           *)
V2MissesNothing ==
  queryV2 # {} =>
    \A ds \in dataSources : \A h \in ds.handlers :
      Agrees(ds, h) /\ Queried(h) =>
        \A data \in Data(h.kind) :
          Handles(h.kind, h, ds.address, data) => Finds(queryV2, h.kind, data)

(* What a handler is run for in a block.                                   *)
HandledIn(block, ds, h) ==
  {data \in (IF h.kind = "Call" THEN IndexedTransactions(block) ELSE IndexedLogs(block)) :
     Handles(h.kind, h, ds.address, data)}

OnlyEventHandlers == \A ds \in dataSources : \A h \in ds.handlers : h.kind = "Event"

(* A dictionary v2 changes what is fetched and not what is indexed: in the *)
(* block it returns a handler finds what it would have found in the block  *)
(* of the chain.  Without their transactions that is so when no handler    *)
(* needs more than logs.                                                   *)
SameHandled(skipTransactions) ==
  queryV2 # {} =>
    \A ds \in dataSources : \A h \in ds.handlers :
      Agrees(ds, h) /\ Queried(h) =>
        \A block \in Blocks :
          HandledIn(DictionaryBlock(block, queryV2, skipTransactions), ds, h)
            = HandledIn(block, ds, h)

DictionaryIsTransparent ==
  SameHandled(FALSE) /\ (OnlyEventHandlers => SameHandled(TRUE))

-----------------------------------------------------------------------------
(* What the repository says of these queries, and the code does not do.    *)

(* The comment in buildDictionaryV2QueryEntry: "No filters, cant use       *)
(* dictionary" - so nothing is lost for a handler that asks for everything.*)
NoFiltersNoDictionary ==
  queryV2 # {} =>
    \A ds \in dataSources : \A h \in ds.handlers :
      h.kind # "Block" /\ h.filter = Undefined /\ ds.address = Undefined =>
        \A data \in Data(h.kind) : Finds(queryV2, h.kind, data)

(* The test "is able to query with not null topics": the query gets the    *)
(* relevant logs and includes events that will be filtered out later.      *)
NotNullTopicsAreQueried ==
  queryV2 # {} =>
    \A ds \in dataSources : \A h \in ds.handlers :
      h.kind = "Event" /\ Queried(h) =>
        \A log \in Logs :
          Handles("Event", h, ds.address, log) => Finds(queryV2, "Event", log)

(* The option address of a datasource is "the specific contract that this  *)
(* datasource should filter".                                              *)
AddressIsFiltered ==
  \A ds \in dataSources : \A h \in ds.handlers : \A tx \in Transactions :
    ds.address # Undefined /\ Handles("Call", h, ds.address, tx) => tx.to = ds.address

(* updateBlockFetching announces that skipTransactions is disabled when    *)
(* the project contains handlers that are not event handlers.              *)
SkipTransactionsIsDisabled == SameHandled(TRUE)
=============================================================================
