------------------------ MODULE DictionaryQueryProofs ------------------------
(***************************************************************************)
(* Proofs about DictionaryQuery, for any datasources, any address limit,   *)
(* any fields a dictionary can filter by and any transactions and logs: no *)
(* query misses what a handler wants.                                      *)
(***************************************************************************)
EXTENDS DictionaryQuery, SequenceTheorems, WellFoundedInduction, TLAPS

(* The queries are always the ones for the datasources of the moment.      *)
QueryInv ==
  /\ queryV1 = BuildDictionaryV1QueryEntries(dataSources)
  /\ queryV2 = BuildDictionaryV2QueryEntry(dataSources)

LEMMA QueryInvariant == Spec => []QueryInv
<1>1. Init => QueryInv
  BY DEF Init, QueryInv
<1>2. QueryInv /\ [Next]_vars => QueryInv'
  BY DEF QueryInv, Next, CreateDynamicDatasource, Build, vars
<1>3. QED
  BY <1>1, <1>2, PTL DEF Spec

-----------------------------------------------------------------------------
(* The group of a handler, with the address of each of its datasources.    *)
GroupOf(h) ==
  [handler |-> h, addresses |-> {ds.address : ds \in {d \in dataSources : h \in d.handlers}}]

LEMMA GroupExists ==
  ASSUME NEW ds \in dataSources, NEW h \in ds.handlers
  PROVE  /\ GroupOf(h) \in GroupedDataSources(dataSources)
         /\ GroupOf(h).handler = h
         /\ ds.address \in GroupOf(h).addresses
  BY DEF GroupedDataSources, GroupOf

(* A grouped query restricts addresses only when every datasource has one, *)
(* and then to a set that holds each of them.                              *)
LEMMA AddressesAreKept ==
  ASSUME NEW field, NEW addresses, NEW address \in addresses,
         NEW c \in AddressCondition(field, addresses)
  PROVE  /\ address # Undefined
         /\ c = [field |-> field, is |-> "in", values |-> addresses]
  BY DEF AddressCondition, In

(* When a condition is met.                                                *)
LEMMA InIsMet ==
  ASSUME NEW data, NEW kind, NEW field, NEW values, NEW c \in In(field, values),
         \/ Field(data, kind, field) \in values
         \/ field = "func" /\ Field(data, kind, field) = Null /\ NoInput \in values
  PROVE  Meets(c, kind, data)
<1>1. c = [field |-> field, is |-> "in", values |-> values]
  BY DEF In
<1>2. c.field = field /\ c.is = "in" /\ c.values = values
  BY <1>1
<1>3. Field(data, kind, c.field) = Field(data, kind, field)
  BY <1>2
<1>4. Meets(c, kind, data) <=>
        \/ Field(data, kind, field) \in values
        \/ field = "func" /\ Field(data, kind, field) = Null /\ NoInput \in values
  BY <1>2, <1>3 DEF Meets
<1>5. QED
  BY <1>4

LEMMA NullIsMet ==
  ASSUME NEW data, NEW kind, NEW field, NEW c \in IsNull(field),
         Field(data, kind, field) = Null
  PROVE  Meets(c, kind, data)
<1>1. c.field = field /\ c.is = "null"
  BY DEF IsNull
<1>2. Field(data, kind, c.field) = Null
  BY <1>1
<1>3. QED
  BY <1>1, <1>2 DEF Meets

-----------------------------------------------------------------------------
(* What the dictionary compares for a log.                                 *)
LEMMA TopicOfLog ==
  ASSUME NEW log \in Logs, NEW i \in 1..MaxTopics, i <= Len(log.topics)
  PROVE  Field(log, "Event", TopicField(i)) = log.topics[i]
<1> DEFINE found == {j \in DOMAIN log.topics : TopicField(j) = TopicField(i)}
<1>1. DOMAIN log.topics \subseteq 1..4 /\ i \in DOMAIN log.topics
  BY LogsAssumption DEF MaxTopics
<1>2. \A j \in 1..4 : TopicField(j) = TopicField(i) => j = i
  BY DEF TopicField, MaxTopics
<1>3. found = {i}
  BY <1>1, <1>2
<1>4. TopicField(i) # "address"
  BY DEF TopicField, MaxTopics
<1>5. (CHOOSE j \in found : TRUE) = i
  BY <1>3
<1>6. QED
  BY <1>3, <1>4, <1>5 DEF Field

LEMMA AddressOfLog == ASSUME NEW log PROVE Field(log, "Event", "address") = log.address
  BY DEF Field

(* A log that the filter of a handler accepts meets every condition of the *)
(* entry made from it, when the filter compares all of its topics.         *)
LEMMA EventMeetsAddress ==
  ASSUME NEW log, NEW filter, NEW addresses, NEW address \in addresses,
         FilterLogsProcessor(log, filter, address),
         NEW c \in AddressCondition("address", addresses)
  PROVE  Meets(c, "Event", log)
<1>1. /\ address # Undefined
      /\ c = [field |-> "address", is |-> "in", values |-> addresses]
  BY AddressesAreKept
<1>2. log.address = address
  BY <1>1 DEF FilterLogsProcessor
<1>3. QED
  BY <1>1, <1>2, AddressOfLog DEF Meets

LEMMA TopicIsAccepted ==
  ASSUME NEW log \in Logs, NEW filter, NEW address,
         FilterLogsProcessor(log, filter, address),
         ComparedTopics(filter) = FilteredTopics(filter),
         NEW i \in FilteredTopics(filter)
  PROVE  /\ Field(log, "Event", TopicField(i)) = log.topics[i]
         /\ log.topics[i] # Null
         /\ filter.topics[i] \in {NotNull, log.topics[i]}
<1>1. i \in 1..MaxTopics
  BY DEF FilteredTopics
<1>2. i <= Len(log.topics) /\ filter.topics[i] \in {NotNull, log.topics[i]}
  BY DEF FilterLogsProcessor
<1>3. i \in DOMAIN log.topics
  BY <1>1, <1>2, LogsAssumption DEF MaxTopics
<1>4. QED
  BY <1>1, <1>2, <1>3, TopicOfLog, LogsAssumption

LEMMA EventMeetsTopicsV1 ==
  ASSUME NEW log \in Logs, NEW filter, NEW address,
         FilterLogsProcessor(log, filter, address),
         ComparedTopics(filter) = FilteredTopics(filter),
         NEW c \in TopicConditionsV1(filter)
  PROVE  Meets(c, "Event", log)
<1>1. PICK i \in FilteredTopics(filter) :
        c \in IF filter.topics[i] = NotNull THEN IsNotNull(TopicField(i))
              ELSE In(TopicField(i), {filter.topics[i]})
  BY DEF TopicConditionsV1
<1>2. /\ Field(log, "Event", TopicField(i)) = log.topics[i]
      /\ log.topics[i] # Null
      /\ filter.topics[i] \in {NotNull, log.topics[i]}
  BY TopicIsAccepted
<1>3. CASE filter.topics[i] = NotNull
  BY <1>1, <1>2, <1>3 DEF IsNotNull, Meets
<1>4. CASE filter.topics[i] # NotNull
  <2>1. c \in In(TopicField(i), {filter.topics[i]}) /\ log.topics[i] \in {filter.topics[i]}
    BY <1>1, <1>2, <1>4
  <2>2. QED
    BY <1>2, <2>1, InIsMet
<1>5. QED
  BY <1>3, <1>4

LEMMA EventMeetsTopicsV2 ==
  ASSUME NEW log \in Logs, NEW filter, NEW address,
         FilterLogsProcessor(log, filter, address),
         ComparedTopics(filter) = FilteredTopics(filter),
         NEW i \in FilteredTopics(filter), filter.topics[i] # NotNull,
         NEW c \in In(TopicField(i), {filter.topics[i]})
  PROVE  Meets(c, "Event", log)
<1>1. /\ Field(log, "Event", TopicField(i)) = log.topics[i]
      /\ log.topics[i] \in {filter.topics[i]}
  BY TopicIsAccepted
<1>2. QED
  BY <1>1, InIsMet

-----------------------------------------------------------------------------
(* What the dictionary compares for a transaction.                         *)
LEMMA FieldsOfCall ==
  ASSUME NEW tx
  PROVE  /\ Field(tx, "Call", "to") = tx.to
         /\ Field(tx, "Call", "from") = tx.from
         /\ Field(tx, "Call", "func") = IF tx.input = NoInput THEN Null ELSE tx.input
         /\ Field(tx, "Call", "type") = tx.type
  BY DEF Field

(* A datasource with an address, whose filter agrees with its query, takes *)
(* only the transactions to that address.                                  *)
LEMMA CallIsToAddress ==
  ASSUME NEW tx, NEW filter, NEW address,
         FilterTransactionsProcessor(tx, filter, address),
         address # Undefined, filter # Undefined, filter.to \in {Undefined, address}
  PROVE  tx.to = address
  BY DEF FilterTransactionsProcessor, Given

LEMMA CallMeetsAddress ==
  ASSUME NEW tx, NEW filter, NEW addresses, NEW address \in addresses,
         FilterTransactionsProcessor(tx, filter, address),
         address # Undefined => filter # Undefined /\ filter.to \in {Undefined, address},
         NEW c \in AddressCondition("to", addresses)
  PROVE  Meets(c, "Call", tx)
<1>1. /\ address # Undefined
      /\ c = [field |-> "to", is |-> "in", values |-> addresses]
  BY AddressesAreKept
<1>2. tx.to = address
  BY <1>1, CallIsToAddress
<1>3. QED
  BY <1>1, <1>2, FieldsOfCall DEF Meets

LEMMA CallMeetsV1 ==
  ASSUME NEW tx, NEW filter, NEW addresses, NEW address \in addresses,
         FilterTransactionsProcessor(tx, filter, address),
         address # Undefined => filter # Undefined /\ filter.to \in {Undefined, address},
         NEW c \in CallEntryV1(filter, addresses).conditions
  PROVE  Meets(c, "Call", tx)
<1>1. CASE c \in AddressCondition("to", addresses)
  BY <1>1, CallMeetsAddress
<1>2. CASE c \notin AddressCondition("to", addresses)
  <2>1. filter # Undefined
    BY <1>2 DEF CallEntryV1
  <2>2. \/ filter.from # Undefined /\ c \in In("from", {filter.from})
        \/ filter.to = Null /\ c \in IsNull("to")
        \/ Given(filter.to) /\ c \in In("to", {filter.to})
        \/ filter.function \in {Null, NoInput} /\ c \in IsNull("func")
        \/ /\ filter.function \notin {Null, NoInput} /\ Given(filter.function)
           /\ c \in In("func", {filter.function})
    BY <1>2, <2>1 DEF CallEntryV1
  <2>3. CASE filter.from # Undefined /\ c \in In("from", {filter.from})
    <3>1. Field(tx, "Call", "from") \in {filter.from}
      BY <2>1, <2>3, FieldsOfCall DEF FilterTransactionsProcessor
    <3>2. QED
      BY <2>3, <3>1, InIsMet
  <2>4. CASE filter.to = Null /\ c \in IsNull("to")
    <3>1. Field(tx, "Call", "to") = Null
      BY <2>1, <2>4, FieldsOfCall DEF FilterTransactionsProcessor
    <3>2. QED
      BY <2>4, <3>1, NullIsMet
  <2>5. CASE Given(filter.to) /\ c \in In("to", {filter.to})
    <3>1. Field(tx, "Call", "to") \in {filter.to}
      BY <2>1, <2>5, FieldsOfCall DEF FilterTransactionsProcessor
    <3>2. QED
      BY <2>5, <3>1, InIsMet
  <2>6. CASE filter.function \in {Null, NoInput} /\ c \in IsNull("func")
    <3>1. Field(tx, "Call", "func") = Null
      BY <2>1, <2>6, FieldsOfCall DEF FilterTransactionsProcessor
    <3>2. QED
      BY <2>6, <3>1, NullIsMet
  <2>7. CASE /\ filter.function \notin {Null, NoInput} /\ Given(filter.function)
             /\ c \in In("func", {filter.function})
    <3>1. tx.input = filter.function
      BY <2>1, <2>7 DEF FilterTransactionsProcessor
    <3>2. Field(tx, "Call", "func") \in {filter.function}
      BY <2>7, <3>1, FieldsOfCall
    <3>3. QED
      BY <2>7, <3>2, InIsMet
  <2>8. QED
    BY <2>2, <2>3, <2>4, <2>5, <2>6, <2>7
<1>3. QED
  BY <1>1, <1>2

LEMMA CallMeetsV2 ==
  ASSUME NEW tx, NEW filter, NEW addresses, NEW address \in addresses,
         FilterTransactionsProcessor(tx, filter, address),
         address # Undefined => filter # Undefined /\ filter.to \in {Undefined, address},
         NEW c \in CallConditionV2(filter, addresses).conditions
  PROVE  Meets(c, "Call", tx)
<1>1. CASE c \in AddressCondition("to", addresses)
  BY <1>1, CallMeetsAddress
<1>2. CASE c \notin AddressCondition("to", addresses)
  <2>1. filter # Undefined
    BY <1>2 DEF CallConditionV2, Available
  <2>2. \/ filter.from # Undefined /\ c \in In("from", {filter.from})
        \/ filter.to # Undefined /\ c \in In("to", {filter.to})
        \/ Given(filter.function) /\ c \in In("func", {filter.function})
        \/ filter.type # Undefined /\ c \in In("type", {filter.type})
    BY <1>2, <2>1 DEF CallConditionV2, Available
  <2>3. CASE filter.to # Undefined /\ c \in In("to", {filter.to})
    <3>1. Field(tx, "Call", "to") \in {filter.to}
      BY <2>1, <2>3, FieldsOfCall DEF FilterTransactionsProcessor, Given
    <3>2. QED
      BY <2>3, <3>1, InIsMet
  <2>4. CASE Given(filter.function) /\ c \in In("func", {filter.function})
    <3>1. tx.input = filter.function
      BY <2>1, <2>4 DEF FilterTransactionsProcessor
    <3>2. \/ Field(tx, "Call", "func") \in {filter.function}
          \/ Field(tx, "Call", "func") = Null /\ NoInput \in {filter.function}
      BY <3>1, FieldsOfCall
    <3>3. QED
      BY <2>4, <3>2, InIsMet
  <2>5. CASE filter.from # Undefined /\ c \in In("from", {filter.from})
    <3>1. Field(tx, "Call", "from") \in {filter.from}
      BY <2>1, <2>5, FieldsOfCall DEF FilterTransactionsProcessor
    <3>2. QED
      BY <2>5, <3>1, InIsMet
  <2>6. CASE filter.type # Undefined /\ c \in In("type", {filter.type})
    <3>1. Field(tx, "Call", "type") \in {filter.type}
      BY <2>1, <2>6, FieldsOfCall DEF FilterTransactionsProcessor
    <3>2. QED
      BY <2>6, <3>1, InIsMet
  <2>7. QED
    BY <2>2, <2>3, <2>4, <2>5, <2>6
<1>3. QED
  BY <1>1, <1>2

-----------------------------------------------------------------------------
(* A query for a dictionary v1 finds every transaction and log that a      *)
(* handler accepts, whatever other datasources share its handlers or are   *)
(* created while indexing (buildDictionaryV1QueryEntries).                 *)
THEOREM V1Correct == Spec => []V1MissesNothing
<1>1. QueryInv => V1MissesNothing
  <2> SUFFICES ASSUME QueryInv, queryV1 # {},
                      NEW ds \in dataSources, NEW h \in ds.handlers, Agrees(ds, h),
                      NEW data \in Data(h.kind), Handles(h.kind, h, ds.address, data)
               PROVE  Finds(queryV1, h.kind, data)
    BY DEF V1MissesNothing
  <2> DEFINE g == GroupOf(h)
  <2>1. g \in GroupedDataSources(dataSources) /\ g.handler = h /\ ds.address \in g.addresses
    BY GroupExists
  <2> HIDE DEF g
  <2>2. queryV1 =
          {IF f.handler.kind = "Call" THEN CallEntryV1(f.handler.filter, f.addresses)
           ELSE EventEntryV1(f.handler.filter, f.addresses) :
             f \in {f \in GroupedDataSources(dataSources) : f.handler.kind # "Block"}}
    BY DEF QueryInv, BuildDictionaryV1QueryEntries
  <2>3. CASE h.kind = "Event"
    <3> DEFINE entry == EventEntryV1(h.filter, g.addresses)
    <3>1. entry \in queryV1
      BY <2>1, <2>2, <2>3
    <3>2. data \in Logs /\ FilterLogsProcessor(data, h.filter, ds.address)
      BY <2>3 DEF Data, Handles
    <3>3. ComparedTopics(h.filter) = FilteredTopics(h.filter)
      BY <2>3 DEF Agrees
    <3>4. \A c \in entry.conditions : Meets(c, "Event", data)
      BY <2>1, <3>2, <3>3, EventMeetsAddress, EventMeetsTopicsV1 DEF EventEntryV1
    <3>5. entry.kind = "Event"
      BY DEF EventEntryV1
    <3> HIDE DEF entry
    <3>6. QED
      BY <2>3, <3>1, <3>4, <3>5 DEF Finds, Matches
  <2>4. CASE h.kind = "Call"
    <3> DEFINE entry == CallEntryV1(h.filter, g.addresses)
    <3>1. entry \in queryV1
      BY <2>1, <2>2, <2>4
    <3>2. FilterTransactionsProcessor(data, h.filter, ds.address)
      BY <2>4 DEF Handles
    <3>3. ds.address # Undefined => h.filter # Undefined /\ h.filter.to \in {Undefined, ds.address}
      BY <2>4 DEF Agrees
    <3>4. \A c \in entry.conditions : Meets(c, "Call", data)
      BY <2>1, <3>2, <3>3, CallMeetsV1
    <3>5. entry.kind = "Call"
      BY DEF CallEntryV1
    <3> HIDE DEF entry
    <3>6. QED
      BY <2>4, <3>1, <3>4, <3>5 DEF Finds, Matches
  <2>5. QED
    BY <2>3, <2>4 DEF Agrees
<1>2. QED
  BY <1>1, QueryInvariant, PTL

(* What is found of the handlers a dictionary v2 is asked for, by an entry *)
(* of their group.                                                         *)
LEMMA EntryV2 ==
  ASSUME QueryInv, queryV2 # {}
  PROVE  queryV2 =
          {IF f.handler.kind = "Call" THEN CallConditionV2(f.handler.filter, f.addresses)
           ELSE EventConditionV2(f.handler.filter, f.addresses) :
             f \in {f \in GroupedDataSources(dataSources) :
                      f.handler.kind # "Block" /\ Restricts(f.handler, f.addresses)}}
  BY DEF QueryInv, BuildDictionaryV2QueryEntry

LEMMA FindsEvent ==
  ASSUME QueryInv, queryV2 # {}, NEW ds \in dataSources, NEW h \in ds.handlers,
         Agrees(ds, h), Queried(h), h.kind = "Event",
         NEW log \in Logs, Handles("Event", h, ds.address, log)
  PROVE  Finds(queryV2, "Event", log)
<1>. DEFINE g == GroupOf(h)
<1>1. g \in GroupedDataSources(dataSources) /\ g.handler = h /\ ds.address \in g.addresses
  BY GroupExists
<1>. HIDE DEF g
<1>. DEFINE entry == EventConditionV2(h.filter, g.addresses)
<1>2. Restricts(g.handler, g.addresses)
  BY <1>1 DEF Queried
<1>3. entry \in queryV2
  BY <1>1, <1>2, EntryV2
<1>4. FilterLogsProcessor(log, h.filter, ds.address)
  BY DEF Handles
<1>5. ComparedTopics(h.filter) = FilteredTopics(h.filter)
  BY DEF Agrees
<1>6. ASSUME NEW c \in entry.conditions PROVE Meets(c, "Event", log)
  <2>1. CASE c \in AddressCondition("address", g.addresses)
    BY <1>1, <1>4, <2>1, EventMeetsAddress
  <2>2. CASE c \notin AddressCondition("address", g.addresses)
    <3>1. PICK i \in FilteredTopics(h.filter) :
            /\ h.filter.topics[i] # NotNull
            /\ c \in In(TopicField(i), {h.filter.topics[i]})
      BY <2>2 DEF EventConditionV2, Available
    <3>. QED BY <1>4, <1>5, <3>1, EventMeetsTopicsV2
  <2>. QED BY <2>1, <2>2
<1>7. entry.kind = "Event"
  BY DEF EventConditionV2
<1>. HIDE DEF entry
<1>. QED BY <1>3, <1>6, <1>7 DEF Finds, Matches

LEMMA FindsCall ==
  ASSUME QueryInv, queryV2 # {}, NEW ds \in dataSources, NEW h \in ds.handlers,
         Agrees(ds, h), Queried(h), h.kind = "Call",
         NEW tx, Handles("Call", h, ds.address, tx)
  PROVE  Finds(queryV2, "Call", tx)
<1>. DEFINE g == GroupOf(h)
<1>1. g \in GroupedDataSources(dataSources) /\ g.handler = h /\ ds.address \in g.addresses
  BY GroupExists
<1>. HIDE DEF g
<1>. DEFINE entry == CallConditionV2(h.filter, g.addresses)
<1>2. Restricts(g.handler, g.addresses)
  BY <1>1 DEF Queried
<1>3. entry \in queryV2
  BY <1>1, <1>2, EntryV2
<1>4. FilterTransactionsProcessor(tx, h.filter, ds.address)
  BY DEF Handles
<1>5. ds.address # Undefined => h.filter # Undefined /\ h.filter.to \in {Undefined, ds.address}
  BY DEF Agrees
<1>6. \A c \in entry.conditions : Meets(c, "Call", tx)
  BY <1>1, <1>4, <1>5, CallMeetsV2
<1>7. entry.kind = "Call"
  BY DEF CallConditionV2
<1>. HIDE DEF entry
<1>. QED BY <1>3, <1>6, <1>7 DEF Finds, Matches

(* Without call handlers no transaction is asked for.                      *)
LEMMA OnlyEventsFound ==
  ASSUME QueryInv, queryV2 # {}, OnlyEventHandlers
  PROVE  \A tx : ~Finds(queryV2, "Call", tx)
<1>1. ASSUME NEW f \in GroupedDataSources(dataSources) PROVE f.handler.kind = "Event"
  BY DEF GroupedDataSources, OnlyEventHandlers
<1>2. ASSUME NEW e \in queryV2 PROVE e.kind = "Event"
  <2>1. PICK f \in GroupedDataSources(dataSources) :
          e = IF f.handler.kind = "Call" THEN CallConditionV2(f.handler.filter, f.addresses)
              ELSE EventConditionV2(f.handler.filter, f.addresses)
    BY EntryV2
  <2>2. f.handler.kind = "Event"
    BY <1>1
  <2>. QED BY <2>1, <2>2 DEF EventConditionV2
<1>. QED BY <1>2 DEF Finds, Matches

(* The same of a dictionary v2, of the handlers it is asked for, for any   *)
(* fields that it can filter by (buildDictionaryV2QueryEntry).             *)
THEOREM V2Correct == Spec => []V2MissesNothing
<1>1. QueryInv => V2MissesNothing
  <2> SUFFICES ASSUME QueryInv, queryV2 # {},
                      NEW ds \in dataSources, NEW h \in ds.handlers,
                      Agrees(ds, h), Queried(h),
                      NEW data \in Data(h.kind), Handles(h.kind, h, ds.address, data)
               PROVE  Finds(queryV2, h.kind, data)
    BY DEF V2MissesNothing
  <2>1. CASE h.kind = "Event"
    BY <2>1, FindsEvent DEF Data
  <2>2. CASE h.kind = "Call"
    BY <2>2, FindsCall
  <2>3. QED
    BY <2>1, <2>2 DEF Agrees
<1>2. QED
  BY <1>1, QueryInvariant, PTL

-----------------------------------------------------------------------------
(* What a selection from a sequence holds.  Selected is a recursive        *)
(* function: it exists, and what it holds is shown by the least length for *)
(* which it would be wrong.                                                *)

(* A nonempty set of natural numbers has a least element.                  *)
LEMMA LeastNumber ==
  ASSUME NEW T, T \subseteq Nat, T # {}
  PROVE  \E m \in T : \A n \in T : m <= n
<1>. DEFINE Less == OpToRel(<, Nat)
<1>1. IsWellFoundedOn(Less, Nat)
  BY NatLessThanWellFounded
<1>2. Less = {ss \in Nat \X Nat : ss[1] < ss[2]}
  BY Zenon DEF OpToRel
<1>. HIDE DEF Less
<1>3. PICK m \in T : \A n \in T : ~(<<n, m>> \in Less)
  BY <1>1, WFMin
<1>4. ASSUME NEW n \in T PROVE m <= n
  <2>1. n \in Nat /\ m \in Nat
    OBVIOUS
  <2>2. ~(<<n, m>> \in Less)
    BY <1>3
  <2>3. ~(n < m)
    BY <2>1, <2>2, <1>2
  <2>. QED BY <2>1, <2>3
<1>. QED BY <1>3, <1>4

(* The part selected from the first i elements, given those before.        *)
Kept(s, S, f, i) ==
  IF i = 0 THEN <<>>
  ELSE IF s[i] \in S THEN Append(f[i - 1], s[i]) ELSE f[i - 1]

LEMMA SelectedIsDefined ==
  ASSUME NEW T, NEW s \in Seq(T), NEW S
  PROVE  \E f : f = [i \in 0..Len(s) |-> Kept(s, S, f, i)]
<1>0. Len(s) \in Nat /\ \A i \in 1..Len(s) : s[i] \in T
  BY LenProperties, ElementOfSeq
<1>. DEFINE Defined(n) == \E f \in [0..n -> Seq(T)] : \A i \in 0..n : f[i] = Kept(s, S, f, i)
            Bad == {n \in 0..Len(s) : ~Defined(n)}
<1>1. ASSUME Bad # {} PROVE FALSE
  <2>1. PICK m \in Bad : \A n \in Bad : m <= n
    <3>1. Bad \subseteq Nat
      BY <1>0
    <3>. HIDE DEF Bad
    <3>. QED BY <1>1, <3>1, LeastNumber
  <2>2. m \in 0..Len(s) /\ ~Defined(m)
    BY <2>1
  <2>3. CASE m = 0
    <3>. DEFINE f == [i \in 0..0 |-> <<>>]
    <3>1. f \in [0..0 -> Seq(T)]
      BY EmptySeq
    <3>2. \A i \in 0..0 : f[i] = Kept(s, S, f, i)
      BY DEF Kept
    <3>. QED BY <2>2, <2>3, <3>1, <3>2
  <2>4. CASE m # 0
    <3>1. m - 1 \in 0..Len(s) /\ ~(m <= m - 1) /\ m \in Nat
      BY <1>0, <2>2, <2>4
    <3>2. Defined(m - 1)
      BY <2>1, <3>1
    <3>3. PICK g \in [0..(m - 1) -> Seq(T)] : \A i \in 0..(m - 1) : g[i] = Kept(s, S, g, i)
      BY <3>2
    <3>. DEFINE f == [i \in 0..m |-> IF i = m THEN Kept(s, S, g, m) ELSE g[i]]
    <3>4. g[m - 1] \in Seq(T) /\ s[m] \in T
      BY <1>0, <2>2, <2>4, <3>1, <3>3
    <3>5. Kept(s, S, g, m) \in Seq(T)
      BY <2>4, <3>4, AppendProperties DEF Kept
    <3>6. f \in [0..m -> Seq(T)]
      BY <3>1, <3>5
    <3>7. ASSUME NEW i \in 0..m PROVE f[i] = Kept(s, S, f, i)
      <4>1. CASE i = m
        <5>1. f[m - 1] = g[m - 1]
          BY <3>1
        <5>. QED BY <2>4, <4>1, <5>1 DEF Kept
      <4>2. CASE i # m /\ i # 0
        <5>1. i \in 0..(m - 1) /\ i - 1 \in 0..m /\ i - 1 # m
          BY <3>1, <4>2
        <5>2. f[i] = g[i] /\ f[i - 1] = g[i - 1]
          BY <4>2, <5>1
        <5>. QED BY <3>3, <5>1, <5>2 DEF Kept
      <4>3. CASE i = 0
        BY <2>4, <3>1, <3>3, <4>3 DEF Kept
      <4>. QED BY <4>1, <4>2, <4>3
    <3>. HIDE DEF f
    <3>. QED BY <2>2, <3>6, <3>7
  <2>. QED BY <2>3, <2>4
<1>2. Defined(Len(s))
  <2>1. Len(s) \in 0..Len(s)
    BY <1>0
  <2>. HIDE DEF Defined
  <2>2. Len(s) \notin Bad
    BY <1>1
  <2>. QED BY <2>1, <2>2
<1>. HIDE DEF Defined
<1>3. PICK f \in [0..Len(s) -> Seq(T)] : \A i \in 0..Len(s) : f[i] = Kept(s, S, f, i)
  BY <1>2 DEF Defined
<1>4. f = [i \in 0..Len(s) |-> Kept(s, S, f, i)]
  BY <1>3
<1>. QED BY <1>4

LEMMA SelectedElements ==
  ASSUME NEW T, NEW s \in Seq(T), NEW S
  PROVE  /\ Selected(s, S) \in Seq(T)
         /\ \A x : (\E k \in DOMAIN Selected(s, S) : Selected(s, S)[k] = x)
                     <=> x \in S /\ \E i \in DOMAIN s : s[i] = x
<1>0. /\ Len(s) \in Nat /\ DOMAIN s = 1..Len(s)
      /\ \A i \in 1..Len(s) : s[i] \in T
  BY LenProperties, ElementOfSeq
<1>1. PICK f : /\ f = [i \in 0..Len(s) |-> Kept(s, S, f, i)]
               /\ Selected(s, S) = f[Len(s)]
  <2>. DEFINE F == CHOOSE f : f = [i \in 0..Len(s) |-> Kept(s, S, f, i)]
  <2>1. F = [i \in 0..Len(s) |-> Kept(s, S, F, i)]
    BY SelectedIsDefined
  <2>2. Selected(s, S) = F[Len(s)]
    BY DEF Selected, Kept
  <2>. HIDE DEF F
  <2>. QED BY <2>1, <2>2
<1>. DEFINE Holds(n) ==
       /\ f[n] \in Seq(T)
       /\ \A x : (\E k \in 1..Len(f[n]) : f[n][k] = x) <=> x \in S /\ \E i \in 1..n : s[i] = x
            Bad == {n \in 0..Len(s) : ~Holds(n)}
<1>2. ASSUME Bad # {} PROVE FALSE
  <2>1. PICK m \in Bad : \A n \in Bad : m <= n
    <3>1. Bad \subseteq Nat
      BY <1>0
    <3>. HIDE DEF Bad
    <3>. QED BY <1>2, <3>1, LeastNumber
  <2>2. m \in 0..Len(s) /\ ~Holds(m) /\ m \in Nat
    BY <1>0, <2>1
  <2>3. f[m] = Kept(s, S, f, m)
    BY <1>1, <2>2
  <2>4. CASE m = 0
    <3>1. f[m] = <<>>
      BY <2>3, <2>4 DEF Kept
    <3>. QED BY <2>2, <2>4, <3>1
  <2>5. CASE m # 0
    <3>1. m - 1 \in 0..Len(s) /\ ~(m <= m - 1) /\ m \in 1..Len(s) /\ s[m] \in T
      BY <1>0, <2>2, <2>5
    <3>2. Holds(m - 1)
      BY <2>1, <3>1
    <3>3. PICK p : p = f[m - 1]
      OBVIOUS
    <3>4. /\ p \in Seq(T) /\ Len(p) \in Nat
          /\ \A x : (\E k \in 1..Len(p) : p[k] = x) <=> x \in S /\ \E i \in 1..(m - 1) : s[i] = x
      BY <3>2, <3>3, LenProperties
    <3>5. \A x : (\E i \in 1..m : s[i] = x) <=> s[m] = x \/ \E i \in 1..(m - 1) : s[i] = x
      <4>1. \A i \in 1..m : i = m \/ i \in 1..(m - 1)
        BY <2>2
      <4>2. m \in 1..m /\ \A i \in 1..(m - 1) : i \in 1..m
        BY <3>1
      <4>. QED BY <4>1, <4>2
    <3>6. CASE s[m] \notin S
      <4>1. f[m] = p
        BY <2>3, <2>5, <3>3, <3>6 DEF Kept
      <4>. QED BY <2>2, <3>4, <3>5, <3>6, <4>1
    <3>7. CASE s[m] \in S
      <4>1. f[m] = Append(p, s[m])
        BY <2>3, <2>5, <3>3, <3>7 DEF Kept
      <4>2. PICK q : q = f[m]
        OBVIOUS
      <4>3. /\ q \in Seq(T) /\ Len(q) = Len(p) + 1 /\ q[Len(p) + 1] = s[m]
            /\ \A k \in 1..Len(p) : q[k] = p[k]
        BY <3>1, <3>4, <4>1, <4>2, AppendProperties
      <4>4. \A x : (\E k \in 1..Len(q) : q[k] = x) <=> s[m] = x \/ \E k \in 1..Len(p) : p[k] = x
        <5>1. \A k \in 1..Len(q) : k = Len(p) + 1 \/ k \in 1..Len(p)
          BY <3>4, <4>3
        <5>2. Len(p) + 1 \in 1..Len(q) /\ \A k \in 1..Len(p) : k \in 1..Len(q)
          BY <3>4, <4>3
        <5>. QED BY <4>3, <5>1, <5>2
      <4>. QED BY <2>2, <3>4, <3>5, <3>7, <4>2, <4>3, <4>4
    <3>. QED BY <3>6, <3>7
  <2>. QED BY <2>4, <2>5
<1>3. Holds(Len(s))
  <2>1. Len(s) \in 0..Len(s)
    BY <1>0
  <2>. HIDE DEF Holds
  <2>2. Len(s) \notin Bad
    BY <1>2
  <2>. QED BY <2>1, <2>2
<1>4. DOMAIN f[Len(s)] = 1..Len(f[Len(s)])
  BY <1>3, LenProperties
<1>. QED BY <1>0, <1>1, <1>3, <1>4

-----------------------------------------------------------------------------
(* What the block of a dictionary v2 offers to handlers.                   *)

ElementsOf(s) == {s[i] : i \in DOMAIN s}

LEMMA SelectedSet ==
  ASSUME NEW T, NEW s \in Seq(T), NEW S
  PROVE  ElementsOf(Selected(s, S)) = S \cap ElementsOf(s)
<1>1. \A x : (\E k \in DOMAIN Selected(s, S) : Selected(s, S)[k] = x)
              <=> x \in S /\ \E i \in DOMAIN s : s[i] = x
  BY SelectedElements
<1>. QED BY <1>1 DEF ElementsOf

LEMMA NoElements ==
  ASSUME NEW T, NEW s \in Seq(T)
  PROVE  s = <<>> <=> ElementsOf(s) = {}
<1>1. DOMAIN s = 1..Len(s) /\ Len(s) \in Nat
  BY LenProperties
<1>2. s = <<>> <=> Len(s) = 0
  BY EmptySeq, LenProperties
<1>3. ElementsOf(s) = {} <=> DOMAIN s = {}
  BY DEF ElementsOf
<1>4. 1..Len(s) = {} <=> Len(s) = 0
  <2>1. Len(s) # 0 => 1 \in 1..Len(s)
    BY <1>1
  <2>2. Len(s) = 0 => 1..Len(s) = {}
    OBVIOUS
  <2>. QED BY <2>1, <2>2
<1>. QED BY <1>1, <1>2, <1>3, <1>4

(* The transactions and logs of a block of the chain.                      *)
LEMMA BlockOfChain ==
  ASSUME NEW b \in Blocks
  PROVE  /\ IndexedTransactions(b) = ElementsOf(b.transactions)
         /\ IndexedLogs(b) = ElementsOf(b.logs)
         /\ AllLogs(b) = ElementsOf(b.logs) /\ AllLogs(b) \subseteq Logs
         /\ \A log \in AllLogs(b) :
              \E tx \in ElementsOf(b.transactions) : log.transactionHash = tx.hash
<1>1. /\ ~b.light /\ b.logs \in Seq(Logs)
      /\ b.transactions \in Seq({b.transactions[i] : i \in DOMAIN b.transactions})
      /\ \A log \in AllLogs(b) :
           \E tx \in IndexedTransactions(b) : log.transactionHash = tx.hash
  BY BlocksAssumption
<1>2. AllLogs(b) = ElementsOf(b.logs)
  BY DEF AllLogs, ElementsOf
<1>3. AllLogs(b) \subseteq Logs
  <2>1. \A i \in DOMAIN b.logs : b.logs[i] \in Logs
    BY <1>1, LenProperties, ElementOfSeq
  <2>. QED BY <2>1 DEF AllLogs
<1>4. IndexedTransactions(b) = ElementsOf(b.transactions)
  <2>1. CASE b.transactions = <<>>
    <3>1. ElementsOf(b.transactions) = {}
      BY <1>1, <2>1, NoElements
    <3>. QED BY <2>1, <3>1 DEF IndexedTransactions, IsFullBlock
  <2>2. CASE b.transactions # <<>>
    BY <1>1, <2>2 DEF IndexedTransactions, IsFullBlock, ElementsOf
  <2>. QED BY <2>1, <2>2
<1>5. IndexedLogs(b) = ElementsOf(b.logs)
  <2>1. CASE ~IsFullBlock(b)
    BY <1>2, <2>1 DEF IndexedLogs
  <2>2. CASE IsFullBlock(b)
    <3>1. \A x : x \in IndexedLogs(b) <=>
            \E tx \in IndexedTransactions(b) : \E l \in DOMAIN b.logs :
              b.logs[l].transactionHash = tx.hash /\ x = b.logs[l]
      BY <2>2 DEF IndexedLogs, LogsOf
    <3>2. \A l \in DOMAIN b.logs : \E tx \in IndexedTransactions(b) :
            b.logs[l].transactionHash = tx.hash
      BY <1>1 DEF AllLogs
    <3>3. \A x : x \in ElementsOf(b.logs) <=> \E l \in DOMAIN b.logs : x = b.logs[l]
      BY DEF ElementsOf
    <3>. QED BY <3>1, <3>2, <3>3
  <2>. QED BY <2>1, <2>2
<1>. QED BY <1>1, <1>2, <1>3, <1>4, <1>5

Matched(b, query) == {tx \in ElementsOf(b.transactions) : Finds(query, "Call", tx)}
Found(b, query)   == {log \in ElementsOf(b.logs) : Finds(query, "Event", log)}

(* What the block of the dictionary holds of it.                           *)
LEMMA BlockOfDictionary ==
  ASSUME NEW b \in Blocks, NEW query, NEW skip \in BOOLEAN, NEW d,
         d = DictionaryBlock(b, query, skip)
  PROVE  /\ \A tx : tx \in IndexedTransactions(d) <=>
              /\ tx \in ElementsOf(b.transactions)
              /\ \/ tx \in Matched(b, query)
                 \/ ~skip /\ \E log \in Found(b, query) : log.transactionHash = tx.hash
         /\ \A log : log \in AllLogs(d) <=>
              /\ log \in ElementsOf(b.logs)
              /\ \/ log \in Found(b, query)
                 \/ \E tx \in Matched(b, query) : log.transactionHash = tx.hash
         /\ IndexedLogs(d) = IF IndexedTransactions(d) = {} THEN AllLogs(d)
                             ELSE {log \in AllLogs(d) : \E tx \in IndexedTransactions(d) :
                                                         log.transactionHash = tx.hash}
<1>. DEFINE matched == Matched(b, query)
            found == Found(b, query)
            txs == {tx \in ElementsOf(b.transactions) :
                      \E log \in found : log.transactionHash = tx.hash}
            logs == {log \in ElementsOf(b.logs) :
                       \E tx \in matched : log.transactionHash = tx.hash}
            T == {b.transactions[i] : i \in DOMAIN b.transactions}
<1>1. /\ IndexedTransactions(b) = ElementsOf(b.transactions)
      /\ AllLogs(b) = ElementsOf(b.logs)
  BY BlockOfChain
<1>2. b.transactions \in Seq(T) /\ b.logs \in Seq(Logs)
  BY BlocksAssumption
<1>3. /\ d.light = FALSE
      /\ d.transactions = Selected(b.transactions, IF skip THEN matched ELSE matched \cup txs)
      /\ d.logs = Selected(b.logs, found \cup logs)
  BY <1>1 DEF DictionaryBlock, Matched, Found
<1>. HIDE DEF matched, found, txs, logs, T
<1>4. ElementsOf(d.transactions) =
        (IF skip THEN matched ELSE matched \cup txs) \cap ElementsOf(b.transactions)
  BY <1>2, <1>3, SelectedSet
<1>5. ElementsOf(d.logs) = (found \cup logs) \cap ElementsOf(b.logs)
  BY <1>2, <1>3, SelectedSet
<1>6. d.transactions \in Seq(T)
  BY <1>2, <1>3, SelectedElements
<1>7. IndexedTransactions(d) = ElementsOf(d.transactions)
  <2>1. CASE d.transactions = <<>>
    <3>1. ElementsOf(d.transactions) = {}
      BY <1>6, <2>1, NoElements
    <3>. QED BY <2>1, <3>1 DEF IndexedTransactions, IsFullBlock
  <2>2. CASE d.transactions # <<>>
    BY <1>3, <2>2 DEF IndexedTransactions, IsFullBlock, ElementsOf
  <2>. QED BY <2>1, <2>2
<1>8. AllLogs(d) = ElementsOf(d.logs)
  BY DEF AllLogs, ElementsOf
<1>9. IndexedLogs(d) = IF IndexedTransactions(d) = {} THEN AllLogs(d)
                       ELSE {log \in AllLogs(d) : \E tx \in IndexedTransactions(d) :
                                                   log.transactionHash = tx.hash}
  <2>1. IsFullBlock(d) <=> IndexedTransactions(d) # {}
    BY <1>3, <1>6, <1>7, NoElements DEF IsFullBlock
  <2>2. CASE ~IsFullBlock(d)
    BY <2>1, <2>2 DEF IndexedLogs
  <2>3. CASE IsFullBlock(d)
    <3>1. \A x : x \in IndexedLogs(d) <=>
            \E tx \in IndexedTransactions(d) : \E l \in DOMAIN d.logs :
              d.logs[l].transactionHash = tx.hash /\ x = d.logs[l]
      BY <2>3 DEF IndexedLogs, LogsOf
    <3>2. \A x : x \in AllLogs(d) <=> \E l \in DOMAIN d.logs : x = d.logs[l]
      BY DEF AllLogs
    <3>. QED BY <2>1, <2>3, <3>1, <3>2
  <2>. QED BY <2>2, <2>3
<1>10. /\ \A tx : tx \in txs <=> /\ tx \in ElementsOf(b.transactions)
                                 /\ \E log \in found : log.transactionHash = tx.hash
       /\ \A log : log \in logs <=> /\ log \in ElementsOf(b.logs)
                                    /\ \E tx \in matched : log.transactionHash = tx.hash
  BY DEF txs, logs
<1>11. \A tx : tx \in IndexedTransactions(d) <=>
               /\ tx \in ElementsOf(b.transactions)
               /\ tx \in matched \/ (~skip /\ tx \in txs)
  <2>1. CASE skip
    BY <1>4, <1>7, <2>1
  <2>2. CASE ~skip
    BY <1>4, <1>7, <2>2
  <2>. QED BY <2>1, <2>2
<1>12. \A tx : tx \in IndexedTransactions(d) <=>
               /\ tx \in ElementsOf(b.transactions)
               /\ \/ tx \in matched
                  \/ ~skip /\ \E log \in found : log.transactionHash = tx.hash
  BY <1>10, <1>11
<1>13. \A log : log \in AllLogs(d) <=>
                log \in ElementsOf(b.logs) /\ (log \in found \/ log \in logs)
  BY <1>5, <1>8
<1>14. \A log : log \in AllLogs(d) <=>
                /\ log \in ElementsOf(b.logs)
                /\ \/ log \in found
                   \/ \E tx \in matched : log.transactionHash = tx.hash
  BY <1>10, <1>13
<1>. QED BY <1>9, <1>12, <1>14 DEF matched, found

(* A handler finds in the block of the dictionary what it finds in the     *)
(* block of the chain: what it accepts is in the query's answer, with the  *)
(* transactions without which a full block would not offer its logs.       *)
LEMMA HandledAlike ==
  ASSUME QueryInv, queryV2 # {}, NEW ds \in dataSources, NEW h \in ds.handlers,
         Agrees(ds, h), Queried(h), NEW b \in Blocks, NEW skip \in BOOLEAN,
         skip => OnlyEventHandlers
  PROVE  HandledIn(DictionaryBlock(b, queryV2, skip), ds, h) = HandledIn(b, ds, h)
<1>1. PICK d : d = DictionaryBlock(b, queryV2, skip)
  OBVIOUS
<1>2. /\ \A tx : tx \in IndexedTransactions(d) <=>
           /\ tx \in ElementsOf(b.transactions)
           /\ \/ tx \in Matched(b, queryV2)
              \/ ~skip /\ \E log \in Found(b, queryV2) : log.transactionHash = tx.hash
      /\ \A log : log \in AllLogs(d) <=>
           /\ log \in ElementsOf(b.logs)
           /\ \/ log \in Found(b, queryV2)
              \/ \E tx \in Matched(b, queryV2) : log.transactionHash = tx.hash
      /\ IndexedLogs(d) = IF IndexedTransactions(d) = {} THEN AllLogs(d)
                          ELSE {log \in AllLogs(d) : \E tx \in IndexedTransactions(d) :
                                                      log.transactionHash = tx.hash}
  BY <1>1, BlockOfDictionary
<1>3. /\ IndexedTransactions(b) = ElementsOf(b.transactions)
      /\ IndexedLogs(b) = ElementsOf(b.logs) /\ ElementsOf(b.logs) \subseteq Logs
      /\ \A log \in ElementsOf(b.logs) :
           \E tx \in ElementsOf(b.transactions) : log.transactionHash = tx.hash
  BY BlockOfChain
<1>4. CASE h.kind = "Call"
  <2>1. ~skip
    BY <1>4 DEF OnlyEventHandlers
  <2>2. ASSUME NEW tx, Handles("Call", h, ds.address, tx) PROVE Finds(queryV2, "Call", tx)
    BY <1>4, <2>2, FindsCall
  <2>. QED BY <1>1, <1>2, <1>3, <1>4, <2>2 DEF HandledIn, Matched
<1>5. CASE h.kind # "Call"
  <2>1. h.kind = "Event"
    BY <1>5 DEF Agrees
  <2>2. ASSUME NEW log \in ElementsOf(b.logs), Handles("Event", h, ds.address, log)
        PROVE  log \in Found(b, queryV2) /\ log \in AllLogs(d)
    <3>1. Finds(queryV2, "Event", log)
      BY <1>3, <2>1, <2>2, FindsEvent
    <3>. QED BY <1>2, <3>1 DEF Found
  <2>3. ASSUME NEW log \in Found(b, queryV2) PROVE log \in IndexedLogs(d)
    <3>1. log \in AllLogs(d) /\ log \in ElementsOf(b.logs)
      BY <1>2 DEF Found
    <3>2. PICK tx \in ElementsOf(b.transactions) : log.transactionHash = tx.hash
      BY <1>3, <3>1
    <3>3. CASE ~skip
      <4>1. tx \in IndexedTransactions(d)
        BY <1>2, <3>2, <3>3
      <4>. QED BY <1>2, <3>1, <3>2, <4>1
    <3>4. CASE skip
      <4>1. Matched(b, queryV2) = {}
        BY <3>4, OnlyEventsFound DEF Matched
      <4>2. IndexedTransactions(d) = {}
        BY <1>2, <3>4, <4>1
      <4>. QED BY <1>2, <3>1, <4>2
    <3>. QED BY <3>3, <3>4
  <2>4. IndexedLogs(d) \subseteq ElementsOf(b.logs)
    BY <1>2
  <2>. QED BY <1>1, <1>3, <2>1, <2>2, <2>3, <2>4 DEF HandledIn
<1>. QED BY <1>4, <1>5

(* A dictionary v2 changes what is fetched and not what is indexed, for    *)
(* any datasources, fields, chain and blocks (getData, rawBlockToEthBlock).*)
THEOREM DictionaryTransparent == Spec => []DictionaryIsTransparent
<1>1. QueryInv => DictionaryIsTransparent
  BY HandledAlike DEF DictionaryIsTransparent, SameHandled
<1>. QED BY <1>1, QueryInvariant, PTL
=============================================================================
