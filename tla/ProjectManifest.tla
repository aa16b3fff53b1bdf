--------------------------- MODULE ProjectManifest ----------------------------
(***************************************************************************)
(* What becomes of a project: which manifests are accepted (models.ts and  *)
(* v1_0_0/model.ts of common-ethereum), what code generation checks and    *)
(* names (codegen-controller.ts), and how the node resolves the custom     *)
(* types of its filters when it loads it (utils/project.ts of the node).   *)
(*                                                                         *)
(* A project is [specVersion, runner, chainId, genesisHash, dataSources,   *)
(* templates, files]; files maps paths, [dir, file, name], to ABIs.  A     *)
(* datasource is [kind, processor, abi, address, assets, handlers]; its    *)
(* assets are a sequence of [name, path].  A handler is [kind, filter],    *)
(* and a filter a record with the keys that are written.                   *)
(***************************************************************************)
EXTENDS AbiSignatures

(* The shape of what is on disk.                                           *)
IsSequence(s) == s \in Seq(ToSet(s))
IsHandler(h) == h = [kind |-> h.kind, filter |-> h.filter]
IsFilter(filter) ==
  filter = [is |-> filter.is, words |-> filter.words] /\ filter.words \in Seq(STRING)
IsDataSource(ds) ==
  /\ ds = [kind |-> ds.kind, processor |-> ds.processor, abi |-> ds.abi,
           address |-> ds.address, assets |-> ds.assets, handlers |-> ds.handlers]
  /\ ds.processor \in BOOLEAN
  /\ IsSequence(ds.assets) /\ IsSequence(ds.handlers)
  /\ \A j \in DOMAIN ds.handlers : IsHandler(ds.handlers[j])

HandlerKinds == {"Block", "Call", "Event"}
CustomEvmHandlers == {"substrate/FrontierEvm"}

IsRuntimeDs(ds) == ds.kind = "ethereum/Runtime"
IsCustomDs(ds)  == ~IsRuntimeDs(ds) /\ ds.processor

(* An address is [form, contract]: hexadecimal, of Zilliqa, or neither.    *)
IsEthereumOrZilliqaAddress(address) == address.form \in {"0x", "zil1"}

(* The key of a filter, when there is a filter and it is written.          *)
HasFilter(h, key) == h.filter # None /\ key \in DOMAIN h.filter
HasFilters(h) ==
  /\ HasFilter(h, "topics") =>
       IsSequence(h.filter.topics) /\ \A i \in DOMAIN h.filter.topics : IsFilter(h.filter.topics[i])
  /\ HasFilter(h, "function") => IsFilter(h.filter.function)

(* An ABI has no event or function twice, and a directory no file.         *)
AreFragments(fragments) ==
  /\ IsSequence(fragments)
  /\ \A i \in DOMAIN fragments :
       IsIdentifier(fragments[i].name) /\ fragments[i].inputs \in Seq(Params)
  /\ \A i, j \in DOMAIN fragments : Format(fragments[i]) = Format(fragments[j]) => i = j
AreAbis(files) ==
  /\ \A path \in DOMAIN files : /\ path.file \in STRING
                                /\ AreFragments(files[path].events)
                                /\ AreFragments(files[path].functions)
  /\ \A path, other \in DOMAIN files :
       path.dir = other.dir /\ path.file = other.file => path = other

-----------------------------------------------------------------------------
(* The validation of a manifest.                                           *)

(* forbidNonWhitelisted; the filter of a block handler is not validated.   *)
Whitelist(kind) ==
  CASE kind = "Call"  -> {"from", "to", "function", "type"}
    [] kind = "Event" -> {"topics"}

(* EthereumMapping: an unknown kind of handler is an error.                *)
HandlerIsValid(h) ==
  /\ h.kind \in HandlerKinds
  /\ h.filter # None /\ h.kind # "Block" => DOMAIN h.filter \subseteq Whitelist(h.kind)

OptionsAreValid(ds) == ds.address # None => IsEthereumOrZilliqaAddress(ds.address)

(* A mutant: the filters of the handlers are not looked at.                *)
RuntimeDsIsValidByKind(ds) ==
  /\ \A i \in DOMAIN ds.handlers : ds.handlers[i].kind \in HandlerKinds
  /\ OptionsAreValid(ds)

RuntimeDsIsValid(ds) ==
  /\ \A i \in DOMAIN ds.handlers : HandlerIsValid(ds.handlers[i])
  /\ OptionsAreValid(ds)

CustomDsIsValid(ds) == ds.processor

(* The kind is the discriminator: whatever is not a runtime datasource is  *)
(* validated as a custom one.                                              *)
DsIsValid(ds) == IF IsRuntimeDs(ds) THEN RuntimeDsIsValid(ds) ELSE CustomDsIsValid(ds)

(* DeploymentV1_0_0: an old manifest gives its chain as genesisHash.       *)
ChainIdOf(p) == IF p.genesisHash # None /\ p.chainId = None THEN p.genesisHash ELSE p.chainId

AllSources(p) == p.dataSources \o p.templates

VersionIsSupported(p) == p.specVersion = "1.0.0"
RunnerIsValid(p) == p.runner = "@subql/node-ethereum"

IsValid(p) ==
  /\ VersionIsSupported(p)
  /\ RunnerIsValid(p)
  /\ ChainIdOf(p) # None
  /\ \A i \in DOMAIN AllSources(p) : DsIsValid(AllSources(p)[i])

-----------------------------------------------------------------------------
(* Code generation.                                                        *)

AssetNames(ds) == {ds.assets[i].name : i \in DOMAIN ds.assets}
AssetPath(ds, name) ==
  ds.assets[CHOOSE i \in DOMAIN ds.assets : ds.assets[i].name = name].path

Formats(fragments) == {Format(fragments[i]) : i \in DOMAIN fragments}

(* A filter that is there must be written as an event or function; a hash  *)
(* cannot be parsed as one, which is an error as well.                     *)
IsFragment(filter, fragments) ==
  \/ filter.is = "null"
  \/ filter.is = "signature" /\ FormatString(filter.words) \in Formats(fragments)

FunctionFits(h, abi) ==
  h.kind = "Call" /\ HasFilter(h, "function") => IsFragment(h.filter.function, abi.functions)

(* A mutant: only the first topic is looked for in the ABI.                *)
HandlerFitsAbiByFirstTopic(h, abi) ==
  /\ h.kind = "Event" /\ HasFilter(h, "topics") /\ h.filter.topics # <<>> =>
       h.filter.topics[1].is = "!null" \/ IsFragment(h.filter.topics[1], abi.events)
  /\ FunctionFits(h, abi)

HandlerFitsAbi(h, abi) ==
  /\ h.kind = "Event" /\ HasFilter(h, "topics") =>
       \A i \in DOMAIN h.filter.topics :
         h.filter.topics[i].is = "!null" \/ IsFragment(h.filter.topics[i], abi.events)
  /\ FunctionFits(h, abi)

ValidateAbi(sources, files) ==
  \A i \in DOMAIN sources :
    LET ds == sources[i] IN
    ds.abi # None =>
      /\ ds.abi \in AssetNames(ds)
      /\ AssetPath(ds, ds.abi) \in DOMAIN files
      /\ \A j \in DOMAIN ds.handlers :
           HandlerFitsAbi(ds.handlers[j], files[AssetPath(ds, ds.abi)])

(* prepareSortedAssets walks over the assets of these datasources, one     *)
(* after the other.                                                        *)
HasAssets(ds) == IsRuntimeDs(ds) \/ IsCustomDs(ds) \/ ds.kind \in CustomEvmHandlers
AssetPlaces(sources) ==
  UNION {{<<i, j>> : j \in DOMAIN sources[i].assets} :
           i \in {k \in DOMAIN sources : HasAssets(sources[k])}}
PathAt(sources, place) == sources[place[1]].assets[place[2]].path

AssetsExist(sources, files) ==
  \A place \in AssetPlaces(sources) : PathAt(sources, place) \in DOMAIN files

(* By the name of the contract, that is of the file; the last one of a     *)
(* name wins.                                                              *)
PlacesNamed(sources, name) ==
  {place \in AssetPlaces(sources) : PathAt(sources, place).name = name}
IsLast(place, places) ==
  \A p \in places : p[1] < place[1] \/ (p[1] = place[1] /\ p[2] <= place[2])
PrepareSortedAssets(sources) ==
  [name \in {PathAt(sources, place).name : place \in AssetPlaces(sources)} |->
     PathAt(sources, CHOOSE place \in PlacesNamed(sources, name) :
                       IsLast(place, PlacesNamed(sources, name)))]

(* A mutant: arrays are named like what they are arrays of.                *)
JoinInputAbiNameWithoutArrays(f) == <<f.name>> \o [i \in DOMAIN f.inputs |-> f.inputs[i].type]

(* joinInputAbiName: the types without what a tuple is made of; brackets   *)
(* with a size stay as they are.                                           *)
JoinInputAbiName(f) ==
  <<f.name>> \o Concat([i \in DOMAIN f.inputs |->
      <<f.inputs[i].type>> \o [d \in DOMAIN f.inputs[i].array |->
         IF f.inputs[i].array[d] = "[]" THEN "_arr" ELSE f.inputs[i].array[d]]])

(* Of the arrays of tuples only tuple[] gets its brackets.                 *)
TupleBrackets(p) == IF p.array = <<"[]">> THEN p.array ELSE <<>>

InputToArg[p \in Params] ==
  IF p.components # <<>>
  THEN <<"(">> \o Concat([i \in DOMAIN p.components |-> InputToArg[p.components[i]]]) \o <<")">>
       \o TupleBrackets(p)
  ELSE <<p.type>> \o p.array
InputsToArgs(inputs) ==
  <<"(">> \o Concat([i \in DOMAIN inputs |-> InputToArg[inputs[i]]]) \o <<")">>

IsDuplicate(f, fragments) == Cardinality({i \in DOMAIN fragments : fragments[i].name = f.name}) > 1

(* prepareAbiJob: the names of the types for the events and functions of   *)
(* an ABI, and the signatures by which overloaded functions are looked up. *)
TypeNames(fragments) ==
  [i \in DOMAIN fragments |->
     IF IsDuplicate(fragments[i], fragments) THEN JoinInputAbiName(fragments[i])
     ELSE <<fragments[i].name>>]

FunctionNames(functions) ==
  [i \in DOMAIN functions |->
     IF IsDuplicate(functions[i], functions)
     THEN <<functions[i].name>> \o InputsToArgs(functions[i].inputs)
     ELSE <<functions[i].name>>]

-----------------------------------------------------------------------------
(* The resolution of custom types when the node loads the project.         *)

(* getAbiInterfaceFromDs: the option is taken for a file of abis/, and     *)
(* what cannot be loaded is passed over.                                   *)
AbiPaths(ds, files) == {path \in DOMAIN files : path.dir = "abis" /\ path.file = ds.abi}
CustomTypesOf(ds, files) ==
  IF ds.abi = None \/ AbiPaths(ds, files) = {} THEN <<>>
  ELSE ExtractCustomTypesFromAbi(files[CHOOSE path \in AbiPaths(ds, files) : TRUE])

Resolved(filter, types) ==
  IF filter.is = "signature"
  THEN [filter EXCEPT !.words = ResolveCustomTypesInSignature(@, types)] ELSE filter

ProcessEventHandlerFilters(h, types) ==
  IF h.kind = "Event" /\ HasFilter(h, "topics") /\ h.filter.topics # <<>>
  THEN [h EXCEPT !.filter.topics[1] = Resolved(@, types)] ELSE h

ProcessTransactionHandlerFilters(h, types) ==
  IF h.kind = "Call" /\ HasFilter(h, "function")
  THEN [h EXCEPT !.filter.function = Resolved(@, types)] ELSE h

ResolveTopicFilters(ds, files) ==
  LET types == CustomTypesOf(ds, files) IN
  [ds EXCEPT !.handlers = [i \in DOMAIN @ |->
     ProcessTransactionHandlerFilters(ProcessEventHandlerFilters(@[i], types), types)]]

ResolveTopicFiltersInProject(sources, files) ==
  [i \in DOMAIN sources |-> ResolveTopicFilters(sources[i], files)]
=============================================================================
