----------------------------- MODULE ProjectStart -----------------------------
(***************************************************************************)
(* A project from its manifest to the node that indexes it: the developer  *)
(* edits the project and generates its code; the node loads what is on     *)
(* disk (SubqueryProject.ts), connects (api.service.ethereum.ts), restores *)
(* the datasources that handlers created in earlier runs, finds out which  *)
(* dictionary each endpoint is (ethDictionary.service.ts), and indexes,    *)
(* where handlers create more datasources (blockchain.service.ts).  It may *)
(* stop or crash at any moment and start again.                            *)
(***************************************************************************)
EXTENDS ProjectManifest, GenerateAbis

CONSTANTS
  Projects,        \* what may be on disk
  MaxEdits,        \* bound: how often the project is changed
  Endpoints,       \* the dictionary endpoints, in their order
  Speaks,          \* the versions of the dictionary protocol they speak
  ChainAliases,    \* the list of aliases of chains that is fetched
  Arguments,       \* the addresses that handlers create datasources with
  MaxDynamic       \* bound: how many they create

(* The files of a project are among those TypeChain may be given.          *)
IsProject(p) ==
  /\ IsSequence(p.dataSources) /\ \A i \in DOMAIN p.dataSources : IsDataSource(p.dataSources[i])
  /\ IsSequence(p.templates) /\ \A i \in DOMAIN p.templates : IsDataSource(p.templates[i])
  /\ \A path \in DOMAIN p.files : path \in AbiFiles /\ path.name \in AbiNames

ASSUME ProjectsAssumption == None \notin Projects /\ \A p \in Projects : IsProject(p)

ASSUME FiltersAssumption ==
  \A p \in Projects :
    /\ AreAbis(p.files)
    /\ \A i \in DOMAIN AllSources(p) : \A j \in DOMAIN AllSources(p)[i].handlers :
         HasFilters(AllSources(p)[i].handlers[j])

(* An endpoint is an entry of the list that the node is given.             *)
ASSUME EndpointsAssumption ==
  /\ IsSequence(Endpoints)
  /\ \A i, j \in DOMAIN Endpoints : Endpoints[i] = Endpoints[j] => i = j
  /\ \A e \in ToSet(Endpoints) : Speaks[e] \subseteq {"v1", "v2"}

VARIABLES
  source,          \* the project on disk
  edits,
  generatedFor,    \* the project of the last generation
  phase,           \* of the node
  loadedFrom,      \* the project on disk when it was loaded
  project,         \* the datasources and templates of the node
  params,          \* the persisted parameters of dynamic datasources
  dynamicDs,
  dictionariesV1, dictionariesV2,
  dictionaries,    \* what init of the base class is given
  tried,           \* how many endpoints have been tried
  disturbed        \* the endpoints a request to which failed

fileVars == <<source, edits, generatedFor>>
projectVars == <<loadedFrom, project>>
dynamicVars == <<params, dynamicDs>>
dictionaryVars == <<dictionariesV1, dictionariesV2, dictionaries, tried, disturbed>>
nodeVars == <<phase, projectVars, dynamicVars, dictionaryVars>>
vars == <<fileVars, nodeVars, gvars>>

NoProject == [dataSources |-> <<>>, templates |-> <<>>]
DictionariesReset ==
  /\ dictionariesV1' = <<>> /\ dictionariesV2' = <<>> /\ dictionaries' = <<>>
  /\ tried' = 0 /\ disturbed' = {}

Init ==
  /\ source \in Projects
  /\ edits = 0
  /\ generatedFor = None
  /\ phase = "off"
  /\ loadedFrom = None /\ project = NoProject
  /\ params = <<>> /\ dynamicDs = <<>>
  /\ dictionariesV1 = <<>> /\ dictionariesV2 = <<>> /\ dictionaries = <<>>
  /\ tried = 0 /\ disturbed = {}
  /\ GInit

-----------------------------------------------------------------------------
(* The developer, while the node is off.                                   *)

EditProject ==
  /\ phase = "off" /\ IsOver /\ running = {}
  /\ edits < MaxEdits
  /\ edits' = edits + 1
  /\ source' \in Projects \ {source}
  /\ UNCHANGED <<generatedFor, nodeVars, gvars>>

(* generateAbis is given the datasources and the templates.                *)
GenerateAbis ==
  /\ phase = "off"
  /\ IF /\ ValidateAbi(AllSources(source), source.files)
        /\ AssetsExist(AllSources(source), source.files)
     THEN Begin(PrepareSortedAssets(AllSources(source)))
     ELSE Reject
  /\ generatedFor' = source
  /\ UNCHANGED <<source, edits, nodeVars>>

Generate ==
  /\ phase = "off"
  /\ GStep
  /\ UNCHANGED <<fileVars, nodeVars>>

-----------------------------------------------------------------------------
(* The start of the node.                                                  *)

ResolvedProject(p) ==
  [dataSources |-> ResolveTopicFiltersInProject(p.dataSources, p.files),
   templates   |-> ResolveTopicFiltersInProject(p.templates, p.files)]

(* createSubQueryProject                                                   *)
CreateSubQueryProject ==
  /\ phase = "off" /\ IsOver /\ running = {}
  /\ IF IsValid(source)
     THEN /\ phase' = "loaded"
          /\ project' = ResolvedProject(source)
          /\ loadedFrom' = source
     ELSE /\ phase' = "failed"
          /\ UNCHANGED projectVars
  /\ UNCHANGED <<fileVars, dynamicVars, dictionaryVars, gvars>>

(* EthereumApiService.init; without a connection the node gives up.        *)
InitApiService ==
  /\ phase = "loaded"
  /\ phase' \in {"connected", "failed"}
  /\ UNCHANGED <<fileVars, projectVars, dynamicVars, dictionaryVars, gvars>>

(* A mutant: the arguments are merged and not validated.                   *)
UpdatedDsUnchecked(ds, address) == IF IsRuntimeDs(ds) THEN [ds EXCEPT !.address = address] ELSE ds

(* updateDynamicDs: the arguments overwrite the options, and the result is *)
(* validated like a datasource of the manifest.                            *)
UpdatedDs(ds, address) ==
  LET updated == [ds EXCEPT !.address = address] IN
  CASE IsRuntimeDs(ds) -> IF RuntimeDsIsValid(updated) THEN updated ELSE Invalid
    [] OTHER           -> ds

(* A dynamic datasource is a copy of its template.                         *)
DynamicDs(param) ==
  IF param.template \in DOMAIN project.templates
  THEN UpdatedDs(project.templates[param.template], param.address) ELSE Invalid

(* The dynamic datasources are made again from their parameters; one that  *)
(* cannot be made ends the start.                                          *)
RestoreDynamicDs ==
  /\ phase = "connected"
  /\ LET restored == [i \in DOMAIN params |-> DynamicDs(params[i])] IN
     IF Invalid \in ToSet(restored)
     THEN phase' = "failed" /\ UNCHANGED dynamicDs
     ELSE phase' = "restored" /\ dynamicDs' = restored
  /\ UNCHANGED <<fileVars, projectVars, params, dictionaryVars, gvars>>

-----------------------------------------------------------------------------
(* initDictionaries                                                        *)

NextEndpoint == Endpoints[tried + 1]
ProjectChain == ChainIdOf(loadedFrom)
WithAlias(chain) == IF chain \in DOMAIN ChainAliases THEN ChainAliases[chain] ELSE chain

CreateV2 ==
  /\ "v2" \in Speaks[NextEndpoint]
  /\ dictionariesV2' = Append(dictionariesV2, [version |-> "v2", endpoint |-> NextEndpoint,
                                               chain |-> ProjectChain])
  /\ UNCHANGED <<dictionariesV1, disturbed>>

(* What an endpoint is asked may fail, although it would speak the version:*)
(* its metadata, or the list of the aliases, which is fetched again for    *)
(* every dictionary v1.                                                    *)
CreateV1(failed) ==
  /\ "v1" \in Speaks[NextEndpoint]
  /\ failed \/ "v2" \notin Speaks[NextEndpoint]
  /\ dictionariesV1' =
       Append(dictionariesV1, [version |-> "v1", endpoint |-> NextEndpoint,
                              chain |-> WithAlias(ProjectChain)])
  /\ disturbed' = IF failed THEN disturbed \cup {NextEndpoint} ELSE disturbed
  /\ UNCHANGED dictionariesV2

NotADictionary(failed) ==
  /\ failed \/ Speaks[NextEndpoint] = {}
  /\ disturbed' = IF failed THEN disturbed \cup {NextEndpoint} ELSE disturbed
  /\ UNCHANGED <<dictionariesV1, dictionariesV2>>

(* A mutant: what does not speak the newest version is passed over.        *)
InitDictionaryOfV2 ==
  /\ phase = "restored" /\ tried < Len(Endpoints)
  /\ tried' = tried + 1
  /\ CreateV2 \/ UNCHANGED <<dictionariesV1, dictionariesV2, disturbed>>
  /\ UNCHANGED <<dictionaries, phase, fileVars, projectVars, dynamicVars, gvars>>

InitDictionary ==
  /\ phase = "restored" /\ tried < Len(Endpoints)
  /\ tried' = tried + 1
  /\ CreateV2 \/ \E failed \in BOOLEAN : CreateV1(failed) \/ NotADictionary(failed)
  /\ UNCHANGED <<dictionaries, phase, fileVars, projectVars, dynamicVars, gvars>>

InitDictionaries ==
  /\ phase = "restored" /\ tried = Len(Endpoints)
  /\ phase' = "indexing"
  /\ dictionaries' = dictionariesV2 \o dictionariesV1
  /\ UNCHANGED <<dictionariesV1, dictionariesV2, tried, disturbed, fileVars, projectVars,
                 dynamicVars, gvars>>

-----------------------------------------------------------------------------
(* The node at work.                                                       *)

(* A handler creates a datasource; one that is invalid ends the process    *)
(* before its parameters are saved.                                        *)
CreateDynamicDs ==
  /\ phase = "indexing" /\ Len(params) < MaxDynamic
  /\ \E template \in DOMAIN project.templates, address \in Arguments :
       LET param == [template |-> template, address |-> address]
           ds == DynamicDs(param)
       IN IF ds = Invalid
          THEN phase' = "failed" /\ UNCHANGED dynamicVars
          ELSE /\ params' = Append(params, param)
               /\ dynamicDs' = Append(dynamicDs, ds)
               /\ UNCHANGED phase
  /\ UNCHANGED <<fileVars, projectVars, dictionaryVars, gvars>>

(* The process ends, by itself, by a signal or by a crash.                 *)
Stop ==
  /\ phase # "off"
  /\ phase' = "off"
  /\ project' = NoProject /\ loadedFrom' = None /\ dynamicDs' = <<>>
  /\ DictionariesReset
  /\ UNCHANGED <<fileVars, params, gvars>>

Next ==
  \/ EditProject \/ GenerateAbis \/ Generate
  \/ CreateSubQueryProject \/ InitApiService \/ RestoreDynamicDs
  \/ InitDictionary \/ InitDictionaries \/ CreateDynamicDs \/ Stop

Spec == Init /\ [][Next]_vars

-----------------------------------------------------------------------------
(* Properties.                                                             *)

Indexed == project.dataSources \o dynamicDs

IsRunning == phase \in {"loaded", "connected", "restored", "indexing"}

(* The filters of a handler that name topics or a function.                *)
Filters(h) ==
  CASE h.kind = "Event" /\ HasFilter(h, "topics") -> ToSet(h.filter.topics)
    [] h.kind = "Call" /\ HasFilter(h, "function") -> {h.filter.function}
    [] OTHER -> {}

(* No name that the node looks for is that of an event or function: it may *)
(* take its names from another file than code generation, and takes none   *)
(* when the library drops them.                                            *)
NamesAreApart(ds, files, abi) ==
  KeepsInternalType =>
    \A path \in AbiPaths(ds, files) :
      \A f \in Fragments(abi), p \in CustomParams(files[path]) : f.name # p.internal

(* What code generation accepted still fits in the node, which has         *)
(* resolved the custom types of datasources and templates: every signature *)
(* among the filters is one of the ABI of its datasource (validateAbi,     *)
(* resolveTopicFiltersInProject).                                          *)
AcceptedFiltersFit ==
  IsRunning /\ generatedFor = loadedFrom /\ generation # "rejected" =>
    \A ds \in ToSet(project.dataSources) \cup ToSet(project.templates) :
      ds.abi # None =>
        LET abi == loadedFrom.files[AssetPath(ds, ds.abi)] IN
        NamesAreApart(ds, loadedFrom.files, abi) =>
          \A j \in DOMAIN ds.handlers : \A filter \in Filters(ds.handlers[j]) :
            filter.is = "signature" =>
              FormatString(filter.words) \in Formats(abi.events \o abi.functions)

HasNoTuple(fragment) == \A p \in ParamsIn(fragment.inputs) : p.type # "tuple"
TypesAreDistinct(fragments) ==
  \A i, j \in {k \in DOMAIN fragments : HasNoTuple(fragments[k])} :
    i # j => TypeNames(fragments)[i] # TypeNames(fragments)[j]

(* All tuples within are written in full: a tuple, or a tuple[].           *)
TuplesAreWritten(fragment) ==
  \A p \in ParamsIn(fragment.inputs) : p.type = "tuple" => p.array \in {<<>>, <<"[]">>}

(* In every interface that is rendered the overloads are told apart: they  *)
(* get types of their own, tuples apart, and an overloaded function is     *)
(* looked up by its canonical signature, arrays of tuples other than       *)
(* tuple[] apart (prepareAbiJob, joinInputAbiName, inputsToArgs).          *)
OverloadsAreApart ==
  generatedFor # None =>
    \A name \in DOMAIN interfaces :
      interfaces[name] \in DOMAIN generatedFor.files =>
        LET abi == generatedFor.files[interfaces[name]] IN
        /\ TypesAreDistinct(abi.events) /\ TypesAreDistinct(abi.functions)
        /\ \A k \in DOMAIN abi.functions :
             /\ IsDuplicate(abi.functions[k], abi.functions)
             /\ TuplesAreWritten(abi.functions[k])
             => FunctionNames(abi.functions)[k] = Format(abi.functions[k])

(* The keys of the filters that FilterTypeMap reads.                       *)
KeysRead == [Call |-> {"from", "to", "function", "type"}, Event |-> {"topics"}]

IsIndexable(ds) ==
  /\ IsRuntimeDs(ds) # IsCustomDs(ds)
  /\ IsRuntimeDs(ds) =>
       /\ ds.address = None \/ IsEthereumOrZilliqaAddress(ds.address)
       /\ \A j \in DOMAIN ds.handlers :
            LET h == ds.handlers[j] IN
            /\ h.kind \in HandlerKinds
            /\ h.filter # None /\ h.kind # "Block" => DOMAIN h.filter \subseteq KeysRead[h.kind]

(* Whatever is indexed, created by a handler or restored after a restart   *)
(* included, is a runtime or a custom datasource with handlers of a known  *)
(* kind, no key of a filter is passed over, and its address is one         *)
(* (IsValid, updateDynamicDs).                                             *)
LoadedIsIndexable == \A i \in DOMAIN Indexed : IsIndexable(Indexed[i])

(* When the node indexes, every endpoint that was not disturbed and is a   *)
(* dictionary is used once, in its newest version and for the chain of the *)
(* project, by its alias where version 1 has one; those of version 2 come  *)
(* first (initDictionaries).                                               *)
DictionariesServeTheChain ==
  phase = "indexing" =>
    /\ \A e \in ToSet(Endpoints) \ disturbed :
         LET uses == {i \in DOMAIN dictionaries : dictionaries[i].endpoint = e} IN
         IF Speaks[e] = {} THEN uses = {}
         ELSE \E i \in DOMAIN dictionaries :
                /\ uses = {i}
                /\ dictionaries[i].version = IF "v2" \in Speaks[e] THEN "v2" ELSE "v1"
                /\ dictionaries[i].chain =
                     IF "v2" \in Speaks[e] THEN ProjectChain ELSE WithAlias(ProjectChain)
    /\ \A i, j \in DOMAIN dictionaries :
         dictionaries[i].version = "v2" /\ dictionaries[j].version = "v1" => i < j

(* ---- Statements of the documentation, see README. ----                  *)

(* A datasource is for the contract its address names: every form of an    *)
(* address that is accepted is one a log or transaction could have.        *)
AddressFindsItsContract ==
  \A i \in DOMAIN Indexed :
    IsRuntimeDs(Indexed[i]) /\ Indexed[i].address # None => Indexed[i].address.form = "0x"

(* What was written for each of them: a dynamic datasource has the filters *)
(* of its template.                                                        *)
Written == loadedFrom.dataSources
           \o [i \in DOMAIN dynamicDs |-> loadedFrom.templates[params[i].template]]

Signature(h) ==
  CASE h.kind = "Event" /\ HasFilter(h, "topics") /\ h.filter.topics # <<>> -> h.filter.topics[1]
    [] h.kind = "Call" /\ HasFilter(h, "function") -> h.filter.function
    [] OTHER -> None

(* A filter written with the types as the contract names them has become   *)
(* the topic or function it was written for.                               *)
FiltersMatch(written, indexed, abi) ==
  \A j \in DOMAIN written.handlers :
    LET filter == Signature(written.handlers[j])
        resolved == Signature(indexed.handlers[j])
    IN filter # None /\ filter.is = "signature" =>
         \A f \in Fragments(abi) :
           filter.words = WithSolidityNames(f) => EventToTopic(resolved) = Format(f)

(* "Enums are replaced with uint8, Structs are replaced with tuple         *)
(* notation": a filter that uses the names of structs and enums matches    *)
(* the event or function of the ABI it was written for, in datasources and *)
(* in what is created from templates, if the ABI is plain and found        *)
(* (resolveTopicFiltersInProject, resolveCustomTypesInSignature).          *)
WrittenFiltersMatch ==
  IsRunning =>
    \A i \in DOMAIN Indexed : \A path \in AbiPaths(Written[i], loadedFrom.files) :
      LET abi == loadedFrom.files[path] IN
      IsPlain(abi) => FiltersMatch(Written[i], Indexed[i], abi)

(* "Generates valid function names with complex types": an overload is     *)
(* looked up by its canonical signature, whatever its arguments are.       *)
OverloadsAreLookedUp ==
  generatedFor # None =>
    \A name \in DOMAIN interfaces :
      interfaces[name] \in DOMAIN generatedFor.files =>
        LET functions == generatedFor.files[interfaces[name]].functions IN
        \A k \in DOMAIN functions :
          IsDuplicate(functions[k], functions) => FunctionNames(functions)[k] = Format(functions[k])

(* The topics of a filter can be an address, an event signature, null or   *)
(* '!null': code generation refuses only signatures of no event.           *)
DocumentedTopicsAreAccepted ==
  generation = "rejected" =>
    \E i \in DOMAIN AllSources(generatedFor) :
      LET ds == AllSources(generatedFor)[i]
          path == AssetPath(ds, ds.abi)
      IN /\ ds.abi # None
         /\ \/ ds.abi \notin AssetNames(ds) \/ path \notin DOMAIN generatedFor.files
            \/ \E j \in DOMAIN ds.handlers : \E filter \in Filters(ds.handlers[j]) :
                 /\ filter.is = "signature"
                 /\ FormatString(filter.words) \notin Formats(generatedFor.files[path].events
                                                             \o generatedFor.files[path].functions)
=============================================================================
