---------------------------- MODULE GenerateAbis ------------------------------
(***************************************************************************)
(* generateAbis (common-ethereum/src/codegen/codegen-controller.ts), from  *)
(* the validated assets on: TypeChain runs for every ABI at once and each  *)
(* run writes an index of its own; the indexes are then written again over *)
(* all of them, and the interface of every ABI is rendered.  Any of it may *)
(* fail, which is printed and otherwise ignored, while the rest goes on.   *)
(* The directory of the interfaces is emptied first, that of the contracts *)
(* is not, so what an earlier run left is still there.                     *)
(***************************************************************************)
EXTENDS FiniteSets, Naturals

CONSTANTS
  AbiNames,   \* the names TypeChain gives to contracts: the base names of files
  AbiFiles    \* the files of a project

(* The assets by name (sortedAssets): two files of one name are one entry. *)
SortedAssets == UNION {[names -> AbiFiles] : names \in SUBSET AbiNames}
NoFiles == [n \in {} |-> n]

VARIABLES
  generation,      \* how far generateAbis is
  sortedAssets,
  running,         \* the names TypeChain has yet to write
  factories,       \* the files of src/types/contracts/factories, by name
  abiNames,        \* the listing of that directory
  indexes,         \* what contracts/index.ts and factories/index.ts export
  interfaces       \* the rendered interfaces, and the file of each

gvars == <<generation, sortedAssets, running, factories, abiNames, indexes, interfaces>>

Indexes == {"contracts", "factories"}
Stages == {"idle", "typechain", "listed", "indexed", "done", "failed", "rejected"}
IsOver == generation \in {"idle", "done", "failed", "rejected"}

GInit ==
  /\ generation = "idle"
  /\ sortedAssets = NoFiles
  /\ running = {}
  /\ factories = {}
  /\ abiNames = {}
  /\ indexes = [i \in Indexes |-> {}]
  /\ interfaces = NoFiles

(* validateAbi or prepareSortedAssets throw.                               *)
Reject ==
  /\ IsOver /\ running = {}
  /\ generation' = "rejected"
  /\ UNCHANGED <<sortedAssets, running, factories, abiNames, indexes, interfaces>>

(* A mutant: the interfaces of an earlier run stay.                        *)
BeginKeepingInterfaces(assets) ==
  /\ IsOver /\ running = {}
  /\ sortedAssets' = assets
  /\ generation' = IF DOMAIN assets = {} THEN "done" ELSE "typechain"
  /\ running' = DOMAIN assets
  /\ UNCHANGED <<factories, abiNames, indexes, interfaces>>

(* Without assets the directory of the interfaces is only made sure of.    *)
Begin(assets) ==
  /\ IsOver /\ running = {}
  /\ sortedAssets' = assets
  /\ IF DOMAIN assets = {}
     THEN generation' = "done" /\ UNCHANGED <<running, interfaces>>
     ELSE generation' = "typechain" /\ running' = DOMAIN assets /\ interfaces' = NoFiles
  /\ UNCHANGED <<factories, abiNames, indexes>>

(* runTypeChain for one file: its factory, and indexes of it alone.        *)
RunTypeChain(name) ==
  /\ name \in running
  /\ running' = running \ {name}
  /\ factories' = factories \cup {name}
  /\ indexes' = [i \in Indexes |-> {name}]
  /\ UNCHANGED <<generation, sortedAssets, abiNames, interfaces>>

(* Promise.all rejects at once; the runs beside it go on.                  *)
TypeChainFails(name) ==
  /\ name \in running
  /\ running' = running \ {name}
  /\ generation' = IF generation = "typechain" THEN "failed" ELSE generation
  /\ UNCHANGED <<sortedAssets, factories, abiNames, indexes, interfaces>>

(* A mutant: the directory is listed when the first run has ended.         *)
ListFactoriesEarly ==
  /\ generation = "typechain"
  /\ running # DOMAIN sortedAssets
  /\ generation' = "listed"
  /\ abiNames' = factories
  /\ UNCHANGED <<sortedAssets, running, factories, indexes, interfaces>>

(* readdirSync and getAbiNames                                             *)
ListFactories ==
  /\ generation = "typechain"
  /\ running = {}
  /\ generation' = "listed"
  /\ abiNames' = factories
  /\ UNCHANGED <<sortedAssets, running, factories, indexes, interfaces>>

(* The two index files are written again.                                  *)
WriteIndexes ==
  /\ generation = "listed"
  /\ generation' = "indexed"
  /\ indexes' = [i \in Indexes |-> abiNames]
  /\ UNCHANGED <<sortedAssets, running, factories, abiNames, interfaces>>

(* The files of `names` are written over what is there.                    *)
Rendered(names) ==
  [n \in names \cup DOMAIN interfaces |->
     IF n \in names THEN sortedAssets[n] ELSE interfaces[n]]

(* prepareAbiJob, and the template of every interface                      *)
RenderInterfaces ==
  /\ generation = "indexed"
  /\ generation' = "done"
  /\ interfaces' = Rendered(DOMAIN sortedAssets)
  /\ UNCHANGED <<sortedAssets, running, factories, abiNames, indexes>>

(* A template cannot be written, or an ABI is not one: some of the files   *)
(* of this stage may be there already.                                     *)
WritingFails ==
  /\ \/ /\ generation = "listed"
        /\ \E written \in SUBSET Indexes :
             indexes' = [i \in Indexes |-> IF i \in written THEN abiNames ELSE indexes[i]]
        /\ UNCHANGED interfaces
     \/ /\ generation = "indexed"
        /\ \E names \in SUBSET DOMAIN sortedAssets : interfaces' = Rendered(names)
        /\ UNCHANGED indexes
  /\ generation' = "failed"
  /\ UNCHANGED <<sortedAssets, running, factories, abiNames>>

GStep ==
  \/ \E name \in AbiNames : RunTypeChain(name) \/ TypeChainFails(name)
  \/ ListFactories \/ WriteIndexes \/ RenderInterfaces \/ WritingFails

(* By itself it is given any assets, or refuses them.                      *)
GNext == Reject \/ (\E assets \in SortedAssets : Begin(assets)) \/ GStep
GSpec == GInit /\ [][GNext]_gvars

-----------------------------------------------------------------------------
(* Properties.                                                             *)

GTypeOK ==
  /\ generation \in Stages
  /\ sortedAssets \in SortedAssets
  /\ running \subseteq AbiNames /\ factories \subseteq AbiNames /\ abiNames \subseteq AbiNames
  /\ indexes \in [Indexes -> SUBSET AbiNames]
  /\ interfaces \in SortedAssets

(* After a generation that printed no error, both indexes export every     *)
(* factory there is, those of all assets among them, and nothing else -    *)
(* although each of the concurrent runs wrote an index of its own - and    *)
(* the interfaces are those of this project, none of an earlier one        *)
(* (generateAbis).                                                         *)
GeneratedFilesAgree ==
  generation = "done" /\ DOMAIN sortedAssets # {} =>
    /\ \A i \in Indexes : indexes[i] = factories
    /\ DOMAIN sortedAssets \subseteq factories
    /\ interfaces = sortedAssets
=============================================================================
