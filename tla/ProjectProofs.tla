----------------------------- MODULE ProjectProofs -----------------------------
(***************************************************************************)
(* Proofs about the way of a project, for any projects, files, endpoints   *)
(* and arguments.  GenerateAbis by itself keeps its types, and a           *)
(* generation that ends without an error leaves files that agree, whatever *)
(* concurrent runs and earlier generations left behind; ProjectStart       *)
(* implements GenerateAbis, so the same holds of what its projects         *)
(* generate.  Whatever the node indexes was validated, its dictionaries    *)
(* serve the chain of the project, and what code generation accepted of    *)
(* filters and ABIs fits once the node has resolved it: for that there is  *)
(* recursion over parameters, what folds compute, and what it means that   *)
(* the elements of a sequence are replaced by sequences.                   *)
(***************************************************************************)
EXTENDS ProjectStart, SequenceTheorems, FiniteSetTheorems, WellFoundedInduction, TLAPS

(* The names and files of assets.                                          *)
LEMMA AssetsType ==
  ASSUME NEW assets \in SortedAssets
  PROVE  /\ DOMAIN assets \subseteq AbiNames
         /\ \A n \in DOMAIN assets : assets[n] \in AbiFiles
  BY DEF SortedAssets

(* No files are assets, and have no names.                                 *)
LEMMA NoFilesType == NoFiles \in SortedAssets /\ DOMAIN NoFiles = {}
<1>1. DOMAIN NoFiles = {}
  BY DEF NoFiles
<1>2. NoFiles \in [{} -> AbiFiles]
  BY DEF NoFiles
<1>3. {} \in SUBSET AbiNames
  OBVIOUS
<1>4. QED
  BY <1>1, <1>2, <1>3 DEF SortedAssets

(* What is rendered for names of the assets is of a file for each name.    *)
LEMMA RenderedType ==
  ASSUME GTypeOK, NEW names \in SUBSET DOMAIN sortedAssets
  PROVE  Rendered(names) \in SortedAssets
<1> DEFINE all == names \cup DOMAIN interfaces
<1>1. /\ DOMAIN sortedAssets \subseteq AbiNames
      /\ \A n \in DOMAIN sortedAssets : sortedAssets[n] \in AbiFiles
  BY AssetsType DEF GTypeOK
<1>2. /\ DOMAIN interfaces \subseteq AbiNames
      /\ \A n \in DOMAIN interfaces : interfaces[n] \in AbiFiles
  BY AssetsType DEF GTypeOK
<1>3. all \in SUBSET AbiNames
  BY <1>1, <1>2
<1>4. \A n \in all : (IF n \in names THEN sortedAssets[n] ELSE interfaces[n]) \in AbiFiles
  BY <1>1, <1>2
<1>5. Rendered(names) \in [all -> AbiFiles]
  BY <1>4 DEF Rendered
<1>6. QED
  BY <1>3, <1>5 DEF SortedAssets

(* Rendering every asset where nothing was rendered gives the assets.      *)
LEMMA RenderedAll ==
  ASSUME sortedAssets \in SortedAssets, DOMAIN interfaces = {}
  PROVE  Rendered(DOMAIN sortedAssets) = sortedAssets
<1>1. sortedAssets = [n \in DOMAIN sortedAssets |-> sortedAssets[n]]
  BY DEF SortedAssets
<1>2. QED
  BY <1>1 DEF Rendered

-----------------------------------------------------------------------------
(* Type correctness.                                                       *)

LEMMA TypeInit == GInit => GTypeOK
  BY NoFilesType DEF GInit, GTypeOK, Stages, Indexes

LEMMA TypeStep == GTypeOK /\ [GNext]_gvars => GTypeOK'
<1> SUFFICES ASSUME GTypeOK, [GNext]_gvars PROVE GTypeOK'
  OBVIOUS
<1>1. CASE Reject
  BY <1>1 DEF Reject, GTypeOK, Stages
<1>2. CASE \E assets \in SortedAssets : Begin(assets)
  <2>1. PICK assets \in SortedAssets : Begin(assets)
    BY <1>2
  <2>2. DOMAIN assets \subseteq AbiNames
    BY AssetsType
  <2>3. QED
    BY <2>1, <2>2, NoFilesType DEF Begin, GTypeOK, Stages
<1>3. CASE \E name \in AbiNames : RunTypeChain(name)
  BY <1>3 DEF RunTypeChain, GTypeOK
<1>4. CASE \E name \in AbiNames : TypeChainFails(name)
  BY <1>4 DEF TypeChainFails, GTypeOK, Stages
<1>5. CASE ListFactories
  BY <1>5 DEF ListFactories, GTypeOK, Stages
<1>6. CASE WriteIndexes
  BY <1>6 DEF WriteIndexes, GTypeOK, Stages
<1>7. CASE RenderInterfaces
  BY <1>7, RenderedType DEF RenderInterfaces, GTypeOK, Stages
<1>8. CASE WritingFails
  <2>1. generation' \in Stages
    BY <1>8 DEF WritingFails, Stages
  <2>2. indexes' \in [Indexes -> SUBSET AbiNames]
    BY <1>8 DEF WritingFails, GTypeOK
  <2>3. interfaces' \in SortedAssets
    BY <1>8, RenderedType DEF WritingFails, GTypeOK
  <2>4. QED
    BY <1>8, <2>1, <2>2, <2>3 DEF WritingFails, GTypeOK
<1>9. CASE UNCHANGED gvars
  BY <1>9 DEF gvars, GTypeOK
<1>10. QED
  BY <1>1, <1>2, <1>3, <1>4, <1>5, <1>6, <1>7, <1>8, <1>9 DEF GNext, GStep

(* Every variable of generateAbis keeps its type.                          *)
THEOREM GenerateTypeCorrect == GSpec => []GTypeOK
<1>1. QED
  BY TypeInit, TypeStep, PTL DEF GSpec

-----------------------------------------------------------------------------
(* What each stage knows: while TypeChain runs, the factories of the names *)
(* it is done with are there; once it has ended, none is missing; nothing  *)
(* is rendered before the last stage.                                      *)
Progress ==
  /\ generation = "typechain" =>
       DOMAIN sortedAssets \ running \subseteq factories /\ DOMAIN interfaces = {}
  /\ generation \in {"listed", "indexed"} =>
       /\ running = {}
       /\ DOMAIN sortedAssets \subseteq factories
       /\ abiNames = factories
       /\ DOMAIN interfaces = {}
  /\ generation = "indexed" => \A i \in Indexes : indexes[i] = factories
  /\ generation = "done" => running = {}

GInv == GTypeOK /\ Progress /\ GeneratedFilesAgree

LEMMA GInvInit == GInit => GInv
  BY TypeInit DEF GInit, GInv, Progress, GeneratedFilesAgree

LEMMA GInvStep == GInv /\ [GNext]_gvars => GInv'
<1> SUFFICES ASSUME GInv, [GNext]_gvars PROVE Progress' /\ GeneratedFilesAgree'
  BY TypeStep DEF GInv
<1> USE DEF GInv, Progress, GeneratedFilesAgree
<1>1. CASE Reject
  BY <1>1 DEF Reject
<1>2. CASE \E assets \in SortedAssets : Begin(assets)
  <2>1. PICK assets \in SortedAssets : Begin(assets)
    BY <1>2
  <2>2. CASE DOMAIN assets = {}
    BY <2>1, <2>2 DEF Begin
  <2>3. CASE DOMAIN assets # {}
    BY <2>1, <2>3, NoFilesType DEF Begin
  <2>4. QED
    BY <2>2, <2>3
<1>3. CASE \E name \in AbiNames : RunTypeChain(name)
  <2>1. PICK name \in AbiNames : RunTypeChain(name)
    BY <1>3
  <2>2. generation \notin {"listed", "indexed", "done"}
    BY <2>1 DEF RunTypeChain
  <2>3. QED
    BY <2>1, <2>2 DEF RunTypeChain
<1>4. CASE \E name \in AbiNames : TypeChainFails(name)
  <2>1. PICK name \in AbiNames : TypeChainFails(name)
    BY <1>4
  <2>2. generation \notin {"listed", "indexed", "done"}
    BY <2>1 DEF TypeChainFails
  <2>3. generation' \notin {"typechain", "listed", "indexed", "done"}
    BY <2>1, <2>2 DEF TypeChainFails
  <2>4. QED
    BY <2>3
<1>5. CASE ListFactories
  BY <1>5 DEF ListFactories
<1>6. CASE WriteIndexes
  BY <1>6 DEF WriteIndexes
<1>7. CASE RenderInterfaces
  <2>1. interfaces' = sortedAssets
    BY <1>7, RenderedAll DEF RenderInterfaces, GTypeOK
  <2>2. QED
    BY <1>7, <2>1 DEF RenderInterfaces
<1>8. CASE WritingFails
  BY <1>8 DEF WritingFails
<1>9. CASE UNCHANGED gvars
  BY <1>9 DEF gvars
<1>10. QED
  BY <1>1, <1>2, <1>3, <1>4, <1>5, <1>6, <1>7, <1>8, <1>9 DEF GNext, GStep

(* After a generation without an error the indexes, the factories and the  *)
(* interfaces agree, for any assets and in any order of the runs of        *)
(* TypeChain, failed generations before it included (generateAbis).        *)
THEOREM GeneratedFilesCorrect == GSpec => []GeneratedFilesAgree
<1>1. GInv => GeneratedFilesAgree
  BY DEF GInv
<1>2. QED
  BY <1>1, GInvInit, GInvStep, PTL DEF GSpec

-----------------------------------------------------------------------------
(* Numbers and sequences.                                                  *)

(* A nonempty set of natural numbers has a least element.                  *)
LEMMA LeastNumber ==
  ASSUME NEW T, T \subseteq Nat, T # {}
  PROVE  \E m \in T : \A n \in T : m <= n
<1>. DEFINE Less == OpToRel(<, Nat)
<1>1. IsWellFoundedOn(Less, Nat)
  BY NatLessThanWellFounded
<1>2. Less = {ss \in Nat \X Nat : ss[1] < ss[2]}
  BY Zenon DEF OpToRel
<1>. HIDE DEF Less
<1>3. PICK m \in T : \A n \in T : ~(<<n, m>> \in Less)
  BY <1>1, WFMin
<1>4. ASSUME NEW n \in T PROVE m <= n
  <2>1. n \in Nat /\ m \in Nat
    OBVIOUS
  <2>2. ~(<<n, m>> \in Less)
    BY <1>3
  <2>3. ~(n < m)
    BY <2>1, <2>2, <1>2
  <2>. QED BY <2>1, <2>3
<1>. QED BY <1>3, <1>4

(* Of numbers with a bound there is a greatest.                            *)
LEMMA GreatestNumber ==
  ASSUME NEW n \in Nat, NEW T, T \subseteq 0..n, T # {}
  PROVE  \E m \in T : \A k \in T : k <= m
<1> DEFINE U == {n - k : k \in T}
<1>1. U \subseteq Nat /\ U # {}
  OBVIOUS
<1>2. PICK u \in U : \A v \in U : u <= v
  <2> HIDE DEF U
  <2>1. QED
    BY <1>1, LeastNumber
<1>3. PICK m \in T : u = n - m
  OBVIOUS
<1>4. ASSUME NEW k \in T PROVE k <= m
  <2>1. n - m <= n - k
    BY <1>2, <1>3
  <2>2. QED
    BY <2>1
<1>5. QED
  BY <1>4

(* The elements of a sequence, and those of two in a row.                  *)
LEMMA SequenceOf ==
  ASSUME NEW n \in Nat, NEW s, DOMAIN s = 1..n, s = [i \in 1..n |-> s[i]]
  PROVE  IsSequence(s) /\ Len(s) = n
<1>1. s \in [1..n -> ToSet(s)]
  BY DEF ToSet
<1>2. s \in Seq(ToSet(s))
  BY <1>1
<1>3. QED
  BY <1>2 DEF IsSequence

LEMMA LengthOf ==
  ASSUME NEW s, IsSequence(s)
  PROVE  Len(s) \in Nat /\ DOMAIN s = 1..Len(s) /\ \A i \in 1..Len(s) : s[i] \in ToSet(s)
  BY DEF IsSequence

LEMMA Joined ==
  ASSUME NEW s, NEW t, IsSequence(s), IsSequence(t)
  PROVE  /\ IsSequence(s \o t)
         /\ DOMAIN (s \o t) = 1..(Len(s) + Len(t))
         /\ \A i \in 1..Len(s) : (s \o t)[i] = s[i]
         /\ \A i \in (Len(s) + 1)..(Len(s) + Len(t)) :
              i - Len(s) \in 1..Len(t) /\ (s \o t)[i] = t[i - Len(s)]
<1> DEFINE all == ToSet(s) \cup ToSet(t)
           u == s \o t
<1>1. s \in Seq(all) /\ t \in Seq(all)
  BY DEF IsSequence
<1>2. Len(s) \in Nat /\ Len(t) \in Nat
  BY <1>1
<1> HIDE DEF all
<1>3. /\ u \in Seq(all)
      /\ Len(u) = Len(s) + Len(t)
      /\ \A i \in 1..(Len(s) + Len(t)) : u[i] = IF i <= Len(s) THEN s[i] ELSE t[i - Len(s)]
  BY <1>1, ConcatProperties
<1>4. DOMAIN u = 1..(Len(s) + Len(t)) /\ u = [i \in 1..(Len(s) + Len(t)) |-> u[i]]
  <2> HIDE DEF u
  <2>1. u \in [1..Len(u) -> all]
    BY <1>3
  <2>2. QED
    BY <2>1, <1>3
<1>5. IsSequence(u)
  <2> HIDE DEF u
  <2>1. QED
    BY <1>2, <1>4, SequenceOf
<1>6. QED
  BY <1>2, <1>3, <1>4, <1>5

LEMMA Appended ==
  ASSUME NEW s, NEW e, IsSequence(s)
  PROVE  /\ IsSequence(Append(s, e))
         /\ DOMAIN Append(s, e) = 1..(Len(s) + 1)
         /\ \A i \in 1..Len(s) : Append(s, e)[i] = s[i]
         /\ Append(s, e)[Len(s) + 1] = e
<1> DEFINE all == ToSet(s) \cup {e}
           u == Append(s, e)
<1>1. s \in Seq(all) /\ e \in all
  BY DEF IsSequence
<1>2. Len(s) \in Nat
  BY <1>1
<1> HIDE DEF all
<1>3. /\ u \in Seq(all)
      /\ Len(u) = Len(s) + 1
      /\ \A i \in 1..Len(s) : u[i] = s[i]
      /\ u[Len(s) + 1] = e
  BY <1>1, AppendProperties
<1>4. DOMAIN u = 1..(Len(s) + 1) /\ u = [i \in 1..(Len(s) + 1) |-> u[i]]
  <2> HIDE DEF u
  <2>1. u \in [1..Len(u) -> all]
    BY <1>3
  <2>2. QED
    BY <2>1, <1>3
<1>5. IsSequence(u)
  <2> HIDE DEF u
  <2>1. Len(s) + 1 \in Nat
    BY <1>2
  <2>2. QED
    BY <2>1, <1>4, SequenceOf
<1>6. QED
  BY <1>2, <1>3, <1>4, <1>5

LEMMA EmptySequence == IsSequence(<<>>) /\ DOMAIN <<>> = {} /\ Len(<<>>) = 0
  BY DEF IsSequence

-----------------------------------------------------------------------------
(* What code generation is given.                                          *)

LEMMA SourcesOfProject ==
  ASSUME NEW p \in Projects
  PROVE  /\ IsSequence(AllSources(p))
         /\ DOMAIN AllSources(p) = 1..(Len(p.dataSources) + Len(p.templates))
         /\ \A i \in DOMAIN AllSources(p) : IsDataSource(AllSources(p)[i])
         /\ \A i \in DOMAIN p.dataSources :
              i \in DOMAIN AllSources(p) /\ AllSources(p)[i] = p.dataSources[i]
         /\ \A i \in DOMAIN p.templates :
              /\ Len(p.dataSources) + i \in DOMAIN AllSources(p)
              /\ AllSources(p)[Len(p.dataSources) + i] = p.templates[i]
<1> DEFINE s == p.dataSources
           t == p.templates
<1>1. /\ IsSequence(s) /\ \A i \in DOMAIN s : IsDataSource(s[i])
      /\ IsSequence(t) /\ \A i \in DOMAIN t : IsDataSource(t[i])
  BY ProjectsAssumption DEF IsProject
<1>2. AllSources(p) = s \o t
  BY DEF AllSources
<1> HIDE DEF s, t
<1>3. /\ Len(s) \in Nat /\ DOMAIN s = 1..Len(s)
      /\ Len(t) \in Nat /\ DOMAIN t = 1..Len(t)
  BY <1>1, LengthOf
<1>4. /\ IsSequence(s \o t)
      /\ DOMAIN (s \o t) = 1..(Len(s) + Len(t))
      /\ \A i \in 1..Len(s) : (s \o t)[i] = s[i]
      /\ \A i \in (Len(s) + 1)..(Len(s) + Len(t)) :
           i - Len(s) \in 1..Len(t) /\ (s \o t)[i] = t[i - Len(s)]
  BY <1>1, Joined
<1>5. ASSUME NEW i \in DOMAIN (s \o t) PROVE IsDataSource((s \o t)[i])
  <2>1. i \in 1..Len(s) \/ i \in (Len(s) + 1)..(Len(s) + Len(t))
    BY <1>3, <1>4
  <2>2. QED
    BY <2>1, <1>1, <1>3, <1>4
<1>6. ASSUME NEW i \in DOMAIN t
      PROVE  Len(s) + i \in DOMAIN (s \o t) /\ (s \o t)[Len(s) + i] = t[i]
  <2>1. /\ Len(s) + i \in (Len(s) + 1)..(Len(s) + Len(t))
        /\ Len(s) + i \in 1..(Len(s) + Len(t))
        /\ (Len(s) + i) - Len(s) = i
    BY <1>3
  <2>2. QED
    BY <2>1, <1>4
<1>7. ASSUME NEW i \in DOMAIN s PROVE i \in DOMAIN (s \o t) /\ (s \o t)[i] = s[i]
  BY <1>3, <1>4
<1>8. QED
  BY <1>2, <1>4, <1>5, <1>6, <1>7 DEF s, t

(* Of the places of assets of one name there is a last one.                *)
LEMMA LastPlace ==
  ASSUME NEW sources, IsSequence(sources),
         \A i \in DOMAIN sources : IsSequence(sources[i].assets),
         NEW name, PlacesNamed(sources, name) # {}
  PROVE  \E place \in PlacesNamed(sources, name) : IsLast(place, PlacesNamed(sources, name))
<1> DEFINE places == PlacesNamed(sources, name)
           rows == {p[1] : p \in places}
           columns(i) == {j \in DOMAIN sources[i].assets : <<i, j>> \in places}
<1>1. \A p \in places : \E i \in DOMAIN sources : \E j \in DOMAIN sources[i].assets : p = <<i, j>>
  BY DEF PlacesNamed, AssetPlaces
<1>2. Len(sources) \in Nat /\ DOMAIN sources = 1..Len(sources)
  BY LengthOf
<1>3. rows \subseteq 0..Len(sources) /\ rows # {}
  BY <1>1, <1>2
<1>4. PICK row \in rows : \A i \in rows : i <= row
  <2> HIDE DEF rows
  <2>1. QED
    BY <1>2, <1>3, GreatestNumber
<1>5. row \in DOMAIN sources /\ columns(row) # {}
  BY <1>1
<1>6. Len(sources[row].assets) \in Nat /\ DOMAIN sources[row].assets = 1..Len(sources[row].assets)
  BY <1>5, LengthOf
<1>7. columns(row) \subseteq 0..Len(sources[row].assets)
  BY <1>6
<1>8. PICK column \in columns(row) : \A j \in columns(row) : j <= column
  <2> HIDE DEF columns
  <2>1. QED
    BY <1>5, <1>6, <1>7, GreatestNumber
<1>9. <<row, column>> \in places
  BY <1>8
<1>10. ASSUME NEW p \in places
       PROVE  p[1] < row \/ (p[1] = row /\ p[2] <= column)
  <2>1. PICK i \in DOMAIN sources : \E j \in DOMAIN sources[i].assets : p = <<i, j>>
    BY <1>1
  <2>2. PICK j \in DOMAIN sources[i].assets : p = <<i, j>>
    BY <2>1
  <2>3. i \in rows /\ i <= row /\ i \in Nat /\ row \in Nat
    BY <2>2, <1>4, <1>2, <1>5
  <2>4. CASE i = row
    BY <2>2, <2>4, <1>8
  <2>5. CASE i # row
    BY <2>2, <2>3, <2>5
  <2>6. QED
    BY <2>4, <2>5
<1>11. IsLast(<<row, column>>, places)
  BY <1>10 DEF IsLast
<1>12. QED
  BY <1>9, <1>11

(* The assets of a project, where they exist, are files by their names.    *)
LEMMA AssetsOfProject ==
  ASSUME NEW p \in Projects, AssetsExist(AllSources(p), p.files)
  PROVE  PrepareSortedAssets(AllSources(p)) \in SortedAssets
<1> DEFINE sources == AllSources(p)
           names == {PathAt(sources, place).name : place \in AssetPlaces(sources)}
           last(name) == CHOOSE place \in PlacesNamed(sources, name) :
                           IsLast(place, PlacesNamed(sources, name))
<1>1. \A place \in AssetPlaces(sources) :
        PathAt(sources, place) \in AbiFiles /\ PathAt(sources, place).name \in AbiNames
  BY ProjectsAssumption DEF IsProject, AssetsExist
<1>2. IsSequence(sources) /\ \A i \in DOMAIN sources : IsSequence(sources[i].assets)
  BY SourcesOfProject DEF IsDataSource
<1> HIDE DEF sources
<1>3. ASSUME NEW name \in names PROVE PathAt(sources, last(name)) \in AbiFiles
  <2>1. PlacesNamed(sources, name) # {}
    BY DEF PlacesNamed
  <2>2. \E place \in PlacesNamed(sources, name) : IsLast(place, PlacesNamed(sources, name))
    BY <1>2, <2>1, LastPlace
  <2>3. last(name) \in PlacesNamed(sources, name)
    BY <2>2
  <2>4. QED
    BY <2>3, <1>1 DEF PlacesNamed
<1>4. names \in SUBSET AbiNames
  BY <1>1
<1>5. PrepareSortedAssets(sources) = [name \in names |-> PathAt(sources, last(name))]
  BY DEF PrepareSortedAssets
<1>6. PrepareSortedAssets(sources) \in [names -> AbiFiles]
  BY <1>3, <1>5
<1>7. QED
  BY <1>4, <1>6 DEF SortedAssets, sources

(* There is always a project on disk.                                      *)
SourceOK == source \in Projects

LEMMA SourceInvariant == Spec => []SourceOK
<1>1. Init => SourceOK
  BY DEF Init, SourceOK
<1>2. SourceOK /\ [Next]_vars => SourceOK'
  BY DEF SourceOK, Next, vars, fileVars, nodeVars, EditProject, GenerateAbis, Generate,
         CreateSubQueryProject, InitApiService, RestoreDynamicDs, InitDictionary,
         InitDictionaries, CreateDynamicDs, Stop
<1>3. QED
  BY <1>1, <1>2, PTL DEF Spec

(* What a project generates is a behaviour of generateAbis, which is given *)
(* assets or refuses them: what edits, loading and indexing do between its *)
(* steps does not disturb it.                                              *)
THEOREM ProjectGenerates == Spec => GSpec
<1>1. Init => GInit
  BY DEF Init
<1>2. SourceOK /\ [Next]_vars => [GNext]_gvars
  <2> SUFFICES ASSUME SourceOK, [Next]_vars PROVE [GNext]_gvars
    OBVIOUS
  <2>1. CASE GenerateAbis
    <3>1. CASE Reject
      BY <3>1 DEF GNext
    <3>2. CASE /\ AssetsExist(AllSources(source), source.files)
               /\ Begin(PrepareSortedAssets(AllSources(source)))
      BY <3>2, AssetsOfProject DEF SourceOK, GNext
    <3>3. QED
      BY <2>1, <3>1, <3>2 DEF GenerateAbis
  <2>2. CASE Generate
    BY <2>2 DEF Generate, GNext
  <2>3. CASE EditProject \/ CreateSubQueryProject \/ InitApiService \/ RestoreDynamicDs
             \/ InitDictionary \/ InitDictionaries \/ CreateDynamicDs \/ Stop
    BY <2>3 DEF EditProject, CreateSubQueryProject, InitApiService, RestoreDynamicDs,
                InitDictionary, InitDictionaries, CreateDynamicDs, Stop
  <2>4. CASE UNCHANGED vars
    BY <2>4 DEF vars
  <2>5. QED
    BY <2>1, <2>2, <2>3, <2>4 DEF Next
<1>3. QED
  BY <1>1, <1>2, SourceInvariant, PTL DEF Spec, GSpec

(* Whenever the project was edited and generated before, and whatever of   *)
(* it failed, after a generation without an error its files agree          *)
(* (generateAbis).                                                         *)
THEOREM ProjectFilesAgree == Spec => []GeneratedFilesAgree
<1>1. QED
  BY ProjectGenerates, GeneratedFilesCorrect, PTL

-----------------------------------------------------------------------------
(* What is indexed.                                                        *)

(* What validation accepts is indexable.                                   *)
LEMMA ValidIsIndexable ==
  ASSUME NEW ds, ds.processor \in BOOLEAN, DsIsValid(ds)
  PROVE  IsIndexable(ds)
<1>1. CASE IsRuntimeDs(ds)
  <2>1. ASSUME NEW j \in DOMAIN ds.handlers,
               ds.handlers[j].filter # None, ds.handlers[j].kind # "Block"
        PROVE  DOMAIN ds.handlers[j].filter \subseteq KeysRead[ds.handlers[j].kind]
    <3>1. HandlerIsValid(ds.handlers[j])
      BY <1>1 DEF DsIsValid, RuntimeDsIsValid
    <3>2. ds.handlers[j].kind \in {"Call", "Event"}
      BY <2>1, <3>1 DEF HandlerIsValid, HandlerKinds
    <3>3. Whitelist(ds.handlers[j].kind) = KeysRead[ds.handlers[j].kind]
      BY <3>2 DEF Whitelist, KeysRead
    <3>4. QED
      BY <2>1, <3>1, <3>3 DEF HandlerIsValid
  <2>2. \A j \in DOMAIN ds.handlers : ds.handlers[j].kind \in HandlerKinds
    BY <1>1 DEF DsIsValid, RuntimeDsIsValid, HandlerIsValid
  <2>3. ds.address = None \/ IsEthereumOrZilliqaAddress(ds.address)
    BY <1>1 DEF DsIsValid, RuntimeDsIsValid, OptionsAreValid
  <2>4. QED
    BY <1>1, <2>1, <2>2, <2>3 DEF IsIndexable, IsCustomDs
<1>2. CASE ~IsRuntimeDs(ds)
  BY <1>2 DEF DsIsValid, CustomDsIsValid, IsIndexable, IsCustomDs
<1>3. QED
  BY <1>1, <1>2

(* The resolution of its filters keeps what a handler is and what its      *)
(* filter names.                                                           *)
ResolvedHandler(h, types) ==
  ProcessTransactionHandlerFilters(ProcessEventHandlerFilters(h, types), types)

LEMMA EventFiltersKeep ==
  ASSUME NEW h, IsHandler(h), NEW types
  PROVE  LET r == ProcessEventHandlerFilters(h, types) IN
         /\ IsHandler(r) /\ r.kind = h.kind
         /\ h.filter = None => r.filter = None
         /\ h.filter # None => DOMAIN r.filter = DOMAIN h.filter
<1> DEFINE r == ProcessEventHandlerFilters(h, types)
<1>1. CASE h.kind = "Event" /\ HasFilter(h, "topics") /\ h.filter.topics # <<>>
  <2> DEFINE filter == [h.filter EXCEPT !.topics[1] = Resolved(@, types)]
  <2>1. r = [h EXCEPT !.filter = filter]
    BY <1>1 DEF ProcessEventHandlerFilters
  <2>2. DOMAIN filter = DOMAIN h.filter
    OBVIOUS
  <2> HIDE DEF filter
  <2>3. r = [kind |-> h.kind, filter |-> filter]
    BY <2>1 DEF IsHandler
  <2> HIDE DEF r
  <2>4. r.kind = h.kind /\ r.filter = filter
    BY <2>3
  <2>5. QED
    BY <1>1, <2>2, <2>3, <2>4 DEF IsHandler, HasFilter, r
<1>2. CASE ~(h.kind = "Event" /\ HasFilter(h, "topics") /\ h.filter.topics # <<>>)
  BY <1>2 DEF ProcessEventHandlerFilters
<1>3. QED
  BY <1>1, <1>2

LEMMA CallFiltersKeep ==
  ASSUME NEW h, IsHandler(h), NEW types
  PROVE  LET r == ProcessTransactionHandlerFilters(h, types) IN
         /\ IsHandler(r) /\ r.kind = h.kind
         /\ h.filter = None => r.filter = None
         /\ h.filter # None => DOMAIN r.filter = DOMAIN h.filter
<1> DEFINE r == ProcessTransactionHandlerFilters(h, types)
<1>1. CASE h.kind = "Call" /\ HasFilter(h, "function")
  <2> DEFINE filter == [h.filter EXCEPT !.function = Resolved(@, types)]
  <2>1. r = [h EXCEPT !.filter = filter]
    BY <1>1 DEF ProcessTransactionHandlerFilters
  <2>2. DOMAIN filter = DOMAIN h.filter
    OBVIOUS
  <2> HIDE DEF filter
  <2>3. r = [kind |-> h.kind, filter |-> filter]
    BY <2>1 DEF IsHandler
  <2> HIDE DEF r
  <2>4. r.kind = h.kind /\ r.filter = filter
    BY <2>3
  <2>5. QED
    BY <1>1, <2>2, <2>3, <2>4 DEF IsHandler, HasFilter, r
<1>2. CASE ~(h.kind = "Call" /\ HasFilter(h, "function"))
  BY <1>2 DEF ProcessTransactionHandlerFilters
<1>3. QED
  BY <1>1, <1>2

LEMMA HandlerIsKept ==
  ASSUME NEW h, IsHandler(h), NEW types
  PROVE  LET r == ResolvedHandler(h, types) IN
         /\ IsHandler(r) /\ r.kind = h.kind
         /\ h.filter = None => r.filter = None
         /\ h.filter # None /\ r.filter # None => DOMAIN r.filter = DOMAIN h.filter
<1> DEFINE e == ProcessEventHandlerFilters(h, types)
           r == ProcessTransactionHandlerFilters(e, types)
<1>1. /\ IsHandler(e) /\ e.kind = h.kind
      /\ h.filter = None => e.filter = None
      /\ h.filter # None => DOMAIN e.filter = DOMAIN h.filter
  BY EventFiltersKeep
<1>2. /\ IsHandler(r) /\ r.kind = e.kind
      /\ e.filter = None => r.filter = None
      /\ e.filter # None => DOMAIN r.filter = DOMAIN e.filter
  <2> HIDE DEF e
  <2>1. QED
    BY <1>1, CallFiltersKeep
<1> HIDE DEF e
<1>3. r = ResolvedHandler(h, types)
  BY DEF ResolvedHandler, e
<1> HIDE DEF r
<1>4. QED
  BY <1>1, <1>2, <1>3

(* ... and what a datasource is, its address and whether it is valid.      *)
LEMMA DataSourceIsKept ==
  ASSUME NEW ds, IsDataSource(ds), NEW files
  PROVE  LET r == ResolveTopicFilters(ds, files) IN
         /\ r = [kind |-> ds.kind, processor |-> ds.processor, abi |-> ds.abi,
                 address |-> ds.address, assets |-> ds.assets, handlers |-> r.handlers]
         /\ DsIsValid(ds) => DsIsValid(r)
<1> DEFINE types == CustomTypesOf(ds, files)
           handlers == [i \in DOMAIN ds.handlers |-> ResolvedHandler(ds.handlers[i], types)]
           r == ResolveTopicFilters(ds, files)
<1>1. r = [ds EXCEPT !.handlers = handlers]
  BY DEF ResolveTopicFilters, ResolvedHandler
<1> HIDE DEF r
<1>2. DOMAIN handlers = DOMAIN ds.handlers
      /\ \A i \in DOMAIN ds.handlers : handlers[i] = ResolvedHandler(ds.handlers[i], types)
  OBVIOUS
<1> HIDE DEF handlers, types
<1>3. r = [kind |-> ds.kind, processor |-> ds.processor, abi |-> ds.abi,
           address |-> ds.address, assets |-> ds.assets, handlers |-> handlers]
  BY <1>1 DEF IsDataSource
<1>4. /\ r.kind = ds.kind /\ r.processor = ds.processor /\ r.address = ds.address
      /\ r.handlers = handlers
  BY <1>3
<1>5. ASSUME NEW i \in DOMAIN ds.handlers, HandlerIsValid(ds.handlers[i])
      PROVE  HandlerIsValid(handlers[i])
  <2> DEFINE h == ds.handlers[i]
             k == ResolvedHandler(h, types)
  <2>1. IsHandler(h)
    BY DEF IsDataSource
  <2> HIDE DEF h
  <2>2. /\ k.kind = h.kind
        /\ h.filter = None => k.filter = None
        /\ h.filter # None /\ k.filter # None => DOMAIN k.filter = DOMAIN h.filter
    BY <2>1, HandlerIsKept
  <2>3. handlers[i] = k
    BY <1>2 DEF h
  <2>4. HandlerIsValid(h)
    BY <1>5 DEF h
  <2> HIDE DEF k
  <2>5. HandlerIsValid(k)
    BY <2>2, <2>4 DEF HandlerIsValid
  <2>6. QED
    BY <2>3, <2>5
<1>6. ASSUME DsIsValid(ds) PROVE DsIsValid(r)
  <2>1. CASE IsRuntimeDs(ds)
    <3>1. IsRuntimeDs(r) /\ OptionsAreValid(r)
      BY <1>4, <1>6, <2>1 DEF IsRuntimeDs, DsIsValid, RuntimeDsIsValid, OptionsAreValid
    <3>2. \A i \in DOMAIN ds.handlers : HandlerIsValid(ds.handlers[i])
      BY <1>6, <2>1 DEF DsIsValid, RuntimeDsIsValid
    <3>3. \A i \in DOMAIN r.handlers : HandlerIsValid(r.handlers[i])
      BY <3>2, <1>5, <1>4, <1>2
    <3>4. QED
      BY <3>1, <3>3 DEF DsIsValid, RuntimeDsIsValid
  <2>2. CASE ~IsRuntimeDs(ds)
    BY <1>4, <1>6, <2>2 DEF IsRuntimeDs, DsIsValid, CustomDsIsValid
  <2>3. QED
    BY <2>1, <2>2
<1>7. QED
  BY <1>3, <1>4, <1>6 DEF r

(* What a handler creates from a datasource is refused, or valid again.    *)
IsValidDs(ds) == ds.processor \in BOOLEAN /\ DsIsValid(ds)

LEMMA UpdatedIsValid ==
  ASSUME NEW ds, ds.processor \in BOOLEAN, DsIsValid(ds), NEW address,
         ds = [kind |-> ds.kind, processor |-> ds.processor, abi |-> ds.abi,
               address |-> ds.address, assets |-> ds.assets, handlers |-> ds.handlers],
         UpdatedDs(ds, address) # Invalid
  PROVE  IsValidDs(UpdatedDs(ds, address))
<1> DEFINE updated == [ds EXCEPT !.address = address]
<1>1. CASE IsRuntimeDs(ds)
  <2>1. updated.kind = ds.kind /\ updated.processor = ds.processor
    OBVIOUS
  <2> HIDE DEF updated
  <2>2. UpdatedDs(ds, address) = updated /\ RuntimeDsIsValid(updated)
    BY <1>1 DEF UpdatedDs, updated
  <2>3. QED
    BY <1>1, <2>1, <2>2 DEF IsValidDs, DsIsValid, IsRuntimeDs
<1>2. CASE ~IsRuntimeDs(ds)
  BY <1>2 DEF UpdatedDs, IsValidDs
<1>3. QED
  BY <1>1, <1>2

(* The datasources and templates that a project was resolved to are valid. *)
LEMMA ResolvedIsValid ==
  ASSUME NEW p \in Projects, IsValid(p)
  PROVE  LET r == ResolvedProject(p) IN
         /\ IsSequence(r.dataSources) /\ IsSequence(r.templates)
         /\ \A i \in DOMAIN r.dataSources : IsValidDs(r.dataSources[i])
         /\ \A i \in DOMAIN r.templates :
              \A address : UpdatedDs(r.templates[i], address) # Invalid =>
                             IsValidDs(UpdatedDs(r.templates[i], address))
<1> DEFINE s == ResolveTopicFiltersInProject(p.dataSources, p.files)
           t == ResolveTopicFiltersInProject(p.templates, p.files)
<1>1. /\ IsSequence(p.dataSources) /\ IsSequence(p.templates)
      /\ \A i \in DOMAIN p.dataSources : IsDataSource(p.dataSources[i])
      /\ \A i \in DOMAIN p.templates : IsDataSource(p.templates[i])
  BY ProjectsAssumption DEF IsProject
<1>2. /\ \A i \in DOMAIN p.dataSources : DsIsValid(p.dataSources[i])
      /\ \A i \in DOMAIN p.templates : DsIsValid(p.templates[i])
  BY SourcesOfProject DEF IsValid
<1>3. /\ ResolvedProject(p).dataSources = s /\ ResolvedProject(p).templates = t
  BY DEF ResolvedProject
<1>4. /\ s = [i \in DOMAIN p.dataSources |-> ResolveTopicFilters(p.dataSources[i], p.files)]
      /\ t = [i \in DOMAIN p.templates |-> ResolveTopicFilters(p.templates[i], p.files)]
  BY DEF ResolveTopicFiltersInProject
<1> HIDE DEF s, t
<1>5. /\ Len(p.dataSources) \in Nat /\ DOMAIN p.dataSources = 1..Len(p.dataSources)
      /\ Len(p.templates) \in Nat /\ DOMAIN p.templates = 1..Len(p.templates)
  BY <1>1, LengthOf
<1>6. IsSequence(s) /\ IsSequence(t)
  <2>1. /\ DOMAIN s = 1..Len(p.dataSources) /\ s = [i \in 1..Len(p.dataSources) |-> s[i]]
        /\ DOMAIN t = 1..Len(p.templates) /\ t = [i \in 1..Len(p.templates) |-> t[i]]
    BY <1>4, <1>5
  <2>2. QED
    BY <2>1, <1>5, SequenceOf
<1>7. ASSUME NEW i \in DOMAIN s PROVE IsValidDs(s[i])
  <2> DEFINE ds == p.dataSources[i]
             r == ResolveTopicFilters(ds, p.files)
  <2>1. s[i] = r /\ IsDataSource(ds) /\ DsIsValid(ds)
    BY <1>1, <1>2, <1>4
  <2> HIDE DEF ds
  <2>2. /\ r = [kind |-> ds.kind, processor |-> ds.processor, abi |-> ds.abi,
                address |-> ds.address, assets |-> ds.assets, handlers |-> r.handlers]
        /\ DsIsValid(r)
    BY <2>1, DataSourceIsKept
  <2> HIDE DEF r
  <2>3. r.processor \in BOOLEAN
    BY <2>1, <2>2 DEF IsDataSource
  <2>4. QED
    BY <2>1, <2>2, <2>3 DEF IsValidDs
<1>8. ASSUME NEW i \in DOMAIN t, NEW address, UpdatedDs(t[i], address) # Invalid
      PROVE  IsValidDs(UpdatedDs(t[i], address))
  <2> DEFINE ds == p.templates[i]
             r == ResolveTopicFilters(ds, p.files)
  <2>1. t[i] = r /\ IsDataSource(ds) /\ DsIsValid(ds)
    BY <1>1, <1>2, <1>4
  <2> HIDE DEF ds
  <2>2. /\ r = [kind |-> ds.kind, processor |-> ds.processor, abi |-> ds.abi,
                address |-> ds.address, assets |-> ds.assets, handlers |-> r.handlers]
        /\ DsIsValid(r)
    BY <2>1, DataSourceIsKept
  <2> HIDE DEF r
  <2>3. /\ r.processor \in BOOLEAN
        /\ r = [kind |-> r.kind, processor |-> r.processor, abi |-> r.abi,
                address |-> r.address, assets |-> r.assets, handlers |-> r.handlers]
    BY <2>1, <2>2 DEF IsDataSource
  <2>4. QED
    BY <1>8, <2>1, <2>2, <2>3, UpdatedIsValid
<1>9. QED
  BY <1>3, <1>6, <1>7, <1>8

(* The node has no project, or a valid one that was on disk, with its      *)
(* filters resolved; what handlers created was validated.                  *)
HasLoaded == loadedFrom \in Projects /\ IsValid(loadedFrom) /\ project = ResolvedProject(loadedFrom)
IndexInv ==
  /\ SourceOK
  /\ project = NoProject \/ HasLoaded
  /\ IsSequence(params)
  /\ IsSequence(dynamicDs) /\ \A i \in DOMAIN dynamicDs : IsValidDs(dynamicDs[i])

LEMMA IndexInit == Init => IndexInv
  BY EmptySequence DEF Init, IndexInv, SourceOK

LEMMA ProjectIsValid ==
  ASSUME IndexInv
  PROVE  /\ IsSequence(project.dataSources)
         /\ \A i \in DOMAIN project.dataSources : IsValidDs(project.dataSources[i])
         /\ \A param : DynamicDs(param) # Invalid => IsValidDs(DynamicDs(param))
<1>1. CASE project = NoProject
  <2>1. project.dataSources = <<>> /\ project.templates = <<>>
    BY <1>1 DEF NoProject
  <2>2. QED
    BY <2>1, EmptySequence DEF DynamicDs
<1>2. CASE HasLoaded
  BY <1>2, ResolvedIsValid DEF HasLoaded, DynamicDs
<1>3. QED
  BY <1>1, <1>2 DEF IndexInv

LEMMA IndexStep == IndexInv /\ [Next]_vars => IndexInv'
<1> SUFFICES ASSUME IndexInv, [Next]_vars PROVE IndexInv'
  OBVIOUS
<1> USE DEF IndexInv, HasLoaded, SourceOK
<1>1. CASE EditProject
  BY <1>1 DEF EditProject, nodeVars, projectVars, dynamicVars
<1>2. CASE GenerateAbis \/ Generate
  BY <1>2 DEF GenerateAbis, Generate, fileVars, nodeVars, projectVars, dynamicVars
<1>3. CASE CreateSubQueryProject
  <2>1. source' = source /\ params' = params /\ dynamicDs' = dynamicDs
    BY <1>3 DEF CreateSubQueryProject, fileVars, dynamicVars
  <2>2. \/ IsValid(source) /\ loadedFrom' = source /\ project' = ResolvedProject(source)
        \/ loadedFrom' = loadedFrom /\ project' = project
    BY <1>3 DEF CreateSubQueryProject, projectVars
  <2>3. project' = NoProject \/ HasLoaded'
    BY <2>2
  <2>4. QED
    BY <2>1, <2>3
<1>4. CASE InitApiService \/ InitDictionary \/ InitDictionaries
  BY <1>4 DEF InitApiService, InitDictionary, InitDictionaries, fileVars, projectVars, dynamicVars
<1>5. CASE RestoreDynamicDs
  <2> DEFINE restored == [i \in DOMAIN params |-> DynamicDs(params[i])]
  <2>1. source' = source /\ loadedFrom' = loadedFrom /\ project' = project /\ params' = params
    BY <1>5 DEF RestoreDynamicDs, fileVars, projectVars
  <2>2. CASE dynamicDs' = dynamicDs
    BY <2>1, <2>2
  <2>3. CASE Invalid \notin ToSet(restored) /\ dynamicDs' = restored
    <3>1. Len(params) \in Nat /\ DOMAIN params = 1..Len(params)
      BY LengthOf
    <3>2. DOMAIN restored = DOMAIN params
          /\ \A i \in DOMAIN params : restored[i] = DynamicDs(params[i])
      OBVIOUS
    <3>3. \A i \in DOMAIN params : restored[i] # Invalid
      BY <2>3, <3>2 DEF ToSet
    <3>4. \A i \in DOMAIN params : IsValidDs(DynamicDs(params[i]))
      BY <3>2, <3>3, ProjectIsValid
    <3>5. restored = [i \in 1..Len(params) |-> restored[i]]
      BY <3>1
    <3> HIDE DEF restored
    <3>6. IsSequence(restored) /\ \A i \in DOMAIN restored : IsValidDs(restored[i])
      BY <3>1, <3>2, <3>4, <3>5, SequenceOf
    <3>7. QED
      BY <2>1, <2>3, <3>6
  <2>4. QED
    BY <1>5, <2>2, <2>3 DEF RestoreDynamicDs
<1>6. CASE CreateDynamicDs
  <2>1. source' = source /\ loadedFrom' = loadedFrom /\ project' = project
    BY <1>6 DEF CreateDynamicDs, fileVars, projectVars
  <2>2. PICK param :
          \/ params' = params /\ dynamicDs' = dynamicDs
          \/ /\ DynamicDs(param) # Invalid
             /\ params' = Append(params, param)
             /\ dynamicDs' = Append(dynamicDs, DynamicDs(param))
    BY <1>6 DEF CreateDynamicDs, dynamicVars
  <2>3. CASE params' = params /\ dynamicDs' = dynamicDs
    BY <2>1, <2>3
  <2>4. CASE /\ DynamicDs(param) # Invalid
             /\ params' = Append(params, param)
             /\ dynamicDs' = Append(dynamicDs, DynamicDs(param))
    <3> DEFINE ds == DynamicDs(param)
    <3>1. IsValidDs(ds)
      BY <2>4, ProjectIsValid
    <3> HIDE DEF ds
    <3>2. IsSequence(Append(params, param))
      BY Appended
    <3>3. /\ IsSequence(Append(dynamicDs, ds))
          /\ DOMAIN Append(dynamicDs, ds) = 1..(Len(dynamicDs) + 1)
          /\ \A i \in 1..Len(dynamicDs) : Append(dynamicDs, ds)[i] = dynamicDs[i]
          /\ Append(dynamicDs, ds)[Len(dynamicDs) + 1] = ds
      BY Appended
    <3>4. Len(dynamicDs) \in Nat /\ DOMAIN dynamicDs = 1..Len(dynamicDs)
      BY LengthOf
    <3>5. \A i \in 1..(Len(dynamicDs) + 1) : i \in 1..Len(dynamicDs) \/ i = Len(dynamicDs) + 1
      BY <3>4
    <3>6. \A i \in DOMAIN Append(dynamicDs, ds) : IsValidDs(Append(dynamicDs, ds)[i])
      BY <3>1, <3>3, <3>4, <3>5
    <3>7. dynamicDs' = Append(dynamicDs, ds)
      BY <2>4 DEF ds
    <3>8. QED
      BY <2>1, <2>4, <3>2, <3>3, <3>6, <3>7
  <2>5. QED
    BY <2>2, <2>3, <2>4
<1>7. CASE Stop
  BY <1>7, EmptySequence DEF Stop, fileVars
<1>8. CASE UNCHANGED vars
  BY <1>8 DEF vars, fileVars, nodeVars, projectVars, dynamicVars
<1>9. QED
  BY <1>1, <1>2, <1>3, <1>4, <1>5, <1>6, <1>7, <1>8 DEF Next

(* Whatever is indexed was validated, in the manifest or when a handler    *)
(* created it, before this start or an earlier one of the node, and the    *)
(* resolution of its filters keeps it so (IsValid, updateDynamicDs).       *)
THEOREM LoadedCorrect == Spec => []LoadedIsIndexable
<1>1. IndexInv => LoadedIsIndexable
  <2> SUFFICES ASSUME IndexInv, NEW i \in DOMAIN Indexed PROVE IsIndexable(Indexed[i])
    BY DEF LoadedIsIndexable
  <2> DEFINE s == project.dataSources
  <2>1. IsSequence(s) /\ \A k \in DOMAIN s : IsValidDs(s[k])
    BY ProjectIsValid
  <2>2. IsSequence(dynamicDs) /\ \A k \in DOMAIN dynamicDs : IsValidDs(dynamicDs[k])
    BY DEF IndexInv
  <2> HIDE DEF s
  <2>3. /\ DOMAIN (s \o dynamicDs) = 1..(Len(s) + Len(dynamicDs))
        /\ \A k \in 1..Len(s) : (s \o dynamicDs)[k] = s[k]
        /\ \A k \in (Len(s) + 1)..(Len(s) + Len(dynamicDs)) :
             k - Len(s) \in 1..Len(dynamicDs) /\ (s \o dynamicDs)[k] = dynamicDs[k - Len(s)]
    BY <2>1, <2>2, Joined
  <2>4. /\ Len(s) \in Nat /\ DOMAIN s = 1..Len(s)
        /\ Len(dynamicDs) \in Nat /\ DOMAIN dynamicDs = 1..Len(dynamicDs)
    BY <2>1, <2>2, LengthOf
  <2>5. Indexed = s \o dynamicDs
    BY DEF Indexed, s
  <2>6. i \in 1..Len(s) \/ i \in (Len(s) + 1)..(Len(s) + Len(dynamicDs))
    BY <2>3, <2>4, <2>5
  <2>7. IsValidDs((s \o dynamicDs)[i])
    BY <2>1, <2>2, <2>3, <2>4, <2>6
  <2>8. QED
    BY <2>5, <2>7, ValidIsIndexable DEF IsValidDs
<1>2. QED
  BY <1>1, IndexInit, IndexStep, PTL DEF Spec

-----------------------------------------------------------------------------
(* The dictionaries.                                                       *)

(* The endpoints that have been tried, and what is known of each.          *)
IsTried(e, n) == \E k \in 1..n : Endpoints[k] = e
EachOnce(ds) == \A i, j \in DOMAIN ds : ds[i].endpoint = ds[j].endpoint => i = j
HasDictionary(ds, e) == \E i \in DOMAIN ds : ds[i].endpoint = e

TriedInv ==
  /\ tried \in 0..Len(Endpoints)
  /\ IsSequence(dictionariesV1) /\ IsSequence(dictionariesV2)
  /\ EachOnce(dictionariesV1) /\ EachOnce(dictionariesV2)
  /\ \A i \in DOMAIN dictionariesV1 :
       LET d == dictionariesV1[i] IN
       /\ d.version = "v1" /\ d.chain = WithAlias(ProjectChain) /\ IsTried(d.endpoint, tried)
       /\ "v1" \in Speaks[d.endpoint]
       /\ "v2" \in Speaks[d.endpoint] => d.endpoint \in disturbed
  /\ \A i \in DOMAIN dictionariesV2 :
       LET d == dictionariesV2[i] IN
       /\ d.version = "v2" /\ d.chain = ProjectChain /\ IsTried(d.endpoint, tried)
       /\ "v2" \in Speaks[d.endpoint]
  /\ \A k \in 1..tried :
       \/ Endpoints[k] \in disturbed
       \/ Speaks[Endpoints[k]] = {}
       \/ "v2" \in Speaks[Endpoints[k]] /\ HasDictionary(dictionariesV2, Endpoints[k])
       \/ "v2" \notin Speaks[Endpoints[k]] /\ HasDictionary(dictionariesV1, Endpoints[k])

(* Each start tries them anew, under the chain of the project it loaded.   *)
DictionaryInv ==
  /\ phase \in {"off", "loaded", "connected"} =>
       /\ dictionariesV1 = <<>> /\ dictionariesV2 = <<>>
       /\ tried = 0
  /\ phase \in {"restored", "indexing"} => TriedInv
  /\ phase = "indexing" =>
       tried = Len(Endpoints) /\ dictionaries = dictionariesV2 \o dictionariesV1

LEMMA NothingTried ==
  ASSUME dictionariesV1 = <<>>, dictionariesV2 = <<>>, tried = 0
  PROVE  TriedInv
<1>1. Len(Endpoints) \in Nat
  BY EndpointsAssumption, LengthOf
<1>2. QED
  BY <1>1, EmptySequence DEF TriedInv, EachOnce

(* A dictionary of a new endpoint beside those there are.                  *)
LEMMA OneMore ==
  ASSUME NEW ds, IsSequence(ds), EachOnce(ds), NEW d, ~HasDictionary(ds, d.endpoint)
  PROVE  LET more == Append(ds, d) IN
         /\ IsSequence(more) /\ EachOnce(more)
         /\ \A i \in DOMAIN more : more[i] = d \/ \E j \in DOMAIN ds : more[i] = ds[j]
         /\ \A e : HasDictionary(ds, e) => HasDictionary(more, e)
         /\ HasDictionary(more, d.endpoint)
<1> DEFINE more == Append(ds, d)
           n == Len(ds)
<1>1. n \in Nat /\ DOMAIN ds = 1..n
  BY LengthOf
<1>2. /\ IsSequence(more) /\ DOMAIN more = 1..(n + 1)
      /\ \A i \in 1..n : more[i] = ds[i]
      /\ more[n + 1] = d
  BY Appended
<1> HIDE DEF more, n
<1>3. \A i \in 1..(n + 1) : i \in 1..n \/ i = n + 1
  BY <1>1
<1>4. ASSUME NEW i \in DOMAIN more
      PROVE  (i \in DOMAIN ds /\ more[i] = ds[i]) \/ (i = n + 1 /\ more[i] = d)
  <2>1. i \in 1..n \/ i = n + 1
    BY <1>2, <1>3
  <2>2. QED
    BY <2>1, <1>1, <1>2
<1>5. \A i \in DOMAIN ds : i \in DOMAIN more /\ more[i] = ds[i]
  BY <1>1, <1>2
<1>6. n + 1 \in DOMAIN more /\ more[n + 1] = d
  BY <1>1, <1>2
<1>7. EachOnce(more)
  BY <1>4 DEF EachOnce, HasDictionary
<1>8. QED
  BY <1>2, <1>4, <1>5, <1>6, <1>7 DEF HasDictionary, more

LEMMA TryEndpoint == ASSUME TriedInv, InitDictionary PROVE TriedInv'
<1> DEFINE e == Endpoints[tried + 1]
<1>1. /\ IsSequence(Endpoints)
      /\ \A i, j \in DOMAIN Endpoints : Endpoints[i] = Endpoints[j] => i = j
      /\ Len(Endpoints) \in Nat /\ DOMAIN Endpoints = 1..Len(Endpoints)
  BY EndpointsAssumption, LengthOf
<1>2. /\ tried \in Nat /\ tried + 1 \in 1..Len(Endpoints)
      /\ tried' = tried + 1 /\ tried' \in 0..Len(Endpoints)
      /\ loadedFrom' = loadedFrom
  BY <1>1 DEF TriedInv, InitDictionary, projectVars
<1>3. ~IsTried(e, tried)
  <2>1. ASSUME NEW k \in 1..tried PROVE Endpoints[k] # e
    <3>1. k \in DOMAIN Endpoints /\ tried + 1 \in DOMAIN Endpoints /\ k # tried + 1
      BY <1>1, <1>2
    <3>2. QED
      BY <3>1, <1>1
  <2>2. QED
    BY <2>1 DEF IsTried
<1>4. \A x : IsTried(x, tried) => IsTried(x, tried')
  BY <1>2 DEF IsTried
<1>5. IsTried(e, tried')
  BY <1>2 DEF IsTried
<1>6. \A k \in 1..tried' : k \in 1..tried \/ Endpoints[k] = e
  BY <1>2
<1>7. ~HasDictionary(dictionariesV1, e) /\ ~HasDictionary(dictionariesV2, e)
  BY <1>3 DEF TriedInv, HasDictionary
<1>8. /\ ProjectChain' = ProjectChain
      /\ WithAlias(ProjectChain)' = WithAlias(ProjectChain)
  BY <1>2 DEF ProjectChain, WithAlias
<1>9. Speaks[e] \subseteq {"v1", "v2"}
  BY <1>1, <1>2, EndpointsAssumption DEF ToSet
<1> HIDE DEF e
<1>10. CASE CreateV2
  <2> DEFINE d == [version |-> "v2", endpoint |-> e, chain |-> ProjectChain]
             more == Append(dictionariesV2, d)
  <2>1. /\ "v2" \in Speaks[e] /\ dictionariesV2' = more
        /\ dictionariesV1' = dictionariesV1 /\ disturbed' = disturbed
    BY <1>10 DEF CreateV2, NextEndpoint, e
  <2>2. d.version = "v2" /\ d.endpoint = e /\ d.chain = ProjectChain
    OBVIOUS
  <2> HIDE DEF d
  <2>3. /\ IsSequence(more) /\ EachOnce(more)
        /\ \A i \in DOMAIN more : more[i] = d \/ \E j \in DOMAIN dictionariesV2 : more[i] = dictionariesV2[j]
        /\ \A x : HasDictionary(dictionariesV2, x) => HasDictionary(more, x)
        /\ HasDictionary(more, e)
    BY <1>7, <2>2, OneMore DEF TriedInv
  <2> HIDE DEF more
  <2>4. IsSequence(dictionariesV1)' /\ IsSequence(dictionariesV2)'
        /\ EachOnce(dictionariesV1)' /\ EachOnce(dictionariesV2)'
    BY <2>1, <2>3 DEF TriedInv, EachOnce
  <2>5. \A i \in DOMAIN dictionariesV2' :
          LET x == dictionariesV2'[i] IN
          /\ x.version = "v2" /\ x.chain = ProjectChain /\ IsTried(x.endpoint, tried')
          /\ "v2" \in Speaks[x.endpoint]
    BY <2>1, <2>2, <2>3, <1>4, <1>5 DEF TriedInv
  <2>6. \A i \in DOMAIN dictionariesV1 : IsTried(dictionariesV1[i].endpoint, tried')
    BY <1>4 DEF TriedInv
  <2>7. \A k \in 1..tried' :
          \/ Endpoints[k] \in disturbed
          \/ Speaks[Endpoints[k]] = {}
          \/ "v2" \in Speaks[Endpoints[k]] /\ HasDictionary(more, Endpoints[k])
          \/ "v2" \notin Speaks[Endpoints[k]] /\ HasDictionary(dictionariesV1, Endpoints[k])
    BY <2>1, <2>3, <1>6 DEF TriedInv
  <2>8. QED
    BY <1>2, <1>8, <2>1, <2>4, <2>5, <2>6, <2>7 DEF TriedInv, HasDictionary
<1>11. ASSUME NEW failed \in BOOLEAN, CreateV1(failed) PROVE TriedInv'
  <2> DEFINE d == [version |-> "v1", endpoint |-> e, chain |-> WithAlias(ProjectChain)]
             more == Append(dictionariesV1, d)
  <2>1. /\ "v1" \in Speaks[e] /\ dictionariesV1' = more
        /\ dictionariesV2' = dictionariesV2
        /\ "v2" \in Speaks[e] => e \in disturbed'
        /\ disturbed \subseteq disturbed'
    BY <1>11 DEF CreateV1, NextEndpoint, e
  <2>2. d.version = "v1" /\ d.endpoint = e /\ d.chain = WithAlias(ProjectChain)
    OBVIOUS
  <2> HIDE DEF d
  <2>3. /\ IsSequence(more) /\ EachOnce(more)
        /\ \A i \in DOMAIN more : more[i] = d \/ \E j \in DOMAIN dictionariesV1 : more[i] = dictionariesV1[j]
        /\ \A x : HasDictionary(dictionariesV1, x) => HasDictionary(more, x)
        /\ HasDictionary(more, e)
    BY <1>7, <2>2, OneMore DEF TriedInv
  <2> HIDE DEF more
  <2>4. IsSequence(dictionariesV1)' /\ IsSequence(dictionariesV2)'
        /\ EachOnce(dictionariesV1)' /\ EachOnce(dictionariesV2)'
    BY <2>1, <2>3 DEF TriedInv, EachOnce
  <2>5. \A i \in DOMAIN dictionariesV1' :
          LET x == dictionariesV1'[i] IN
          /\ x.version = "v1" /\ x.chain = WithAlias(ProjectChain) /\ IsTried(x.endpoint, tried')
          /\ "v1" \in Speaks[x.endpoint]
          /\ "v2" \in Speaks[x.endpoint] => x.endpoint \in disturbed'
    BY <2>1, <2>2, <2>3, <1>4, <1>5 DEF TriedInv
  <2>6. \A i \in DOMAIN dictionariesV2 : IsTried(dictionariesV2[i].endpoint, tried')
    BY <1>4 DEF TriedInv
  <2>7. \A k \in 1..tried' :
          \/ Endpoints[k] \in disturbed'
          \/ Speaks[Endpoints[k]] = {}
          \/ "v2" \in Speaks[Endpoints[k]] /\ HasDictionary(dictionariesV2, Endpoints[k])
          \/ "v2" \notin Speaks[Endpoints[k]] /\ HasDictionary(more, Endpoints[k])
    BY <2>1, <2>3, <1>6 DEF TriedInv
  <2>8. QED
    BY <1>2, <1>8, <2>1, <2>4, <2>5, <2>6, <2>7 DEF TriedInv, HasDictionary
<1>12. ASSUME NEW failed \in BOOLEAN, NotADictionary(failed) PROVE TriedInv'
  <2>1. /\ dictionariesV1' = dictionariesV1 /\ dictionariesV2' = dictionariesV2
        /\ Speaks[e] = {} \/ e \in disturbed'
        /\ disturbed \subseteq disturbed'
    BY <1>12 DEF NotADictionary, NextEndpoint, e
  <2>2. /\ \A i \in DOMAIN dictionariesV1 : IsTried(dictionariesV1[i].endpoint, tried')
        /\ \A i \in DOMAIN dictionariesV2 : IsTried(dictionariesV2[i].endpoint, tried')
    BY <1>4 DEF TriedInv
  <2>3. \A k \in 1..tried' :
          \/ Endpoints[k] \in disturbed'
          \/ Speaks[Endpoints[k]] = {}
          \/ "v2" \in Speaks[Endpoints[k]] /\ HasDictionary(dictionariesV2, Endpoints[k])
          \/ "v2" \notin Speaks[Endpoints[k]] /\ HasDictionary(dictionariesV1, Endpoints[k])
    BY <2>1, <1>6 DEF TriedInv
  <2>4. QED
    BY <1>2, <1>8, <2>1, <2>2, <2>3 DEF TriedInv, EachOnce, HasDictionary
<1>13. QED
  BY <1>10, <1>11, <1>12 DEF InitDictionary

LEMMA TriedUnchanged ==
  ASSUME TriedInv, UNCHANGED <<dictionariesV1, dictionariesV2, tried, disturbed, loadedFrom>>
  PROVE  TriedInv'
  BY DEF TriedInv, ProjectChain, WithAlias

LEMMA DictionaryInit == Init => DictionaryInv
  BY DEF Init, DictionaryInv

LEMMA DictionaryStep == DictionaryInv /\ [Next]_vars => DictionaryInv'
<1> SUFFICES ASSUME DictionaryInv, [Next]_vars PROVE DictionaryInv'
  OBVIOUS
<1>1. CASE EditProject \/ GenerateAbis \/ Generate \/ UNCHANGED vars
  <2>1. /\ phase' = phase /\ dictionaries' = dictionaries
        /\ UNCHANGED <<dictionariesV1, dictionariesV2, tried, disturbed, loadedFrom>>
    BY <1>1 DEF EditProject, GenerateAbis, Generate, vars, nodeVars, projectVars, dictionaryVars
  <2>2. QED
    BY <2>1, TriedUnchanged DEF DictionaryInv
<1>2. CASE CreateSubQueryProject \/ InitApiService
  <2>1. /\ phase \in {"off", "loaded"} /\ phase' \in {"loaded", "connected", "failed"}
        /\ UNCHANGED <<dictionariesV1, dictionariesV2, tried>>
    BY <1>2 DEF CreateSubQueryProject, InitApiService, dictionaryVars
  <2>2. QED
    BY <2>1 DEF DictionaryInv
<1>3. CASE RestoreDynamicDs
  <2>1. /\ phase = "connected" /\ phase' \in {"restored", "failed"}
        /\ UNCHANGED <<dictionariesV1, dictionariesV2, tried, disturbed, loadedFrom>>
    BY <1>3 DEF RestoreDynamicDs, dictionaryVars, projectVars
  <2>2. TriedInv
    BY <2>1, NothingTried DEF DictionaryInv
  <2>3. QED
    BY <2>1, <2>2, TriedUnchanged DEF DictionaryInv
<1>4. CASE InitDictionary
  <2>1. phase = "restored" /\ phase' = "restored"
    BY <1>4 DEF InitDictionary
  <2>2. QED
    BY <1>4, <2>1, TryEndpoint DEF DictionaryInv
<1>5. CASE InitDictionaries
  <2>1. /\ phase = "restored" /\ phase' = "indexing" /\ tried = Len(Endpoints)
        /\ dictionaries' = dictionariesV2 \o dictionariesV1
        /\ UNCHANGED <<dictionariesV1, dictionariesV2, tried, disturbed, loadedFrom>>
    BY <1>5 DEF InitDictionaries, projectVars
  <2>2. QED
    BY <2>1, TriedUnchanged DEF DictionaryInv
<1>6. CASE CreateDynamicDs
  <2>1. /\ phase = "indexing" /\ phase' \in {"indexing", "failed"}
        /\ dictionaries' = dictionaries
        /\ UNCHANGED <<dictionariesV1, dictionariesV2, tried, disturbed, loadedFrom>>
    BY <1>6 DEF CreateDynamicDs, dictionaryVars, projectVars
  <2>2. QED
    BY <2>1, TriedUnchanged DEF DictionaryInv
<1>7. CASE Stop
  BY <1>7 DEF Stop, DictionariesReset, DictionaryInv
<1>8. QED
  BY <1>1, <1>2, <1>3, <1>4, <1>5, <1>6, <1>7 DEF Next

(* When the node indexes, every endpoint that was not disturbed is used    *)
(* once, in its newest version and for the chain that the project names,   *)
(* and version 2 comes first, however often the node was started before    *)
(* and whatever failed then (initDictionaries).                            *)
THEOREM DictionariesCorrect == Spec => []DictionariesServeTheChain
<1>1. DictionaryInv => DictionariesServeTheChain
  <2> SUFFICES ASSUME DictionaryInv, phase = "indexing" PROVE DictionariesServeTheChain
    BY DEF DictionariesServeTheChain
  <2> DEFINE m == Len(dictionariesV2)
             n == Len(dictionariesV1)
  <2>1. TriedInv /\ tried = Len(Endpoints) /\ dictionaries = dictionariesV2 \o dictionariesV1
    BY DEF DictionaryInv
  <2>2. /\ m \in Nat /\ DOMAIN dictionariesV2 = 1..m
        /\ n \in Nat /\ DOMAIN dictionariesV1 = 1..n
    BY <2>1, LengthOf DEF TriedInv
  <2>3. /\ DOMAIN dictionaries = 1..(m + n)
        /\ \A i \in 1..m : dictionaries[i] = dictionariesV2[i]
        /\ \A i \in (m + 1)..(m + n) : i - m \in 1..n /\ dictionaries[i] = dictionariesV1[i - m]
    BY <2>1, Joined DEF TriedInv
  <2> HIDE DEF m, n
  <2>4. \A i \in 1..(m + n) : i \in 1..m \/ i \in (m + 1)..(m + n)
    BY <2>2
  <2>5. ASSUME NEW i \in DOMAIN dictionaries
        PROVE  \/ i \in 1..m /\ dictionaries[i].version = "v2"
               \/ i \in (m + 1)..(m + n) /\ dictionaries[i].version = "v1"
    BY <2>1, <2>2, <2>3, <2>4 DEF TriedInv
  <2>6. ASSUME NEW i \in DOMAIN dictionaries, NEW j \in DOMAIN dictionaries,
               dictionaries[i].version = "v2", dictionaries[j].version = "v1"
        PROVE  i < j
    BY <2>2, <2>5, <2>6
  <2>7. ASSUME NEW e \in ToSet(Endpoints) \ disturbed
        PROVE  LET uses == {i \in DOMAIN dictionaries : dictionaries[i].endpoint = e} IN
               IF Speaks[e] = {} THEN uses = {}
               ELSE \E i \in DOMAIN dictionaries :
                      /\ uses = {i}
                      /\ dictionaries[i].version = IF "v2" \in Speaks[e] THEN "v2" ELSE "v1"
                      /\ dictionaries[i].chain =
                           IF "v2" \in Speaks[e] THEN ProjectChain ELSE WithAlias(ProjectChain)
    <3> DEFINE uses == {i \in DOMAIN dictionaries : dictionaries[i].endpoint = e}
    <3>1. PICK k \in 1..tried : Endpoints[k] = e
      BY <2>1, EndpointsAssumption, LengthOf DEF ToSet
    <3>2. \A i \in uses : \/ i \in 1..m /\ "v2" \in Speaks[e]
                          \/ /\ i \in (m + 1)..(m + n)
                             /\ "v1" \in Speaks[e] /\ "v2" \notin Speaks[e]
      <4> SUFFICES ASSUME NEW i \in uses
                   PROVE  \/ i \in 1..m /\ "v2" \in Speaks[e]
                          \/ /\ i \in (m + 1)..(m + n)
                             /\ "v1" \in Speaks[e] /\ "v2" \notin Speaks[e]
        OBVIOUS
      <4>1. CASE i \in 1..m
        <5>1. i \in DOMAIN dictionariesV2 /\ dictionariesV2[i].endpoint = e
          BY <4>1, <2>2, <2>3
        <5>2. "v2" \in Speaks[dictionariesV2[i].endpoint]
          BY <5>1, <2>1 DEF TriedInv
        <5>3. QED
          BY <4>1, <5>1, <5>2
      <4>2. CASE i \in (m + 1)..(m + n)
        <5>1. i - m \in DOMAIN dictionariesV1 /\ dictionariesV1[i - m].endpoint = e
          BY <4>2, <2>2, <2>3
        <5>2. QED
          BY <4>2, <5>1, <2>1, <2>7 DEF TriedInv
      <4>3. QED
        BY <4>1, <4>2, <2>3, <2>4
    <3>3. CASE Speaks[e] = {}
      BY <3>2, <3>3
    <3>4. CASE "v2" \in Speaks[e]
      <4>1. PICK i \in DOMAIN dictionariesV2 : dictionariesV2[i].endpoint = e
        BY <3>1, <3>4, <2>1, <2>7 DEF TriedInv, HasDictionary
      <4>2. i \in 1..m /\ i \in 1..(m + n) /\ i \in uses
        BY <4>1, <2>2, <2>3
      <4>3. ASSUME NEW j \in uses PROVE j = i
        <5>1. j \in 1..m
          BY <3>2, <3>4
        <5>2. dictionariesV2[j].endpoint = e
          BY <5>1, <2>3
        <5>3. QED
          BY <5>1, <5>2, <4>1, <2>1, <2>2 DEF TriedInv, EachOnce
      <4>4. uses = {i}
        BY <4>2, <4>3
      <4>5. dictionaries[i].version = "v2" /\ dictionaries[i].chain = ProjectChain
        BY <4>1, <4>2, <2>1, <2>3 DEF TriedInv
      <4>6. QED
        BY <3>4, <4>2, <4>4, <4>5
    <3>5. CASE Speaks[e] # {} /\ "v2" \notin Speaks[e]
      <4>1. PICK i \in DOMAIN dictionariesV1 : dictionariesV1[i].endpoint = e
        BY <3>1, <3>5, <2>1, <2>7 DEF TriedInv, HasDictionary
      <4>2. m + i \in (m + 1)..(m + n) /\ m + i \in 1..(m + n) /\ (m + i) - m = i
        BY <4>1, <2>2
      <4>3. m + i \in DOMAIN dictionaries /\ dictionaries[m + i] = dictionariesV1[i]
        BY <4>2, <2>3
      <4>4. ASSUME NEW j \in uses PROVE j = m + i
        <5>1. j \in (m + 1)..(m + n)
          BY <3>2, <3>5
        <5>2. j - m \in DOMAIN dictionariesV1 /\ dictionariesV1[j - m].endpoint = e
          BY <5>1, <2>2, <2>3
        <5>3. j - m = i
          BY <5>2, <4>1, <2>1 DEF TriedInv, EachOnce
        <5>4. QED
          BY <5>1, <5>3, <2>2
      <4>5. uses = {m + i}
        BY <4>1, <4>3, <4>4
      <4>6. dictionaries[m + i].version = "v1"
            /\ dictionaries[m + i].chain = WithAlias(ProjectChain)
        BY <4>1, <4>3, <2>1 DEF TriedInv
      <4>7. QED
        BY <3>5, <4>3, <4>5, <4>6
    <3>6. QED
      BY <3>3, <3>4, <3>5
  <2>8. QED
    BY <2>6, <2>7 DEF DictionariesServeTheChain
<1>2. QED
  BY <1>1, DictionaryInit, DictionaryStep, PTL DEF Spec

-----------------------------------------------------------------------------
(* Induction and recursion over what has a rank.                           *)

(* What holds of an element when it holds of all of a lower rank, holds of *)
(* every element.                                                          *)
IsInductive(D, rank, H) ==
  /\ rank \in [D -> Nat]
  /\ \A x \in D : (\A y \in D : rank[y] < rank[x] => y \in H) => x \in H

(* ... and by induction over the ranks that is every element.              *)
LEMMA RankedInduction ==
  ASSUME NEW D, NEW rank, NEW H, IsInductive(D, rank, H)
  PROVE  D \subseteq H
<1> USE DEF IsInductive
<1> DEFINE Bad == {rank[x] : x \in D \ H}
<1>1. ASSUME D \ H # {} PROVE FALSE
  <2>1. Bad \subseteq Nat /\ Bad # {}
    BY <1>1
  <2> HIDE DEF Bad
  <2>2. PICK m \in Bad : \A n \in Bad : m <= n
    BY <2>1, LeastNumber
  <2> USE DEF Bad
  <2>3. PICK x \in D \ H : m = rank[x]
    BY <2>2
  <2>4. PICK y \in D : rank[y] < rank[x] /\ y \notin H
    BY <2>3
  <2>5. rank[y] \in Bad
    BY <2>4
  <2> HIDE DEF Bad
  <2>6. m <= rank[y] /\ rank[y] \in Nat /\ m \in Nat
    BY <2>1, <2>2, <2>5
  <2>7. QED
    BY <2>3, <2>4, <2>6
<1>2. QED
  BY <1>1

(* A function may be defined by recursion if each of its values depends on *)
(* those of a lower rank only.                                             *)
IsRecursion(D, rank, V, Step) ==
  /\ rank \in [D -> Nat]
  /\ V # {}
  /\ Step \in [D \X [D -> V] -> V]
  /\ \A x \in D : \A g, h \in [D -> V] :
       (\A y \in D : rank[y] < rank[x] => g[y] = h[y]) => Step[<<x, g>>] = Step[<<x, h>>]

(* Below a number there is one, unless it is zero.                         *)
LEMMA PreviousNumber == \A n \in Nat : n # 0 => n - 1 \in Nat /\ n - 1 < n
  OBVIOUS

(* A function that is computed from its values at the elements of a lower  *)
(* rank exists.                                                            *)
LEMMA RankedRecursion ==
  ASSUME NEW D, NEW rank, NEW V, NEW Step, IsRecursion(D, rank, V, Step)
  PROVE  \E f \in [D -> V] : \A x \in D : f[x] = Step[<<x, f>>]
<1> USE DEF IsRecursion
<1> DEFINE Good(f, n) == \A x \in D : rank[x] < n => f[x] = Step[<<x, f>>]
           H == {n \in Nat : \E f \in [D -> V] : Good(f, n)}
<1>1. ASSUME NEW n \in Nat, \A k \in Nat : k < n => k \in H PROVE n \in H
  <2>1. CASE n = 0
    <3>1. PICK v \in V : TRUE
      OBVIOUS
    <3> DEFINE f == [x \in D |-> v]
    <3>2. f \in [D -> V]
      OBVIOUS
    <3>3. \A x \in D : ~(rank[x] < n)
      BY <2>1
    <3> HIDE DEF f
    <3>4. Good(f, n)
      BY <3>3
    <3>5. QED
      BY <3>2, <3>4
  <2>2. CASE n # 0
    <3>1. n - 1 \in Nat /\ n - 1 < n
      BY <2>2, PreviousNumber
    <3>2. n - 1 \in H
      BY <1>1, <3>1
    <3>3. PICK f \in [D -> V] : Good(f, n - 1)
      BY <3>2
    <3> DEFINE g == [x \in D |-> Step[<<x, f>>]]
    <3>4. g \in [D -> V]
      OBVIOUS
    <3>5. ASSUME NEW x \in D, rank[x] < n PROVE g[x] = Step[<<x, g>>]
      <4>1. ASSUME NEW y \in D, rank[y] < rank[x] PROVE f[y] = g[y]
        <5>1. rank[y] < n - 1
          BY <3>5, <4>1
        <5>2. f[y] = Step[<<y, f>>]
          BY <3>3, <5>1
        <5>3. QED
          BY <5>2
      <4>2. g[x] = Step[<<x, f>>]
        OBVIOUS
      <4> HIDE DEF g
      <4>3. Step[<<x, f>>] = Step[<<x, g>>]
        BY <3>4, <4>1
      <4>4. QED
        BY <4>2, <4>3
    <3> HIDE DEF g
    <3>6. Good(g, n)
      BY <3>5
    <3>7. QED
      BY <3>4, <3>6
  <2>3. QED
    BY <2>1, <2>2
<1>2. Nat \subseteq H
  <2> DEFINE id == [n \in Nat |-> n]
  <2>1. id \in [Nat -> Nat] /\ \A n \in Nat : id[n] = n
    OBVIOUS
  <2> HIDE DEF id, H
  <2>2. \A n \in Nat : (\A k \in Nat : id[k] < id[n] => k \in H) => n \in H
    BY <1>1, <2>1
  <2>3. IsInductive(Nat, id, H)
    BY <2>1, <2>2 DEF IsInductive
  <2>4. QED
    BY <2>3, RankedInduction
<1>3. ASSUME NEW n \in Nat PROVE \E f \in [D -> V] : Good(f, n)
  BY <1>2
<1> HIDE DEF H
<1>4. ASSUME NEW f \in [D -> V], NEW g \in [D -> V], NEW n \in Nat, NEW m \in Nat,
             Good(f, n), Good(g, m), n <= m
      PROVE  \A x \in D : rank[x] < n => f[x] = g[x]
  <2> DEFINE K == {x \in D : rank[x] < n => f[x] = g[x]}
  <2>1. ASSUME NEW x \in D, \A y \in D : rank[y] < rank[x] => y \in K PROVE x \in K
    <3>1. CASE rank[x] < n
      <4>1. \A y \in D : rank[y] < rank[x] => f[y] = g[y]
        BY <2>1, <3>1
      <4>2. Step[<<x, f>>] = Step[<<x, g>>]
        BY <4>1
      <4>3. rank[x] < m
        BY <1>4, <3>1
      <4>4. f[x] = Step[<<x, f>>] /\ g[x] = Step[<<x, g>>]
        BY <1>4, <3>1, <4>3
      <4>5. QED
        BY <4>2, <4>4
    <3>2. QED
      BY <3>1
  <2> HIDE DEF K
  <2>2. IsInductive(D, rank, K)
    BY <2>1 DEF IsInductive
  <2>4. D \subseteq K
    BY <2>2, RankedInduction
  <2>3. QED
    BY <2>4 DEF K
<1> DEFINE At(n) == CHOOSE f \in [D -> V] : Good(f, n)
           F == [x \in D |-> At(rank[x] + 1)[x]]
<1>5. \A n \in Nat : At(n) \in [D -> V] /\ Good(At(n), n)
  BY <1>3
<1> HIDE DEF At
<1>6. ASSUME NEW x \in D PROVE rank[x] + 1 \in Nat /\ F[x] = At(rank[x] + 1)[x]
  OBVIOUS
<1>7. F \in [D -> V]
  BY <1>5
<1>8. ASSUME NEW x \in D PROVE F[x] = Step[<<x, F>>]
  <2> DEFINE n == rank[x] + 1
             f == At(n)
  <2>1. n \in Nat /\ rank[x] < n
    OBVIOUS
  <2>7. f \in [D -> V] /\ Good(f, n)
    BY <1>5, <2>1
  <2>2. ASSUME NEW y \in D, rank[y] < rank[x] PROVE F[y] = f[y]
    <3>1. rank[y] + 1 \in Nat /\ rank[y] + 1 <= n /\ rank[y] < rank[y] + 1
      BY <2>2
    <3>2. At(rank[y] + 1) \in [D -> V] /\ Good(At(rank[y] + 1), rank[y] + 1)
      BY <1>5, <3>1
    <3> HIDE DEF f, n, Good
    <3>3. At(rank[y] + 1)[y] = f[y]
      BY <1>4, <2>1, <2>7, <3>1, <3>2
    <3>4. QED
      BY <1>6, <3>3
  <2>3. f[x] = Step[<<x, f>>]
    <3> HIDE DEF f, n
    <3>1. QED
      BY <2>1, <2>7
  <2>4. F[x] = f[x]
    OBVIOUS
  <2> HIDE DEF F, f, n
  <2>5. Step[<<x, F>>] = Step[<<x, f>>]
    BY <1>7, <2>7, <2>2
  <2>6. QED
    BY <2>3, <2>4, <2>5
<1> HIDE DEF F
<1>9. QED
  BY <1>7, <1>8

(* What holds of the empty sequence and of every longer one holds of all.  *)
LEMMA SequenceInduction ==
  ASSUME NEW T, NEW H, <<>> \in H,
         \A s \in Seq(T) : s \in H => \A x \in T : Append(s, x) \in H
  PROVE  Seq(T) \subseteq H
<1> DEFINE S == Seq(T)
           length == [s \in S |-> Len(s)]
<1>1. length \in [Seq(T) -> Nat] /\ \A s \in Seq(T) : length[s] = Len(s)
  BY LenProperties
<1> HIDE DEF length
<1>2. ASSUME NEW s \in Seq(T), \A t \in Seq(T) : length[t] < length[s] => t \in H PROVE s \in H
  <2>1. CASE s = <<>>
    BY <2>1
  <2>2. CASE s # <<>>
    <3> DEFINE n == Len(s)
               t == SubSeq(s, 1, n - 1)
    <3>1. n \in Nat \ {0} /\ s \in [1..n -> T]
      BY <2>2, EmptySeq, LenProperties
    <3> HIDE DEF n
    <3>2. t \in Seq(T) /\ Len(t) = n - 1 /\ \A i \in 1..(n - 1) : t[i] = s[i]
      <4>1. \A i \in 1..(n - 1) : s[i] \in T
        BY <3>1
      <4>2. n - 1 \in Int /\ (1 <= n - 1 \/ n - 1 = 0) /\ (n - 1) - 1 + 1 = n - 1
        BY <3>1
      <4>3. /\ t \in Seq(T) /\ Len(t) = IF 1 <= n - 1 THEN (n - 1) - 1 + 1 ELSE 0
            /\ \A i \in 1..((n - 1) - 1 + 1) : t[i] = s[1 + i - 1]
        BY <4>1, <4>2, SubSeqProperties
      <4>4. \A i \in 1..(n - 1) : 1 + i - 1 = i
        OBVIOUS
      <4>5. QED
        BY <4>2, <4>3, <4>4
    <3> HIDE DEF t
    <3>3. t \in H
      <4>1. length[t] < length[s]
        BY <1>1, <3>1, <3>2 DEF n
      <4>2. QED
        BY <1>2, <3>2, <4>1
    <3>4. s[n] \in T
      BY <3>1
    <3>5. Append(t, s[n]) = s
      <4>1. /\ Append(t, s[n]) \in Seq(T) /\ Len(Append(t, s[n])) = (n - 1) + 1
            /\ \A i \in 1..(n - 1) : Append(t, s[n])[i] = t[i]
            /\ Append(t, s[n])[(n - 1) + 1] = s[n]
        BY <3>2, <3>4, AppendProperties
      <4>2. (n - 1) + 1 = n /\ \A i \in 1..n : i = n \/ i \in 1..(n - 1)
        BY <3>1
      <4>3. \A i \in 1..n : Append(t, s[n])[i] = s[i]
        BY <3>2, <4>1, <4>2
      <4>4. Len(s) = n
        BY DEF n
      <4>5. QED
        BY <4>1, <4>2, <4>3, <4>4, SeqEqual
    <3>6. QED
      BY <3>2, <3>3, <3>4, <3>5
  <2>3. QED
    BY <2>1, <2>2
<1>3. \A s \in Seq(T) : (\A t \in Seq(T) : length[t] < length[s] => t \in H) => s \in H
  BY <1>2
<1>4. S \subseteq H
  <2>1. length \in [S -> Nat]
    BY <1>1
  <2>2. \A s \in S : (\A t \in S : length[t] < length[s] => t \in H) => s \in H
    BY <1>3
  <2> HIDE DEF S
  <2>3. IsInductive(S, length, H)
    BY <2>1, <2>2 DEF IsInductive
  <2>4. QED
    BY <2>3, RankedInduction
<1>5. QED
  BY <1>4

(* Concat joins the sequences one after the other.                         *)
Joining(f, ss) == \A i \in DOMAIN ss : f[i] = IF i = 1 THEN ss[i] ELSE f[i - 1] \o ss[i]

(* The joined sequences are what the recursion of FlattenSeq says.         *)
LEMMA ConcatIsDefined ==
  ASSUME NEW T, NEW ss \in Seq(Seq(T)), ss # <<>>
  PROVE  \E f \in [1..Len(ss) -> Seq(T)] : Joining(f, ss) /\ Concat(ss) = f[Len(ss)]
<1> DEFINE n == Len(ss)
           D == 1..n
           V == Seq(T)
           Flat(f) == [i \in 1..n |-> IF i = 1 THEN ss[i] ELSE f[i - 1] \o ss[i]]
           F == CHOOSE f : f = Flat(f)
           Step == [xf \in D \X [D -> V] |->
                     IF xf[1] = 1 THEN ss[xf[1]] ELSE IF xf[1] - 1 \in D THEN xf[2][xf[1] - 1] \o ss[xf[1]] ELSE <<>>]
           id == [i \in D |-> i]
<1>1. n \in Nat /\ n # 0 /\ DOMAIN ss = D /\ \A i \in D : ss[i] \in V
  BY EmptySeq, LenProperties, ElementOfSeq
<1>2. Concat(ss) = F[n]
  BY <1>1 DEF Concat, FlattenSeq
<1> HIDE DEF n
<1>3. id \in [D -> Nat] /\ \A i \in D : id[i] = i
  BY <1>1
<1>4. ASSUME NEW x \in D, NEW f \in [D -> V]
      PROVE  /\ Step[<<x, f>>] = IF x = 1 THEN ss[x] ELSE f[x - 1] \o ss[x]
             /\ Step[<<x, f>>] \in V
             /\ x # 1 => x - 1 \in D /\ x - 1 < x
  <2>1. x # 1 => x - 1 \in D /\ x - 1 < x
    BY <1>1
  <2>2. <<x, f>> \in D \X [D -> V]
    OBVIOUS
  <2>3. Step[<<x, f>>] = IF x = 1 THEN ss[x] ELSE f[x - 1] \o ss[x]
    BY <2>1, <2>2
  <2>4. x # 1 => f[x - 1] \in V
    BY <2>1
  <2>5. x # 1 => f[x - 1] \o ss[x] \in V
    BY <2>4, <1>1, ConcatProperties
  <2> HIDE DEF Step
  <2>6. QED
    BY <1>1, <2>1, <2>3, <2>5
<1>5. Step \in [D \X [D -> V] -> V]
  <2>1. \A xf \in D \X [D -> V] : xf[1] \in D /\ xf[2] \in [D -> V] /\ xf = <<xf[1], xf[2]>>
    OBVIOUS
  <2>2. Step = [xf \in D \X [D -> V] |-> Step[xf]]
    OBVIOUS
  <2> HIDE DEF Step
  <2>3. \A xf \in D \X [D -> V] : Step[xf] \in V
    BY <1>4, <2>1
  <2>4. QED
    BY <2>2, <2>3
<1> HIDE DEF Step, id
<1>6. ASSUME NEW x \in D, NEW g \in [D -> V], NEW h \in [D -> V],
             \A y \in D : id[y] < id[x] => g[y] = h[y]
      PROVE  Step[<<x, g>>] = Step[<<x, h>>]
  <2>1. x # 1 => x - 1 \in D /\ x - 1 < x
    BY <1>4
  <2>2. x # 1 => g[x - 1] = h[x - 1]
    BY <1>3, <1>6, <2>1
  <2>3. /\ Step[<<x, g>>] = IF x = 1 THEN ss[x] ELSE g[x - 1] \o ss[x]
        /\ Step[<<x, h>>] = IF x = 1 THEN ss[x] ELSE h[x - 1] \o ss[x]
    BY <1>4
  <2>4. QED
    BY <2>2, <2>3
<1>7. V # {}
  BY EmptySeq
<1>8. PICK f \in [D -> V] : \A x \in D : f[x] = Step[<<x, f>>]
  <2>1. \A x \in D : \A g, h \in [D -> V] :
          (\A y \in D : id[y] < id[x] => g[y] = h[y]) => Step[<<x, g>>] = Step[<<x, h>>]
    BY <1>6
  <2> HIDE DEF D, V
  <2>2. IsRecursion(D, id, V, Step)
    BY <1>3, <1>5, <1>7, <2>1 DEF IsRecursion
  <2>3. QED
    BY <2>2, RankedRecursion
<1>9. f = Flat(f)
  <2>1. \A x \in D : f[x] = IF x = 1 THEN ss[x] ELSE f[x - 1] \o ss[x]
    BY <1>4, <1>8
  <2>2. QED
    BY <2>1
<1>10. F = Flat(F)
  BY <1>9
<1> HIDE DEF F
<1>11. \A i \in D : F[i] = IF i = 1 THEN ss[i] ELSE F[i - 1] \o ss[i]
  BY <1>10
<1>12. F \in [D -> V]
  <2> DEFINE H == {i \in D : F[i] \in V}
  <2>1. ASSUME NEW x \in D, \A y \in D : id[y] < id[x] => y \in H PROVE x \in H
    <3>1. CASE x = 1
      BY <1>1, <1>11, <3>1
    <3>2. CASE x # 1
      <4>1. x - 1 \in D /\ x - 1 < x
        BY <1>1, <3>2
      <4>2. F[x - 1] \in V
        BY <1>3, <2>1, <4>1
      <4>3. F[x - 1] \o ss[x] \in V
        BY <1>1, <4>2, ConcatProperties
      <4>4. QED
        BY <1>11, <3>2, <4>3
    <3>3. QED
      BY <3>1, <3>2
  <2> HIDE DEF H, D
  <2>2. IsInductive(D, id, H)
    BY <1>3, <2>1 DEF IsInductive
  <2>5. D \subseteq H
    BY <2>2, RankedInduction
  <2>3. F = [i \in D |-> F[i]]
    BY <1>10 DEF D
  <2>4. QED
    BY <2>3, <2>5 DEF H
<1>13. Joining(F, ss)
  BY <1>1, <1>11 DEF Joining
<1>14. QED
  BY <1>2, <1>12, <1>13 DEF n

-----------------------------------------------------------------------------
(* Sequences that are joined, and elements that are replaced by sequences. *)

(* A function on the first numbers is a sequence, and what is made of each *)
(* element of a sequence is one.                                           *)
LEMMA FunctionIsSequence ==
  ASSUME NEW T, NEW n \in Nat, NEW f \in [1..n -> T]
  PROVE  f \in Seq(T) /\ Len(f) = n
<1>1. f \in Seq(T)
  BY SeqDef
<1>2. DOMAIN f = 1..n /\ DOMAIN f = 1..Len(f) /\ Len(f) \in Nat
  BY <1>1, LenProperties
<1>3. QED
  BY <1>1, <1>2

(* The elements of a sequence through a function.                          *)
Mapped(s, r) == [i \in DOMAIN s |-> r[s[i]]]

(* It has a value for every element, ...                                   *)
LEMMA MappedSequence ==
  ASSUME NEW X, NEW s \in Seq(X), NEW r
  PROVE  /\ Len(Mapped(s, r)) = Len(s)
         /\ \A i \in 1..Len(s) : Mapped(s, r)[i] = r[s[i]]
         /\ \A V : (\A x \in X : r[x] \in V) => Mapped(s, r) \in Seq(V)
<1> DEFINE t == Mapped(s, r)
<1>1. DOMAIN s = 1..Len(s) /\ Len(s) \in Nat /\ \A i \in 1..Len(s) : s[i] \in X
  BY LenProperties
<1>2. t = [i \in 1..Len(s) |-> r[s[i]]] /\ \A i \in 1..Len(s) : t[i] = r[s[i]]
  BY <1>1 DEF Mapped
<1>3. ASSUME NEW V, \A i \in 1..Len(s) : r[s[i]] \in V
      PROVE  t \in Seq(V) /\ Len(t) = Len(s)
  <2>1. t \in [1..Len(s) -> V]
    BY <1>2, <1>3
  <2> HIDE DEF t
  <2>2. QED
    BY <1>1, <2>1, FunctionIsSequence
<1>4. Len(t) = Len(s)
  <2> DEFINE W == {r[s[i]] : i \in 1..Len(s)}
  <2>1. \A i \in 1..Len(s) : r[s[i]] \in W
    OBVIOUS
  <2> HIDE DEF W, t
  <2>2. QED
    BY <1>3, <2>1
<1> HIDE DEF t
<1>5. ASSUME NEW V, \A x \in X : r[x] \in V PROVE t \in Seq(V)
  <2>1. \A i \in 1..Len(s) : r[s[i]] \in V
    BY <1>1, <1>5
  <2>2. QED
    BY <1>3, <2>1
<1>6. QED
  BY <1>2, <1>4, <1>5 DEF t

(* ... and one more for one element more.                                  *)
LEMMA MappedAppend ==
  ASSUME NEW X, NEW s \in Seq(X), NEW x \in X, NEW r
  PROVE  Mapped(Append(s, x), r) = Append(Mapped(s, r), r[x])
<1> DEFINE V == {r[y] : y \in X}
           n == Len(s)
           t == Append(s, x)
           ss == Mapped(s, r)
           tt == Mapped(t, r)
           uu == Append(ss, r[x])
<1>1. t \in Seq(X) /\ Len(t) = n + 1 /\ (\A i \in 1..n : t[i] = s[i]) /\ t[n + 1] = x
  BY AppendProperties
<1>0. \A y \in X : r[y] \in V
  OBVIOUS
<1> HIDE DEF V
<1>2. ss \in Seq(V) /\ Len(ss) = n /\ \A i \in 1..n : ss[i] = r[s[i]]
  BY <1>0, MappedSequence
<1> HIDE DEF t
<1>3. tt \in Seq(V) /\ Len(tt) = Len(t) /\ \A i \in 1..Len(t) : tt[i] = r[t[i]]
  BY <1>0, <1>1, MappedSequence
<1> HIDE DEF ss, tt
<1>5. uu \in Seq(V) /\ Len(uu) = n + 1 /\ (\A i \in 1..n : uu[i] = ss[i]) /\ uu[n + 1] = r[x]
  BY <1>0, <1>2, AppendProperties
<1> HIDE DEF uu
<1>6. n \in Nat
  BY LenProperties
<1>7. \A i \in 1..(n + 1) : tt[i] = uu[i]
  <2>1. \A i \in 1..(n + 1) : i = n + 1 \/ i \in 1..n
    BY <1>6
  <2>2. QED
    BY <1>1, <1>2, <1>3, <1>5, <2>1
<1>8. tt = uu
  BY <1>1, <1>3, <1>5, <1>7, SeqEqual
<1>9. QED
  BY <1>8 DEF t, ss, tt, uu

(* No sequences joined are none, ...                                       *)
LEMMA ConcatOfNone == Concat(<<>>) = <<>>
  BY EmptySeq DEF Concat, FlattenSeq

(* ... sequences of one type joined are one of it, ...                     *)
LEMMA ConcatType ==
  ASSUME NEW T, NEW ss \in Seq(Seq(T))
  PROVE  Concat(ss) \in Seq(T)
<1>1. CASE ss = <<>>
  BY <1>1, ConcatOfNone, EmptySeq
<1>2. CASE ss # <<>>
  <2>1. PICK f \in [1..Len(ss) -> Seq(T)] : Joining(f, ss) /\ Concat(ss) = f[Len(ss)]
    BY <1>2, ConcatIsDefined
  <2>2. Len(ss) \in Nat \ {0}
    BY <1>2, EmptySeq
  <2>3. Len(ss) \in 1..Len(ss)
    BY <2>2
  <2>4. QED
    BY <2>1, <2>3
<1>3. QED
  BY <1>1, <1>2

(* A sequence joined after others comes at the end.                        *)
LEMMA ConcatAppend ==
  ASSUME NEW T, NEW ss \in Seq(Seq(T)), NEW x \in Seq(T)
  PROVE  Concat(Append(ss, x)) = Concat(ss) \o x
<1> DEFINE n == Len(ss)
           tt == Append(ss, x)
           V == Seq(T)
<1>1. /\ n \in Nat /\ DOMAIN ss = 1..n
      /\ tt \in Seq(V) /\ Len(tt) = n + 1 /\ DOMAIN tt = 1..(n + 1)
      /\ \A i \in 1..n : tt[i] = ss[i]
      /\ tt[n + 1] = x
  <2> HIDE DEF V
  <2>1. ss \in Seq(V) /\ x \in V
    BY DEF V
  <2>2. /\ tt \in Seq(V) /\ Len(tt) = n + 1
        /\ \A i \in 1..n : tt[i] = ss[i]
        /\ tt[n + 1] = x
    BY <2>1, AppendProperties
  <2> HIDE DEF tt
  <2>3. QED
    BY <2>1, <2>2, LenProperties
<1> HIDE DEF tt
<1>2. tt # <<>>
  BY <1>1, EmptySeq
<1>3. PICK g \in [1..(n + 1) -> V] : Joining(g, tt) /\ Concat(tt) = g[n + 1]
  BY <1>1, <1>2, ConcatIsDefined
<1>4. CASE ss = <<>>
  <2>1. n = 0
    BY <1>4, EmptySeq
  <2>2. n + 1 = 1 /\ 1 \in DOMAIN tt
    BY <1>1, <2>1
  <2>3. g[n + 1] = x
    BY <1>1, <1>3, <2>2 DEF Joining
  <2>4. Concat(ss) \o x = x
    BY <1>4, ConcatOfNone, ConcatEmptySeq
  <2>5. QED
    BY <1>3, <2>3, <2>4 DEF tt
<1>5. CASE ss # <<>>
  <2>1. n \in Nat \ {0}
    BY <1>5, EmptySeq
  <2>2. PICK f \in [1..n -> V] : Joining(f, ss) /\ Concat(ss) = f[n]
    BY <1>5, ConcatIsDefined
  <2> DEFINE id == [i \in 1..n |-> i]
             H == {i \in 1..n : f[i] = g[i]}
  <2>3. id \in [1..n -> Nat] /\ \A i \in 1..n : id[i] = i
    OBVIOUS
  <2> HIDE DEF id
  <2>4. ASSUME NEW i \in 1..n, \A j \in 1..n : id[j] < id[i] => j \in H PROVE i \in H
    <3>1. i \in DOMAIN ss /\ i \in DOMAIN tt /\ tt[i] = ss[i]
      BY <1>1, <2>1
    <3>2. /\ f[i] = IF i = 1 THEN ss[i] ELSE f[i - 1] \o ss[i]
          /\ g[i] = IF i = 1 THEN tt[i] ELSE g[i - 1] \o tt[i]
      BY <1>3, <2>2, <3>1 DEF Joining
    <3>3. CASE i = 1
      BY <3>1, <3>2, <3>3
    <3>4. CASE i # 1
      <4>1. i - 1 \in 1..n /\ i - 1 < i
        BY <2>1, <3>4
      <4>2. f[i - 1] = g[i - 1]
        BY <2>3, <2>4, <4>1
      <4>3. QED
        BY <3>1, <3>2, <4>2
    <3>5. QED
      BY <3>3, <3>4
  <2> HIDE DEF H
  <2>5. IsInductive(1..n, id, H)
    BY <2>3, <2>4 DEF IsInductive
  <2>6. 1..n \subseteq H
    BY <2>5, RankedInduction
  <2>7. n \in 1..n /\ n + 1 \in 1..(n + 1) /\ n + 1 # 1 /\ (n + 1) - 1 = n
    BY <2>1
  <2>8. f[n] = g[n]
    BY <2>6, <2>7 DEF H
  <2>9. g[n + 1] = g[n] \o x
    BY <1>1, <1>3, <2>7 DEF Joining
  <2>10. QED
    BY <1>3, <2>2, <2>8, <2>9 DEF tt
<1>6. QED
  BY <1>4, <1>5

(* What is made of the elements of a sequence and then joined.             *)
Spread(s, r) == Concat(Mapped(s, r))

(* What every element is replaced by, in a row: nothing of nothing, ...    *)
LEMMA SpreadOfNone == ASSUME NEW r PROVE Spread(<<>>, r) = <<>>
<1>1. DOMAIN <<>> = {}
  OBVIOUS
<1>2. Mapped(<<>>, r) = <<>>
  BY <1>1 DEF Mapped
<1>3. QED
  BY <1>2, ConcatOfNone DEF Spread

(* A function from elements to sequences.                                  *)
IsMap(r, X, T) == \A x \in X : r[x] \in Seq(T)

(* ... a sequence of the type of the replacements, ...                     *)
LEMMA SpreadType ==
  ASSUME NEW X, NEW T, NEW r, IsMap(r, X, T), NEW s \in Seq(X)
  PROVE  Spread(s, r) \in Seq(T)
<1> DEFINE V == Seq(T)
<1>1. \A x \in X : r[x] \in V
  BY DEF IsMap
<1> HIDE DEF V
<1>2. Mapped(s, r) \in Seq(V)
  BY <1>1, MappedSequence
<1>3. QED
  BY <1>2, ConcatType DEF Spread, V

(* ... longer by the replacement of one more element.                      *)
LEMMA SpreadAppend ==
  ASSUME NEW X, NEW T, NEW r, IsMap(r, X, T), NEW s \in Seq(X), NEW x \in X
  PROVE  Spread(Append(s, x), r) = Spread(s, r) \o r[x]
<1> DEFINE V == Seq(T)
<1>1. \A y \in X : r[y] \in V
  BY DEF IsMap
<1> HIDE DEF V
<1>2. Mapped(s, r) \in Seq(V)
  BY <1>1, MappedSequence
<1>3. Concat(Append(Mapped(s, r), r[x])) = Concat(Mapped(s, r)) \o r[x]
  BY <1>1, <1>2, ConcatAppend DEF V
<1>4. QED
  BY <1>3, MappedAppend DEF Spread

(* Three sequences in a row may be joined in either order.                 *)
AreSequences(T, a, b, c) == a \in Seq(T) /\ b \in Seq(T) /\ c \in Seq(T)

(* Three sequences in a row, in either grouping.                           *)
LEMMA Regrouped ==
  ASSUME NEW T, NEW a, NEW b, NEW c, AreSequences(T, a, b, c)
  PROVE  (a \o b) \o c = a \o (b \o c)
  BY ConcatAssociative DEF AreSequences

(* Spreading what is joined, or what was spread already.                   *)
LEMMA ConcatOne ==
  ASSUME NEW T, NEW a \in Seq(T), NEW b \in Seq(T), NEW x \in T
  PROVE  /\ a \o Append(b, x) = Append(a \o b, x)
         /\ a \o b \in Seq(T) /\ Append(b, x) \in Seq(T)
         /\ Append(b, x) = b \o <<x>>
<1>1. Append(b, x) = b \o <<x>> /\ <<x>> \in Seq(T) /\ a \o b \in Seq(T) /\ Append(b, x) \in Seq(T)
  BY AppendIsConcat, ConcatProperties, AppendProperties
<1>2. Append(a \o b, x) = (a \o b) \o <<x>>
  BY <1>1, AppendIsConcat
<1>3. a \o (b \o <<x>>) = (a \o b) \o <<x>>
  <2> DEFINE c == <<x>>
  <2>1. AreSequences(T, a, b, c)
    BY <1>1 DEF AreSequences
  <2> HIDE DEF c
  <2>2. QED
    BY <2>1, Regrouped DEF c
<1>4. QED
  BY <1>1, <1>2, <1>3

(* Two sequences in a row are replaced one after the other.                *)
LEMMA SpreadConcat ==
  ASSUME NEW T, NEW U, NEW q, IsMap(q, T, U), NEW a \in Seq(T), NEW b \in Seq(T)
  PROVE  Spread(a \o b, q) = Spread(a, q) \o Spread(b, q)
<1> DEFINE H == {t \in Seq(T) : Spread(a \o t, q) = Spread(a, q) \o Spread(t, q)}
<1>1. <<>> \in H
  BY SpreadOfNone, SpreadType, ConcatEmptySeq, EmptySeq
<1>2. ASSUME NEW t \in Seq(T), t \in H, NEW x \in T PROVE Append(t, x) \in H
  <2>1. /\ a \o Append(t, x) = Append(a \o t, x)
        /\ a \o t \in Seq(T) /\ Append(t, x) \in Seq(T)
    BY ConcatOne
  <2>2. Spread(Append(t, x), q) = Spread(t, q) \o q[x]
    BY SpreadAppend
  <2>7. Spread(Append(a \o t, x), q) = Spread(a \o t, q) \o q[x]
    <3> DEFINE z == a \o t
    <3>1. z \in Seq(T)
      BY <2>1
    <3> HIDE DEF z
    <3>2. Spread(Append(z, x), q) = Spread(z, q) \o q[x]
      BY <3>1, SpreadAppend
    <3>3. QED
      BY <3>2 DEF z
  <2>3. Spread(a, q) \in Seq(U) /\ Spread(t, q) \in Seq(U) /\ q[x] \in Seq(U)
    BY SpreadType DEF IsMap
  <2>4. (Spread(a, q) \o Spread(t, q)) \o q[x] = Spread(a, q) \o (Spread(t, q) \o q[x])
    <3> DEFINE A == Spread(a, q)
               B == Spread(t, q)
               C == q[x]
    <3> HIDE DEF A, B, C
    <3>1. AreSequences(U, A, B, C)
      BY <2>3 DEF AreSequences, A, B, C
    <3>2. (A \o B) \o C = A \o (B \o C)
      BY <3>1, Regrouped
    <3>3. QED
      BY <3>2 DEF A, B, C
  <2>5. QED
    BY <1>2, <2>1, <2>2, <2>4, <2>7
<1> HIDE DEF H
<1>3. Seq(T) \subseteq H
  BY <1>1, <1>2, SequenceInduction
<1>4. QED
  BY <1>3 DEF H

(* What is replaced twice could have been replaced at once.                *)
LEMMA SpreadTwice ==
  ASSUME NEW X, NEW T, NEW U, NEW r, IsMap(r, X, T), NEW q, IsMap(q, T, U), NEW s \in Seq(X),
         NEW p, IsMap(p, X, U), \A x \in X : p[x] = Spread(r[x], q)
  PROVE  Spread(Spread(s, r), q) = Spread(s, p)
<1> DEFINE H == {t \in Seq(X) : Spread(Spread(t, r), q) = Spread(t, p)}
<1>1. <<>> \in H
  BY SpreadOfNone, EmptySeq
<1>2. ASSUME NEW t \in Seq(X), t \in H, NEW x \in X PROVE Append(t, x) \in H
  <2>1. /\ Spread(Append(t, x), r) = Spread(t, r) \o r[x]
        /\ Spread(Append(t, x), p) = Spread(t, p) \o p[x]
    BY SpreadAppend
  <2>2. Spread(t, r) \in Seq(T) /\ r[x] \in Seq(T)
    BY SpreadType DEF IsMap
  <2>3. Spread(Spread(t, r) \o r[x], q) = Spread(Spread(t, r), q) \o Spread(r[x], q)
    BY <2>2, SpreadConcat
  <2>4. Append(t, x) \in Seq(X)
    BY AppendProperties
  <2>5. QED
    BY <1>2, <2>1, <2>3, <2>4
<1> HIDE DEF H
<1>3. Seq(X) \subseteq H
  BY <1>1, <1>2, SequenceInduction
<1>4. QED
  BY <1>3 DEF H

(* Elements that are replaced by themselves stay.                          *)
LEMMA SpreadKeeps ==
  ASSUME NEW X, NEW r, IsMap(r, X, X), NEW s \in Seq(X), \A x \in X : r[x] = <<x>>
  PROVE  Spread(s, r) = s
<1> DEFINE H == {t \in Seq(X) : Spread(t, r) = t}
<1>1. <<>> \in H
  BY SpreadOfNone, EmptySeq
<1>2. ASSUME NEW t \in Seq(X), t \in H, NEW x \in X PROVE Append(t, x) \in H
  <2>1. Spread(Append(t, x), r) = Spread(t, r) \o r[x]
    BY SpreadAppend
  <2>2. Append(t, x) = t \o <<x>> /\ Append(t, x) \in Seq(X)
    BY ConcatOne
  <2>3. QED
    BY <1>2, <2>1, <2>2
<1> HIDE DEF H
<1>3. Seq(X) \subseteq H
  BY <1>1, <1>2, SequenceInduction
<1>4. QED
  BY <1>3 DEF H

(* A single element.                                                       *)
LEMMA SpreadOne ==
  ASSUME NEW X, NEW T, NEW r, IsMap(r, X, T), NEW x \in X
  PROVE  Spread(<<x>>, r) = r[x]
<1> DEFINE e == <<>>
<1>1. e \in Seq(X) /\ e \in Seq(T)
  BY EmptySeq
<1>2. Append(e, x) = <<x>>
  OBVIOUS
<1>3. Spread(e, r) = e
  BY SpreadOfNone
<1>4. r[x] \in Seq(T)
  BY DEF IsMap
<1>5. e \o r[x] = r[x]
  BY <1>4, ConcatEmptySeq
<1> HIDE DEF e
<1>6. Spread(Append(e, x), r) = Spread(e, r) \o r[x]
  BY <1>1, SpreadAppend
<1>7. QED
  BY <1>2, <1>3, <1>5, <1>6

(* What is in one of two sequences is in both in a row, ...                *)
LEMMA ConcatHas ==
  ASSUME NEW T, NEW a \in Seq(T), NEW b \in Seq(T)
  PROVE  ToSet(a) \subseteq ToSet(a \o b) /\ ToSet(b) \subseteq ToSet(a \o b)
<1> DEFINE c == a \o b
<1>1. /\ DOMAIN a = 1..Len(a) /\ Len(a) \in Nat
      /\ DOMAIN b = 1..Len(b) /\ Len(b) \in Nat
  BY LenProperties
<1>2. /\ c \in Seq(T) /\ Len(c) = Len(a) + Len(b)
      /\ \A i \in 1..(Len(a) + Len(b)) : c[i] = IF i <= Len(a) THEN a[i] ELSE b[i - Len(a)]
  BY ConcatProperties
<1> HIDE DEF c
<1>3. DOMAIN c = 1..(Len(a) + Len(b))
  BY <1>2, LenProperties
<1>4. ASSUME NEW i \in DOMAIN a PROVE a[i] \in ToSet(c)
  <2>1. i \in 1..(Len(a) + Len(b)) /\ i <= Len(a)
    BY <1>1
  <2>2. c[i] = a[i]
    BY <1>2, <2>1
  <2>3. QED
    BY <1>3, <2>1, <2>2 DEF ToSet
<1>5. ASSUME NEW i \in DOMAIN b PROVE b[i] \in ToSet(c)
  <2>1. i + Len(a) \in 1..(Len(a) + Len(b)) /\ ~(i + Len(a) <= Len(a)) /\ (i + Len(a)) - Len(a) = i
    BY <1>1
  <2>2. c[i + Len(a)] = b[i]
    BY <1>2, <2>1
  <2>3. QED
    BY <1>3, <2>1, <2>2 DEF ToSet
<1>6. QED
  BY <1>4, <1>5 DEF c, ToSet

(* ... and what is in one of several is in all of them in a row.           *)
LEMMA ConcatHasAll ==
  ASSUME NEW T, NEW ss \in Seq(Seq(T)), NEW k \in DOMAIN ss
  PROVE  ToSet(ss[k]) \subseteq ToSet(Concat(ss))
<1> DEFINE H == {tt \in Seq(Seq(T)) : \A i \in DOMAIN tt : ToSet(tt[i]) \subseteq ToSet(Concat(tt))}
<1>1. <<>> \in H
  <2>1. <<>> \in Seq(Seq(T))
    BY EmptySeq
  <2>2. QED
    BY <2>1
<1>2. ASSUME NEW tt \in Seq(Seq(T)), tt \in H, NEW x \in Seq(T) PROVE Append(tt, x) \in H
  <2> DEFINE u == Append(tt, x)
             c == Concat(tt)
  <2>1. Concat(u) = c \o x /\ c \in Seq(T)
    BY ConcatAppend, ConcatType
  <2>2. \A i \in DOMAIN tt : ToSet(tt[i]) \subseteq ToSet(c)
    BY <1>2
  <2> HIDE DEF c
  <2>3. ToSet(c) \subseteq ToSet(Concat(u)) /\ ToSet(x) \subseteq ToSet(Concat(u))
    BY <2>1, ConcatHas
  <2> DEFINE S == Seq(T)
  <2> HIDE DEF S
  <2>4. tt \in Seq(S) /\ x \in S
    BY DEF S
  <2>5. /\ DOMAIN tt = 1..Len(tt) /\ Len(tt) \in Nat
        /\ u \in Seq(S) /\ Len(u) = Len(tt) + 1
        /\ \A i \in 1..Len(tt) : u[i] = tt[i]
        /\ u[Len(tt) + 1] = x
    BY <2>4, LenProperties, AppendProperties
  <2> HIDE DEF u
  <2>6. DOMAIN u = 1..(Len(tt) + 1)
    BY <2>5, LenProperties
  <2>7. ASSUME NEW i \in DOMAIN u PROVE ToSet(u[i]) \subseteq ToSet(Concat(u))
    <3>1. i \in 1..Len(tt) \/ i = Len(tt) + 1
      BY <2>5, <2>6
    <3>2. QED
      BY <2>2, <2>3, <2>5, <3>1
  <2>8. QED
    BY <2>5, <2>7 DEF u, S
<1> DEFINE S == Seq(T)
<1> HIDE DEF H, S
<1>3. Seq(S) \subseteq H
  BY <1>1, <1>2, SequenceInduction DEF S
<1>4. QED
  BY <1>3 DEF H, S

-----------------------------------------------------------------------------
(* Folds over sequences.                                                   *)

(* Up to a number, step by step.                                           *)
LEMMA NumberInduction ==
  ASSUME NEW n \in Nat, NEW H, 0 \in H, \A i \in 1..n : i - 1 \in H => i \in H
  PROVE  0..n \subseteq H
<1> DEFINE id == [i \in 0..n |-> i]
<1>1. id \in [0..n -> Nat] /\ \A i \in 0..n : id[i] = i
  OBVIOUS
<1> HIDE DEF id
<1>2. ASSUME NEW i \in 0..n, \A j \in 0..n : id[j] < id[i] => j \in H PROVE i \in H
  <2>1. CASE i = 0
    BY <2>1
  <2>2. CASE i # 0
    <3>1. i \in 1..n /\ i - 1 \in 0..n /\ i - 1 < i
      BY <2>2
    <3>2. i - 1 \in H
      BY <1>1, <1>2, <3>1
    <3>3. QED
      BY <3>1, <3>2
  <2>3. QED
    BY <2>1, <2>2
<1>3. IsInductive(0..n, id, H)
  BY <1>1, <1>2 DEF IsInductive
<1>4. QED
  BY <1>3, RankedInduction

(* The greatest of some of the first numbers.                              *)
LEMMA Greatest ==
  ASSUME NEW n \in Nat, NEW s \in SUBSET (1..n), s # {}
  PROVE  Max(s) \in s /\ \A i \in s : i <= Max(s)
<1>1. s \subseteq 0..n
  OBVIOUS
<1>2. PICK m \in s : \A i \in s : i <= m
  BY <1>1, GreatestNumber
<1>3. \A i \in s : m >= i
  BY <1>1, <1>2
<1>4. Max(s) \in s /\ \A i \in s : Max(s) >= i
  BY <1>2, <1>3 DEF Max
<1>5. QED
  BY <1>1, <1>4

(* The first numbers without the last of them.                             *)
LEMMA FirstNumbers ==
  ASSUME NEW n \in Nat, NEW i \in 1..n
  PROVE  /\ 1..i \in SUBSET (1..n) /\ 1..i # {}
         /\ Max(1..i) = i /\ (1..i) \ {i} = 1..(i - 1)
<1> DEFINE s == 1..i
<1>1. s \in SUBSET (1..n) /\ s # {} /\ i \in s /\ (1..i) \ {i} = 1..(i - 1) /\ \A j \in s : j <= i
  OBVIOUS
<1> HIDE DEF s
<1>2. Max(s) \in s /\ \A j \in s : j <= Max(s)
  BY <1>1, Greatest
<1> DEFINE m == Max(s)
<1>3. m \in 1..n /\ i <= m /\ m <= i
  BY <1>1, <1>2
<1> HIDE DEF m
<1>6. m = i
  BY <1>3
<1>4. Max(s) = i
  BY <1>6 DEF m
<1>5. QED
  BY <1>1, <1>4 DEF s

(* FoldLeft walks over sets of indexes, of which it takes the greatest.    *)
IsFold(op, base, seq, h) ==
  h = [s \in SUBSET DOMAIN seq |->
         IF s = {} THEN base ELSE op[<<h[s \ {Max(s)}], seq[Max(s)]>>]]

(* A fold over a sequence has a value for each of its beginnings.          *)
LEMMA FoldIsDefined ==
  ASSUME NEW V, NEW X, NEW op \in [V \X X -> V], NEW base \in V, NEW seq \in Seq(X)
  PROVE  \E h \in [SUBSET DOMAIN seq -> V] : IsFold(op, base, seq, h)
<1> DEFINE n == Len(seq)
           D == SUBSET (1..n)
           rank == [s \in D |-> IF s = {} THEN 0 ELSE Max(s)]
           Step == [sh \in D \X [D -> V] |->
                      IF sh[1] = {} THEN base
                      ELSE op[<<sh[2][sh[1] \ {Max(sh[1])}], seq[Max(sh[1])]>>]]
<1>1. n \in Nat /\ DOMAIN seq = 1..n /\ \A i \in 1..n : seq[i] \in X
  BY LenProperties
<1> HIDE DEF n
<1>2. ASSUME NEW s \in D, s # {}
      PROVE  /\ Max(s) \in 1..n /\ Max(s) \in Nat /\ s \ {Max(s)} \in D
             /\ rank[s \ {Max(s)}] < rank[s] /\ rank[s] = Max(s)
  <2>1. Max(s) \in s /\ \A i \in s : i <= Max(s)
    BY <1>1, <1>2, Greatest
  <2>8. \A k \in 1..n : k \in Nat /\ k # 0
    OBVIOUS
  <2>9. Max(s) \in 1..n
    BY <2>1
  <2>2. Max(s) \in 1..n /\ Max(s) \in Nat /\ Max(s) # 0
    BY <2>8, <2>9
  <2>3. rank[s] = Max(s)
    BY <1>2
  <2> DEFINE t == s \ {Max(s)}
  <2>4. t \in D /\ \A i \in t : i # Max(s)
    OBVIOUS
  <2>5. CASE t = {}
    <3>1. rank[t] = 0
      BY <2>4, <2>5
    <3>2. QED
      BY <2>2, <2>3, <2>4, <3>1
  <2>6. CASE t # {}
    <3> HIDE DEF t
    <3>1. Max(t) \in t
      BY <1>1, <2>4, <2>6, Greatest
    <3>2. Max(t) <= Max(s) /\ Max(t) # Max(s)
      BY <2>1, <2>4, <3>1 DEF t
    <3>3. Max(t) \in 1..n
      BY <2>4, <3>1
    <3>4. Max(t) < Max(s)
      BY <1>1, <2>2, <3>2, <3>3
    <3>5. rank[t] = Max(t)
      BY <2>4, <2>6
    <3> HIDE DEF rank
    <3>6. QED
      BY <2>2, <2>3, <2>4, <3>4, <3>5 DEF t
  <2>7. QED
    BY <2>5, <2>6
<1>3. rank \in [D -> Nat]
  <2>1. \A s \in D : (IF s = {} THEN 0 ELSE Max(s)) \in Nat
    BY <1>2
  <2>2. QED
    BY <2>1
<1> HIDE DEF rank
<1>4. ASSUME NEW s \in D, NEW h \in [D -> V]
      PROVE  /\ Step[<<s, h>>] = IF s = {} THEN base ELSE op[<<h[s \ {Max(s)}], seq[Max(s)]>>]
             /\ Step[<<s, h>>] \in V
  <2>1. Step[<<s, h>>] = IF s = {} THEN base ELSE op[<<h[s \ {Max(s)}], seq[Max(s)]>>]
    OBVIOUS
  <2>2. s # {} => op[<<h[s \ {Max(s)}], seq[Max(s)]>>] \in V
    BY <1>1, <1>2
  <2> HIDE DEF Step
  <2>3. QED
    BY <2>1, <2>2
<1>5. Step \in [D \X [D -> V] -> V]
  <2>1. \A sh \in D \X [D -> V] : sh[1] \in D /\ sh[2] \in [D -> V] /\ sh = <<sh[1], sh[2]>>
    OBVIOUS
  <2>2. Step = [sh \in D \X [D -> V] |-> Step[sh]]
    OBVIOUS
  <2> HIDE DEF Step, D
  <2>3. \A sh \in D \X [D -> V] : Step[sh] \in V
    BY <1>4, <2>1
  <2>4. QED
    BY <2>2, <2>3
<1> HIDE DEF Step
<1>6. ASSUME NEW s \in D, NEW g \in [D -> V], NEW h \in [D -> V],
             \A t \in D : rank[t] < rank[s] => g[t] = h[t]
      PROVE  Step[<<s, g>>] = Step[<<s, h>>]
  <2>1. s # {} => g[s \ {Max(s)}] = h[s \ {Max(s)}]
    BY <1>2, <1>6
  <2>2. /\ Step[<<s, g>>] = IF s = {} THEN base ELSE op[<<g[s \ {Max(s)}], seq[Max(s)]>>]
        /\ Step[<<s, h>>] = IF s = {} THEN base ELSE op[<<h[s \ {Max(s)}], seq[Max(s)]>>]
    BY <1>4
  <2>3. QED
    BY <2>1, <2>2
<1>7. PICK h \in [D -> V] : \A s \in D : h[s] = Step[<<s, h>>]
  <2> HIDE DEF D
  <2>1. IsRecursion(D, rank, V, Step)
    BY <1>3, <1>5, <1>6 DEF IsRecursion
  <2>2. QED
    BY <2>1, RankedRecursion
<1>8. \A s \in D : h[s] = IF s = {} THEN base ELSE op[<<h[s \ {Max(s)}], seq[Max(s)]>>]
  BY <1>4, <1>7
<1>9. h = [s \in D |-> IF s = {} THEN base ELSE op[<<h[s \ {Max(s)}], seq[Max(s)]>>]]
  BY <1>8
<1>10. QED
  BY <1>1, <1>9 DEF IsFold

-----------------------------------------------------------------------------
(* Parameters: recursion over their components.                            *)

(* The custom types are replaced one after the other.                      *)
LEMMA ReplaceFold ==
  ASSUME NEW V, NEW X, NEW base \in V, NEW types \in Seq(X),
         \A v \in V : \A x \in X : ReplaceWord(v, x) \in V
  PROVE  \E g \in [0..Len(types) -> V] :
           /\ g[0] = base
           /\ \A i \in 1..Len(types) : g[i] = ReplaceWord(g[i - 1], types[i])
           /\ ResolveCustomTypesInSignature(base, types) = g[Len(types)]
<1> DEFINE n == Len(types)
           S == DOMAIN types
           op == [vx \in V \X X |-> ReplaceWord(vx[1], vx[2])]
           Flat(h) == [s \in SUBSET S |-> IF s = {} THEN base
                                          ELSE ReplaceWord(h[s \ {Max(s)}], types[Max(s)])]
           F == CHOOSE h : h = Flat(h)
           g == [i \in 0..n |-> F[1..i]]
<1>1. n \in Nat /\ S = 1..n /\ \A i \in 1..n : types[i] \in X
  BY LenProperties
<1>2. ResolveCustomTypesInSignature(base, types) = F[S]
  BY DEF ResolveCustomTypesInSignature, FoldLeft, MapThenFoldSet
<1>3. op \in [V \X X -> V] /\ \A v \in V, x \in X : op[<<v, x>>] = ReplaceWord(v, x)
  OBVIOUS
<1> HIDE DEF op, n, S
<1>4. PICK h \in [SUBSET S -> V] : IsFold(op, base, types, h)
  BY <1>3, FoldIsDefined DEF S
<1>5. h = Flat(h)
  <2>1. h = [s \in SUBSET S |-> IF s = {} THEN base ELSE op[<<h[s \ {Max(s)}], types[Max(s)]>>]]
    BY <1>4 DEF IsFold, S
  <2>2. ASSUME NEW s \in SUBSET S, s # {}
        PROVE  op[<<h[s \ {Max(s)}], types[Max(s)]>>] = ReplaceWord(h[s \ {Max(s)}], types[Max(s)])
    <3>1. Max(s) \in 1..n
      BY <1>1, <2>2, Greatest
    <3>2. types[Max(s)] \in X /\ h[s \ {Max(s)}] \in V
      BY <1>1, <3>1
    <3>3. QED
      BY <1>3, <3>2
  <2>3. QED
    BY <2>1, <2>2
<1>6. F = Flat(F)
  BY <1>5
<1> HIDE DEF F
<1>7. \A s \in SUBSET S : F[s] = IF s = {} THEN base ELSE ReplaceWord(F[s \ {Max(s)}], types[Max(s)])
  BY <1>6
<1>8. \A i \in 0..n : g[i] = F[1..i]
  OBVIOUS
<1>9. g[0] = base
  <2>1. 0 \in 0..n /\ 1..0 = {} /\ {} \in SUBSET S
    BY <1>1
  <2>2. QED
    BY <1>7, <1>8, <2>1
<1>10. ASSUME NEW i \in 1..n PROVE g[i] = ReplaceWord(g[i - 1], types[i]) /\ i - 1 \in 0..n
  <2>1. /\ 1..i \in SUBSET S /\ 1..i # {}
        /\ Max(1..i) = i /\ (1..i) \ {i} = 1..(i - 1)
    BY <1>1, FirstNumbers
  <2>2. F[1..i] = ReplaceWord(F[1..(i - 1)], types[i])
    BY <1>7, <2>1
  <2>3. i \in 0..n /\ i - 1 \in 0..n
    BY <1>1
  <2>4. QED
    BY <1>8, <2>2, <2>3
<1> HIDE DEF g
<1>11. 0..n \subseteq {i \in 0..n : g[i] \in V}
  <2> DEFINE H == {i \in 0..n : g[i] \in V}
  <2>1. 0 \in H
    BY <1>1, <1>9
  <2>2. ASSUME NEW i \in 1..n, i - 1 \in H PROVE i \in H
    <3>1. g[i - 1] \in V /\ types[i] \in X /\ i \in 0..n
      BY <1>1, <2>2
    <3>2. QED
      BY <1>10, <3>1
  <2> HIDE DEF H
  <2>3. 0..n \subseteq H
    BY <1>1, <2>1, <2>2, NumberInduction
  <2>4. QED
    BY <2>3 DEF H
<1>12. g \in [0..n -> V]
  BY <1>11 DEF g
<1>13. F[S] = g[n]
  BY <1>1, <1>8
<1>14. QED
  BY <1>2, <1>9, <1>10, <1>12, <1>13 DEF n

(* All parameters, those of events first.                                  *)
AbiParams(abi) == ParamsOf(abi.events) \o ParamsOf(abi.functions)

(* The custom types are collected from one parameter after the other.      *)
LEMMA CustomTypesFold ==
  ASSUME NEW abi, NEW V, NEW X, <<>> \in V, AbiParams(abi) \in Seq(X),
         \A v \in V : \A x \in X : WithCustomTypes(v, x) \in V
  PROVE  \E g \in [0..Len(AbiParams(abi)) -> V] :
           /\ g[0] = <<>>
           /\ \A i \in 1..Len(AbiParams(abi)) : g[i] = WithCustomTypes(g[i - 1], AbiParams(abi)[i])
           /\ ExtractCustomTypesFromAbi(abi) = g[Len(AbiParams(abi))]
<1> DEFINE all == AbiParams(abi)
           base == <<>>
           n == Len(all)
           S == DOMAIN all
           op == [vx \in V \X X |-> WithCustomTypes(vx[1], vx[2])]
           Flat(h) == [s \in SUBSET S |-> IF s = {} THEN <<>>
                                          ELSE WithCustomTypes(h[s \ {Max(s)}], all[Max(s)])]
           F == CHOOSE h : h = Flat(h)
           g == [i \in 0..n |-> F[1..i]]
<1>1. n \in Nat /\ S = 1..n /\ \A i \in 1..n : all[i] \in X
  BY LenProperties
<1>0. all \in Seq(X) /\ base \in V
  OBVIOUS
<1>2. ExtractCustomTypesFromAbi(abi) = F[S]
  BY DEF ExtractCustomTypesFromAbi, AbiParams, FoldLeft, MapThenFoldSet
<1>3. op \in [V \X X -> V] /\ \A v \in V, x \in X : op[<<v, x>>] = WithCustomTypes(v, x)
  OBVIOUS
<1> HIDE DEF op, n, S, all
<1>4. PICK h \in [SUBSET S -> V] : IsFold(op, base, all, h)
  BY <1>0, <1>3, FoldIsDefined DEF S
<1>5. h = Flat(h)
  <2>1. h = [s \in SUBSET S |-> IF s = {} THEN base ELSE op[<<h[s \ {Max(s)}], all[Max(s)]>>]]
    BY <1>4 DEF IsFold, S, base
  <2>2. ASSUME NEW s \in SUBSET S, s # {}
        PROVE  op[<<h[s \ {Max(s)}], all[Max(s)]>>] = WithCustomTypes(h[s \ {Max(s)}], all[Max(s)])
    <3>1. Max(s) \in 1..n
      BY <1>1, <2>2, Greatest
    <3>2. all[Max(s)] \in X /\ h[s \ {Max(s)}] \in V
      BY <1>1, <3>1
    <3>3. QED
      BY <1>3, <3>2
  <2>3. QED
    BY <2>1, <2>2
<1>6. F = Flat(F)
  BY <1>5
<1> HIDE DEF F
<1>7. \A s \in SUBSET S : F[s] = IF s = {} THEN <<>> ELSE WithCustomTypes(F[s \ {Max(s)}], all[Max(s)])
  BY <1>6
<1>8. \A i \in 0..n : g[i] = F[1..i]
  OBVIOUS
<1>9. g[0] = <<>>
  <2>1. 0 \in 0..n /\ 1..0 = {} /\ {} \in SUBSET S
    BY <1>1
  <2>2. QED
    BY <1>7, <1>8, <2>1
<1>10. ASSUME NEW i \in 1..n PROVE g[i] = WithCustomTypes(g[i - 1], all[i]) /\ i - 1 \in 0..n
  <2>1. /\ 1..i \in SUBSET S /\ 1..i # {}
        /\ Max(1..i) = i /\ (1..i) \ {i} = 1..(i - 1)
    BY <1>1, FirstNumbers
  <2>2. F[1..i] = WithCustomTypes(F[1..(i - 1)], all[i])
    BY <1>7, <2>1
  <2>3. i \in 0..n /\ i - 1 \in 0..n
    BY <1>1
  <2>4. QED
    BY <1>8, <2>2, <2>3
<1> HIDE DEF g
<1>11. 0..n \subseteq {i \in 0..n : g[i] \in V}
  <2> DEFINE H == {i \in 0..n : g[i] \in V}
  <2>1. 0 \in H
    BY <1>1, <1>9
  <2>2. ASSUME NEW i \in 1..n, i - 1 \in H PROVE i \in H
    <3>1. g[i - 1] \in V /\ all[i] \in X /\ i \in 0..n
      BY <1>1, <2>2
    <3>2. QED
      BY <1>10, <3>1
  <2> HIDE DEF H
  <2>3. 0..n \subseteq H
    BY <1>1, <2>1, <2>2, NumberInduction
  <2>4. QED
    BY <2>3 DEF H
<1>12. g \in [0..n -> V]
  BY <1>11 DEF g
<1>13. F[S] = g[n]
  BY <1>1, <1>8
<1>14. QED
  BY <1>2, <1>9, <1>10, <1>12, <1>13 DEF n, all

(* Parameters are made of parameters that are nested less deep.            *)
LEMMA ComponentsOf ==
  ASSUME NEW p \in Params
  PROVE  /\ p.components \in Seq(Params)
         /\ DOMAIN p.components = 1..Len(p.components) /\ Len(p.components) \in Nat
         /\ \A i \in DOMAIN p.components :
              p.components[i] \in Params /\ Nesting[p.components[i]] < Nesting[p]
<1>1. p.components \in Seq(Params)
  BY ParamsAssumption
<1> DEFINE c == p.components
<1> HIDE DEF c
<1>2. c \in Seq(Params)
  BY <1>1 DEF c
<1>3. DOMAIN c = 1..Len(c) /\ Len(c) \in Nat /\ \A i \in DOMAIN c : c[i] \in Params
  BY <1>2, LenProperties
<1>4. \A i \in DOMAIN c : Nesting[c[i]] < Nesting[p]
  BY ParamsAssumption DEF c
<1>5. QED
  BY <1>1, <1>3, <1>4 DEF c

(* What holds of a parameter when it holds of its components holds of all. *)
LEMMA ParamInduction ==
  ASSUME NEW H,
         \A p \in Params : (\A i \in DOMAIN p.components : p.components[i] \in H) => p \in H
  PROVE  Params \subseteq H
<1> DEFINE rank == [p \in Params |-> Nesting[p]]
<1>1. rank \in [Params -> Nat] /\ \A p \in Params : rank[p] = Nesting[p]
  BY ParamsAssumption
<1> HIDE DEF rank
<1>2. ASSUME NEW p \in Params, \A q \in Params : rank[q] < rank[p] => q \in H PROVE p \in H
  BY <1>1, <1>2, ComponentsOf
<1>3. IsInductive(Params, rank, H)
  BY <1>1, <1>2 DEF IsInductive
<1>4. QED
  BY <1>3, RankedInduction

(* Functions on parameters may be defined by those of their components.    *)
LEMMA ParamRecursion ==
  ASSUME NEW V, V # {}, NEW step \in [Params \X Seq(V) -> V]
  PROVE  \E f \in [Params -> V] : \A p \in Params : f[p] = step[<<p, Mapped(p.components, f)>>]
<1> DEFINE D == Params
           rank == [p \in Params |-> Nesting[p]]
           Step == [pf \in D \X [D -> V] |-> step[<<pf[1], Mapped(pf[1].components, pf[2])>>]]
<1>1. rank \in [Params -> Nat] /\ \A p \in Params : rank[p] = Nesting[p]
  BY ParamsAssumption
<1> HIDE DEF rank
<1>2. ASSUME NEW p \in D, NEW f \in [D -> V]
      PROVE  Step[<<p, f>>] = step[<<p, Mapped(p.components, f)>>] /\ Step[<<p, f>>] \in V
  <2>1. Step[<<p, f>>] = step[<<p, Mapped(p.components, f)>>]
    OBVIOUS
  <2>2. p.components \in Seq(Params) /\ \A q \in Params : f[q] \in V
    BY ComponentsOf
  <2>3. Mapped(p.components, f) \in Seq(V)
    BY <2>2, MappedSequence
  <2> HIDE DEF Step
  <2>4. QED
    BY <2>1, <2>3
<1>3. Step \in [D \X [D -> V] -> V]
  <2>1. \A sh \in D \X [D -> V] : sh[1] \in D /\ sh[2] \in [D -> V] /\ sh = <<sh[1], sh[2]>>
    OBVIOUS
  <2>2. Step = [sh \in D \X [D -> V] |-> Step[sh]]
    OBVIOUS
  <2> HIDE DEF Step, D
  <2>3. \A sh \in D \X [D -> V] : Step[sh] \in V
    BY <1>2, <2>1
  <2>4. QED
    BY <2>2, <2>3
<1> HIDE DEF Step
<1>4. ASSUME NEW p \in D, NEW g \in [D -> V], NEW h \in [D -> V],
             \A q \in D : rank[q] < rank[p] => g[q] = h[q]
      PROVE  Step[<<p, g>>] = Step[<<p, h>>]
  <2>1. \A i \in DOMAIN p.components : g[p.components[i]] = h[p.components[i]]
    BY <1>1, <1>4, ComponentsOf
  <2>2. Mapped(p.components, g) = Mapped(p.components, h)
    BY <2>1 DEF Mapped
  <2>3. QED
    BY <1>2, <2>2
<1>5. PICK f \in [D -> V] : \A p \in D : f[p] = Step[<<p, f>>]
  <2> HIDE DEF D
  <2>1. rank \in [D -> Nat]
    BY <1>1 DEF D
  <2>2. IsRecursion(D, rank, V, Step)
    BY <1>3, <1>4, <2>1 DEF IsRecursion
  <2>3. QED
    BY <2>2, RankedRecursion
<1>6. QED
  BY <1>2, <1>5

-----------------------------------------------------------------------------
(* The words of types.                                                     *)

(* The words of types in an event or function.                             *)
TypeWord == KeyWords \ {"tuple", "uint"}

(* The words of which types consist; none is an alias or `tuple`.          *)
LEMMA TypeWordTypes ==
  /\ {"(", ")"} \subseteq TypeWord
  /\ \A p \in Params : /\ <<"(">> \in Seq(TypeWord) /\ <<")">> \in Seq(TypeWord)
                       /\ p.array \in Seq(TypeWord)
                       /\ p.type # "tuple" => p.type \in TypeWord /\ <<p.type>> \in Seq(TypeWord)
                       /\ ResolveBaseType(p.type) = p.type
  /\ TypeWord \subseteq STRING
<1>1. {"(", ")"} \subseteq TypeWord /\ ArrayBrackets \subseteq TypeWord
  BY SizesAssumption DEF TypeWord, KeyWords, ArrayBrackets
<1>2. ASSUME NEW p \in Params
      PROVE  /\ p.type # "tuple" => p.type \in TypeWord
             /\ ResolveBaseType(p.type) = p.type /\ p.type \in STRING
  BY ParamsAssumption DEF TypeWord, KeyWords, ResolveBaseType
<1>3. TypeWord \subseteq STRING
  BY NamesAssumption DEF TypeWord
<1> HIDE DEF TypeWord
<1>4. \A w \in TypeWord : <<w>> \in Seq(TypeWord)
  OBVIOUS
<1>5. ASSUME NEW p \in Params PROVE p.array \in Seq(TypeWord)
  BY <1>1, ParamsAssumption, SeqMonotonic
<1>6. QED
  BY <1>1, <1>2, <1>3, <1>4, <1>5

(* The words of a tuple and of a plain type are such words.                *)
LEMMA TupleWords ==
  ASSUME NEW p \in Params, NEW s \in Seq(TypeWord)
  PROVE  /\ (<<"(">> \o s \o <<")">>) \o p.array \in Seq(TypeWord)
         /\ p.type # "tuple" => <<ResolveBaseType(p.type)>> \o p.array \in Seq(TypeWord)
<1>1. /\ <<"(">> \in Seq(TypeWord) /\ <<")">> \in Seq(TypeWord) /\ p.array \in Seq(TypeWord)
      /\ p.type # "tuple" => <<ResolveBaseType(p.type)>> \in Seq(TypeWord)
  BY TypeWordTypes
<1>2. QED
  BY <1>1, ConcatProperties

(* The words of a type, from those of its components.                      *)
WordsOf(p, s) ==
  (IF p.type = "tuple" THEN <<"(">> \o s \o <<")">> ELSE <<ResolveBaseType(p.type)>>) \o p.array

(* A function that gives every type its words.                             *)
IsWords(f) == f = [p \in Params |-> WordsOf(p, Spread(p.components, f))]

(* There is a function that gives the words of every type, ...             *)
LEMMA WordsExist == \E f : IsWords(f)
<1> DEFINE V == Seq(TypeWord)
           step == [pv \in Params \X Seq(V) |-> WordsOf(pv[1], Concat(pv[2]))]
<1>1. \A p \in Params, s \in V : WordsOf(p, s) \in V
  BY TupleWords DEF WordsOf
<1>2. \A ss \in Seq(V) : Concat(ss) \in V
  BY ConcatType
<1>3. V # {}
  BY EmptySeq
<1> HIDE DEF V
<1>4. /\ step \in [Params \X Seq(V) -> V]
      /\ \A p \in Params, ss \in Seq(V) : step[<<p, ss>>] = WordsOf(p, Concat(ss))
  BY <1>1, <1>2
<1> HIDE DEF step
<1>5. PICK f \in [Params -> V] : \A p \in Params : f[p] = step[<<p, Mapped(p.components, f)>>]
  BY <1>3, <1>4, ParamRecursion
<1>6. ASSUME NEW p \in Params PROVE f[p] = WordsOf(p, Spread(p.components, f))
  <2>1. p.components \in Seq(Params) /\ \A q \in Params : f[q] \in V
    BY ComponentsOf
  <2>2. Mapped(p.components, f) \in Seq(V)
    BY <2>1, MappedSequence
  <2>3. QED
    BY <1>4, <1>5, <2>2 DEF Spread
<1>7. IsWords(f)
  BY <1>6 DEF IsWords
<1>8. QED
  BY <1>7

(* The components of a parameter among those of which something holds.     *)
LEMMA ComponentsIn ==
  ASSUME NEW p \in Params, NEW H, \A i \in DOMAIN p.components : p.components[i] \in H
  PROVE  p.components \in Seq(H)
<1> DEFINE c == p.components
<1>1. DOMAIN c = 1..Len(c) /\ Len(c) \in Nat /\ c \in Seq(Params) /\ \A i \in DOMAIN c : c[i] \in H
  BY ComponentsOf
<1> HIDE DEF c
<1>2. c \in [1..Len(c) -> H]
  BY <1>1, LenProperties
<1>3. c \in Seq(H)
  BY <1>1, <1>2, FunctionIsSequence
<1>4. QED
  BY <1>3 DEF c

(* ... to words of which types consist.                                    *)
LEMMA WordsType ==
  ASSUME NEW f, IsWords(f)
  PROVE  IsMap(f, Params, TypeWord)
<1> DEFINE V == Seq(TypeWord)
           H == {p \in Params : f[p] \in V}
<1>1. f = [p \in Params |-> f[p]] /\ \A p \in Params : f[p] = WordsOf(p, Spread(p.components, f))
  BY DEF IsWords
<1>2. \A p \in Params, s \in V : WordsOf(p, s) \in V
  BY TupleWords DEF WordsOf
<1>3. \A ss \in Seq(V) : Concat(ss) \in V
  BY ConcatType
<1>4. \A q \in H : f[q] \in V
  OBVIOUS
<1> HIDE DEF V
<1>5. ASSUME NEW p \in Params, \A i \in DOMAIN p.components : p.components[i] \in H PROVE p \in H
  <2> HIDE DEF H
  <2>1. p.components \in Seq(H)
    BY <1>5, ComponentsIn
  <2>2. Mapped(p.components, f) \in Seq(V)
    BY <1>4, <2>1, MappedSequence
  <2>3. f[p] \in V
    BY <1>1, <1>2, <1>3, <2>2 DEF Spread
  <2>4. QED
    BY <2>3 DEF H
<1> HIDE DEF H
<1>6. Params \subseteq H
  BY <1>5, ParamInduction
<1>7. f \in [Params -> V]
  BY <1>1, <1>6 DEF H
<1>8. QED
  BY <1>7 DEF IsMap, V

(* TypeWords is what its definition says.                                  *)
LEMMA TypeWordsAre == IsWords(TypeWords) /\ IsMap(TypeWords, Params, TypeWord)
<1> DEFINE Flat(f) == [p \in Params |->
                         (IF p.type = "tuple"
                          THEN <<"(">> \o Concat([i \in DOMAIN p.components |-> f[p.components[i]]]) \o <<")">>
                          ELSE <<ResolveBaseType(p.type)>>) \o p.array]
           F == CHOOSE g : g = Flat(g)
<1>1. \A f : Flat(f) = [p \in Params |-> WordsOf(p, Spread(p.components, f))]
  BY DEF WordsOf, Spread, Mapped
<1>2. TypeWords = F
  BY DEF TypeWords
<1> HIDE DEF Flat
<1>3. \E f : f = Flat(f)
  BY <1>1, WordsExist DEF IsWords
<1>4. F = Flat(F)
  BY <1>3
<1> HIDE DEF F
<1>5. IsWords(F)
  BY <1>1, <1>4 DEF IsWords
<1>6. QED
  BY <1>2, <1>5, WordsType

(* A parameter and those inside of it are parameters.                      *)
LEMMA ParamsWithinAre ==
  /\ \A p \in Params : ParamsWithin[p] = <<p>> \o Spread(p.components, ParamsWithin)
  /\ IsMap(ParamsWithin, Params, Params)
<1> DEFINE V == Seq(Params)
           All(p, s) == <<p>> \o s
           step == [pv \in Params \X Seq(V) |-> All(pv[1], Concat(pv[2]))]
           Flat(f) == [p \in Params |->
                         <<p>> \o Concat([i \in DOMAIN p.components |-> f[p.components[i]]])]
           F == CHOOSE g : g = Flat(g)
<1>1. \A p \in Params, s \in V : All(p, s) \in V
  <2>1. \A p \in Params : <<p>> \in Seq(Params)
    OBVIOUS
  <2>2. QED
    BY <2>1, ConcatProperties
<1>2. \A ss \in Seq(V) : Concat(ss) \in V
  BY ConcatType
<1>3. V # {}
  BY EmptySeq
<1>4. \A f : Flat(f) = [p \in Params |-> All(p, Concat(Mapped(p.components, f)))]
  BY DEF Mapped
<1> HIDE DEF V, All
<1>5. /\ step \in [Params \X Seq(V) -> V]
      /\ \A p \in Params, ss \in Seq(V) : step[<<p, ss>>] = All(p, Concat(ss))
  BY <1>1, <1>2
<1> HIDE DEF step
<1>6. PICK f \in [Params -> V] : \A p \in Params : f[p] = step[<<p, Mapped(p.components, f)>>]
  BY <1>3, <1>5, ParamRecursion
<1>7. ASSUME NEW p \in Params PROVE f[p] = All(p, Concat(Mapped(p.components, f)))
  <2>1. p.components \in Seq(Params) /\ \A q \in Params : f[q] \in V
    BY ComponentsOf
  <2>2. Mapped(p.components, f) \in Seq(V)
    BY <2>1, MappedSequence
  <2>3. QED
    BY <1>5, <1>6, <2>2
<1>8. ParamsWithin = F
  BY DEF ParamsWithin
<1> HIDE DEF Flat
<1>9. f = Flat(f)
  BY <1>4, <1>7
<1>10. F = Flat(F)
  BY <1>9
<1> HIDE DEF F
<1>11. /\ F = [p \in Params |-> F[p]]
       /\ \A p \in Params : F[p] = All(p, Concat(Mapped(p.components, F)))
  BY <1>4, <1>10
<1> DEFINE H == {p \in Params : F[p] \in V}
<1>12. \A q \in H : F[q] \in V
  OBVIOUS
<1>13. ASSUME NEW p \in Params, \A i \in DOMAIN p.components : p.components[i] \in H PROVE p \in H
  <2> HIDE DEF H
  <2>1. p.components \in Seq(H)
    BY <1>13, ComponentsIn
  <2>2. Mapped(p.components, F) \in Seq(V)
    BY <1>12, <2>1, MappedSequence
  <2>3. F[p] \in V
    BY <1>1, <1>2, <1>11, <2>2
  <2>4. QED
    BY <2>3 DEF H
<1> HIDE DEF H
<1>14. Params \subseteq H
  BY <1>13, ParamInduction
<1>15. F \in [Params -> V]
  BY <1>11, <1>14 DEF H
<1>16. QED
  BY <1>8, <1>11, <1>15 DEF IsMap, Spread, All, V

(* The first of them is the parameter itself.                              *)
LEMMA ParamsWithinItself ==
  ASSUME NEW p \in Params
  PROVE  /\ ParamsWithin[p] \in Seq(Params) /\ p \in ToSet(ParamsWithin[p])
         /\ Len(ParamsWithin[p]) > 0 /\ ParamsWithin[p][1] = p
<1> DEFINE s == Spread(p.components, ParamsWithin)
           t == <<p>> \o s
<1>1. s \in Seq(Params) /\ <<p>> \in Seq(Params) /\ Len(<<p>>) = 1 /\ <<p>>[1] = p
  BY ParamsWithinAre, ComponentsOf, SpreadType
<1>2. ParamsWithin[p] = t
  BY ParamsWithinAre
<1> HIDE DEF s
<1>3. Len(s) \in Nat
  BY <1>1, LenProperties
<1>4. t \in Seq(Params) /\ Len(t) = 1 + Len(s) /\ t[1] = p
  BY <1>1, <1>3, ConcatProperties
<1>5. 1 \in DOMAIN t
  BY <1>3, <1>4, LenProperties
<1> HIDE DEF t
<1>6. QED
  BY <1>2, <1>3, <1>4, <1>5 DEF ToSet

-----------------------------------------------------------------------------
(* Signatures, and names that leave them alone.                            *)

(* A sequence of which every element is in a set.                          *)
LEMMA SequenceWithin ==
  ASSUME NEW T, NEW s \in Seq(T), NEW A, \A i \in DOMAIN s : s[i] \in A
  PROVE  s \in Seq(A)
<1>1. DOMAIN s = 1..Len(s) /\ Len(s) \in Nat /\ s \in [1..Len(s) -> T]
  BY LenProperties
<1>2. s \in [1..Len(s) -> A]
  BY <1>1
<1>3. QED
  BY <1>1, <1>2, FunctionIsSequence

(* The words of an event or function.                                      *)
IsFragmentOf(f) == IsIdentifier(f.name) /\ f.inputs \in Seq(Params)

(* The words of a signature: a name, and words of types.                   *)
LEMMA FormatIs ==
  ASSUME NEW f, IsFragmentOf(f)
  PROVE  /\ Format(f) = <<f.name, "(">> \o Spread(f.inputs, TypeWords) \o <<")">>
         /\ Spread(f.inputs, TypeWords) \in Seq(TypeWord)
         /\ Format(f) \in Seq(TypeWord \cup {f.name})
         /\ f.name \in STRING \ KeyWords
<1>1. Spread(f.inputs, TypeWords) \in Seq(TypeWord)
  BY TypeWordsAre, SpreadType DEF IsFragmentOf
<1>2. Format(f) = <<f.name, "(">> \o Spread(f.inputs, TypeWords) \o <<")">>
  BY DEF Format, Spread, Mapped
<1> DEFINE s == Spread(f.inputs, TypeWords)
           W == TypeWord \cup {f.name}
           a == <<f.name, "(">>
           b == <<")">>
<1>3. s \in Seq(W)
  BY <1>1, SeqMonotonic
<1>4. a \in Seq(W) /\ b \in Seq(W)
  BY TypeWordTypes
<1> HIDE DEF s, W, a, b
<1>5. a \o s \in Seq(W)
  BY <1>3, <1>4, ConcatProperties
<1>6. (a \o s) \o b \in Seq(W)
  BY <1>4, <1>5, ConcatProperties
<1>7. QED
  BY <1>1, <1>2, <1>6 DEF s, W, a, b, IsFragmentOf, IsIdentifier

(* What is written for a fragment uses its name and words of types only.   *)
LEMMA AcceptedWords ==
  ASSUME NEW words \in Seq(STRING), NEW f, IsFragmentOf(f), FormatString(words) = Format(f)
  PROVE  words \in Seq(KeyWords \cup {f.name})
<1>1. Format(f) \in Seq(TypeWord \cup {f.name}) /\ f.name \in STRING
  BY FormatIs
<1>2. Format(f) \in Seq(STRING)
  <2>1. TypeWord \cup {f.name} \subseteq STRING
    BY <1>1, TypeWordTypes
  <2>2. QED
    BY <1>1, <2>1, SeqMonotonic
<1>3. Format(f) # Invalid
  BY <1>2, NamesAssumption
<1>4. Format(f) = [i \in DOMAIN words |-> ResolveBaseType(words[i])]
  BY <1>3 DEF FormatString
<1> DEFINE z == Format(f)
<1>5. DOMAIN z = DOMAIN words /\ \A i \in DOMAIN words : z[i] = ResolveBaseType(words[i])
  BY <1>4
<1> HIDE DEF z
<1>6. \A i \in DOMAIN z : z[i] \in TypeWord \cup {f.name}
  BY <1>1, LenProperties DEF z
<1>7. ASSUME NEW i \in DOMAIN words PROVE words[i] \in KeyWords \cup {f.name}
  <2>1. ResolveBaseType(words[i]) \in KeyWords \cup {f.name}
    BY <1>5, <1>6 DEF TypeWord
  <2>2. "uint" \in KeyWords
    BY DEF KeyWords, StandardTypes
  <2>3. QED
    BY <2>1, <2>2 DEF ResolveBaseType
<1>8. QED
  BY <1>7, SequenceWithin

(* A replacement of other names changes nothing.                           *)
LEMMA WordsAreKept ==
  ASSUME NEW W, NEW words \in Seq(W), NEW X, NEW types \in Seq(X), \A x \in X : x.name \notin W
  PROVE  ResolveCustomTypesInSignature(words, types) = words
<1> DEFINE r == [w \in W |-> <<w>>]
<1>1. IsMap(r, W, W) /\ \A w \in W : r[w] = <<w>>
  <2>1. \A w \in W : <<w>> \in Seq(W)
    OBVIOUS
  <2>2. QED
    BY <2>1 DEF IsMap
<1> HIDE DEF r
<1>2. Spread(words, r) = words
  BY <1>1, SpreadKeeps
<1>3. \A i \in DOMAIN words : words[i] \in W
  BY LenProperties
<1>4. ASSUME NEW x \in X PROVE ReplaceWord(words, x) = words
  <2>1. \A i \in DOMAIN words :
          (IF words[i] = x.name THEN x.resolvedType ELSE <<words[i]>>) = r[words[i]]
    BY <1>1, <1>3
  <2>2. [i \in DOMAIN words |-> IF words[i] = x.name THEN x.resolvedType ELSE <<words[i]>>]
        = Mapped(words, r)
    BY <2>1 DEF Mapped
  <2>3. QED
    BY <1>2, <2>2 DEF ReplaceWord, Spread
<1> DEFINE V == {words}
<1>5. words \in V /\ \A v \in V : \A x \in X : ReplaceWord(v, x) \in V
  BY <1>4
<1> HIDE DEF V
<1>6. \E g \in [0..Len(types) -> V] :
        /\ g[0] = words
        /\ \A i \in 1..Len(types) : g[i] = ReplaceWord(g[i - 1], types[i])
        /\ ResolveCustomTypesInSignature(words, types) = g[Len(types)]
  BY <1>5, ReplaceFold
<1>7. Len(types) \in 0..Len(types)
  BY LenProperties
<1>8. QED
  BY <1>6, <1>7 DEF V

-----------------------------------------------------------------------------
(* The custom types that the node extracts.                                *)

(* An ABI, and its fragments.                                              *)
IsAbi(abi) == AreFragments(abi.events) /\ AreFragments(abi.functions)

(* Its events or its functions, as a sequence and as a set.                *)
LEMMA FragmentsAre ==
  ASSUME NEW fragments, AreFragments(fragments)
  PROVE  /\ \A f \in ToSet(fragments) : IsFragmentOf(f)
         /\ \A i \in DOMAIN fragments : fragments[i] \in ToSet(fragments)
         /\ fragments \in Seq(ToSet(fragments))
         /\ \A i, j \in DOMAIN fragments : Format(fragments[i]) = Format(fragments[j]) => i = j
<1>1. \A f \in ToSet(fragments) : \E i \in DOMAIN fragments : f = fragments[i]
  BY DEF ToSet
<1>2. \A i \in DOMAIN fragments : fragments[i] \in ToSet(fragments)
  BY DEF ToSet
<1>3. QED
  BY <1>1, <1>2 DEF AreFragments, IsFragmentOf, IsSequence

(* The parameters of events and functions, tuples opened.                  *)
LEMMA ParamsWithinFragment ==
  ASSUME NEW f, IsFragmentOf(f)
  PROVE  /\ ParamsIn(f.inputs) \subseteq Params
         /\ \A i \in DOMAIN f.inputs : /\ f.inputs[i] \in ParamsIn(f.inputs)
                                       /\ ParamsWithin[f.inputs[i]] \in Seq(ParamsIn(f.inputs))
<1> DEFINE s == f.inputs
<1>1. s \in Seq(Params) /\ DOMAIN s = 1..Len(s) /\ \A i \in DOMAIN s : s[i] \in Params
  <2>1. s \in Seq(Params)
    BY DEF IsFragmentOf
  <2> HIDE DEF s
  <2>2. QED
    BY <2>1, LenProperties
<1> HIDE DEF s
<1>2. ASSUME NEW i \in DOMAIN s
      PROVE  /\ ParamsWithin[s[i]] \in Seq(Params) /\ s[i] \in ToSet(ParamsWithin[s[i]])
             /\ ToSet(ParamsWithin[s[i]]) \subseteq Params
             /\ \A j \in DOMAIN ParamsWithin[s[i]] : ParamsWithin[s[i]][j] \in ToSet(ParamsWithin[s[i]])
  <2> DEFINE t == ParamsWithin[s[i]]
  <2>1. t \in Seq(Params) /\ s[i] \in ToSet(t)
    BY <1>1, ParamsWithinItself
  <2> HIDE DEF t
  <2>2. ToSet(t) \subseteq Params /\ \A j \in DOMAIN t : t[j] \in ToSet(t)
    BY <2>1, LenProperties DEF ToSet
  <2>3. QED
    BY <2>1, <2>2 DEF t
<1>3. ParamsIn(s) = UNION {ToSet(ParamsWithin[s[i]]) : i \in DOMAIN s}
  BY DEF ParamsIn
<1>4. ParamsIn(s) \subseteq Params /\ \A i \in DOMAIN s : s[i] \in ParamsIn(s)
  BY <1>2, <1>3
<1>5. ASSUME NEW i \in DOMAIN s PROVE ParamsWithin[s[i]] \in Seq(ParamsIn(s))
  <2>1. \A j \in DOMAIN ParamsWithin[s[i]] : ParamsWithin[s[i]][j] \in ParamsIn(s)
    BY <1>2, <1>3
  <2>2. QED
    BY <1>2, <2>1, SequenceWithin
<1>6. QED
  BY <1>4, <1>5 DEF s

(* The parameters of fragments, in the order of the extraction.            *)
LEMMA ParamsOfType ==
  ASSUME NEW fragments, AreFragments(fragments), NEW A,
         \A f \in ToSet(fragments) : ParamsIn(f.inputs) \subseteq A
  PROVE  ParamsOf(fragments) \in Seq(A)
<1> DEFINE V == Seq(A)
           Inner(f) == Concat([j \in DOMAIN f.inputs |-> ParamsWithin[f.inputs[j]]])
           ss == [i \in DOMAIN fragments |-> Inner(fragments[i])]
<1>1. ASSUME NEW f \in ToSet(fragments) PROVE Inner(f) \in V
  <2> DEFINE s == f.inputs
             tt == [j \in DOMAIN s |-> ParamsWithin[s[j]]]
  <2>1. /\ IsFragmentOf(f) /\ s \in Seq(Params)
        /\ \A j \in DOMAIN s : ParamsWithin[s[j]] \in Seq(ParamsIn(s))
    BY FragmentsAre, ParamsWithinFragment DEF IsFragmentOf
  <2>2. ParamsIn(s) \subseteq A
    BY <1>1
  <2> HIDE DEF s
  <2>3. DOMAIN s = 1..Len(s) /\ Len(s) \in Nat
    BY <2>1, LenProperties
  <2>4. ASSUME NEW j \in DOMAIN s PROVE ParamsWithin[s[j]] \in V
    BY <2>1, <2>2, SeqMonotonic
  <2> HIDE DEF V
  <2>5. tt \in [1..Len(s) -> V]
    BY <2>3, <2>4
  <2> HIDE DEF tt
  <2>6. tt \in Seq(V)
    BY <2>3, <2>5, FunctionIsSequence
  <2>7. Concat(tt) \in V
    BY <2>6, ConcatType DEF V
  <2>8. QED
    BY <2>7 DEF tt, s
<1> HIDE DEF Inner, V
<1>2. /\ fragments \in Seq(ToSet(fragments))
      /\ \A i \in DOMAIN fragments : fragments[i] \in ToSet(fragments)
  BY FragmentsAre
<1>3. DOMAIN fragments = 1..Len(fragments) /\ Len(fragments) \in Nat
  BY <1>2, LenProperties
<1>4. ss \in [1..Len(fragments) -> V]
  BY <1>1, <1>2, <1>3
<1> HIDE DEF ss
<1>5. ss \in Seq(V)
  BY <1>3, <1>4, FunctionIsSequence
<1>6. Concat(ss) \in V
  BY <1>5, ConcatType DEF V
<1>7. ParamsOf(fragments) = Concat(ss)
  BY DEF ParamsOf, ss, Inner
<1>8. QED
  BY <1>6, <1>7 DEF V

(* ... and those of the events and the functions together.                 *)
LEMMA ParamsOfAbi ==
  ASSUME NEW abi, IsAbi(abi)
  PROVE  /\ ParamsOf(abi.events) \o ParamsOf(abi.functions) \in Seq(AllParams(abi))
         /\ AllParams(abi) \subseteq Params
         /\ \A f \in Fragments(abi) : IsFragmentOf(f) /\ ParamsIn(f.inputs) \subseteq AllParams(abi)
<1>1. \A f \in Fragments(abi) : IsFragmentOf(f)
  BY FragmentsAre DEF Fragments, IsAbi
<1>2. \A f \in Fragments(abi) : ParamsIn(f.inputs) \subseteq AllParams(abi)
  BY DEF AllParams
<1>3. AllParams(abi) \subseteq Params
  <2>1. \A f \in Fragments(abi) : ParamsIn(f.inputs) \subseteq Params
    BY <1>1, ParamsWithinFragment
  <2>2. QED
    BY <2>1 DEF AllParams
<1>4. ToSet(abi.events) \subseteq Fragments(abi) /\ ToSet(abi.functions) \subseteq Fragments(abi)
  BY DEF Fragments
<1> DEFINE A == AllParams(abi)
<1> HIDE DEF A
<1>5. ParamsOf(abi.events) \in Seq(A)
  BY <1>2, <1>4, ParamsOfType DEF IsAbi, A
<1>6. ParamsOf(abi.functions) \in Seq(A)
  BY <1>2, <1>4, ParamsOfType DEF IsAbi, A
<1>7. ParamsOf(abi.events) \o ParamsOf(abi.functions) \in Seq(A)
  BY <1>5, <1>6, ConcatProperties
<1>8. QED
  BY <1>1, <1>2, <1>3, <1>7 DEF A

(* The names that custom types are found under are names of structs and    *)
(* enums of the ABI.                                                       *)
OwnNames(abi) == {p.internal : p \in CustomParams(abi)}

(* What the extraction may collect.                                        *)
CustomTypes(abi) == [name : OwnNames(abi), resolvedType : Seq(KeyWords)]

(* What the extraction takes from an ABI has a name of its own, and words  *)
(* of types.                                                               *)
LEMMA StructWords ==
  ASSUME NEW p \in Params
  PROVE  StructOf(p).resolvedType \in Seq(KeyWords) /\ StructOf(p).name = InternalType(p)
<1> DEFINE c == p.components
           t(q) == <<ResolveBaseType(q.type)>> \o q.array
           ss == [i \in DOMAIN c |-> t(c[i])]
<1>1. c \in Seq(Params) /\ DOMAIN c = 1..Len(c) /\ Len(c) \in Nat /\ \A i \in DOMAIN c : c[i] \in Params
  BY ComponentsOf
<1>2. ASSUME NEW q \in Params PROVE t(q) \in Seq(KeyWords)
  <2>1. q.array \in Seq(KeyWords)
    <3>1. ArrayBrackets \subseteq KeyWords
      BY DEF KeyWords
    <3>2. QED
      BY <3>1, ParamsAssumption, SeqMonotonic
  <2>2. q.type \in KeyWords /\ ResolveBaseType(q.type) = q.type
    BY TypeWordTypes DEF KeyWords
  <2>3. <<ResolveBaseType(q.type)>> \in Seq(KeyWords)
    BY <2>2
  <2>4. QED
    BY <2>1, <2>3, ConcatProperties
<1> DEFINE V == Seq(KeyWords)
<1> HIDE DEF V, c, t
<1>3. ss \in [1..Len(c) -> V]
  BY <1>1, <1>2 DEF V
<1> HIDE DEF ss
<1>4. ss \in Seq(V)
  BY <1>1, <1>3, FunctionIsSequence
<1>5. Concat(ss) \in Seq(KeyWords)
  BY <1>4, ConcatType DEF V
<1>6. <<"(">> \in Seq(KeyWords) /\ <<")">> \in Seq(KeyWords)
  BY DEF KeyWords
<1>7. <<"(">> \o Concat(ss) \o <<")">> \in Seq(KeyWords)
  BY <1>5, <1>6, ConcatProperties
<1>8. StructOf(p) = CustomType(InternalType(p), <<"(">> \o Concat(ss) \o <<")">>)
  BY DEF StructOf, ss, t, c
<1>9. QED
  BY <1>7, <1>8 DEF CustomType

(* What is collected stays of one type, ...                                *)
LEMMA WithCustomTypesType ==
  ASSUME NEW p \in Params, NEW T, NEW types \in Seq(T),
         p.type = "tuple" /\ InternalType(p) # None => StructOf(p) \in T,
         (/\ p.type \in {"uint8", "uint256"}
          /\ InternalType(p) # None /\ ~IsStandardSolidityType(InternalType(p)))
           => CustomType(InternalType(p), <<"uint8">>) \in T
  PROVE  WithCustomTypes(types, p) \in Seq(T)
<1>1. \A s \in Seq(T), t \in T : SetIfNew(s, t) \in Seq(T)
  BY AppendProperties DEF SetIfNew
<1>2. WithStruct(types, p) \in Seq(T)
  BY <1>1 DEF WithStruct
<1>3. QED
  BY <1>1, <1>2 DEF WithEnum, WithCustomTypes

(* ... so the node knows own names, and words of types for them.           *)
LEMMA CustomTypesType ==
  ASSUME NEW abi, IsAbi(abi)
  PROVE  ExtractCustomTypesFromAbi(abi) \in Seq(CustomTypes(abi))
<1> DEFINE all == AbiParams(abi)
           A == AllParams(abi)
           T == CustomTypes(abi)
           V == Seq(T)
<1>1. all \in Seq(A) /\ A \subseteq Params
  BY ParamsOfAbi DEF AbiParams
<1>2. ASSUME NEW p \in A, InternalType(p) # None,
             p.type = "tuple" \/ (p.type \in {"uint8", "uint256"} /\ ~IsStandardSolidityType(InternalType(p)))
      PROVE  InternalType(p) \in OwnNames(abi)
  <2>1. InternalType(p) = p.internal /\ p.internal # None
    BY <1>2 DEF InternalType
  <2>2. p.internal # p.type
    BY <1>1, <1>2, <2>1, NamesAssumption DEF IsStandardSolidityType, StandardTypes
  <2>3. p \in CustomParams(abi)
    BY <2>1, <2>2 DEF CustomParams, HasOwnName
  <2>4. QED
    BY <2>1, <2>3 DEF OwnNames
<1>3. ASSUME NEW p \in A, NEW types \in V PROVE WithCustomTypes(types, p) \in V
  <2>1. p \in Params
    BY <1>1
  <2>5. p.type = "tuple" /\ InternalType(p) # None => InternalType(p) \in OwnNames(abi)
    <3> HIDE DEF A, T, V, all
    <3>1. QED
      BY <1>2
  <2>6. (/\ p.type \in {"uint8", "uint256"}
         /\ InternalType(p) # None /\ ~IsStandardSolidityType(InternalType(p)))
          => InternalType(p) \in OwnNames(abi)
    <3> HIDE DEF A, T, V, all
    <3>1. QED
      BY <1>2
  <2>2. p.type = "tuple" /\ InternalType(p) # None => StructOf(p) \in T
    <3>1. StructOf(p) = [name |-> StructOf(p).name, resolvedType |-> StructOf(p).resolvedType]
      BY DEF StructOf, CustomType
    <3>2. StructOf(p).resolvedType \in Seq(KeyWords) /\ StructOf(p).name = InternalType(p)
      BY <2>1, StructWords
    <3> DEFINE n == StructOf(p).name
               w == StructOf(p).resolvedType
               N == OwnNames(abi)
               W == Seq(KeyWords)
    <3>3. p.type = "tuple" /\ InternalType(p) # None => n \in N
      BY <2>5, <3>2
    <3>4. w \in W
      BY <3>2
    <3> HIDE DEF n, w, N, W
    <3>5. p.type = "tuple" /\ InternalType(p) # None => [name |-> n, resolvedType |-> w] \in [name : N, resolvedType : W]
      BY <3>3, <3>4
    <3>6. QED
      BY <3>1, <3>5 DEF n, w, N, W, CustomTypes
  <2>3. (/\ p.type \in {"uint8", "uint256"}
         /\ InternalType(p) # None /\ ~IsStandardSolidityType(InternalType(p)))
          => CustomType(InternalType(p), <<"uint8">>) \in T
    <3>1. <<"uint8">> \in Seq(KeyWords)
      BY DEF KeyWords, StandardTypes
    <3> DEFINE N == OwnNames(abi)
               W == Seq(KeyWords)
               w == <<"uint8">>
    <3>2. w \in W
      BY <3>1
    <3> HIDE DEF N, W, w
    <3>3. \A n \in N : [name |-> n, resolvedType |-> w] \in [name : N, resolvedType : W]
      BY <3>2
    <3>4. QED
      BY <2>6, <3>3 DEF N, W, w, CustomTypes, CustomType
  <2> HIDE DEF T
  <2>4. QED
    BY <2>1, <2>2, <2>3, WithCustomTypesType
<1>4. <<>> \in V
  BY EmptySeq
<1> HIDE DEF all, A, T
<1>5. \A v \in V : \A p \in A : WithCustomTypes(v, p) \in V
  BY <1>3
<1> HIDE DEF V
<1>6. \E g \in [0..Len(all) -> V] :
        /\ g[0] = <<>>
        /\ \A i \in 1..Len(all) : g[i] = WithCustomTypes(g[i - 1], all[i])
        /\ ExtractCustomTypesFromAbi(abi) = g[Len(all)]
  BY <1>1, <1>4, <1>5, CustomTypesFold DEF all
<1>7. Len(all) \in 0..Len(all)
  BY <1>1, LenProperties
<1>8. ExtractCustomTypesFromAbi(abi) \in V
  BY <1>6, <1>7
<1>9. QED
  BY <1>8 DEF V, T

-----------------------------------------------------------------------------
(* Names of generated types and functions.                                 *)

(* Sequences that are equal begin with the same.                           *)
LEMMA FirstAndRest ==
  ASSUME NEW T, NEW a \in T, NEW b \in T, NEW s \in Seq(T), NEW t \in Seq(T),
         <<a>> \o s = <<b>> \o t
  PROVE  a = b /\ s = t
<1> DEFINE u == <<a>> \o s
           v == <<b>> \o t
<1>1. <<a>> \in Seq(T) /\ <<b>> \in Seq(T) /\ Len(<<a>>) = 1 /\ Len(<<b>>) = 1
      /\ <<a>>[1] = a /\ <<b>>[1] = b
  OBVIOUS
<1>2. Len(s) \in Nat /\ Len(t) \in Nat
  BY LenProperties
<1>3. /\ Len(u) = 1 + Len(s)
      /\ \A i \in 1..(1 + Len(s)) : u[i] = IF i <= 1 THEN <<a>>[i] ELSE s[i - 1]
  BY <1>1, ConcatProperties
<1>4. /\ Len(v) = 1 + Len(t)
      /\ \A i \in 1..(1 + Len(t)) : v[i] = IF i <= 1 THEN <<b>>[i] ELSE t[i - 1]
  BY <1>1, ConcatProperties
<1>5. u = v
  OBVIOUS
<1> HIDE DEF u, v
<1>6. Len(s) = Len(t)
  BY <1>2, <1>3, <1>4, <1>5
<1>7. a = b
  <2>1. 1 \in 1..(1 + Len(s)) /\ 1 \in 1..(1 + Len(t)) /\ 1 <= 1
    BY <1>2
  <2>2. u[1] = a /\ v[1] = b
    BY <1>1, <1>3, <1>4, <2>1
  <2>3. QED
    BY <1>5, <2>2
<1>8. \A i \in 1..Len(s) : s[i] = t[i]
  <2>1. ASSUME NEW i \in 1..Len(s) PROVE s[i] = t[i]
    <3>1. i + 1 \in 1..(1 + Len(s)) /\ i + 1 \in 1..(1 + Len(t)) /\ ~(i + 1 <= 1) /\ (i + 1) - 1 = i
      BY <1>2, <1>6
    <3>2. u[i + 1] = s[i] /\ v[i + 1] = t[i]
      BY <1>3, <1>4, <3>1
    <3>3. QED
      BY <1>5, <3>2
  <2>2. QED
    BY <2>1
<1>9. s = t
  BY <1>6, <1>8, SeqEqual
<1>10. QED
  BY <1>7, <1>9

(* The arguments of an overload, from those of the components.             *)
ArgOf(p, s) ==
  IF p.components # <<>> THEN <<"(">> \o s \o <<")">> \o TupleBrackets(p) ELSE <<p.type>> \o p.array

(* InputToArg is what its definition says.                                 *)
LEMMA InputToArgIs == \A p \in Params : InputToArg[p] = ArgOf(p, Spread(p.components, InputToArg))
<1> DEFINE V == Seq(TypeWord)
           step == [pv \in Params \X Seq(V) |-> ArgOf(pv[1], Concat(pv[2]))]
           Flat(f) == [p \in Params |->
                         IF p.components # <<>>
                         THEN <<"(">> \o Concat([i \in DOMAIN p.components |-> f[p.components[i]]]) \o <<")">>
                              \o TupleBrackets(p)
                         ELSE <<p.type>> \o p.array]
           F == CHOOSE g : g = Flat(g)
<1>1. ASSUME NEW p \in Params, NEW s \in V PROVE ArgOf(p, s) \in V
  <2>1. /\ <<"(">> \in V /\ <<")">> \in V /\ p.array \in V /\ <<>> \in V
        /\ p.type # "tuple" => <<p.type>> \in V
    BY TypeWordTypes, EmptySeq
  <2>2. TupleBrackets(p) \in V
    BY <2>1 DEF TupleBrackets
  <2>3. p.components = <<>> => p.type # "tuple"
    BY ParamsAssumption
  <2>4. QED
    BY <2>1, <2>2, <2>3, ConcatProperties DEF ArgOf
<1>2. \A ss \in Seq(V) : Concat(ss) \in V
  BY ConcatType
<1>3. V # {}
  BY EmptySeq
<1>4. \A f : Flat(f) = [p \in Params |-> ArgOf(p, Spread(p.components, f))]
  BY DEF ArgOf, Spread, Mapped
<1>5. InputToArg = F
  BY DEF InputToArg
<1> HIDE DEF V, Flat
<1>6. /\ step \in [Params \X Seq(V) -> V]
      /\ \A p \in Params, ss \in Seq(V) : step[<<p, ss>>] = ArgOf(p, Concat(ss))
  BY <1>1, <1>2
<1> HIDE DEF step
<1>7. PICK f \in [Params -> V] : \A p \in Params : f[p] = step[<<p, Mapped(p.components, f)>>]
  BY <1>3, <1>6, ParamRecursion
<1>8. ASSUME NEW p \in Params PROVE f[p] = ArgOf(p, Spread(p.components, f))
  <2>1. p.components \in Seq(Params) /\ \A q \in Params : f[q] \in V
    BY ComponentsOf
  <2>2. Mapped(p.components, f) \in Seq(V)
    BY <2>1, MappedSequence
  <2>3. QED
    BY <1>6, <1>7, <2>2 DEF Spread
<1>9. f = Flat(f)
  BY <1>4, <1>8
<1>10. F = Flat(F)
  BY <1>9
<1> HIDE DEF F
<1>11. F = [p \in Params |-> ArgOf(p, Spread(p.components, F))]
  BY <1>4, <1>10
<1>12. \A p \in Params : F[p] = ArgOf(p, Spread(p.components, F))
  BY <1>11
<1>13. QED
  BY <1>5, <1>12

(* What is within a component is within the parameter.                     *)
LEMMA WithinComponents ==
  ASSUME NEW p \in Params, NEW i \in DOMAIN p.components
  PROVE  ToSet(ParamsWithin[p.components[i]]) \subseteq ToSet(ParamsWithin[p])
<1> DEFINE c == p.components
           V == Seq(Params)
           ss == Mapped(c, ParamsWithin)
<1>1. c \in Seq(Params) /\ \A q \in Params : ParamsWithin[q] \in V
  BY ComponentsOf, ParamsWithinAre DEF IsMap
<1>2. i \in DOMAIN ss /\ ss[i] = ParamsWithin[c[i]]
  BY DEF Mapped
<1>3. ParamsWithin[p] = <<p>> \o Concat(ss)
  BY ParamsWithinAre DEF Spread
<1> HIDE DEF c, V
<1>4. ss \in Seq(V)
  BY <1>1, MappedSequence
<1> HIDE DEF ss
<1>5. ToSet(ss[i]) \subseteq ToSet(Concat(ss)) /\ Concat(ss) \in Seq(Params)
  BY <1>2, <1>4, ConcatHasAll, ConcatType DEF V
<1>6. <<p>> \in Seq(Params)
  OBVIOUS
<1>7. ToSet(Concat(ss)) \subseteq ToSet(<<p>> \o Concat(ss))
  BY <1>5, <1>6, ConcatHas
<1>8. QED
  BY <1>2, <1>3, <1>5, <1>7 DEF c

(* All tuples within a parameter are written in full.                      *)
IsWritten(p) == \A q \in ToSet(ParamsWithin[p]) : q.type = "tuple" => q.array \in {<<>>, <<"[]">>}

(* Then it is written like the library does (inputToArgs).                 *)
LEMMA ArgIsType ==
  ASSUME NEW p \in Params, IsWritten(p)
  PROVE  InputToArg[p] = TypeWords[p]
<1> DEFINE H == {q \in Params : IsWritten(q) => InputToArg[q] = TypeWords[q]}
<1>1. ASSUME NEW q \in Params, \A i \in DOMAIN q.components : q.components[i] \in H, IsWritten(q)
      PROVE  InputToArg[q] = TypeWords[q]
  <2> DEFINE c == q.components
             s == Spread(c, TypeWords)
  <2>1. ASSUME NEW i \in DOMAIN c PROVE InputToArg[c[i]] = TypeWords[c[i]]
    <3>1. IsWritten(c[i])
      BY <1>1, WithinComponents DEF IsWritten
    <3>2. QED
      BY <1>1, <3>1
  <2>2. Spread(c, InputToArg) = s
    BY <2>1 DEF Spread, Mapped
  <2>3. InputToArg[q] = ArgOf(q, s)
    BY <2>2, InputToArgIs
  <2>4. TypeWords[q] = WordsOf(q, s)
    BY TypeWordsAre DEF IsWords
  <2>5. q.type = "tuple" => TupleBrackets(q) = q.array
    BY <1>1, ParamsWithinItself DEF IsWritten, TupleBrackets
  <2>6. (q.components # <<>>) = (q.type = "tuple") /\ ResolveBaseType(q.type) = q.type
    BY ParamsAssumption, TypeWordTypes
  <2> HIDE DEF s, c
  <2>7. QED
    BY <2>3, <2>4, <2>5, <2>6 DEF ArgOf, WordsOf
<1> HIDE DEF H
<1>2. \A q \in Params : (\A i \in DOMAIN q.components : q.components[i] \in H) => q \in H
  BY <1>1 DEF H
<1>3. Params \subseteq H
  BY <1>2, ParamInduction
<1>4. QED
  BY <1>3 DEF H

(* The words of a type without a tuple, as joinInputAbiName writes it.     *)
PlainParams == {p \in Params : p.type # "tuple"}
JoinedWord == STRING \cup {"_arr"}
JoinedBrackets(s) == [d \in DOMAIN s |-> IF s[d] = "[]" THEN "_arr" ELSE s[d]]
ArrayWords == [p \in PlainParams |-> <<p.type>> \o JoinedBrackets(p.array)]
WithBrackets == [w \in JoinedWord |-> IF w = "_arr" THEN <<"[]">> ELSE <<w>>]

(* From how joinInputAbiName writes brackets follows what they were.       *)
LEMMA BracketsAreKept ==
  ASSUME NEW s \in Seq(ArrayBrackets)
  PROVE  JoinedBrackets(s) \in Seq(JoinedWord) /\ Spread(JoinedBrackets(s), WithBrackets) = s
<1> DEFINE t == JoinedBrackets(s)
           r == [w \in ArrayBrackets |-> <<w>>]
<1>1. DOMAIN s = 1..Len(s) /\ Len(s) \in Nat /\ \A d \in DOMAIN s : s[d] \in ArrayBrackets
  BY LenProperties
<1>2. /\ DOMAIN t = DOMAIN s
      /\ t = [d \in DOMAIN s |-> t[d]]
      /\ \A d \in DOMAIN s : t[d] = IF s[d] = "[]" THEN "_arr" ELSE s[d]
  BY DEF JoinedBrackets
<1> HIDE DEF t
<1>3. \A w \in ArrayBrackets : w = "[]" \/ (w \in STRING /\ w # "_arr")
  BY SizesAssumption DEF ArrayBrackets
<1>4. \A d \in DOMAIN s : t[d] \in JoinedWord
  BY <1>1, <1>2, <1>3 DEF JoinedWord
<1>5. t \in Seq(JoinedWord)
  <2>1. t \in [1..Len(s) -> JoinedWord]
    BY <1>1, <1>2, <1>4
  <2>2. QED
    BY <1>1, <2>1, FunctionIsSequence
<1>6. IsMap(r, ArrayBrackets, ArrayBrackets) /\ \A w \in ArrayBrackets : r[w] = <<w>>
  <2>1. \A w \in ArrayBrackets : <<w>> \in Seq(ArrayBrackets)
    OBVIOUS
  <2>2. QED
    BY <2>1 DEF IsMap
<1> HIDE DEF r
<1>7. \A d \in DOMAIN s : WithBrackets[t[d]] = r[s[d]]
  <2>1. \A w \in JoinedWord : WithBrackets[w] = IF w = "_arr" THEN <<"[]">> ELSE <<w>>
    BY DEF WithBrackets
  <2>2. QED
    BY <1>1, <1>2, <1>3, <1>4, <1>6, <2>1
<1>8. Mapped(t, WithBrackets) = Mapped(s, r)
  BY <1>2, <1>7 DEF Mapped
<1>9. Spread(s, r) = s
  BY <1>6, SpreadKeeps
<1>10. QED
  BY <1>5, <1>8, <1>9 DEF Spread, t

(* From how joinInputAbiName writes plain types follows how they are       *)
(* formatted.                                                              *)
LEMMA ArraysHaveBrackets ==
  /\ IsMap(WithBrackets, JoinedWord, STRING)
  /\ IsMap(ArrayWords, PlainParams, JoinedWord)
  /\ \A p \in PlainParams : Spread(ArrayWords[p], WithBrackets) = TypeWords[p]
<1>1. "[]" \in STRING
  BY NamesAssumption DEF KeyWords, ArrayBrackets
<1>2. \A w \in JoinedWord : /\ WithBrackets[w] = IF w = "_arr" THEN <<"[]">> ELSE <<w>>
                            /\ WithBrackets[w] \in Seq(STRING)
  <2>1. \A w \in JoinedWord : WithBrackets[w] = IF w = "_arr" THEN <<"[]">> ELSE <<w>>
    BY DEF WithBrackets
  <2>2. \A w \in JoinedWord : w # "_arr" => w \in STRING
    BY DEF JoinedWord
  <2>3. \A w \in STRING : <<w>> \in Seq(STRING)
    <3> DEFINE S == STRING
    <3> HIDE DEF S
    <3>1. \A w \in S : <<w>> \in Seq(S)
      OBVIOUS
    <3>2. QED
      BY <3>1 DEF S
  <2>4. QED
    BY <1>1, <2>1, <2>2, <2>3
<1>3. IsMap(WithBrackets, JoinedWord, STRING)
  BY <1>2 DEF IsMap
<1>4. ASSUME NEW p \in PlainParams
      PROVE  /\ ArrayWords[p] \in Seq(JoinedWord)
             /\ Spread(ArrayWords[p], WithBrackets) = TypeWords[p]
  <2> DEFINE a == <<p.type>>
             b == JoinedBrackets(p.array)
  <2>1. /\ p \in Params /\ p.type # "tuple" /\ p.type \in STRING /\ p.type # "_arr"
        /\ p.array \in Seq(ArrayBrackets) /\ ResolveBaseType(p.type) = p.type
    BY ParamsAssumption, TypeWordTypes DEF PlainParams
  <2>2. ArrayWords[p] = a \o b
    BY DEF ArrayWords
  <2>3. TypeWords[p] = <<p.type>> \o p.array
    BY <2>1, TypeWordsAre DEF IsWords, WordsOf
  <2>4. p.type \in JoinedWord
    BY <2>1 DEF JoinedWord
  <2>5. a \in Seq(JoinedWord)
    BY <2>4
  <2>6. b \in Seq(JoinedWord) /\ Spread(b, WithBrackets) = p.array
    BY <2>1, BracketsAreKept
  <2>7. Spread(a, WithBrackets) = <<p.type>>
    <3>1. Spread(<<p.type>>, WithBrackets) = WithBrackets[p.type]
      BY <1>3, <2>4, SpreadOne
    <3>2. WithBrackets[p.type] = <<p.type>>
      BY <1>2, <2>1, <2>4
    <3>3. QED
      BY <3>1, <3>2
  <2> HIDE DEF a, b
  <2>8. a \o b \in Seq(JoinedWord)
    BY <2>5, <2>6, ConcatProperties
  <2>9. Spread(a \o b, WithBrackets) = Spread(a, WithBrackets) \o Spread(b, WithBrackets)
    <3>1. a \in Seq(JoinedWord) /\ b \in Seq(JoinedWord)
      BY <2>5, <2>6
    <3>2. QED
      BY <1>3, <3>1, SpreadConcat
  <2>10. QED
    BY <2>2, <2>3, <2>6, <2>7, <2>8, <2>9
<1>5. QED
  BY <1>3, <1>4 DEF IsMap

(* The name of the type of an overload, and what follows from it about its *)
(* signature.                                                              *)
LEMMA JoinedIs ==
  ASSUME NEW f, IsFragmentOf(f), HasNoTuple(f)
  PROVE  /\ JoinInputAbiName(f) = <<f.name>> \o Spread(f.inputs, ArrayWords)
         /\ Spread(f.inputs, ArrayWords) \in Seq(JoinedWord)
         /\ Spread(Spread(f.inputs, ArrayWords), WithBrackets) = Spread(f.inputs, TypeWords)
         /\ f.name \in JoinedWord
<1> DEFINE s == f.inputs
<1>1. s \in Seq(Params) /\ \A i \in DOMAIN s : s[i] \in PlainParams
  <2>1. s \in Seq(Params) /\ \A i \in DOMAIN s : s[i] \in ParamsIn(s)
    BY ParamsWithinFragment DEF IsFragmentOf
  <2>2. \A p \in ParamsIn(s) : p.type # "tuple" /\ p \in Params
    BY ParamsWithinFragment DEF HasNoTuple
  <2>3. QED
    BY <2>1, <2>2 DEF PlainParams
<1>2. JoinInputAbiName(f) = <<f.name>> \o Spread(s, ArrayWords)
  <2>1. JoinInputAbiName(f)
        = <<f.name>> \o Concat([i \in DOMAIN s |-> <<s[i].type>> \o JoinedBrackets(s[i].array)])
    BY DEF JoinInputAbiName, JoinedBrackets
  <2>2. \A i \in DOMAIN s : <<s[i].type>> \o JoinedBrackets(s[i].array) = ArrayWords[s[i]]
    BY <1>1 DEF ArrayWords
  <2>3. [i \in DOMAIN s |-> <<s[i].type>> \o JoinedBrackets(s[i].array)] = Mapped(s, ArrayWords)
    BY <2>2 DEF Mapped
  <2>4. QED
    BY <2>1, <2>3 DEF Spread
<1>3. f.name \in JoinedWord
  BY DEF IsFragmentOf, IsIdentifier, JoinedWord
<1> HIDE DEF s
<1>4. s \in Seq(PlainParams)
  BY <1>1, SequenceWithin
<1>5. IsMap(TypeWords, PlainParams, STRING)
  <2>1. \A p \in PlainParams : TypeWords[p] \in Seq(TypeWord)
    BY TypeWordsAre DEF IsMap, PlainParams
  <2>2. \A p \in PlainParams : TypeWords[p] \in Seq(STRING)
    BY <2>1, TypeWordTypes, SeqMonotonic
  <2>3. QED
    BY <2>2 DEF IsMap
<1>6. Spread(s, ArrayWords) \in Seq(JoinedWord)
  BY <1>4, ArraysHaveBrackets, SpreadType
<1>7. Spread(Spread(s, ArrayWords), WithBrackets) = Spread(s, TypeWords)
  BY <1>4, <1>5, ArraysHaveBrackets, SpreadTwice
<1>8. QED
  BY <1>2, <1>3, <1>6, <1>7 DEF s

(* Of two events or functions of one name the types are named apart, where *)
(* there is no tuple.                                                      *)
LEMMA TypesAreNamedApart ==
  ASSUME NEW fragments, AreFragments(fragments)
  PROVE  TypesAreDistinct(fragments)
<1>1. SUFFICES ASSUME NEW i \in DOMAIN fragments, NEW j \in DOMAIN fragments,
                      HasNoTuple(fragments[i]), HasNoTuple(fragments[j]), i # j,
                      TypeNames(fragments)[i] = TypeNames(fragments)[j]
               PROVE  FALSE
  BY DEF TypesAreDistinct
<1> DEFINE f == fragments[i]
           g == fragments[j]
           F == Spread(f.inputs, ArrayWords)
           G == Spread(g.inputs, ArrayWords)
<1>2. IsFragmentOf(f) /\ IsFragmentOf(g)
  BY FragmentsAre
<1>3. /\ JoinInputAbiName(f) = <<f.name>> \o F /\ F \in Seq(JoinedWord) /\ f.name \in JoinedWord
      /\ JoinInputAbiName(g) = <<g.name>> \o G /\ G \in Seq(JoinedWord) /\ g.name \in JoinedWord
  BY <1>1, <1>2, JoinedIs
<1>4. <<f.name>> = <<f.name>> \o <<>> /\ <<g.name>> = <<g.name>> \o <<>> /\ <<>> \in Seq(JoinedWord)
  BY <1>3, ConcatEmptySeq, EmptySeq
<1>5. /\ TypeNames(fragments)[i] = IF IsDuplicate(f, fragments) THEN JoinInputAbiName(f) ELSE <<f.name>>
      /\ TypeNames(fragments)[j] = IF IsDuplicate(g, fragments) THEN JoinInputAbiName(g) ELSE <<g.name>>
  BY DEF TypeNames
<1> DEFINE A == IF IsDuplicate(f, fragments) THEN F ELSE <<>>
           B == IF IsDuplicate(g, fragments) THEN G ELSE <<>>
<1>6. A \in Seq(JoinedWord) /\ B \in Seq(JoinedWord) /\ <<f.name>> \o A = <<g.name>> \o B
  BY <1>1, <1>3, <1>4, <1>5
<1>7. f.name = g.name /\ A = B
  <2> DEFINE a == f.name
             b == g.name
  <2>1. a \in JoinedWord /\ b \in JoinedWord
    BY <1>3
  <2> HIDE DEF a, b, A, B
  <2>2. a = b /\ A = B
    BY <1>6, <2>1, FirstAndRest DEF a, b
  <2>3. QED
    BY <2>2 DEF a, b
<1>8. IsDuplicate(f, fragments) /\ IsDuplicate(g, fragments)
  <2> DEFINE S == {k \in DOMAIN fragments : fragments[k].name = f.name}
  <2>1. DOMAIN fragments = 1..Len(fragments) /\ Len(fragments) \in Nat
    BY FragmentsAre, LenProperties
  <2>2. IsFiniteSet(S) /\ {i, j} \subseteq S
    <3>1. {i, j} \subseteq S /\ S \subseteq 1..Len(fragments)
      BY <1>7, <2>1
    <3> HIDE DEF S
    <3>2. IsFiniteSet(1..Len(fragments))
      BY <2>1, FS_Interval
    <3>3. QED
      BY <3>1, <3>2, FS_Subset
  <2> HIDE DEF S
  <2>3. Cardinality({i, j}) = 2 /\ Cardinality({i, j}) <= Cardinality(S) /\ Cardinality(S) \in Nat
    <3>1. IsFiniteSet({i}) /\ Cardinality({i}) = 1
      BY FS_Singleton
    <3>2. j \notin {i} /\ {i, j} = {i} \cup {j}
      BY <1>1
    <3>3. Cardinality({i} \cup {j}) = Cardinality({i}) + 1
      BY <3>1, <3>2, FS_AddElement
    <3>4. Cardinality({i, j}) = 2
      BY <3>1, <3>2, <3>3
    <3>5. Cardinality({i, j}) <= Cardinality(S)
      BY <2>2, FS_Subset
    <3>6. QED
      BY <2>2, <3>4, <3>5, FS_CardinalityType
  <2>4. Cardinality(S) > 1
    BY <2>3
  <2>5. QED
    BY <1>7, <2>4 DEF IsDuplicate, S
<1>9. F = G
  BY <1>7, <1>8
<1>10. Spread(f.inputs, TypeWords) = Spread(g.inputs, TypeWords)
  <2>1. /\ Spread(F, WithBrackets) = Spread(f.inputs, TypeWords)
        /\ Spread(G, WithBrackets) = Spread(g.inputs, TypeWords)
    BY <1>1, <1>2, JoinedIs
  <2>2. QED
    BY <1>9, <2>1
<1>11. Format(f) = Format(g)
  BY <1>2, <1>7, <1>10, FormatIs
<1>12. QED
  BY <1>1, <1>11, FragmentsAre

(* An overloaded function is looked up by its signature, if its tuples are *)
(* written in full.                                                        *)
LEMMA OverloadsAreSignatures ==
  ASSUME NEW functions, AreFragments(functions), NEW k \in DOMAIN functions,
         IsDuplicate(functions[k], functions), TuplesAreWritten(functions[k])
  PROVE  FunctionNames(functions)[k] = Format(functions[k])
<1> DEFINE f == functions[k]
           s == Spread(f.inputs, TypeWords)
<1>1. IsFragmentOf(f)
  BY FragmentsAre
<1>2. Format(f) = <<f.name, "(">> \o s \o <<")">> /\ s \in Seq(TypeWord) /\ f.name \in STRING
  BY <1>1, FormatIs
<1>3. FunctionNames(functions)[k] = <<f.name>> \o (<<"(">> \o s \o <<")">>)
  <2>1. ASSUME NEW i \in DOMAIN f.inputs PROVE InputToArg[f.inputs[i]] = TypeWords[f.inputs[i]]
    <3>1. f.inputs[i] \in Params
      BY <1>1, ParamsWithinFragment
    <3>2. ToSet(ParamsWithin[f.inputs[i]]) \subseteq ParamsIn(f.inputs)
      BY DEF ParamsIn
    <3>3. IsWritten(f.inputs[i])
      BY <3>2 DEF IsWritten, TuplesAreWritten
    <3>4. QED
      BY <3>1, <3>3, ArgIsType
  <2>2. InputsToArgs(f.inputs) = <<"(">> \o s \o <<")">>
    BY <2>1 DEF InputsToArgs, Spread, Mapped
  <2>3. QED
    BY <2>2 DEF FunctionNames
<1> DEFINE W == STRING
           a == <<f.name>>
           b == <<"(">>
           c == <<")">>
<1>4. a \in Seq(W) /\ b \in Seq(W) /\ c \in Seq(W) /\ s \in Seq(W) /\ <<f.name, "(">> = a \o b
  <2>1. "(" \in STRING /\ ")" \in STRING
    BY TypeWordTypes
  <2>2. s \in Seq(W)
    BY <1>2, TypeWordTypes, SeqMonotonic
  <2> DEFINE n == f.name
  <2>3. n \in W
    BY <1>2
  <2> HIDE DEF W, n
  <2>4. <<n>> \in Seq(W)
    BY <2>3
  <2>5. "(" \in W /\ ")" \in W
    BY <2>1 DEF W
  <2>6. b \in Seq(W) /\ c \in Seq(W)
    BY <2>5
  <2>7. <<n, "(">> = <<n>> \o b
    OBVIOUS
  <2>8. QED
    BY <2>2, <2>4, <2>6, <2>7 DEF n
<1>5. Format(f) = ((a \o b) \o s) \o c
  BY <1>2, <1>4
<1>6. FunctionNames(functions)[k] = a \o ((b \o s) \o c)
  BY <1>3
<1> HIDE DEF W, a, b, c, s
<1>7. (a \o b) \o s = a \o (b \o s)
  <2>1. AreSequences(W, a, b, s)
    BY <1>4 DEF AreSequences
  <2>2. QED
    BY <2>1, Regrouped
<1> DEFINE d == b \o s
<1>8. (a \o d) \o c = a \o (d \o c)
  <2>1. d \in Seq(W)
    BY <1>4, ConcatProperties
  <2> HIDE DEF d
  <2>2. AreSequences(W, a, d, c)
    BY <1>4, <2>1 DEF AreSequences
  <2>3. QED
    BY <2>2, Regrouped
<1>9. QED
  BY <1>7, <1>8, <1>5, <1>6

-----------------------------------------------------------------------------
(* Filters, before and after the resolution.                               *)

(* The filters of a handler after the resolution are the ones before it,   *)
(* some resolved.                                                          *)
LEMMA ResolvedFilters ==
  ASSUME NEW h, IsHandler(h), HasFilters(h), NEW types,
         NEW filter \in Filters(ResolvedHandler(h, types))
  PROVE  \E w \in Filters(h) : IsFilter(w) /\ (filter = w \/ filter = Resolved(w, types))
<1> DEFINE e == ProcessEventHandlerFilters(h, types)
           r == ResolvedHandler(h, types)
<1>1. /\ IsHandler(e) /\ e.kind = h.kind
      /\ h.filter = None => e.filter = None
      /\ h.filter # None => DOMAIN e.filter = DOMAIN h.filter
  BY EventFiltersKeep
<1>2. r = ProcessTransactionHandlerFilters(e, types)
  BY DEF ResolvedHandler
<1>3. /\ r.kind = h.kind
      /\ h.filter = None => r.filter = None
      /\ h.filter # None /\ r.filter # None => DOMAIN r.filter = DOMAIN h.filter
  BY HandlerIsKept
<1> HIDE DEF e, r
<1>4. \/ h.kind = "Event" /\ HasFilter(r, "topics") /\ filter \in ToSet(r.filter.topics)
      \/ h.kind = "Call" /\ HasFilter(r, "function") /\ filter = r.filter.function
  BY <1>3 DEF Filters, r
<1>5. CASE h.kind = "Event" /\ HasFilter(r, "topics") /\ filter \in ToSet(r.filter.topics)
  <2>1. HasFilter(h, "topics")
    BY <1>3, <1>5 DEF HasFilter
  <2>2. r = e
    BY <1>1, <1>2, <1>5 DEF ProcessTransactionHandlerFilters
  <2> DEFINE t == h.filter.topics
  <2>3. Filters(h) = ToSet(t)
    BY <1>5, <2>1 DEF Filters
  <2>4. \A i \in DOMAIN t : IsFilter(t[i])
    BY <2>1 DEF HasFilters
  <2>5. CASE t = <<>>
    <3>1. r = h
      BY <1>5, <2>2, <2>5 DEF e, ProcessEventHandlerFilters
    <3>2. QED
      BY <1>5, <2>3, <2>4, <3>1 DEF ToSet
  <2>6. CASE t # <<>>
    <3> DEFINE u == [t EXCEPT ![1] = Resolved(@, types)]
               g == [h.filter EXCEPT !.topics = u]
    <3>1. e = [h EXCEPT !.filter = g]
      BY <1>5, <2>1, <2>6 DEF e, ProcessEventHandlerFilters
    <3>2. g.topics = u
      BY <2>1 DEF HasFilter
    <3> HIDE DEF g
    <3>3. e.filter = g
      BY <3>1 DEF IsHandler
    <3>4. DOMAIN u = DOMAIN t /\ \A i \in DOMAIN t : u[i] = t[i] \/ u[i] = Resolved(t[i], types)
      OBVIOUS
    <3> HIDE DEF u, t
    <3>5. PICK i \in DOMAIN t : filter = u[i]
      BY <1>5, <2>2, <3>2, <3>3, <3>4 DEF ToSet
    <3>6. t[i] \in Filters(h)
      BY <2>3 DEF ToSet
    <3>7. QED
      BY <2>4, <3>4, <3>5, <3>6
  <2>7. QED
    BY <2>5, <2>6
<1>6. CASE h.kind = "Call" /\ HasFilter(r, "function") /\ filter = r.filter.function
  <2>1. HasFilter(h, "function")
    BY <1>3, <1>6 DEF HasFilter
  <2>2. e = h
    BY <1>6 DEF e, ProcessEventHandlerFilters
  <2> DEFINE w == h.filter.function
             g == [h.filter EXCEPT !.function = Resolved(w, types)]
  <2>3. Filters(h) = {w} /\ IsFilter(w)
    BY <1>6, <2>1 DEF Filters, HasFilters
  <2>4. r = [h EXCEPT !.filter = g]
    BY <1>2, <1>6, <2>1, <2>2 DEF ProcessTransactionHandlerFilters
  <2>5. g.function = Resolved(w, types)
    BY <2>1 DEF HasFilter
  <2> HIDE DEF g
  <2>6. r.filter = g
    BY <2>4 DEF IsHandler
  <2>7. QED
    BY <1>6, <2>3, <2>5, <2>6
<1>7. QED
  BY <1>4, <1>5, <1>6

(* A signature among the filters of a handler that code generation         *)
(* accepted is one of the ABI.                                             *)
LEMMA AcceptedFilters ==
  ASSUME NEW h, NEW abi, HandlerFitsAbi(h, abi), NEW w \in Filters(h), w.is = "signature"
  PROVE  FormatString(w.words) \in Formats(abi.events) \cup Formats(abi.functions)
<1>1. \/ h.kind = "Event" /\ HasFilter(h, "topics") /\ w \in ToSet(h.filter.topics)
      \/ h.kind = "Call" /\ HasFilter(h, "function") /\ w = h.filter.function
  BY DEF Filters
<1>2. CASE h.kind = "Event" /\ HasFilter(h, "topics") /\ w \in ToSet(h.filter.topics)
  <2>1. PICK i \in DOMAIN h.filter.topics : w = h.filter.topics[i]
    BY <1>2 DEF ToSet
  <2>2. IsFragment(w, abi.events)
    BY <1>2, <2>1 DEF HandlerFitsAbi
  <2>3. QED
    BY <2>2 DEF IsFragment
<1>3. CASE h.kind = "Call" /\ HasFilter(h, "function") /\ w = h.filter.function
  BY <1>3 DEF HandlerFitsAbi, FunctionFits, IsFragment
<1>4. QED
  BY <1>1, <1>2, <1>3

(* Without internalType the extraction finds nothing.                      *)
LEMMA NothingExtracted ==
  ASSUME NEW abi, IsAbi(abi), ~KeepsInternalType
  PROVE  ExtractCustomTypesFromAbi(abi) \in Seq({})
<1> DEFINE all == AbiParams(abi)
           A == AllParams(abi)
           T == {}
           V == Seq(T)
<1>1. all \in Seq(A) /\ A \subseteq Params
  BY ParamsOfAbi DEF AbiParams
<1>2. ASSUME NEW p \in A, NEW types \in V PROVE WithCustomTypes(types, p) \in V
  <2>1. InternalType(p) = None
    BY DEF InternalType
  <2> HIDE DEF T
  <2>2. QED
    BY <1>1, <2>1, WithCustomTypesType
<1>3. <<>> \in V
  BY EmptySeq
<1> HIDE DEF all, A, T
<1>4. \A v \in V : \A p \in A : WithCustomTypes(v, p) \in V
  BY <1>2
<1> HIDE DEF V
<1>5. \E g \in [0..Len(all) -> V] :
        /\ g[0] = <<>>
        /\ \A i \in 1..Len(all) : g[i] = WithCustomTypes(g[i - 1], all[i])
        /\ ExtractCustomTypesFromAbi(abi) = g[Len(all)]
  BY <1>1, <1>3, <1>4, CustomTypesFold DEF all
<1>6. Len(all) \in 0..Len(all)
  BY <1>1, LenProperties
<1>7. ExtractCustomTypesFromAbi(abi) \in V
  BY <1>5, <1>6
<1>8. QED
  BY <1>7 DEF V, T

(* The names that the node knows for a datasource are words of no type.    *)
LEMMA NodeKnows ==
  ASSUME NEW ds, NEW files, AreAbis(files), NEW abi, NamesAreApart(ds, files, abi)
  PROVE  \E X : /\ CustomTypesOf(ds, files) \in Seq(X)
                /\ \A x \in X : x.name \notin KeyWords /\ \A f \in Fragments(abi) : x.name # f.name
<1>1. CASE ds.abi = None \/ AbiPaths(ds, files) = {}
  <2>1. CustomTypesOf(ds, files) = <<>>
    BY <1>1 DEF CustomTypesOf
  <2> DEFINE X == {}
  <2>2. <<>> \in Seq(X)
    BY EmptySeq
  <2>3. \A x \in X : x.name \notin KeyWords /\ \A f \in Fragments(abi) : x.name # f.name
    OBVIOUS
  <2> HIDE DEF X
  <2>4. CustomTypesOf(ds, files) \in Seq(X)
    BY <2>1, <2>2
  <2>5. QED
    BY <2>3, <2>4
<1>2. CASE ~(ds.abi = None \/ AbiPaths(ds, files) = {})
  <2> DEFINE path == CHOOSE path \in AbiPaths(ds, files) : TRUE
             other == files[path]
             X == CustomTypes(other)
  <2>1. path \in AbiPaths(ds, files) /\ path \in DOMAIN files
    BY <1>2 DEF AbiPaths
  <2>2. CustomTypesOf(ds, files) = ExtractCustomTypesFromAbi(other)
    BY <1>2 DEF CustomTypesOf
  <2> HIDE DEF path
  <2>3. /\ IsAbi(other)
        /\ KeepsInternalType => \A f \in Fragments(abi), p \in CustomParams(other) : f.name # p.internal
    BY <2>1 DEF AreAbis, IsAbi, NamesAreApart
  <2> HIDE DEF other
  <2>4. CASE KeepsInternalType
    <3>1. CustomTypesOf(ds, files) \in Seq(X)
      BY <2>2, <2>3, CustomTypesType
    <3>2. \A x \in X : x.name \in OwnNames(other)
      BY DEF CustomTypes
    <3>3. \A n \in OwnNames(other) : n \notin KeyWords /\ \A f \in Fragments(abi) : n # f.name
      <4>1. ASSUME NEW p \in CustomParams(other)
            PROVE  p.internal \notin KeyWords /\ \A f \in Fragments(abi) : p.internal # f.name
        <5>1. p \in Params /\ HasOwnName(p)
          BY <2>3, ParamsOfAbi DEF CustomParams
        <5>2. QED
          BY <2>3, <2>4, <5>1, NamesAssumption DEF IsIdentifier
      <4>2. QED
        BY <4>1 DEF OwnNames
    <3> HIDE DEF X
    <3>4. QED
      BY <3>1, <3>2, <3>3
  <2>5. CASE ~KeepsInternalType
    <3> DEFINE Y == {}
    <3>1. \A x \in Y : x.name \notin KeyWords /\ \A f \in Fragments(abi) : x.name # f.name
      OBVIOUS
    <3>2. CustomTypesOf(ds, files) \in Seq(Y)
      BY <2>2, <2>3, <2>5, NothingExtracted
    <3> HIDE DEF Y
    <3>3. QED
      BY <3>1, <3>2
  <2>6. QED
    BY <2>4, <2>5
<1>3. QED
  BY <1>1, <1>2

(* The signatures of an ABI are those of its events and its functions.     *)
LEMMA FormatsOfAbi ==
  ASSUME NEW abi, IsAbi(abi), NEW word \in Formats(abi.events) \cup Formats(abi.functions)
  PROVE  /\ word \in Formats(abi.events \o abi.functions)
         /\ \E f \in Fragments(abi) : IsFragmentOf(f) /\ word = Format(f)
<1> DEFINE s == abi.events
           t == abi.functions
           u == s \o t
<1>1. IsSequence(s) /\ IsSequence(t)
  BY DEF IsAbi, AreFragments
<1>2. Fragments(abi) = ToSet(s) \cup ToSet(t)
  BY DEF Fragments
<1>3. /\ \A f \in ToSet(s) : IsFragmentOf(f)
      /\ \A f \in ToSet(t) : IsFragmentOf(f)
  BY FragmentsAre DEF IsAbi
<1>4. word \in Formats(s) \cup Formats(t)
  OBVIOUS
<1> HIDE DEF s, t
<1>5. /\ Len(s) \in Nat /\ DOMAIN s = 1..Len(s)
      /\ Len(t) \in Nat /\ DOMAIN t = 1..Len(t)
  BY <1>1, LengthOf
<1>6. /\ DOMAIN u = 1..(Len(s) + Len(t))
      /\ \A i \in 1..Len(s) : u[i] = s[i]
      /\ \A i \in (Len(s) + 1)..(Len(s) + Len(t)) :
           i - Len(s) \in 1..Len(t) /\ u[i] = t[i - Len(s)]
  BY <1>1, Joined
<1> HIDE DEF u
<1>7. CASE word \in Formats(s)
  <2>1. PICK i \in DOMAIN s : word = Format(s[i])
    BY <1>7 DEF Formats
  <2>2. i \in DOMAIN u /\ u[i] = s[i] /\ s[i] \in ToSet(s)
    BY <1>5, <1>6 DEF ToSet
  <2>3. word \in Formats(u)
    BY <2>1, <2>2 DEF Formats
  <2>4. QED
    BY <1>2, <1>3, <2>1, <2>2, <2>3 DEF s, t, u
<1>8. CASE word \in Formats(t)
  <2>1. PICK i \in DOMAIN t : word = Format(t[i])
    BY <1>8 DEF Formats
  <2>2. /\ Len(s) + i \in (Len(s) + 1)..(Len(s) + Len(t))
        /\ Len(s) + i \in DOMAIN u /\ (Len(s) + i) - Len(s) = i
    BY <1>5, <1>6
  <2>3. u[Len(s) + i] = t[i] /\ t[i] \in ToSet(t)
    BY <2>2, <1>6 DEF ToSet
  <2>4. word \in Formats(u)
    BY <2>1, <2>2, <2>3 DEF Formats
  <2>5. QED
    BY <1>2, <1>3, <2>1, <2>3, <2>4 DEF s, t, u
<1>9. QED
  BY <1>4, <1>7, <1>8

(* The names that the node knows change no signature that is one of the    *)
(* ABI.                                                                    *)
LEMMA AcceptedFilterIsKept ==
  ASSUME NEW ds, NEW files, AreAbis(files), NEW abi, IsAbi(abi), NamesAreApart(ds, files, abi),
         NEW w, IsFilter(w), NEW filter,
         filter = w \/ filter = Resolved(w, CustomTypesOf(ds, files)), filter.is = "signature",
         w.is = "signature" =>
           FormatString(w.words) \in Formats(abi.events) \cup Formats(abi.functions)
  PROVE  FormatString(filter.words) \in Formats(abi.events \o abi.functions)
<1> DEFINE types == CustomTypesOf(ds, files)
           words == ResolveCustomTypesInSignature(w.words, types)
<1>1. w.words \in Seq(STRING)
  BY DEF IsFilter
<1>2. /\ filter.is = w.is
      /\ filter.words = w.words \/ filter.words = words
  <2>1. [w EXCEPT !.words = words] = [is |-> w.is, words |-> words]
    <3> HIDE DEF words
    <3>1. QED
      BY DEF IsFilter
  <2>2. Resolved(w, types) = w \/ Resolved(w, types) = [is |-> w.is, words |-> words]
    BY <2>1 DEF Resolved
  <2> HIDE DEF words, types
  <2>3. QED
    BY <2>2 DEF types
<1>3. w.is = "signature"
  BY <1>2
<1>4. FormatString(w.words) \in Formats(abi.events) \cup Formats(abi.functions)
  BY <1>3
<1>5. PICK f \in Fragments(abi) : IsFragmentOf(f) /\ FormatString(w.words) = Format(f)
  BY <1>4, FormatsOfAbi
<1>6. w.words \in Seq(KeyWords \cup {f.name})
  BY <1>1, <1>5, AcceptedWords
<1>7. PICK X : /\ types \in Seq(X)
               /\ \A x \in X : x.name \notin KeyWords /\ \A g \in Fragments(abi) : x.name # g.name
  BY NodeKnows
<1> HIDE DEF types
<1>8. \A x \in X : x.name \notin KeyWords \cup {f.name}
  BY <1>7
<1>9. words = w.words
  BY <1>6, <1>7, <1>8, WordsAreKept
<1>10. QED
  BY <1>2, <1>4, <1>9, FormatsOfAbi

(* What code generation accepted of a datasource fits its ABI, and still   *)
(* does when its filters are resolved.                                     *)
SourceFits(ds, abi, files) ==
  NamesAreApart(ds, files, abi) =>
    \A j \in DOMAIN ds.handlers : \A filter \in Filters(ds.handlers[j]) :
      filter.is = "signature" =>
        FormatString(filter.words) \in Formats(abi.events \o abi.functions)

(* The handlers of a datasource are resolved one by one.                   *)
LEMMA HandlersAreResolved ==
  ASSUME NEW ds, IsDataSource(ds), NEW files
  PROVE  LET r == ResolveTopicFilters(ds, files)
             types == CustomTypesOf(ds, files)
         IN /\ DOMAIN r.handlers = DOMAIN ds.handlers
            /\ \A j \in DOMAIN ds.handlers : r.handlers[j] = ResolvedHandler(ds.handlers[j], types)
<1> DEFINE types == CustomTypesOf(ds, files)
           r == ResolveTopicFilters(ds, files)
           handlers == [j \in DOMAIN ds.handlers |-> ResolvedHandler(ds.handlers[j], types)]
<1>1. r = [ds EXCEPT !.handlers = handlers]
  BY DEF ResolveTopicFilters, ResolvedHandler
<1>2. DOMAIN handlers = DOMAIN ds.handlers
      /\ \A j \in DOMAIN ds.handlers : handlers[j] = ResolvedHandler(ds.handlers[j], types)
  OBVIOUS
<1> HIDE DEF handlers, r
<1>3. r.handlers = handlers
  BY <1>1 DEF IsDataSource
<1>4. QED
  BY <1>2, <1>3 DEF r

LEMMA AcceptedSourceFits ==
  ASSUME NEW p \in Projects, ValidateAbi(AllSources(p), p.files),
         NEW i \in DOMAIN AllSources(p),
         NEW r, r = ResolveTopicFilters(AllSources(p)[i], p.files), r.abi # None
  PROVE  SourceFits(r, p.files[AssetPath(r, r.abi)], p.files)
<1> DEFINE ds == AllSources(p)[i]
           path == AssetPath(ds, ds.abi)
           abi == p.files[path]
           types == CustomTypesOf(ds, p.files)
<1>1. IsDataSource(ds)
  BY SourcesOfProject
<1>2. AreAbis(p.files) /\ \A j \in DOMAIN ds.handlers : HasFilters(ds.handlers[j])
  BY FiltersAssumption
<1>3. ds.abi # None =>
        path \in DOMAIN p.files /\ \A j \in DOMAIN ds.handlers : HandlerFitsAbi(ds.handlers[j], abi)
  BY DEF ValidateAbi
<1> HIDE DEF ds
<1>4. r = ResolveTopicFilters(ds, p.files)
  BY DEF ds
<1>5. r = [kind |-> ds.kind, processor |-> ds.processor, abi |-> ds.abi,
           address |-> ds.address, assets |-> ds.assets, handlers |-> r.handlers]
  BY <1>1, <1>4, DataSourceIsKept
<1>6. r.abi = ds.abi /\ r.assets = ds.assets
  BY <1>5
<1>7. /\ DOMAIN r.handlers = DOMAIN ds.handlers
      /\ \A j \in DOMAIN ds.handlers : r.handlers[j] = ResolvedHandler(ds.handlers[j], types)
  BY <1>1, <1>4, HandlersAreResolved
<1>8. AssetPath(r, r.abi) = path /\ AbiPaths(r, p.files) = AbiPaths(ds, p.files)
  BY <1>6 DEF AssetPath, AbiPaths
<1>9. path \in DOMAIN p.files /\ \A j \in DOMAIN ds.handlers : HandlerFitsAbi(ds.handlers[j], abi)
  BY <1>3, <1>6
<1> HIDE DEF path, types
<1>10. IsAbi(abi)
  BY <1>2, <1>9 DEF AreAbis, IsAbi
<1> HIDE DEF abi
<1>11. ASSUME NEW j \in DOMAIN r.handlers, NEW filter \in Filters(r.handlers[j]),
              filter.is = "signature", NamesAreApart(r, p.files, abi)
       PROVE  FormatString(filter.words) \in Formats(abi.events \o abi.functions)
  <2> DEFINE h == ds.handlers[j]
  <2>1. /\ j \in DOMAIN ds.handlers /\ filter \in Filters(ResolvedHandler(h, types))
    BY <1>7, <1>11
  <2>2. IsHandler(h) /\ HasFilters(h) /\ HandlerFitsAbi(h, abi)
    BY <1>1, <1>2, <1>9, <2>1 DEF IsDataSource
  <2> HIDE DEF h
  <2>3. PICK w \in Filters(h) : IsFilter(w) /\ (filter = w \/ filter = Resolved(w, types))
    BY <2>1, <2>2, ResolvedFilters
  <2>4. w.is = "signature" => FormatString(w.words) \in Formats(abi.events) \cup Formats(abi.functions)
    BY <2>2, AcceptedFilters
  <2>5. NamesAreApart(ds, p.files, abi)
    BY <1>8, <1>11 DEF NamesAreApart
  <2>6. filter = w \/ filter = Resolved(w, CustomTypesOf(ds, p.files))
    BY <2>3 DEF types
  <2>7. QED
    BY <1>2, <1>10, <1>11, <2>3, <2>4, <2>5, <2>6, AcceptedFilterIsKept
<1>12. SourceFits(r, abi, p.files)
  BY <1>11 DEF SourceFits
<1>13. QED
  BY <1>8, <1>12 DEF abi

(* What was generated, and not rejected, was validated.                    *)
AcceptedInv ==
  generatedFor \in Projects /\ generation # "rejected" =>
    ValidateAbi(AllSources(generatedFor), generatedFor.files)

LEMMA AcceptedInit == Init => AcceptedInv
  BY ProjectsAssumption DEF Init, AcceptedInv

LEMMA AcceptedStep == AcceptedInv /\ [Next]_vars => AcceptedInv'
<1> SUFFICES ASSUME AcceptedInv, [Next]_vars PROVE AcceptedInv'
  OBVIOUS
<1>1. CASE GenerateAbis
  <2>1. /\ generatedFor' = source
        /\ ValidateAbi(AllSources(source), source.files) \/ generation' = "rejected"
    BY <1>1 DEF GenerateAbis, Reject
  <2>2. QED
    BY <2>1 DEF AcceptedInv
<1>2. CASE Generate
  <2>1. generatedFor' = generatedFor
    BY <1>2 DEF Generate, fileVars
  <2>2. generation = "rejected" => generation' = "rejected"
    BY <1>2 DEF Generate, GStep, RunTypeChain, TypeChainFails, ListFactories, WriteIndexes,
                RenderInterfaces, WritingFails
  <2>3. QED
    BY <2>1, <2>2 DEF AcceptedInv
<1>3. CASE \/ EditProject \/ CreateSubQueryProject \/ InitApiService \/ RestoreDynamicDs
           \/ InitDictionary \/ InitDictionaries \/ CreateDynamicDs \/ Stop \/ UNCHANGED vars
  <2>1. generatedFor' = generatedFor /\ generation' = generation
    BY <1>3 DEF EditProject, CreateSubQueryProject, InitApiService, RestoreDynamicDs,
                InitDictionary, InitDictionaries, CreateDynamicDs, Stop, vars, fileVars, gvars
  <2>2. QED
    BY <2>1 DEF AcceptedInv
<1>4. QED
  BY <1>1, <1>2, <1>3 DEF Next

(* Whatever was edited since and however the node was started: if code     *)
(* generation accepted the project, every signature among the filters of   *)
(* its datasources and templates is one of their ABIs, also when the node  *)
(* has resolved it and whether or not the library keeps internalType       *)
(* (validateAbi, resolveTopicFiltersInProject).                            *)
THEOREM AcceptedCorrect == Spec => []AcceptedFiltersFit
<1>1. IndexInv /\ AcceptedInv => AcceptedFiltersFit
  <2> SUFFICES ASSUME IndexInv, AcceptedInv, generatedFor = loadedFrom, generation # "rejected",
                      NEW r \in ToSet(project.dataSources) \cup ToSet(project.templates), r.abi # None
               PROVE  SourceFits(r, loadedFrom.files[AssetPath(r, r.abi)], loadedFrom.files)
    BY DEF AcceptedFiltersFit, SourceFits
  <2>1. HasLoaded
    <3>1. ASSUME project = NoProject PROVE FALSE
      BY <3>1 DEF NoProject, ToSet
    <3>2. QED
      BY <3>1 DEF IndexInv
  <2> DEFINE p == loadedFrom
  <2>2. p \in Projects /\ ValidateAbi(AllSources(p), p.files)
    BY <2>1 DEF HasLoaded, AcceptedInv
  <2>3. /\ project.dataSources =
             [k \in DOMAIN p.dataSources |-> ResolveTopicFilters(p.dataSources[k], p.files)]
        /\ project.templates =
             [k \in DOMAIN p.templates |-> ResolveTopicFilters(p.templates[k], p.files)]
    BY <2>1 DEF HasLoaded, ResolvedProject, ResolveTopicFiltersInProject
  <2>4. PICK i \in DOMAIN AllSources(p) : r = ResolveTopicFilters(AllSources(p)[i], p.files)
    <3>1. CASE r \in ToSet(project.dataSources)
      <4>1. PICK k \in DOMAIN p.dataSources : r = ResolveTopicFilters(p.dataSources[k], p.files)
        BY <2>3, <3>1 DEF ToSet
      <4>2. k \in DOMAIN AllSources(p) /\ AllSources(p)[k] = p.dataSources[k]
        BY <2>2, SourcesOfProject
      <4>3. QED
        BY <4>1, <4>2
    <3>2. CASE r \in ToSet(project.templates)
      <4>1. PICK k \in DOMAIN p.templates : r = ResolveTopicFilters(p.templates[k], p.files)
        BY <2>3, <3>2 DEF ToSet
      <4>2. /\ Len(p.dataSources) + k \in DOMAIN AllSources(p)
            /\ AllSources(p)[Len(p.dataSources) + k] = p.templates[k]
        BY <2>2, SourcesOfProject
      <4>3. QED
        BY <4>1, <4>2
    <3>3. QED
      BY <3>1, <3>2
  <2>5. QED
    BY <2>2, <2>4, AcceptedSourceFits
<1>2. QED
  BY <1>1, IndexInit, IndexStep, AcceptedInit, AcceptedStep, PTL DEF Spec

(* What was generated was a project.                                       *)
GeneratedInv == SourceOK /\ generatedFor \in Projects \cup {None}

LEMMA GeneratedStep == GeneratedInv /\ [Next]_vars => GeneratedInv'
  BY DEF GeneratedInv, SourceOK, Next, vars, fileVars, EditProject, GenerateAbis, Generate,
         CreateSubQueryProject, InitApiService, RestoreDynamicDs, InitDictionary, InitDictionaries,
         CreateDynamicDs, Stop

(* Whatever was generated, in any order of the runs of TypeChain and of    *)
(* failures: in each interface the overloads without tuples get types of   *)
(* their own, and an overload whose tuples are at most in one array of any *)
(* length, nested or not, is looked up by its canonical signature          *)
(* (prepareAbiJob, joinInputAbiName, inputsToArgs).                        *)
THEOREM OverloadsCorrect == Spec => []OverloadsAreApart
<1>1. GeneratedInv => OverloadsAreApart
  <2> SUFFICES ASSUME GeneratedInv, generatedFor # None, NEW name \in DOMAIN interfaces,
                      interfaces[name] \in DOMAIN generatedFor.files
               PROVE  LET abi == generatedFor.files[interfaces[name]] IN
                      /\ TypesAreDistinct(abi.events) /\ TypesAreDistinct(abi.functions)
                      /\ \A k \in DOMAIN abi.functions :
                           /\ IsDuplicate(abi.functions[k], abi.functions)
                           /\ TuplesAreWritten(abi.functions[k])
                           => FunctionNames(abi.functions)[k] = Format(abi.functions[k])
    BY DEF OverloadsAreApart
  <2> DEFINE abi == generatedFor.files[interfaces[name]]
  <2>1. AreAbis(generatedFor.files)
    BY FiltersAssumption DEF GeneratedInv
  <2>2. AreFragments(abi.events) /\ AreFragments(abi.functions)
    BY <2>1 DEF AreAbis
  <2> HIDE DEF abi
  <2>3. QED
    BY <2>2, TypesAreNamedApart, OverloadsAreSignatures DEF abi
<1>2. Init => GeneratedInv
  BY DEF Init, GeneratedInv, SourceOK
<1>3. QED
  BY <1>1, <1>2, GeneratedStep, PTL DEF Spec
=============================================================================
