---------------------------- MODULE MCProjectStart ----------------------------
(***************************************************************************)
(* Small projects for ProjectStart.  The ABI of a market has an enum, a    *)
(* struct that holds another enum, arrays of both and overloaded events;   *)
(* that of a token has no types of its own, and lies in two files of the   *)
(* same name, which differ.                                                *)
(***************************************************************************)
EXTENDS ProjectStart

Value(type)       == Param(type, None, <<>>)
Enum(name)        == Param("uint8", name, <<>>)
ArrayOf(p)        == [p EXCEPT !.array = Append(@, "[]")]
PairOf(p)         == [p EXCEPT !.array = Append(@, "[2]")]
Event(name, inputs) == [name |-> name, inputs |-> inputs]

Order == Param("tuple", "Order", <<Value("address"), Enum("Side")>>)

MarketAbi ==
  [events |-> <<Event("Opened", <<Enum("Kind"), Enum("Kind")>>),
                Event("Placed", <<Order, ArrayOf(Enum("Side"))>>),
                Event("Moved", <<Value("uint256")>>),
                Event("Moved", <<ArrayOf(Value("uint256"))>>)>>,
   functions |-> <<Event("fill", <<Order, Value("uint256")>>),
                   Event("fill", <<ArrayOf(Order)>>)>>]

(* One with the name of its own type.                                      *)
Amount == Param("uint256", "uint256", <<>>)

TokenAbi ==
  [events |-> <<Event("Transfer", <<Value("address"), Amount>>)>>,
   functions |-> <<Event("transfer", <<Value("address"), Value("uint256")>>)>>]

OldTokenAbi ==
  [events |-> <<Event("Transfer", <<Value("address")>>)>>,
   functions |-> <<Event("Side", <<Value("address")>>)>>]

(* A struct in a struct, and arrays of arrays and of fixed sizes.          *)
Outer == Param("tuple", "Outer", <<ArrayOf(Order)>>)
NestedAbi ==
  [events |-> <<Event("Nested", <<Outer>>)>>,
   functions |-> <<Event("settle", <<Outer>>), Event("settle", <<PairOf(Outer)>>),
                   Event("settle", <<ArrayOf(ArrayOf(Outer))>>),
                   Event("settle", <<PairOf(ArrayOf(Value("uint256")))>>),
                   Event("settle", <<ArrayOf(PairOf(Value("uint256")))>>)>>]

Path(dir, name) == [dir |-> dir, file |-> name \o ".json", name |-> name]
Market == Path("abis", "market")
Token == Path("abis", "token")
OldToken == Path("old", "token")
Nested == Path("abis", "nested")
Files == (Market :> MarketAbi) @@ (Token :> TokenAbi) @@ (OldToken :> OldTokenAbi)
         @@ (Nested :> NestedAbi)
Asset(path) == [name |-> path.file, path |-> path]

-----------------------------------------------------------------------------
Is(form, words) == [is |-> form, words |-> words]
Sig(words) == Is("signature", words)
Topics(topics) == [kind |-> "Event", filter |-> [topics |-> topics]]
Function(filter) == [kind |-> "Call", filter |-> [function |-> filter]]
Block == [kind |-> "Block", filter |-> None]
Unfiltered == [kind |-> "Event", filter |-> None]

InSolidity(fragment) == Sig(WithSolidityNames(fragment))
Canonical(fragment)  == Sig(Format(fragment))
WithAliases(fragment) == Sig([i \in DOMAIN Format(fragment) |->
                            IF Format(fragment)[i] = "uint256" THEN "uint" ELSE Format(fragment)[i]])

Runtime(abi, assets, address, handlers) ==
  [kind |-> "ethereum/Runtime", processor |-> FALSE, abi |-> abi, address |-> address,
   assets |-> assets, handlers |-> handlers]
Custom(processor) ==
  [kind |-> "substrate/FrontierEvm", processor |-> processor, abi |-> None, address |-> None,
   assets |-> <<Asset(OldToken)>>, handlers |-> <<[kind |-> "Custom", filter |-> None]>>]

Address(form) == [form |-> form, contract |-> "c"]

Project(dataSources, templates) ==
  [specVersion |-> "1.0.0", runner |-> "@subql/node-ethereum", chainId |-> "1284",
   genesisHash |-> None, dataSources |-> dataSources, templates |-> templates, files |-> Files]

OfMarket(handlers) == Runtime("market.json", <<Asset(Market)>>, None, handlers)
OfToken(address, handlers) == Runtime("token.json", <<Asset(Token)>>, address, handlers)

(* Filters in the words of the contract, in a datasource and a template.   *)
SolidityProject ==
  Project(<<OfMarket(<<Topics(<<InSolidity(MarketAbi.events[1])>>),
                       Function(InSolidity(MarketAbi.functions[1]))>>)>>,
          <<OfMarket(<<Topics(<<InSolidity(MarketAbi.events[2])>>), Block>>)>>)

(* Canonical filters, two ABIs with files of one name, overloads.          *)
CanonicalProject ==
  Project(<<OfMarket(<<Topics(<<Canonical(MarketAbi.events[1]), Is("null", <<>>), Is("!null", <<>>)>>),
                       Topics(<<WithAliases(MarketAbi.events[4])>>),
                       Function(Canonical(MarketAbi.functions[1]))>>),
            Custom(TRUE)>>,
          <<OfToken(Address("0x"), <<Function(WithAliases(TokenAbi.functions[1])), Unfiltered>>)>>)

(* Another chain, given as in older manifests; no code to generate.        *)
OldProject ==
  [Project(<<Runtime(None, <<>>, Address("0x"), <<Block>>)>>, <<>>)
   EXCEPT !.chainId = None, !.genesisHash = "1"]

(* The second topic is of another ABI.                                     *)
MixedProject ==
  Project(<<OfToken(Address("0x"),
                    <<Topics(<<Canonical(TokenAbi.events[1]), Canonical(OldTokenAbi.events[1])>>)>>)>>,
          <<>>)

(* The asset that code generation reads is not the file that the node      *)
(* reads, where the name of its function is that of an enum.               *)
DivergingProject ==
  Project(<<Runtime("market.json", <<[name |-> "market.json", path |-> OldToken]>>, None,
                    <<Function(Canonical(OldTokenAbi.functions[1]))>>)>>, <<>>)

(* What validation refuses, each for its own reason.                       *)
Refused ==
  {Project(<<ds>>, <<>>) :
     ds \in {OfToken(Address("bad"), <<Block>>), Custom(FALSE),
             Runtime(None, <<>>, None, <<[kind |-> "Log", filter |-> None]>>),
             Runtime(None, <<>>, None, <<[kind |-> "Event", filter |-> [topic |-> Is("null", <<>>)]]>>)}}
  \cup {[OldProject EXCEPT !.runner = "@subql/node"], [OldProject EXCEPT !.specVersion = "0.2.0"],
        [OldProject EXCEPT !.genesisHash = None]}

NestedProjects ==
  {Project(<<Runtime("nested.json", <<Asset(Nested)>>, None,
                     <<Topics(<<Canonical(NestedAbi.events[1])>>),
                       Function(Canonical(NestedAbi.functions[2]))>>)>>, <<>>)}

AllProjects ==
  {SolidityProject, CanonicalProject, OldProject, MixedProject, DivergingProject} \cup NestedProjects \cup Refused

(* Projects for the statements of the documentation.                       *)
ZilliqaProjects == {Project(<<OfToken(Address("zil1"), <<Unfiltered>>)>>, <<>>)}
AddressTopicProjects ==
  {Project(<<OfToken(None, <<Topics(<<Canonical(TokenAbi.events[1]), Is("hash", <<"c">>)>>)>>)>>, <<>>)}

-----------------------------------------------------------------------------
(* A struct of these ABIs holds plain values, or a struct that does.       *)
WithComponents(inputs) == inputs \cup UNION {ToSet(p.components) : p \in inputs}
MCParams ==
  WithComponents(WithComponents(
    UNION {ToSet(f.inputs) : f \in UNION {Fragments(Files[path]) : path \in DOMAIN Files}}))

MCNesting ==
  LET depth[p \in MCParams] == CHOOSE d \in 0..2 : \A i \in DOMAIN p.components : depth[p.components[i]] < d
  IN depth

MCAbiNames == {"market", "token", "nested"}
MCAbiFiles == DOMAIN Files
MCEndpoints == <<"first", "second", "third", "fourth">>
MCSpeaks == [first |-> {"v1"}, second |-> {"v2"}, third |-> {}, fourth |-> {"v1", "v2"}]
MCChainAliases == [c \in {"1284"} |-> "moonbeam"]
MCArguments == {Address("0x"), Address("bad")}
=============================================================================
