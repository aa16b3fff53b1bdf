---------------------------- MODULE AbiSignatures -----------------------------
(***************************************************************************)
(* Signatures of events and functions, and the names of structs and enums  *)
(* that a project may write in them (utils/string.ts of the node).         *)
(*                                                                         *)
(* A signature is the sequence of its words, for that is what a custom     *)
(* name is replaced by: <<"Opened", "(", "Kind", "[]", ")">>.  Commas, the *)
(* names of parameters and `indexed` carry nothing and are left out.  A    *)
(* parameter of an ABI has a type, the brackets of an array of it,         *)
(* components when it is a tuple, and the Solidity name of its type: what  *)
(* internalType holds once its prefixes are removed, None when there is    *)
(* none.                                                                   *)
(***************************************************************************)
EXTENDS Naturals, SequencesExt

CONSTANTS None, Invalid

CONSTANTS
  Params,     \* the parameters of the ABIs there are, those inside of tuples included
  Nesting,    \* how deep their tuples go
  FixedSizes  \* the brackets of arrays of a fixed size, like "[2]"

ArrayBrackets == {"[]"} \cup FixedSizes
ASSUME SizesAssumption == FixedSizes \subseteq STRING \ {"[]", "(", ")", "tuple", "uint", "_arr"}

(* What an ABI holds: canonical types, never the alias; components, where  *)
(* there is a tuple and only there, and only so deep.                      *)
ASSUME ParamsAssumption ==
  \A p \in Params :
    /\ p.type \in STRING \ ({"uint", "(", ")", "_arr"} \cup ArrayBrackets)
    /\ p.array \in Seq(ArrayBrackets)
    /\ p.components \in Seq(Params)
    /\ p.type = "tuple" <=> p.components # <<>>
    /\ Nesting[p] \in Nat
    /\ \A i \in DOMAIN p.components : Nesting[p.components[i]] < Nesting[p]

(* Whether the `Interface` of the library keeps internalType: that of      *)
(* ethers 5.7 drops it, the extraction is written for one that does not.   *)
CONSTANT KeepsInternalType

Param(type, internal, components) ==
  [type |-> type, array |-> <<>>, internal |-> internal, components |-> components]

Concat(seqs) == FlattenSeq(seqs)

(* The alias that resolveBaseType and the parser of the library replace.   *)
ResolveBaseType(type) == IF type = "uint" THEN "uint256" ELSE type

StandardTypes == {"address", "bool", "bytes32", "uint", "uint8", "uint256"}
IsStandardSolidityType(name) == name \in StandardTypes

(* A contract gives names of its own, to structs and enums, events and     *)
(* functions; none is a word of a type.  A type without such a name has    *)
(* none, or is its own.                                                    *)
KeyWords == StandardTypes \cup {"(", ")", "tuple"} \cup ArrayBrackets \cup {p.type : p \in Params}
IsIdentifier(name) == name \in STRING \ KeyWords
HasOwnName(p) == p.internal \notin {None, p.type}

ASSUME NamesAssumption ==
  /\ KeyWords \subseteq STRING /\ None \notin STRING /\ Invalid \notin Seq(STRING)
  /\ \A p \in Params :
       /\ HasOwnName(p) => IsIdentifier(p.internal)
       /\ p.type = "tuple" => p.internal # p.type

-----------------------------------------------------------------------------
(* format(): the canonical signature of a fragment.                        *)
TypeWords[p \in Params] ==
  (IF p.type = "tuple"
   THEN <<"(">> \o Concat([i \in DOMAIN p.components |-> TypeWords[p.components[i]]]) \o <<")">>
   ELSE <<ResolveBaseType(p.type)>>) \o p.array

Format(f) ==
  <<f.name, "(">> \o Concat([i \in DOMAIN f.inputs |-> TypeWords[f.inputs[i]]]) \o <<")">>

(* fromString(...).format() of what a project wrote.  A tuple without its  *)
(* components cannot be formatted, nor can what has no name.               *)
FormatString(signature) ==
  IF signature[1] = "(" \/ "tuple" \in ToSet(signature) THEN Invalid
  ELSE [i \in DOMAIN signature |-> ResolveBaseType(signature[i])]

(* The signature with the types as the contract names them.                *)
WithSolidityNames(f) ==
  <<f.name, "(">> \o Concat([i \in DOMAIN f.inputs |->
       LET p == f.inputs[i] IN
       IF p.internal = None THEN TypeWords[p] ELSE <<p.internal>> \o p.array]) \o <<")">>

(* A filter of a handler: a signature, a hash, null or '!null'.  A hash    *)
(* stands for the canonical signature it is the hash of, or an address.    *)
IsHexString(filter) == filter.is = "hash"

EventToTopic(filter) == IF IsHexString(filter) THEN filter.words ELSE FormatString(filter.words)
FunctionToSighash(filter) == EventToTopic(filter)

-----------------------------------------------------------------------------
(* extractCustomTypesFromAbi: a map from names to words, which keeps the   *)
(* order of its entries.                                                   *)
CustomType(name, words) == [name |-> name, resolvedType |-> words]
Names(types) == {types[i].name : i \in DOMAIN types}
SetIfNew(types, type) == IF type.name \in Names(types) THEN types ELSE Append(types, type)

InternalType(p) == IF KeepsInternalType THEN p.internal ELSE None

StructOf(p) ==
  CustomType(InternalType(p),
             <<"(">> \o Concat([i \in DOMAIN p.components |->
                <<ResolveBaseType(p.components[i].type)>> \o p.components[i].array]) \o <<")">>)

WithStruct(types, p) ==
  IF p.type = "tuple" /\ p.array = <<>> /\ InternalType(p) # None
  THEN SetIfNew(types, StructOf(p)) ELSE types

(* A uint8 or uint256 of another name is taken for an enum.                *)
WithEnum(types, p) ==
  IF /\ p.type \in {"uint8", "uint256"} /\ p.array = <<>>
     /\ InternalType(p) # None /\ ~IsStandardSolidityType(InternalType(p))
  THEN SetIfNew(types, CustomType(InternalType(p), <<"uint8">>)) ELSE types

(* A parameter and those inside of it, in the order of the extraction.     *)
ParamsWithin[p \in Params] ==
  <<p>> \o Concat([i \in DOMAIN p.components |-> ParamsWithin[p.components[i]]])

WithCustomTypes(types, p) == WithEnum(WithStruct(types, p), p)

(* Those of all events, then those of all functions.                       *)
ParamsOf(fragments) ==
  Concat([i \in DOMAIN fragments |->
    Concat([j \in DOMAIN fragments[i].inputs |-> ParamsWithin[fragments[i].inputs[j]]])])

ExtractCustomTypesFromAbi(abi) ==
  FoldLeft(WithCustomTypes, <<>>, ParamsOf(abi.events) \o ParamsOf(abi.functions))

(* The regular expression: every word that equals the name, the name of    *)
(* the event among them.                                                   *)
ReplaceWord(signature, type) ==
  Concat([i \in DOMAIN signature |->
            IF signature[i] = type.name THEN type.resolvedType ELSE <<signature[i]>>])

ResolveCustomTypesInSignature(signature, types) == FoldLeft(ReplaceWord, signature, types)

-----------------------------------------------------------------------------
(* What the resolution takes for granted of an ABI: one meaning for a      *)
(* name, which is of a struct of plain values or of an enum, not only used *)
(* in arrays, and not the name of an event or function.                    *)
ParamsIn(inputs) == UNION {ToSet(ParamsWithin[inputs[i]]) : i \in DOMAIN inputs}

Fragments(abi) == ToSet(abi.events) \cup ToSet(abi.functions)
AllParams(abi) == UNION {ParamsIn(f.inputs) : f \in Fragments(abi)}
CustomParams(abi) == {p \in AllParams(abi) : HasOwnName(p)}

IsPlain(abi) ==
  /\ \A p \in CustomParams(abi) :
       /\ p.type \in {"tuple", "uint8"}
       /\ \A i \in DOMAIN p.components : p.components[i].type # "tuple"
       /\ \E q \in CustomParams(abi) : q.internal = p.internal /\ q.array = <<>>
       /\ \A q \in CustomParams(abi) :
            q.internal = p.internal => q.type = p.type /\ q.components = p.components
  /\ \A f \in Fragments(abi), p \in CustomParams(abi) : f.name # p.internal
=============================================================================
