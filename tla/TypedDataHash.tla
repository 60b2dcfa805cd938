---------------------------- MODULE TypedDataHash ----------------------------
(* The digest of typed data: src/src/utils/signature/hashTypedData.ts and    *)
(* src/src/utils/typedData.ts.                                               *)
(*                                                                           *)
(* `types` maps the name of a struct to the sequence of its fields, each a   *)
(* name and a type.  A type is a record: a struct by name, an array, or a    *)
(* type of the ABI.  keccak256 is external and free: a hash is the record of *)
(* its preimage.  encodeAbiParameters gets words alone here, and is the      *)
(* sequence of them (AbiEncoding models it).                                 *)
EXTENDS AbiEncoding

CONSTANTS
    Reserved,    \* names of structs that begin as a type of Solidity does
    NullDomain,  \* a domain that is null
    TextDomain   \* a domain that is no object but, say, a text

Keccak(preimage) == [keccak |-> preimage]
StructType(name) == [kind |-> "struct", name |-> name]
Field(name, type) == [name |-> name, type |-> type]

(* The names of structs are numbers, in the order of their spelling; the     *)
(* first is EIP712Domain.                                                    *)
Domain == 0

-----------------------------------------------------------------------------
(* The struct a type leads to: a name, or that of the members of an array.   *)
RECURSIVE StructOf(_)
StructOf(type) ==
    CASE type.kind = "struct" -> type.name
      [] type.kind = "array" -> StructOf(type.type)
      [] OTHER -> Undefined

(* Mutant: the structs of a struct's fields, and none behind them. *)
FindFieldTypes(name, types, results) ==
    {name} \union ({StructOf(types[name][i].type) : i \in DOMAIN types[name]} \ {Undefined})

RECURSIVE FindTypeDependencies(_, _, _)
FindTypeDependencies(name, types, results) ==
    IF name \in results \/ name \notin DOMAIN types THEN results
    ELSE FoldLeft(LAMBDA found, field : FindTypeDependencies(StructOf(field.type), types, found),
                  results \union {name}, types[name])

Sorted(names) == SetToSortSeq(names, LAMBDA a, b : a < b)

EncodeType(name, types) ==
    LET deps == <<name>> \o Sorted(FindTypeDependencies(name, types, {}) \ {name})
    IN  [i \in DOMAIN deps |-> [name |-> deps[i], fields |-> types[deps[i]]]]

HashType(name, types) == Keccak(EncodeType(name, types))

(* A member that cannot be encoded makes the call throw. *)
KeccakOf(words) ==
    IF \E i \in DOMAIN words : words[i] = Thrown THEN Thrown ELSE Keccak(words)

StaticWord(type, value) ==
    After(PrepareParam(type, value), LAMBDA prepared : [word |-> prepared.encoded])

(* A struct is hashed with its type, bytes and text are hashed, an array is  *)
(* the hash of its members' words whatever the length its type names, and    *)
(* any other value is its own word.                                          *)
RECURSIVE EncodeField(_, _, _), EncodeData(_, _, _)
EncodeField(type, value, types) ==
    CASE type.kind = "struct" /\ type.name \in DOMAIN types ->
            KeccakOf(EncodeData(type.name, value, types))
      [] type.kind = "string" \/ (type.kind = "bytes" /\ type.size = Undefined) ->
            Keccak(value)
      [] type.kind = "array" ->
            KeccakOf([i \in DOMAIN value |-> EncodeField(type.type, value[i], types)])
      [] OTHER -> StaticWord(type, value)

EncodeData(name, data, types) ==
    <<HashType(name, types)>>
      \o [i \in DOMAIN types[name] |->
            EncodeField(types[name][i].type, data[types[name][i].name], types)]

HashStruct(name, data, types) == KeccakOf(EncodeData(name, data, types))

-----------------------------------------------------------------------------
(* The checks before hashing: integers in the range of their type, addresses  *)
(* and sized bytes of the right length, in the struct and the structs in it,  *)
(* and no struct in it of a reserved name (validateReference).  Arrays are not*)
(* looked into, and neither is the name of the primary type.                  *)
RECURSIVE ValidateData(_, _, _)
ValidateData(struct, data, types) ==
    \A i \in DOMAIN struct :
        LET type == struct[i].type
            value == data[struct[i].name]
        IN  CASE type.kind \in {"uint", "int"} ->
                    NumberToHex(value, TRUE, type.kind = "int", type.size) # Thrown
              [] type.kind = "address" -> Len(value) = 2 * Word
              [] type.kind = "bytes" /\ type.size # Undefined -> Size(value) = type.size
              [] type.kind = "struct" /\ type.name \in DOMAIN types ->
                    type.name \notin Reserved /\ ValidateData(types[type.name], value, types)
              [] OTHER -> TRUE

ValidateTypedData(domain, message, primaryType, types) ==
    /\ \/ domain = NullDomain
       \/ domain # TextDomain /\ ValidateData(types[Domain], domain, types)
    /\ primaryType # Domain =>
         primaryType \in DOMAIN types /\ ValidateData(types[primaryType], message, types)

(* A domain is a record of the five fields, Undefined where it has none; an   *)
(* empty version is left out, an empty name is not.                           *)
DomainFields == <<Field("name", StringType), Field("version", StringType),
                  Field("chainId", UintType(Word)), Field("verifyingContract", AddressType),
                  Field("salt", BytesType(Word))>>

GetTypesForEIP712Domain(domain) ==
    IF domain \in {NullDomain, TextDomain} THEN <<>>
    ELSE SelectSeq(DomainFields,
                   LAMBDA f : /\ domain[f.name] # Undefined
                              /\ f.name = "version" => domain[f.name] # <<>>)

(* The caller's own EIP712Domain, when it gives one, replaces the derived one.*)
(* No domain given is one of no fields; a null one is left out of the digest. *)
HashTypedData(domain, message, primaryType, given) ==
    LET types == given @@ (Domain :> GetTypesForEIP712Domain(domain))
        structs == (IF domain = NullDomain THEN <<>> ELSE << <<Domain, domain>> >>)
                     \o (IF primaryType = Domain THEN <<>> ELSE << <<primaryType, message>> >>)
    IN  IF ~ValidateTypedData(domain, message, primaryType, types) THEN Thrown
        ELSE KeccakOf([i \in DOMAIN structs |-> HashStruct(structs[i][1], structs[i][2], types)])

DomainSeparator(domain) ==
    HashStruct(Domain, domain, Domain :> GetTypesForEIP712Domain(domain))
-----------------------------------------------------------------------------
(* The reference: what a signer's digest commits to.  Reading a digest gives *)
(* the members back, and the struct's type is the list of every struct it    *)
(* reaches, once each.                                                       *)
RECURSIVE ReadField(_, _, _), ReadStruct(_, _, _)
ReadField(type, term, types) ==
    CASE type.kind = "struct" -> ReadStruct(type.name, term, types)
      [] type.kind = "string" \/ (type.kind = "bytes" /\ type.size = Undefined) -> term.keccak
      [] type.kind = "array" ->
            [i \in DOMAIN term.keccak |-> ReadField(type.type, term.keccak[i], types)]
      [] OTHER -> ReadParam(type, HexToBytes(term.word, Undefined), 0)

ReadStruct(name, term, types) ==
    [f \in {types[name][i].name : i \in DOMAIN types[name]} |->
        LET i == CHOOSE i \in DOMAIN types[name] : types[name][i].name = f
        IN  ReadField(types[name][i].type, term.keccak[i + 1], types)]

CommitsToTypes(preimage, name, types) ==
    LET names == [i \in DOMAIN preimage |-> preimage[i].name]
        Leads(n) == {StructOf(types[n][i].type) : i \in DOMAIN types[n]} \ {Undefined}
    IN  /\ names[1] = name
        /\ \A i, j \in 2 .. Len(names) : i < j => names[i] < names[j]
        /\ name \notin {names[i] : i \in 2 .. Len(names)}
        /\ \A n \in ToSet(names) : Leads(n) \subseteq ToSet(names)
        /\ \A n \in ToSet(names) \ {name} :
             \E m \in ToSet(names) \ {n} : n \in Leads(m)
        /\ \A i \in DOMAIN preimage : preimage[i].fields = types[names[i]]
=============================================================================
