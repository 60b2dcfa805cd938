----------------------------- MODULE MCEncodings -----------------------------
(* An instance of Encodings with words of two bytes.  The inputs are those   *)
(* around the boundaries: the lengths 55, 56, 255 and 256 of RLP, values that*)
(* just do not fit, and types nested twice.                                  *)
EXTENDS Encodings, MCConversions

BaseTypes == {UintType(1), IntType(1), IntType(2), BoolType, AddressType,
              BytesType(Undefined), BytesType(1), StringType}
Pairs == {TupleType(<<a, b>>) : a \in {UintType(1), StringType}, b \in {UintType(1), StringType}}
Arrays(types, lengths) == {ArrayType(t, l) : t \in types, l \in lengths}
MCAbiTypes ==
    BaseTypes
      \union Arrays({UintType(1), StringType}, {Undefined, 0, 1, 2})
      \union Pairs \union {TupleType(<<>>)}
      \union Arrays(Pairs, {Undefined})
      \union Arrays(Arrays({StringType, UintType(1)}, {Undefined, 2}), {Undefined, 2})
      \union {TupleType(<<ArrayType(StringType, Undefined), IntType(1)>>)}

RECURSIVE MCAbiValues(_)
MCAbiValues(type) ==
    CASE type.kind = "uint" -> {7, 256}
      [] type.kind = "int" -> {-2 ^ (8 * type.size - 1), 2 ^ (8 * type.size - 1)}
      [] type.kind = "bool" -> {TRUE}
      [] type.kind = "address" -> {<<0, 1, 2, 3>>, <<1>>}
      [] type.kind = "bytes" -> {<<>>, <<1, 2>>, <<1, 2, 3, 4, 5, 6>>, <<1, 2, 3>>}
      [] type.kind = "string" -> {<<>>, <<65, 0, 66>>}
      [] type.kind = "array" ->
            LET some == CHOOSE v \in MCAbiValues(type.type) : Encodable(type.type, v)
                other == CHOOSE v \in MCAbiValues(type.type) : v # some
            IN  {<<>>, <<other>>, <<some, some>>, <<some, other>>}
      [] type.kind = "tuple" ->
            IF type.components = <<>> THEN {<<>>}
            ELSE {<<a, b>> : a \in MCAbiValues(type.components[1]),
                             b \in MCAbiValues(type.components[2])}

-----------------------------------------------------------------------------
Ones(n) == [i \in 1 .. n |-> 1]
Plainly == [type |-> Undefined, chainId |-> 1666, nonce |-> 0, gas |-> 300, to |-> Undefined,
            value |-> 5, data |-> Undefined, from |-> Address1, signerType |-> <<101, 100>>,
            sponsor |-> Undefined, sponsorSignerType |-> Undefined, sponsorNonce |-> Undefined,
            sponsorExpiry |-> Undefined, sponsorPolicyHash |-> Undefined,
            terminalClass |-> Undefined, trustTier |-> Undefined]
WithSponsor == [Plainly EXCEPT !.sponsor = Zeros(4), !.sponsorSignerType = <<115>>,
                             !.sponsorNonce = 0, !.sponsorExpiry = 128,
                             !.sponsorPolicyHash = Zeros(4)]
Variants(tx) ==
    {[tx EXCEPT !.to = a] : a \in {Address1, Zeros(4), <<1>>}}
      \union {[tx EXCEPT !.data = d] :
                d \in {<<>>, <<1>>, <<0, 1>>, <<8, 0>>} \union {Ones(n) : n \in {110, 111, 112, 510, 511, 512}}}
      \union {[tx EXCEPT !.nonce = n] : n \in {-1, 1, 127, 128, 256}}
      \union {[tx EXCEPT !.chainId = n] : n \in {0, 1}}
      \union {[tx EXCEPT !.terminalClass = n, !.trustTier = m] :
                n \in {Undefined, 0, 1, 6}, m \in {Undefined, 0, 4}}
      \union {[tx EXCEPT !.sponsorNonce = n] : n \in {Undefined, -1, 0, 300}}
      \union {[tx EXCEPT !.sponsorExpiry = n] : n \in {Undefined, 0, 1}}
      \union {[tx EXCEPT !.sponsorPolicyHash = h] : h \in {Undefined, <<1>>, <<1, 2, 3, 4>>}}
      \union {[tx EXCEPT !.sponsorSignerType = t] : t \in {Undefined, <<>>, <<32>>, <<101, 100>>}}
      \union {[tx EXCEPT !.signerType = t] : t \in {Undefined, <<32>>, <<115>>}}
      \union {[tx EXCEPT !.type = "native", !.signerType = t] : t \in {Undefined, <<115>>}}
MCTransactions == {Plainly, WithSponsor} \union Variants(Plainly) \union Variants(WithSponsor)

Signed(r, v, yParity) == Signature(r, <<0, 7, 0, 0>>, v, yParity)
MCSignatureArguments ==
    {Undefined, Signed(<<0, 0, 0, 1>>, 27, 0), Signed(<<1, 2, 3, 4>>, Undefined, 1),
     Signed(<<0, 0, 0, 0>>, 0, Undefined)}
      \union {[execution |-> Signed(<<0, 1, 0, 1>>, 28, 1), sponsor |-> s] :
                s \in {Undefined, Signed(<<9, 9, 9, 9>>, Undefined, Undefined)}}

MCHashes == {<<0, 1>>, <<0, 2>>, <<3, 1>>}
MCSignerNames == {Undefined, "", "secp256k1", "ethereum_secp256k1", "secp256r1", "ed25519",
                  "bls12381", "bls12-381", "elgamal", "rsa"}

Message(form, raw) == [form |-> form, raw |-> raw]
MCMessages ==
    {Message("text", <<>>), Message("hex", <<>>), Message("text", <<65, 7>>),
     Message("bytes", <<65, 7>>), Message("hex", <<4, 1, 0, 7>>), Message("hex", <<4, 1, 7>>), Message("bytes", <<4, 23>>),
     Message("text", <<49>>), Message("text", [i \in 1 .. 10 |-> 48]),
     Message("text", [i \in 1 .. 11 |-> 48])}

Quote == [quoteId |-> 1, walletAddress |-> Address1, targetAddress |-> <<0, 1, 2, 3>>,
          sponsorAddress |-> <<3, 2, 1, 0>>, valueTomi |-> 5, dataHex |-> <<>>, gas |-> 300,
          requesterSignerType |-> "secp256k1", sponsorSignerType |-> "ed25519",
          sponsorNonce |-> 0, sponsorExpiry |-> 128, policyHash |-> <<1, 2, 3, 4>>]
MCQuotes ==
    {Quote, [Quote EXCEPT !.valueTomi = 0], [Quote EXCEPT !.dataHex = <<0, 1>>],
     [Quote EXCEPT !.sponsorNonce = 128], [Quote EXCEPT !.sponsorExpiry = 1]}
      \union {[Quote EXCEPT !.requesterSignerType = t] :
                t \in {"ethereum_secp256k1", "secp256r1", "bls12381", "bls12-381", "elgamal",
                       "ed25519"}}

-----------------------------------------------------------------------------
Person == 1
Group == 2
Mail == 3
PersonFields == <<Field("wallet", AddressType), Field("age", UintType(1))>>
GroupFields == <<Field("members", ArrayType(StructType(Person), Undefined)),
                 Field("tags", ArrayType(UintType(1), 2)), Field("seal", BytesType(1))>>
MailFields == <<Field("to", StructType(Group)), Field("from", AddressType),
                Field("copy", StructType(Group)),
                Field("text", StringType), Field("body", BytesType(Undefined))>>
Offer == 4
Intent == 5 \* a reserved name, as "intent" is
Types == (Person :> PersonFields) @@ (Group :> GroupFields) @@ (Mail :> MailFields)
WithIntent(type) == (Intent :> PersonFields) @@ (Offer :> <<Field("intent", type)>>)

People == {[wallet |-> w, age |-> a] : w \in {Address1, <<1>>}, a \in {0, 255, 256}}
Someone == [wallet |-> Address1, age |-> 255]
Groups == {[members |-> m, tags |-> t, seal |-> s] :
             m \in {<<>>, <<Someone>>} \union {<<Someone, p>> : p \in People},
             t \in {<<>>, <<7>>, <<1, 256>>, <<0, 255>>}, s \in {<<1, 2>>, <<1>>, <<1, 2, 3>>}}
Fine == [members |-> <<Someone>>, tags |-> <<1, 2>>, seal |-> <<1, 2>>]
Mails == {[to |-> g, from |-> f, copy |-> Fine, text |-> t, body |-> b] :
            g \in {Fine, [Fine EXCEPT !.tags = <<256, 1>>]} \union {[Fine EXCEPT !.members = <<p>>] : p \in People},
            f \in {Address1, <<1>>},
            t \in {<<>>, <<65>>}, b \in {<<>>, <<1, 2>>}}
NoDomain == [name |-> Undefined, version |-> Undefined, chainId |-> Undefined,
             verifyingContract |-> Undefined, salt |-> Undefined]
Domains == {NoDomain, [NoDomain EXCEPT !.name = <<>>, !.version = <<>>],
            [NoDomain EXCEPT !.version = <<49>>, !.chainId = 1666],
            [name |-> <<84>>, version |-> <<49>>, chainId |-> 0,
             verifyingContract |-> Address1, salt |-> <<1, 2, 3, 4>>],
            [NoDomain EXCEPT !.chainId = 65536], [NoDomain EXCEPT !.verifyingContract = <<1>>]}
OwnDomain == Types @@ (Domain :> <<Field("name", StringType)>>)

Data(d, m, p, ts) == [domain |-> d, message |-> m, primaryType |-> p, types |-> ts]
MCTypedData ==
    {Data(d, Someone, Person, Types) : d \in Domains}
      \union {Data(d, Someone, Domain, Types) : d \in Domains}
      \union {Data([NoDomain EXCEPT !.name = <<1>>], Someone, p, OwnDomain) : p \in {Person, Domain, 9}}
      \union {Data(d, Someone, p, Types) : d \in {NullDomain, TextDomain}, p \in {Person, Domain}}
      \union {Data(NoDomain, p, Person, Types) : p \in People}
      \union {Data(NoDomain, p, Intent, WithIntent(BoolType)) : p \in People}
      \union {Data(NoDomain, [intent |-> p], Offer, WithIntent(StructType(Intent))) : p \in People}
      \union {Data(NoDomain, [intent |-> <<p>>], Offer,
                   WithIntent(ArrayType(StructType(Intent), 2))) : p \in People}
      \union {Data(NoDomain, g, Group, Types) : g \in Groups}
      \union {Data(NoDomain, m, Mail, Types) : m \in Mails}
-----------------------------------------------------------------------------
MCRequesters ==
    {[address |-> Address1, nonce |-> 1, expiresAt |-> 2, reason |-> r] :
       r \in {Undefined, <<>>, <<65>>}}

MCStatus == 3
MCVerified == <<"text", <<118>> >>
Number5 == <<"number", 5>>
Leaves == {NoValue, NullValue, Number5, <<"NaN", 0>>, <<"bigint", 5>>, <<"text", <<5>> >>,
           <<"date", 5>>, MCVerified}
Object(members) == <<"object", members>>
Array(items) == <<"array", items>>
Inner == {Object(<< <<1, Number5>>, <<2, NullValue>> >>), Object(<< <<2, NullValue>>, <<1, Number5>> >>),
          Object(<< <<1, <<"bigint", 5>> >> >>), Object(<< <<4, NoValue>> >>)}
MCRecords ==
    Leaves \union Inner
      \union {Array(<<v>>) : v \in Leaves \union Inner}
      \union {Object(<< <<MCStatus, v>>, <<1, w>> >>) : v \in {MCVerified, NoValue}, w \in {NoValue, Number5}}
      \union {Object(<< <<1, Array(<<v>>)>> >>) : v \in Inner}
      \union {Object(<< <<1, Array(<<v>>)>>, <<MCStatus, MCVerified>> >>) : v \in Inner}
      \union {Object(<< <<MCStatus, MCVerified>>, <<1, Array(<<v>>)>> >>) : v \in Inner}

SomeFields == {"a", "b", "c"}
AllSchemas == {[fields |-> f, requiredFields |-> r] : f \in SUBSET SomeFields, r \in SUBSET {"a", "b"}}
MCSchemas == {s \in AllSchemas : s.requiredFields \subseteq s.fields}
MCSchemaValues == UNION {[f -> {Undefined, 1}] : f \in SUBSET SomeFields}
=============================================================================
