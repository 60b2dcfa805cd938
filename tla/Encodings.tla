------------------------------ MODULE Encodings ------------------------------
(* The encodings of structured data beside the conversions, one call at a    *)
(* time: ABI parameters, transaction envelopes, signatures, messages, typed  *)
(* data and canonical records.  The properties read each result back by its  *)
(* own rules.                                                                *)
EXTENDS Conversions, Accounts, TypedDataHash, CanonicalRecords

CONSTANTS
    AbiTypes,      \* the types of a single parameter, or of each of two
    AbiValues(_),  \* the values given for a type
    Transactions, SignatureArguments,
    Keys, Hashes, SignerNames, Nonces,
    Messages, Quotes, Requesters,
    Records, Schemas, SchemaValues,
    TypedData      \* records of domain, message, primaryType and types

-----------------------------------------------------------------------------
EncodeAbi ==
    \E t1 \in AbiTypes, t2 \in AbiTypes :
        \E v1 \in AbiValues(t1), v2 \in AbiValues(t2) :
            Call([kind |-> "abi", params |-> <<t1, t2>>, values |-> <<v1, v2>>],
                 EncodeAbiParameters(<<t1, t2>>, <<v1, v2>>))

Serialize ==
    \E tx \in Transactions, s \in SignatureArguments :
        Call([kind |-> "serialize", tx |-> tx, signature |-> s], SerializeTransaction(tx, s))

(* Only ElGamal draws a nonce. *)
NoncesOf(name) == IF NormalizeSignerType(name) = "elgamal" THEN Nonces ELSE {1}

Sign ==
    \E h \in Hashes, key \in Keys, name \in SignerNames, to \in {"object", "bytes", "hex"} :
      \E k \in NoncesOf(name) :
        Call([kind |-> "sign", hash |-> h, key |-> key, name |-> name, to |-> to],
             SignHash(h, key, name, to, k))

SignATransaction ==
    \E tx \in Transactions, key \in Keys, name \in SignerNames : \E k \in NoncesOf(name) :
        Call([kind |-> "signTransaction", tx |-> tx, key |-> key, name |-> name],
             SignTransaction(tx, key, name, k))

HashData ==
    \E d \in TypedData :
        Call([kind |-> "typedData", data |-> d],
             HashTypedData(d.domain, d.message, d.primaryType, d.types))

SignAMessage ==
    \E key \in Keys : \E account \in Accounts(key), m \in Messages :
      \E k \in NoncesOf(account.signerType) :
        Call([kind |-> "message", account |-> account, message |-> m], SignMessage(m, account, k))

(* The nonce and the chain id are what the node has answered. *)
Authorize ==
    \E key \in Keys, quote \in Quotes, nonce \in {0, 300}, requester \in Requesters :
      \E account \in Accounts(key) : \E k \in NoncesOf(account.signerType) :
        Call([kind |-> "authorize", account |-> account, quote |-> quote, nonce |-> nonce],
             BuildPaymasterAuthorizationRequest(requester, quote, account, nonce, 1666, k))

HashRecord(family, value) ==
    CASE family = "artifact" -> HashArtifactValue(value)
      [] family = "storage" -> HashStorageValue(value)
      [] family = "settlement" -> HashSettlementValue(value)
      [] family = "market" -> HashMarketBindingValue(value)

HashRecords ==
    \E family \in {"artifact", "storage", "settlement", "market"} :
      \E a \in Records, b \in Records :
        Call([kind |-> "records", family |-> family, a |-> a, b |-> b],
             <<HashRecord(family, a), HashRecord(family, b)>>)

VerifyReceipt ==
    \E r \in Records :
        /\ r[1] = "object"
        /\ Call([kind |-> "receipt", receipt |-> r],
                [evidence |-> VerifyEvidenceReceipt(r), proof |-> VerifyProofArtifactReceipt(r)])

CheckSchema ==
    \E schema \in Schemas, value \in SchemaValues :
        Call([kind |-> "schema", schema |-> schema, value |-> value],
             ValidateAgainstSchema(schema, value) @@ DetectDrift(schema, value))

AllNext ==
    \/ Next
    \/ /\ task = Idle
       /\ \/ EncodeAbi \/ Serialize \/ Sign \/ SignATransaction \/ HashData
          \/ SignAMessage \/ Authorize \/ HashRecords \/ VerifyReceipt \/ CheckSchema

AllSpec == Init /\ [][AllNext]_vars

-----------------------------------------------------------------------------
RECURSIVE Encodable(_, _)
Encodable(type, value) ==
    CASE type.kind = "uint" -> InRange(value, TRUE, FALSE, type.size)
      [] type.kind = "int" -> InRange(value, TRUE, TRUE, type.size)
      [] type.kind = "address" -> Len(value) = 2 * Word
      [] type.kind = "bytes" -> type.size \in {Undefined, Size(value)}
      [] type.kind = "array" -> /\ type.length \in {Undefined, Len(value)}
                                /\ \A i \in DOMAIN value : Encodable(type.type, value[i])
      [] type.kind = "tuple" -> \A i \in DOMAIN value : Encodable(type.components[i], value[i])
      [] OTHER -> TRUE

(* Hex of a whole number of bytes: what other bytes stand for is not defined.*)
RECURSIVE WholeBytes(_, _, _)
WholeBytes(type, value, types) ==
    CASE type.kind = "bytes" -> Len(value) % 2 = 0
      [] type.kind = "array" -> \A i \in DOMAIN value : WholeBytes(type.type, value[i], types)
      [] type.kind = "tuple" ->
            \A i \in DOMAIN value : WholeBytes(type.components[i], value[i], types)
      [] type.kind = "struct" ->
            \A i \in DOMAIN types[type.name] :
                WholeBytes(types[type.name][i].type, value[types[type.name][i].name], types)
      [] OTHER -> TRUE

(* A contract that reads the encoding by the types alone finds the values:   *)
(* every offset leads to its own tail, through nested arrays and tuples; the *)
(* call is refused exactly for a value that does not fit its type            *)
(* (encodeAbiParameters).  Types of no members, and bytes of half a byte, are*)
(* outside: see EmptyStatic in the README.                                   *)
AbiDecodes ==
    Calling("abi") =>
      LET types == task.params
          values == task.values
          data == HexToBytes(result, Undefined)
      IN  IF \E i \in DOMAIN types : ~Encodable(types[i], values[i]) THEN result = Thrown
          ELSE \/ \E i \in DOMAIN types : HasEmptyStatic(types[i]) \/ ~WholeBytes(types[i], values[i], <<>>)
               \/ /\ result \notin {Thrown, Mangled}
                  /\ Len(data) % Word = 0
                  /\ ReadParams(types, data, 0) = values

-----------------------------------------------------------------------------
WellFormed(tx) ==
    /\ tx.type = "native" \/ tx.signerType # Undefined
    /\ tx.chainId > 0 /\ tx.nonce >= 0 /\ tx.gas >= 0 /\ tx.value >= 0
    /\ Len(tx.from) = 2 * Word /\ (tx.to # Undefined => Len(tx.to) = 2 * Word)
    /\ ~Blank(tx.signerType)
    /\ IF tx.sponsor = Undefined THEN \A f \in SponsorFields : tx[f] = Undefined
       ELSE /\ \A f \in SponsorFields : tx[f] # Undefined
            /\ Len(tx.sponsor) = 2 * Word /\ Len(tx.sponsorPolicyHash) = 2 * Word
            /\ ~Blank(tx.sponsorSignerType) /\ tx.sponsorNonce >= 0 /\ tx.sponsorExpiry > 0

(* A node that reads the envelope finds the transaction and the signatures   *)
(* it was made of, so no two transactions share an envelope, or a hash to    *)
(* sign, but for the differences Meaning names; the sponsor's signature is   *)
(* never taken for the sender's, and a transaction is refused exactly when   *)
(* it is malformed (serializeTransaction).                                   *)
EnvelopeBinds ==
    Calling("serialize") =>
      IF ~WellFormed(task.tx) THEN result = Thrown
      ELSE result # Thrown /\ ReadEnvelope(result) = Meaning(task.tx, task.signature)

-----------------------------------------------------------------------------
(* The digits of a number as a node has them: none of the leading zeros.     *)
AsNumber(hex) == Digits(Worth(hex, 16), 16)

(* ElGamal refuses the scalar 0, which a real order makes unreachable. *)
Degenerate(raw, name) ==
    NormalizeSignerType(name) = "elgamal" /\ raw # Thrown /\ (raw[1] = 0 \/ raw[Word + 1] = 0)

(* What a node finds in a signed envelope: a transaction, and a signature of *)
(* it by the key.                                                            *)
SignedEnvelopeVerifies(read, key, name) ==
    LET signature == [r |-> Digits(read.execution.r, 16), s |-> Digits(read.execution.s, 16),
                      v |-> read.execution.v, yParity |-> Undefined]
        unsigned == [type |-> "native"] @@
                    [f \in DOMAIN read \ {"execution", "sponsorship"} |-> read[f]]
    IN  \/ Degenerate(SignatureToRawBytes(signature, "object", name), name)
        \/ VerifyHashSignature(HashTransaction(unsigned), PublicKeyOf(key, name), name,
                               signature, "object")

(* Every signature that is made verifies, in each form and under each name of *)
(* its type, with its own key and hash and, for the curves, with no other;    *)
(* it still does when a node has read r and s as numbers; one of secp256k1    *)
(* gives its public key back (nativeSigner, serializeSignature,               *)
(* recoverPublicKey), and the signature in a signed envelope verifies for the *)
(* hash of the same transaction unsigned; a malformed transaction or an      *)
(* unknown type is refused (signTransaction).                                *)
SignaturesVerify ==
    /\ Calling("sign") =>
         LET name == task.name
             type == NormalizeSignerType(name)
             form == task.to
             Same(hash, key) == <<hash, key>> = <<task.hash, task.key>>
             AsObject == [result EXCEPT !.r = AsNumber(@), !.s = AsNumber(@)]
         IN  IF type = Thrown THEN result = Thrown
             ELSE \/ Degenerate(SignatureToRawBytes(result, form, name), name)
                  \/ /\ \A h \in Hashes, key \in Keys,
                          s \in {result} \union (IF form = "object" THEN {AsObject} ELSE {}) :
                         \/ type = "elgamal" /\ ~Same(h, key)
                         \/ VerifyHashSignature(h, PublicKeyOf(key, name), name, s, form)
                              = Same(h, key)
                     /\ type = "secp256k1" =>
                          /\ RecoverPublicKey(task.hash, result, form) = task.key
                          /\ form = "object" =>
                               \A s \in {result, [result EXCEPT !.yParity = Undefined],
                                         [result EXCEPT !.v = Undefined]} :
                                 RecoverPublicKey(task.hash, SerializeSignature(s), "hex") = task.key
    /\ Calling("signTransaction") =>
         IF ~WellFormed(task.tx) \/ NormalizeSignerType(task.name) = Thrown THEN result = Thrown
         ELSE SignedEnvelopeVerifies(ReadEnvelope(result), task.key, task.name)

-----------------------------------------------------------------------------
(* The bytes of a message.  An odd number of raw digits is none: behind the   *)
(* prefix the digits are paired otherwise than alone, prefix included, so that*)
(* the digest is that of no bytes.                                            *)
Content(message) ==
    IF message.form # "hex" THEN <<"bytes", message.raw>>
    ELSE IF Len(message.raw) % 2 = 0 THEN <<"bytes", HexToBytes(message.raw, Undefined)>>
         ELSE <<"digits", message.raw>>

(* What an account signs verifies with the account's own public key, type and *)
(* address, for every message of the same bytes, as text, bytes or raw hex of *)
(* whole bytes, and for no other message or address; raw hex of an odd number *)
(* of digits verifies only for these digits, and not for the bytes toBytes    *)
(* makes of them; verifyMessage knows only secp256k1 and never accepts what an*)
(* account of another type has signed (accounts, signMessage, verifyMessage). *)
(* The execution signature in a paymaster's authorization request verifies    *)
(* for the transaction the paymaster puts together from the request and its   *)
(* quote, exactly if the quote names the type of the account that signed      *)
(* (buildPaymasterAuthorizationRequest).                                      *)
AccountsSign ==
    /\ Calling("message") =>
         LET a == task.account
             Verifies(m) == VerifyHashSignature(HashMessage(m), a.publicKey, a.signerType,
                                                result, "hex") = TRUE
         IN  \/ Degenerate(SignatureToRawBytes(result, "hex", a.signerType), a.signerType)
             \/ /\ \A m \in Messages :
                     \/ a.signerType = "elgamal" /\ m # task.message
                     \/ Verifies(m) <=> Content(m) = Content(task.message)
                /\ \A key \in Keys : \A b \in Accounts(key), m \in Messages :
                     (VerifyMessage(b.address, m, result, "hex") = TRUE) <=>
                       /\ a.signerType = "secp256k1" /\ a = b
                       /\ Content(m) = Content(task.message)
    /\ Calling("authorize") =>
         LET a == task.account
             tx == Sponsored(result, task.quote, 1666)
             name == task.quote.requesterSignerType
             signature == result.execution_signature
         IN  /\ result # Thrown
             /\ \/ /\ NormalizeSignerType(name) = "elgamal" /\ a.signerType = "elgamal"
                   /\ Degenerate(SignatureToRawBytes(signature, "object", name), name)
                \/ (VerifyHashSignature(HashTransaction(tx), a.publicKey, name, signature, "object")
                      = TRUE) <=> (NormalizeSignerType(name) = a.signerType)

-----------------------------------------------------------------------------
(* Two records have one hash exactly if they mean the same, in whatever order *)
(* their members were written, deep inside arrays too; each family of records *)
(* hashes alike.  Members that are undefined do not count, undefined in an    *)
(* array is null, a bigint is its decimal text, and a Date says nothing; what *)
(* is reported of a receipt is what its canonical text says of it             *)
(* (utils/artifact.ts and the like, evidence.ts, proofMarket.ts).  The two    *)
(* reports on a record agree, and a valid record with no undefined field is   *)
(* valid after it was sent, too (schema/validate.ts); the authorization       *)
(* request that is built has every field its schema requires and none it does *)
(* not know.                                                                  *)
RecordsBind ==
    /\ Calling("records") =>
         LET mine == MeaningOf(task.a)
             other == MeaningOf(task.b)
         IN  /\ result[1] = Thrown <=> task.a = NoValue
             /\ result[1] = result[2] <=> mine = other
             /\ \A f \in {"artifact", "storage", "settlement", "market"} :
                  HashRecord(f, task.a) = result[1]
    /\ Calling("receipt") =>
         LET evidence == result.evidence
         IN  /\ evidence.receiptHash = HashRecord("artifact", task.receipt)
             /\ evidence.isVerified <=> StatusOf(evidence.canonical) = Verified
             /\ result.proof.canonical = evidence.canonical
             /\ evidence.isVerified <=> result.proof.status = Verified
    /\ Calling("schema") =>
         LET sent == {f \in DOMAIN task.value : task.value[f] # Undefined}
         IN  /\ result.missingRequired \union result.missingOptional = result.missingFromSchema
             /\ result.missingRequired \intersect result.missingOptional = {}
             /\ result.extraFields = result.addedBeyondSchema
             /\ ~result.hasDrift => result.valid
             /\ task.schema.requiredFields \subseteq sent => result.valid
             /\ result.valid /\ sent = DOMAIN task.value => task.schema.requiredFields \subseteq sent
    /\ Calling("authorize") =>
         LET report == ValidateAgainstSchema(PaymasterAuthorizeRequestSchema, result)
         IN  /\ report.valid /\ report.extraFields = {}
             /\ DetectDrift(PaymasterAuthorizeRequestSchema, result).hasDrift
                  <=> "reason" \notin DOMAIN result

-----------------------------------------------------------------------------
RECURSIVE Fitting(_, _, _)
Fitting(type, value, types) ==
    CASE type.kind = "struct" ->
            \A i \in DOMAIN types[type.name] :
                Fitting(types[type.name][i].type, value[types[type.name][i].name], types)
      [] type.kind = "array" -> \A i \in DOMAIN value : Fitting(type.type, value[i], types)
      [] OTHER -> Encodable(type, value)

(* A struct within a struct, behind no array, has a reserved name. *)
RECURSIVE ReservedWithin(_, _)
ReservedWithin(name, types) ==
    \E i \in DOMAIN types[name] :
        LET type == types[name][i].type
        IN  type.kind = "struct" /\ (type.name \in Reserved \/ ReservedWithin(type.name, types))

(* The digest that is signed commits to the domain, the message and the       *)
(* definition of every struct the message reaches, each once and in one order.*)
(* What is refused is a number, address or sized bytes that does not fit its  *)
(* type, wherever it is, inside an array too; a domain that is no object; and *)
(* a struct of a reserved name as the type of a field, though not as the      *)
(* primary type or in an array.  How many members an array has is not held    *)
(* against the length in its type: the digest is then one of the members given*)
(* (hashTypedData, validateTypedData).                                        *)
TypedDataBinds ==
    Calling("typedData") =>
      LET d == task.data
          types == d.types @@ (Domain :> GetTypesForEIP712Domain(d.domain))
          Of(name) == IF name = Domain THEN d.domain ELSE d.message
          domain == Head(result.keccak)
          message == Last(result.keccak)
          signed == {Domain, d.primaryType} \ (IF d.domain = NullDomain THEN {Domain} ELSE {})
      IN  IF \/ d.domain = TextDomain \/ d.primaryType \notin DOMAIN types
             \/ \E name \in signed : \/ ~Fitting(StructType(name), Of(name), types)
                                     \/ ReservedWithin(name, types)
          THEN result = Thrown
          ELSE /\ result # Thrown
               /\ Len(result.keccak) = Cardinality(signed)
               /\ Domain \in signed =>
                    /\ CommitsToTypes(domain.keccak[1].keccak, Domain, types)
                    /\ Domain \notin DOMAIN d.types => DomainSeparator(d.domain) = domain
                    /\ \A f \in DOMAIN d.domain :
                         \/ d.domain[f] = Undefined \/ (f = "version" /\ d.domain[f] = <<>>)
                         \/ d.domain[f] = ReadStruct(Domain, domain, types)[f]
               /\ d.primaryType # Domain =>
                    /\ CommitsToTypes(message.keccak[1].keccak, d.primaryType, types)
                    /\ WholeBytes(StructType(d.primaryType), d.message, types) =>
                       ReadStruct(d.primaryType, message, types) = d.message
=============================================================================
