------------------------- MODULE TransactionEnvelope -------------------------
(* The serialized native transaction: src/src/utils/transaction.             *)
(*                                                                           *)
(* A transaction is a record of the fields of TransactionSerializableNative, *)
(* Undefined where it has none; quantities are bigints.  A signature has the *)
(* digits of r and s, and v or yParity; a bundle has one of the execution    *)
(* and one of the sponsor.                                                   *)
EXTENDS Rlp

IsAddress(digits) == digits # Undefined /\ Len(digits) = 2 * Word

(* !text?.trim() *)
Blank(text) == text = Undefined \/ (\A i \in DOMAIN text : text[i] = 32)

SponsorFields == {"sponsorSignerType", "sponsorNonce", "sponsorExpiry", "sponsorPolicyHash"}

AssertTransactionBase(tx) ==
    /\ tx.chainId > 0
    /\ ~Blank(tx.signerType)
    /\ IsAddress(tx.from)
    /\ tx.to # Undefined => IsAddress(tx.to)

AssertSponsorFieldsAbsent(tx) == \A field \in SponsorFields : tx[field] = Undefined

AssertTransactionNative(tx) ==
    /\ AssertTransactionBase(tx)
    /\ IF tx.sponsor = Undefined THEN AssertSponsorFieldsAbsent(tx)
       ELSE /\ IsAddress(tx.sponsor)
            /\ ~Blank(tx.sponsorSignerType)
            /\ tx.sponsorNonce # Undefined /\ tx.sponsorNonce >= 0
            /\ tx.sponsorExpiry # Undefined /\ tx.sponsorExpiry > 0
            /\ tx.sponsorPolicyHash # Undefined /\ Len(tx.sponsorPolicyHash) = 2 * Word

GetTransactionType(tx) ==
    IF tx.type = "native" \/ (tx.from # Undefined /\ tx.signerType # Undefined)
    THEN "native" ELSE Thrown

-----------------------------------------------------------------------------
OrElse(value, other) == IF value = Undefined THEN other ELSE value

(* Mutant: nothing is kept of a value of zeros alone. *)
RlpHexOfZeros(hex) ==
    IF \A i \in DOMAIN hex : hex[i] = 0 THEN <<>> ELSE SubSeq(hex, ZeroRun(hex) + 1, Len(hex))

(* Drops every leading zero, and keeps one digit of a value of zeros alone. *)
RlpHex(hex) == IF hex = <<>> THEN hex ELSE SubSeq(hex, ZeroRun(hex) + 1, Len(hex))

ToMinimalQuantityHex(value) ==
    IF value = Undefined THEN <<>> ELSE After(NumberToHex(value, TRUE, FALSE, Undefined), RlpHex)

(* !value holds of 0 as well as of undefined. *)
ToOptionalUint8Hex(value) ==
    IF ~Given(value) THEN <<>> ELSE RlpHex(NumberToHex(value, FALSE, FALSE, Undefined))

ToNativeSignatureArray(signature, padAbsent) ==
    IF signature = Undefined THEN (IF padAbsent THEN << <<>>, <<>>, <<>> >> ELSE <<>>)
    ELSE <<ToMinimalQuantityHex(OrElse(signature.v, OrElse(signature.yParity, 0))),
           RlpHex(signature.r),
           RlpHex(signature.s)>>

IsTransactionSignatureBundle(signature) ==
    signature # Undefined /\ "execution" \in DOMAIN signature

ExecutionSignature(signature) ==
    IF IsTransactionSignatureBundle(signature) THEN signature.execution ELSE signature

SponsorSignature(signature) ==
    IF IsTransactionSignatureBundle(signature) THEN signature.sponsor ELSE Undefined

ZeroAddress == Zeros(2 * Word)
ZeroHash == Zeros(2 * Word)
EmptyAccessList == List(<<>>)

SerializeTransactionNative(tx, signature) ==
    LET before == <<ToMinimalQuantityHex(tx.chainId), ToMinimalQuantityHex(tx.nonce),
                    ToMinimalQuantityHex(tx.gas), OrElse(tx.to, <<>>),
                    ToMinimalQuantityHex(tx.value), OrElse(tx.data, <<>>)>>
        behind == <<tx.from,
                   StringToHex(tx.signerType, Undefined),
                   OrElse(tx.sponsor, ZeroAddress),
                   StringToHex(OrElse(tx.sponsorSignerType, <<>>), Undefined),
                   ToMinimalQuantityHex(tx.sponsorNonce),
                   ToMinimalQuantityHex(tx.sponsorExpiry),
                   OrElse(tx.sponsorPolicyHash, ZeroHash),
                   ToOptionalUint8Hex(tx.terminalClass),
                   ToOptionalUint8Hex(tx.trustTier)>>
                  \o ToNativeSignatureArray(ExecutionSignature(signature), FALSE)
                  \o ToNativeSignatureArray(SponsorSignature(signature), TRUE)
        Items(hexes) == [i \in DOMAIN hexes |-> HexItem(hexes[i])]
        Payload(quantities) ==
            IF \E i \in DOMAIN quantities : quantities[i] = Thrown THEN Thrown
            ELSE ToRlp(List(Items(quantities) \o <<EmptyAccessList>> \o Items(behind)))
    IN  IF ~AssertTransactionNative(tx) THEN Thrown
        ELSE After(Payload(before), LAMBDA payload : ConcatHex(<< <<0, 0>>, payload>>))

SerializeTransaction(tx, signature) ==
    IF GetTransactionType(tx) = "native" THEN SerializeTransactionNative(tx, signature)
    ELSE Thrown

-----------------------------------------------------------------------------
(* The reference: what a node reads out of an envelope.  Without an execution *)
(* signature the payload has 19 fields, with one it has 22, and the           *)
(* sponsor's are always the last three.                                       *)
ReadQuantity(bytes) == IF bytes = <<>> THEN Undefined ELSE Worth(bytes, 256)
ReadOptional(bytes) == IF bytes = <<>> THEN Undefined ELSE BytesToHex(bytes, Undefined)

ReadSignature(v, r, s) ==
    IF v = <<>> THEN Undefined
    ELSE [v |-> Worth(v, 256), r |-> Worth(r, 256), s |-> Worth(s, 256)]

FieldsOf(items) ==
    LET field(i) == items[i].data
        count == Len(items)
        sponsored == field(11) # <<>>
    IN  IF count \notin {19, 22} \/ items[7] # List(<<>>) THEN Thrown
        ELSE [chainId |-> ReadQuantity(field(1)),
              nonce |-> ReadQuantity(field(2)),
              gas |-> ReadQuantity(field(3)),
              to |-> ReadOptional(field(4)),
              value |-> ReadQuantity(field(5)),
              data |-> BytesToHex(field(6), Undefined),
              from |-> BytesToHex(field(8), Undefined),
              signerType |-> field(9),
              sponsor |-> IF sponsored THEN BytesToHex(field(10), Undefined) ELSE Undefined,
              sponsorSignerType |-> IF sponsored THEN field(11) ELSE Undefined,
              sponsorNonce |-> ReadQuantity(field(12)),
              sponsorExpiry |-> ReadQuantity(field(13)),
              sponsorPolicyHash |-> IF sponsored THEN BytesToHex(field(14), Undefined) ELSE Undefined,
              terminalClass |-> ReadQuantity(field(15)),
              trustTier |-> ReadQuantity(field(16)),
              execution |-> IF count = 22
                            THEN ReadSignature(field(17), field(18), field(19)) ELSE Undefined,
              sponsorship |-> ReadSignature(field(count - 2), field(count - 1), field(count))]

ReadEnvelope(hex) ==
    LET Envelope(bytes) ==
            IF bytes[1] # 0 THEN Thrown
            ELSE After(ReadRlp(Tail(bytes)), LAMBDA list : FieldsOf(list.items))
    IN  Envelope(HexToBytes(hex, Undefined))

(* What the envelope of a transaction says of it: it does not tell class or   *)
(* tier 0 from none, no data from empty data, data of an odd number of digits *)
(* from the same with a zero before it, nor yParity from v.                   *)
Said(signature) ==
    IF signature = Undefined THEN Undefined
    ELSE [v |-> OrElse(signature.v, OrElse(signature.yParity, 0)),
          r |-> Worth(signature.r, 16), s |-> Worth(signature.s, 16)]

Meaning(tx, signature) ==
    LET NonZero(value) == IF value = 0 THEN Undefined ELSE value
        said == [tx EXCEPT !.data = EvenDigits(OrElse(@, <<>>)),
                           !.terminalClass = NonZero(@), !.trustTier = NonZero(@)]
    IN  [field \in DOMAIN tx \ {"type"} |-> said[field]]
        @@ [execution |-> Said(ExecutionSignature(signature)),
            sponsorship |-> Said(SponsorSignature(signature))]
=============================================================================
