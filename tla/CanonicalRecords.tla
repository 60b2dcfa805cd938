--------------------------- MODULE CanonicalRecords ---------------------------
(* The canonical texts that receipts and summaries are hashed by (utils/     *)
(* artifact.ts, storage.ts, settlement.ts, market.ts), the surfaces that     *)
(* report them, and the schema references of src/src/schema.                 *)
(*                                                                           *)
(* A value is a pair of its kind and what it holds: an array a sequence of   *)
(* values, an object the sequence of its members <<key, value>> in the order *)
(* they were written in.  Keys are numbers, in the order of their texts.     *)
EXTENDS Hex, TLC

CONSTANTS
    Status,      \* the key "status"
    Verified     \* the value "verified"

NoValue == <<"undefined", 0>>
NullValue == <<"null", 0>>

(* Mutant: the elements of an array are left as they are. *)
RECURSIVE SortValueOfObjects(_)
SortValueOfObjects(value) ==
    IF value[1] = "bigint" THEN <<"text", Digits(value[2], 10)>>
    ELSE IF value[1] = "object"
    THEN LET Defined(member) == SortValueOfObjects(member[2]) # NoValue
             Before(a, b) == a[1] < b[1]
             members == SortSeq(SelectSeq(value[2], Defined), Before)
         IN  <<"object", [i \in DOMAIN members |->
                            <<members[i][1], SortValueOfObjects(members[i][2])>>]>>
    ELSE value

(* A date is an object of no members of its own. *)
RECURSIVE SortValue(_)
SortValue(value) ==
    CASE value[1] = "array" -> <<"array", [i \in DOMAIN value[2] |-> SortValue(value[2][i])]>>
      [] value[1] = "bigint" -> <<"text", Digits(value[2], 10)>>
      [] value[1] = "date" -> <<"object", <<>> >>
      [] value[1] = "object" ->
            LET Defined(member) == SortValue(member[2]) # NoValue
                Before(a, b) == a[1] < b[1]
                members == SortSeq(SelectSeq(value[2], Defined), Before)
            IN  <<"object", [i \in DOMAIN members |->
                               <<members[i][1], SortValue(members[i][2])>>]>>
      [] OTHER -> value

(* JSON.stringify of a sorted value, whose text stands for the value that a  *)
(* reader makes of it.  An array has null for what has no text.              *)
RECURSIVE Stringify(_)
Stringify(value) ==
    CASE value[1] = "array" ->
            <<"array", [i \in DOMAIN value[2] |->
                          IF value[2][i] = NoValue THEN NullValue ELSE Stringify(value[2][i])]>>
      [] value[1] = "object" ->
            <<"object", [i \in DOMAIN value[2] |->
                           <<value[2][i][1], Stringify(value[2][i][2])>>]>>
      [] value = <<"NaN", 0>> -> NullValue
      [] OTHER -> value

CanonicalizeArtifactValue(value) == Stringify(SortValue(value))
CanonicalizeStorageValue(value) == Stringify(SortValue(value))
CanonicalizeSettlementValue(value) == Stringify(SortValue(value))
CanonicalizeMarketBindingValue(value) == Stringify(SortValue(value))

(* External: keccak256, without collisions.  What has no text has no hash.   *)
HashOf(text) == IF text = NoValue THEN Thrown ELSE <<"hash", text>>

HashArtifactValue(value) == HashOf(CanonicalizeArtifactValue(value))
HashStorageValue(value) == HashOf(CanonicalizeStorageValue(value))
HashSettlementValue(value) == HashOf(CanonicalizeSettlementValue(value))
HashMarketBindingValue(value) == HashOf(CanonicalizeMarketBindingValue(value))

(* A receipt is verified when it says so: its member with the key of status. *)
StatusOf(receipt) ==
    LET members == {receipt[2][i] : i \in DOMAIN receipt[2]}
    IN  IF \E m \in members : m[1] = Status
        THEN (CHOOSE m \in members : m[1] = Status)[2] ELSE NoValue

VerifyEvidenceReceipt(receipt) ==
    [receiptHash |-> HashArtifactValue(receipt),
     canonical |-> CanonicalizeArtifactValue(receipt),
     isVerified |-> StatusOf(receipt) = Verified]

VerifyProofArtifactReceipt(receipt) ==
    [receiptHash |-> HashArtifactValue(receipt),
     canonical |-> CanonicalizeArtifactValue(receipt),
     status |-> StatusOf(receipt)]

-----------------------------------------------------------------------------
(* schema: a reference has the names of the fields and of the required ones. *)
CreateSchemaReference(fields, requiredFields) ==
    [fields |-> fields, requiredFields |-> requiredFields]

(* The keys of a record are counted, whatever they hold: undefined too. *)
ValidateAgainstSchema(schema, value) ==
    [valid |-> schema.requiredFields \ DOMAIN value = {},
     missingRequired |-> schema.requiredFields \ DOMAIN value,
     missingOptional |-> (schema.fields \ schema.requiredFields) \ DOMAIN value,
     extraFields |-> DOMAIN value \ schema.fields]

DetectDrift(schema, value) ==
    LET missing == schema.fields \ DOMAIN value
        added == DOMAIN value \ schema.fields
    IN  [hasDrift |-> missing # {} \/ added # {},
         missingFromSchema |-> missing, addedBeyondSchema |-> added]

PaymasterAuthorizeFields ==
    {"requester", "quote_id", "wallet_address", "request_nonce", "request_expires_at",
     "execution_nonce", "target", "value_tomi", "data", "gas", "execution_signature"}

PaymasterAuthorizeRequestSchema ==
    CreateSchemaReference(PaymasterAuthorizeFields \union {"reason"}, PaymasterAuthorizeFields)

-----------------------------------------------------------------------------
(* The reference: what a record means, without an order of its members. *)
RECURSIVE MeaningOf(_)
MeaningOf(value) ==
    CASE value[1] = "array" ->
            <<"array", [i \in DOMAIN value[2] |->
                          IF value[2][i] = NoValue THEN NullValue ELSE MeaningOf(value[2][i])]>>
      [] value[1] = "object" ->
            LET held == {i \in DOMAIN value[2] : value[2][i][2] # NoValue}
            IN  <<"object", {<<value[2][i][1], MeaningOf(value[2][i][2])>> : i \in held}>>
      [] value[1] = "date" -> <<"object", {}>>
      [] value[1] = "bigint" -> <<"text", Digits(value[2], 10)>>
      [] value = <<"NaN", 0>> -> NullValue
      [] OTHER -> value
=============================================================================
