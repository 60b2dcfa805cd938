---------------------------- MODULE RpcParameters ----------------------------
(* The parameters of requests and the records of answers, as the public and  *)
(* the wallet client write and read them: the serialize* and parse* functions*)
(* of createPublicClient.ts and createWalletClient.ts.                       *)
(*                                                                           *)
(* A format maps each field of the result to the way it is made: the field   *)
(* it is made `of`, the `form` it is given, and `when` it is there at all.   *)
(* The digits 10..15 of an address are 26..31 in upper case.                 *)
EXTENDS Hex

CONSTANT Null    \* JSON's null

Made(when, form, of) == [when |-> when, form |-> form, of |-> of]
Always(form, names) == [n \in names |-> Made("always", form, n)]

(* Mutant: an option is tested for being truthy, and so is a 0. *)
IfNotZero(form, names) == [n \in names |-> Made("truthy", form, n)]

(* typeof value !== 'undefined' ? ... : {} *)
IfDefined(form, names) == [n \in names |-> Made("defined", form, n)]

(* value ? ... : {} *)
IfTruthy(form, names) == [n \in names |-> Made("truthy", form, n)]

Renamed(name, made) == [n \in {name} |-> made]

(* The fields of both. *)
f ++ g == [n \in DOMAIN f \union DOMAIN g |-> IF n \in DOMAIN f THEN f[n] ELSE g[n]]

LowerCase(address) == [i \in DOMAIN address |->
                         IF address[i] > 15 THEN address[i] - 16 ELSE address[i]]

GetAddress(address) ==
    IF address \in {Undefined, Null} \/ Len(address) # 2 * Word THEN Thrown ELSE LowerCase(address)

(* numberToHex, getAddress, normalizeBlockTag, or the value as it is. *)
Quantity(value) ==
    IF value = Undefined THEN Thrown ELSE NumberToHex(value, TRUE, FALSE, Undefined)

Block(value) ==
    IF DOMAIN value = {"number"} THEN Quantity(value.number) ELSE value

Written(form, value) ==
    CASE form = "quantity" -> Quantity(value)
      [] form = "account" -> GetAddress(value)
      [] form = "block" -> Block(value)
      [] form = "plain" -> value

(* A string or an object is truthy whenever it is given, a number unless it  *)
(* is 0.                                                                     *)
Truthy(form, value) == value \notin {Undefined, Null} /\ (form = "quantity" => value # 0)

IsThere(made, value) ==
    CASE made.when = "always" -> TRUE
      [] made.when = "defined" -> value # Undefined
      [] made.when = "truthy" -> Truthy(made.form, value)

Throwing(values) == IF \E i \in DOMAIN values : values[i] = Thrown THEN Thrown ELSE values

SerializeFields(format, p) ==
    LET there == {n \in DOMAIN format : IsThere(format[n], p[format[n].of])}
        out == [n \in there |-> Written(format[n].form, p[format[n].of])]
    IN  Throwing(out)

-----------------------------------------------------------------------------
(* createPublicClient.ts *)

RpcTransactionRequest ==
    IfTruthy("account", {"from"}) ++ Always("account", {"to"})
    ++ IfDefined("plain", {"gas", "value", "data"})

LeaseDeploy ==
    Always("account", {"from"}) ++ IfDefined("quantity", {"nonce", "gas", "value"})
    ++ Always("plain", {"code"}) ++ Always("quantity", {"leaseBlocks"})
    ++ IfDefined("account", {"leaseOwner"})

PrivTransfer ==
    Always("plain", {"from", "to", "commitment", "senderHandle", "receiverHandle",
                     "sourceCommitment", "ctValidityProof", "commitmentEqProof", "rangeProof",
                     "s", "e"})
    ++ Always("quantity", {"privNonce", "fee", "feeLimit"})
    ++ IfDefined("plain", {"encryptedMemo", "memoSenderHandle", "memoReceiverHandle"})

PrivShield ==
    Always("plain", {"pubkey", "recipient", "commitment", "handle", "shieldProof",
                     "rangeProof", "s", "e"})
    ++ Always("quantity", {"privNonce", "fee", "amount"})

PrivUnshield ==
    Always("account", {"recipient"})
    ++ Always("plain", {"pubkey", "sourceCommitment", "commitmentEqProof", "rangeProof",
                        "s", "e"})
    ++ Always("quantity", {"privNonce", "fee", "amount"})

LeaseClose ==
    Always("account", {"from"}) ++ IfDefined("quantity", {"nonce", "gas"})
    ++ Renamed("contractAddr", Made("always", "account", "contractAddress"))

LeaseRenew == LeaseClose ++ Always("quantity", {"deltaBlocks"})

DisclosureProof ==
    Always("plain", {"privkey", "pubkey", "commitment", "handle"})
    ++ Always("quantity", {"amount", "blockNumber"})

VerifyDisclosure ==
    Always("plain", {"pubkey", "commitment", "handle", "proof"})
    ++ Always("quantity", {"amount", "blockNumber"})

DecryptionToken ==
    Always("plain", {"privkey", "pubkey", "commitment", "handle"})
    ++ Always("quantity", {"blockNumber"})

OverrideAccount ==
    IfDefined("quantity", {"nonce", "balance"}) ++ IfDefined("plain", {"code"})
    ++ IfTruthy("plain", {"state", "stateDiff"})

(* The overrides are pairs of an address and its override, in the order of   *)
(* the caller's object; of two spellings of one address the later one stays. *)
SerializeOverrideMap(overrides) ==
    LET Key(i) == GetAddress(overrides[i][1])
        Spelt(address) == {i \in DOMAIN overrides : Key(i) = address}
        Latest(address) == CHOOSE i \in Spelt(address) : \A j \in Spelt(address) : j <= i
        out == [a \in {Key(i) : i \in DOMAIN overrides} |->
                  SerializeFields(OverrideAccount, overrides[Latest(a)][2])]
    IN  IF \E i \in DOMAIN overrides :
              Key(i) = Thrown \/ SerializeFields(OverrideAccount, overrides[i][2]) = Thrown
        THEN Thrown ELSE out

(* createWalletClient.ts *)

Maintenance == Always("account", {"from"}) ++ IfDefined("quantity", {"nonce", "gas"})
Evidence == Maintenance ++ Always("plain", {"evidence"})
SetSigner == Maintenance ++ Always("plain", {"signerType", "signerValue"})

AgentPublish ==
    Always("account", {"primaryIdentity"}) ++ Always("plain", {"capabilities"})
    ++ IfDefined("plain", {"connectionModes", "cardJson", "cardSequence"})

AgentPublishSuggested ==
    Always("account", {"address", "primaryIdentity"})
    ++ IfDefined("plain", {"connectionModes", "cardSequence"})
    ++ Renamed("block", Made("defined", "block", "blockTag"))

(* The fields of a system action; its text is JSON. *)
SystemAction == Always("plain", {"action"}) ++ IfTruthy("plain", {"payload"})

SerializeFormats ==
    {RpcTransactionRequest, LeaseDeploy, PrivTransfer, PrivShield, PrivUnshield, LeaseClose,
     LeaseRenew, DisclosureProof, VerifyDisclosure, DecryptionToken, OverrideAccount,
     Maintenance, Evidence, SetSigner, AgentPublish, AgentPublishSuggested, SystemAction}

-----------------------------------------------------------------------------
(* parseRpcQuantity, BigInt of the digits; `quantity?` is 0n for a value that*)
(* is not there.                                                             *)
ParseRpcQuantity(hex) ==
    IF hex \in {Undefined, Null, <<>>} THEN Thrown ELSE Worth(hex, 16)

QuantityRow(row) == Throwing([i \in DOMAIN row |-> ParseRpcQuantity(row[i])])

Read(form, value) ==
    CASE form = "quantity" -> ParseRpcQuantity(value)
      [] form = "quantity?" -> IF value \in {Undefined, Null} THEN 0 ELSE ParseRpcQuantity(value)
      [] form = "quantities" -> QuantityRow(value)
      [] form = "rows" -> Throwing([i \in DOMAIN value |-> QuantityRow(value[i])])
      [] form = "account" -> GetAddress(value)
      [] form = "plain" -> value

ParseFields(format, record) ==
    LET there == {n \in DOMAIN format : IsThere(format[n], record[format[n].of])}
        out == [n \in there |-> Read(format[n].form, record[format[n].of])]
    IN  IF record = Null THEN Null ELSE Throwing(out)

LeaseRecord ==
    Always("account", {"address", "leaseOwner"})
    ++ Always("quantity", {"createdAtBlock", "expireAtBlock", "graceUntilBlock", "codeBytes",
                           "scheduledPruneEpoch", "scheduledPruneSeq", "tombstoneExpiredAt",
                           "blockNumber"})
    ++ Always("quantity?", {"depositTomi"})
    ++ Always("plain", {"status", "tombstoned", "tombstoneCodeHash"})

CodeObjectMeta ==
    Always("plain", {"codeHash", "expired"}) ++ Always("quantity", {"createdAt", "expireAt"})

CodeObject == CodeObjectMeta ++ Always("plain", {"code"})

PrivBalanceRecord ==
    Always("plain", {"pubkey", "commitment", "handle"})
    ++ Always("quantity", {"version", "privNonce", "blockNumber"})

(* The rows of rewards and the fees are quantities one by one. *)
FeeHistory ==
    Always("quantity", {"oldestBlock"}) ++ IfTruthy("quantities", {"baseFeePerGas"})
    ++ IfTruthy("rows", {"reward"}) ++ Always("plain", {"gasUsedRatio"})

(* The record in the field tx is taken to be part of the record around it. *)
BuiltTransaction ==
    Always("account", {"from", "to"}) ++ Always("quantity", {"nonce", "gas", "value"})
    ++ Always("plain", {"input", "raw"}) ++ IfTruthy("account", {"contractAddress"})

(* The wallet client's own copy. *)
BuiltTxResult == BuiltTransaction

ParseFormats ==
    {LeaseRecord, CodeObject, CodeObjectMeta, PrivBalanceRecord, FeeHistory,
     BuiltTransaction, BuiltTxResult}

-----------------------------------------------------------------------------
(* The reference: what the node reads in a field or writes into it, and the  *)
(* values a field can take.                                                  *)
SaidBy(form, value) ==
    CASE form = "account" -> LowerCase(value)
      [] form = "block" -> IF DOMAIN value = {"number"} THEN Digits(value.number, 16) ELSE value
      [] form = "quantity" -> Digits(value, 16)
      [] OTHER -> value

FitsForm(form, value) ==
    CASE form = "account" -> Len(value) = 2 * Word
      [] form = "quantity" -> value >= 0
      [] form = "block" -> DOMAIN value = {"number"} => value.number >= 0
      [] OTHER -> TRUE

WrittenByNode(form, value) ==
    CASE value \in {Undefined, Null} -> value
      [] value \notin {Undefined, Null} /\ form \in {"quantity", "quantity?"} -> Digits(value, 16)
      [] value \notin {Undefined, Null} /\ form = "account" ->
            [i \in DOMAIN value |-> IF value[i] > 9 THEN value[i] + 16 ELSE value[i]]
      [] value \notin {Undefined, Null} /\ form = "quantities" ->
            [i \in DOMAIN value |-> Digits(value[i], 16)]
      [] value \notin {Undefined, Null} /\ form = "rows" ->
            [i \in DOMAIN value |-> [j \in DOMAIN value[i] |-> Digits(value[i][j], 16)]]
      [] OTHER -> value
=============================================================================
