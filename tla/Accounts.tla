------------------------------- MODULE Accounts -------------------------------
(* Local accounts and what they sign: src/src/accounts, the messages of      *)
(* src/src/utils/signature, and the authorization a paymaster is asked for   *)
(* (createPaymasterProviderClient.ts).                                       *)
(*                                                                           *)
(* An account is a record of its address, public key and signer type, and of *)
(* the private key its methods close over.  A message is a text, or raw      *)
(* digits or bytes.                                                          *)
EXTENDS Signatures, TLC

(* External: the digits of a public key, and the text of a signer type. *)
TypeIndex(type) == IF type = "elgamal" THEN 5 ELSE CurveIndex(type)
PublicKeyHex(publicKey, type) == <<TypeIndex(type), publicKey>>
TypeText(name) == <<96 + TypeIndex(NormalizeSignerType(name))>>

PublicKeyToNativeAddress(publicKey, type) ==
    BytesToHex(Keccak256(PublicKeyHex(publicKey, type)), Undefined)

PublicKeyToAddress(publicKey) == PublicKeyToNativeAddress(publicKey, "secp256k1")

ToAccount(address, type) ==
    IF ~IsAddress(address) THEN Thrown
    ELSE [address |-> address, signerType |-> OrElse(type, "secp256k1")]

(* `given` is the type the factory gives toAccount. *)
AccountOf(key, type, given) ==
    After(PublicKeyOf(key, type), LAMBDA publicKey :
      After(ToAccount(PublicKeyToNativeAddress(publicKey, type), given), LAMBDA account :
        [account EXCEPT !.signerType = type] @@ [publicKey |-> publicKey, key |-> key]))

PrivateKeyToAccount(key) == AccountOf(key, "secp256k1", Undefined)
Secp256r1PrivateKeyToAccount(key) == AccountOf(key, "secp256r1", "secp256r1")
Bls12381PrivateKeyToAccount(key) == AccountOf(key, "bls12-381", "bls12-381")
ElgamalPrivateKeyToAccount(key) == AccountOf(key, "elgamal", "elgamal")

Accounts(key) ==
    {PrivateKeyToAccount(key), Secp256r1PrivateKeyToAccount(key),
     Bls12381PrivateKeyToAccount(key), ElgamalPrivateKeyToAccount(key)}

(* Mutant: the methods of an account forget its type. *)
NoTypeGiven(account) == Undefined

(* Every method of an account passes its own type, but for secp256k1, which  *)
(* leaves it to normalizeSignerType.                                         *)
TypeGiven(account) ==
    IF account.signerType = "secp256k1" THEN Undefined ELSE account.signerType

-----------------------------------------------------------------------------
(* The fixed part of the prefix is one byte here; the size is decimal text.  *)
(* Raw digits are put behind it as they are, an odd number of them too.      *)
ToPrefixedMessage(message) ==
    LET hex == CASE message.form = "text" -> StringToHex(message.raw, Undefined)
                 [] message.form = "bytes" -> BytesToHex(message.raw, Undefined)
                 [] message.form = "hex" -> message.raw
        Decimal(digits) == [i \in DOMAIN digits |-> 48 + digits[i]]
    IN  ConcatHex(<<StringToHex(<<25>> \o Decimal(Digits(Size(hex), 10)), Undefined), hex>>)

HashMessage(message) == Keccak256(ToPrefixedMessage(message))

SignMessage(message, account, k) ==
    SignHash(HashMessage(message), account.key, TypeGiven(account), "hex", k)

(* Whatever the signer's type: the key is recovered as one of secp256k1. *)
RecoverAddress(hash, signature, form) ==
    After(RecoverPublicKey(hash, signature, form), PublicKeyToAddress)

RecoverMessageAddress(message, signature, form) ==
    RecoverAddress(HashMessage(message), signature, form)

IsAddressEqual(a, b) == IF ~IsAddress(a) \/ ~IsAddress(b) THEN Thrown ELSE a = b

VerifyMessage(address, message, signature, form) ==
    After(RecoverMessageAddress(message, signature, form),
          LAMBDA recovered : IsAddressEqual(address, recovered))

-----------------------------------------------------------------------------
(* What buildTransaction makes of its parameters once it has every nonce: the*)
(* defaults, and the sponsor's fields for a sponsor alone.                   *)
BuildTransaction(p, account) ==
    [type |-> Undefined, chainId |-> p.chainId, nonce |-> p.nonce,
     gas |-> OrElse(p.gas, 21), value |-> OrElse(p.value, 0), data |-> OrElse(p.data, <<>>),
     to |-> p.to,
     from |-> OrElse(p.from, account.address),
     signerType |-> TypeText(OrElse(p.signerType, account.signerType)),
     sponsor |-> p.sponsor,
     sponsorSignerType |-> IF p.sponsor = Undefined THEN Undefined
                           ELSE TypeText(OrElse(p.sponsorSignerType, "secp256k1")),
     sponsorNonce |-> IF p.sponsor = Undefined THEN Undefined ELSE p.sponsorNonce,
     sponsorExpiry |-> IF p.sponsor = Undefined THEN Undefined ELSE p.sponsorExpiry,
     sponsorPolicyHash |-> IF p.sponsor = Undefined THEN Undefined ELSE p.sponsorPolicyHash,
     terminalClass |-> Undefined, trustTier |-> Undefined]

(* signAuthorization of the wallet client, for the account given to it. *)
Authorization(p, account, k) ==
    SignAuthorization(BuildTransaction(p, account), account.key, TypeGiven(account), k)

BuildPaymasterAuthorizationRequest(requester, quote, account, nonce, chainId, k) ==
    LET parameters ==
            [chainId |-> chainId, nonce |-> nonce, gas |-> quote.gas,
             to |-> quote.targetAddress, value |-> quote.valueTomi, data |-> quote.dataHex,
             from |-> quote.walletAddress, sponsor |-> quote.sponsorAddress,
             signerType |-> quote.requesterSignerType,
             sponsorSignerType |-> quote.sponsorSignerType,
             sponsorNonce |-> quote.sponsorNonce, sponsorExpiry |-> quote.sponsorExpiry,
             sponsorPolicyHash |-> quote.policyHash]
        Request(signature) ==
            [quote_id |-> quote.quoteId, wallet_address |-> quote.walletAddress,
             requester |-> requester.address, request_nonce |-> requester.nonce,
             request_expires_at |-> requester.expiresAt,
             execution_nonce |-> nonce, target |-> quote.targetAddress,
             value_tomi |-> quote.valueTomi, data |-> quote.dataHex, gas |-> quote.gas,
             execution_signature |-> signature]
            @@ (IF requester.reason \in {Undefined, <<>>} THEN <<>> ELSE "reason" :> requester.reason)
    IN  After(Authorization(parameters, account, k), Request)

-----------------------------------------------------------------------------
(* The reference: the transaction the paymaster makes of a request and its   *)
(* own quote, which both signatures must be over.                            *)
Sponsored(request, quote, chainId) ==
    [type |-> "native", chainId |-> chainId, nonce |-> request.execution_nonce,
     gas |-> request.gas, value |-> request.value_tomi, data |-> request.data,
     to |-> request.target, from |-> request.wallet_address,
     signerType |-> TypeText(quote.requesterSignerType), sponsor |-> quote.sponsorAddress,
     sponsorSignerType |-> TypeText(quote.sponsorSignerType),
     sponsorNonce |-> quote.sponsorNonce, sponsorExpiry |-> quote.sponsorExpiry,
     sponsorPolicyHash |-> quote.policyHash,
     terminalClass |-> Undefined, trustTier |-> Undefined]
=============================================================================
