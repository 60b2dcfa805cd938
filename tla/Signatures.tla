----------------------------- MODULE Signatures -----------------------------
(* Signing and verifying for the signer types: accounts/utils/nativeSigner.ts,*)
(* accounts/utils/sign*.ts and utils/signature.                              *)
(*                                                                           *)
(* The curves are external: a curve's signature is a pair of parts that      *)
(* determines its type, key and hash, and a public key is named by its       *)
(* private key.  The ElGamal scheme is the module's own: its group is the    *)
(* integers modulo a small prime, its generator H is 1, and a point is its   *)
(* discrete logarithm.                                                       *)
EXTENDS TransactionEnvelope

CONSTANTS
    BlsPart,   \* the bytes of a part of a bls12-381 signature: 48
    Order      \* the order of the ElGamal group, a small prime

ASSUME SignaturesAssumption ==
    /\ BlsPart \in Nat \ {0}
    /\ Order \in 3 .. 255 /\ \A n \in 2 .. Order - 1 : Order % n # 0

SignerTypes == {"secp256k1", "secp256r1", "ed25519", "bls12-381", "elgamal"}

(* The name has been trimmed and its letters lowered. *)
NormalizeSignerType(name) ==
    CASE name = Undefined \/ name = "" \/ name = "ethereum_secp256k1" -> "secp256k1"
      [] name = "bls12381" -> "bls12-381"
      [] name \in SignerTypes -> name
      [] OTHER -> Thrown

PartLength(type) == IF type = "bls12-381" THEN BlsPart ELSE Word

-----------------------------------------------------------------------------
(* External: keccak256 as a checksum of a word, and the four curves. *)
RECURSIVE Checksum(_, _, _)
Checksum(hex, first, last) ==
    IF first > last THEN 0
    ELSE LET middle == (first + last) \div 2
         IN  ((17 * middle + 1) * hex[middle] + Checksum(hex, first, middle - 1)
                + Checksum(hex, middle + 1, last)) % 251

(* Of bytes: an odd number of digits gets a zero in front before it is hashed.*)
Keccak256(hex) ==
    LET digits == EvenDigits(hex)
    IN  Zeros(Word - 1) \o <<1 + Checksum(digits, 1, Len(digits))>>

CurveIndex(type) ==
    CASE type = "secp256k1" -> 1 [] type = "secp256r1" -> 2
      [] type = "ed25519" -> 3   [] type = "bls12-381" -> 4

CurveSign(type, key, hash) ==
    LET length == PartLength(type)
    IN  Zeros(length - 2) \o <<hash[Word - 1], 8 * key + CurveIndex(type)>>
        \o Zeros(length - 1) \o <<hash[Word]>>

CurveVerify(type, raw, hash, publicKey) == raw = CurveSign(type, publicKey, hash)

CurveRecovery(key, hash) == (key + hash[Word]) % 2

(* The public key that a compact signature and a recovery bit give: 0 when    *)
(* the bit is wrong.                                                          *)
CurveRecover(compact, recovery, hash) ==
    LET key == compact[Word] \div 8
    IN  IF CurveSign("secp256k1", key, hash) = compact /\ recovery = CurveRecovery(key, hash)
        THEN key ELSE 0

-----------------------------------------------------------------------------
(* ElGamal.  Multiplying a point by 0 throws, and so does a scalar that is    *)
(* not below the order.                                                       *)
InverseOf(scalar) == CHOOSE n \in 1 .. Order - 1 : (scalar * n) % Order = 1
ScalarBytes(scalar) == <<scalar>> \o Zeros(Word - 1)
ScalarFromCanonicalBytes(bytes) ==
    LET scalar == Worth(Reverse(bytes), 256) IN IF scalar < Order THEN scalar ELSE Thrown

ElgamalPublicKeyFromPrivateKey(key) ==
    IF key % Order = 0 THEN Thrown ELSE InverseOf(key)

(* External: the digest of key, hash and point, modulo the order. *)
ElgamalHashToScalar(publicKey, hash, point) ==
    (3 * publicKey + 2 * hash[Word] + hash[Word - 1] + 5 * point + 1) % Order

SignElgamal(hash, key, k) ==
    LET publicKey == InverseOf(key)
        e == ElgamalHashToScalar(publicKey, hash, k)
        s == (publicKey * e + k) % Order
    IN  IF key % Order = 0 THEN Thrown ELSE ScalarBytes(s) \o ScalarBytes(e)

VerifyElgamal(hash, publicKey, raw) ==
    LET Verifies(s, e) ==
            /\ s \notin {Thrown, 0} /\ e \notin {Thrown, 0}
            /\ e = ElgamalHashToScalar(publicKey, hash, (s + publicKey * (Order - e)) % Order)
    IN  /\ Len(raw) = 2 * Word
        /\ Verifies(ScalarFromCanonicalBytes(SubArray(raw, 0, Word)),
                    ScalarFromCanonicalBytes(SubArray(raw, Word, 2 * Word)))

-----------------------------------------------------------------------------
Signature(r, s, v, yParity) == [r |-> r, s |-> s, v |-> v, yParity |-> yParity]

NormalizeRecovery(value) == IF value \in {27, 28} THEN value - 27 ELSE value % 2

RawBytesToSignature(raw, type) ==
    LET part == PartLength(type)
        compact == type = "secp256k1"
        Part(start, end) == BytesToHex(SubArray(raw, start, end), part)
        recovery == IF Len(raw) = 2 * Word + 1 THEN NormalizeRecovery(raw[2 * Word + 1]) ELSE 0
    IN  Signature(Part(0, part), Part(part, IF compact THEN 2 * part ELSE Len(raw)),
                  IF ~compact THEN 0 ELSE IF recovery = 1 THEN 28 ELSE 27,
                  IF compact THEN recovery ELSE Undefined)

SignatureToCanonicalBytes(signature, type) ==
    LET recovery == OrElse(signature.yParity, IF signature.v = 28 THEN 1 ELSE 0)
        Canonical(r, s) ==
            IF type = "secp256k1" THEN r \o s \o <<IF recovery = 0 THEN 27 ELSE 28>>
            ELSE PadBytes(r, PartLength(type), "left") \o PadBytes(s, PartLength(type), "left")
    IN  Canonical(HexToBytes(signature.r, Undefined), HexToBytes(signature.s, Undefined))

(* The raw signature: the curve's parts, and for secp256k1 the recovery bit. *)
RawSignature(type, hash, key, k) ==
    CASE type = "secp256k1" -> CurveSign(type, key, hash) \o <<CurveRecovery(key, hash)>>
      [] type = "elgamal" -> SignElgamal(hash, key, k)
      [] OTHER -> CurveSign(type, key, hash)

(* What signHash hands out of a signature: itself, its bytes or their hex. *)
Delivered(signature, type, to) ==
    LET As(canonical) == IF to = "bytes" THEN canonical ELSE BytesToHex(canonical, Undefined)
    IN  IF to = "object" THEN signature ELSE As(SignatureToCanonicalBytes(signature, type))

SignHash(hash, key, name, to, k) ==
    After(NormalizeSignerType(name), LAMBDA type :
      After(RawSignature(type, hash, key, k), LAMBDA raw :
        Delivered(RawBytesToSignature(raw, type), type, to)))

(* The lengths a raw signature of the type may have; the byte behind one of  *)
(* secp256k1 is dropped, the byte behind one of secp256r1 must be 0.         *)
NormalizeRawSignature(raw, type) ==
    LET whole == 2 * PartLength(type)
        extra == Len(raw) = whole + 1
                   /\ (type = "secp256k1" \/ (type = "secp256r1" /\ raw[whole + 1] = 0))
    IN  IF Len(raw) = whole THEN raw
        ELSE IF extra THEN SubSeq(raw, 1, whole) ELSE Thrown

PaddedParts(signature, length) ==
    LET Part(hex) == PadBytes(HexToBytes(hex, Undefined), length, "left")
    IN  After(Part(signature.r), LAMBDA r : After(Part(signature.s), LAMBDA s : r \o s))

(* Mutant: the parts of an object are not padded. *)
SignatureToRawBytesUnpadded(signature, form, name) ==
    IF form = "object"
    THEN HexToBytes(signature.r, Undefined) \o HexToBytes(signature.s, Undefined)
    ELSE NormalizeRawSignature(IF form = "hex" THEN HexToBytes(signature, Undefined)
                               ELSE signature, NormalizeSignerType(name))

SignatureToRawBytes(signature, form, name) ==
    IF form = "object" THEN PaddedParts(signature, PartLength(NormalizeSignerType(name)))
    ELSE NormalizeRawSignature(IF form = "hex" THEN HexToBytes(signature, Undefined)
                               ELSE signature, NormalizeSignerType(name))

PublicKeyOf(key, name) ==
    IF NormalizeSignerType(name) = "elgamal" THEN ElgamalPublicKeyFromPrivateKey(key) ELSE key

VerifyHashSignature(hash, publicKey, name, signature, form) ==
    After(NormalizeSignerType(name), LAMBDA type :
      After(SignatureToRawBytes(signature, form, name), LAMBDA raw :
        IF type = "elgamal" THEN VerifyElgamal(hash, publicKey, raw)
        ELSE CurveVerify(type, raw, hash, publicKey)))

-----------------------------------------------------------------------------
(* utils/signature, for secp256k1 *)

SerializeSignature(signature) ==
    LET v == OrElse(signature.v, 0)
        yParity == CASE signature.yParity \in {0, 1} -> signature.yParity
                     [] signature.yParity \notin {0, 1} /\ (v \in {27, 28} \/ v >= 35) ->
                           IF v % 2 = 0 THEN 1 ELSE 0
                     [] OTHER -> Thrown
        Part(hex) == PadHex(Digits(Worth(hex, 16), 16), Word, "left")
    IN  After(yParity, LAMBDA parity : Part(signature.r) \o Part(signature.s)
                                         \o (IF parity = 0 THEN <<1, 11>> ELSE <<1, 12>>))

ToRecoveryBit(yParityOrV) ==
    CASE yParityOrV \in {0, 1} -> yParityOrV
      [] yParityOrV \in {27, 28} -> yParityOrV - 27
      [] OTHER -> Thrown

(* From an object the parts are numbers, so their leading zeros do not count. *)
RecoverPublicKey(hash, signature, form) ==
    LET From(compact, bit) ==
            IF Thrown \in {compact, bit} THEN Thrown ELSE CurveRecover(compact, bit, hash)
        FromHex(hex) ==
            IF Size(hex) # 2 * Word + 1 THEN Thrown
            ELSE From(HexToBytes(SubSeq(hex, 1, 4 * Word), Undefined),
                      ToRecoveryBit(HexToNumber(SubSeq(hex, 4 * Word + 1, Len(hex)),
                                                FALSE, Undefined)))
    IN  IF form = "object"
        THEN From(PaddedParts(signature, Word),
                  ToRecoveryBit(OrElse(signature.yParity, signature.v)))
        ELSE FromHex(IF form = "hex" THEN signature ELSE BytesToHex(signature, Undefined))

-----------------------------------------------------------------------------
(* accounts/utils *)

HashTransaction(tx) == After(SerializeTransaction(tx, Undefined), Keccak256)

SignAuthorization(tx, key, name, k) ==
    After(HashTransaction(tx), LAMBDA hash : SignHash(hash, key, name, "object", k))

SignTransaction(tx, key, name, k) ==
    After(SignAuthorization(tx, key, name, k),
          LAMBDA signature : SerializeTransaction(tx, signature))
=============================================================================
