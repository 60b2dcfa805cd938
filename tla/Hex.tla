-------------------------------- MODULE Hex --------------------------------
(* The hex and byte conversions of src/src/utils/data and                    *)
(* src/src/utils/encoding.                                                   *)
(*                                                                           *)
(* A hex value is the sequence of its digits (0..15), without the prefix     *)
(* "0x"; a byte array is the sequence of its bytes (0..255); a text is the   *)
(* byte array of its UTF-8 encoding.  An option the caller leaves out is     *)
(* Undefined, and a conversion that throws gives Thrown.  A size is in       *)
(* bytes, and 0 is as falsy here as it is in the code.                       *)
EXTENDS Integers, SequencesExt

CONSTANTS
    Thrown,      \* the result of a call that throws
    Undefined,   \* an option that is not given
    MaxSafe,     \* Number.MAX_SAFE_INTEGER
    Word         \* the bytes of a word, which an address and a hash are too: 32

ASSUME HexAssumption == MaxSafe \in Nat /\ Word \in Nat \ {0}

Given(option) == option \notin {Undefined, 0}
Zeros(n) == [i \in 1 .. n |-> 0]
Least(a, b) == IF a < b THEN a ELSE b
Greatest(a, b) == IF a < b THEN b ELSE a

(* What a call returns goes into the next one, and what it throws goes on. *)
After(value, Then(_)) == IF value = Thrown THEN Thrown ELSE Then(value)

(* What a sequence of digits is worth: BigInt("0x...").  BigInt("0x") throws. *)
Worth(digits, base) ==
    LET worth[i \in 0 .. Len(digits)] ==
            IF i = 0 THEN 0 ELSE base * worth[i - 1] + digits[i]
    IN  worth[Len(digits)]

(* base ^ n, of which the provers know nothing: what a 1 and n zeros are worth. *)
Power(base, n) == Worth(<<1>> \o Zeros(n), base)

(* toString(base) of a number that is not negative. *)
DigitsIn(base) ==
    LET digits[n \in Nat] ==
            IF n < base THEN <<n>> ELSE Append(digits[n \div base], n % base)
    IN  digits

Digits(number, base) == DigitsIn(base)[number]

-----------------------------------------------------------------------------
(* utils/data *)

Size(hex) == (Len(hex) + 1) \div 2

(* padHex takes digits two to a byte, padBytes takes bytes. *)
Pad(value, length, dir) ==
    IF Len(value) > length THEN Thrown
    ELSE IF dir = "right" THEN value \o Zeros(length - Len(value))
         ELSE Zeros(length - Len(value)) \o value

PadHex(hex, size, dir) == Pad(hex, 2 * size, dir)
PadBytes(bytes, size, dir) == Pad(bytes, size, dir)

(* assertSize and the padding to the size, when there is one. *)
Sized(hex, size, dir) ==
    IF size = Undefined THEN hex
    ELSE IF Size(hex) > size THEN Thrown ELSE PadHex(hex, size, dir)

(* A zero in front of an odd number of digits. *)
EvenDigits(digits) == IF Len(digits) % 2 = 1 THEN <<0>> \o digits ELSE digits

(* The zeros the loop of trim counts: it never reaches the last element. *)
ZeroRun(data) ==
    CHOOSE n \in 0 .. Greatest(Len(data) - 1, 0) :
        /\ \A i \in 1 .. n : data[i] = 0
        /\ n < Len(data) - 1 => data[n + 1] # 0

(* value.replace(/x+$/, ""): without the x it ends in. *)
TrimEnd(data, x) ==
    SubSeq(data, 1, Len(data) - (CHOOSE n \in 0 .. Len(data) :
                                    /\ \A i \in 1 .. n : data[Len(data) + 1 - i] = x
                                    /\ n < Len(data) => data[Len(data) - n] # x))

TrimBytes(bytes, dir) ==
    IF dir = "left" THEN SubSeq(bytes, ZeroRun(bytes) + 1, Len(bytes))
    ELSE SubSeq(bytes, 1, Len(bytes) - ZeroRun(Reverse(bytes)))

TrimHex(hex, dir) ==
    LET data == TrimBytes(hex, dir)
    IN  EvenDigits(IF Len(data) = 1 /\ dir = "right" THEN Append(data, 0) ELSE data)

(* Array.prototype.slice: a negative index counts from the end. *)
Position(index, length) ==
    IF index < 0 THEN Greatest(length + index, 0) ELSE Least(index, length)

SubArray(data, start, end) ==
    SubSeq(data, Position(start, Len(data)) + 1, Position(end, Len(data)))

(* slice, of a hex value (two digits to a byte) and of a byte array (one). *)
SliceOf(value, width, start, end, strict) ==
    LET SizeOf(v) == (Len(v) + width - 1) \div width
        part == SubArray(value,
                         IF start = Undefined THEN 0 ELSE start * width,
                         IF end = Undefined THEN Len(value) ELSE end * width)
    IN  IF \/ start # Undefined /\ start > 0 /\ start > SizeOf(value) - 1
           \/ /\ strict /\ start # Undefined /\ end # Undefined
              /\ SizeOf(part) # end - start
        THEN Thrown ELSE part

SliceHex(hex, start, end, strict) == SliceOf(hex, 2, start, end, strict)
SliceBytes(bytes, start, end, strict) == SliceOf(bytes, 1, start, end, strict)

ConcatHex(values) == FlattenSeq(values)

-----------------------------------------------------------------------------
(* utils/encoding/toHex.ts *)

BoolToHex(value, size) == Sized(IF value THEN <<1>> ELSE <<0>>, size, "left")

(* The two digits of every byte. *)
Nibbles(bytes) ==
    [i \in 1 .. 2 * Len(bytes) |->
       IF i % 2 = 1 THEN bytes[(i + 1) \div 2] \div 16 ELSE bytes[i \div 2] % 16]

BytesToHex(bytes, size) == Sized(Nibbles(bytes), size, "right")

(* Mutant: the sign bit is not left out of the range. *)
MaxValueOfWidth(big, signed, size) ==
    IF Given(size) THEN Power(2, 8 * size) - 1 ELSE IF big THEN Undefined ELSE MaxSafe

(* The largest value numberToHex takes: a bigint of no given size has none. *)
MaxValue(big, signed, size) ==
    IF Given(size) THEN Power(2, IF signed THEN 8 * size - 1 ELSE 8 * size) - 1
    ELSE IF big THEN Undefined ELSE MaxSafe

NumberToHex(value, big, signed, size) ==
    LET max == MaxValue(big, signed, size)
        min == IF max # Undefined /\ signed THEN - max - 1 ELSE 0
        twos == IF signed /\ value < 0 THEN Power(2, 8 * size) + value ELSE value
    IN  IF (max # Undefined /\ value > max) \/ value < min THEN Thrown
        ELSE Sized(Digits(twos, 16), IF Given(size) THEN size ELSE Undefined, "left")

StringToHex(text, size) == BytesToHex(text, size)

-----------------------------------------------------------------------------
(* utils/encoding/toBytes.ts *)

(* The byte of every two digits. *)
Paired(digits) ==
    [i \in 1 .. Len(digits) \div 2 |-> 16 * digits[2 * i - 1] + digits[2 * i]]

HexToBytes(hex, size) ==
    After(Sized(hex, IF Given(size) THEN size ELSE Undefined, "right"),
          LAMBDA sized : Paired(EvenDigits(sized)))

BoolToBytes(value, size) ==
    LET bytes == IF value THEN <<1>> ELSE <<0>>
    IN  IF size = Undefined THEN bytes ELSE PadBytes(bytes, size, "left")

NumberToBytes(value, big, signed, size) ==
    After(NumberToHex(value, big, signed, size), LAMBDA hex : HexToBytes(hex, Undefined))

StringToBytes(text, size) ==
    IF size = Undefined THEN text ELSE PadBytes(text, size, "right")

-----------------------------------------------------------------------------
(* utils/encoding/fromHex.ts *)

(* The sign is read off the width of the digits, not off the size given; the *)
(* width of an odd number of digits is not an integer, and BigInt(width)     *)
(* throws.                                                                   *)
HexToBigInt(hex, signed, size) ==
    LET value == Worth(hex, 16)
    IN  IF \/ Given(size) /\ Size(hex) > size
           \/ hex = <<>>
           \/ signed /\ Len(hex) % 2 = 1
        THEN Thrown
        ELSE IF signed /\ value > Power(2, 4 * Len(hex) - 1) - 1
             THEN value - (Power(16, Len(hex)) - 1) - 1
             ELSE value

HexToNumber(hex, signed, size) ==
    After(HexToBigInt(hex, signed, size),
          LAMBDA value : IF value > MaxSafe \/ value < - MaxSafe THEN Thrown ELSE value)

HexToBool(hex, size) ==
    LET trimmed == TrimHex(hex, "left")
    IN  IF Given(size) /\ Size(hex) > size THEN Thrown
        ELSE CASE trimmed = <<0, 0>> -> FALSE
               [] trimmed = <<0, 1>> -> TRUE
               [] OTHER -> Thrown

(* A TextDecoder takes one byte order mark in front off; the rest of the     *)
(* bytes of a text come back as they are.  Bytes that are no UTF-8 are left  *)
(* out.                                                                      *)
Mark == <<239, 187, 191>>
Marked(bytes) == Len(bytes) >= 3 /\ SubSeq(bytes, 1, 3) = Mark
Decode(bytes) == IF Marked(bytes) THEN SubSeq(bytes, 4, Len(bytes)) ELSE bytes

HexToString(hex, size) ==
    LET Cut(bytes) == IF ~Given(size) THEN bytes
                      ELSE IF Len(bytes) > size THEN Thrown ELSE TrimBytes(bytes, "right")
    IN  After(Cut(HexToBytes(hex, Undefined)), Decode)

-----------------------------------------------------------------------------
(* The reference: the numbers that fit a size. *)
InRange(value, big, signed, size) ==
    IF Given(size)
    THEN IF signed THEN value >= - Power(2, 8 * size - 1) /\ value < Power(2, 8 * size - 1)
         ELSE value >= 0 /\ value < Power(2, 8 * size)
    ELSE value >= 0 /\ (big \/ value <= MaxSafe)
=============================================================================
