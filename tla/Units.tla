-------------------------------- MODULE Units --------------------------------
(* parseUnits and formatUnits of src/src/utils/unit.                         *)
(*                                                                           *)
(* A decimal text is the record of what the regular expression of parseUnits *)
(* takes apart: the sign, the digits before the point and those after it.    *)
(* A text it refuses is not modelled.                                        *)
EXTENDS Hex

CONSTANT Bits \* of the significand of a double: 53

ASSUME DoubleAssumption == Bits \in Nat /\ Bits > 3

(* BigInt of a text of digits: BigInt("") is 0 and BigInt("-") throws. *)
BigIntOf(negative, digits) ==
    IF negative /\ digits = <<>> THEN Thrown
    ELSE IF negative THEN - Worth(digits, 10) ELSE Worth(digits, 10)

(* fraction.replace(/(0+)$/, "") *)
NoTrailingZeros(digits) == TrimEnd(digits, 0)

(* Mutant: a half is rounded down. *)
RoundHalfDown(unit, right) == unit + (IF right # <<>> /\ right[1] > 5 THEN 1 ELSE 0)

(* Math.round of the double nearest to unit.right.  Below unit + 1/2 the     *)
(* doubles are 2 / precision apart: the digits that lack no more than half of*)
(* that to the 1/2 become the 1/2, which Math.round rounds up.  Without any  *)
(* digits Number gives the unit or, for ".", NaN.                            *)
Round(unit, right) ==
    LET scale == Power(10, Len(right))
        precision == Power(2, Bits + CASE unit = 0 -> 2
                                       [] unit = 1 -> 0
                                       [] unit \in 2 .. 3 -> -1
                                       [] unit \in 4 .. 7 -> -2
                                       [] OTHER -> -3)
        up == right # <<>> /\ (scale - 2 * Worth(right, 10)) * precision <= 2 * scale
    IN  unit + (IF up THEN 1 ELSE 0)

Succ(integer) == Digits(Worth(integer, 10) + 1, 10)

ParseUnits(text, decimals) ==
    LET integer == text.integer
        fraction == NoTrailingZeros(text.fraction)
        left == SubSeq(fraction, 1, decimals - 1)
        rounded == Round(fraction[decimals], SubSeq(fraction, decimals + 1, Len(fraction)))
        \* the fraction at the wanted length, with the carry in front when it has one
        longer == IF rounded > 9
                  THEN Append(Zeros(Len(left) - Len(Succ(left))) \o Succ(left), 0)
                  ELSE Append(left, rounded)
    IN  IF decimals = 0
        THEN BigIntOf(text.negative,
                      IF Round(0, fraction) = 1 THEN Succ(integer) ELSE integer)
        ELSE IF Len(fraction) > decimals
        THEN IF Len(longer) > decimals
             THEN BigIntOf(text.negative,
                           Succ(integer) \o SubSeq(Tail(longer), 1, decimals))
             ELSE BigIntOf(text.negative, integer \o longer)
        ELSE BigIntOf(text.negative,
                      integer \o fraction \o Zeros(decimals - Len(fraction)))

FormatUnits(value, decimals) ==
    LET digits == Digits(IF value < 0 THEN - value ELSE value, 10)
        display == Zeros(decimals - Len(digits)) \o digits
        integer == SubSeq(display, 1, Len(display) - decimals)
        fraction == NoTrailingZeros(SubSeq(display, Len(display) - decimals + 1, Len(display)))
    IN  [negative |-> value < 0,
         integer |-> IF integer = <<>> THEN <<0>> ELSE integer,
         fraction |-> fraction]
=============================================================================
