----------------------------- MODULE AbiEncoding -----------------------------
(* The ABI encoder of src/src/utils/abi/encodeAbiParameters.ts.              *)
(*                                                                           *)
(* A type is a record; an integer type has its width in bytes, at most a     *)
(* word.  A value is an integer, a boolean, the digits of an address or of   *)
(* bytes, a text, or the sequence of the members of an array or tuple.       *)
EXTENDS Hex

CONSTANTS
    Mangled,  \* the byte array concatBytes makes of hex strings
    NoBytes   \* the empty byte array concat makes of no values

UintType(size) == [kind |-> "uint", size |-> size]
IntType(size) == [kind |-> "int", size |-> size]
BoolType == [kind |-> "bool"]
AddressType == [kind |-> "address"]
BytesType(size) == [kind |-> "bytes", size |-> size]
StringType == [kind |-> "string"]
ArrayType(type, length) == [kind |-> "array", length |-> length, type |-> type]
TupleType(components) == [kind |-> "tuple", components |-> components]

-----------------------------------------------------------------------------
Prepared(dynamic, encoded) == [dynamic |-> dynamic, encoded |-> encoded]

IsByteArray(encoded) == encoded \in {NoBytes, Mangled}

SizeOfEncoded(encoded) == IF IsByteArray(encoded) THEN 0 ELSE Size(encoded)

(* concat takes the values for hex when the first one is a string, and for   *)
(* byte arrays otherwise, also when there is none.  Hex strings then become  *)
(* garbage, and a byte array among hex strings has no `replace`.             *)
Concat(values) ==
    IF \A i \in DOMAIN values : values[i] = NoBytes THEN NoBytes
    ELSE IF IsByteArray(values[1]) THEN Mangled
    ELSE IF \E i \in DOMAIN values : IsByteArray(values[i]) THEN Thrown
    ELSE ConcatHex(values)

WordOf(number) == NumberToHex(number, FALSE, FALSE, Word)

(* Mutant: every offset is that of the first tail. *)
EncodeParamsOneTail(prepared) ==
    LET staticSize == FoldLeft(LAMBDA sum, p : sum + (IF p.dynamic THEN Word ELSE SizeOfEncoded(p.encoded)),
                               0, prepared)
        dynamicParams == SelectSeq(prepared, LAMBDA p : p.dynamic)
    IN  Concat([i \in DOMAIN prepared |->
                   IF prepared[i].dynamic THEN WordOf(staticSize) ELSE prepared[i].encoded]
               \o [i \in DOMAIN dynamicParams |-> dynamicParams[i].encoded])

(* The head holds a static parameter itself, and for a dynamic one the offset *)
(* of its encoding in the tail.                                               *)
EncodeParams(prepared) ==
    LET HeadLength(p) == IF p.dynamic THEN Word ELSE SizeOfEncoded(p.encoded)
        staticSize == FoldLeft(LAMBDA sum, p : sum + HeadLength(p), 0, prepared)
        dynamicParams == SelectSeq(prepared, LAMBDA p : p.dynamic)
        dynamicSize(i) ==
            FoldLeft(LAMBDA sum, p : sum + SizeOfEncoded(p.encoded), 0,
                     SelectSeq(SubSeq(prepared, 1, i - 1), LAMBDA p : p.dynamic))
    IN  Concat([i \in DOMAIN prepared |->
                   IF prepared[i].dynamic THEN WordOf(staticSize + dynamicSize(i))
                   ELSE prepared[i].encoded]
               \o [i \in DOMAIN dynamicParams |-> dynamicParams[i].encoded])

-----------------------------------------------------------------------------
EncodeAddress(value) ==
    IF Len(value) # 2 * Word THEN Thrown
    ELSE Prepared(FALSE, PadHex(value, Word, "left"))

EncodeBool(value) == Prepared(FALSE, PadHex(BoolToHex(value, Undefined), Word, "left"))

EncodeNumber(value, signed, size) ==
    LET max == 2 ^ (8 * size - (IF signed THEN 1 ELSE 0)) - 1
        min == IF signed THEN - max - 1 ELSE 0
    IN  IF value > max \/ value < min THEN Thrown
        ELSE Prepared(FALSE, NumberToHex(value, FALSE, signed, Word))

(* Bytes of a multiple of a word are not padded, whatever the number of their *)
(* digits.                                                                    *)
EncodeBytes(value, size) ==
    LET bytesSize == Size(value)
        padded == IF bytesSize % Word = 0 THEN value
                  ELSE PadHex(value, ((bytesSize + Word - 1) \div Word) * Word, "right")
    IN  IF size = Undefined THEN Prepared(TRUE, Concat(<<WordOf(bytesSize), padded>>))
        ELSE IF bytesSize # size THEN Thrown
        ELSE Prepared(FALSE, PadHex(value, Word, "right"))

EncodeString(value) ==
    LET hex == StringToHex(value, Undefined)
        partsLength == (Size(hex) + Word - 1) \div Word
        Part(i) == PadHex(SliceHex(hex, (i - 1) * Word, i * Word, FALSE), Word, "right")
    IN  Prepared(TRUE, Concat(<<WordOf(Size(hex))>> \o [i \in 1 .. partsLength |-> Part(i)]))

Encodings(prepared) == [i \in DOMAIN prepared |-> prepared[i].encoded]
SomeDynamic(prepared) == \E i \in DOMAIN prepared : prepared[i].dynamic

(* A member that throws makes the call throw. *)
IfNoneThrown(prepared, result) ==
    IF \E i \in DOMAIN prepared : prepared[i] = Thrown THEN Thrown
    ELSE IF result.encoded = Thrown THEN Thrown ELSE result

EncodeMembers(prepared) ==
    IF SomeDynamic(prepared) THEN Prepared(TRUE, EncodeParams(prepared))
    ELSE Prepared(FALSE, Concat(Encodings(prepared)))

(* A static array is dynamic when a member is: never when it has none. *)
EncodeArray(prepared, length) ==
    IF length # Undefined /\ Len(prepared) # length THEN Thrown
    ELSE IfNoneThrown(prepared,
           IF length # Undefined THEN EncodeMembers(prepared)
           ELSE Prepared(TRUE,
                  IF prepared = <<>> THEN WordOf(0)
                  ELSE Concat(<<WordOf(Len(prepared)), EncodeParams(prepared)>>)))

EncodeTuple(prepared) == IfNoneThrown(prepared, EncodeMembers(prepared))

RECURSIVE PrepareParam(_, _)
PrepareParam(type, value) ==
    CASE type.kind = "array" ->
            EncodeArray([i \in DOMAIN value |-> PrepareParam(type.type, value[i])], type.length)
      [] type.kind = "tuple" ->
            EncodeTuple([i \in DOMAIN type.components |->
                            PrepareParam(type.components[i], value[i])])
      [] type.kind = "address" -> EncodeAddress(value)
      [] type.kind = "bool" -> EncodeBool(value)
      [] type.kind = "uint" -> EncodeNumber(value, FALSE, type.size)
      [] type.kind = "int" -> EncodeNumber(value, TRUE, type.size)
      [] type.kind = "bytes" -> EncodeBytes(value, type.size)
      [] type.kind = "string" -> EncodeString(value)

EncodeAbiParameters(params, values) ==
    LET HexOf(data) == IF data = NoBytes THEN <<>> ELSE data
        Encoded(prepared) ==
            IF \E i \in DOMAIN prepared : prepared[i] = Thrown THEN Thrown
            ELSE HexOf(EncodeParams(prepared))
    IN  IF Len(params) # Len(values) THEN Thrown
        ELSE Encoded([i \in DOMAIN params |-> PrepareParam(params[i], values[i])])

-----------------------------------------------------------------------------
(* The reference: how a contract reads the layout.  A type is dynamic by its *)
(* name alone, its head is a word or its members' heads, and the offset in a *)
(* head counts from the start of the enclosing sequence of heads.            *)
RECURSIVE IsDynamic(_), HeadSize(_)
IsDynamic(type) ==
    CASE type.kind = "string" -> TRUE
      [] type.kind = "bytes" -> type.size = Undefined
      [] type.kind = "array" -> type.length = Undefined \/ IsDynamic(type.type)
      [] type.kind = "tuple" -> \E i \in DOMAIN type.components : IsDynamic(type.components[i])
      [] OTHER -> FALSE

HeadSize(type) ==
    CASE IsDynamic(type) -> Word
      [] ~IsDynamic(type) /\ type.kind = "array" -> type.length * HeadSize(type.type)
      [] ~IsDynamic(type) /\ type.kind = "tuple" ->
            FoldLeft(LAMBDA sum, c : sum + HeadSize(c), 0, type.components)
      [] OTHER -> Word

WordAt(data, at) == Worth(SubSeq(data, at + 1, at + Word), 256)

SignedWordAt(data, at) ==
    LET word == WordAt(data, at)
    IN  IF word >= 256 ^ Word \div 2 THEN word - 256 ^ Word ELSE word

HexAt(data, at, size) == BytesToHex(SubSeq(data, at + 1, at + size), Undefined)

RECURSIVE ReadParams(_, _, _), ReadParam(_, _, _)
ReadParams(types, data, base) ==
    [i \in DOMAIN types |->
        LET head == base + FoldLeft(LAMBDA sum, t : sum + HeadSize(t), 0, SubSeq(types, 1, i - 1))
        IN  ReadParam(types[i], data,
                      IF IsDynamic(types[i]) THEN base + WordAt(data, head) ELSE head)]

ReadParam(type, data, at) ==
    CASE type.kind = "uint" -> WordAt(data, at)
      [] type.kind = "int" -> SignedWordAt(data, at)
      [] type.kind = "bool" -> WordAt(data, at) = 1
      [] type.kind = "address" -> HexAt(data, at, Word)
      [] type.kind = "bytes" -> IF type.size = Undefined
                                THEN HexAt(data, at + Word, WordAt(data, at))
                                ELSE HexAt(data, at, type.size)
      [] type.kind = "string" -> SubSeq(data, at + Word + 1, at + Word + WordAt(data, at))
      [] type.kind = "tuple" -> ReadParams(type.components, data, at)
      [] type.kind = "array" ->
            IF type.length = Undefined
            THEN ReadParams([i \in 1 .. WordAt(data, at) |-> type.type], data, at + Word)
            ELSE ReadParams([i \in 1 .. type.length |-> type.type], data, at)

(* No member of the type is an array or tuple of nothing. *)
RECURSIVE HasEmptyStatic(_)
HasEmptyStatic(type) ==
    CASE type.kind = "array" -> type.length = 0 \/ HasEmptyStatic(type.type)
      [] type.kind = "tuple" -> \/ type.components = <<>>
                                \/ \E i \in DOMAIN type.components :
                                     HasEmptyStatic(type.components[i])
      [] OTHER -> FALSE
=============================================================================
