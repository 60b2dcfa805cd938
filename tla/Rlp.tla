--------------------------------- MODULE Rlp ---------------------------------
(* The RLP encoder of src/src/utils/encoding/toRlp.ts, and the part of the   *)
(* cursor of src/src/utils/cursor.ts that it writes with.  The reading half  *)
(* of the cursor has no caller in the repository.                            *)
(*                                                                           *)
(* An item is a leaf, given as bytes or as hex, or a list of items.          *)
EXTENDS Hex

Bytes(data) == [kind |-> "bytes", data |-> data]
HexItem(data) == [kind |-> "hex", data |-> data]
List(items) == [kind |-> "list", items |-> items]

-----------------------------------------------------------------------------
(* The cursor: a byte array of a fixed length and the position of the next   *)
(* write.  Every push asserts the position of the last byte it writes before *)
(* it writes any.                                                            *)
CreateCursor(length) == [bytes |-> Zeros(length), position |-> 0]

AssertPosition(cursor, position) == position >= 0 /\ position <= Len(cursor.bytes) - 1

PushBytes(cursor, bytes) ==
    LET end == cursor.position + Len(bytes)
    IN  IF cursor = Thrown THEN Thrown
        ELSE IF ~AssertPosition(cursor, end - 1) THEN Thrown
        ELSE [bytes |-> SubSeq(cursor.bytes, 1, cursor.position) \o bytes
                          \o SubSeq(cursor.bytes, end + 1, Len(cursor.bytes)),
              position |-> end]

(* pushByte, pushUint8, pushUint16, pushUint24 and pushUint32: an integer of *)
(* that many bytes, the highest first, modulo its width.                     *)
PushUint(cursor, width, value) ==
    PushBytes(cursor, [i \in 1 .. width |-> (value \div 256 ^ (width - i)) % 256])

-----------------------------------------------------------------------------
GetSizeOfLength(length) == CHOOSE n \in 1 .. 3 :
                             /\ length < 256 ^ n
                             /\ \A m \in 1 .. n - 1 : length >= 256 ^ m

LeafBytes(leaf) ==
    IF leaf.kind = "hex" THEN HexToBytes(leaf.data, Undefined) ELSE leaf.data

SingleByte(bytes) == Len(bytes) = 1 /\ bytes[1] < 128

(* The length an encodable announces, from which the buffer is allocated. *)
RECURSIVE EncodedLength(_)
EncodedLength(item) ==
    LET Whole(body) == 1 + body + (IF body <= 55 THEN 0 ELSE GetSizeOfLength(body))
        Leaf(bytes) == IF SingleByte(bytes) THEN 1 ELSE Whole(Len(bytes))
    IN  IF item.kind = "list"
        THEN Whole(FoldLeft(LAMBDA sum, x : sum + EncodedLength(x), 0, item.items))
        ELSE Leaf(LeafBytes(item))

(* The head of an encoding: one byte up to 55, else the length of the length *)
(* and the length.                                                           *)
PushHead(cursor, base, length) ==
    LET Long(size) == PushUint(PushUint(cursor, 1, base + 55 + size), size, length)
    IN  IF length <= 55 THEN PushUint(cursor, 1, base + length)
        ELSE Long(GetSizeOfLength(length))

EncodeLeaf(bytes, cursor) ==
    IF SingleByte(bytes) THEN PushBytes(cursor, bytes)
    ELSE PushBytes(PushHead(cursor, 128, Len(bytes)), bytes)

RECURSIVE Encode(_, _)
EncodeList(items, cursor) ==
    LET bodyLength == FoldLeft(LAMBDA sum, x : sum + EncodedLength(x), 0, items)
    IN  FoldLeft(LAMBDA written, x : Encode(x, written),
                 PushHead(cursor, 192, bodyLength), items)

Encode(item, cursor) ==
    IF item.kind = "list" THEN EncodeList(item.items, cursor)
    ELSE EncodeLeaf(LeafBytes(item), cursor)

ToRlpBytes(item) ==
    After(Encode(item, CreateCursor(EncodedLength(item))), LAMBDA cursor : cursor.bytes)

ToRlp(item) == After(ToRlpBytes(item), LAMBDA bytes : BytesToHex(bytes, Undefined))

-----------------------------------------------------------------------------
(* The reference: how RLP is read.  Reading gives the item that starts at    *)
(* position `at` and the position behind it, or Thrown for an encoding that  *)
(* is not the shortest one.                                                  *)
RECURSIVE ReadItem(_, _), ReadItems(_, _, _), ReadBody(_, _, _, _, _)
ReadItems(bytes, at, end) ==
    LET Onward(first) == <<first.item>> \o ReadItems(bytes, first.next, end)
    IN  IF at = end THEN <<>> ELSE Onward(ReadItem(bytes, at))

(* The body of an item whose head is at `at` and whose length takes `width`   *)
(* bytes behind it.                                                           *)
ReadBody(bytes, at, width, length, isList) ==
    LET from == at + 1 + width
        body == SubSeq(bytes, from, from + length - 1)
        shortest == /\ width > 0 => length > 55 /\ bytes[at + 1] # 0
                    /\ isList \/ ~SingleByte(body)
    IN  IF from + length - 1 > Len(bytes) THEN [item |-> Thrown, next |-> Len(bytes) + 1]
        ELSE [item |-> IF ~shortest THEN Thrown
                       ELSE IF isList THEN List(ReadItems(bytes, from, from + length))
                       ELSE Bytes(body),
              next |-> from + length]

ReadItem(bytes, at) ==
    LET head == bytes[at]
        isList == head >= 192
        short == head - (IF isList THEN 192 ELSE 128)
        width == IF short <= 55 THEN 0 ELSE short - 55
    IN  IF head < 128 THEN [item |-> Bytes(<<head>>), next |-> at + 1]
        ELSE ReadBody(bytes, at, width,
                      IF width = 0 THEN short ELSE Worth(SubSeq(bytes, at + 1, at + width), 256),
                      isList)

(* The only item an encoding stands for, or Thrown when it stands for none. *)
ReadRlp(bytes) ==
    LET Whole(read) == IF read.next = Len(bytes) + 1 THEN read.item ELSE Thrown
    IN  Whole(ReadItem(bytes, 1))

(* An item with its leaves as bytes. *)
RECURSIVE Plain(_)
Plain(item) ==
    IF item.kind = "list" THEN List([i \in DOMAIN item.items |-> Plain(item.items[i])])
    ELSE Bytes(LeafBytes(item))
=============================================================================
