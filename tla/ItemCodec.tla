------------------------------ MODULE ItemCodec -----------------------------
(* Items and messages as bytes (internal/hsms/items.go: EncodeItem,          *)
(* DecodeItem; message.go: EncodeMessage, DecodeMessage). An item is a byte  *)
(* of format and number of length bytes, the length, and the payload; the    *)
(* length of a list counts its children. Both recursions of the code are     *)
(* recursive functions here, over the depth of an item and over the items    *)
(* that are still read.                                                      *)
EXTENDS SecsItem, HsmsFrame, SequencesExt

CONSTANT MaxDepth       \* how deep the lists are that are encoded

ASSUME DepthAssumption == MaxDepth \in Nat

Format == [L |-> 0, B |-> 32, BOOLEAN |-> 36, A |-> 64, I1 |-> 100, I2 |-> 104,
           I4 |-> 112, U1 |-> 164, U2 |-> 168, U4 |-> 176]
TypeOf(code) == IF \E t \in DOMAIN Format : Format[t] = code
                THEN CHOOSE t \in DOMAIN Format : Format[t] = code ELSE "unknown"

-----------------------------------------------------------------------------
(* Items: numbers that fit their type, which is to say that their highest    *)
(* byte does; texts, binaries and lists whose length fits three bytes.       *)
Unit(t)   == CASE Width(t) = 1 -> 1 [] Width(t) = 2 -> 256 [] OTHER -> 16777216
Numbers   == {i \in [type : Numeric, value : Int] :
                i.value \div Unit(i.type) \in IF i.type \in Signed THEN -128..127 ELSE Byte}

MaxLength == 16777215
Short(S)  == {s \in Seq(S) : Len(s) <= MaxLength}

Scalars == [type : {"B"}, bytes : Short(Byte)] \cup [type : {"A"}, text : Short(Byte)]
             \cup [type : {"BOOLEAN"}, bool : BOOLEAN] \cup Numbers

(* The items of lists no deeper than d. *)
Items[d \in 0 .. MaxDepth] ==
    IF d = 0 THEN Scalars ELSE Scalars \cup [type : {"L"}, items : Short(Items[d - 1])]
Item == Items[MaxDepth]

-----------------------------------------------------------------------------
(* The w lowest bytes of n; a negative number in two's complement. *)
BigEndian(n, w) == SubSeq(Bytes4(n), 5 - w, 4)

(* The number of one to four bytes; signed when the highest bit counts as    *)
(* minus.                                                                    *)
FromBytes(bytes, signed) ==
    LET high == IF signed /\ bytes[1] >= 128 THEN bytes[1] - 256 ELSE bytes[1]
    IN  CASE Len(bytes) = 1 -> high
          [] Len(bytes) = 2 -> Word2(high, bytes[2])
          [] Len(bytes) = 3 -> Word2(Word2(high, bytes[2]), bytes[3])
          [] OTHER          -> Word4(high, bytes[2], bytes[3], bytes[4])

EncodeLength(n) == BigEndian(n, IF n <= 255 THEN 1 ELSE IF n <= 65535 THEN 2 ELSE 3)
Header(t, n) == LET length == EncodeLength(n) IN <<Format[t] + Len(length)>> \o length

EncodeScalar(item) ==
    LET t == item.type IN
    CASE t = "B"       -> Header(t, Len(item.bytes)) \o item.bytes
      [] t = "A"       -> Header(t, Len(item.text)) \o item.text
      [] t = "BOOLEAN" -> Header(t, 1) \o <<IF item.bool THEN 1 ELSE 0>>
      [] OTHER         -> Header(t, Width(t)) \o BigEndian(item.value, Width(t))

encode[d \in 0 .. MaxDepth] ==
    [item \in Items[d] |->
        IF IsList(item)
        THEN Header("L", Len(item.items))
                \o FlattenSeq([k \in DOMAIN item.items |-> encode[d - 1][item.items[k]]])
        ELSE EncodeScalar(item)]
EncodeItem(item) == encode[MaxDepth][item]

-----------------------------------------------------------------------------
(* A decoded item and the bytes it took; and several. *)
Decoded(item, used)       == [ok |-> TRUE, item |-> item, used |-> used]
DecodedItems(items, used) == [ok |-> TRUE, items |-> items, used |-> used]

(* A scalar of some payload bytes: a text or a binary of any length, a number*)
(* or a truth value of its own.                                              *)
DecodeScalar(t, p, used) ==
    CASE t = "B" -> Decoded(Binary(p), used)
      [] t = "A" -> Decoded(ASCII(p), used)
      [] t = "BOOLEAN" /\ Len(p) = 1 -> Decoded(Boolean(p[1] # 0), used)
      [] t \in Numeric /\ Len(p) = Width(t) -> Decoded(Number(t, FromBytes(p, t \in Signed)), used)
      [] OTHER -> Refused

(* The first item of the data, when children[bytes][n] are the first n items *)
(* of some bytes.                                                            *)
ItemAt(data, children) ==
    LET n      == data[1] % 4
        t      == TypeOf(data[1] - n)
        length == FromBytes(SubSeq(data, 2, 1 + n), FALSE)
        rest   == From(data, 2 + n)
        list   == children[rest][length]
    IN  CASE Len(data) < 2 -> Refused
          [] Len(data) >= 2 /\ (n = 0 \/ Len(data) < 1 + n) -> Refused
          [] Len(data) >= 2 /\ n # 0 /\ Len(data) >= 1 + n ->
                CASE t = "L" -> IF list.ok THEN Decoded(List(list.items), 1 + n + list.used) ELSE Refused
                  [] t # "L" /\ Len(rest) < length -> Refused
                  [] t # "L" /\ Len(rest) >= length -> DecodeScalar(t, SubSeq(rest, 1, length), 1 + n + length)

(* How far a child's successor is from the child. *)
NextChild_AtPayload(child) == child.used - 1
NextChild(child) == child.used

(* The first of n items, and those after it. *)
FirstItems(data, n, children) ==
    LET child == ItemAt(data, children)
        after == children[From(data, 1 + NextChild(child))][n - 1]
    IN  IF child.ok /\ after.ok
        THEN DecodedItems(<<child.item>> \o after.items, NextChild(child) + after.used)
        ELSE Refused

(* The first n items of some bytes. There are no more items, in lists or     *)
(* beside each other, than bytes: room is how many may still begin.          *)
decodeItems[room \in Nat] ==
    [data \in Seq(Byte) |-> [n \in Nat |->
        IF n = 0 THEN DecodedItems(<<>>, 0)
        ELSE IF room = 0 THEN Refused
        ELSE FirstItems(data, n, decodeItems[room - 1])]]
DecodeItem(data) == ItemAt(data, decodeItems[Len(data)])

-----------------------------------------------------------------------------
EncodeMessage(m) ==
    DataFrame(m.session, m.system, m.stream, m.function, m.wbit,
              IF m.body = NoBody THEN <<>> ELSE EncodeItem(m.body))

(* The message of a data frame; bytes left over after its item are an error. *)
DecodeMessage(f) ==
    LET body == DecodeItem(f.body)
        with(b) == [ok |-> TRUE,
                    message |-> Message(f.session, f.stream, f.function, f.wbit, f.system, b)]
    IN  CASE f.stype # DataSType -> Refused
          [] f.body = <<>> -> with(NoBody)
          [] f.body # <<>> /\ body.ok /\ body.used = Len(f.body) -> with(body.item)
          [] OTHER -> Refused
=============================================================================
