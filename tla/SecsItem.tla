------------------------------ MODULE SecsItem ------------------------------
(* SECS-II items and the messages the simulator makes of them                *)
(* (internal/hsms/items.go, message.go). An item is a record tagged with its *)
(* type. The text of an ASCII item is a value of any kind: the codec takes   *)
(* sequences of bytes, the start-up scripts take strings.                    *)
EXTENDS Integers, Sequences, TLC

List(items)   == [type |-> "L", items |-> items]
Binary(bytes) == [type |-> "B", bytes |-> bytes]
Boolean(b)    == [type |-> "BOOLEAN", bool |-> b]
ASCII(text)   == [type |-> "A", text |-> text]
Number(t, n)  == [type |-> t, value |-> n]

Signed   == {"I1", "I2", "I4"}
Unsigned == {"U1", "U2", "U4"}
Numeric  == Signed \cup Unsigned

(* The bytes of a number of type t. *)
Width(t) == CASE t \in {"I1", "U1"} -> 1 [] t \in {"I2", "U2"} -> 2 [] OTHER -> 4

(* What a conversion answers when it fails. *)
Refused == [ok |-> FALSE]

(* A message without a body, and one with a body. *)
NoBody == [type |-> "none"]
Message(session, stream, function, wbit, system, body) ==
    [session |-> session, stream |-> stream, function |-> function,
     wbit |-> wbit, system |-> system, body |-> body]

IsList(item)        == item.type = "L"
IsListOf(item, n)   == IsList(item) /\ Len(item.items) = n
IsText(item)        == item.type = "A"
IsByte(item, value) == item = Binary(<<value>>)

(* ScalarValue, as far as the scripts and the extractors compare it: a text  *)
(* or a number, in writing.                                                  *)
ScalarValue(item) == CASE IsText(item) -> item.text
                       [] item.type \in Numeric -> ToString(item.value)
                       [] item.type = "BOOLEAN" -> IF item.bool THEN "true" ELSE "false"
                       [] OTHER -> "other"

(* The event of an S6F11: the single text of a list, or the second of three  *)
(* items of which the third is a list of reports.                            *)
NoEvent == "no event"
EventOf(m) ==
    CASE IsListOf(m.body, 1) /\ IsText(m.body.items[1]) -> m.body.items[1].text
      [] IsListOf(m.body, 3) /\ IsList(m.body.items[3]) -> ScalarValue(m.body.items[2])
      [] OTHER -> NoEvent
=============================================================================
