---------------------------- MODULE LegacyEvents ----------------------------
(* Actions of rules as the YAML file writes them (store/config.go:           *)
(* ruleActionFromYAML) and the notation of old files for the values of an    *)
(* event (store/event_messages.go: parseLegacyEventExpression). A text of    *)
(* that notation is a sequence of tokens: "L:[", ",", "]" and scalars, whose *)
(* quoted texts may hold anything and whose bare words hold no comma and no  *)
(* bracket.                                                                  *)
EXTENDS SmlText

LegacyList     == [tok |-> "L:["]
Comma          == [tok |-> ","]
EndOfList      == [tok |-> "]"]
Bare(chars)    == Scalar("bare", chars)

(* strconv, as far as the notation needs it. *)
Digits == 48..57
HexDigit(c) == CASE c \in Digits -> c - 48 [] c \in 65..70 -> c - 55 [] OTHER -> c - 87
HexPart(word) == IF Len(word) >= 2 /\ word[1] = 48 /\ word[2] \in {88, 120}
                 THEN SubSeq(word, 3, Len(word)) ELSE word
IsHex(word) == HexPart(word) # <<>> /\ ToSet(HexPart(word)) \subseteq Digits \cup 65..70 \cup 97..102
HexOf(word) == InBase(16, [k \in DOMAIN HexPart(word) |-> HexDigit(HexPart(word)[k])])
IsWhole(word) == word # <<>> /\ \A k \in DOMAIN word : word[k] \in Digits
SignOf(word)  == IF word # <<>> /\ word[1] \in {43, 45} THEN 1 ELSE 0
Magnitude(word) == SubSeq(word, 1 + SignOf(word), Len(word))
WholeOf(word) ==
    LET n == InBase(10, [k \in DOMAIN Magnitude(word) |-> Magnitude(word)[k] - 48])
    IN  IF word[1] = 45 THEN -n ELSE n

(* A whole number of 32 bits, told from its digits: 2147483647, or one more  *)
(* below zero, is the last.                                                  *)
Significant(word) == LET to == {k \in DOMAIN word : word[k] # 48}
                     IN  IF to = {} THEN <<>> ELSE SubSeq(word, Min(to), Len(word))
IsI4(word) ==
    LET digits == Significant(Magnitude(word))
        tens   == InBase(10, [k \in 1..9 |-> digits[k] - 48])
        last   == IF word[1] = 45 THEN 56 ELSE 55
    IN  /\ IsWhole(Magnitude(word))
        /\ \/ Len(digits) < 10
           \/ Len(digits) = 10 /\ (tens < 214748364 \/ (tens = 214748364 /\ digits[10] <= last))

(* A scalar is a prefix with its value; without one, a number, or a text     *)
(* when no I4 holds it. The words of a binary are separated by blanks or     *)
(* commas, and always hexadecimal.                                           *)
ParseLegacyScalar(text) ==
    LET t     == TypeNamed(text[1].type)
        v     == text[1].value
        more  == SelectSeq(Tail(text), LAMBDA token : token # Comma)
        words == v \o [k \in DOMAIN more |-> more[k].value]
        bytes == [k \in DOMAIN words |-> HexOf(words[k])]
    IN  CASE t = "A"    -> Read(ASCII(IF v.quoted THEN v.chars ELSE Trimmed(v.chars)))
          [] t = "B"    -> IF \A k \in DOMAIN words : IsHex(words[k]) /\ bytes[k] < 256
                           THEN Read(Binary(bytes)) ELSE Refused
          [] t = "BOOL" -> IF \E b \in BOOLEAN : v \in Truths(TRUE, b)
                           THEN Read(Boolean(v \in Truths(TRUE, TRUE))) ELSE Refused
          [] t = "bare" -> Read(IF IsI4(v) THEN Number("I4", WholeOf(v)) ELSE ASCII(v))
          [] OTHER      -> IF Fits(t, v) THEN Read(Number(t, v)) ELSE Refused

(* splitTopLevelListItems: the pieces between the commas outside every       *)
(* bracket; empty ones are dropped.                                          *)
Occurs(token, text) == Cardinality({k \in DOMAIN text : text[k] = token})
Depth(text, k) == Occurs(LegacyList, SubSeq(text, 1, k)) - Occurs(EndOfList, SubSeq(text, 1, k))
Balanced(text) == Depth(text, Len(text)) = 0 /\ \A k \in DOMAIN text : Depth(text, k) >= 0
Pieces(text, cuts) ==
    LET ends == SetToSortSeq({0, Len(text) + 1} \cup cuts, <)
    IN  SelectSeq([k \in 1..(Len(ends) - 1) |-> SubSeq(text, ends[k] + 1, ends[k + 1] - 1)],
                  LAMBDA piece : piece # <<>>)
Commas(text) == {k \in DOMAIN text : text[k] = Comma}
ListItems(text) == Pieces(text, {k \in Commas(text) : Depth(text, k) = 0})

(* parseLegacyEventExpression: nothing is the empty text; a list ends with   *)
(* its bracket.                                                              *)
RECURSIVE ParseLegacy(_)
ParseLegacy(text) ==
    LET inner    == SubSeq(text, 2, Len(text) - 1)
        children == [k \in DOMAIN ListItems(inner) |-> ParseLegacy(ListItems(inner)[k])]
    IN  CASE text = <<>> -> Read(ASCII(<<>>))
          [] text # <<>> /\ text[1] # LegacyList -> ParseLegacyScalar(text)
          [] OTHER -> IF /\ Last(text) = EndOfList /\ Balanced(inner)
                         /\ \A k \in DOMAIN children : children[k].ok
                      THEN Read(List([k \in DOMAIN children |-> children[k].item]))
                      ELSE Refused

-----------------------------------------------------------------------------
(* An event given by its parts: the data identifier, the event, and reports, *)
(* whose values may be written as variables.                                 *)
Event(dataID, ceid, reports)      == [dataID |-> dataID, ceid |-> ceid, reports |-> reports]
Report(rptid, values, variables)  == [rptid |-> rptid, values |-> values, variables |-> variables]
OrZero(text) == IF text = <<>> THEN <<Scalar("U4", 0)>> ELSE text

(* All the values that can be read, or none. *)
AllRead(results) == IF \A k \in DOMAIN results : results[k].ok
                    THEN Read(List([k \in DOMAIN results |-> results[k].item])) ELSE Refused
ReportItem(report) ==
    LET values == IF report.values = <<>> THEN report.variables ELSE report.values
        body   == AllRead([k \in DOMAIN values |-> ParseLegacy(values[k])])
    IN  AllRead(<<ParseLegacy(OrZero(report.rptid)), body>>)
EventItem(event) ==
    AllRead(<<ParseLegacy(OrZero(event.dataID)), ParseLegacy(event.ceid),
              AllRead([k \in DOMAIN event.reports |-> ReportItem(event.reports[k])])>>)

(* An action of the file; wbit is empty when it is not given.                *)
YamlAction(type, stream, function, wbit, body, event) ==
    [type |-> type, stream |-> stream, function |-> function, wbit |-> wbit, body |-> body, event |-> event]
NoEvents == Event(<<>>, <<>>, <<>>)
Given(value, default) == IF value = 0 THEN default ELSE value
SendAction(stream, function, wbit, body) ==
    [ok |-> TRUE, stream |-> stream, function |-> function, wbit |-> wbit, body |-> body]

(* ruleActionFromYAML: a send as it is, an event with S6F11 and a reply      *)
(* wanted where nothing is said, and from its parts when nothing is.         *)
ActionFromYaml(a) ==
    LET bare == a.body = <<>> /\ a.stream = 0 /\ a.function = 0 /\ a.wbit = {}
        item == EventItem(a.event)
    IN  CASE a.type = "send" -> SendAction(a.stream, a.function, TRUE \in a.wbit, a.body)
          [] a.type = "event" /\ ~bare ->
                SendAction(Given(a.stream, 6), Given(a.function, 11), FALSE \notin a.wbit, a.body)
          [] a.type = "event" /\ bare ->
                IF item.ok THEN SendAction(6, 11, TRUE, Compact(item.item)) ELSE Refused
          [] OTHER -> Refused
=============================================================================
