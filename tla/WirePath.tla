------------------------------ MODULE WirePath ------------------------------
(* The way of a message through the simulator: the bytes of the peer's       *)
(* frames arrive and are put together (FrameStream), the session decodes them*)
(* with the codec of the simulator and the log shows their text; an operator *)
(* may copy that text, or the same item as an equipment log or an old        *)
(* configuration file writes it, into an action of a rule, which the         *)
(* scheduler parses and sends.                                               *)
EXTENDS ItemCodec, LegacyEvents, FrameStream

VARIABLE echo       \* the message made from a copied text, once

vars == <<peer, input, echo>>

NoEcho == [meant |-> NoBody]

Init == StreamInit /\ echo = NoEcho

-----------------------------------------------------------------------------
(* How an old configuration file writes an item: bytes in hexadecimal, with  *)
(* commas where no list is around them; texts quoted, but for digits that no *)
(* number holds; a comma behind every item of a list, the last one too.      *)
RECURSIVE Decimal(_)
Decimal(n) == IF n < 10 THEN <<n>> ELSE Append(Decimal(n \div 10), n % 10)
DecimalChars(n) == [k \in DOMAIN Decimal(n) |-> Decimal(n)[k] + 48]
HexChar(d) == IF d < 10 THEN 48 + d ELSE 87 + d
HexWord(b) == <<48, 120, HexChar(b \div 16), HexChar(b % 16)>>
LegacyScalar(item) ==
    CASE item.type = "B" -> Scalar("B", [k \in DOMAIN item.bytes |-> HexWord(item.bytes[k])])
      [] item.type = "A" -> IF IsWhole(item.text) /\ ~IsI4(item.text) THEN Bare(item.text)
                                                                      ELSE Scalar("A", Written(TRUE, item.text))
      [] item.type = "BOOLEAN" -> Scalar("BOOL", IF item.bool THEN "T" ELSE "0")
      [] item.type = "I4" -> IF item.value > 0 THEN Bare(DecimalChars(item.value)) ELSE Scalar("I", item.value)
      [] OTHER -> Scalar(item.type, item.value)
RECURSIVE LegacyLog(_)
LegacyItem(item) == IF IsList(item) THEN LegacyLog(item) ELSE <<LegacyScalar(item)>>
LegacyLog(item) ==
    <<LegacyList>> \o FlattenSeq([k \in DOMAIN item.items |-> Append(LegacyItem(item.items[k]), Comma)])
                   \o <<EndOfList>>
LegacyText(item) ==
    IF item.type = "B" /\ item.bytes # <<>>
    THEN LET word(k) == HexWord(item.bytes[k])
         IN  <<Scalar("B", <<word(1)>>)>>
                \o FlattenSeq([k \in 1..(Len(item.bytes) - 1) |-> <<Comma, Bare(word(k + 1))>>])
    ELSE LegacyItem(item)

(* The actions an operator may make of a message, each with the message it   *)
(* is to send: its own text under its own name; equipment's text, where it is*)
(* one that a log without quotes can hold, as an event;                      *)
(* an event of two reports with the item as a value and as a variable.       *)
Meaning(stream, function, wbit, body) ==
    [stream |-> stream, function |-> function, wbit |-> wbit, body |-> body]
EventBody(ceid, item) ==
    LET zero == Number("U4", 0)
    IN  List(<<zero, ceid, List(<<List(<<Number("U2", 7), List(<<item>>)>>), List(<<zero, List(<<item>>)>>)>>)>>)
PlainLogs(item) == {equipped \in {EquipmentLog(item)} : PlainText(equipped)}
Copies(m) ==
    LET own(body) == [action |-> YamlAction("send", m.stream, m.function, {m.wbit}, body, NoEvents),
                      meant  |-> Meaning(m.stream, m.function, m.wbit, m.body)]
        text == LegacyText(m.body)
        event == Event(<<>>, <<Scalar("A", Written(FALSE, <<Space, 67>>))>>,
                       <<Report(<<Scalar("U2", 7)>>, <<text>>, <<>>), Report(<<>>, <<>>, <<text>>)>>)
    IN  IF m.body = NoBody
        THEN {own(<<>>), [action |-> YamlAction("event", m.stream, 0, {}, <<>>, NoEvents),
                          meant  |-> Meaning(m.stream, 11, TRUE, NoBody)]}
        ELSE {own(Compact(m.body)),
              [action |-> YamlAction("event", 0, 0, {}, <<>>, event),
               meant  |-> Meaning(6, 11, TRUE, EventBody(ASCII(<<67>>), m.body))]}
             \cup {[action |-> YamlAction("event", 0, 0, {}, equipped \o <<Period>>, NoEvents),
                    meant  |-> Meaning(6, 11, TRUE, m.body)] : equipped \in PlainLogs(m.body)}

(* The newest message is copied, once. *)
Copy(copy) ==
    /\ echo' = [meant |-> copy.meant, built |-> Build(Last(log).session, ActionFromYaml(copy.action))]
    /\ UNCHANGED <<peer, input>>

-----------------------------------------------------------------------------
CopyNext == echo = NoEcho /\ log # <<>> /\ \E copy \in Copies(Last(log)) : Copy(copy)
Next == (StreamNext /\ UNCHANGED echo) \/ CopyNext

Spec == Init /\ [][Next]_vars

FairSpec == Spec /\ StreamFairness

-----------------------------------------------------------------------------
(* A rule sends the message it was made to send: under the stream, function  *)
(* and reply bit that are given or stand in, with the body the operator      *)
(* copied, whether from the simulator's own log, from one of equipment or    *)
(* from an old configuration file (ruleActionFromYAML, Compact,              *)
(* parseLegacyEventExpression, ParseSMLItem, EncodeItem, DecodeItem).        *)
EchoIsFaithful ==
    echo # NoEcho => /\ echo.built.ok
                     /\ LET answer == DecodeMessage(echo.built.frame)
                        IN  /\ answer.ok
                            /\ \A part \in DOMAIN echo.meant : answer.message[part] = echo.meant[part]
=============================================================================
