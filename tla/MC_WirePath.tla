----------------------------- MODULE MC_WirePath ----------------------------
EXTENDS WirePath

(* Texts: empty, plain, with a bracket, with a byte above 127, and the first *)
(* number that 32 bits do not hold.                                          *)
Chars == {<<>>, <<65>>, <<80, 32, 91, 49, 93>>, <<255, 34>>,
          <<50, 49, 52, 55, 52, 56, 51, 54, 52, 56>>}
MCScalars ==
    {Binary(b) : b \in {<<>>, <<0>>, <<16, 171>>}}
        \cup {Boolean(b) : b \in BOOLEAN} \cup {ASCII(c) : c \in Chars}
        \cup {Number("I1", n) : n \in {-128, 127}} \cup {Number("I2", n) : n \in {-1, 32767}}
        \cup {Number("I4", n) : n \in {-65537, 16909060, 2147483647}}
        \cup {Number("U1", 200), Number("U2", 65535), Number("U4", 16909060)}
Few == {Binary(<<16>>), ASCII(<<65>>), Number("I2", -2)}
Lists == {List(<<>>), List(<<List(<<>>), ASCII(<<65>>)>>)}
            \cup {List(<<a>>) : a \in Few} \cup {List(<<a, List(<<Binary(<<16>>)>>), List(<<>>)>>) : a \in Few}
            \cup {List(<<List(<<List(<<>>), Binary(<<9, 10>>)>>), Boolean(TRUE)>>)}

MessageWith(body) == Message(1, 6, 11, TRUE, 66051, body)
Wire(m)      == [message |-> m, bytes |-> EncodeFrame(EncodeMessage(m))]
Bad(frame)   == [message |-> Refused, bytes |-> EncodeFrame(frame)]
Body(bytes)  == Bad(DataFrame(1, 7, 6, 11, TRUE, bytes))

(* Bodies no item has: cut short, with something left over, of no known      *)
(* format, without a length, a list of fewer items than it announces.        *)
BadBodies == {Body(<<65>>), Body(<<65, 2, 65>>), Body(<<1, 0, 1>>), Body(<<61, 0>>),
              Body(<<64, 1>>), Body(<<165, 2, 1, 1>>), Body(<<1, 2, 1, 0>>)}
(* The same item with two length bytes, which the simulator never writes. *)
LongLength == [message |-> MessageWith(ASCII(<<65>>)),
               bytes |-> EncodeFrame(DataFrame(1, 66051, 6, 11, TRUE, <<66, 0, 1, 65>>))]
Linktest == Bad(ControlFrame(65535, 9, 5, 0))
TooShort == [message |-> Refused, bytes |-> Bytes4(9) \o <<0, 0, 0, 0, 0, 0, 0, 0, 0>>]

Plain == Wire(MessageWith(NoBody))
MCOutgoing == {Wire(MessageWith(i)) : i \in MCScalars \cup Lists} \cup BadBodies
                \cup {LongLength, Linktest, TooShort, Plain}
MCFollowers == {Plain, Wire(Message(0, 2, 26, FALSE, 1, Binary(<<0>>)))}
MCOutgoingAll == MCOutgoing \cup MCFollowers

(* Longer texts than the instance can cut up, where the length takes one,    *)
(* two and three bytes.                                                      *)
ASSUME LongTexts ==
    \A n \in {255, 256, 65535, 65536} :
        LET text == ASCII([k \in 1..n |-> 65])
        IN  DecodeItem(EncodeItem(text)) = Decoded(text, Len(EncodeItem(text)))
=============================================================================
