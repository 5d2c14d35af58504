------------------------------- MODULE SmlText ------------------------------
(* The text of items: what the simulator writes (items.go: Compact, Pretty)  *)
(* and what it reads (sml_parser.go: ParseSMLItem): its own compact form, and*)
(* the form in which equipment logs an item. A text is a sequence of tokens: *)
(* headers of lists, scalars, closing brackets and periods. White space is   *)
(* left out, except that a logged header may end at the end of its line,     *)
(* unclosed. Writers and parser are recursive functions, as those of         *)
(* ItemCodec are.                                                            *)
EXTENDS ItemCodec

ListOf(n)           == [tok |-> "L:", n |-> n]
LoggedList(n)       == [tok |-> "<L,", n |-> n]
Scalar(t, v)        == [tok |-> "scalar", logged |-> FALSE, type |-> t, value |-> v]
LoggedScalar(t, v)  == [tok |-> "scalar", logged |-> TRUE, type |-> t, value |-> v]
Closer              == [tok |-> ">"]
Period              == [tok |-> "."]

(* The values a scalar is written with. Numbers are written in decimal, as   *)
(* they are; a byte as digits, with or without 0x; a text as its characters, *)
(* quoted (every character escaped that needs it) or bare.                   *)
Numeral(prefix, digits) == [prefix |-> prefix, digits |-> digits]
Written(quoted, chars)  == [quoted |-> quoted, chars |-> chars]
Quote == 34
Space == 32
Greater == 62
Open  == 91
Shut  == 93

(* Compact and Pretty differ in their white space only. *)
CompactScalar(item) ==
    CASE item.type = "B" -> Scalar("B", [k \in DOMAIN item.bytes |->
                                Numeral(TRUE, <<item.bytes[k] \div 16, item.bytes[k] % 16>>)])
      [] item.type = "A" -> Scalar("A", Written(TRUE, item.text))
      [] item.type = "BOOLEAN" -> Scalar("BOOLEAN", IF item.bool THEN "TRUE" ELSE "FALSE")
      [] OTHER -> Scalar(item.type, item.value)
compact[d \in 0 .. MaxDepth] ==
    [item \in Items[d] |->
        IF IsList(item)
        THEN <<ListOf(Len(item.items))>>
                \o FlattenSeq([k \in DOMAIN item.items |-> compact[d - 1][item.items[k]]])
        ELSE <<CompactScalar(item)>>]
Compact(item) == compact[MaxDepth][item]

(* How the log of a piece of equipment writes an item: bytes in decimal,     *)
(* texts bare, a label behind every value, a bracket behind every list that  *)
(* is not empty.                                                             *)
Label == <<Open, 88, Shut>>
DecimalByte(b) == CASE b < 10 -> <<b>>
                    [] 10 <= b /\ b < 100 -> <<b \div 10, b % 10>>
                    [] OTHER -> <<b \div 100, (b \div 10) % 10, b % 10>>
EquipmentScalar(item) ==
    CASE item.type = "B" -> LoggedScalar("B", [k \in DOMAIN item.bytes |->
                                Numeral(FALSE, DecimalByte(item.bytes[k]))])
      [] item.type = "A" -> LoggedScalar("A", Written(FALSE,
                                IF item.text = <<>> THEN Label ELSE item.text \o <<Space>> \o Label))
      [] item.type = "BOOLEAN" -> LoggedScalar("BOOLEAN", IF item.bool THEN "T" ELSE "F")
      [] OTHER -> LoggedScalar(item.type, item.value)
equipment[d \in 0 .. MaxDepth] ==
    [item \in Items[d] |->
        IF IsList(item)
        THEN <<LoggedList(Len(item.items))>>
                \o FlattenSeq([k \in DOMAIN item.items |-> equipment[d - 1][item.items[k]]])
                \o (IF item.items = <<>> THEN <<>> ELSE <<Closer>>)
        ELSE <<EquipmentScalar(item)>>]
EquipmentLog(item) == equipment[MaxDepth][item]

(* The texts such a log can hold without quotes: printed characters but for  *)
(* a quote and ">", which would end the scalar late or early, and no blank   *)
(* and no bracket where the parser takes it away.                            *)
Loggable(chars) ==
    /\ \A k \in DOMAIN chars : chars[k] \in (32 .. 126) \ {Quote, Greater}
    /\ chars = <<>> \/ (chars[1] \notin {Space, Open} /\ chars[Len(chars)] # Space)
BareText(token) == SubSeq(token.value.chars, 1, Len(token.value.chars) - Len(Label) - 1)
PlainText(log) ==
    \A k \in DOMAIN log : log[k].tok = "scalar" /\ log[k].type = "A" => Loggable(BareText(log[k]))

(* What a scalar's notation means. *)
Read(item) == [ok |-> TRUE, item |-> item]

HexDigits(digits) == \E k \in DOMAIN digits : digits[k] > 9
InBase(base, digits) ==
    LET first[n \in 0 .. Len(digits)] == IF n = 0 THEN 0 ELSE base * first[n - 1] + digits[n]
    IN  first[Len(digits)]

(* A byte of the compact form is hexadecimal; one of the logged form only    *)
(* with a prefix or a digit above nine.                                      *)
ByteValue_AlwaysHex(logged, numeral) == InBase(16, numeral.digits)
ByteValue(logged, numeral) ==
    InBase(IF logged /\ ~numeral.prefix /\ ~HexDigits(numeral.digits) THEN 10 ELSE 16, numeral.digits)

Fits(t, n) == Number(t, n) \in Numbers

(* A logged value loses the space around it and its label: all of it when it *)
(* is one, else from the last " [" on when it ends with "]".                 *)
Trimmed(chars) ==
    LET inner == {k \in DOMAIN chars : chars[k] # Space}
    IN  IF inner = {} THEN <<>> ELSE SubSeq(chars, Min(inner), Max(inner))
Unlabelled(chars) ==
    LET value == Trimmed(chars)
        last == Len(value)
        from == {k \in 1..(last - 1) : value[k] = Space /\ value[k + 1] = Open}
    IN  CASE value = <<>> -> <<>>
          [] value # <<>> /\ value[last] # Shut -> value
          [] OTHER -> IF value[1] = Open THEN <<>>
                      ELSE IF from = {} THEN value ELSE Trimmed(SubSeq(value, 1, Max(from) - 1))

(* A logged text keeps the quotes it is written with. *)
TextOf(logged, w) == CASE ~logged -> w.chars
                       [] logged /\ w.quoted -> <<Quote>> \o w.chars \o <<Quote>>
                       [] OTHER -> Unlabelled(w.chars)

Truths(logged, b) == IF b THEN {"TRUE"} \cup (IF logged THEN {"T", "1"} ELSE {})
                          ELSE {"FALSE"} \cup (IF logged THEN {"F", "0"} ELSE {})

(* The short names of the widest numbers. *)
TypeNamed(t) == CASE t = "U" -> "U4" [] t = "I" -> "I4" [] OTHER -> t

ParseScalar(token) ==
    LET t == TypeNamed(token.type)
        v == token.value
        bytes == [k \in DOMAIN v |-> ByteValue(token.logged, v[k])]
    IN  CASE t = "A" -> Read(ASCII(TextOf(token.logged, v)))
          [] t = "B" -> IF \A k \in DOMAIN v : bytes[k] < 256 THEN Read(Binary(bytes)) ELSE Refused
          [] t = "BOOLEAN" -> IF \E b \in BOOLEAN : v \in Truths(token.logged, b)
                              THEN Read(Boolean(v \in Truths(token.logged, TRUE))) ELSE Refused
          [] t \in Numeric -> IF Fits(t, v) THEN Read(Number(t, v)) ELSE Refused
          [] OTHER -> Refused

TokenAt(text, at, tok) == at <= Len(text) /\ text[at].tok = tok
PastPeriods(text, at) ==
    LET others == {k \in at .. Len(text) : text[k] # Period}
    IN  IF others = {} THEN Len(text) + 1 ELSE Min(others)

(* After the last child of a logged list its closing bracket is taken, when  *)
(* there is one, and the periods behind it.                                  *)
PastCloser(text, at) == IF TokenAt(text, at, ">") THEN PastPeriods(text, at + 1) ELSE at

(* A parsed item and the token after it; and several. *)
Parsed(item, next)       == [ok |-> TRUE, item |-> item, next |-> next]
ParsedItems(items, next) == [ok |-> TRUE, items |-> items, next |-> next]

(* The item that starts at a token, when children[k][n] are the n items from *)
(* the kth token on. An empty logged list ends with its header.              *)
ItemFrom(text, at, children) ==
    LET token  == text[at]
        list   == children[at + 1][token.n]
        scalar == ParseScalar(token)
        upTo(next) == IF list.ok THEN Parsed(List(list.items), next) ELSE Refused
    IN  CASE TokenAt(text, at, "L:")     -> upTo(list.next)
          [] TokenAt(text, at, "<L,")    -> upTo(IF token.n = 0 THEN at + 1 ELSE PastCloser(text, list.next))
          [] TokenAt(text, at, "scalar") -> IF scalar.ok THEN Parsed(scalar.item, at + 1) ELSE Refused
          [] OTHER                       -> Refused

(* The first of n items, and those after it. *)
ItemsFrom(text, at, n, children) ==
    LET child == ItemFrom(text, at, children)
        after == children[child.next][n - 1]
    IN  IF child.ok /\ after.ok
        THEN ParsedItems(<<child.item>> \o after.items, after.next)
        ELSE Refused

(* The n items from a token on; room is how many may still begin. *)
ParseItems(text) ==
    LET parse[room \in 0 .. Len(text)] ==
            [at \in Nat |-> [n \in Nat |->
                IF n = 0 THEN ParsedItems(<<>>, at)
                ELSE IF room = 0 THEN Refused
                ELSE ItemsFrom(text, at, n, parse[room - 1])]]
    IN  parse
ParseItem(text, at) == ItemFrom(text, at, ParseItems(text)[Len(text)])

(* ParseSMLItem: one item, periods, and nothing more. *)
ParseSMLItem(text) ==
    LET parsed == ParseItem(text, 1) IN
    IF parsed.ok /\ PastPeriods(text, parsed.next) > Len(text) THEN Read(parsed.item) ELSE Refused

(* buildScheduledSendMessage: the message of an action whose body is a text; *)
(* no text, no body.                                                         *)
Build(session, action) ==
    LET parsed == ParseSMLItem(action.body)
        frame(body) == [ok |-> TRUE, frame |->
                          EncodeMessage(Message(session, action.stream, action.function, action.wbit, 0, body))]
    IN  CASE ~action.ok -> Refused
          [] action.ok /\ action.body = <<>> -> frame(NoBody)
          [] action.ok /\ action.body # <<>> /\ parsed.ok -> frame(parsed.item)
          [] OTHER -> Refused
=============================================================================
