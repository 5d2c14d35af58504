--------------------------- MODULE HsmsFrameProofs ---------------------------
(* What is read of a frame that was written, for every frame the fields of   *)
(* the header can hold, and of the bytes of many frames, wherever the network*)
(* cuts them.                                                                *)
EXTENDS FrameStream, SequenceTheorems, FiniteSetTheorems, TLAPS

Word16 == {n \in Nat : n <= 65535}
Word32 == {n \in Nat : n <= 4294967295}

(* A frame ReadFrame and WriteFrame have one form for: a data frame has no   *)
(* code, a control frame nothing of a message.                               *)
Frame == [session : Word16, stream : 0 .. 127, function : Byte, wbit : BOOLEAN, ptype : Byte,
          stype : Byte, system : Word32, code : Byte, body : Seq(Byte)]
WellFormed(f) ==
    IF f.stype = DataSType THEN f.code = 0 ELSE f.stream = 0 /\ f.function = 0 /\ ~f.wbit

-----------------------------------------------------------------------------
(* A word is its bytes. *)
LEMMA OneByte ==
    ASSUME NEW n \in Nat
    PROVE  /\ n % 256 \in Byte /\ n \div 256 \in Nat
           /\ (n \div 256) * 256 + (n % 256) = n
           /\ n \in Byte => n % 256 = n
BY SMTT(30) DEF Byte

LEMMA HighPart ==
    ASSUME NEW n \in Nat, NEW b \in Nat, n <= b * 256 + 255
    PROVE  n \div 256 \in Nat /\ n \div 256 <= b
<1> DEFINE q == n \div 256
           r == n % 256
<1>1. q \in Nat /\ r \in 0..255 /\ q * 256 + r = n
  BY OneByte DEF Byte
<1> HIDE DEF q, r
<1>2. q <= b
  BY <1>1
<1> QED
  BY <1>1, <1>2 DEF q

LEMMA Bytes2RoundTrip ==
    ASSUME NEW n \in Word16
    PROVE  /\ Word2(Bytes2(n)[1], Bytes2(n)[2]) = n
           /\ Bytes2(n)[1] \in Byte /\ Bytes2(n)[2] \in Byte
<1>1. n \in Nat /\ n \div 256 \in Byte
  <2>1. n \in Nat /\ n <= 65535
    BY DEF Word16
  <2>2. n \div 256 \in Nat /\ n \div 256 <= 255
    BY <2>1, HighPart
  <2> QED
    BY <2>1, <2>2, SMTT(30) DEF Byte
<1>2. Bytes2(n)[1] = n \div 256 /\ Bytes2(n)[2] = n % 256
  BY <1>1, OneByte, SMTT(30) DEF Bytes2
<1> QED
  BY <1>1, <1>2, OneByte, SMTT(30) DEF Word2

LEMMA Bytes4RoundTrip ==
    ASSUME NEW n \in Word32
    PROVE  /\ Word4(Bytes4(n)[1], Bytes4(n)[2], Bytes4(n)[3], Bytes4(n)[4]) = n
           /\ \A k \in 1 .. 4 : Bytes4(n)[k] \in Byte
<1> DEFINE n1 == n \div 256
           n2 == n1 \div 256
           n3 == n2 \div 256
<1>1. n \in Nat /\ n1 \in Nat /\ n2 \in Nat /\ n3 \in Byte
  <2>1. n \in Nat /\ n <= 4294967295
    BY DEF Word32
  <2> HIDE DEF n1, n2, n3
  <2>2. n1 \in Nat /\ n1 <= 16777215
    BY <2>1, HighPart DEF n1
  <2>3. n2 \in Nat /\ n2 <= 65535
    BY <2>2, HighPart DEF n2
  <2>4. n3 \in Nat /\ n3 <= 255
    BY <2>3, HighPart DEF n3
  <2> QED
    BY <2>1, <2>2, <2>3, <2>4, SMTT(30) DEF Byte
<1>2. n \div 65536 = n2 /\ n \div 16777216 = n3
  BY <1>1, SMTT(30)
<1>3. n3 % 256 = n3
  BY <1>1, SMTT(30) DEF Byte
<1>4. /\ Bytes4(n)[1] = n3 /\ Bytes4(n)[2] = n2 % 256
      /\ Bytes4(n)[3] = n1 % 256 /\ Bytes4(n)[4] = n % 256
  BY <1>2, <1>3, SMTT(30) DEF Bytes4
<1>5. n2 = n3 * 256 + (n2 % 256) /\ n1 = n2 * 256 + (n1 % 256) /\ n = n1 * 256 + (n % 256)
  BY <1>1, SMT
<1>6. n2 % 256 \in Byte /\ n1 % 256 \in Byte /\ n % 256 \in Byte
  BY <1>1, SMT DEF Byte
<1> HIDE DEF n1, n2, n3
<1>7. n = n3 * 16777216 + (n2 % 256) * 65536 + (n1 % 256) * 256 + (n % 256)
  BY <1>1, <1>5, <1>6, SMT DEF Byte
<1> QED
  BY <1>1, <1>4, <1>6, <1>7, SMT DEF Word4

-----------------------------------------------------------------------------
(* The header. *)
HeadOf(f) ==
    LET l == Bytes4(HeaderLength + Len(f.body))
        i == Bytes2(f.session)
        h == HeaderBytes(f)
        s == Bytes4(f.system)
    IN  <<l[1], l[2], l[3], l[4], i[1], i[2], h[1], h[2], f.ptype, f.stype, s[1], s[2], s[3], s[4]>>

LEMMA EncodeIsHeadAndBody ==
    ASSUME NEW f \in Frame
    PROVE  EncodeFrame(f) = HeadOf(f) \o f.body
BY SMT DEF EncodeFrame, HeadOf, Bytes4, Bytes2, HeaderBytes, Frame

LEMMA StreamByteRoundTrip ==
    ASSUME NEW f \in Frame
    PROVE  /\ StreamByte(f) \in Byte /\ StreamByte(f) % 128 = f.stream
           /\ StreamByte(f) >= 128 <=> f.wbit
<1> DEFINE s == f.stream
<1>1. s \in Nat /\ s <= 127
  <2>1. s \in 0 .. 127
    BY DEF Frame
  <2> HIDE DEF s
  <2> QED
    BY <2>1, SMT
<1>2. f.stream % 128 = f.stream /\ (f.stream + 128) % 128 = f.stream
  BY <1>1, SMT
<1>3. CASE f.wbit
  <2>1. StreamByte(f) = f.stream + 128
    BY <1>2, <1>3, SMT DEF StreamByte
  <2> QED
    BY <1>1, <1>2, <1>3, <2>1, SMT DEF Byte
<1>4. CASE ~f.wbit
  <2>1. StreamByte(f) = f.stream
    BY <1>1, <1>2, <1>4, SMT DEF StreamByte
  <2> QED
    BY <1>1, <1>2, <1>4, <2>1, SMT DEF Byte
<1> QED
  BY <1>3, <1>4
(* What is left of a sequence after its first m elements. *)
LEMMA Dropped ==
    ASSUME NEW S, NEW q \in Seq(S), NEW m \in Nat, m <= Len(q)
    PROVE  LET d == SubSeq(q, m + 1, Len(q)) IN
           /\ d \in Seq(S) /\ Len(d) = Len(q) - m
           /\ \A k \in 1 .. Len(q) - m : d[k] = q[m + k]
<1> DEFINE d == SubSeq(q, m + 1, Len(q))
<1>1. Len(q) \in Nat /\ \A k \in 1 .. Len(q) : q[k] \in S
  BY LenProperties, ElementOfSeq
<1>2. d \in Seq(S) /\ Len(d) = Len(q) - m /\ \A k \in 1 .. Len(q) - m : d[k] = q[m + k]
  BY <1>1, SubSeqProperties
<1> QED
  BY <1>2

\* A frame whose header fields fit their widths is read as it was written, and what
\* is written announces its own length (frame.go: WriteFrame, ReadFrame,
\* decodeFrame), for every body the length has room for.
THEOREM FrameRoundTrip ==
    ASSUME NEW f \in Frame, WellFormed(f), HeaderLength + Len(f.body) \in Word32
    PROVE  LET b == EncodeFrame(f) IN
           /\ IsWritten(b)
           /\ DecodeFrame(From(b, 5)) = f
<1> DEFINE h == HeadOf(f)
           b == EncodeFrame(f)
           p == SubSeq(b, 5, Len(b))
           l == Bytes4(HeaderLength + Len(f.body))
           i == Bytes2(f.session)
           c == HeaderBytes(f)
           s == Bytes4(f.system)
<1>1. /\ f.body \in Seq(Byte) /\ Len(f.body) \in Nat /\ f.session \in Word16 /\ f.system \in Word32
      /\ f.ptype \in Byte /\ f.stype \in Byte /\ f.function \in Byte /\ f.code \in Byte
      /\ f.wbit \in BOOLEAN
  BY LenProperties DEF Frame
<1>2. c[1] \in Byte /\ c[2] \in Byte
  BY <1>1, StreamByteRoundTrip, SMT DEF HeaderBytes, Byte
<1>3. /\ Len(h) = 14 /\ h \in Seq(Byte)
      /\ h[1] = l[1] /\ h[2] = l[2] /\ h[3] = l[3] /\ h[4] = l[4] /\ h[5] = i[1] /\ h[6] = i[2]
      /\ h[7] = c[1] /\ h[8] = c[2] /\ h[9] = f.ptype /\ h[10] = f.stype
      /\ h[11] = s[1] /\ h[12] = s[2] /\ h[13] = s[3] /\ h[14] = s[4]
  <2>1. l[1] \in Byte /\ l[2] \in Byte /\ l[3] \in Byte /\ l[4] \in Byte
    BY Bytes4RoundTrip
  <2>2. s[1] \in Byte /\ s[2] \in Byte /\ s[3] \in Byte /\ s[4] \in Byte
    BY <1>1, Bytes4RoundTrip
  <2>3. i[1] \in Byte /\ i[2] \in Byte
    BY <1>1, Bytes2RoundTrip
  <2> HIDE DEF l, i, c, s
  <2> QED
    BY <1>1, <1>2, <2>1, <2>2, <2>3 DEF HeadOf, l, i, c, s
<1> DEFINE n == Len(f.body)
<1>4. /\ b \in Seq(Byte) /\ Len(b) = 14 + n
      /\ \A k \in 1 .. 14 + n : b[k] = IF k <= 14 THEN h[k] ELSE f.body[k - 14]
  <2>1. b = h \o f.body
    BY EncodeIsHeadAndBody
  <2> HIDE DEF h, b
  <2>2. /\ b \in Seq(Byte) /\ Len(b) = Len(h) + Len(f.body)
        /\ \A k \in 1 .. Len(h) + Len(f.body) : b[k] = IF k <= Len(h) THEN h[k] ELSE f.body[k - Len(h)]
    BY <1>1, <1>3, <2>1, ConcatProperties
  <2> QED
    BY <1>3, <2>2
<1> HIDE DEF h, b
<1>5. p \in Seq(Byte) /\ Len(p) = 10 + n /\ \A k \in 1 .. 10 + n : p[k] = b[4 + k]
  <2>1. p \in Seq(Byte) /\ Len(p) = Len(b) - 4 /\ \A k \in 1 .. Len(b) - 4 : p[k] = b[4 + k]
    BY <1>1, <1>4, Dropped
  <2> QED
    BY <1>1, <1>4, <2>1
<1> HIDE DEF p
<1>6. SubSeq(p, 11, Len(p)) = f.body
  <2> DEFINE d == SubSeq(p, 11, Len(p))
  <2>1. d \in Seq(Byte) /\ Len(d) = Len(p) - 10 /\ \A k \in 1 .. Len(p) - 10 : d[k] = p[10 + k]
    BY <1>1, <1>5, Dropped
  <2> HIDE DEF d
  <2>2. ASSUME NEW k \in 1 .. n PROVE d[k] = f.body[k]
    <3>1. d[k] = p[10 + k] /\ 10 + k \in 1 .. 10 + n /\ 4 + (10 + k) = 14 + k
      BY <1>1, <1>5, <2>1
    <3>2. p[10 + k] = b[14 + k] /\ 14 + k \in 1 .. 14 + n /\ (14 + k) - 14 = k
      BY <1>1, <1>5, <3>1
    <3> QED
      BY <1>1, <1>4, <3>1, <3>2
  <2>3. Len(d) = Len(f.body)
    BY <1>1, <1>5, <2>1
  <2>4. d = f.body
    BY <1>1, <2>1, <2>2, <2>3, SeqEqual
  <2> QED
    BY <2>4 DEF d
<1>7. /\ b[1] = l[1] /\ b[2] = l[2] /\ b[3] = l[3] /\ b[4] = l[4]
      /\ p[1] = i[1] /\ p[2] = i[2] /\ p[3] = c[1] /\ p[4] = c[2] /\ p[5] = f.ptype /\ p[6] = f.stype
      /\ p[7] = s[1] /\ p[8] = s[2] /\ p[9] = s[3] /\ p[10] = s[4]
  <2>1. \A k \in 1 .. 14 : b[k] = h[k]
    BY <1>1, <1>4
  <2>2. ASSUME NEW k \in 1 .. 10 PROVE p[k] = h[4 + k]
    <3>1. k \in 1 .. 10 + n /\ 4 + k \in 1 .. 14
      BY <1>1
    <3> QED
      BY <1>5, <2>1, <3>1
  <2> HIDE DEF l, i, c, s
  <2>3. /\ p[1] = h[5] /\ p[2] = h[6] /\ p[3] = h[7] /\ p[4] = h[8] /\ p[5] = h[9]
        /\ p[6] = h[10] /\ p[7] = h[11] /\ p[8] = h[12] /\ p[9] = h[13] /\ p[10] = h[14]
    BY <2>2
  <2> QED
    BY <1>3, <2>1, <2>3
<1>8. PayloadLength(b) = Len(b) - 4
  <2>1. PayloadLength(b) = HeaderLength + Len(f.body)
    BY <1>7, Bytes4RoundTrip DEF PayloadLength
  <2> QED
    BY <1>1, <1>4, <2>1 DEF HeaderLength
<1>9. Word2(p[1], p[2]) = f.session /\ Word4(p[7], p[8], p[9], p[10]) = f.system
  BY <1>1, <1>7, Bytes2RoundTrip, Bytes4RoundTrip
<1>81. IsWritten(b)
  <2>1. b[10] = f.stype /\ b[7] = c[1]
    <3>1. 10 \in 1 .. 14 + n /\ 7 \in 1 .. 14 + n
      BY <1>1
    <3> QED
      BY <1>3, <1>4, <3>1
  <2>2. f.stype = DataSType \/ c[1] = 0
    BY DEF HeaderBytes
  <2>3. Len(b) >= 4
    BY <1>1, <1>4
  <2> QED
    BY <1>4, <1>8, <2>1, <2>2, <2>3 DEF IsWritten
<1>10. CASE f.stype = DataSType
  <2>1. p[3] = StreamByte(f) /\ p[4] = f.function /\ f.code = 0
    BY <1>7, <1>10 DEF HeaderBytes, WellFormed
  <2>2. p[3] % 128 = f.stream /\ (p[3] >= 128) = f.wbit
    BY <1>1, <2>1, StreamByteRoundTrip
  <2> QED
    BY <1>7, <1>81, <1>9, <1>10, <1>6, <2>1, <2>2 DEF DecodeFrame, Frame, From, b, p
<1>11. CASE f.stype # DataSType
  <2>1. p[4] = f.code /\ f.stream = 0 /\ f.function = 0 /\ f.wbit = FALSE
    BY <1>1, <1>7, <1>11 DEF HeaderBytes, WellFormed
  <2> QED
    BY <1>7, <1>81, <1>9, <1>11, <1>6, <2>1 DEF DecodeFrame, Frame, From, b, p
<1> QED
  BY <1>10, <1>11

-----------------------------------------------------------------------------
(* The other way: bytes of a word, and the bytes of a frame that is read.    *)
LEMMA HighAndLow ==
    ASSUME NEW a \in Nat, NEW m \in Nat \ {0}, NEW b \in Nat, b < m, m \in {256, 65536, 16777216}
    PROVE  (a * m + b) \div m = a /\ (a * m + b) % m = b
BY SMTT(30)

LEMMA SmallWord ==
    ASSUME NEW n \in Nat, n <= 65535
    PROVE  n \in Word16
BY DEF Word16

LEMMA BytesOfWord2 ==
    ASSUME NEW a \in Byte, NEW b \in Byte
    PROVE  Word2(a, b) \in Word16 /\ Bytes2(Word2(a, b)) = <<a, b>>
<1>1. a \in Nat /\ b \in Nat /\ a < 256 /\ b < 256
  BY DEF Byte
<1>2. (a * 256 + b) \div 256 = a /\ (a * 256 + b) % 256 = b
  BY <1>1, HighAndLow
<1>3. a % 256 = a
  BY <1>1, SMT
<1>4. a * 256 + b \in Word16
  <2> DEFINE n == a * 256 + b
  <2>1. n \in Nat /\ n <= 65535
    BY <1>1
  <2> HIDE DEF n
  <2>2. n \in Word16
    BY <2>1, SmallWord
  <2> QED
    BY <2>2 DEF n
<1> QED
  BY <1>2, <1>3, <1>4 DEF Bytes2, Word2

LEMMA BytesOfWord4 ==
    ASSUME NEW a \in Byte, NEW b \in Byte, NEW c \in Byte, NEW d \in Byte
    PROVE  Word4(a, b, c, d) \in Word32 /\ Bytes4(Word4(a, b, c, d)) = <<a, b, c, d>>
<1> DEFINE n == Word4(a, b, c, d)
           ab == a * 256 + b
           abc == ab * 256 + c
<1>1. a \in Nat /\ b \in Nat /\ c \in Nat /\ d \in Nat /\ a < 256 /\ b < 256 /\ c < 256 /\ d < 256
  BY DEF Byte
<1>2. ab \in Nat /\ abc \in Nat /\ ab < 65536
  BY <1>1, SMT
<1>3. n = a * 16777216 + (b * 65536 + c * 256 + d) /\ n = ab * 65536 + (c * 256 + d)
      /\ n = abc * 256 + d
  BY <1>1, SMT DEF Word4
<1>4. b * 65536 + c * 256 + d \in Nat /\ b * 65536 + c * 256 + d < 16777216
      /\ c * 256 + d \in Nat /\ c * 256 + d < 65536
  BY <1>1, SMT
<1>5. n \in Word32
  BY <1>1, <1>3, <1>4, SMT DEF Word32
<1> HIDE DEF n, ab, abc
<1>6. n \div 16777216 = a
  BY <1>1, <1>3, <1>4, HighAndLow
<1>7. n \div 65536 = ab
  BY <1>1, <1>2, <1>3, <1>4, HighAndLow
<1>8. n \div 256 = abc /\ n % 256 = d
  BY <1>1, <1>2, <1>3, HighAndLow
<1>9. ab % 256 = b /\ abc % 256 = c
  BY <1>1, <1>2, HighAndLow DEF ab, abc
<1>10. a % 256 = a
  BY <1>1, SMT
<1>11. Bytes4(n) = <<a, b, c, d>>
  BY <1>6, <1>7, <1>8, <1>9, <1>10 DEF Bytes4
<1> QED
  BY <1>5, <1>11 DEF n

LEMMA StreamByteOfByte ==
    ASSUME NEW x \in Byte
    PROVE  /\ x % 128 \in 0 .. 127 /\ (x % 128) % 128 = x % 128
           /\ x = (x % 128) + (IF x >= 128 THEN 128 ELSE 0)
BY SMTT(30) DEF Byte

\* A frame that is read is the frame those bytes write (frame.go: decodeFrame,
\* WriteFrame): no byte the peer announced is lost, for every length.
THEOREM FrameOfBytes ==
    ASSUME NEW b, IsWritten(b), Len(b) >= 4 + HeaderLength
    PROVE  DecodeFrame(From(b, 5)) \in Frame /\ EncodeFrame(DecodeFrame(From(b, 5))) = b
<1> DEFINE p == From(b, 5)
           f == DecodeFrame(p)
           e == f.body
           l == Len(b)
<1>1. b \in Seq(Byte) /\ l \in Nat /\ l >= 14 /\ PayloadLength(b) = l - 4
      /\ (b[10] = DataSType \/ b[7] = 0)
  BY LenProperties DEF IsWritten, HeaderLength
<1> HIDE DEF l
<1>2. \A k \in 1 .. l : b[k] \in Byte
  BY <1>1, ElementOfSeq DEF l
<1>3. p \in Seq(Byte) /\ Len(p) = l - 4 /\ \A k \in 1 .. l - 4 : p[k] = b[4 + k]
  <2>1. 4 \in Nat /\ 4 <= Len(b)
    BY <1>1 DEF l
  <2> QED
    BY <1>1, <2>1, Dropped DEF From, l
<1> HIDE DEF p
<1>4. e = SubSeq(p, 11, Len(p))
  BY DEF DecodeFrame
<1>5. e \in Seq(Byte) /\ Len(e) = l - 14 /\ \A k \in 1 .. l - 14 : e[k] = b[14 + k]
  <2>1. 10 \in Nat /\ 10 <= Len(p)
    BY <1>1, <1>3
  <2> DEFINE r == SubSeq(p, 10 + 1, Len(p))
  <2>2. r \in Seq(Byte) /\ Len(r) = Len(p) - 10 /\ \A k \in 1 .. Len(p) - 10 : r[k] = p[10 + k]
    BY <1>3, <2>1, Dropped
  <2>3. r = e
    BY <1>4
  <2> HIDE DEF r
  <2>4. ASSUME NEW k \in 1 .. l - 14 PROVE r[k] = b[14 + k]
    <3>1. k \in 1 .. Len(p) - 10 /\ 10 + k \in 1 .. l - 4 /\ 4 + (10 + k) = 14 + k
      BY <1>1, <1>3
    <3> QED
      BY <1>3, <2>2, <3>1
  <2>5. r \in Seq(Byte) /\ Len(r) = l - 14
    BY <1>1, <1>3, <2>2
  <2>6. \A k \in 1 .. l - 14 : r[k] = b[14 + k]
    BY <2>4
  <2> QED
    BY <2>3, <2>5, <2>6
<1>6. /\ p[1] = b[4 + 1] /\ p[2] = b[4 + 2] /\ p[3] = b[4 + 3] /\ p[4] = b[4 + 4] /\ p[5] = b[4 + 5]
      /\ p[6] = b[4 + 6] /\ p[7] = b[4 + 7] /\ p[8] = b[4 + 8] /\ p[9] = b[4 + 9] /\ p[10] = b[4 + 10]
  <2>1. \A k \in 1 .. 10 : k \in 1 .. l - 4
    BY <1>1
  <2>2. \A k \in 1 .. 10 : p[k] = b[4 + k]
    BY <1>3, <2>1
  <2> QED
    BY <2>2
<1>61. /\ p[1] = b[5] /\ p[2] = b[6] /\ p[3] = b[7] /\ p[4] = b[8] /\ p[5] = b[9] /\ p[6] = b[10]
      /\ p[7] = b[11] /\ p[8] = b[12] /\ p[9] = b[13] /\ p[10] = b[14]
  BY <1>6
<1>7. /\ b[1] \in Byte /\ b[2] \in Byte /\ b[3] \in Byte /\ b[4] \in Byte /\ b[5] \in Byte
      /\ b[6] \in Byte /\ b[7] \in Byte /\ b[8] \in Byte /\ b[9] \in Byte /\ b[10] \in Byte
      /\ b[11] \in Byte /\ b[12] \in Byte /\ b[13] \in Byte /\ b[14] \in Byte
  BY <1>1, <1>2
<1>8. /\ f.session = Word2(b[5], b[6]) /\ f.ptype = b[9] /\ f.stype = b[10]
      /\ f.system = Word4(b[11], b[12], b[13], b[14])
      /\ f.stream = IF b[10] = DataSType THEN b[7] % 128 ELSE 0
      /\ f.function = IF b[10] = DataSType THEN b[8] ELSE 0
      /\ f.wbit = (b[10] = DataSType /\ b[7] >= 128)
      /\ f.code = IF b[10] = DataSType THEN 0 ELSE b[8]
  BY <1>61 DEF DecodeFrame
<1>81. /\ Word2(b[5], b[6]) \in Word16 /\ Bytes2(Word2(b[5], b[6])) = <<b[5], b[6]>>
       /\ Word4(b[11], b[12], b[13], b[14]) \in Word32
       /\ Bytes4(Word4(b[11], b[12], b[13], b[14])) = <<b[11], b[12], b[13], b[14]>>
       /\ Bytes4(Word4(b[1], b[2], b[3], b[4])) = <<b[1], b[2], b[3], b[4]>>
  <2>1. Word2(b[5], b[6]) \in Word16 /\ Bytes2(Word2(b[5], b[6])) = <<b[5], b[6]>>
    BY <1>7, BytesOfWord2
  <2>2. /\ Word4(b[11], b[12], b[13], b[14]) \in Word32
        /\ Bytes4(Word4(b[11], b[12], b[13], b[14])) = <<b[11], b[12], b[13], b[14]>>
    <3>1. b[11] \in Byte /\ b[12] \in Byte /\ b[13] \in Byte /\ b[14] \in Byte
      BY <1>7
    <3> QED
      BY <3>1, BytesOfWord4, Zenon
  <2>3. Bytes4(Word4(b[1], b[2], b[3], b[4])) = <<b[1], b[2], b[3], b[4]>>
    <3>1. b[1] \in Byte /\ b[2] \in Byte /\ b[3] \in Byte /\ b[4] \in Byte
      BY <1>7
    <3> QED
      BY <3>1, BytesOfWord4, Zenon
  <2> QED
    BY <2>1, <2>2, <2>3
<1>82. b[7] % 128 \in 0 .. 127 /\ (b[7] % 128) % 128 = b[7] % 128
       /\ b[7] = (b[7] % 128) + (IF b[7] >= 128 THEN 128 ELSE 0)
  BY <1>7, StreamByteOfByte
<1>9. f = [session |-> f.session, ptype |-> f.ptype, stype |-> f.stype, system |-> f.system,
           body |-> f.body, stream |-> f.stream, function |-> f.function, wbit |-> f.wbit, code |-> f.code]
  BY DEF DecodeFrame
<1> HIDE DEF f
<1>10. f \in Frame
  <2>1. f.session \in Word16 /\ f.system \in Word32
    BY <1>8, <1>81
  <2>2. f.stream \in 0 .. 127
    BY <1>8, <1>82
  <2>3. f.function \in Byte /\ f.code \in Byte /\ f.ptype \in Byte /\ f.stype \in Byte
    BY <1>7, <1>8 DEF Byte
  <2>4. f.wbit \in BOOLEAN
    BY <1>8
  <2>5. f.body \in Seq(Byte)
    BY <1>5
  <2> QED
    BY <1>9, <2>1, <2>2, <2>3, <2>4, <2>5 DEF Frame
<1>11. EncodeFrame(f) = HeadOf(f) \o e
  BY <1>10, EncodeIsHeadAndBody
<1>12. Bytes4(HeaderLength + Len(f.body)) = <<b[1], b[2], b[3], b[4]>>
  <2>1. HeaderLength + Len(f.body) = Word4(b[1], b[2], b[3], b[4])
    BY <1>1, <1>5 DEF PayloadLength, HeaderLength
  <2> QED
    BY <1>81, <2>1
<1>13. Bytes2(f.session) = <<b[5], b[6]>> /\ Bytes4(f.system) = <<b[11], b[12], b[13], b[14]>>
  BY <1>8, <1>81
<1>14. HeaderBytes(f) = <<b[7], b[8]>>
  <2>1. CASE b[10] = DataSType
    <3>1. StreamByte(f) = b[7]
      <4>1. f.stream = b[7] % 128 /\ f.wbit = (b[7] >= 128)
        BY <1>8, <2>1
      <4>2. f.stream % 128 = b[7] % 128
        BY <1>82, <4>1
      <4> QED
        BY <1>82, <4>1, <4>2 DEF StreamByte
    <3> QED
      BY <1>8, <2>1, <3>1 DEF HeaderBytes
  <2>2. CASE b[10] # DataSType
    BY <1>1, <1>8, <2>2 DEF HeaderBytes
  <2> QED
    BY <2>1, <2>2
<1> DEFINE h == HeadOf(f)
<1>15. h = <<b[1], b[2], b[3], b[4], b[5], b[6], b[7], b[8], b[9], b[10], b[11], b[12], b[13], b[14]>>
  BY <1>8, <1>12, <1>13, <1>14 DEF HeadOf
<1>16. h \in Seq(Byte) /\ Len(h) = 14 /\ \A k \in 1 .. 14 : h[k] = b[k]
  <2> HIDE DEF h
  <2>1. h \in Seq(Byte) /\ Len(h) = 14
    BY <1>7, <1>15
  <2>2. ASSUME NEW k \in 1 .. 14 PROVE h[k] = b[k]
    <3>1. k \in {1, 2, 3, 4, 5, 6, 7, 8, 9, 10, 11, 12, 13, 14}
      OBVIOUS
    <3> QED
      BY <1>15, <3>1
  <2> QED
    BY <2>1, <2>2
<1> HIDE DEF h, e
<1>17. h \o e = b
  <2> DEFINE w == h \o e
  <2>1. w \in Seq(Byte) /\ Len(w) = 14 + (l - 14)
        /\ \A k \in 1 .. 14 + (l - 14) : w[k] = IF k <= 14 THEN h[k] ELSE e[k - 14]
    <3>1. /\ w \in Seq(Byte) /\ Len(w) = Len(h) + Len(e)
          /\ \A k \in 1 .. Len(h) + Len(e) : w[k] = IF k <= Len(h) THEN h[k] ELSE e[k - Len(h)]
      BY <1>5, <1>16, ConcatProperties
    <3> QED
      BY <1>5, <1>16, <3>1
  <2> HIDE DEF w
  <2>2. ASSUME NEW k \in 1 .. l PROVE w[k] = b[k]
    <3>1. k \in 1 .. 14 + (l - 14)
      BY <1>1
    <3>2. CASE k <= 14
      <4>1. k \in 1 .. 14
        BY <3>2
      <4>2. w[k] = h[k]
        BY <2>1, <3>1, <3>2
      <4> QED
        BY <1>16, <4>1, <4>2
    <3>3. CASE k > 14
      <4>1. k - 14 \in 1 .. l - 14 /\ 14 + (k - 14) = k
        BY <1>1, <3>3
      <4> QED
        BY <1>5, <2>1, <3>1, <3>3, <4>1
    <3> QED
      BY <3>2, <3>3
  <2>3. Len(w) = Len(b) /\ Len(w) = l
    BY <1>1, <2>1 DEF l
  <2>4. w = b
    BY <1>1, <2>1, <2>2, <2>3, SeqEqual
  <2> QED
    BY <2>4 DEF w
<1>18. EncodeFrame(f) = b
  BY <1>11, <1>17 DEF h
<1> QED
  BY <1>10, <1>18 DEF f, p

-----------------------------------------------------------------------------
(* The reader. What the peer has written is one stretch of bytes; start says *)
(* where each frame begins in it and where the next one will.                *)
Laid(s, start, bytes) ==
    /\ bytes \in Seq(Byte) /\ start \in [1 .. Len(s) + 1 -> 0 .. Len(bytes)]
    /\ start[1] = 0 /\ start[Len(s) + 1] = Len(bytes)
    /\ \A k \in 1 .. Len(s) : start[k + 1] = start[k] + Len(s[k].bytes)
    /\ \A k \in 1 .. Len(s) : \A j \in 1 .. Len(s[k].bytes) : bytes[start[k] + j] = s[k].bytes[j]

(* The rest of the bytes behind a place. *)
Behind(rest, pos, bytes) ==
    /\ rest \in Seq(Byte) /\ pos \in Nat /\ pos + Len(rest) = Len(bytes)
    /\ \A j \in 1 .. Len(rest) : rest[j] = bytes[pos + j]

StartsWith(rest, b) == Len(b) <= Len(rest) /\ \A j \in 1 .. Len(b) : rest[j] = b[j]

(* What the reader has of the frame, what is on its way and what is not yet, *)
(* are the bytes behind the last frame it returned.                          *)
Rest == got \o (network \o unsent)
AllThere ==
    \E bytes \in Seq(Byte) : \E start \in [1 .. Len(sent) + 1 -> 0 .. Len(bytes)] :
        Laid(sent, start, bytes) /\ Behind(Rest, start[Len(frames) + 1], bytes)

StreamType ==
    /\ sent \in Seq(Outgoing) /\ unsent \in Seq(Byte) /\ network \in Seq(Byte) /\ got \in Seq(Byte)
    /\ reader \in {"reading", "handling", "T8", "EOF", "length"}
    /\ frames \in Seq({DecodeFrame(From(o.bytes, 5)) : o \in Outgoing}) /\ Len(frames) <= Len(sent)

(* A reader that reads is inside the next frame or before it. *)
Inside ==
    /\ reader = "handling" => got = <<>> /\ Len(frames) > 0
    /\ reader = "reading" /\ Len(frames) < Len(sent) => Len(got) < Len(sent[Len(frames) + 1].bytes)

(* The frames it returned are those the peer wrote. *)
InOrder ==
    \A k \in 1 .. Len(frames) : /\ Len(sent[k].bytes) >= 4 + HeaderLength
                               /\ frames[k] = DecodeFrame(From(sent[k].bytes, 5))

StreamInv == StreamType /\ AllThere /\ Inside /\ InOrder

-----------------------------------------------------------------------------
LEMMA Sizes ==
    ASSUME NEW S, NEW s \in Seq(S)
    PROVE  /\ Len(s) \in Nat /\ DOMAIN s = 1 .. Len(s) /\ (s = <<>> <=> Len(s) = 0)
           /\ \A k \in 1 .. Len(s) : s[k] \in S
<1>1. Len(s) \in Nat /\ DOMAIN s = 1 .. Len(s)
  BY LenProperties
<1>2. \A k \in 1 .. Len(s) : s[k] \in S
  BY ElementOfSeq
<1>3. s = <<>> <=> Len(s) = 0
  BY <1>1, EmptySeq
<1> QED
  BY <1>1, <1>2, <1>3

LEMMA PeerWritesBytes ==
    ASSUME NEW o \in Outgoing
    PROVE  /\ o.bytes \in Seq(Byte) /\ Len(o.bytes) \in Nat /\ Len(o.bytes) >= 4
           /\ PayloadLength(o.bytes) = Len(o.bytes) - 4 /\ IsWritten(o.bytes)
<1>1. IsWritten(o.bytes)
  BY OutgoingAssumption DEF OutgoingAssumption
<1> QED
  BY <1>1, LenProperties DEF IsWritten

(* A sequence cut in two, and put together again. *)
LEMMA CutInTwo ==
    ASSUME NEW S, NEW q \in Seq(S), NEW n \in Nat, n <= Len(q)
    PROVE  LET a == SubSeq(q, 1, n)
               b == From(q, n + 1)
           IN  a \in Seq(S) /\ Len(a) = n /\ b \in Seq(S) /\ Len(b) = Len(q) - n /\ a \o b = q
<1> DEFINE a == SubSeq(q, 1, n)
           b == From(q, n + 1)
<1>1. Len(q) \in Nat /\ \A k \in 1 .. Len(q) : q[k] \in S
  BY Sizes
<1>2. a \in Seq(S) /\ Len(a) = n
  <2>1. \A i \in 1 .. n : q[i] \in S
    BY <1>1
  <2> QED
    BY <2>1, SubSeqProperties
<1>3. b \in Seq(S) /\ Len(b) = Len(q) - n
  BY <1>1, Dropped DEF From
<1>4. SubSeq(q, 1, n) \o SubSeq(q, n + 1, Len(q)) = SubSeq(q, 1, Len(q))
  <2>1. 1 \in 1 .. Len(q) + 1 /\ n \in 1 - 1 .. Len(q) /\ Len(q) \in n .. Len(q)
    BY <1>1
  <2> QED
    BY <2>1, ConcatAdjacentSubSeq
<1>5. SubSeq(q, 1, Len(q)) = q
  BY SubSeqFull
<1>6. a \o b = q
  BY <1>4, <1>5 DEF From
<1> QED
  BY <1>2, <1>3, <1>6

(* The next frame lies at the front of the rest. *)
LEMMA NextInFront ==
    ASSUME NEW s \in Seq(Outgoing), NEW bytes \in Seq(Byte),
           NEW start \in [1 .. Len(s) + 1 -> 0 .. Len(bytes)], Laid(s, start, bytes),
           NEW n \in Nat, n < Len(s), NEW rest, Behind(rest, start[n + 1], bytes)
    PROVE  StartsWith(rest, s[n + 1].bytes)
<1> DEFINE b == s[n + 1].bytes
           pos == start[n + 1]
           next == start[n + 2]
<1>1. Len(s) \in Nat /\ n + 1 \in 1 .. Len(s) /\ n + 2 \in 1 .. Len(s) + 1 /\ s[n + 1] \in Outgoing
  BY Sizes
<1>2. Len(b) \in Nat
  BY <1>1, PeerWritesBytes
<1>3. Len(bytes) \in Nat
  BY LenProperties
<1>4. Len(rest) \in Nat
  BY LenProperties DEF Behind
<1>5. next = pos + Len(b)
  <2>1. start[(n + 1) + 1] = start[n + 1] + Len(s[n + 1].bytes)
    BY <1>1 DEF Laid
  <2>2. (n + 1) + 1 = n + 2
    OBVIOUS
  <2> QED
    BY <2>1, <2>2
<1>6. next <= Len(bytes) /\ pos \in Nat
  BY <1>1, <1>3
<1>7. pos + Len(rest) = Len(bytes)
  BY DEF Behind
<1>8. Len(b) <= Len(rest)
  <2> HIDE DEF b, pos, next
  <2> QED
    BY <1>2, <1>3, <1>4, <1>5, <1>6, <1>7
<1>9. ASSUME NEW j \in 1 .. Len(b) PROVE rest[j] = b[j]
  <2>1. bytes[pos + j] = b[j]
    BY <1>1 DEF Laid
  <2>2. j \in 1 .. Len(rest)
    BY <1>2, <1>4, <1>8
  <2>3. rest[j] = bytes[pos + j]
    BY <2>2 DEF Behind
  <2> QED
    BY <2>1, <2>3
<1> QED
  BY <1>8, <1>9 DEF StartsWith

(* Behind a frame that is taken comes the next one. *)
LEMMA RestBehind ==
    ASSUME NEW rest, NEW pos, NEW bytes, Behind(rest, pos, bytes), NEW n \in Nat, n <= Len(rest)
    PROVE  Behind(From(rest, n + 1), pos + n, bytes)
<1> DEFINE d == From(rest, n + 1)
<1>1. rest \in Seq(Byte) /\ Len(rest) \in Nat /\ pos \in Nat /\ pos + Len(rest) = Len(bytes)
  BY LenProperties DEF Behind
<1>2. d \in Seq(Byte) /\ Len(d) = Len(rest) - n /\ \A k \in 1 .. Len(rest) - n : d[k] = rest[n + k]
  BY <1>1, Dropped DEF From
<1> HIDE DEF d
<1>3. ASSUME NEW j \in 1 .. Len(d) PROVE d[j] = bytes[(pos + n) + j]
  <2>1. j \in 1 .. Len(rest) - n /\ n + j \in 1 .. Len(rest) /\ pos + (n + j) = (pos + n) + j
    BY <1>1, <1>2
  <2>2. d[j] = rest[n + j]
    BY <1>2, <2>1
  <2>3. rest[n + j] = bytes[pos + (n + j)]
    BY <2>1 DEF Behind
  <2> QED
    BY <2>1, <2>2, <2>3
<1>4. pos + n \in Nat /\ (pos + n) + Len(d) = Len(bytes)
  BY <1>1, <1>2
<1> QED
  BY <1>2, <1>3, <1>4 DEF Behind, d

(* Where a byte lies. *)
LEMMA WithinFrame ==
    ASSUME NEW m \in Nat, NEW a \in 0 .. m, NEW n \in Nat, a + n \in 0 .. m, NEW j \in 1 .. n,
           NEW c \in Nat
    PROVE  a + j \in 1 .. m + c /\ a + j <= m
OBVIOUS

LEMMA BeyondRest ==
    ASSUME NEW a \in Nat, NEW n \in Nat, NEW j \in Nat, NEW c \in Nat
    PROVE  /\ ~(j <= n) => ~(a + j <= a + n) /\ (a + j) - (a + n) = j - n
           /\ a + (n + c) = (a + n) + c
OBVIOUS

(* The peer writes one frame more. *)
LEMMA OneMore ==
    ASSUME NEW s \in Seq(Outgoing), NEW bytes \in Seq(Byte),
           NEW start \in [1 .. Len(s) + 1 -> 0 .. Len(bytes)], Laid(s, start, bytes),
           NEW n \in Nat, n <= Len(s), NEW rest, Behind(rest, start[n + 1], bytes),
           NEW o \in Outgoing
    PROVE  LET more == bytes \o o.bytes
               t    == Append(s, o)
               from == [k \in 1 .. Len(t) + 1 |-> IF k <= Len(s) + 1 THEN start[k] ELSE Len(more)]
           IN  /\ more \in Seq(Byte) /\ from \in [1 .. Len(t) + 1 -> 0 .. Len(more)]
               /\ Laid(t, from, more) /\ Behind(rest \o o.bytes, from[n + 1], more)
<1> DEFINE b == o.bytes
           more == bytes \o b
           t == Append(s, o)
           from == [k \in 1 .. Len(t) + 1 |-> IF k <= Len(s) + 1 THEN start[k] ELSE Len(more)]
           l == Len(s)
           m == Len(bytes)
<1>1. b \in Seq(Byte) /\ Len(b) \in Nat
  BY PeerWritesBytes
<1>2. l \in Nat /\ m \in Nat
  BY LenProperties
<1>3. /\ more \in Seq(Byte) /\ Len(more) = m + Len(b)
      /\ \A i \in 1 .. m + Len(b) : more[i] = IF i <= m THEN bytes[i] ELSE b[i - m]
  BY <1>1, ConcatProperties
<1>4. Len(t) = l + 1 /\ (\A i \in 1 .. l : t[i] = s[i]) /\ t[l + 1] = o
  BY AppendProperties
<1>5. /\ start \in [1 .. l + 1 -> 0 .. m] /\ start[1] = 0 /\ start[l + 1] = m
      /\ \A k \in 1 .. l : start[k + 1] = start[k] + Len(s[k].bytes)
      /\ \A k \in 1 .. l : \A j \in 1 .. Len(s[k].bytes) : bytes[start[k] + j] = s[k].bytes[j]
  BY DEF Laid
<1>6. \A k \in 1 .. l : Len(s[k].bytes) \in Nat
  BY PeerWritesBytes, Sizes
<1> HIDE DEF more, t, l, m, b
<1>7. /\ \A k \in 1 .. l + 1 : from[k] = start[k] /\ start[k] \in 0 .. m
      /\ from[l + 2] = m + Len(b)
  <2>1. \A k \in 1 .. l + 2 : from[k] = IF k <= l + 1 THEN start[k] ELSE m + Len(b)
    BY <1>3, <1>4, <1>2 DEF l
  <2>2. l + 2 \in 1 .. l + 2 /\ ~(l + 2 <= l + 1) /\ \A k \in 1 .. l + 1 : k \in 1 .. l + 2 /\ k <= l + 1
    BY <1>2
  <2> HIDE DEF from
  <2>3. \A k \in 1 .. l + 1 : from[k] = start[k]
    BY <2>1, <2>2
  <2>4. \A k \in 1 .. l + 1 : start[k] \in 0 .. m
    BY <1>5
  <2>5. from[l + 2] = m + Len(b)
    BY <2>1, <2>2
  <2> QED
    BY <2>3, <2>4, <2>5
<1>8. from \in [1 .. Len(t) + 1 -> 0 .. Len(more)]
  <2>1. ASSUME NEW k \in 1 .. Len(t) + 1
        PROVE  (IF k <= Len(s) + 1 THEN start[k] ELSE Len(more)) \in 0 .. Len(more)
    <3>1. CASE k <= l + 1
      <4>1. k \in 1 .. l + 1
        BY <1>2, <1>4, <3>1
      <4>2. start[k] \in 0 .. m
        BY <1>5, <4>1
      <4>3. start[k] \in 0 .. Len(more)
        BY <1>1, <1>2, <1>3, <4>2
      <4> QED
        BY <3>1, <4>3 DEF l
    <3>2. CASE ~(k <= l + 1)
      <4>1. Len(more) \in 0 .. Len(more)
        BY <1>1, <1>2, <1>3
      <4> QED
        BY <3>2, <4>1 DEF l
    <3> QED
      BY <3>1, <3>2
  <2> QED
    BY <2>1
<1> HIDE DEF from
<1>9. ASSUME NEW k \in 1 .. l + 1 PROVE from[k + 1] = from[k] + Len(t[k].bytes)
  <2>1. CASE k \in 1 .. l
    <3>1. k \in 1 .. l + 1 /\ k + 1 \in 1 .. l + 1
      BY <1>2, <2>1
    <3>2. from[k] = start[k] /\ from[k + 1] = start[k + 1]
      BY <1>7, <3>1
    <3> QED
      BY <1>4, <1>5, <2>1, <3>2
  <2>2. CASE k = l + 1
    <3>1. from[k] = m
      BY <1>5, <1>7, <2>2
    <3>2. k + 1 = l + 2
      BY <1>2, <2>2
    <3> QED
      BY <1>4, <1>7, <2>2, <3>1, <3>2 DEF b
  <2> QED
    BY <1>2, <2>1, <2>2
<1>10. ASSUME NEW k \in 1 .. l + 1, NEW j \in 1 .. Len(t[k].bytes)
       PROVE  more[from[k] + j] = t[k].bytes[j]
  <2>1. CASE k \in 1 .. l
    <3>1. j \in 1 .. Len(s[k].bytes) /\ Len(s[k].bytes) \in Nat /\ t[k].bytes = s[k].bytes
      BY <1>4, <1>6, <2>1
    <3>2. k \in 1 .. l + 1 /\ k + 1 \in 1 .. l + 1
      BY <1>2, <2>1
    <3>3. from[k] = start[k] /\ start[k] \in 0 .. m /\ start[k + 1] \in 0 .. m
      BY <1>7, <3>2
    <3>4. start[k + 1] = start[k] + Len(s[k].bytes)
      BY <1>5, <2>1
    <3>5. start[k] + j \in 1 .. m + Len(b) /\ start[k] + j <= m
      <4>1. start[k] + Len(s[k].bytes) \in 0 .. m
        BY <3>3, <3>4
      <4> QED
        BY <1>1, <1>2, <3>1, <3>3, <4>1, WithinFrame
    <3>6. more[start[k] + j] = bytes[start[k] + j]
      BY <1>3, <3>5
    <3>7. bytes[start[k] + j] = s[k].bytes[j]
      BY <1>5, <2>1, <3>1
    <3> QED
      BY <3>1, <3>3, <3>6, <3>7
  <2>2. CASE k = l + 1
    <3>1. from[k] = m /\ t[k].bytes = b
      BY <1>4, <1>5, <1>7, <2>2 DEF b
    <3>2. j \in 1 .. Len(b)
      BY <3>1
    <3>3. m + j \in 1 .. m + Len(b) /\ ~(m + j <= m) /\ (m + j) - m = j
      BY <1>1, <1>2, <3>2
    <3>4. more[m + j] = b[(m + j) - m]
      BY <1>3, <3>3
    <3> QED
      BY <3>1, <3>3, <3>4
  <2> QED
    BY <1>2, <2>1, <2>2
<1>11. Laid(t, from, more)
  <2>1. from[1] = 0 /\ from[Len(t) + 1] = Len(more)
    <3>1. 1 \in 1 .. l + 1 /\ (l + 1) + 1 = l + 2
      BY <1>2
    <3> QED
      BY <1>3, <1>4, <1>5, <1>7, <3>1
  <2> QED
    BY <1>3, <1>4, <1>8, <1>9, <1>10, <2>1 DEF Laid
<1> DEFINE r == rest \o b
           pos == start[n + 1]
<1>12. from[n + 1] = pos
  <2>1. n + 1 \in 1 .. l + 1
    BY <1>2 DEF l
  <2> QED
    BY <1>7, <2>1
<1>13. rest \in Seq(Byte) /\ Len(rest) \in Nat /\ pos \in Nat /\ pos + Len(rest) = m
       /\ \A j \in 1 .. Len(rest) : rest[j] = bytes[pos + j]
  BY LenProperties DEF Behind, m
<1>14. /\ r \in Seq(Byte) /\ Len(r) = Len(rest) + Len(b)
       /\ \A i \in 1 .. Len(rest) + Len(b) : r[i] = IF i <= Len(rest) THEN rest[i] ELSE b[i - Len(rest)]
  BY <1>1, <1>13, ConcatProperties
<1> HIDE DEF r, pos
<1>15. ASSUME NEW j \in 1 .. Len(r) PROVE r[j] = more[pos + j]
  <2>1. j \in 1 .. Len(rest) + Len(b) /\ pos + j \in 1 .. m + Len(b)
    BY <1>1, <1>13, <1>14
  <2>2. CASE j <= Len(rest)
    <3>1. j \in 1 .. Len(rest) /\ pos + j <= m
      BY <1>13, <2>2
    <3>2. r[j] = rest[j] /\ more[pos + j] = bytes[pos + j]
      BY <1>3, <1>14, <2>1, <2>2, <3>1
    <3> QED
      BY <1>13, <3>1, <3>2
  <2>3. CASE ~(j <= Len(rest))
    <3>1. ~(pos + j <= m) /\ (pos + j) - m = j - Len(rest)
      <4>1. j \in Nat
        OBVIOUS
      <4>2. ~(pos + j <= pos + Len(rest)) /\ (pos + j) - (pos + Len(rest)) = j - Len(rest)
        BY <1>1, <1>13, <2>3, <4>1, BeyondRest
      <4>3. pos + Len(rest) = m
        BY <1>13
      <4> QED
        BY <4>2, <4>3
    <3>2. r[j] = b[j - Len(rest)] /\ more[pos + j] = b[(pos + j) - m]
      BY <1>3, <1>14, <2>1, <2>3, <3>1
    <3> QED
      BY <3>1, <3>2
  <2> QED
    BY <2>2, <2>3
<1>16. pos + Len(r) = Len(more)
  <2>1. pos + (Len(rest) + Len(b)) = (pos + Len(rest)) + Len(b)
    BY <1>1, <1>13, BeyondRest
  <2>2. pos + Len(rest) = m
    BY <1>13
  <2> QED
    BY <1>3, <1>14, <2>1, <2>2
<1>17. Behind(r, from[n + 1], more)
  BY <1>12, <1>13, <1>14, <1>15, <1>16 DEF Behind
<1> QED
  BY <1>3, <1>8, <1>11, <1>17 DEF from, more, t, r, b

-----------------------------------------------------------------------------
(* The bytes at the front of the rest are those of the frame that is next.   *)
LEMMA FrontOfRest ==
    ASSUME StreamType, AllThere, Rest # <<>>
    PROVE  LET b == sent[Len(frames) + 1].bytes IN
           /\ Len(frames) \in Nat /\ Len(sent) \in Nat /\ Len(frames) < Len(sent)
           /\ sent[Len(frames) + 1] \in Outgoing
           /\ StartsWith(Rest, b)
<1> DEFINE n == Len(frames)
           rest == Rest
<1>1. /\ sent \in Seq(Outgoing) /\ n \in Nat /\ Len(sent) \in Nat /\ n <= Len(sent)
  BY LenProperties DEF StreamType
<1>2. PICK bytes \in Seq(Byte) : \E start \in [1 .. Len(sent) + 1 -> 0 .. Len(bytes)] :
          Laid(sent, start, bytes) /\ Behind(rest, start[n + 1], bytes)
  BY DEF AllThere
<1>3. PICK start \in [1 .. Len(sent) + 1 -> 0 .. Len(bytes)] :
          Laid(sent, start, bytes) /\ Behind(rest, start[n + 1], bytes)
  BY <1>2
<1> HIDE DEF n, rest
<1>4. rest \in Seq(Byte) /\ Len(rest) \in Nat /\ Len(rest) # 0
  <2>1. rest \in Seq(Byte)
    BY <1>3 DEF Behind
  <2>2. rest # <<>>
    BY DEF rest
  <2> QED
    BY <2>1, <2>2, Sizes
<1>5. n # Len(sent)
  <2>1. SUFFICES ASSUME n = Len(sent) PROVE FALSE
    OBVIOUS
  <2>2. start[Len(sent) + 1] = Len(bytes)
    BY <1>3 DEF Laid
  <2>3. start[n + 1] + Len(rest) = Len(bytes) /\ start[n + 1] \in Nat
    BY <1>3 DEF Behind
  <2> QED
    BY <1>4, <2>1, <2>2, <2>3
<1>6. n < Len(sent) /\ n + 1 \in 1 .. Len(sent)
  BY <1>1, <1>5
<1>7. sent[n + 1] \in Outgoing
  BY <1>1, <1>6, Sizes
<1>8. StartsWith(rest, sent[n + 1].bytes)
  <2>1. Laid(sent, start, bytes) /\ Behind(rest, start[n + 1], bytes)
    BY <1>3
  <2> QED
    BY <1>1, <1>6, <2>1, NextInFront
<1> QED
  BY <1>1, <1>6, <1>7, <1>8 DEF n, rest

LEMMA FourBytes ==
    ASSUME NEW l \in Nat
    PROVE  /\ l = 0 \/ l \in 1 .. 3 \/ l >= 4
           /\ l \in 1 .. 3 => 4 - l \in Nat \ {0} /\ l + (4 - l) = 4
OBVIOUS

LEMMA Regrouped ==
    ASSUME NEW a \in Seq(Byte), NEW b \in Seq(Byte), NEW c \in Seq(Byte)
    PROVE  (a \o b) \o c = a \o (b \o c)
BY ConcatAssociative

(* The first bytes of a frame announce its length, and the reader waits for  *)
(* no more than that.                                                        *)
LEMMA AnnouncedLength ==
    ASSUME NEW b, IsWritten(b), NEW q \in Seq(Byte), Len(q) <= Len(b),
           \A j \in 1 .. Len(q) : q[j] = b[j]
    PROVE  /\ Len(q) >= 4 => PayloadLength(q) = Len(b) - 4 /\ Missing(q) = Len(b) - Len(q)
           /\ Len(q) < Len(b) => Missing(q) \in Nat \ {0} /\ Len(q) + Missing(q) <= Len(b)
<1>1. Len(b) \in Nat /\ Len(b) >= 4 /\ PayloadLength(b) = Len(b) - 4
  BY LenProperties DEF IsWritten
<1>2. Len(q) \in Nat /\ (q = <<>> <=> Len(q) = 0)
  BY Sizes
<1>3. ASSUME Len(q) >= 4
      PROVE  PayloadLength(q) = Len(b) - 4 /\ Missing(q) = Len(b) - Len(q)
  <2>1. 1 \in 1 .. Len(q) /\ 2 \in 1 .. Len(q) /\ 3 \in 1 .. Len(q) /\ 4 \in 1 .. Len(q)
    BY <1>2, <1>3
  <2>2. q[1] = b[1] /\ q[2] = b[2] /\ q[3] = b[3] /\ q[4] = b[4]
    BY <2>1
  <2>3. PayloadLength(q) = Len(b) - 4
    BY <1>1, <2>2 DEF PayloadLength
  <2>4. q # <<>> /\ ~(Len(q) \in 1 .. 3)
    BY <1>2, <1>3
  <2>5. Missing(q) = 4 + PayloadLength(q) - Len(q)
    BY <2>4 DEF Missing
  <2> QED
    BY <1>1, <1>2, <2>3, <2>5
<1>4. ASSUME Len(q) < Len(b)
      PROVE  Missing(q) \in Nat \ {0} /\ Len(q) + Missing(q) <= Len(b)
  <2>1. CASE Len(q) = 0
    <3>1. Missing(q) = 1
      BY <1>2, <2>1 DEF Missing
    <3> QED
      BY <1>1, <2>1, <3>1
  <2>2. CASE Len(q) \in 1 .. 3
    <3>1. Missing(q) = 4 - Len(q)
      BY <1>2, <2>2 DEF Missing
    <3>2. 4 - Len(q) \in Nat \ {0} /\ Len(q) + (4 - Len(q)) = 4
      BY <1>2, <2>2, FourBytes
    <3> QED
      BY <1>1, <3>1, <3>2
  <2>3. CASE Len(q) >= 4
    BY <1>1, <1>2, <1>3, <1>4, <2>3
  <2>4. Len(q) = 0 \/ Len(q) \in 1 .. 3 \/ Len(q) >= 4
    BY <1>2, FourBytes
  <2> QED
    BY <2>1, <2>2, <2>3, <2>4
<1> QED
  BY <1>3, <1>4

(* Front and back of a sequence in two pieces. *)
LEMMA Pieces2 ==
    ASSUME NEW S, NEW a \in Seq(S), NEW b \in Seq(S)
    PROVE  /\ a \o b \in Seq(S) /\ Len(a \o b) = Len(a) + Len(b)
           /\ \A j \in 1 .. Len(a) : (a \o b)[j] = a[j]
           /\ From(a \o b, Len(a) + 1) = b
<1> DEFINE c == a \o b
           d == From(c, Len(a) + 1)
<1>1. Len(a) \in Nat /\ Len(b) \in Nat
  BY LenProperties
<1>2. /\ c \in Seq(S) /\ Len(c) = Len(a) + Len(b)
      /\ \A i \in 1 .. Len(a) + Len(b) : c[i] = IF i <= Len(a) THEN a[i] ELSE b[i - Len(a)]
  BY ConcatProperties
<1> HIDE DEF c
<1>3. d \in Seq(S) /\ Len(d) = Len(c) - Len(a) /\ \A k \in 1 .. Len(c) - Len(a) : d[k] = c[Len(a) + k]
  <2>1. Len(a) <= Len(c)
    BY <1>1, <1>2
  <2> QED
    BY <1>1, <1>2, <2>1, Dropped DEF From
<1> HIDE DEF d
<1>4. ASSUME NEW k \in 1 .. Len(b) PROVE d[k] = b[k]
  <2>1. k \in 1 .. Len(c) - Len(a) /\ Len(a) + k \in 1 .. Len(a) + Len(b) /\ ~(Len(a) + k <= Len(a))
        /\ (Len(a) + k) - Len(a) = k
    BY <1>1, <1>2
  <2> QED
    BY <1>2, <1>3, <2>1
<1>5. Len(d) = Len(b)
  BY <1>1, <1>2, <1>3
<1>6. d = b
  BY <1>3, <1>4, <1>5, SeqEqual
<1>7. ASSUME NEW j \in 1 .. Len(a) PROVE c[j] = a[j]
  <2>1. j \in 1 .. Len(a) + Len(b) /\ j <= Len(a)
    BY <1>1
  <2> QED
    BY <1>2, <2>1
<1> QED
  BY <1>2, <1>6, <1>7 DEF c, d

(* What one read gives the reader. *)
LEMMA OneRead ==
    ASSUME StreamInv, reader = "reading", network # <<>>
    PROVE  LET n == Available(Missing(got))
               now == got \o SubSeq(network, 1, n)
               left == From(network, n + 1)
               b == sent[Len(frames) + 1].bytes
           IN  /\ Len(frames) \in Nat /\ Len(sent) \in Nat /\ Len(frames) < Len(sent)
               /\ sent[Len(frames) + 1] \in Outgoing
               /\ now \in Seq(Byte) /\ left \in Seq(Byte) /\ now \o (left \o unsent) = Rest
               /\ Len(now) <= Len(b)
               /\ Len(now) >= 4 => PayloadLength(now) = Len(b) - 4 /\ Missing(now) = Len(b) - Len(now)
               /\ Len(now) = Len(b) => now = b /\ left \o unsent = From(Rest, Len(b) + 1)
               /\ Len(b) <= Len(Rest)
<1> DEFINE n == Available(Missing(got))
           piece == SubSeq(network, 1, n)
           now == got \o piece
           left == From(network, n + 1)
           b == sent[Len(frames) + 1].bytes
           on == left \o unsent
<1>1. /\ got \in Seq(Byte) /\ network \in Seq(Byte) /\ unsent \in Seq(Byte)
      /\ Len(got) \in Nat /\ Len(network) \in Nat \ {0}
  <2>1. got \in Seq(Byte) /\ network \in Seq(Byte) /\ unsent \in Seq(Byte)
    BY DEF StreamInv, StreamType
  <2> QED
    BY <2>1, Sizes
<1>2. network \o unsent \in Seq(Byte) /\ Len(network \o unsent) = Len(network) + Len(unsent)
  BY <1>1, Pieces2
<1>3. /\ Rest \in Seq(Byte) /\ Len(Rest) = Len(got) + (Len(network) + Len(unsent))
      /\ \A j \in 1 .. Len(got) : Rest[j] = got[j]
  BY <1>1, <1>2, Pieces2 DEF Rest
<1>4. Rest # <<>>
  <2>1. Len(unsent) \in Nat
    BY <1>1, LenProperties
  <2>2. Len(Rest) # 0
    BY <1>1, <1>3, <2>1
  <2> QED
    BY <1>3, <2>2, Sizes
<1>5. /\ Len(frames) \in Nat /\ Len(sent) \in Nat /\ Len(frames) < Len(sent)
      /\ sent[Len(frames) + 1] \in Outgoing
      /\ Len(b) <= Len(Rest) /\ \A j \in 1 .. Len(b) : Rest[j] = b[j]
  BY <1>4, FrontOfRest DEF StreamInv, StartsWith
<1>6. IsWritten(b) /\ b \in Seq(Byte) /\ Len(b) \in Nat /\ Len(b) >= 4
  BY <1>5, PeerWritesBytes
<1>7. Len(got) < Len(b)
  BY <1>5 DEF StreamInv, Inside
<1> HIDE DEF b
<1>8. Missing(got) \in Nat \ {0} /\ Len(got) + Missing(got) <= Len(b)
  <2>1. \A j \in 1 .. Len(got) : got[j] = b[j]
    <3>1. \A j \in 1 .. Len(got) : j \in 1 .. Len(b)
      BY <1>1, <1>6, <1>7
    <3> QED
      BY <1>3, <1>5, <3>1
  <2>2. Len(got) <= Len(b)
    BY <1>1, <1>6, <1>7
  <2> QED
    BY <1>1, <1>6, <1>7, <2>1, <2>2, AnnouncedLength
<1>9. n \in Nat /\ n <= Len(network) /\ n <= Missing(got)
  BY <1>1, <1>8 DEF Available
<1> HIDE DEF n
<1>10. piece \in Seq(Byte) /\ Len(piece) = n /\ left \in Seq(Byte) /\ piece \o left = network
  BY <1>1, <1>9, CutInTwo
<1> HIDE DEF piece, left
<1>11. now \in Seq(Byte) /\ Len(now) = Len(got) + n
  BY <1>1, <1>10, Pieces2
<1>12. on \in Seq(Byte)
  BY <1>1, <1>10, Pieces2
<1>13. now \o on = Rest
  <2>1. (got \o piece) \o on = got \o (piece \o on)
    <3>1. got \in Seq(Byte) /\ piece \in Seq(Byte) /\ on \in Seq(Byte)
      BY <1>1, <1>10, <1>12
    <3> HIDE DEF on
    <3> QED
      BY <3>1, Regrouped
  <2>2. piece \o (left \o unsent) = (piece \o left) \o unsent
    <3>1. unsent \in Seq(Byte) /\ piece \in Seq(Byte) /\ left \in Seq(Byte)
      BY <1>1, <1>10
    <3> QED
      BY <3>1, Regrouped
  <2> QED
    BY <1>10, <2>1, <2>2 DEF Rest
<1> HIDE DEF now, on
<1>14. (\A j \in 1 .. Len(now) : Rest[j] = now[j]) /\ From(Rest, Len(now) + 1) = on
  BY <1>11, <1>12, <1>13, Pieces2
<1>15. Len(now) <= Len(b) /\ Len(now) \in Nat
  BY <1>1, <1>6, <1>8, <1>9, <1>11
<1>16. \A j \in 1 .. Len(now) : now[j] = b[j]
  <2>1. \A j \in 1 .. Len(now) : j \in 1 .. Len(b)
    BY <1>6, <1>15
  <2> QED
    BY <1>5, <1>14, <2>1
<1>17. Len(now) >= 4 => PayloadLength(now) = Len(b) - 4 /\ Missing(now) = Len(b) - Len(now)
  BY <1>6, <1>11, <1>15, <1>16, AnnouncedLength
<1>18. ASSUME Len(now) = Len(b) PROVE now = b /\ on = From(Rest, Len(b) + 1)
  <2>1. now = b
    BY <1>6, <1>11, <1>16, <1>18, SeqEqual
  <2> QED
    BY <1>14, <2>1
<1> QED
  BY <1>5, <1>10, <1>11, <1>13, <1>15, <1>17, <1>18 DEF now, left, on, b, piece, n

-----------------------------------------------------------------------------
(* Every step keeps the invariant. *)
LEMMA StretchKept ==
    ASSUME AllThere, sent' = sent, Len(frames') = Len(frames), Rest' = Rest
    PROVE  AllThere'
BY DEF AllThere

LEMMA NothingYet ==
    ASSUME StreamInit
    PROVE  StreamInv
<1>1. /\ sent = <<>> /\ unsent = <<>> /\ network = <<>> /\ got = <<>> /\ reader = "reading" /\ frames = <<>>
  BY DEF StreamInit
<1>2. Len(<<>>) = 0 /\ \A S : <<>> \in Seq(S)
  BY EmptySeq
<1>3. StreamType
  BY <1>1, <1>2 DEF StreamType
<1>4. Rest = <<>>
  BY <1>1 DEF Rest
<1>5. AllThere
  <2> DEFINE start == [k \in 1 .. Len(sent) + 1 |-> 0]
  <2>1. start \in [1 .. Len(sent) + 1 -> 0 .. Len(<<>>)] /\ start[1] = 0 /\ Len(sent) + 1 = 1 /\ Len(frames) + 1 = 1
    BY <1>1, <1>2
  <2>2. <<>> \in Seq(Byte)
    BY <1>2
  <2> HIDE DEF start
  <2>3. Laid(sent, start, <<>>)
    BY <1>1, <1>2, <2>1, <2>2 DEF Laid
  <2>4. Behind(Rest, start[Len(frames) + 1], <<>>)
    BY <1>1, <1>2, <1>4, <2>1, <2>2 DEF Behind
  <2> QED
    BY <2>1, <2>2, <2>3, <2>4 DEF AllThere
<1>6. Inside /\ InOrder
  BY <1>1, <1>2 DEF Inside, InOrder
<1> QED
  BY <1>3, <1>5, <1>6 DEF StreamInv

LEMMA WritesKeeps ==
    ASSUME StreamInv, NEW o \in Outgoing, PeerWrites(o)
    PROVE  StreamInv'
<1>1. /\ sent' = Append(sent, o) /\ unsent = <<>> /\ unsent' = o.bytes /\ network' = network /\ got' = got
      /\ reader' = reader /\ frames' = frames
  BY DEF PeerWrites, input
<1>2. /\ sent \in Seq(Outgoing) /\ network \in Seq(Byte) /\ got \in Seq(Byte) /\ Len(frames) <= Len(sent)
      /\ Len(sent) \in Nat /\ Len(frames) \in Nat /\ Len(got) \in Nat /\ Len(network) \in Nat
  BY LenProperties DEF StreamInv, StreamType
<1>3. /\ sent' \in Seq(Outgoing) /\ Len(sent') = Len(sent) + 1 /\ sent'[Len(sent) + 1] = o
      /\ \A k \in 1 .. Len(sent) : sent'[k] = sent[k]
  BY <1>1, <1>2, AppendProperties
<1>4. o.bytes \in Seq(Byte) /\ Len(o.bytes) >= 4 /\ Len(o.bytes) \in Nat
  BY PeerWritesBytes
<1>5. Rest' = Rest \o o.bytes
  <2>1. network \o unsent = network
    BY <1>1, <1>2, ConcatEmptySeq
  <2>2. Rest = got \o network /\ Rest' = got \o (network \o o.bytes)
    BY <1>1, <2>1 DEF Rest
  <2>3. (got \o network) \o o.bytes = got \o (network \o o.bytes)
    BY <1>2, <1>4, Regrouped
  <2> QED
    BY <2>2, <2>3
<1>6. StreamType'
  <2>1. Len(frames) <= Len(sent')
    BY <1>2, <1>3
  <2> QED
    BY <1>1, <1>3, <1>4, <2>1 DEF StreamInv, StreamType
<1>7. AllThere'
  <2>1. PICK bytes \in Seq(Byte) : \E start \in [1 .. Len(sent) + 1 -> 0 .. Len(bytes)] :
            Laid(sent, start, bytes) /\ Behind(Rest, start[Len(frames) + 1], bytes)
    BY DEF StreamInv, AllThere
  <2>2. PICK start \in [1 .. Len(sent) + 1 -> 0 .. Len(bytes)] :
            Laid(sent, start, bytes) /\ Behind(Rest, start[Len(frames) + 1], bytes)
    BY <2>1
  <2> DEFINE more == bytes \o o.bytes
             t == Append(sent, o)
             from == [k \in 1 .. Len(t) + 1 |-> IF k <= Len(sent) + 1 THEN start[k] ELSE Len(more)]
  <2>3. /\ more \in Seq(Byte) /\ from \in [1 .. Len(t) + 1 -> 0 .. Len(more)]
        /\ Laid(t, from, more) /\ Behind(Rest \o o.bytes, from[Len(frames) + 1], more)
    BY <1>2, <2>2, OneMore
  <2> HIDE DEF more, from
  <2> QED
    BY <1>1, <1>5, <2>3 DEF AllThere
<1>8. Inside'
  <2>1. SUFFICES ASSUME reader = "reading", Len(frames) < Len(sent')
                 PROVE  Len(got) < Len(sent'[Len(frames) + 1].bytes)
    BY <1>1 DEF StreamInv, Inside
  <2>2. CASE Len(frames) < Len(sent)
    <3>1. Len(frames) + 1 \in 1 .. Len(sent)
      BY <1>2, <2>2
    <3>2. sent'[Len(frames) + 1] = sent[Len(frames) + 1]
      BY <1>3, <3>1
    <3> QED
      BY <2>1, <2>2, <3>2 DEF StreamInv, Inside
  <2>3. CASE Len(frames) = Len(sent)
    <3>1. Rest = <<>>
      <4>1. ~(Len(frames) < Len(sent))
        BY <1>2, <2>3
      <4> QED
        BY <4>1, FrontOfRest DEF StreamInv
    <3>2. Len(got) = 0
      <4>1. network \o unsent \in Seq(Byte)
        BY <1>1, <1>2, ConcatEmptySeq
      <4>2. got = <<>>
        BY <1>2, <3>1, <4>1, ConcatEqualIffEmpty DEF Rest
      <4> QED
        BY <4>2, EmptySeq
    <3>3. sent'[Len(frames) + 1] = o
      BY <1>3, <2>3
    <3> QED
      BY <1>4, <3>2, <3>3
  <2> QED
    BY <1>2, <2>2, <2>3
<1>9. InOrder'
  <2>1. \A k \in 1 .. Len(frames) : k \in 1 .. Len(sent)
    BY <1>2
  <2>2. \A k \in 1 .. Len(frames) : sent'[k] = sent[k]
    BY <1>3, <2>1
  <2> QED
    BY <1>1, <2>2 DEF StreamInv, InOrder
<1> QED
  BY <1>6, <1>7, <1>8, <1>9 DEF StreamInv

LEMMA ArriveKeeps ==
    ASSUME StreamInv, NEW n \in 1 .. Len(unsent), BytesArrive(n)
    PROVE  StreamInv'
<1> DEFINE a == SubSeq(unsent, 1, n)
           b == From(unsent, n + 1)
<1>1. /\ sent' = sent /\ got' = got /\ reader' = reader /\ frames' = frames
      /\ network' = network \o a /\ unsent' = b
  BY DEF BytesArrive
<1>2. got \in Seq(Byte) /\ network \in Seq(Byte) /\ unsent \in Seq(Byte) /\ Len(unsent) \in Nat
  BY LenProperties DEF StreamInv, StreamType
<1>3. a \in Seq(Byte) /\ b \in Seq(Byte) /\ a \o b = unsent
  <2>1. n \in Nat /\ n <= Len(unsent)
    BY <1>2
  <2> QED
    BY <1>2, <2>1, CutInTwo
<1> HIDE DEF a, b
<1>4. network \o a \in Seq(Byte)
  BY <1>2, <1>3, Pieces2
<1>5. Rest' = Rest
  <2>1. (network \o a) \o b = network \o (a \o b)
    BY <1>2, <1>3, Regrouped
  <2>2. Rest' = got \o ((network \o a) \o b)
    BY <1>1 DEF Rest
  <2> QED
    BY <1>3, <2>1, <2>2 DEF Rest
<1>6. StreamType'
  BY <1>1, <1>3, <1>4 DEF StreamInv, StreamType
<1>7. AllThere'
  BY <1>1, <1>5, StretchKept DEF StreamInv
<1>8. Inside' /\ InOrder'
  BY <1>1 DEF StreamInv, Inside, InOrder
<1> QED
  BY <1>6, <1>7, <1>8 DEF StreamInv

LEMMA ReadKeeps ==
    ASSUME StreamInv, ReadBytes
    PROVE  StreamInv'
<1> DEFINE n == Available(Missing(got))
           now == got \o SubSeq(network, 1, n)
           left == From(network, n + 1)
           k == Len(frames) + 1
           b == sent[k].bytes
           frame == DecodeFrame(From(now, 5))
           announced == Len(now) >= 4
           short == announced /\ PayloadLength(now) < HeaderLength
           complete == announced /\ ~short /\ Missing(now) = 0
<1>1. /\ reader = "reading" /\ network # <<>> /\ sent' = sent /\ unsent' = unsent
      /\ network' = left /\ got' = (IF complete THEN <<>> ELSE now)
      /\ reader' = (CASE short -> "length" [] complete -> "handling" [] OTHER -> "reading")
      /\ frames' = (IF complete THEN Append(frames, frame) ELSE frames)
  BY DEF ReadBytes, peer
<1>2. /\ Len(frames) \in Nat /\ Len(sent) \in Nat /\ Len(frames) < Len(sent) /\ sent[k] \in Outgoing
      /\ now \in Seq(Byte) /\ left \in Seq(Byte) /\ now \o (left \o unsent) = Rest
      /\ Len(now) <= Len(b)
      /\ Len(now) >= 4 => PayloadLength(now) = Len(b) - 4 /\ Missing(now) = Len(b) - Len(now)
      /\ Len(now) = Len(b) => now = b /\ left \o unsent = From(Rest, Len(b) + 1)
      /\ Len(b) <= Len(Rest)
  BY <1>1, OneRead
<1>3. Len(now) \in Nat /\ Len(b) \in Nat /\ Len(b) >= 4
  BY <1>2, PeerWritesBytes, LenProperties
<1>4. /\ unsent \in Seq(Byte) /\ sent \in Seq(Outgoing)
      /\ frames \in Seq({DecodeFrame(From(o.bytes, 5)) : o \in Outgoing})
  BY DEF StreamInv, StreamType
<1> HIDE DEF now, left, n
<1>5. CASE complete
  <2>1. ~short /\ announced
    BY <1>5
  <2>2. /\ network' = left /\ got' = <<>> /\ reader' = "handling" /\ frames' = Append(frames, frame)
    BY <1>1, <1>5, <2>1
  <2>3. Len(b) = Len(now) /\ Len(b) >= 4 + HeaderLength
    BY <1>2, <1>3, <1>5, <2>1 DEF HeaderLength
  <2>4. now = b /\ left \o unsent = From(Rest, Len(b) + 1)
    BY <1>2, <2>3
  <2>5. frame = DecodeFrame(From(sent[k].bytes, 5))
    BY <2>4
  <2> HIDE DEF frame, short, announced, complete
  <2>6. frame \in {DecodeFrame(From(o.bytes, 5)) : o \in Outgoing}
    BY <1>2, <2>5
  <2>7. /\ frames' \in Seq({DecodeFrame(From(o.bytes, 5)) : o \in Outgoing})
        /\ Len(frames') = Len(frames) + 1 /\ frames'[Len(frames) + 1] = frame
        /\ \A i \in 1 .. Len(frames) : frames'[i] = frames[i]
    BY <1>4, <2>2, <2>6, AppendProperties
  <2>8. StreamType'
    <3>1. Len(frames') <= Len(sent)
      BY <1>2, <2>7
    <3>2. <<>> \in Seq(Byte)
      BY EmptySeq
    <3> QED
      BY <1>1, <1>2, <1>4, <2>2, <2>7, <3>1, <3>2 DEF StreamType
  <2>9. AllThere'
    <3>1. PICK bytes \in Seq(Byte) : \E start \in [1 .. Len(sent) + 1 -> 0 .. Len(bytes)] :
              Laid(sent, start, bytes) /\ Behind(Rest, start[Len(frames) + 1], bytes)
      BY DEF StreamInv, AllThere
    <3>2. PICK start \in [1 .. Len(sent) + 1 -> 0 .. Len(bytes)] :
              Laid(sent, start, bytes) /\ Behind(Rest, start[Len(frames) + 1], bytes)
      BY <3>1
    <3>3. k \in 1 .. Len(sent)
      BY <1>2
    <3>4. start[k + 1] = start[k] + Len(b)
      BY <3>2, <3>3 DEF Laid
    <3> HIDE DEF b
    <3>5. Behind(From(Rest, Len(b) + 1), start[k] + Len(b), bytes)
      <4>1. Behind(Rest, start[k], bytes)
        BY <3>2
      <4> QED
        BY <1>2, <1>3, <4>1, RestBehind
    <3>6. Rest' = left \o unsent
      <4>1. left \o unsent \in Seq(Byte)
        BY <1>2, <1>4, Pieces2
      <4>2. Rest' = <<>> \o (left \o unsent)
        BY <1>1, <2>2 DEF Rest
      <4> QED
        BY <4>1, <4>2, ConcatEmptySeq
    <3>7. Behind(Rest', start[k + 1], bytes)
      BY <2>4, <3>4, <3>5, <3>6
    <3>8. Len(frames') + 1 = k + 1
      BY <2>7
    <3>9. Behind(Rest', start[Len(frames') + 1], bytes)
      BY <3>7, <3>8
    <3> QED
      BY <1>1, <3>2, <3>9 DEF AllThere
  <2>10. Inside'
    <3>1. Len(frames') > 0
      BY <1>2, <2>7
    <3> QED
      BY <2>2, <3>1 DEF Inside
  <2>11. InOrder'
    <3>1. ASSUME NEW i \in 1 .. Len(frames) + 1
          PROVE  Len(sent[i].bytes) >= 4 + HeaderLength /\ frames'[i] = DecodeFrame(From(sent[i].bytes, 5))
      <4>1. CASE i \in 1 .. Len(frames)
        BY <2>7, <4>1 DEF StreamInv, InOrder
      <4>2. CASE i = k
        BY <2>3, <2>5, <2>7, <4>2
      <4> QED
        BY <1>2, <4>1, <4>2
    <3> QED
      BY <1>1, <2>7, <3>1 DEF InOrder
  <2> QED
    BY <2>8, <2>9, <2>10, <2>11 DEF StreamInv
<1>6. CASE ~complete
  <2>1. /\ network' = left /\ got' = now /\ frames' = frames /\ reader' \in {"length", "reading"}
        /\ reader' = "reading" => ~short
    <3>1. CASE short
      BY <1>1, <1>6, <3>1
    <3>2. CASE ~short
      BY <1>1, <1>6, <3>2
    <3> QED
      BY <3>1, <3>2
  <2>2. ASSUME reader' = "reading" PROVE Len(now) < Len(b)
    <3>1. ~announced \/ Missing(now) # 0
      BY <1>6, <2>1, <2>2
    <3>2. CASE ~announced
      BY <1>3, <3>2
    <3>3. CASE announced
      <4>1. Missing(now) = Len(b) - Len(now) /\ Missing(now) # 0
        BY <1>2, <3>1, <3>3
      <4>2. Len(b) # Len(now)
        BY <1>3, <4>1
      <4> QED
        BY <1>2, <1>3, <4>2
    <3> QED
      BY <3>2, <3>3
  <2> HIDE DEF short, announced, complete
  <2>3. Rest' = Rest
    BY <1>1, <1>2, <2>1 DEF Rest
  <2>4. StreamType'
    BY <1>1, <1>2, <2>1 DEF StreamInv, StreamType
  <2>5. AllThere'
    BY <1>1, <2>1, <2>3, StretchKept DEF StreamInv
  <2>6. Inside'
    BY <1>1, <2>1, <2>2 DEF Inside
  <2>7. InOrder'
    BY <1>1, <2>1 DEF StreamInv, InOrder
  <2> QED
    BY <2>4, <2>5, <2>6, <2>7 DEF StreamInv
<1> QED
  BY <1>5, <1>6

LEMMA HandleKeeps ==
    ASSUME StreamInv, HandleFrame
    PROVE  StreamInv'
<1>1. /\ sent' = sent /\ unsent' = unsent /\ network' = network /\ got' = got /\ frames' = frames
      /\ reader = "handling" /\ reader' = "reading"
  BY DEF HandleFrame, peer
<1>2. Rest' = Rest
  BY <1>1 DEF Rest
<1>3. StreamType' /\ InOrder'
  BY <1>1 DEF StreamInv, StreamType, InOrder
<1>4. AllThere'
  BY <1>1, <1>2, StretchKept DEF StreamInv
<1>5. Inside'
  <2>1. ASSUME Len(frames) < Len(sent) PROVE Len(got) < Len(sent[Len(frames) + 1].bytes)
    <3>1. Len(frames) \in Nat /\ Len(sent) \in Nat /\ sent \in Seq(Outgoing)
      BY LenProperties DEF StreamInv, StreamType
    <3>2. Len(frames) + 1 \in 1 .. Len(sent)
      BY <2>1, <3>1
    <3>3. sent[Len(frames) + 1] \in Outgoing
      BY <3>1, <3>2, Sizes
    <3>4. Len(sent[Len(frames) + 1].bytes) \in Nat /\ Len(sent[Len(frames) + 1].bytes) >= 4
      BY <3>3, PeerWritesBytes
    <3>5. Len(got) = 0
      BY <1>1, EmptySeq DEF StreamInv, Inside
    <3> QED
      BY <3>4, <3>5
  <2> QED
    BY <1>1, <2>1 DEF Inside
<1> QED
  BY <1>3, <1>4, <1>5 DEF StreamInv

(* The peer closes, T8 passes, the stream ends, or nothing happens. *)
LEMMA EndsKeep ==
    ASSUME StreamInv, PeerCloses \/ ReadTimesOut \/ ReadEnds \/ UNCHANGED streamVars
    PROVE  StreamInv'
<1>1. /\ sent' = sent /\ unsent' = unsent /\ network' = network /\ got' = got /\ frames' = frames
      /\ reader' = reader \/ reader' \in {"T8", "EOF"}
  BY DEF PeerCloses, ReadTimesOut, ReadEnds, peer, input, streamVars
<1>2. Rest' = Rest
  BY <1>1 DEF Rest
<1>3. StreamType' /\ InOrder'
  BY <1>1 DEF StreamInv, StreamType, InOrder
<1>4. AllThere'
  BY <1>1, <1>2, StretchKept DEF StreamInv
<1>5. Inside'
  BY <1>1 DEF StreamInv, Inside
<1> QED
  BY <1>3, <1>4, <1>5 DEF StreamInv

THEOREM BytesInOrder == StreamSpec => []StreamInv
<1>1. StreamInit => StreamInv
  BY NothingYet
<1>2. StreamInv /\ [StreamNext]_streamVars => StreamInv'
  BY WritesKeeps, ArriveKeeps, ReadKeeps, HandleKeeps, EndsKeep DEF StreamNext, PeerNext, ReadNext
<1> QED
  BY <1>1, <1>2, PTL DEF StreamSpec

-----------------------------------------------------------------------------
(* The deadline. *)
DeadlineInv == deadline = DeadlineIn(got) /\ TimeoutOnlyInsideFrame

\* T8 ends a connection only in the middle of a frame: while the reader waits for
\* the first byte of one no deadline is set (ReadFrameWithInterByteTimeout).
THEOREM SilenceBetweenFrames == StreamSpec => []TimeoutOnlyInsideFrame
<1>1. StreamInit => DeadlineInv
  BY DEF StreamInit, DeadlineInv, DeadlineIn, TimeoutOnlyInsideFrame
<1>2. DeadlineInv /\ [StreamNext]_streamVars => DeadlineInv'
  <2> SUFFICES ASSUME DeadlineInv, [StreamNext]_streamVars PROVE DeadlineInv'
    OBVIOUS
  <2>1. CASE ReadBytes
    <3>1. deadline' = DeadlineIn(got') /\ reader' \in {"length", "handling", "reading"}
      BY <2>1 DEF ReadBytes
    <3> QED
      BY <3>1 DEF DeadlineInv, DeadlineIn, TimeoutOnlyInsideFrame
  <2>2. CASE HandleFrame
    BY <2>2 DEF HandleFrame, DeadlineInv, DeadlineIn, TimeoutOnlyInsideFrame
  <2>3. CASE ReadTimesOut
    BY <2>3 DEF ReadTimesOut, DeadlineInv, DeadlineIn, TimeoutOnlyInsideFrame
  <2>4. CASE ReadEnds
    BY <2>4 DEF ReadEnds, DeadlineInv, DeadlineIn, TimeoutOnlyInsideFrame
  <2>5. CASE PeerNext \/ UNCHANGED streamVars
    <3>1. deadline' = deadline /\ got' = got /\ reader' = reader
      BY <2>5 DEF PeerNext, PeerWrites, BytesArrive, PeerCloses, input, streamVars
    <3> QED
      BY <3>1 DEF DeadlineInv, DeadlineIn, TimeoutOnlyInsideFrame
  <2> QED
    BY <2>1, <2>2, <2>3, <2>4, <2>5 DEF StreamNext, ReadNext
<1> QED
  BY <1>1, <1>2, PTL DEF StreamSpec, DeadlineInv

-----------------------------------------------------------------------------
(* The messages. A codec is faithful when it makes of every frame the peer   *)
(* may write what the peer meant, and refuses what is no message.            *)
FaithfulCodec ==
    \A o \in Outgoing :
        Len(o.bytes) >= 4 + HeaderLength =>
            LET d == MessageOf(DecodeFrame(From(o.bytes, 5)))
            IN  d.ok = (o.message # Refused) /\ (d.ok => d.message = o.message)

LogInv ==
    /\ log \in Seq({o.message : o \in Outgoing}) /\ Len(log) = Cardinality(Kept(Handled))
    /\ \A k \in Kept(Handled) : log[Cardinality(Kept(k))] = sent[k].message

LEMMA HandledFrames ==
    ASSUME StreamInv
    PROVE  /\ Handled \in Nat /\ Handled <= Len(frames) /\ Len(frames) \in Nat /\ Len(sent) \in Nat
           /\ Len(frames) <= Len(sent) /\ sent \in Seq(Outgoing)
           /\ reader = "handling" => Handled + 1 = Len(frames)
           /\ reader # "handling" => Handled = Len(frames)
<1>1. /\ Len(frames) \in Nat /\ Len(sent) \in Nat /\ Len(frames) <= Len(sent) /\ sent \in Seq(Outgoing)
      /\ reader = "handling" => Len(frames) > 0
  BY LenProperties DEF StreamInv, StreamType, Inside
<1> QED
  BY <1>1 DEF Handled

LEMMA KeptIsFinite ==
    ASSUME NEW n \in Nat
    PROVE  /\ IsFiniteSet(Kept(n)) /\ Cardinality(Kept(n)) \in Nat
           /\ \A k \in Kept(n) : k \in 1 .. n /\ k \in Kept(k) /\ Cardinality(Kept(k)) \in 1 .. Cardinality(Kept(n))
           /\ Kept(n + 1) = IF sent[n + 1].message # Refused THEN Kept(n) \cup {n + 1} ELSE Kept(n)
           /\ n + 1 \notin Kept(n)
<1>1. ASSUME NEW m \in Nat PROVE IsFiniteSet(Kept(m)) /\ Cardinality(Kept(m)) \in Nat
  <2>1. Kept(m) \in SUBSET (1 .. m) /\ IsFiniteSet(1 .. m)
    BY FS_Interval DEF Kept
  <2>2. IsFiniteSet(Kept(m))
    BY <2>1, FS_Subset
  <2> QED
    BY <2>2, FS_CardinalityType
<1>2. ASSUME NEW k \in Kept(n)
      PROVE  k \in 1 .. n /\ k \in Kept(k) /\ Cardinality(Kept(k)) \in 1 .. Cardinality(Kept(n))
  <2>1. k \in 1 .. n /\ k \in Nat /\ k \in Kept(k)
    BY DEF Kept
  <2>2. Kept(k) \in SUBSET Kept(n)
    BY <2>1 DEF Kept
  <2>3. Cardinality(Kept(k)) <= Cardinality(Kept(n))
    BY <1>1, <2>2, FS_Subset
  <2>4. Cardinality(Kept(k)) # 0 /\ Cardinality(Kept(k)) \in Nat
    BY <1>1, <2>1, FS_EmptySet
  <2>5. Cardinality(Kept(n)) \in Nat
    BY <1>1
  <2> QED
    BY <2>1, <2>3, <2>4, <2>5
<1>3. Kept(n + 1) = IF sent[n + 1].message # Refused THEN Kept(n) \cup {n + 1} ELSE Kept(n)
  <2>1. 1 .. n + 1 = (1 .. n) \cup {n + 1}
    OBVIOUS
  <2> QED
    BY <2>1 DEF Kept
<1>4. n + 1 \notin Kept(n)
  BY DEF Kept
<1> QED
  BY <1>1, <1>2, <1>3, <1>4

(* The log stays what it was when the frames handled do.                     *)
LEMMA LogKept ==
    ASSUME StreamInv, LogInv, log' = log, Handled' = Handled,
           \A k \in 1 .. Len(frames) : sent'[k] = sent[k]
    PROVE  LogInv'
<1>1. Handled \in Nat /\ Handled <= Len(frames) /\ Len(frames) \in Nat
  BY HandledFrames
<1>2. ASSUME NEW n \in Nat, n <= Handled
      PROVE  {k \in 1 .. n : sent'[k].message # Refused} = {k \in 1 .. n : sent[k].message # Refused}
  <2>1. \A k \in 1 .. n : k \in 1 .. Len(frames)
    BY <1>1, <1>2
  <2> QED
    BY <2>1
<1>3. ASSUME NEW n \in Nat, n <= Handled PROVE Kept(n)' = Kept(n)
  BY <1>2, <1>3 DEF Kept
<1>4. Kept(Handled)' = Kept(Handled)
  BY <1>1, <1>2 DEF Kept
<1>5. ASSUME NEW k \in Kept(Handled)
      PROVE  sent'[k] = sent[k] /\ Kept(k)' = Kept(k)
  <2>1. k \in 1 .. Handled
    BY <1>1, KeptIsFinite
  <2>2. k \in 1 .. Len(frames) /\ k \in Nat /\ k <= Handled
    BY <1>1, <2>1
  <2> QED
    BY <1>3, <2>2
<1>6. Len(log') = Cardinality(Kept(Handled)')
  BY <1>4 DEF LogInv
<1>7. \A k \in Kept(Handled)' : log'[Cardinality(Kept(k)')] = sent'[k].message
  BY <1>4, <1>5 DEF LogInv
<1> QED
  BY <1>6, <1>7 DEF LogInv

LEMMA LogGrows ==
    ASSUME FaithfulCodec, StreamInv, LogInv, HandleFrame
    PROVE  LogInv'
<1> DEFINE n == Handled
           k == Len(frames)
           o == sent[k]
           d == MessageOf(frames[k])
           c == Cardinality(Kept(n))
<1>1. /\ sent' = sent /\ frames' = frames /\ reader = "handling" /\ reader' = "reading"
      /\ log' = (IF d.ok THEN Append(log, d.message) ELSE log)
  BY DEF HandleFrame, peer
<1>2. n \in Nat /\ n + 1 = k /\ k \in Nat /\ k \in 1 .. Len(sent) /\ sent \in Seq(Outgoing)
  BY <1>1, HandledFrames
<1>3. Handled' = k
  BY <1>1, <1>2 DEF Handled
<1>4. o \in Outgoing
  BY <1>2, Sizes
<1>5. Len(o.bytes) >= 4 + HeaderLength /\ frames[k] = DecodeFrame(From(o.bytes, 5))
  BY <1>2 DEF StreamInv, InOrder
<1>6. d.ok = (o.message # Refused) /\ (d.ok => d.message = o.message)
  BY <1>4, <1>5 DEF FaithfulCodec
<1>7. /\ log \in Seq({e.message : e \in Outgoing}) /\ Len(log) = c
      /\ \A i \in Kept(n) : log[Cardinality(Kept(i))] = sent[i].message
  BY DEF LogInv
<1>8. /\ IsFiniteSet(Kept(n)) /\ c \in Nat /\ k \notin Kept(n)
      /\ \A i \in Kept(n) : Cardinality(Kept(i)) \in 1 .. c
      /\ Kept(k) = IF o.message # Refused THEN Kept(n) \cup {k} ELSE Kept(n)
  BY <1>2, KeptIsFinite
<1>9. \A m : Kept(m)' = Kept(m)
  BY <1>1 DEF Kept
<1>10. Kept(Handled)' = Kept(k)
  BY <1>1, <1>3 DEF Kept
<1> HIDE DEF n, d, c, o
<1>11. CASE d.ok
  <2>1. log' = Append(log, o.message) /\ o.message \in {e.message : e \in Outgoing}
    BY <1>1, <1>4, <1>6, <1>11
  <2>2. /\ log' \in Seq({e.message : e \in Outgoing}) /\ Len(log') = c + 1 /\ log'[c + 1] = o.message
        /\ \A i \in 1 .. c : log'[i] = log[i]
    BY <1>7, <2>1, AppendProperties
  <2>3. Kept(k) = Kept(n) \cup {k}
    BY <1>6, <1>8, <1>11
  <2>4. Cardinality(Kept(k)) = c + 1
    BY <1>8, <2>3, FS_AddElement DEF c
  <2>5. ASSUME NEW i \in Kept(k) PROVE log'[Cardinality(Kept(i))] = sent[i].message
    <3>1. CASE i \in Kept(n)
      BY <1>7, <1>8, <2>2, <3>1
    <3>2. CASE i = k
      BY <2>2, <2>4, <3>2 DEF o
    <3> QED
      BY <2>3, <3>1, <3>2
  <2> QED
    BY <1>1, <1>9, <1>10, <2>2, <2>4, <2>5 DEF LogInv
<1>12. CASE ~d.ok
  <2>1. log' = log /\ Kept(k) = Kept(n)
    BY <1>1, <1>6, <1>8, <1>12
  <2> QED
    BY <1>1, <1>7, <1>9, <1>10, <2>1 DEF LogInv, c
<1> QED
  BY <1>11, <1>12

\* However the network cuts the bytes, whenever T8 passes or the peer closes, the
\* frames that are read are those that were written, in order, and the log holds
\* exactly the messages in them (frame.go, session.go: runSession), for every codec
\* that is faithful frame by frame.
THEOREM MessagesAllArrive == FaithfulCodec => (StreamSpec => []MessagesArrive)
<1> SUFFICES ASSUME FaithfulCodec PROVE StreamSpec => []MessagesArrive
  OBVIOUS
<1>1. StreamInit => LogInv
  <2> SUFFICES ASSUME StreamInit PROVE LogInv
    OBVIOUS
  <2>1. Handled = 0 /\ log = <<>>
    BY EmptySeq DEF StreamInit, Handled
  <2>2. Kept(Handled) = {}
    BY <2>1 DEF Kept
  <2> QED
    BY <2>1, <2>2, EmptySeq, FS_EmptySet DEF LogInv
<1>2. StreamInv /\ StreamInv' /\ LogInv /\ [StreamNext]_streamVars => LogInv'
  <2> SUFFICES ASSUME StreamInv, StreamInv', LogInv, [StreamNext]_streamVars PROVE LogInv'
    OBVIOUS
  <2>1. ASSUME log' = log, sent' = sent, Handled' = Handled PROVE LogInv'
    BY <2>1, LogKept
  <2>2. ASSUME NEW o \in Outgoing, PeerWrites(o) PROVE LogInv'
    <3>1. log' = log /\ sent' = Append(sent, o) /\ frames' = frames /\ reader' = reader
      BY <2>2 DEF PeerWrites, input
    <3>2. /\ sent \in Seq(Outgoing) /\ Len(frames) \in Nat /\ Len(sent) \in Nat /\ Len(frames) <= Len(sent)
      BY HandledFrames
    <3>3. \A k \in 1 .. Len(sent) : sent'[k] = sent[k]
      BY <3>1, <3>2, AppendProperties
    <3>4. \A k \in 1 .. Len(frames) : k \in 1 .. Len(sent)
      BY <3>2
    <3>5. Handled' = Handled
      BY <3>1 DEF Handled
    <3> QED
      BY <3>1, <3>3, <3>4, <3>5, LogKept
  <2>3. CASE ReadBytes
    <3>1. log' = log /\ sent' = sent /\ reader = "reading"
      BY <2>3 DEF ReadBytes, peer
    <3>2. \/ reader' = "handling" /\ Len(frames') = Len(frames) + 1
          \/ reader' # "handling" /\ Len(frames') = Len(frames)
      <4> DEFINE now == got \o SubSeq(network, 1, Available(Missing(got)))
                 frame == DecodeFrame(From(now, 5))
                 announced == Len(now) >= 4
                 short == announced /\ PayloadLength(now) < HeaderLength
                 complete == announced /\ ~short /\ Missing(now) = 0
      <4>1. /\ reader' = (CASE short -> "length" [] complete -> "handling" [] OTHER -> "reading")
            /\ frames' = (IF complete THEN Append(frames, frame) ELSE frames)
        BY <2>3 DEF ReadBytes
      <4>2. complete => ~short
        OBVIOUS
      <4> HIDE DEF frame, short, complete
      <4>3. frames \in Seq({DecodeFrame(From(e.bytes, 5)) : e \in Outgoing} \cup {frame})
        BY SeqMonotonic DEF StreamInv, StreamType
      <4>4. Len(Append(frames, frame)) = Len(frames) + 1
        BY <4>3, AppendProperties
      <4> QED
        BY <4>1, <4>2, <4>4
    <3>3. Handled' = Handled
      <4>1. Len(frames) \in Nat
        BY HandledFrames
      <4> QED
        BY <3>1, <3>2, <4>1 DEF Handled
    <3> QED
      BY <2>1, <3>1, <3>3
  <2>4. CASE HandleFrame
    BY <2>4, LogGrows
  <2>5. CASE (\E n \in 1..Len(unsent) : BytesArrive(n)) \/ PeerCloses \/ ReadTimesOut \/ ReadEnds \/ UNCHANGED streamVars
    <3>1. log' = log /\ sent' = sent /\ frames' = frames
      BY <2>5 DEF BytesArrive, PeerCloses, ReadTimesOut, ReadEnds, input, peer, streamVars
    <3>2. (reader' = "handling") = (reader = "handling")
      BY <2>5 DEF BytesArrive, PeerCloses, ReadTimesOut, ReadEnds, input, peer, streamVars
    <3>3. Handled' = Handled
      BY <3>1, <3>2 DEF Handled
    <3> QED
      BY <2>1, <3>1, <3>3
  <2> QED
    BY <2>2, <2>3, <2>4, <2>5 DEF StreamNext, PeerNext, ReadNext
<1>3. StreamInv /\ LogInv => MessagesArrive
  <2> SUFFICES ASSUME StreamInv, LogInv PROVE MessagesArrive
    OBVIOUS
  <2>1. DOMAIN frames = 1 .. Len(frames) /\ Len(frames) <= Len(sent)
    BY LenProperties DEF StreamInv, StreamType
  <2>2. ASSUME NEW k \in 1 .. Len(frames) PROVE EncodeFrame(frames[k]) = sent[k].bytes
    <3>1. Len(sent[k].bytes) >= 4 + HeaderLength /\ frames[k] = DecodeFrame(From(sent[k].bytes, 5))
      BY DEF StreamInv, InOrder
    <3>2. k \in 1 .. Len(sent) /\ sent \in Seq(Outgoing)
      BY HandledFrames
    <3>3. IsWritten(sent[k].bytes)
      BY <3>2, Sizes, PeerWritesBytes
    <3> QED
      BY <3>1, <3>3, FrameOfBytes
  <2> QED
    BY <2>1, <2>2 DEF LogInv, MessagesArrive
<1> QED
  BY <1>1, <1>2, <1>3, BytesInOrder, PTL DEF StreamSpec
=============================================================================
