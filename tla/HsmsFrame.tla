----------------------------- MODULE HsmsFrame ------------------------------
(* HSMS frames on the wire (internal/hsms/frame.go): four bytes of length,   *)
(* ten of header, and the body.                                              *)
EXTENDS Integers, Sequences

Byte == 0..255

(* What is left of some bytes, from the kth on. *)
From(bytes, k) == SubSeq(bytes, k, Len(bytes))

(* Big-endian words. *)
Bytes2(n) == <<(n \div 256) % 256, n % 256>>
Bytes4(n) == <<(n \div 16777216) % 256, (n \div 65536) % 256, (n \div 256) % 256, n % 256>>
Word2(a, b)       == a * 256 + b
Word4(a, b, c, d) == a * 16777216 + b * 65536 + c * 256 + d

HeaderLength == 10
DataSType    == 0

(* A data frame has a stream, a function and a W bit, a control frame a code. *)
DataFrame(session, system, stream, function, wbit, body) ==
    [session |-> session, stream |-> stream, function |-> function, wbit |-> wbit,
     ptype |-> 0, stype |-> DataSType, system |-> system, code |-> 0, body |-> body]
ControlFrame(session, system, stype, code) ==
    [session |-> session, stream |-> 0, function |-> 0, wbit |-> FALSE,
     ptype |-> 0, stype |-> stype, system |-> system, code |-> code, body |-> <<>>]

(* The third and fourth byte of the header. The W bit is the highest of the  *)
(* stream's byte, which the stream itself cannot reach.                      *)
StreamByte(f) == (f.stream % 128) + (IF f.wbit THEN 128 ELSE 0)
HeaderBytes(f) == IF f.stype = DataSType THEN <<StreamByte(f), f.function>> ELSE <<0, f.code>>

(* WriteFrame. *)
EncodeFrame(f) ==
    Bytes4(HeaderLength + Len(f.body)) \o Bytes2(f.session) \o HeaderBytes(f)
        \o <<f.ptype, f.stype>> \o Bytes4(f.system) \o f.body

(* The length the first four bytes announce. *)
PayloadLength(b) == Word4(b[1], b[2], b[3], b[4])

(* decodeFrame: the frame in a payload of at least ten bytes. *)
DecodeFrame(p) ==
    LET data == p[6] = DataSType IN
    [session |-> Word2(p[1], p[2]), ptype |-> p[5], stype |-> p[6],
     system |-> Word4(p[7], p[8], p[9], p[10]), body |-> SubSeq(p, 11, Len(p)),
     stream |-> IF data THEN p[3] % 128 ELSE 0,
     function |-> IF data THEN p[4] ELSE 0,
     wbit |-> data /\ p[3] >= 128,
     code |-> IF data THEN 0 ELSE p[4]]
=============================================================================
