---------------------------- MODULE FrameStream -----------------------------
(* The peer writes frames, the network cuts them anywhere, the reader        *)
(* (internal/hsms/frame.go: ReadFrameWithInterByteTimeout) puts them together*)
(* under the inter-byte timeout T8, and the session decodes what each holds. *)
(* What a frame means is a parameter, so that the reader can be reasoned     *)
(* about for every codec; WirePath gives it the one of the simulator.        *)
EXTENDS SecsItem, HsmsFrame, FiniteSets

CONSTANTS
    Outgoing,       \* what the peer may write: [message, bytes], a message or Refused
    Followers,      \* the part of it that may come after something else
    MaxSent,        \* how much the peer writes
    T8,             \* BOOLEAN: the inter-byte timeout is configured
    MessageOf(_)    \* what the session makes of a frame: [ok, message] or Refused

(* The peer announces the length it writes, which may be too short for a     *)
(* header, and leaves the third byte of a control frame's header empty.      *)
IsWritten(bytes) ==
    /\ bytes \in Seq(Byte) /\ Len(bytes) >= 4 /\ PayloadLength(bytes) = Len(bytes) - 4
    /\ Len(bytes) >= 4 + HeaderLength => bytes[10] = DataSType \/ bytes[7] = 0

ASSUME OutgoingAssumption ==
    /\ Followers \subseteq Outgoing /\ T8 \in BOOLEAN
    /\ \A o \in Outgoing : IsWritten(o.bytes)

VARIABLES
    sent,       \* what the peer has written, in order
    unsent,     \* the bytes of it that are not on the network yet
    network,    \* the bytes that are, and have not been read
    closed,     \* the peer has closed the connection
    got,        \* the bytes of the frame the reader is in
    deadline,   \* the connection has a read deadline
    reader,     \* "reading", "handling" a frame, or how it ended: "T8", "EOF", "length"
    frames,     \* the frames the reader has returned
    log         \* the messages the session has decoded, which the log shows

peer  == <<sent, unsent, closed>>
input == <<network, got, deadline, reader, frames, log>>
streamVars == <<peer, input>>

StreamInit ==
    /\ sent = <<>> /\ unsent = <<>> /\ network = <<>> /\ closed = FALSE
    /\ got = <<>> /\ deadline = FALSE /\ reader = "reading"
    /\ frames = <<>> /\ log = <<>>

-----------------------------------------------------------------------------
(* The peer and the network. *)
PeerWrites(o) ==
    /\ ~closed /\ unsent = <<>> /\ Len(sent) < MaxSent
    /\ sent # <<>> => o \in Followers
    /\ sent' = Append(sent, o) /\ unsent' = o.bytes
    /\ UNCHANGED <<closed, input>>

BytesArrive(n) ==
    /\ ~closed /\ n <= Len(unsent)
    /\ network' = network \o SubSeq(unsent, 1, n)
    /\ unsent' = From(unsent, n + 1)
    /\ UNCHANGED <<sent, closed, got, deadline, reader, frames, log>>

PeerCloses ==
    /\ ~closed /\ closed' = TRUE
    /\ UNCHANGED <<sent, unsent, input>>

-----------------------------------------------------------------------------
(* One byte without a deadline, three more of the length and then the payload*)
(* with one, set again before every read.                                    *)
Missing(bytes) ==
    CASE bytes = <<>>   -> 1
      [] Len(bytes) \in 1..3 -> 4 - Len(bytes)
      [] OTHER          -> 4 + PayloadLength(bytes) - Len(bytes)

DeadlineIn_Always(bytes)     == T8
DeadlineIn_LengthOnly(bytes) == T8 /\ Len(bytes) \in 1..3
DeadlineIn(bytes)            == T8 /\ bytes # <<>>

Available(n) == IF Len(network) < n THEN Len(network) ELSE n

ReadBytes ==
    /\ reader = "reading" /\ network # <<>>
    /\ LET n == Available(Missing(got))
           now == got \o SubSeq(network, 1, n)
           announced == Len(now) >= 4
           short == announced /\ PayloadLength(now) < HeaderLength
           complete == announced /\ ~short /\ Missing(now) = 0
       IN  /\ network' = From(network, n + 1)
           /\ got' = IF complete THEN <<>> ELSE now
           /\ deadline' = DeadlineIn(got')
           /\ reader' = CASE short -> "length" [] complete -> "handling" [] OTHER -> "reading"
           /\ frames' = IF complete THEN Append(frames, DecodeFrame(From(now, 5))) ELSE frames
    /\ UNCHANGED <<peer, log>>

(* runSession: a frame that is no data message is not decoded here, and a    *)
(* body that cannot be decoded costs its message only.                       *)
HandleFrame ==
    /\ reader = "handling"
    /\ LET decoded == MessageOf(frames[Len(frames)])
       IN  log' = IF decoded.ok THEN Append(log, decoded.message) ELSE log
    /\ reader' = "reading"
    /\ UNCHANGED <<peer, network, got, deadline, frames>>

ReadTimesOut ==
    /\ reader = "reading" /\ deadline
    /\ reader' = "T8"
    /\ UNCHANGED <<peer, network, got, deadline, frames, log>>

ReadEnds ==
    /\ reader = "reading" /\ closed /\ network = <<>>
    /\ reader' = "EOF"
    /\ UNCHANGED <<peer, network, got, deadline, frames, log>>

-----------------------------------------------------------------------------
PeerNext == (\E o \in Outgoing : PeerWrites(o)) \/ (\E n \in 1..Len(unsent) : BytesArrive(n)) \/ PeerCloses
ReadNext == ReadBytes \/ HandleFrame \/ ReadTimesOut \/ ReadEnds
StreamNext == PeerNext \/ ReadNext

StreamSpec == StreamInit /\ [][StreamNext]_streamVars

(* The reader is scheduled, and a deadline passes. *)
StreamFairness == WF_streamVars(ReadBytes) /\ WF_streamVars(ReadTimesOut) /\ WF_streamVars(ReadEnds)

-----------------------------------------------------------------------------
(* Wherever the network cuts them, the reader returns the frames the peer    *)
(* wrote, whole, in order and none twice, and the log shows exactly the      *)
(* messages in them: an item that cannot be decoded, a control frame or a    *)
(* strange length costs nobody else's message (frame.go, items.go).          *)
Handled == Len(frames) - (IF reader = "handling" THEN 1 ELSE 0)
Kept(n) == {k \in 1..n : sent[k].message # Refused}
MessagesArrive ==
    /\ Len(frames) <= Len(sent)
    /\ \A k \in DOMAIN frames : EncodeFrame(frames[k]) = sent[k].bytes
    /\ Len(log) = Cardinality(Kept(Handled))
    /\ \A k \in Kept(Handled) : log[Cardinality(Kept(k))] = sent[k].message

(* T8 ends a connection only in the middle of a frame: between two frames    *)
(* the peer may be silent for ever (frame.go: the deadline is cleared).      *)
TimeoutOnlyInsideFrame == reader = "T8" => got # <<>>

(* With T8, a frame that has begun is completed or ends the connection.      *)
StalledFrameEnds == (got # <<>>) ~> (got = <<>> \/ reader \in {"T8", "EOF", "length"})
=============================================================================
