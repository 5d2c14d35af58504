---------------------------- MODULE HsmsTransport ----------------------------
(***************************************************************************)
(* The HSMS transport of internal/hsms/session.go: one Manager, the        *)
(* goroutines it starts, and the TCP connections it serves.                *)
(*                                                                         *)
(* Goroutines and their program counters:                                  *)
(*   start     the caller of Manager.Start                                 *)
(*   stop      Manager.shutdown, run once by whoever comes first: the      *)
(*             goroutine that waits for ctx.Done, or Manager.Shutdown      *)
(*   loop      acceptLoop (passive mode) or activeLoop (active mode)       *)
(*   reader[s] runSession for session s                                    *)
(*   writer[s] writeLoop for session s                                     *)
(*   timer[s]  the time.AfterFunc of armSelectionTimeout (T6 or T7)        *)
(*   sender[p] a caller p of Manager.Send outside the reader goroutines    *)
(*                                                                         *)
(* The peer is free: while a connection is open it may send any frame,     *)
(* stall, or break the connection at any moment.  A session is the         *)
(* identity of a heap object; Collect makes a dead identity reusable, so   *)
(* that a small set of sessions serves unboundedly many connections.       *)
(***************************************************************************)
EXTENDS Naturals, Sequences

CONSTANTS
    Session,        \* identities of sessions (connections)
    None,           \* the nil pointer
    Active,         \* isActiveMode(config.Mode)
    QueueCap,       \* capacity of session.writeCh; 16 in the code
    PeerFrame,      \* the kinds of frames the peer sends
    MaxReplies,     \* most messages one OnData call returns
    Sender,         \* callers of Manager.Send: the scheduler, the bootstrap
    Noted,          \* the kinds of outgoing frames the history wire keeps
    StopRacesStart  \* may Stop be called before Start has returned?

PeerFrameKinds ==
    {"SelectReq", "SelectRspOk", "SelectRspRejected", "DeselectReq", "DeselectRsp",
     "LinktestReq", "LinktestRsp", "SeparateReq", "Unsupported", "Data", "BadData"}

OutFrame == {"SelectReq", "SelectRsp", "DeselectRsp", "LinktestRsp", "Reply", "Primary"}

ASSUME TransportAssumption ==
    /\ None \notin Session
    /\ Active \in BOOLEAN
    /\ StopRacesStart \in BOOLEAN
    /\ QueueCap \in Nat \ {0}
    /\ MaxReplies \in Nat
    /\ PeerFrame \subseteq PeerFrameKinds
    /\ Noted \subseteq OutFrame

VARIABLES
    start, stop, loop,  \* program counters of the single goroutines
    cand,       \* the session acceptLoop or activeLoop has in hand
    took,       \* the session shutdown took from current
    tookSocket, \* whether shutdown took a listener
    started, ctxDone,
    socket,     \* the listening socket, as the operating system sees it
    listener,   \* is m.listener set?
    current,    \* m.current
    published,  \* the last state given to OnStateChange
    sender,     \* the program counters of the callers of Manager.Send
    target,     \* the session each of them read from current
    conn, selected, timer, reader, todo, writer, hand, queue,
    wire        \* history: what has crossed the connection, of the kinds in Noted

stopVars == <<stop, took, tookSocket>>
loopVars == <<loop, cand>>
listenVars == <<socket, listener>>
viewVars == <<current, published>>
readerVars == <<reader, todo>>
writerVars == <<writer, hand, queue, wire>>
procVars == <<start, stopVars, loopVars>>
senderVars == <<sender, target>>
managerVars == <<started, ctxDone, listenVars, viewVars>>
sessionVars == <<conn, selected, timer, readerVars, writerVars>>
vars == <<procVars, senderVars, managerVars, sessionVars>>

-----------------------------------------------------------------------------
(* Frames, states and the steps of a frame handler                         *)

States == {"NOT CONNECTED", "LISTENING", "CONNECTING", "CONNECTED", "SELECTED"}

\* One effect of a handler: a frame sent, the selected flag, a published
\* state, the connection closed, or an error that ends runSession.
Step == [op : {"send"}, arg : OutFrame]
            \cup [op : {"mark"}, arg : BOOLEAN]
            \cup [op : {"publish"}, arg : States]
            \cup [op : {"close", "fail"}, arg : {TRUE}]
Send(frame) == [op |-> "send", arg |-> frame]
Mark(flag) == [op |-> "mark", arg |-> flag]
Publish(state) == [op |-> "publish", arg |-> state]
Close == [op |-> "close", arg |-> TRUE]
Fail == [op |-> "fail", arg |-> TRUE]

\* Two bugs TLC must catch: a deselect that is not published, and the
\* selected flag set before the Select.rsp is queued.
ControlSteps_SilentDeselect(frame) ==
    CASE frame = "SelectReq" -> <<Send("SelectRsp"), Mark(TRUE), Publish("SELECTED")>>
      [] frame = "SelectRspOk" /\ Active -> <<Mark(TRUE), Publish("SELECTED")>>
      [] frame \in {"DeselectReq", "DeselectRsp"} -> <<Mark(FALSE)>>
      [] OTHER -> <<>>
ControlSteps_MarkFirst(frame) ==
    CASE frame = "SelectReq" -> <<Mark(TRUE), Send("SelectRsp"), Publish("SELECTED")>>
      [] OTHER -> <<>>

\* What handleControlFrame, or the data branch of runSession, does with a
\* frame, in the code's order.  OnData returns up to MaxReplies messages;
\* a frame whose body does not decode, or an OnData error, has no effect.
ControlSteps(frame) ==
    CASE frame = "SelectReq" -> <<Send("SelectRsp"), Mark(TRUE), Publish("SELECTED")>>
      [] frame = "SelectRspOk" /\ Active -> <<Mark(TRUE), Publish("SELECTED")>>
      [] frame = "SelectRspRejected" /\ Active -> <<Fail>>
      [] frame = "DeselectReq" -> <<Mark(FALSE), Publish("CONNECTED"), Send("DeselectRsp")>>
      [] frame = "DeselectRsp" -> <<Mark(FALSE), Publish("CONNECTED")>>
      [] frame = "LinktestReq" -> <<Send("LinktestRsp")>>
      [] frame = "SeparateReq" -> <<Close>>
      [] frame = "Unsupported" -> <<Fail>>
      [] OTHER -> <<>>
Handling(frame) ==
    IF frame = "Data"
    THEN {[i \in 1..n |-> Send("Reply")] : n \in 0..MaxReplies}
    ELSE {ControlSteps(frame)}

-----------------------------------------------------------------------------
Init ==
    /\ start = "new" /\ stop = "idle" /\ loop = "off"
    /\ cand = None /\ took = None /\ tookSocket = FALSE
    /\ started = FALSE /\ ctxDone = FALSE
    /\ socket = "none" /\ listener = FALSE /\ current = None
    /\ published = "NOT CONNECTED"
    /\ sender = [p \in Sender |-> "idle"]
    /\ target = [p \in Sender |-> None]
    /\ conn = [s \in Session |-> "none"]
    /\ selected = [s \in Session |-> FALSE]
    /\ timer = [s \in Session |-> "unarmed"]
    /\ reader = [s \in Session |-> "off"]
    /\ todo = [s \in Session |-> <<>>]
    /\ writer = [s \in Session |-> "off"]
    /\ hand = [s \in Session |-> "nothing"]
    /\ queue = [s \in Session |-> <<>>]
    /\ wire = [s \in Session |-> {}]

\* session.close, once: done is closed and the connection with it.
CloseSession(s) == conn' = [conn EXCEPT ![s] = "closed"]

\* A bug TLC must catch: the capacity is off by one.
CanEnqueue_OneTooMany(s) == Len(queue[s]) <= QueueCap

\* session.send: the select takes the enqueue when there is room and the
\* error when done is closed, and either one when both are ready.
CanEnqueue(s) == Len(queue[s]) < QueueCap
Enqueue(s, frame) == queue' = [queue EXCEPT ![s] = Append(@, frame)]
CanFail(s) == conn[s] = "closed"

-----------------------------------------------------------------------------
(* Manager.Start                                                           *)

StartBegins ==
    /\ start = "new"
    /\ started' = TRUE
    /\ start' = IF Active THEN "launching" ELSE "listening"
    /\ UNCHANGED <<stopVars, loopVars, senderVars, ctxDone, listenVars, viewVars, sessionVars>>

Listen ==
    /\ start = "listening"
    /\ socket' = "open"
    /\ start' = "registering"
    /\ UNCHANGED <<stopVars, loopVars, senderVars, started, ctxDone, listener, viewVars, sessionVars>>

ListenFails ==
    /\ start = "listening"
    /\ started' = FALSE
    /\ start' = "failed"
    /\ UNCHANGED <<stopVars, loopVars, senderVars, ctxDone, listenVars, viewVars, sessionVars>>

Register ==
    /\ start = "registering"
    /\ listener' = TRUE
    /\ start' = "launching"
    /\ UNCHANGED <<stopVars, loopVars, senderVars, started, ctxDone, socket, viewVars, sessionVars>>

Launch ==
    /\ start = "launching"
    /\ published' = IF Active THEN "CONNECTING" ELSE "LISTENING"
    /\ loop' = IF Active THEN "dialing" ELSE "accepting"
    /\ start' = "returned"
    /\ UNCHANGED <<stopVars, cand, senderVars, started, ctxDone, listenVars, current, sessionVars>>

-----------------------------------------------------------------------------
(* Manager.shutdown.  Every caller cancels the context first.              *)

Cancel ==
    /\ ~ctxDone
    /\ StopRacesStart \/ start \in {"returned", "failed"}
    /\ ctxDone' = TRUE
    /\ UNCHANGED <<procVars, senderVars, started, listenVars, viewVars, sessionVars>>

ShutdownBegins ==
    /\ stop = "idle" /\ ctxDone
    /\ started' = FALSE
    /\ stop' = "begun"
    /\ UNCHANGED <<start, took, tookSocket, loopVars, senderVars, ctxDone, listenVars, viewVars, sessionVars>>

Take ==
    /\ stop = "begun"
    /\ took' = current /\ tookSocket' = listener
    /\ current' = None /\ listener' = FALSE
    /\ stop' = "taken"
    /\ UNCHANGED <<start, loopVars, senderVars, started, ctxDone, socket, published, sessionVars>>

CloseListener ==
    /\ stop = "taken"
    /\ socket' = IF tookSocket THEN "closed" ELSE socket
    /\ stop' = "closing"
    /\ UNCHANGED <<start, took, tookSocket, loopVars, senderVars, started, ctxDone,
                   listener, viewVars, sessionVars>>

\* A bug TLC must catch: shutdown forgets the session it took.
CloseTaken_Forgets ==
    /\ stop = "closing"
    /\ took' = None
    /\ stop' = "publishing"
    /\ UNCHANGED <<start, loopVars, tookSocket, senderVars, managerVars, sessionVars>>

CloseTaken ==
    /\ stop = "closing"
    /\ IF took = None THEN UNCHANGED conn ELSE CloseSession(took)
    /\ took' = None
    /\ stop' = "publishing"
    /\ UNCHANGED <<start, tookSocket, loopVars, senderVars, managerVars, selected, timer,
                   readerVars, writerVars>>

ShutdownEnds ==
    /\ stop = "publishing"
    /\ published' = "NOT CONNECTED"
    /\ stop' = "done"
    /\ UNCHANGED <<start, took, tookSocket, loopVars, senderVars, started, ctxDone,
                   listenVars, current, sessionVars>>

-----------------------------------------------------------------------------
(* acceptLoop                                                              *)

Accept(s) ==
    /\ loop = "accepting" /\ socket = "open" /\ conn[s] = "none"
    /\ conn' = [conn EXCEPT ![s] = "open"]
    /\ cand' = s
    /\ loop' = "accepted"
    /\ UNCHANGED <<start, stopVars, senderVars, managerVars, selected, timer, readerVars, writerVars>>

\* Accept errors are retried until the context is done.
AcceptFails ==
    /\ loop = "accepting" /\ ctxDone
    /\ loop' = "off"
    /\ UNCHANGED <<start, stopVars, cand, senderVars, managerVars, sessionVars>>

\* A second connection is closed before a session is made for it.
RefuseSecond ==
    /\ loop = "accepted" /\ current # None
    /\ CloseSession(cand)
    /\ cand' = None
    /\ loop' = "accepting"
    /\ UNCHANGED <<start, stopVars, senderVars, managerVars, selected, timer, readerVars, writerVars>>

Admit ==
    /\ loop = "accepted" /\ current = None
    /\ writer' = [writer EXCEPT ![cand] = "on"]
    /\ loop' = "installing"
    /\ UNCHANGED <<start, stopVars, cand, senderVars, managerVars, conn, selected, timer,
                   readerVars, hand, queue, wire>>

-----------------------------------------------------------------------------
(* activeLoop, up to the installation of the session                       *)

Dial(s) ==
    /\ loop = "dialing" /\ ~ctxDone /\ conn[s] = "none"
    /\ conn' = [conn EXCEPT ![s] = "open"]
    /\ cand' = s
    /\ loop' = "dialed"
    /\ UNCHANGED <<start, stopVars, senderVars, managerVars, selected, timer, readerVars, writerVars>>

DialFails ==
    /\ loop = "dialing" /\ ~ctxDone
    /\ loop' = "backoff"
    /\ UNCHANGED <<start, stopVars, cand, senderVars, managerVars, sessionVars>>

\* ctx.Err at the top of the loop, a dial cut short, or sleepContext.
LoopStops ==
    /\ loop \in {"dialing", "backoff", "cooling"} /\ ctxDone
    /\ loop' = "off"
    /\ UNCHANGED <<start, stopVars, cand, senderVars, managerVars, sessionVars>>

CheckDialed ==
    /\ loop = "dialed"
    /\ IF ctxDone \/ ~started
       THEN CloseSession(cand) /\ cand' = None /\ loop' = "off" /\ UNCHANGED writer
       ELSE /\ writer' = [writer EXCEPT ![cand] = "on"]
            /\ loop' = "installing"
            /\ UNCHANGED <<cand, conn>>
    /\ UNCHANGED <<start, stopVars, senderVars, managerVars, selected, timer, readerVars, hand, queue, wire>>

RetryDial ==
    /\ loop = "backoff"
    /\ loop' = "dialing"
    /\ UNCHANGED <<start, stopVars, cand, senderVars, managerVars, sessionVars>>

-----------------------------------------------------------------------------
(* Both loops: installCurrentSession and what follows                      *)

\* A bug TLC must catch: a session installed after the shutdown.
CanInstall_Unchecked == current = None

CanInstall == ~ctxDone /\ started /\ current = None

Install ==
    /\ loop = "installing"
    /\ IF CanInstall
       THEN current' = cand /\ loop' = "announcing"
       ELSE loop' = "refused" /\ UNCHANGED current
    /\ UNCHANGED <<start, stopVars, cand, senderVars, started, ctxDone, listenVars, published, sessionVars>>

DropRefused ==
    /\ loop = "refused"
    /\ CloseSession(cand)
    /\ cand' = None
    /\ loop' = IF ctxDone \/ ~started THEN "off"
               ELSE IF Active THEN "backoff" ELSE "accepting"
    /\ UNCHANGED <<start, stopVars, senderVars, managerVars, selected, timer, readerVars, writerVars>>

\* A bug TLC must catch: T7 is not armed.
Announce_NoTimer ==
    /\ loop = "announcing" /\ ~Active
    /\ published' = "CONNECTED"
    /\ reader' = [reader EXCEPT ![cand] = "running"]
    /\ cand' = None
    /\ loop' = "accepting"
    /\ UNCHANGED <<start, stopVars, senderVars, started, ctxDone, listenVars, current,
                   conn, selected, timer, todo, writerVars>>

\* Passive mode: publish, start the reader, which arms T7 before it reads.
Announce ==
    /\ loop = "announcing" /\ ~Active
    /\ published' = "CONNECTED"
    /\ reader' = [reader EXCEPT ![cand] = "running"]
    /\ timer' = [timer EXCEPT ![cand] = "armed"]
    /\ cand' = None
    /\ loop' = "accepting"
    /\ UNCHANGED <<start, stopVars, senderVars, started, ctxDone, listenVars, current,
                   conn, selected, todo, writerVars>>

AnnounceDialed ==
    /\ loop = "announcing" /\ Active
    /\ published' = "CONNECTED"
    /\ loop' = "selecting"
    /\ UNCHANGED <<start, stopVars, cand, senderVars, started, ctxDone, listenVars, current, sessionVars>>

\* A bug TLC must catch: T6 is not armed.
SendSelect_NoTimer ==
    /\ loop = "selecting" /\ CanEnqueue(cand)
    /\ Enqueue(cand, "SelectReq")
    /\ reader' = [reader EXCEPT ![cand] = "running"]
    /\ loop' = "serving"
    /\ UNCHANGED <<start, stopVars, cand, senderVars, managerVars, conn, selected,
                   timer, todo, writer, hand, wire>>

\* Active mode: the Select.req is queued, T6 armed, and the loop reads.
SendSelect ==
    /\ loop = "selecting" /\ CanEnqueue(cand)
    /\ Enqueue(cand, "SelectReq")
    /\ timer' = [timer EXCEPT ![cand] = "armed"]
    /\ reader' = [reader EXCEPT ![cand] = "running"]
    /\ loop' = "serving"
    /\ UNCHANGED <<start, stopVars, cand, senderVars, managerVars, conn, selected, todo, writer, hand, wire>>

\* send fails only once the session is closed, so its close is a no-op.
SelectFails ==
    /\ loop = "selecting" /\ CanFail(cand)
    /\ current' = IF current = cand THEN None ELSE current
    /\ cand' = None
    /\ loop' = "backoff"
    /\ UNCHANGED <<start, stopVars, senderVars, started, ctxDone, listenVars, published, sessionVars>>

SessionOver ==
    /\ loop = "serving" /\ reader[cand] = "done"
    /\ cand' = None
    /\ loop' = "cooling"
    /\ UNCHANGED <<start, stopVars, senderVars, managerVars, sessionVars>>

Redial ==
    /\ loop = "cooling"
    /\ published' = "CONNECTING"
    /\ loop' = "dialing"
    /\ UNCHANGED <<start, stopVars, cand, senderVars, started, ctxDone, listenVars, current, sessionVars>>

-----------------------------------------------------------------------------
(* runSession.  A running reader with nothing to do is in ReadFrame.       *)

ReadFrame(s) ==
    /\ reader[s] = "running" /\ todo[s] = <<>> /\ conn[s] = "open"
    /\ \E frame \in PeerFrame : \E steps \in Handling(frame) :
          /\ todo' = [todo EXCEPT ![s] = steps]
          /\ wire' = IF frame = "SelectRspOk" /\ Active
                     THEN [wire EXCEPT ![s] = @ \cup ({"SelectRsp"} \cap Noted)] ELSE wire
    /\ UNCHANGED <<procVars, senderVars, managerVars, conn, selected, timer, reader, writer, hand, queue>>

\* The peer breaks the connection, T8 expires inside a frame, a frame has
\* no valid length, or the connection was closed on this side.
ReadFails(s) ==
    /\ reader[s] = "running" /\ todo[s] = <<>>
    /\ reader' = [reader EXCEPT ![s] = "closing"]
    /\ UNCHANGED <<procVars, senderVars, managerVars, conn, selected, timer, todo, writerVars>>

Doing(s, op) == reader[s] = "running" /\ todo[s] # <<>> /\ Head(todo[s]).op = op
Advance(s) == todo' = [todo EXCEPT ![s] = Tail(@)]

HandlerSends(s) ==
    /\ Doing(s, "send") /\ CanEnqueue(s)
    /\ Enqueue(s, Head(todo[s]).arg)
    /\ Advance(s)
    /\ UNCHANGED <<procVars, senderVars, managerVars, conn, selected, timer, reader, writer, hand, wire>>

\* A failed send, or an error of the handler, ends runSession.
HandlerFails(s) ==
    /\ Doing(s, "fail") \/ (Doing(s, "send") /\ CanFail(s))
    /\ todo' = [todo EXCEPT ![s] = <<>>]
    /\ reader' = [reader EXCEPT ![s] = "closing"]
    /\ UNCHANGED <<procVars, senderVars, managerVars, conn, selected, timer, writerVars>>

HandlerMarks(s) ==
    /\ Doing(s, "mark")
    /\ selected' = [selected EXCEPT ![s] = Head(todo[s]).arg]
    /\ Advance(s)
    /\ UNCHANGED <<procVars, senderVars, managerVars, conn, timer, reader, writerVars>>

HandlerPublishes(s) ==
    /\ Doing(s, "publish")
    /\ published' = Head(todo[s]).arg
    /\ Advance(s)
    /\ UNCHANGED <<procVars, senderVars, started, ctxDone, listenVars, current, conn,
                   selected, timer, reader, writerVars>>

HandlerCloses(s) ==
    /\ Doing(s, "close")
    /\ CloseSession(s)
    /\ Advance(s)
    /\ UNCHANGED <<procVars, senderVars, managerVars, selected, timer, reader, writerVars>>

\* A bug TLC must catch: the exit leaves the connection open.
ReaderCloses_LeavesOpen(s) ==
    /\ reader[s] = "closing"
    /\ reader' = [reader EXCEPT ![s] = "clearing"]
    /\ UNCHANGED <<procVars, senderVars, managerVars, conn, selected, timer, todo, writerVars>>

\* The deferred exit: close, clear, and unless the context is done publish.
ReaderCloses(s) ==
    /\ reader[s] = "closing"
    /\ CloseSession(s)
    /\ reader' = [reader EXCEPT ![s] = "clearing"]
    /\ UNCHANGED <<procVars, senderVars, managerVars, selected, timer, todo, writerVars>>

\* A bug TLC must catch: the dead session stays current.
ReaderClears_KeepsCurrent(s) ==
    /\ reader[s] = "clearing"
    /\ reader' = [reader EXCEPT ![s] = "leaving"]
    /\ UNCHANGED <<procVars, senderVars, managerVars, conn, selected, timer, todo, writerVars>>

ReaderClears(s) ==
    /\ reader[s] = "clearing"
    /\ current' = IF current = s THEN None ELSE current
    /\ reader' = [reader EXCEPT ![s] = "leaving"]
    /\ UNCHANGED <<procVars, senderVars, started, ctxDone, listenVars, published, conn,
                   selected, timer, todo, writerVars>>

ReaderLeaves(s) ==
    /\ reader[s] = "leaving"
    /\ reader' = [reader EXCEPT ![s] = IF ctxDone THEN "done" ELSE "announcing"]
    /\ UNCHANGED <<procVars, senderVars, managerVars, conn, selected, timer, todo, writerVars>>

ReaderAnnounces(s) ==
    /\ reader[s] = "announcing"
    /\ published' = IF Active THEN "CONNECTING" ELSE "LISTENING"
    /\ reader' = [reader EXCEPT ![s] = "done"]
    /\ UNCHANGED <<procVars, senderVars, started, ctxDone, listenVars, current, conn,
                   selected, timer, todo, writerVars>>

-----------------------------------------------------------------------------
(* armSelectionTimeout: the timer reads the flag, then closes              *)

TimerFires(s) ==
    /\ timer[s] = "armed"
    /\ timer' = [timer EXCEPT ![s] = IF selected[s] THEN "spent" ELSE "expired"]
    /\ UNCHANGED <<procVars, senderVars, managerVars, conn, selected, readerVars, writerVars>>

TimerCloses(s) ==
    /\ timer[s] = "expired"
    /\ CloseSession(s)
    /\ timer' = [timer EXCEPT ![s] = "spent"]
    /\ UNCHANGED <<procVars, senderVars, managerVars, selected, readerVars, writerVars>>

-----------------------------------------------------------------------------
(* writeLoop.  A write blocks while the peer does not read.                *)

WriterTakes(s) ==
    /\ writer[s] = "on" /\ hand[s] = "nothing" /\ queue[s] # <<>>
    /\ hand' = [hand EXCEPT ![s] = Head(queue[s])]
    /\ queue' = [queue EXCEPT ![s] = Tail(@)]
    /\ UNCHANGED <<procVars, senderVars, managerVars, conn, selected, timer, readerVars, writer, wire>>

WriterWrites(s) ==
    /\ writer[s] = "on" /\ hand[s] # "nothing" /\ conn[s] = "open"
    /\ wire' = [wire EXCEPT ![s] = @ \cup ({hand[s]} \cap Noted)]
    /\ hand' = [hand EXCEPT ![s] = "nothing"]
    /\ UNCHANGED <<procVars, senderVars, managerVars, conn, selected, timer, readerVars, writer, queue>>

WriterFails(s) ==
    /\ writer[s] = "on" /\ hand[s] # "nothing"
    /\ CloseSession(s)
    /\ hand' = [hand EXCEPT ![s] = "nothing"]
    /\ writer' = [writer EXCEPT ![s] = "done"]
    /\ UNCHANGED <<procVars, senderVars, managerVars, selected, timer, readerVars, queue, wire>>

WriterStops(s) ==
    /\ writer[s] = "on" /\ hand[s] = "nothing" /\ conn[s] = "closed"
    /\ writer' = [writer EXCEPT ![s] = "done"]
    /\ UNCHANGED <<procVars, senderVars, managerVars, conn, selected, timer, readerVars, hand, queue, wire>>

-----------------------------------------------------------------------------
(* Manager.Send: current is read, then its flag, then the frame is queued  *)

SendReadsCurrent(p) ==
    /\ sender[p] = "idle" /\ current # None
    /\ target' = [target EXCEPT ![p] = current]
    /\ sender' = [sender EXCEPT ![p] = "checking"]
    /\ UNCHANGED <<procVars, managerVars, sessionVars>>

SendReturns(p) ==
    /\ sender' = [sender EXCEPT ![p] = "idle"]
    /\ target' = [target EXCEPT ![p] = None]

SendChecksSelected(p) ==
    /\ sender[p] = "checking"
    /\ IF selected[target[p]]
       THEN sender' = [sender EXCEPT ![p] = "sending"] /\ UNCHANGED target
       ELSE SendReturns(p)
    /\ UNCHANGED <<procVars, managerVars, sessionVars>>

SendQueues(p) ==
    /\ sender[p] = "sending" /\ CanEnqueue(target[p])
    /\ Enqueue(target[p], "Primary")
    /\ SendReturns(p)
    /\ UNCHANGED <<procVars, managerVars, conn, selected, timer, readerVars, writer, hand, wire>>

SendFails(p) ==
    /\ sender[p] = "sending" /\ CanFail(target[p])
    /\ SendReturns(p)
    /\ UNCHANGED <<procVars, managerVars, sessionVars>>

-----------------------------------------------------------------------------
\* Nothing refers to a dead session any more: its identity may be reused.
Collectable(s) ==
    /\ conn[s] = "closed"
    /\ reader[s] \in {"off", "done"} /\ writer[s] \in {"off", "done"}
    /\ timer[s] \in {"unarmed", "spent"}
    /\ s \notin {current, cand, took}
    /\ \A p \in Sender : target[p] # s

Collect(s) ==
    /\ Collectable(s)
    /\ conn' = [conn EXCEPT ![s] = "none"]
    /\ selected' = [selected EXCEPT ![s] = FALSE]
    /\ timer' = [timer EXCEPT ![s] = "unarmed"]
    /\ reader' = [reader EXCEPT ![s] = "off"]
    /\ writer' = [writer EXCEPT ![s] = "off"]
    /\ queue' = [queue EXCEPT ![s] = <<>>]
    /\ wire' = [wire EXCEPT ![s] = {}]
    /\ UNCHANGED <<procVars, senderVars, managerVars, todo, hand>>

-----------------------------------------------------------------------------
StartNext == StartBegins \/ Listen \/ ListenFails \/ Register \/ Launch
StopNext == ShutdownBegins \/ Take \/ CloseListener \/ CloseTaken \/ ShutdownEnds
LoopNext ==
    \/ \E s \in Session : Accept(s) \/ Dial(s)
    \/ AcceptFails \/ RefuseSecond \/ Admit
    \/ DialFails \/ LoopStops \/ CheckDialed \/ RetryDial
    \/ Install \/ DropRefused \/ Announce
    \/ AnnounceDialed \/ SendSelect \/ SelectFails \/ SessionOver \/ Redial
HandlerNext(s) ==
    \/ HandlerSends(s) \/ HandlerFails(s) \/ HandlerMarks(s)
    \/ HandlerPublishes(s) \/ HandlerCloses(s)
ExitNext(s) ==
    ReaderCloses(s) \/ ReaderClears(s) \/ ReaderLeaves(s) \/ ReaderAnnounces(s)
TimerNext(s) == TimerFires(s) \/ TimerCloses(s)
WriterNext(s) == WriterTakes(s) \/ WriterWrites(s) \/ WriterFails(s) \/ WriterStops(s)
SenderNext(p) ==
    SendReadsCurrent(p) \/ SendChecksSelected(p) \/ SendQueues(p) \/ SendFails(p)

Next ==
    \/ StartNext \/ Cancel \/ StopNext \/ LoopNext
    \/ \E p \in Sender : SenderNext(p)
    \/ \E s \in Session :
          \/ ReadFrame(s) \/ ReadFails(s) \/ HandlerNext(s) \/ ExitNext(s)
          \/ TimerNext(s) \/ WriterNext(s) \/ Collect(s)

Spec == Init /\ [][Next]_vars

\* The Go scheduler runs every goroutine that can run, and timers expire.
\* Nothing is assumed of the peer: no
\* frame need arrive, no write need complete, no connection need be made.
LocalLoopStep ==
    \/ (AcceptFails /\ socket = "closed") \/ RefuseSecond \/ Admit
    \/ LoopStops \/ CheckDialed \/ RetryDial
    \/ Install \/ DropRefused \/ Announce
    \/ AnnounceDialed \/ SendSelect \/ SelectFails \/ SessionOver \/ Redial
LocalWriterStep(s) ==
    WriterTakes(s) \/ (WriterFails(s) /\ conn[s] = "closed") \/ WriterStops(s)
Fairness ==
    /\ WF_vars(StartNext) /\ WF_vars(StopNext)
    /\ WF_vars(LocalLoopStep)
    /\ \A p \in Sender :
          WF_vars(SendChecksSelected(p) \/ SendQueues(p) \/ SendFails(p))
    /\ \A s \in Session :
          /\ WF_vars(ReadFails(s) /\ conn[s] = "closed")
          /\ WF_vars(HandlerNext(s) \/ ExitNext(s))
          /\ WF_vars(TimerNext(s))
          /\ WF_vars(LocalWriterStep(s))
FairSpec == Spec /\ Fairness
-----------------------------------------------------------------------------
(* Properties                                                              *)

ProcTypeOK ==
    /\ start \in {"new", "listening", "registering", "launching", "returned", "failed"}
    /\ stop \in {"idle", "begun", "taken", "closing", "publishing", "done"}
    /\ loop \in {"off", "accepting", "accepted", "dialing", "dialed", "installing",
                 "refused", "announcing", "selecting", "serving", "cooling", "backoff"}
    /\ cand \in Session \cup {None} /\ took \in Session \cup {None}
    /\ tookSocket \in BOOLEAN
SenderTypeOK ==
    /\ sender \in [Sender -> {"idle", "checking", "sending"}]
    /\ target \in [Sender -> Session \cup {None}]
ManagerTypeOK ==
    /\ started \in BOOLEAN /\ ctxDone \in BOOLEAN /\ listener \in BOOLEAN
    /\ socket \in {"none", "open", "closed"}
    /\ current \in Session \cup {None}
    /\ published \in States
SessionTypeOK ==
    /\ conn \in [Session -> {"none", "open", "closed"}]
    /\ selected \in [Session -> BOOLEAN]
    /\ timer \in [Session -> {"unarmed", "armed", "expired", "spent"}]
    /\ reader \in [Session -> {"off", "running", "closing", "clearing", "leaving",
                                "announcing", "done"}]
    /\ writer \in [Session -> {"off", "on", "done"}]
    /\ hand \in [Session -> OutFrame \cup {"nothing"}]
    /\ wire \in [Session -> SUBSET Noted]
QueueTypeOK ==
    /\ todo \in [Session -> Seq(Step)]
    /\ queue \in [Session -> Seq(OutFrame)]
    /\ \A s \in Session : Len(queue[s]) <= QueueCap
TypeOK ==
    ProcTypeOK /\ SenderTypeOK /\ ManagerTypeOK /\ SessionTypeOK /\ QueueTypeOK

\* At most one open connection has a goroutine serving it: HSMS-SS.
Served(s) == conn[s] = "open" /\ reader[s] # "off"
OneLiveSession == \A s, t \in Session : Served(s) /\ Served(t) => s = t

\* Why: an open connection that is served, or is about to be, is either the
\* current session or the one shutdown has taken and will close; and once
\* shutdown has taken, nothing becomes current again.
InHand == {"accepted", "dialed", "installing", "refused", "announcing", "selecting"}
Attached(s) == reader[s] # "off" \/ (loop \in {"announcing", "selecting"} /\ cand = s)
Ownership ==
    /\ \A s \in Session :
          /\ conn[s] = "open" /\ Attached(s) => s \in {current, took}
          /\ conn[s] = "none" => reader[s] = "off"
          /\ reader[s] \in {"clearing", "leaving", "announcing", "done"} => conn[s] = "closed"
    /\ loop \in InHand => cand \in Session /\ conn[cand] # "none" /\ reader[cand] = "off"
    /\ stop # "idle" => ctxDone
    /\ stop \notin {"idle", "begun"} => current = None
    /\ took # None => stop \in {"taken", "closing"}

\* No data message of the simulator's own reaches the peer before a
\* successful Select.rsp has crossed the connection, and in active mode
\* nothing does before the Select.req: the queue keeps the handler's order
\* although three goroutines feed and drain it.
DataFollowsSelect ==
    \A s \in Session :
        /\ "Primary" \in wire[s] => "SelectRsp" \in wire[s]
        /\ Active /\ "Primary" \in wire[s] => "SelectReq" \in wire[s]

\* No goroutine is between two of its steps, and no exit is pending.
Quiet ==
    /\ start = "returned" /\ stop \in {"idle", "done"}
    /\ loop \in {"accepting", "dialing", "serving", "backoff"}
    /\ \A s \in Session :
          /\ reader[s] \in {"off", "running", "done"}
          /\ reader[s] = "running" => todo[s] = <<>> /\ conn[s] = "open"
ActualState ==
    CASE stop = "done" -> "NOT CONNECTED"
      [] stop # "done" /\ current = None -> IF Active THEN "CONNECTING" ELSE "LISTENING"
      [] OTHER -> IF selected[current] THEN "SELECTED" ELSE "CONNECTED"
\* Whenever the transport is quiet, the state it last published is its state.
StatusTruthful == Quiet /\ ~ctxDone => published = ActualState
\* Passive mode: the published state can lag, but only as LISTENING.
StatusLagsAsListening == Quiet /\ ~ctxDone => published \in {ActualState, "LISTENING"}

\* The link this transport offers, for the single-session specification.
Link ==
    IF current = None \/ conn[current] = "closed" THEN "NOT CONNECTED"
    ELSE IF selected[current] THEN "SELECTED" ELSE "CONNECTED"
SS == INSTANCE HsmsSS WITH link <- Link, open <- stop \in {"idle", "begun"}
ImplementsHsmsSS == SS!Spec
\* What the refinement rests on: a session starts unselected.
LinkInv ==
    /\ current # None => conn[current] # "none"
    /\ \A s \in Session : reader[s] = "off" => ~selected[s]

\* Once the context is done, shutdown, the loop and every reader come to
\* an end for good and the listening socket is closed: Manager.Shutdown's
\* loopWG.Wait returns.
Stopped ==
    /\ stop = "done" /\ loop = "off" /\ socket # "open"
    /\ \A s \in Session : reader[s] \in {"off", "done"} /\ conn[s] # "open"
ShutdownCompletes == ctxDone ~> []Stopped

\* A connection that has been installed is selected or closed in the end.
NewSessionResolves ==
    \A s \in Session :
        (loop = "announcing" /\ cand = s) ~> (selected[s] \/ conn[s] # "open")
\* A dead session does not stay current, where it would block every other.
DeadSessionCleared ==
    \A s \in Session : (current = s /\ conn[s] = "closed") ~> (current # s)
=============================================================================
