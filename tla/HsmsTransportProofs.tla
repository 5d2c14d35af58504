------------------------ MODULE HsmsTransportProofs --------------------------
(***************************************************************************)
(* Theorems about HsmsTransport, for every set of sessions and senders and *)
(* every queue capacity: types, the ownership of connections, the          *)
(* refinement of HsmsSS, the published state and the order of what is      *)
(* sent.  Every invariant is proved by one lemma per group of actions;     *)
(* Apart says which session a step is about, and the others stay the Same. *)
(***************************************************************************)
EXTENDS HsmsTransport, SequenceTheorems, TLAPS

\* The groups of variables that UNCHANGED lists abbreviate.
USE DEF stopVars, loopVars, listenVars, viewVars, readerVars, writerVars

\* What a handler has to do is a sequence of steps, for every frame.
LEMMA HandlingType ==
    ASSUME NEW frame \in PeerFrame, NEW steps \in Handling(frame)
    PROVE  steps \in Seq(Step)
<1>0. MaxReplies \in Nat
  BY TransportAssumption
<1>1. CASE frame = "Data"
  <2>1. PICK n \in 0..MaxReplies : steps = [i \in 1..n |-> Send("Reply")]
    BY <1>1 DEF Handling
  <2>2. Send("Reply") \in Step
    BY DEF Send, Step, OutFrame
  <2>3. n \in Nat /\ steps \in [1..n -> Step]
    BY <1>0, <2>1, <2>2
  <2> QED
    BY <2>3
<1>2. CASE frame # "Data"
  <2>1. /\ Send("SelectRsp") \in Step /\ Send("DeselectRsp") \in Step
        /\ Send("LinktestRsp") \in Step /\ Close \in Step /\ Fail \in Step
        /\ Mark(TRUE) \in Step /\ Mark(FALSE) \in Step
        /\ Publish("SELECTED") \in Step /\ Publish("CONNECTED") \in Step
    BY DEF Send, Mark, Publish, Close, Fail, Step, OutFrame, States
  <2>2. steps = ControlSteps(frame)
    BY <1>2 DEF Handling
  <2>3. \A a, b, c \in Step : /\ <<>> \in Seq(Step) /\ <<a>> \in Seq(Step)
                              /\ <<a, b>> \in Seq(Step) /\ <<a, b, c>> \in Seq(Step)
    OBVIOUS
  <2> HIDE DEF Send
  <2> QED
    BY <2>1, <2>2, <2>3 DEF ControlSteps
<1> QED
  BY <1>1, <1>2

LEMMA HeadTail ==
    ASSUME NEW S, NEW q \in Seq(S), q # <<>>
    PROVE  Head(q) \in S /\ Tail(q) \in Seq(S) /\ Len(Tail(q)) = Len(q) - 1 /\ Len(q) \in Nat
  BY HeadTailProperties, LenProperties

\* A step of a handler carries an argument of its own kind.
LEMMA StepArgument ==
    ASSUME NEW step \in Step
    PROVE  /\ step.op = "send" => step.arg \in OutFrame
           /\ step.op = "mark" => step.arg \in BOOLEAN
           /\ step.op = "publish" => step.arg \in States
  BY DEF Step

-----------------------------------------------------------------------------
LEMMA TypeInit == Init => TypeOK
<1> SUFFICES ASSUME Init PROVE TypeOK
  OBVIOUS
<1> USE TransportAssumption DEF Init
<1>1. ProcTypeOK BY DEF ProcTypeOK
<1>2. SenderTypeOK BY DEF SenderTypeOK
<1>3. ManagerTypeOK BY DEF ManagerTypeOK, States
<1>4. SessionTypeOK
  <2>1. selected \in [Session -> BOOLEAN]
    OBVIOUS
  <2>2. wire \in [Session -> SUBSET Noted]
    OBVIOUS
  <2>3. hand \in [Session -> OutFrame \cup {"nothing"}]
    OBVIOUS
  <2> QED
    BY <2>1, <2>2, <2>3 DEF SessionTypeOK
<1>5. QueueTypeOK
  <2>1. \A S : <<>> \in Seq(S) /\ Len(<<>>) = 0
    BY EmptySeq
  <2>2. \A s \in Session : todo[s] = <<>> /\ queue[s] = <<>>
    OBVIOUS
  <2>3. todo \in [Session -> Seq(Step)] /\ queue \in [Session -> Seq(OutFrame)]
    BY <2>1
  <2>4. \A s \in Session : Len(queue[s]) = 0
    BY <2>1, <2>2
  <2>5. QueueCap \in Nat
    OBVIOUS
  <2> HIDE DEF Init
  <2> QED
    BY <2>3, <2>4, <2>5 DEF QueueTypeOK
<1> QED
  BY <1>1, <1>2, <1>3, <1>4, <1>5 DEF TypeOK

\* A step that leaves a group of variables alone keeps its part of TypeOK.
LEMMA Frame ==
    /\ ProcTypeOK /\ UNCHANGED procVars => ProcTypeOK'
    /\ SenderTypeOK /\ UNCHANGED senderVars => SenderTypeOK'
    /\ ManagerTypeOK /\ UNCHANGED managerVars => ManagerTypeOK'
    /\ SessionTypeOK /\ QueueTypeOK /\ UNCHANGED sessionVars
          => SessionTypeOK' /\ QueueTypeOK'
<1>1. ProcTypeOK /\ UNCHANGED procVars => ProcTypeOK'
  BY DEF ProcTypeOK, procVars
<1>2. SenderTypeOK /\ UNCHANGED senderVars => SenderTypeOK'
  BY DEF SenderTypeOK, senderVars
<1>3. ManagerTypeOK /\ UNCHANGED managerVars => ManagerTypeOK'
  BY DEF ManagerTypeOK, managerVars
<1>4. SessionTypeOK /\ UNCHANGED sessionVars => SessionTypeOK'
  BY DEF SessionTypeOK, sessionVars
<1>5. QueueTypeOK /\ UNCHANGED sessionVars => QueueTypeOK'
  BY DEF QueueTypeOK, sessionVars
<1> QED
  BY <1>1, <1>2, <1>3, <1>4, <1>5

\* What a reader, a timer or a writer of a session changes.
SessionStep(s) ==
    \/ ReadFrame(s) \/ ReadFails(s) \/ HandlerNext(s) \/ ExitNext(s)
    \/ TimerNext(s) \/ WriterNext(s) \/ Collect(s)

LEMMA NextCases ==
    Next <=> \/ StartNext \/ Cancel \/ StopNext \/ LoopNext
             \/ \E p \in Sender : SenderNext(p)
             \/ \E s \in Session : SessionStep(s)
  BY DEF Next, SessionStep

\* Which groups of variables the steps of each goroutine leave alone.
LEMMA Untouched ==
    /\ StartNext \/ Cancel \/ StopNext \/ LoopNext => UNCHANGED senderVars
    /\ \A p \in Sender : SenderNext(p) => UNCHANGED <<procVars, managerVars>>
    /\ \A s \in Session : SessionStep(s) => UNCHANGED <<procVars, senderVars>>
<1>1. StartNext \/ Cancel \/ StopNext \/ LoopNext => UNCHANGED senderVars
  BY DEF StartNext, StartBegins, Listen, ListenFails, Register, Launch, Cancel,
         StopNext, ShutdownBegins, Take, CloseListener, CloseTaken, ShutdownEnds,
         LoopNext, Accept, Dial, AcceptFails, RefuseSecond, Admit, DialFails,
         LoopStops, CheckDialed, RetryDial, Install, DropRefused, Announce,
         AnnounceDialed, SendSelect, SelectFails, SessionOver, Redial
<1>2. ASSUME NEW p \in Sender, SenderNext(p) PROVE UNCHANGED <<procVars, managerVars>>
  BY <1>2 DEF SenderNext, SendReadsCurrent, SendChecksSelected, SendQueues, SendFails
<1>3. ASSUME NEW s \in Session, SessionStep(s) PROVE UNCHANGED <<procVars, senderVars>>
  BY <1>3 DEF SessionStep, ReadFrame, ReadFails, HandlerNext, HandlerSends, HandlerFails,
         HandlerMarks, HandlerPublishes, HandlerCloses, ExitNext, ReaderCloses,
         ReaderClears, ReaderLeaves, ReaderAnnounces, TimerNext, TimerFires, TimerCloses,
         WriterNext, WriterTakes, WriterWrites, WriterFails, WriterStops, Collect
<1> QED
  BY <1>1, <1>2, <1>3

-----------------------------------------------------------------------------
LEMMA ProcTypeNext == ProcTypeOK /\ ManagerTypeOK /\ Next => ProcTypeOK'
<1> SUFFICES ASSUME ProcTypeOK, ManagerTypeOK, Next PROVE ProcTypeOK'
  OBVIOUS
<1>1. CASE StartNext
  BY <1>1 DEF StartNext, StartBegins, Listen, ListenFails, Register, Launch, ProcTypeOK
<1>2. CASE StopNext
  BY <1>2 DEF StopNext, ShutdownBegins, Take, CloseListener, CloseTaken, ShutdownEnds,
              ProcTypeOK, ManagerTypeOK
<1>3. ASSUME NEW s \in Session, Accept(s) \/ Dial(s) PROVE ProcTypeOK'
  BY <1>3 DEF Accept, Dial, ProcTypeOK
<1>4. CASE AcceptFails \/ RefuseSecond \/ Admit
  BY <1>4 DEF AcceptFails, RefuseSecond, Admit, ProcTypeOK
<1>5. CASE DialFails \/ LoopStops \/ CheckDialed \/ RetryDial
  BY <1>5 DEF DialFails, LoopStops, CheckDialed, RetryDial, ProcTypeOK
<1>6. CASE Install \/ DropRefused \/ Announce
  BY <1>6 DEF Install, DropRefused, Announce, ProcTypeOK
<1>7. CASE AnnounceDialed \/ SendSelect \/ SelectFails \/ SessionOver \/ Redial
  BY <1>7 DEF AnnounceDialed, SendSelect, SelectFails, SessionOver, Redial, ProcTypeOK
<1>8. CASE LoopNext
  BY <1>3, <1>4, <1>5, <1>6, <1>7, <1>8 DEF LoopNext
<1>9. CASE UNCHANGED procVars
  BY <1>9, Frame
<1>10. Cancel => UNCHANGED procVars
  BY DEF Cancel
<1> QED
  BY <1>1, <1>2, <1>8, <1>9, <1>10, NextCases, Untouched DEF procVars

LEMMA SenderTypeNext == SenderTypeOK /\ ManagerTypeOK /\ Next => SenderTypeOK'
<1> SUFFICES ASSUME SenderTypeOK, ManagerTypeOK, Next PROVE SenderTypeOK'
  OBVIOUS
<1>1. ASSUME NEW p \in Sender, SenderNext(p) PROVE SenderTypeOK'
  BY <1>1 DEF SenderNext, SendReadsCurrent, SendChecksSelected, SendQueues, SendFails,
              SendReturns, SenderTypeOK, ManagerTypeOK
<1> QED
  BY <1>1, Frame, NextCases, Untouched

LEMMA ManagerTypeNext == TypeOK /\ Next => ManagerTypeOK'
<1> SUFFICES ASSUME TypeOK, Next PROVE ManagerTypeOK'
  OBVIOUS
<1>0. ProcTypeOK /\ ManagerTypeOK /\ QueueTypeOK
  BY DEF TypeOK
<1>1. CASE StartNext
  BY <1>0, <1>1 DEF StartNext, StartBegins, Listen, ListenFails, Register, Launch,
                    ManagerTypeOK, States
<1>2. CASE Cancel \/ StopNext
  BY <1>0, <1>2 DEF Cancel, StopNext, ShutdownBegins, Take, CloseListener, CloseTaken,
                    ShutdownEnds, ManagerTypeOK, States, managerVars
<1>3. CASE LoopNext
  <2>1. CASE Install \/ SelectFails
    BY <1>0, <2>1 DEF Install, SelectFails, ManagerTypeOK, ProcTypeOK
  <2>2. CASE Announce \/ AnnounceDialed \/ Redial
    BY <1>0, <2>2 DEF Announce, AnnounceDialed, Redial, ManagerTypeOK, States
  <2>3. \/ Install \/ SelectFails \/ Announce \/ AnnounceDialed \/ Redial
        \/ UNCHANGED managerVars
    BY <1>3 DEF LoopNext, Accept, Dial, AcceptFails, RefuseSecond, Admit, DialFails,
                LoopStops, CheckDialed, RetryDial, DropRefused, SendSelect, SessionOver
  <2> QED
    BY <1>0, <2>1, <2>2, <2>3, Frame
<1>4. ASSUME NEW s \in Session, SessionStep(s) PROVE ManagerTypeOK'
  <2>1. CASE HandlerPublishes(s)
    <3>1. Head(todo[s]) \in Step /\ Head(todo[s]).op = "publish"
      BY <1>0, <2>1, HeadTail DEF HandlerPublishes, Doing, QueueTypeOK
    <3> QED
      BY <1>0, <2>1, <3>1, StepArgument DEF HandlerPublishes, ManagerTypeOK
  <2>2. CASE ReaderClears(s) \/ ReaderAnnounces(s)
    BY <1>0, <2>2 DEF ReaderClears, ReaderAnnounces, ManagerTypeOK, States
  <2>3. HandlerPublishes(s) \/ ReaderClears(s) \/ ReaderAnnounces(s) \/ UNCHANGED managerVars
    BY <1>4 DEF SessionStep, ReadFrame, ReadFails, HandlerNext, HandlerSends, HandlerFails,
         HandlerMarks, HandlerCloses, ExitNext, ReaderCloses,
         ReaderLeaves, TimerNext, TimerFires, TimerCloses,
         WriterNext, WriterTakes, WriterWrites, WriterFails, WriterStops, Collect
  <2> QED
    BY <1>0, <2>1, <2>2, <2>3, Frame
<1> QED
  BY <1>0, <1>1, <1>2, <1>3, <1>4, Frame, NextCases, Untouched

LEMMA SessionTypeNext == TypeOK /\ Next => SessionTypeOK'
<1> SUFFICES ASSUME TypeOK, Next PROVE SessionTypeOK'
  OBVIOUS
<1>0. ProcTypeOK /\ ManagerTypeOK /\ SessionTypeOK /\ QueueTypeOK
  BY DEF TypeOK
<1>1. StartNext \/ Cancel => UNCHANGED sessionVars
  BY DEF StartNext, StartBegins, Listen, ListenFails, Register, Launch, Cancel
<1>2. CASE StopNext
  BY <1>0, <1>2 DEF StopNext, ShutdownBegins, Take, CloseListener, CloseTaken,
                    ShutdownEnds, CloseSession, SessionTypeOK, sessionVars
<1>3. CASE LoopNext
  <2>1. ASSUME NEW s \in Session, Accept(s) \/ Dial(s) PROVE SessionTypeOK'
    BY <1>0, <2>1 DEF Accept, Dial, SessionTypeOK
  <2>2. CASE RefuseSecond \/ DropRefused
    BY <1>0, <2>2 DEF RefuseSecond, DropRefused, CloseSession, SessionTypeOK
  <2>3. CASE Admit \/ CheckDialed
    BY <1>0, <2>3 DEF Admit, CheckDialed, CloseSession, SessionTypeOK
  <2>4. CASE Announce \/ SendSelect
    BY <1>0, <2>4 DEF Announce, SendSelect, SessionTypeOK
  <2>5. \/ \E s \in Session : Accept(s) \/ Dial(s)
        \/ RefuseSecond \/ DropRefused \/ Admit \/ CheckDialed \/ Announce \/ SendSelect
        \/ UNCHANGED sessionVars
    BY <1>3 DEF LoopNext, AcceptFails, DialFails, LoopStops, RetryDial, Install,
                AnnounceDialed, SelectFails, SessionOver, Redial
  <2> QED
    BY <1>0, <2>1, <2>2, <2>3, <2>4, <2>5, Frame
<1>4. ASSUME NEW p \in Sender, SenderNext(p) PROVE SessionTypeOK'
  BY <1>0, <1>4 DEF SenderNext, SendReadsCurrent, SendChecksSelected, SendQueues,
                    SendFails, Enqueue, SessionTypeOK, sessionVars
<1>5. ASSUME NEW s \in Session, SessionStep(s) PROVE SessionTypeOK'
  <2>1. CASE ReadFrame(s)
    <3>1. wire' = wire \/ wire' = [wire EXCEPT ![s] = @ \cup ({"SelectRsp"} \cap Noted)]
      BY <2>1 DEF ReadFrame
    <3> QED
      BY <1>0, <2>1, <3>1 DEF ReadFrame, SessionTypeOK
  <2>2. CASE HandlerMarks(s)
    <3>1. Head(todo[s]) \in Step /\ Head(todo[s]).op = "mark"
      BY <1>0, <2>2, HeadTail DEF HandlerMarks, Doing, QueueTypeOK
    <3>2. Head(todo[s]).arg \in BOOLEAN
      BY <3>1, StepArgument
    <3> QED
      BY <1>0, <2>2, <3>2 DEF HandlerMarks, SessionTypeOK
  <2>3. CASE ReadFails(s) \/ HandlerSends(s) \/ HandlerFails(s) \/ HandlerPublishes(s)
                \/ HandlerCloses(s)
    BY <1>0, <2>3 DEF ReadFails, HandlerSends, HandlerFails, HandlerPublishes,
                      HandlerCloses, CloseSession, SessionTypeOK
  <2>4. CASE ExitNext(s)
    BY <1>0, <2>4 DEF ExitNext, ReaderCloses, ReaderClears, ReaderLeaves,
                      ReaderAnnounces, CloseSession, SessionTypeOK
  <2>5. CASE TimerNext(s)
    BY <1>0, <2>5 DEF TimerNext, TimerFires, TimerCloses, CloseSession, SessionTypeOK
  <2>6. CASE WriterTakes(s)
    <3>1. Head(queue[s]) \in OutFrame
      BY <1>0, <2>6, HeadTail DEF WriterTakes, QueueTypeOK
    <3> QED
      BY <1>0, <2>6, <3>1 DEF WriterTakes, SessionTypeOK
  <2>7. CASE WriterWrites(s) \/ WriterFails(s) \/ WriterStops(s)
    BY <1>0, <2>7 DEF WriterWrites, WriterFails, WriterStops, CloseSession, SessionTypeOK
  <2>8. CASE Collect(s)
    BY <1>0, <2>8 DEF Collect, SessionTypeOK
  <2> QED
    BY <1>5, <2>1, <2>2, <2>3, <2>4, <2>5, <2>6, <2>7, <2>8
       DEF SessionStep, HandlerNext, WriterNext
<1> QED
  BY <1>0, <1>1, <1>2, <1>3, <1>4, <1>5, Frame, NextCases

\* The queue of a session is bounded because every send waits for room.
LEMMA QueueTypeNext == TypeOK /\ Next => QueueTypeOK'
<1> SUFFICES ASSUME TypeOK, Next PROVE QueueTypeOK'
  OBVIOUS
<1>0. QueueTypeOK /\ ProcTypeOK /\ SenderTypeOK /\ QueueCap \in Nat \ {0}
  BY TransportAssumption DEF TypeOK
<1>1. ASSUME NEW t, NEW frame \in OutFrame, CanEnqueue(t), Enqueue(t, frame)
      PROVE  /\ queue' \in [Session -> Seq(OutFrame)]
             /\ \A s \in Session : Len(queue'[s]) <= QueueCap
  <2>1. CASE t \notin Session
    BY <1>0, <1>1, <2>1 DEF QueueTypeOK, Enqueue
  <2>2. CASE t \in Session
    <3>1. /\ Append(queue[t], frame) \in Seq(OutFrame)
          /\ Len(Append(queue[t], frame)) = Len(queue[t]) + 1 /\ Len(queue[t]) \in Nat
      BY <1>0, <2>2, AppendProperties, LenProperties DEF QueueTypeOK
    <3> QED
      BY <1>0, <1>1, <2>2, <3>1 DEF QueueTypeOK, CanEnqueue, Enqueue
  <2> QED
    BY <2>1, <2>2
<1>2. ASSUME NEW s \in Session, todo[s] # <<>>, Advance(s)
      PROVE  todo' \in [Session -> Seq(Step)]
  <2>1. Tail(todo[s]) \in Seq(Step)
    BY <1>0, <1>2, HeadTail DEF QueueTypeOK
  <2> QED
    BY <1>0, <1>2, <2>1 DEF QueueTypeOK, Advance
<1>3. CASE UNCHANGED <<todo, queue>>
  BY <1>0, <1>3 DEF QueueTypeOK
<1>4. CASE SendSelect
  BY <1>0, <1>1, <1>4 DEF SendSelect, OutFrame, QueueTypeOK
<1>5. ASSUME NEW p \in Sender, SendQueues(p) PROVE QueueTypeOK'
  BY <1>0, <1>1, <1>5 DEF SendQueues, OutFrame, QueueTypeOK
<1>6. ASSUME NEW s \in Session, SessionStep(s) PROVE QueueTypeOK'
  <2>1. CASE ReadFrame(s)
    <3>1. PICK steps \in Seq(Step) : todo' = [todo EXCEPT ![s] = steps]
      BY <2>1, HandlingType DEF ReadFrame
    <3> QED
      BY <1>0, <2>1, <3>1 DEF ReadFrame, QueueTypeOK
  <2>2. CASE HandlerSends(s)
    <3>1. Head(todo[s]) \in Step /\ Head(todo[s]).op = "send"
      BY <1>0, <2>2, HeadTail DEF HandlerSends, Doing, QueueTypeOK
    <3>2. Head(todo[s]).arg \in OutFrame
      BY <3>1, StepArgument
    <3> QED
      BY <1>1, <1>2, <2>2, <3>2 DEF HandlerSends, Doing, QueueTypeOK
  <2>3. CASE HandlerFails(s)
    BY <1>0, <2>3, EmptySeq DEF HandlerFails, QueueTypeOK
  <2>4. CASE HandlerMarks(s) \/ HandlerPublishes(s) \/ HandlerCloses(s)
    BY <1>0, <1>2, <2>4 DEF HandlerMarks, HandlerPublishes, HandlerCloses, Doing, QueueTypeOK
  <2>5. CASE WriterTakes(s)
    <3>1. Tail(queue[s]) \in Seq(OutFrame) /\ Len(Tail(queue[s])) <= QueueCap
      BY <1>0, <2>5, HeadTail DEF WriterTakes, QueueTypeOK
    <3> QED
      BY <1>0, <2>5, <3>1 DEF WriterTakes, QueueTypeOK
  <2>6. CASE Collect(s)
    <3>1. <<>> \in Seq(OutFrame) /\ Len(<<>>) = 0
      BY EmptySeq
    <3> QED
      BY <1>0, <2>6, <3>1 DEF Collect, QueueTypeOK
  <2>7. \/ ReadFrame(s) \/ HandlerNext(s) \/ WriterTakes(s) \/ Collect(s)
        \/ UNCHANGED <<todo, queue>>
    BY <1>6 DEF SessionStep, ReadFails, ExitNext, ReaderCloses, ReaderClears, ReaderLeaves,
                ReaderAnnounces, TimerNext, TimerFires, TimerCloses, WriterNext,
                WriterWrites, WriterFails, WriterStops
  <2> QED
    BY <1>3, <2>1, <2>2, <2>3, <2>4, <2>5, <2>6, <2>7 DEF HandlerNext
<1>7. ASSUME NEW p \in Sender, SenderNext(p) PROVE QueueTypeOK'
  <2>1. SendQueues(p) \/ UNCHANGED <<todo, queue>>
    BY <1>7 DEF SenderNext, SendReadsCurrent, SendChecksSelected, SendFails, sessionVars
  <2> QED
    BY <1>3, <1>5, <1>7, <2>1
<1>8. StartNext \/ Cancel \/ StopNext => UNCHANGED <<todo, queue>>
  BY DEF StartNext, StartBegins, Listen, ListenFails, Register, Launch, Cancel, StopNext,
         ShutdownBegins, Take, CloseListener, CloseTaken, ShutdownEnds, sessionVars
<1>9. LoopNext => SendSelect \/ UNCHANGED <<todo, queue>>
  BY DEF LoopNext, Accept, Dial, AcceptFails, RefuseSecond, Admit, DialFails, LoopStops,
         CheckDialed, RetryDial, Install, DropRefused, Announce, AnnounceDialed,
         SelectFails, SessionOver, Redial, sessionVars
<1> QED
  BY <1>3, <1>4, <1>6, <1>7, <1>8, <1>9, NextCases

\* Every variable keeps its type and no write queue exceeds its capacity,
\* for every number of sessions and senders and every queue capacity.
THEOREM TypeCorrect == Spec => []TypeOK
<1>1. TypeOK /\ [Next]_vars => TypeOK'
  <2>1. TypeOK /\ Next => TypeOK'
    BY ProcTypeNext, SenderTypeNext, ManagerTypeNext, SessionTypeNext, QueueTypeNext
       DEF TypeOK
  <2>2. TypeOK /\ UNCHANGED vars => TypeOK'
    BY Frame DEF TypeOK, vars
  <2> QED
    BY <2>1, <2>2
<1> QED
  BY TypeInit, <1>1, PTL DEF Spec

-----------------------------------------------------------------------------
(* One live session                                                        *)

LEMMA OwnershipInit == Init => Ownership
  BY DEF Init, Ownership, Attached, InHand

\* Closing a connection, whoever does it, keeps the ownership of the rest.
LEMMA CloseKeepsOwnership ==
    ASSUME TypeOK, Ownership, NEW s \in Session, CloseSession(s), UNCHANGED <<procVars, managerVars, reader>>
    PROVE  Ownership'
  BY DEF TypeOK, SessionTypeOK, Ownership, Attached, InHand, CloseSession, procVars, managerVars

LEMMA OwnershipNext == TypeOK /\ Ownership /\ Next => Ownership'
<1> SUFFICES ASSUME TypeOK, Ownership, Next PROVE Ownership'
  OBVIOUS
<1>0. ProcTypeOK /\ ManagerTypeOK /\ SessionTypeOK /\ None \notin Session
  BY TransportAssumption DEF TypeOK
<1>1. CASE StartNext
  BY <1>1 DEF StartNext, StartBegins, Listen, ListenFails, Register, Launch,
              Ownership, Attached, InHand, sessionVars
<1>2. CASE Cancel \/ ShutdownBegins \/ CloseListener \/ ShutdownEnds
  BY <1>2 DEF Cancel, ShutdownBegins, CloseListener, ShutdownEnds, Ownership, Attached,
              InHand, procVars, sessionVars
<1>3. CASE Take
  BY <1>0, <1>3 DEF Take, Ownership, Attached, InHand, sessionVars
<1>4. CASE CloseTaken
  BY <1>0, <1>4 DEF CloseTaken, CloseSession, ProcTypeOK, SessionTypeOK,
                    Ownership, Attached, InHand, managerVars
<1>5. CASE LoopNext
  <2>1. ASSUME NEW s \in Session, Accept(s) \/ Dial(s) PROVE Ownership'
    BY <1>0, <2>1 DEF Accept, Dial, SessionTypeOK, Ownership, Attached, InHand, managerVars
  <2>2. CASE AcceptFails \/ DialFails \/ LoopStops \/ RetryDial \/ SessionOver \/ Redial
                \/ AnnounceDialed
    BY <2>2 DEF AcceptFails, DialFails, LoopStops, RetryDial, SessionOver, Redial,
                AnnounceDialed, Ownership, Attached, InHand, managerVars, sessionVars
  <2>3. CASE RefuseSecond \/ DropRefused
    BY <1>0, <2>3 DEF RefuseSecond, DropRefused, CloseSession, SessionTypeOK,
                      Ownership, Attached, InHand, managerVars
  <2>4. CASE Admit \/ CheckDialed
    BY <1>0, <2>4 DEF Admit, CheckDialed, CloseSession, SessionTypeOK,
                      Ownership, Attached, InHand, managerVars
  <2>5. CASE Install
    BY <1>0, <2>5 DEF Install, CanInstall, SessionTypeOK, Ownership, Attached, InHand, sessionVars
  <2>6. CASE Announce \/ SendSelect
    BY <1>0, <2>6 DEF Announce, SendSelect, SessionTypeOK, Ownership, Attached, InHand, managerVars
  <2>7. CASE SelectFails
    BY <1>0, <2>7 DEF SelectFails, CanFail, SessionTypeOK, Ownership, Attached, InHand, sessionVars
  <2> QED
    BY <1>5, <2>1, <2>2, <2>3, <2>4, <2>5, <2>6, <2>7 DEF LoopNext
<1>6. ASSUME NEW p \in Sender, SenderNext(p) PROVE Ownership'
  BY <1>6 DEF SenderNext, SendReadsCurrent, SendChecksSelected, SendQueues, SendFails,
              Ownership, Attached, InHand, procVars, managerVars, sessionVars
<1>7. ASSUME NEW s \in Session, SessionStep(s) PROVE Ownership'
  <2>1. CASE ReadFrame(s) \/ HandlerSends(s) \/ HandlerMarks(s) \/ HandlerPublishes(s)
                \/ TimerFires(s) \/ WriterTakes(s) \/ WriterWrites(s) \/ WriterStops(s)
    <3>1. UNCHANGED <<procVars, conn, reader, ctxDone, current>>
      BY <2>1 DEF ReadFrame, HandlerSends, HandlerMarks, HandlerPublishes, TimerFires,
                  WriterTakes, WriterWrites, WriterStops, managerVars
    <3> QED
      BY <3>1 DEF Ownership, Attached, InHand, procVars
  <2>2. CASE ReadFails(s) \/ HandlerFails(s)
    BY <1>0, <2>2 DEF ReadFails, HandlerFails, Doing, SessionTypeOK,
                      Ownership, Attached, InHand, procVars, managerVars
  <2>3. CASE HandlerCloses(s) \/ TimerCloses(s) \/ WriterFails(s)
    BY <2>3, CloseKeepsOwnership DEF HandlerCloses, TimerCloses, WriterFails
  <2>4. CASE ReaderCloses(s)
    BY <1>0, <2>4 DEF ReaderCloses, CloseSession, SessionTypeOK,
                      Ownership, Attached, InHand, procVars, managerVars
  <2>5. CASE ReaderClears(s)
    BY <1>0, <2>5 DEF ReaderClears, SessionTypeOK, Ownership, Attached, InHand, procVars
  <2>6. CASE ReaderLeaves(s) \/ ReaderAnnounces(s)
    BY <1>0, <2>6 DEF ReaderLeaves, ReaderAnnounces, SessionTypeOK,
                      Ownership, Attached, InHand, procVars, managerVars
  <2>7. CASE Collect(s)
    BY <1>0, <2>7 DEF Collect, Collectable, SessionTypeOK,
                      Ownership, Attached, InHand, procVars, managerVars
  <2> QED
    BY <1>7, <2>1, <2>2, <2>3, <2>4, <2>5, <2>6, <2>7
       DEF SessionStep, HandlerNext, ExitNext, TimerNext, WriterNext
<1> QED
  BY <1>1, <1>2, <1>3, <1>4, <1>5, <1>6, <1>7, NextCases DEF StopNext

\* Whatever is open and served is the current session or the one shutdown
\* took, and nothing becomes current after the take.
THEOREM OwnershipInvariant == Spec => []Ownership
<1>1. TypeOK /\ Ownership /\ [Next]_vars => Ownership'
  <2>1. Ownership /\ UNCHANGED vars => Ownership'
    BY DEF Ownership, Attached, InHand, vars, procVars, managerVars, sessionVars
  <2> QED
    BY <2>1, OwnershipNext
<1> QED
  BY OwnershipInit, <1>1, TypeCorrect, PTL DEF Spec

\* HSMS-SS: at most one open connection is served, however accepts, exits,
\* timers and the shutdown interleave, for every number of connections.
THEOREM SingleSession == Spec => []OneLiveSession
<1>1. Ownership => OneLiveSession
  <2> SUFFICES ASSUME Ownership, NEW s \in Session, NEW t \in Session, Served(s), Served(t)
               PROVE  s = t
    BY DEF OneLiveSession
  <2>1. s \in {current, took} /\ t \in {current, took}
    BY DEF Ownership, Served, Attached
  <2>2. current = None \/ took = None
    BY DEF Ownership
  <2> QED
    BY <2>1, <2>2, TransportAssumption
<1> QED
  BY OwnershipInvariant, <1>1, PTL

-----------------------------------------------------------------------------
(* The transport implements the single-session link                        *)

LEMMA LinkInvNext == TypeOK /\ Ownership /\ LinkInv /\ Next => LinkInv'
<1> SUFFICES ASSUME TypeOK, Ownership, LinkInv, Next PROVE LinkInv'
  OBVIOUS
<1>0. ProcTypeOK /\ ManagerTypeOK /\ SessionTypeOK /\ None \notin Session
  BY TransportAssumption DEF TypeOK
<1>1. CASE UNCHANGED <<current, conn, reader, selected>>
  BY <1>1 DEF LinkInv
<1>2. CASE Take \/ CloseTaken
  BY <1>0, <1>2 DEF Take, CloseTaken, CloseSession, ProcTypeOK, ManagerTypeOK, SessionTypeOK,
                    LinkInv, managerVars, sessionVars
<1>3. ASSUME NEW s \in Session, Accept(s) \/ Dial(s) PROVE LinkInv'
  BY <1>0, <1>3 DEF Accept, Dial, ManagerTypeOK, SessionTypeOK, LinkInv, managerVars
<1>4. CASE RefuseSecond \/ DropRefused \/ CheckDialed
  BY <1>0, <1>4 DEF RefuseSecond, DropRefused, CheckDialed, CloseSession, ManagerTypeOK,
                    SessionTypeOK, LinkInv, managerVars
<1>5. CASE Install \/ SelectFails
  BY <1>0, <1>5 DEF Install, SelectFails, Ownership, InHand, LinkInv, sessionVars
<1>6. CASE Announce \/ SendSelect
  BY <1>0, <1>6 DEF Announce, SendSelect, SessionTypeOK, LinkInv, managerVars
<1>7. ASSUME NEW s \in Session, SessionStep(s) PROVE LinkInv'
  <2>1. CASE HandlerMarks(s)
    BY <1>0, <2>1 DEF HandlerMarks, Doing, SessionTypeOK, LinkInv, managerVars
  <2>2. CASE HandlerCloses(s) \/ TimerCloses(s) \/ WriterFails(s)
    BY <1>0, <2>2 DEF HandlerCloses, TimerCloses, WriterFails, CloseSession,
                      ManagerTypeOK, SessionTypeOK, LinkInv, managerVars
  <2>3. CASE ReadFails(s) \/ HandlerFails(s) \/ ReaderCloses(s) \/ ReaderLeaves(s)
    BY <1>0, <2>3 DEF ReadFails, HandlerFails, ReaderCloses, ReaderLeaves, CloseSession,
                      ManagerTypeOK, SessionTypeOK, LinkInv, managerVars
  <2>4. CASE ReaderClears(s) \/ ReaderAnnounces(s)
    BY <1>0, <2>4 DEF ReaderClears, ReaderAnnounces, SessionTypeOK, LinkInv
  <2>5. CASE Collect(s)
    BY <1>0, <2>5 DEF Collect, Collectable, ManagerTypeOK, SessionTypeOK, LinkInv, managerVars
  <2>6. CASE ReadFrame(s) \/ HandlerSends(s) \/ HandlerPublishes(s) \/ TimerFires(s)
                \/ WriterTakes(s) \/ WriterWrites(s) \/ WriterStops(s)
    <3>1. UNCHANGED <<current, conn, reader, selected>>
      BY <2>6 DEF ReadFrame, HandlerSends, HandlerPublishes, TimerFires, WriterTakes,
                  WriterWrites, WriterStops, managerVars
    <3> QED
      BY <3>1, <1>1
  <2> QED
    BY <1>7, <2>1, <2>2, <2>3, <2>4, <2>5, <2>6
       DEF SessionStep, HandlerNext, ExitNext, TimerNext, WriterNext
<1>8. ASSUME NEW p \in Sender, SenderNext(p) PROVE UNCHANGED <<current, conn, reader, selected>>
  BY <1>8 DEF SenderNext, SendReadsCurrent, SendChecksSelected, SendQueues, SendFails,
              managerVars, sessionVars
<1>9. \/ StartNext \/ Cancel \/ ShutdownBegins \/ CloseListener \/ ShutdownEnds
      \/ AcceptFails \/ Admit \/ DialFails \/ LoopStops \/ RetryDial
      \/ AnnounceDialed \/ SessionOver \/ Redial
      => UNCHANGED <<current, conn, reader, selected>>
  BY DEF StartNext, StartBegins, Listen, ListenFails, Register, Launch, Cancel,
         ShutdownBegins, CloseListener, ShutdownEnds, AcceptFails, Admit, DialFails,
         LoopStops, RetryDial, AnnounceDialed, SessionOver, Redial,
         managerVars, sessionVars
<1> QED
  BY <1>1, <1>2, <1>3, <1>4, <1>5, <1>6, <1>7, <1>8, <1>9, NextCases DEF StopNext, LoopNext

LEMMA LinkInvariant == Spec => []LinkInv
<1>1. Init => LinkInv
  BY DEF Init, LinkInv
<1>2. LinkInv /\ UNCHANGED vars => LinkInv'
  BY DEF LinkInv, vars, managerVars, sessionVars
<1> QED
  BY <1>1, <1>2, LinkInvNext, TypeCorrect, OwnershipInvariant, PTL DEF Spec

LEMMA LinkInit == Init => SS!Init
  BY DEF Init, SS!Init, Link

\* Closing a connection drops the link, or leaves it alone.
LEMMA CloseDrops ==
    ASSUME TypeOK, LinkInv, NEW s \in Session, CloseSession(s), UNCHANGED <<stop, current, selected>>
    PROVE  SS!Drop \/ UNCHANGED SS!vars
  BY TransportAssumption DEF TypeOK, ManagerTypeOK, SessionTypeOK, CloseSession, Link,
     LinkInv, SS!Drop, SS!vars

LEMMA StepSimulation ==
    TypeOK /\ Ownership /\ LinkInv /\ Next => SS!Next \/ UNCHANGED SS!vars
<1> SUFFICES ASSUME TypeOK, Ownership, LinkInv, Next PROVE SS!Next \/ UNCHANGED SS!vars
  OBVIOUS
<1>0. ProcTypeOK /\ ManagerTypeOK /\ SessionTypeOK /\ None \notin Session
  BY TransportAssumption DEF TypeOK
<1>1. CASE UNCHANGED <<stop, current, conn, selected>>
  BY <1>1 DEF Link, SS!vars
<1>2. CASE ShutdownBegins \/ CloseListener \/ ShutdownEnds
  <2>1. UNCHANGED Link
    BY <1>2 DEF ShutdownBegins, CloseListener, ShutdownEnds, Link, sessionVars
  <2>2. stop \in {"idle", "begun"} <=> stop' \in {"idle", "begun"}
    BY <1>2 DEF ShutdownBegins, CloseListener, ShutdownEnds
  <2> HIDE DEF Link
  <2> QED
    BY <2>1, <2>2 DEF SS!vars
<1>3. CASE Take
  BY <1>3 DEF Take, Link, SS!Next, SS!Retire, sessionVars
<1>4. CASE CloseTaken
  <2>1. current = None /\ current' = None
    BY <1>4 DEF CloseTaken, Ownership, managerVars
  <2> QED
    BY <1>4, <2>1 DEF CloseTaken, Link, SS!vars
<1>5. ASSUME NEW s \in Session, Accept(s) \/ Dial(s) PROVE UNCHANGED SS!vars
  <2>1. current # s
    BY <1>0, <1>5 DEF Accept, Dial, LinkInv
  <2>2. /\ \A t \in Session \ {s} : conn'[t] = conn[t]
        /\ UNCHANGED <<stop, current, selected>>
    BY <1>0, <1>5 DEF Accept, Dial, SessionTypeOK, managerVars
  <2> QED
    BY <1>0, <2>1, <2>2 DEF ManagerTypeOK, Link, SS!vars
<1>6. CASE RefuseSecond \/ DropRefused \/ CheckDialed
  <2>1. cand \in Session /\ UNCHANGED <<stop, current, selected>>
    BY <1>6 DEF RefuseSecond, DropRefused, CheckDialed, Ownership, InHand, managerVars
  <2>2. CloseSession(cand) \/ UNCHANGED conn
    BY <1>6 DEF RefuseSecond, DropRefused, CheckDialed
  <2> QED
    BY <2>1, <2>2, <1>1, CloseDrops DEF SS!Next
<1>7. CASE Install
  <2>1. CASE CanInstall
    <3>1. /\ cand \in Session /\ ~selected[cand] /\ current = None /\ current' = cand
          /\ stop = "idle" /\ UNCHANGED <<stop, conn, selected>>
      BY <1>7, <2>1 DEF Install, CanInstall, Ownership, InHand, LinkInv, sessionVars
    <3> QED
      BY <1>0, <3>1 DEF Link, SS!Next, SS!Connect, SS!vars
  <2>2. CASE ~CanInstall
    BY <1>1, <1>7, <2>2 DEF Install, sessionVars
  <2> QED
    BY <2>1, <2>2
<1>8. CASE SelectFails
  <2>1. CASE current = cand
    <3>1. Link = "NOT CONNECTED"
      BY <1>8, <2>1 DEF SelectFails, CanFail, Link
    <3>2. Link' = "NOT CONNECTED" /\ UNCHANGED stop
      BY <1>8, <2>1 DEF SelectFails, Link
    <3> QED
      BY <3>1, <3>2 DEF SS!vars
  <2>2. CASE current # cand
    BY <1>1, <1>8, <2>2 DEF SelectFails, sessionVars
  <2> QED
    BY <2>1, <2>2
<1>9. ASSUME NEW s \in Session, SessionStep(s) PROVE SS!Next \/ UNCHANGED SS!vars
  <2>1. CASE HandlerMarks(s)
    <3>1. /\ \A t \in Session \ {s} : selected'[t] = selected[t]
          /\ UNCHANGED <<stop, current, conn>>
      BY <1>0, <2>1 DEF HandlerMarks, SessionTypeOK, procVars, managerVars
    <3> QED
      BY <1>0, <3>1 DEF ManagerTypeOK, Link, SS!Next, SS!Select, SS!Deselect, SS!vars
  <2>2. CASE HandlerCloses(s) \/ TimerCloses(s) \/ WriterFails(s) \/ ReaderCloses(s)
    <3>1. CloseSession(s) /\ UNCHANGED <<stop, current, selected>>
      BY <2>2 DEF HandlerCloses, TimerCloses, WriterFails, ReaderCloses, procVars, managerVars
    <3> QED
      BY <3>1, CloseDrops DEF SS!Next
  <2>3. CASE ReaderClears(s)
    BY <1>0, <2>3 DEF ReaderClears, Ownership, Link, SS!vars, procVars
  <2>4. CASE Collect(s)
    <3>1. current # s
      BY <2>4 DEF Collect, Collectable
    <3> QED
      BY <1>0, <2>4, <3>1 DEF Collect, ManagerTypeOK, SessionTypeOK, Link, SS!vars,
                              procVars, managerVars
  <2>5. CASE ReadFrame(s) \/ ReadFails(s) \/ HandlerSends(s) \/ HandlerFails(s)
                \/ HandlerPublishes(s) \/ ReaderLeaves(s) \/ ReaderAnnounces(s)
                \/ TimerFires(s) \/ WriterTakes(s) \/ WriterWrites(s) \/ WriterStops(s)
    <3>1. UNCHANGED <<stop, current, conn, selected>>
      BY <2>5 DEF ReadFrame, ReadFails, HandlerSends, HandlerFails, HandlerPublishes,
                  ReaderLeaves, ReaderAnnounces, TimerFires, WriterTakes, WriterWrites,
                  WriterStops, procVars, managerVars
    <3> QED
      BY <3>1, <1>1
  <2> QED
    BY <1>9, <2>1, <2>2, <2>3, <2>4, <2>5
       DEF SessionStep, HandlerNext, ExitNext, TimerNext, WriterNext
<1>10. ASSUME NEW p \in Sender, SenderNext(p) PROVE UNCHANGED <<stop, current, conn, selected>>
  BY <1>10 DEF SenderNext, SendReadsCurrent, SendChecksSelected, SendQueues, SendFails,
               procVars, managerVars, sessionVars
<1>11. \/ StartNext \/ Cancel \/ AcceptFails \/ Admit \/ DialFails \/ LoopStops \/ RetryDial
       \/ Announce \/ AnnounceDialed \/ SendSelect \/ SessionOver \/ Redial
       => UNCHANGED <<stop, current, conn, selected>>
  BY DEF StartNext, StartBegins, Listen, ListenFails, Register, Launch, Cancel,
         AcceptFails, Admit, DialFails, LoopStops, RetryDial, Announce, AnnounceDialed,
         SendSelect, SessionOver, Redial, procVars, managerVars, sessionVars
<1> QED
  BY <1>1, <1>2, <1>3, <1>4, <1>5, <1>6, <1>7, <1>8, <1>9, <1>10, <1>11, NextCases
     DEF StopNext, LoopNext

\* The goroutines of session.go together offer one link that is selected
\* only from connected and that never comes back once shutdown has begun
\* to close: every step of the transport is a step of HsmsSS or a stutter.
THEOREM TransportImplementsLink == Spec => ImplementsHsmsSS
<1>1. UNCHANGED vars => UNCHANGED SS!vars
  BY DEF vars, procVars, managerVars, sessionVars, SS!vars, Link
<1>2. TypeOK /\ Ownership /\ LinkInv /\ [Next]_vars => [SS!Next]_SS!vars
  BY <1>1, StepSimulation
<1> QED
  BY LinkInit, <1>2, TypeCorrect, OwnershipInvariant, LinkInvariant, PTL
     DEF Spec, SS!Spec, ImplementsHsmsSS
-----------------------------------------------------------------------------
(* What one step does to the sessions it is not about                      *)

\* Session u is as it was.
Same(u) ==
    /\ conn'[u] = conn[u] /\ selected'[u] = selected[u] /\ timer'[u] = timer[u]
    /\ reader'[u] = reader[u] /\ todo'[u] = todo[u]
    /\ writer'[u] = writer[u] /\ hand'[u] = hand[u]
    /\ queue'[u] = queue[u] /\ wire'[u] = wire[u]

\* Only the session of the step, the session the loop has in hand, the one
\* shutdown took or the target of a sender is touched.
LEMMA Apart ==
    ASSUME TypeOK, NEW u \in Session
    PROVE  /\ StartNext \/ Cancel => Same(u)
           /\ StopNext => Same(u) \/ (CloseTaken /\ took = u)
           /\ LoopNext => \/ Same(u)
                          \/ Accept(u) \/ Dial(u)
                          \/ cand = u /\ \/ RefuseSecond \/ Admit \/ CheckDialed
                                         \/ DropRefused \/ Announce \/ SendSelect
           /\ \A p \in Sender : SenderNext(p) => Same(u) \/ (SendQueues(p) /\ target[p] = u)
           /\ \A s \in Session \ {u} : SessionStep(s) => Same(u)
<1>0. SessionTypeOK /\ QueueTypeOK
  BY DEF TypeOK
<1>1. UNCHANGED sessionVars => Same(u)
  BY DEF sessionVars, Same
<1>2. StartNext \/ Cancel => UNCHANGED sessionVars
  BY DEF StartNext, StartBegins, Listen, ListenFails, Register, Launch, Cancel
<1>3. StopNext => UNCHANGED sessionVars \/ CloseTaken
  BY DEF StopNext, ShutdownBegins, Take, CloseListener, ShutdownEnds
<1>4. CloseTaken /\ took # u => Same(u)
  BY <1>0 DEF CloseTaken, CloseSession, Same, SessionTypeOK
<1>5. ASSUME LoopNext
      PROVE  \/ Same(u)
             \/ Accept(u) \/ Dial(u)
             \/ cand = u /\ \/ RefuseSecond \/ Admit \/ CheckDialed
                            \/ DropRefused \/ Announce \/ SendSelect
  <2>1. \/ \E s \in Session : Accept(s) \/ Dial(s)
        \/ RefuseSecond \/ DropRefused \/ Admit \/ CheckDialed \/ Announce \/ SendSelect
        \/ UNCHANGED sessionVars
    BY <1>5 DEF LoopNext, AcceptFails, DialFails, LoopStops, RetryDial, Install,
                AnnounceDialed, SelectFails, SessionOver, Redial
  <2>2. ASSUME NEW s \in Session, Accept(s) \/ Dial(s), s # u PROVE Same(u)
    BY <1>0, <2>2 DEF Accept, Dial, Same, SessionTypeOK
  <2>3. ASSUME cand # u, RefuseSecond \/ DropRefused \/ CheckDialed PROVE Same(u)
    BY <1>0, <2>3 DEF RefuseSecond, DropRefused, CheckDialed, CloseSession, Same, SessionTypeOK
  <2>4. ASSUME cand # u, Admit \/ Announce PROVE Same(u)
    BY <1>0, <2>4 DEF Admit, Announce, Same, SessionTypeOK
  <2>5. ASSUME cand # u, SendSelect PROVE Same(u)
    BY <1>0, <2>5 DEF SendSelect, Enqueue, Same, SessionTypeOK, QueueTypeOK
  <2> QED
    BY <1>1, <2>1, <2>2, <2>3, <2>4, <2>5
<1>6. ASSUME NEW p \in Sender, SenderNext(p)
      PROVE  Same(u) \/ (SendQueues(p) /\ target[p] = u)
  <2>1. SendQueues(p) \/ UNCHANGED sessionVars
    BY <1>6 DEF SenderNext, SendReadsCurrent, SendChecksSelected, SendFails
  <2>2. SendQueues(p) /\ target[p] # u => Same(u)
    BY <1>0 DEF SendQueues, Enqueue, Same, QueueTypeOK
  <2> QED
    BY <1>1, <2>1, <2>2
<1>7. ASSUME NEW s \in Session \ {u}, SessionStep(s) PROVE Same(u)
  <2> USE <1>0
  <2>1. CASE ReadFrame(s)
    <3>1. \/ wire' = wire
          \/ wire' = [wire EXCEPT ![s] = @ \cup ({"SelectRsp"} \cap Noted)]
      BY <2>1 DEF ReadFrame
    <3>2. PICK steps : todo' = [todo EXCEPT ![s] = steps]
      BY <2>1 DEF ReadFrame
    <3> QED
      BY <2>1, <3>1, <3>2 DEF ReadFrame, Same, SessionTypeOK, QueueTypeOK
  <2>2. CASE ReadFails(s) \/ HandlerFails(s)
    BY <2>2 DEF ReadFails, HandlerFails, Same, SessionTypeOK, QueueTypeOK
  <2>3. CASE HandlerSends(s) \/ HandlerMarks(s) \/ HandlerPublishes(s) \/ HandlerCloses(s)
    BY <2>3 DEF HandlerSends, HandlerMarks, HandlerPublishes, HandlerCloses, CloseSession,
                Enqueue, Advance, Same, SessionTypeOK, QueueTypeOK
  <2>4. CASE ExitNext(s)
    BY <2>4 DEF ExitNext, ReaderCloses, ReaderClears, ReaderLeaves, ReaderAnnounces,
                CloseSession, Same, SessionTypeOK
  <2>5. CASE TimerNext(s)
    BY <2>5 DEF TimerNext, TimerFires, TimerCloses, CloseSession, Same, SessionTypeOK
  <2>6. CASE WriterNext(s)
    BY <2>6 DEF WriterNext, WriterTakes, WriterWrites, WriterFails, WriterStops,
                CloseSession, Same, SessionTypeOK, QueueTypeOK
  <2>7. CASE Collect(s)
    BY <2>7 DEF Collect, Same, SessionTypeOK, QueueTypeOK
  <2> QED
    BY <1>7, <2>1, <2>2, <2>3, <2>4, <2>5, <2>6, <2>7 DEF SessionStep, HandlerNext
<1> QED
  BY <1>1, <1>2, <1>3, <1>4, <1>5, <1>6, <1>7

-----------------------------------------------------------------------------
(* A session before its reader starts                                      *)

\* Before the reader runs nothing is queued, in hand or timed; when it has
\* stopped there is nothing left to do; the writer has nothing unless it runs;
\* and no frame handler sends a message of the simulator's own.
Fresh(s) ==
    /\ reader[s] = "off" => queue[s] = <<>> /\ hand[s] = "nothing" /\ timer[s] = "unarmed"
    /\ reader[s] # "running" => todo[s] = <<>>
    /\ writer[s] # "on" => hand[s] = "nothing"
    /\ conn[s] = "none" => writer[s] = "off"
Sending(p) ==
    sender[p] # "idle" =>
        /\ target[p] \in Session
        /\ sender[p] = "sending" => reader[target[p]] # "off"
FreshInv ==
    /\ \A s \in Session : Fresh(s)
    /\ \A p \in Sender : Sending(p)
    /\ loop \in {"accepted", "dialed"} => writer[cand] = "off"

LEMMA FreshSame ==
    ASSUME NEW s \in Session, Fresh(s), Same(s)
    PROVE  Fresh(s)'
  BY DEF Fresh, Same

LEMMA FreshStep ==
    ASSUME TypeOK, Ownership, LinkInv, FreshInv, Next, NEW u \in Session
    PROVE  Fresh(u)'
<1>0. /\ ProcTypeOK /\ SenderTypeOK /\ SessionTypeOK /\ QueueTypeOK
      /\ Fresh(u) /\ reader[u] \in {"off", "running", "closing", "clearing", "leaving",
                                    "announcing", "done"}
  BY DEF TypeOK, SessionTypeOK, FreshInv
<1>1. CASE Same(u)
  BY <1>0, <1>1, FreshSame
<1>2. CASE CloseTaken /\ took = u
  BY <1>0, <1>2 DEF CloseTaken, CloseSession, SessionTypeOK, QueueTypeOK, Fresh
<1>3. CASE LoopNext /\ ~Same(u)
  <2>1. CASE Accept(u) \/ Dial(u)
    BY <1>0, <2>1 DEF Accept, Dial, SessionTypeOK, Fresh
  <2>2. CASE cand = u /\ (RefuseSecond \/ DropRefused)
    BY <1>0, <2>2 DEF RefuseSecond, DropRefused, CloseSession, SessionTypeOK, Fresh
  <2>3. CASE cand = u /\ (Admit \/ CheckDialed)
    <3>1. writer[u] = "off" /\ conn[u] # "none"
      BY <2>3 DEF Admit, CheckDialed, FreshInv, Ownership, InHand
    <3> QED
      BY <1>0, <2>3, <3>1 DEF Admit, CheckDialed, CloseSession, SessionTypeOK, Fresh
  <2>4. CASE cand = u /\ Announce
    BY <1>0, <2>4 DEF Announce, Ownership, InHand, SessionTypeOK, Fresh
  <2>5. CASE cand = u /\ SendSelect
    BY <1>0, <2>5 DEF SendSelect, Enqueue, Ownership, InHand, SessionTypeOK, QueueTypeOK, Fresh
  <2> QED
    BY <1>3, <2>1, <2>2, <2>3, <2>4, <2>5, Apart
<1>4. ASSUME NEW p \in Sender, SendQueues(p), target[p] = u PROVE Fresh(u)'
  <2>1. reader[u] # "off"
    BY <1>4 DEF SendQueues, FreshInv, Sending
  <2> QED
    BY <1>0, <1>4, <2>1 DEF SendQueues, Enqueue, QueueTypeOK, Fresh
<1>5. CASE SessionStep(u)
  <2>1. CASE ReadFrame(u) \/ HandlerMarks(u) \/ HandlerPublishes(u)
    BY <1>0, <2>1 DEF ReadFrame, HandlerMarks, HandlerPublishes, Doing, Fresh
  <2>2. CASE HandlerSends(u)
    BY <1>0, <2>2 DEF HandlerSends, Doing, Fresh
  <2>3. CASE ReadFails(u) \/ HandlerFails(u)
    BY <1>0, <2>3 DEF ReadFails, HandlerFails, Doing, SessionTypeOK, QueueTypeOK, Fresh
  <2>4. CASE HandlerCloses(u)
    BY <1>0, <2>4 DEF HandlerCloses, Doing, CloseSession, SessionTypeOK, Fresh
  <2>5. CASE ExitNext(u)
    BY <1>0, <2>5 DEF ExitNext, ReaderCloses, ReaderClears, ReaderLeaves, ReaderAnnounces,
                      CloseSession, SessionTypeOK, Fresh
  <2>6. CASE TimerNext(u)
    BY <1>0, <2>6 DEF TimerNext, TimerFires, TimerCloses, CloseSession, SessionTypeOK, Fresh
  <2>7. CASE WriterTakes(u)
    BY <1>0, <2>7 DEF WriterTakes, SessionTypeOK, QueueTypeOK, Fresh
  <2>8. CASE WriterWrites(u) \/ WriterFails(u) \/ WriterStops(u)
    BY <1>0, <2>8 DEF WriterWrites, WriterFails, WriterStops, CloseSession, SessionTypeOK, Fresh
  <2>9. CASE Collect(u)
    BY <1>0, <2>9 DEF Collect, Collectable, SessionTypeOK, QueueTypeOK, Fresh
  <2> QED
    BY <1>5, <2>1, <2>2, <2>3, <2>4, <2>5, <2>6, <2>7, <2>8, <2>9
       DEF SessionStep, HandlerNext, WriterNext
<1> QED
  BY <1>1, <1>2, <1>3, <1>4, <1>5, NextCases, Apart

LEMMA SendingStep ==
    ASSUME TypeOK, LinkInv, FreshInv, Next, NEW p \in Sender
    PROVE  Sending(p)'
<1>0. SenderTypeOK /\ ManagerTypeOK /\ SessionTypeOK /\ None \notin Session /\ Sending(p)
  BY TransportAssumption DEF TypeOK, FreshInv
<1>1. ASSUME NEW q \in Sender, SenderNext(q) PROVE Sending(p)'
  <2>1. UNCHANGED <<reader, current>>
    BY <1>1 DEF SenderNext, SendReadsCurrent, SendChecksSelected, SendQueues, SendFails,
                managerVars, sessionVars
  <2>2. CASE p # q
    <3>1. UNCHANGED <<sender[p], target[p]>>
      BY <1>0, <1>1, <2>2 DEF SenderNext, SendReadsCurrent, SendChecksSelected, SendQueues,
                              SendFails, SendReturns, SenderTypeOK
    <3> QED
      BY <1>0, <2>1, <3>1 DEF Sending
  <2>3. CASE p = q
    <3>1. CASE SendReadsCurrent(p)
      BY <1>0, <2>1, <3>1 DEF SendReadsCurrent, SenderTypeOK, ManagerTypeOK, Sending
    <3>2. CASE SendChecksSelected(p)
      BY <1>0, <2>1, <3>2 DEF SendChecksSelected, SendReturns, SenderTypeOK, LinkInv, Sending
    <3>3. CASE SendQueues(p) \/ SendFails(p)
      BY <1>0, <2>1, <3>3 DEF SendQueues, SendFails, SendReturns, SenderTypeOK, Sending
    <3> QED
      BY <1>1, <2>3, <3>1, <3>2, <3>3 DEF SenderNext
  <2> QED
    BY <2>2, <2>3
<1>2. CASE UNCHANGED senderVars
  <2>1. UNCHANGED <<sender[p], target[p]>>
    BY <1>2 DEF senderVars
  <2>2. CASE sender[p] = "idle"
    BY <2>1, <2>2 DEF Sending
  <2>3. CASE sender[p] # "idle"
    <3> DEFINE u == target[p]
    <3>1. u \in Session
      BY <1>0, <2>3 DEF Sending
    <3>2. reader[u] # "off" => reader'[u] # "off"
      <4>1. Same(u) => reader'[u] = reader[u]
        BY DEF Same
      <4>2. CASE CloseTaken \/ Accept(u) \/ Dial(u) \/ RefuseSecond \/ Admit \/ CheckDialed
                    \/ DropRefused
        BY <4>2 DEF CloseTaken, Accept, Dial, RefuseSecond, Admit, CheckDialed, DropRefused
      <4>3. CASE cand = u /\ (Announce \/ SendSelect)
        BY <1>0, <3>1, <4>3 DEF Announce, SendSelect, SessionTypeOK
      <4>4. CASE SessionStep(u)
        <5>1. CASE Collect(u)
          BY <5>1 DEF Collect, Collectable
        <5>2. CASE ~Collect(u)
          BY <1>0, <3>1, <4>4, <5>2 DEF SessionStep, ReadFrame, ReadFails, HandlerNext,
             HandlerSends, HandlerFails, HandlerMarks, HandlerPublishes, HandlerCloses,
             ExitNext, ReaderCloses, ReaderClears, ReaderLeaves, ReaderAnnounces, TimerNext,
             TimerFires, TimerCloses, WriterNext, WriterTakes, WriterWrites, WriterFails,
             WriterStops, SessionTypeOK
        <5> QED
          BY <5>1, <5>2
      <4>5. ASSUME NEW q \in Sender, SenderNext(q) PROVE reader'[u] = reader[u]
        BY <4>5 DEF SenderNext, SendReadsCurrent, SendChecksSelected, SendQueues, SendFails,
                    sessionVars
      <4> HIDE DEF u
      <4> QED
        BY <3>1, <4>1, <4>2, <4>3, <4>4, <4>5, NextCases, Apart
    <3> QED
      BY <1>0, <2>1, <2>3, <3>1, <3>2 DEF Sending
  <2> QED
    BY <2>2, <2>3
<1> QED
  BY <1>1, <1>2, NextCases, Untouched

LEMMA FreshHand ==
    ASSUME TypeOK, Ownership, FreshInv, Next
    PROVE  loop' \in {"accepted", "dialed"} => writer'[cand'] = "off"
<1> SUFFICES ASSUME loop' \in {"accepted", "dialed"} PROVE writer'[cand'] = "off"
  OBVIOUS
<1>0. SessionTypeOK
  BY DEF TypeOK
<1>1. ASSUME NEW s \in Session, Accept(s) \/ Dial(s) PROVE writer'[cand'] = "off"
  BY <1>1 DEF Accept, Dial, FreshInv, Fresh
<1>2. CASE LoopNext
  BY <1>1, <1>2 DEF LoopNext, AcceptFails, RefuseSecond, Admit, DialFails, LoopStops,
     CheckDialed, RetryDial, Install, DropRefused, Announce, AnnounceDialed, SendSelect,
     SelectFails, SessionOver, Redial
<1>3. CASE ~LoopNext
  <2>1. UNCHANGED loopVars
    <3>1. StartNext /\ ~Launch => UNCHANGED loopVars
      BY DEF StartNext, StartBegins, Listen, ListenFails, Register
    <3>2. ~Launch
      BY DEF Launch
    <3>3. Cancel \/ StopNext => UNCHANGED loopVars
      BY DEF Cancel, StopNext, ShutdownBegins, Take, CloseListener, CloseTaken, ShutdownEnds,
             procVars
    <3> QED
      BY <1>3, <3>1, <3>2, <3>3, NextCases, Untouched DEF procVars
  <2>2. cand \in Session /\ writer[cand] = "off" /\ hand[cand] = "nothing" /\ cand' = cand
    BY <2>1 DEF Ownership, InHand, FreshInv, Fresh
  <2>3. Same(cand) => writer'[cand] = writer[cand]
    BY DEF Same
  <2>4. CloseTaken => UNCHANGED writer
    BY DEF CloseTaken
  <2>5. SessionStep(cand) => writer'[cand] \in {writer[cand], "off"}
    BY <1>0, <2>2 DEF SessionStep, ReadFrame, ReadFails, HandlerNext, HandlerSends, HandlerFails,
       HandlerMarks, HandlerPublishes, HandlerCloses, ExitNext, ReaderCloses,
       ReaderClears, ReaderLeaves, ReaderAnnounces, TimerNext, TimerFires, TimerCloses,
       WriterNext, WriterTakes, WriterWrites, WriterFails, WriterStops, Collect, SessionTypeOK
  <2>6. \A p \in Sender : SenderNext(p) => UNCHANGED writer
    BY DEF SenderNext, SendReadsCurrent, SendChecksSelected, SendQueues, SendFails, sessionVars
  <2>7. writer'[cand] = "off"
    <3> DEFINE u == cand
    <3>1. u \in Session /\ writer[u] = "off"
      BY <2>2
    <3> HIDE DEF u
    <3>2. writer'[u] = "off"
      BY <1>3, <2>3, <2>4, <2>5, <2>6, <3>1, NextCases, Apart DEF u
    <3> QED
      BY <3>2 DEF u
  <2> QED
    BY <2>2, <2>7
<1> QED
  BY <1>2, <1>3

LEMMA FreshInvariant == Spec => []FreshInv
<1>1. Init => FreshInv
  <2> SUFFICES ASSUME Init PROVE FreshInv
    OBVIOUS
  <2>1. ASSUME NEW s \in Session PROVE Fresh(s)
    BY DEF Init, Fresh
  <2>2. ASSUME NEW p \in Sender PROVE Sending(p)
    BY DEF Init, Sending
  <2>3. loop = "off"
    BY DEF Init
  <2> QED
    BY <2>1, <2>2, <2>3 DEF FreshInv
<1>2. TypeOK /\ Ownership /\ LinkInv /\ FreshInv /\ Next => FreshInv'
  BY FreshStep, SendingStep, FreshHand DEF FreshInv
<1>3. FreshInv /\ UNCHANGED vars => FreshInv'
  BY DEF FreshInv, Fresh, Sending, vars, procVars, senderVars, sessionVars
<1> QED
  BY <1>1, <1>2, <1>3, TypeCorrect, OwnershipInvariant, LinkInvariant, PTL DEF Spec

\* Each mode has a loop of its own, which starts last.
ModeInv ==
    /\ loop # "off" => start = "returned"
    /\ Active => loop \notin {"accepting", "accepted"}
    /\ ~Active => loop \notin {"dialing", "dialed", "selecting", "serving", "cooling", "backoff"}

LEMMA ModeInvariant == Spec => []ModeInv
<1>1. Init => ModeInv
  BY DEF Init, ModeInv
<1>2. ModeInv /\ Next => ModeInv'
  <2> SUFFICES ASSUME ModeInv, Next PROVE ModeInv'
    OBVIOUS
  <2>1. CASE LoopNext
    <3>1. start = "returned" /\ start' = start
      BY <2>1 DEF LoopNext, Accept, Dial, AcceptFails, RefuseSecond, Admit, DialFails, LoopStops,
       CheckDialed, RetryDial, Install, DropRefused, Announce, AnnounceDialed, SendSelect,
       SelectFails, SessionOver, Redial, ModeInv
    <3> QED
      BY <2>1, <3>1 DEF LoopNext, Accept, Dial, AcceptFails, RefuseSecond, Admit, DialFails, LoopStops,
       CheckDialed, RetryDial, Install, DropRefused, Announce, AnnounceDialed, SendSelect,
       SelectFails, SessionOver, Redial, ModeInv
  <2>2. CASE StartNext
    BY <2>2 DEF StartNext, StartBegins, Listen, ListenFails, Register, Launch, ModeInv
  <2>3. CASE UNCHANGED <<start, loop>>
    BY <2>3 DEF ModeInv
  <2>4. Cancel \/ StopNext => UNCHANGED <<start, loop>>
    BY DEF Cancel, StopNext, ShutdownBegins, Take, CloseListener, CloseTaken, ShutdownEnds,
           procVars
  <2> QED
    BY <2>1, <2>2, <2>3, <2>4, NextCases, Untouched DEF procVars
<1>3. ModeInv /\ UNCHANGED vars => ModeInv'
  BY DEF ModeInv, vars, procVars
<1> QED
  BY <1>1, <1>2, <1>3, PTL DEF Spec

-----------------------------------------------------------------------------
(* What current stands for, until the context is done                      *)

\* A session is installed while its reader is at work, and before that while
\* the loop announces it.
Installed(s) ==
    \/ reader[s] \in {"running", "closing", "clearing"}
    \/ loop \in {"announcing", "selecting"} /\ cand = s
View(s) == Installed(s) <=> current = s
\* The connection the loop has in hand is open, and current is the session
\* that is installed.
ViewInv ==
    ~ctxDone => /\ loop \in InHand => conn[cand] = "open"
                /\ \A s \in Session : View(s)

LEMMA ContextStays == Next /\ ~ctxDone' => ~ctxDone
<1>1. StartNext \/ StopNext \/ LoopNext => UNCHANGED ctxDone
  BY DEF StartNext, StartBegins, Listen, ListenFails, Register, Launch,
         StopNext, ShutdownBegins, Take, CloseListener, CloseTaken, ShutdownEnds,
         LoopNext, Accept, Dial, AcceptFails, RefuseSecond, Admit, DialFails,
         LoopStops, CheckDialed, RetryDial, Install, DropRefused, Announce,
         AnnounceDialed, SendSelect, SelectFails, SessionOver, Redial, managerVars
<1>2. \A s \in Session : SessionStep(s) => UNCHANGED ctxDone
  BY DEF SessionStep, ReadFrame, ReadFails, HandlerNext, HandlerSends, HandlerFails,
         HandlerMarks, HandlerPublishes, HandlerCloses, ExitNext, ReaderCloses,
         ReaderClears, ReaderLeaves, ReaderAnnounces, TimerNext, TimerFires, TimerCloses,
         WriterNext, WriterTakes, WriterWrites, WriterFails, WriterStops, Collect, managerVars
<1> QED
  BY <1>1, <1>2, NextCases, Untouched DEF Cancel, managerVars

\* The steps that are left before the context is done, with no step of
\* shutdown among them.
LEMMA EarlyCases ==
    ASSUME Ownership, Next, ~ctxDone'
    PROVE  /\ ~ctxDone /\ stop = "idle" /\ took = None
           /\ \/ StartNext \/ LoopNext
              \/ \E p \in Sender : SenderNext(p)
              \/ \E s \in Session : SessionStep(s)
<1>1. ~ctxDone
  BY ContextStays
<1>2. stop = "idle" /\ took = None
  BY <1>1 DEF Ownership
<1>3. ~Cancel /\ ~StopNext
  BY <1>1, <1>2 DEF Cancel, StopNext, ShutdownBegins, Take, CloseListener, CloseTaken, ShutdownEnds
<1> QED
  BY <1>1, <1>2, <1>3, NextCases

\* Who changes what the manager holds.
LEMMA CurrentChanges ==
    /\ StartNext => UNCHANGED <<current, cand>> /\ (UNCHANGED loop \/ Launch)
    /\ LoopNext => Install \/ SelectFails \/ UNCHANGED current
    /\ \A s \in Session : SessionStep(s) => ReaderClears(s) \/ UNCHANGED current
<1>1. StartNext => UNCHANGED <<current, cand>> /\ (UNCHANGED loop \/ Launch)
  BY DEF StartNext, StartBegins, Listen, ListenFails, Register, Launch
<1>2. LoopNext => Install \/ SelectFails \/ UNCHANGED current
  BY DEF LoopNext, Accept, Dial, AcceptFails, RefuseSecond, Admit, DialFails,
         LoopStops, CheckDialed, RetryDial, DropRefused, Announce,
         AnnounceDialed, SendSelect, SessionOver, Redial, managerVars
<1>3. \A s \in Session : SessionStep(s) => ReaderClears(s) \/ UNCHANGED current
  BY DEF SessionStep, ReadFrame, ReadFails, HandlerNext, HandlerSends, HandlerFails,
         HandlerMarks, HandlerPublishes, HandlerCloses, ExitNext, ReaderCloses,
         ReaderLeaves, ReaderAnnounces, TimerNext, TimerFires, TimerCloses,
         WriterNext, WriterTakes, WriterWrites, WriterFails, WriterStops, Collect, managerVars
<1> QED
  BY <1>1, <1>2, <1>3

LEMMA ViewStep ==
    ASSUME TypeOK, Ownership, FreshInv, ModeInv, ViewInv, Next, ~ctxDone', NEW u \in Session
    PROVE  View(u)'
<1>0. /\ SessionTypeOK /\ QueueTypeOK /\ ManagerTypeOK /\ None \notin Session
      /\ View(u) /\ ~ctxDone /\ stop = "idle" /\ took = None
      /\ loop \in InHand => cand \in Session /\ conn[cand] = "open" /\ reader[cand] = "off"
  BY TransportAssumption, EarlyCases DEF TypeOK, ViewInv, Ownership
<1>1. CASE StartNext
  <2>1. Same(u) /\ UNCHANGED <<current, cand>> /\ (UNCHANGED loop \/ Launch)
    BY <1>1, Apart, CurrentChanges
  <2>2. CASE UNCHANGED loop
    BY <1>0, <2>1, <2>2 DEF Same, View, Installed
  <2>3. CASE Launch
    BY <1>0, <2>1, <2>3 DEF Launch, ModeInv, Same, View, Installed
  <2> QED
    BY <2>1, <2>2, <2>3
<1>2. CASE LoopNext
  <2>1. CASE Install
    <3>1. Same(u)
      BY <2>1, <1>2, Apart DEF Install, Accept, Dial, RefuseSecond, Admit, CheckDialed, DropRefused,
         Announce, SendSelect, sessionVars, Same
    <3> QED
      BY <1>0, <2>1, <3>1 DEF Install, CanInstall, Same, View, Installed, InHand
  <2>2. ~SelectFails
    BY <1>0 DEF SelectFails, CanFail, InHand
  <2>3. CASE cand = u /\ (Announce \/ SendSelect)
    BY <1>0, <2>3 DEF Announce, SendSelect, SessionTypeOK, View, Installed, InHand, managerVars
  <2>4. CASE ~Install /\ ~(cand = u /\ (Announce \/ SendSelect))
    <3>1. UNCHANGED current
      BY <1>2, <2>2, <2>4, CurrentChanges
    <3>2. reader'[u] = reader[u]
      <4>1. Same(u) => reader'[u] = reader[u]
        BY DEF Same
      <4>2. Accept(u) \/ Dial(u) \/ RefuseSecond \/ Admit \/ CheckDialed \/ DropRefused
               => reader'[u] = reader[u]
        BY DEF Accept, Dial, RefuseSecond, Admit, CheckDialed, DropRefused
      <4> QED
        BY <1>2, <2>4, <4>1, <4>2, Apart
    <3>3. (loop' \in {"announcing", "selecting"} /\ cand' = u)
             <=> (loop \in {"announcing", "selecting"} /\ cand = u)
      BY <1>0, <1>2, <2>2, <2>4 DEF LoopNext, Accept, Dial, AcceptFails, RefuseSecond, Admit, DialFails,
         LoopStops, CheckDialed, RetryDial, DropRefused, Announce,
         AnnounceDialed, SendSelect, SessionOver, Redial
    <3> QED
      BY <1>0, <3>1, <3>2, <3>3 DEF View, Installed
  <2> QED
    BY <2>1, <2>3, <2>4
<1>3. ASSUME NEW p \in Sender, SenderNext(p) PROVE View(u)'
  BY <1>0, <1>3 DEF SenderNext, SendReadsCurrent, SendChecksSelected, SendQueues, SendFails,
     procVars, managerVars, sessionVars, View, Installed
<1>4. ASSUME NEW s \in Session, SessionStep(s) PROVE View(u)'
  <2>1. UNCHANGED loopVars
    BY <1>4, Untouched DEF procVars
  <2>2. CASE s # u
    <3>1. Same(u)
      BY <1>4, <2>2, Apart
    <3>2. ReaderClears(s) => current = s /\ current' = None
      <4>1. View(s)
        BY <1>0 DEF ViewInv
      <4> QED
        BY <4>1 DEF ReaderClears, View, Installed
    <3> QED
      BY <1>0, <1>4, <2>1, <2>2, <3>1, <3>2, CurrentChanges DEF Same, View, Installed
  <2>3. CASE s = u
    <3>1. CASE ReaderClears(u)
      <4>1. loop \in {"announcing", "selecting"} => cand # u
        BY <1>0, <3>1 DEF ReaderClears, InHand
      <4> QED
        BY <1>0, <2>1, <3>1, <4>1 DEF ReaderClears, SessionTypeOK, View, Installed
    <3>2. CASE ~ReaderClears(u)
      <4>1. UNCHANGED current
        BY <1>4, <2>3, <3>2, CurrentChanges
      <4>2. reader'[u] \in {"running", "closing", "clearing"}
              <=> reader[u] \in {"running", "closing", "clearing"}
        BY <1>0, <1>4, <2>3, <3>2 DEF SessionStep, ReadFrame, ReadFails, HandlerNext,
           HandlerSends, HandlerFails, HandlerMarks, HandlerPublishes, HandlerCloses, Doing,
           ExitNext, ReaderCloses, ReaderLeaves, ReaderAnnounces, TimerNext,
           TimerFires, TimerCloses, WriterNext, WriterTakes, WriterWrites, WriterFails,
           WriterStops, Collect, Collectable, SessionTypeOK
      <4> QED
        BY <1>0, <2>1, <4>1, <4>2 DEF View, Installed
    <3> QED
      BY <3>1, <3>2
  <2> QED
    BY <2>2, <2>3
<1> QED
  BY <1>1, <1>2, <1>3, <1>4, EarlyCases

\* Nobody but the loop can close a connection it has in hand.
LEMMA HandStep ==
    ASSUME TypeOK, Ownership, FreshInv, ViewInv, Next, ~ctxDone', loop' \in InHand
    PROVE  conn'[cand'] = "open"
<1>0. /\ SessionTypeOK /\ ~ctxDone /\ stop = "idle" /\ took = None
      /\ loop \in InHand => cand \in Session /\ conn[cand] = "open" /\ reader[cand] = "off"
                              /\ Fresh(cand)
  BY EarlyCases DEF TypeOK, ViewInv, Ownership, FreshInv
<1>1. ASSUME NEW s \in Session, Accept(s) \/ Dial(s) PROVE conn'[cand'] = "open"
  BY <1>0, <1>1 DEF Accept, Dial, SessionTypeOK
<1>2. CASE LoopNext
  BY <1>0, <1>1, <1>2 DEF LoopNext, AcceptFails, RefuseSecond, Admit, DialFails, LoopStops,
     CheckDialed, RetryDial, Install, DropRefused, Announce, AnnounceDialed, SendSelect,
     SelectFails, SessionOver, Redial, InHand, sessionVars
<1>3. ASSUME UNCHANGED loopVars, UNCHANGED conn PROVE conn'[cand'] = "open"
  BY <1>0, <1>3
<1>4. CASE StartNext
  <2>1. ~Launch
    BY DEF Launch, InHand
  <2> QED
    BY <1>3, <1>4, <2>1 DEF StartNext, StartBegins, Listen, ListenFails, Register, sessionVars
<1>5. ASSUME NEW p \in Sender, SenderNext(p) PROVE conn'[cand'] = "open"
  BY <1>3, <1>5 DEF SenderNext, SendReadsCurrent, SendChecksSelected, SendQueues, SendFails,
     procVars, sessionVars
<1>6. ASSUME NEW s \in Session, SessionStep(s) PROVE conn'[cand'] = "open"
  <2>1. UNCHANGED loopVars
    BY <1>6, Untouched DEF procVars
  <2>2. cand \in Session /\ conn[cand] = "open" /\ reader[cand] = "off" /\ Fresh(cand)
    BY <1>0, <2>1
  <2>3. CASE s # cand
    <3>1. Same(cand)
      BY <1>6, <2>2, <2>3, Apart
    <3> QED
      BY <2>1, <2>2, <3>1 DEF Same
  <2>4. CASE s = cand
    <3>1. UNCHANGED conn
      BY <1>6, <2>2, <2>4 DEF SessionStep, ReadFrame, ReadFails, HandlerNext,
         HandlerSends, HandlerFails, HandlerMarks, HandlerPublishes, HandlerCloses, Doing,
         ExitNext, ReaderCloses, ReaderClears, ReaderLeaves, ReaderAnnounces, TimerNext,
         TimerFires, TimerCloses, WriterNext, WriterTakes, WriterWrites, WriterFails,
         WriterStops, Collect, Collectable, Fresh
    <3> QED
      BY <1>3, <2>1, <3>1
  <2> QED
    BY <2>3, <2>4
<1> QED
  BY <1>2, <1>4, <1>5, <1>6, EarlyCases

LEMMA ViewInvariant == Spec => []ViewInv
<1>1. Init => ViewInv
  <2> SUFFICES ASSUME Init PROVE ViewInv
    OBVIOUS
  <2>1. loop = "off" /\ current = None /\ \A s \in Session : reader[s] = "off"
    BY DEF Init
  <2> QED
    BY <2>1, TransportAssumption DEF ViewInv, View, Installed, InHand
<1>2. TypeOK /\ Ownership /\ FreshInv /\ ModeInv /\ ViewInv /\ Next => ViewInv'
  BY ViewStep, HandStep DEF ViewInv
<1>3. ViewInv /\ UNCHANGED vars => ViewInv'
  BY DEF ViewInv, View, Installed, vars, procVars, managerVars, sessionVars
<1> QED
  BY <1>1, <1>2, <1>3, TypeCorrect, OwnershipInvariant, FreshInvariant,
     ModeInvariant, PTL DEF Spec

-----------------------------------------------------------------------------
(* What a handler still has to do                                          *)

LEMMA TailAt ==
    ASSUME NEW S, NEW q \in Seq(S), q # <<>>
    PROVE  /\ 1 \in DOMAIN q /\ Head(q) = q[1] /\ Head(q) \in S
           /\ \A k : k \in DOMAIN Tail(q) <=> k \in Nat \ {0} /\ k + 1 \in DOMAIN q
           /\ \A k \in DOMAIN Tail(q) : Tail(q)[k] = q[k + 1]
           /\ \A k \in DOMAIN q : k \in Nat \ {0} /\ (k > 1 => k - 1 \in DOMAIN Tail(q))
<1>1. Len(q) \in Nat \ {0} /\ DOMAIN q = 1..Len(q)
  BY EmptySeq, LenProperties
<1>2. /\ Tail(q) \in Seq(S) /\ Len(Tail(q)) = Len(q) - 1 /\ Head(q) = q[1] /\ Head(q) \in S
      /\ \A k \in 1..Len(Tail(q)) : Tail(q)[k] = q[k + 1]
  BY HeadTailProperties
<1>3. DOMAIN Tail(q) = 1..Len(Tail(q))
  BY <1>2, LenProperties
<1> QED
  BY <1>1, <1>2, <1>3

\* The published name of the selected flag.
Name(flag) == IF flag THEN "SELECTED" ELSE "CONNECTED"
\* Whoever sets the flag publishes its state next, and no handler publishes
\* anything else.
Promised(q, flag) ==
    \A k \in DOMAIN q :
        /\ q[k].op = "mark" => k + 1 \in DOMAIN q /\ q[k + 1] = Publish(Name(q[k].arg))
        /\ q[k].op = "publish" => \/ k > 1 /\ q[k - 1].op = "mark"
                                  \/ k = 1 /\ q[k].arg = Name(flag)
PromiseInv == \A s \in Session : Promised(todo[s], selected[s])

LEMMA HandlingPromised ==
    ASSUME NEW frame \in PeerFrame, NEW steps \in Handling(frame), NEW flag
    PROVE  Promised(steps, flag)
<1>1. CASE frame = "Data"
  <2>1. PICK n \in 0..MaxReplies : steps = [i \in 1..n |-> Send("Reply")]
    BY <1>1 DEF Handling
  <2> QED
    BY <2>1 DEF Promised, Send
<1>2. CASE frame # "Data"
  <2>1. steps = ControlSteps(frame)
    BY <1>2 DEF Handling
  <2>2. CASE frame = "SelectReq"
    <3>1. steps = <<Send("SelectRsp"), Mark(TRUE), Publish("SELECTED")>>
      BY <2>1, <2>2 DEF ControlSteps
    <3> QED
      BY <3>1 DEF Promised, Send, Mark, Publish, Name
  <2>3. CASE frame = "SelectRspOk" /\ Active
    <3>1. steps = <<Mark(TRUE), Publish("SELECTED")>>
      BY <2>1, <2>3 DEF ControlSteps
    <3> QED
      BY <3>1 DEF Promised, Mark, Publish, Name
  <2>4. CASE frame = "DeselectReq"
    <3>1. steps = <<Mark(FALSE), Publish("CONNECTED"), Send("DeselectRsp")>>
      BY <2>1, <2>4 DEF ControlSteps
    <3> QED
      BY <3>1 DEF Promised, Send, Mark, Publish, Name
  <2>5. CASE frame = "DeselectRsp"
    <3>1. steps = <<Mark(FALSE), Publish("CONNECTED")>>
      BY <2>1, <2>5 DEF ControlSteps
    <3> QED
      BY <3>1 DEF Promised, Mark, Publish, Name
  <2>6. CASE \/ frame \notin {"SelectReq", "SelectRspOk", "DeselectReq", "DeselectRsp"}
             \/ frame = "SelectRspOk" /\ ~Active
    <3>1. steps = <<>> \/ \E step : steps = <<step>> /\ step \in {Fail, Close, Send("LinktestRsp")}
      BY <2>1, <2>6 DEF ControlSteps
    <3> QED
      BY <3>1 DEF Promised, Send, Fail, Close
  <2> QED
    BY <2>2, <2>3, <2>4, <2>5, <2>6
<1> QED
  BY <1>1, <1>2

\* The rest of what was promised, once the first step is done.
LEMMA PromisedTail ==
    ASSUME NEW q \in Seq(Step), q # <<>>, NEW flag, NEW next, Promised(q, flag),
           next = IF Head(q).op = "mark" THEN Head(q).arg ELSE flag
    PROVE  Promised(Tail(q), next)
<1> DEFINE r == Tail(q)
<1>0. /\ 1 \in DOMAIN q /\ Head(q) = q[1]
      /\ \A k \in DOMAIN r : k \in Nat \ {0} /\ k + 1 \in DOMAIN q /\ r[k] = q[k + 1]
      /\ \A k \in Nat \ {0} : k + 1 \in DOMAIN q => k \in DOMAIN r
  BY TailAt
<1> HIDE DEF r
<1> SUFFICES ASSUME NEW k \in DOMAIN r
             PROVE  /\ r[k].op = "mark" => k + 1 \in DOMAIN r /\ r[k + 1] = Publish(Name(r[k].arg))
                    /\ r[k].op = "publish" => \/ k > 1 /\ r[k - 1].op = "mark"
                                              \/ k = 1 /\ r[k].arg = Name(next)
  BY DEF Promised, r
<1>1. k \in Nat \ {0} /\ k + 1 \in DOMAIN q /\ r[k] = q[k + 1] /\ k + 1 # 1 /\ (k + 1) - 1 = k
  BY <1>0
<1>2. ASSUME r[k].op = "mark" PROVE k + 1 \in DOMAIN r /\ r[k + 1] = Publish(Name(r[k].arg))
  <2>1. (k + 1) + 1 \in DOMAIN q /\ q[(k + 1) + 1] = Publish(Name(r[k].arg))
    BY <1>1, <1>2 DEF Promised
  <2>2. k + 1 \in DOMAIN r
    BY <1>0, <1>1, <2>1
  <2> QED
    BY <1>0, <2>1, <2>2
<1>3. ASSUME r[k].op = "publish"
      PROVE  \/ k > 1 /\ r[k - 1].op = "mark"
             \/ k = 1 /\ r[k].arg = Name(next)
  <2>1. q[k].op = "mark"
    BY <1>1, <1>3 DEF Promised
  <2>2. CASE k = 1
    <3>1. q[1].op = "mark" /\ q[1 + 1] = Publish(Name(q[1].arg))
      BY <1>0, <2>1, <2>2 DEF Promised
    <3>2. q[1 + 1].arg = Name(q[1].arg)
      BY <3>1 DEF Publish
    <3> QED
      BY <1>0, <1>1, <2>2, <3>1, <3>2
  <2>3. CASE k # 1
    <3>1. k - 1 \in Nat \ {0} /\ (k - 1) + 1 = k /\ k > 1
      BY <1>1, <2>3
    <3>2. k \in DOMAIN q
      BY <1>1, EmptySeq, LenProperties
    <3>3. k - 1 \in DOMAIN r
      BY <1>0, <3>1, <3>2
    <3>4. r[k - 1] = q[(k - 1) + 1]
      BY <1>0, <3>3
    <3>5. r[k - 1].op = "mark"
      BY <2>1, <3>1, <3>4
    <3> QED
      BY <3>1, <3>5
  <2> QED
    BY <2>2, <2>3
<1> QED
  BY <1>2, <1>3

LEMMA PromiseStep ==
    ASSUME TypeOK, FreshInv, PromiseInv, Next, NEW u \in Session
    PROVE  Promised(todo[u], selected[u])'
<1>0. SessionTypeOK /\ QueueTypeOK /\ todo[u] \in Seq(Step) /\ Promised(todo[u], selected[u])
  BY DEF TypeOK, QueueTypeOK, PromiseInv
<1>1. CASE todo'[u] = todo[u] /\ selected'[u] = selected[u]
  BY <1>0, <1>1
<1>2. Same(u) => todo'[u] = todo[u] /\ selected'[u] = selected[u]
  BY DEF Same
<1>3. ASSUME CloseTaken \/ Accept(u) \/ Dial(u) \/ RefuseSecond \/ Admit \/ CheckDialed
               \/ DropRefused \/ Announce \/ SendSelect \/ \E p \in Sender : SendQueues(p)
      PROVE  todo'[u] = todo[u] /\ selected'[u] = selected[u]
  BY <1>3 DEF CloseTaken, Accept, Dial, RefuseSecond, Admit, CheckDialed, DropRefused,
              Announce, SendSelect, SendQueues
<1>4. \A next : Promised(<<>>, next)
  BY DEF Promised
<1>5. CASE ReadFrame(u)
  <2>0. PICK frame \in PeerFrame : \E steps \in Handling(frame) : todo' = [todo EXCEPT ![u] = steps]
    BY <1>5 DEF ReadFrame
  <2>1. PICK steps \in Handling(frame) : todo' = [todo EXCEPT ![u] = steps]
    BY <2>0
  <2>2. todo'[u] = steps /\ UNCHANGED selected
    BY <1>0, <1>5, <2>1 DEF ReadFrame, QueueTypeOK
  <2> QED
    BY <2>2, HandlingPromised
<1>6. CASE HandlerFails(u)
  <2>1. todo'[u] = <<>>
    BY <1>0, <1>6 DEF HandlerFails, QueueTypeOK
  <2> QED
    BY <1>4, <2>1
<1>7. CASE HandlerSends(u) \/ HandlerPublishes(u) \/ HandlerCloses(u)
  <2>1. /\ todo[u] # <<>> /\ Head(todo[u]).op # "mark" /\ todo'[u] = Tail(todo[u])
        /\ selected'[u] = selected[u]
    BY <1>0, <1>7 DEF HandlerSends, HandlerPublishes, HandlerCloses, Doing, Advance, QueueTypeOK
  <2> QED
    BY <1>0, <2>1, PromisedTail
<1>8. CASE HandlerMarks(u)
  <2>1. /\ todo[u] # <<>> /\ Head(todo[u]).op = "mark" /\ todo'[u] = Tail(todo[u])
        /\ selected'[u] = Head(todo[u]).arg
    BY <1>0, <1>8 DEF HandlerMarks, Doing, Advance, QueueTypeOK, SessionTypeOK
  <2> QED
    BY <1>0, <2>1, PromisedTail
<1>9. CASE Collect(u)
  <2>1. todo'[u] = <<>>
    BY <1>9 DEF Collect, Collectable, FreshInv, Fresh
  <2> QED
    BY <1>4, <2>1
<1>10. ReadFails(u) \/ ExitNext(u) \/ TimerNext(u) \/ WriterNext(u)
          => todo'[u] = todo[u] /\ selected'[u] = selected[u]
  BY DEF ReadFails, ExitNext, ReaderCloses, ReaderClears, ReaderLeaves, ReaderAnnounces,
     TimerNext, TimerFires, TimerCloses, WriterNext, WriterTakes, WriterWrites, WriterFails,
     WriterStops
<1>11. CASE SessionStep(u)
  BY <1>1, <1>5, <1>6, <1>7, <1>8, <1>9, <1>10, <1>11 DEF SessionStep, HandlerNext
<1> QED
  BY <1>1, <1>2, <1>3, <1>11, NextCases, Apart

LEMMA PromiseInvariant == Spec => []PromiseInv
<1>1. Init => PromiseInv
  <2> SUFFICES ASSUME Init, NEW s \in Session PROVE Promised(todo[s], selected[s])
    BY DEF PromiseInv
  <2>1. todo[s] = <<>>
    BY DEF Init
  <2> QED
    BY <2>1 DEF Promised
<1>2. TypeOK /\ FreshInv /\ PromiseInv /\ Next => PromiseInv'
  BY PromiseStep DEF PromiseInv
<1>3. PromiseInv /\ UNCHANGED vars => PromiseInv'
  BY DEF PromiseInv, vars, sessionVars
<1> QED
  BY <1>1, <1>2, <1>3, TypeCorrect, FreshInvariant, PTL DEF Spec

-----------------------------------------------------------------------------
(* The published state                                                     *)

PublishPending(s) == \E k \in DOMAIN todo[s] : todo[s][k].op = "publish"
ExitPending == \E s \in Session : reader[s] \in {"closing", "clearing", "leaving", "announcing"}
Resting == IF Active THEN "CONNECTING" ELSE "LISTENING"
\* The state of session s is published, or its handler is about to.
Told(s) == published = Name(selected[s]) \/ PublishPending(s)
StatusInv ==
    ~ctxDone /\ start = "returned" =>
        \/ published = Resting
        \/ current # None /\ Told(current)
        \/ ExitPending

\* The next thing a handler publishes is the flag of its session.
LEMMA HeadIsName ==
    ASSUME TypeOK, PromiseInv, NEW s \in Session, Doing(s, "publish")
    PROVE  Head(todo[s]).arg = Name(selected[s])
<1>1. /\ todo[s] \in Seq(Step) /\ todo[s] # <<>> /\ Promised(todo[s], selected[s])
      /\ Head(todo[s]).op = "publish"
  BY DEF TypeOK, QueueTypeOK, PromiseInv, Doing
<1>2. 1 \in DOMAIN todo[s] /\ Head(todo[s]) = todo[s][1]
  BY <1>1, TailAt
<1> QED
  BY <1>1, <1>2 DEF Promised

\* What a step of a session does to what has been told of it.
LEMMA ToldStep ==
    ASSUME TypeOK, PromiseInv, NEW s \in Session, SessionStep(s), reader[s] = "running",
           Told(s)
    PROVE  Told(s)' \/ reader'[s] = "closing"
<1>0. /\ SessionTypeOK /\ QueueTypeOK /\ todo[s] \in Seq(Step)
      /\ Promised(todo[s], selected[s])
  BY DEF TypeOK, QueueTypeOK, PromiseInv
<1>1. CASE ReadFrame(s)
  <2>1. ~PublishPending(s)
    BY <1>1 DEF ReadFrame, PublishPending
  <2> QED
    BY <1>1, <2>1 DEF ReadFrame, Told, managerVars
<1>2. CASE ReadFails(s) \/ HandlerFails(s)
  BY <1>0, <1>2 DEF ReadFails, HandlerFails, SessionTypeOK
<1>3. CASE HandlerSends(s) \/ HandlerCloses(s)
  <2>1. /\ todo[s] # <<>> /\ Head(todo[s]).op # "publish" /\ todo'[s] = Tail(todo[s])
        /\ UNCHANGED <<selected, published>>
    BY <1>0, <1>3 DEF HandlerSends, HandlerCloses, Doing, Advance, QueueTypeOK, managerVars
  <2>2. ASSUME NEW k \in DOMAIN todo[s], todo[s][k].op = "publish"
        PROVE  \E j \in DOMAIN todo'[s] : todo'[s][j].op = "publish"
    <3>1. k > 1 /\ k - 1 \in DOMAIN Tail(todo[s])
      <4>1. k # 1 /\ k \in Nat \ {0} /\ (k > 1 => k - 1 \in DOMAIN Tail(todo[s]))
        BY <1>0, <2>1, <2>2, TailAt
      <4> QED
        BY <4>1
    <3>2. Tail(todo[s])[k - 1] = todo[s][(k - 1) + 1]
      BY <1>0, <2>1, <3>1, TailAt
    <3>3. (k - 1) + 1 = k
      BY <1>0, EmptySeq, LenProperties
    <3> QED
      BY <2>1, <2>2, <3>1, <3>2, <3>3
  <2> QED
    BY <2>1, <2>2 DEF Told, PublishPending
<1>4. CASE HandlerMarks(s)
  <2>1. /\ todo[s] # <<>> /\ Head(todo[s]).op = "mark" /\ todo'[s] = Tail(todo[s])
    BY <1>0, <1>4 DEF HandlerMarks, Doing, Advance, QueueTypeOK
  <2>2. 1 \in DOMAIN todo[s] /\ todo[s][1].op = "mark"
    BY <1>0, <2>1, TailAt
  <2>3. 1 + 1 \in DOMAIN todo[s] /\ todo[s][1 + 1].op = "publish"
    <3>1. 1 + 1 \in DOMAIN todo[s] /\ todo[s][1 + 1] = Publish(Name(todo[s][1].arg))
      BY <1>0, <2>2 DEF Promised
    <3>2. Publish(Name(todo[s][1].arg)).op = "publish"
      BY DEF Publish
    <3> QED
      BY <3>1, <3>2
  <2>4. 1 \in DOMAIN todo'[s] /\ todo'[s][1] = todo[s][1 + 1]
    BY <1>0, <2>1, <2>3, TailAt
  <2> QED
    BY <2>3, <2>4 DEF Told, PublishPending
<1>5. CASE HandlerPublishes(s)
  BY <1>5, HeadIsName DEF HandlerPublishes, Told
<1>6. CASE TimerNext(s) \/ WriterNext(s)
  BY <1>6 DEF TimerNext, TimerFires, TimerCloses, WriterNext, WriterTakes, WriterWrites,
     WriterFails, WriterStops, managerVars, Told, PublishPending
<1>7. ~ExitNext(s) /\ ~Collect(s)
  BY DEF ExitNext, ReaderCloses, ReaderClears, ReaderLeaves, ReaderAnnounces, Collect, Collectable
<1> QED
  BY <1>1, <1>2, <1>3, <1>4, <1>5, <1>6, <1>7 DEF SessionStep, HandlerNext

\* Who publishes.
LEMMA Publishers ==
    /\ StartNext => Launch \/ UNCHANGED published
    /\ LoopNext => Announce \/ AnnounceDialed \/ Redial \/ UNCHANGED published
    /\ \A s \in Session :
          SessionStep(s) => HandlerPublishes(s) \/ ReaderAnnounces(s) \/ UNCHANGED published
<1>1. StartNext => Launch \/ UNCHANGED published
  BY DEF StartNext, StartBegins, Listen, ListenFails, Register
<1>2. LoopNext => Announce \/ AnnounceDialed \/ Redial \/ UNCHANGED published
  BY DEF LoopNext, Accept, Dial, AcceptFails, RefuseSecond, Admit, DialFails,
         LoopStops, CheckDialed, RetryDial, Install, DropRefused, SendSelect, SelectFails,
         SessionOver, managerVars
<1>3. ASSUME NEW s \in Session, SessionStep(s)
      PROVE  HandlerPublishes(s) \/ ReaderAnnounces(s) \/ UNCHANGED published
  BY <1>3 DEF SessionStep, ReadFrame, ReadFails, HandlerNext, HandlerSends, HandlerFails,
         HandlerMarks, HandlerCloses, ExitNext, ReaderCloses, ReaderClears,
         ReaderLeaves, TimerNext, TimerFires, TimerCloses,
         WriterNext, WriterTakes, WriterWrites, WriterFails, WriterStops, Collect, managerVars
<1> QED
  BY <1>1, <1>2, <1>3

LEMMA StatusStep ==
    ASSUME TypeOK, Ownership, LinkInv, FreshInv, ModeInv, ViewInv, PromiseInv, StatusInv, Next
    PROVE  StatusInv'
<1> SUFFICES ASSUME ~ctxDone', start' = "returned"
             PROVE  (published = Resting \/ (current # None /\ Told(current)) \/ ExitPending)'
  BY DEF StatusInv
<1> DEFINE Fine == published = Resting \/ (current # None /\ Told(current)) \/ ExitPending
<1>0. /\ SessionTypeOK /\ QueueTypeOK /\ ManagerTypeOK /\ None \notin Session
      /\ ~ctxDone /\ stop = "idle" /\ took = None
      /\ start = "returned" => Fine
      /\ \A s \in Session : View(s)
      /\ loop \in InHand => cand \in Session /\ conn[cand] = "open" /\ reader[cand] = "off"
  BY TransportAssumption, EarlyCases DEF TypeOK, StatusInv, ViewInv, Ownership
<1>1. CASE StartNext
  <2>1. Launch
    BY <1>1 DEF StartNext, StartBegins, Listen, ListenFails, Register
  <2> QED
    BY <2>1 DEF Launch, Resting
<1>2. CASE LoopNext
  <2>1. start = "returned"
    BY <1>2 DEF LoopNext, Accept, Dial, AcceptFails, RefuseSecond, Admit, DialFails,
       LoopStops, CheckDialed, RetryDial, Install, DropRefused, Announce, AnnounceDialed,
       SendSelect, SelectFails, SessionOver, Redial
  <2>2. CASE Announce \/ AnnounceDialed
    <3>1. current = cand /\ cand \in Session /\ ~selected[cand]
      BY <1>0, <2>2 DEF Announce, AnnounceDialed, View, Installed, InHand, LinkInv
    <3>2. current' = cand /\ selected' = selected /\ published' = "CONNECTED"
      BY <2>2, <3>1 DEF Announce, AnnounceDialed, sessionVars
    <3> QED
      BY <1>0, <3>1, <3>2 DEF Told, Name
  <2>3. CASE Redial
    BY <2>3 DEF Redial, ModeInv, Resting
  <2>4. ~SelectFails
    BY <1>0 DEF SelectFails, CanFail, InHand
  <2>5. CASE ~Announce /\ ~AnnounceDialed /\ ~Redial
    <3>1. UNCHANGED <<published, selected, todo>>
      BY <1>2, <2>5 DEF LoopNext, Accept, Dial, AcceptFails, RefuseSecond, Admit, DialFails,
       LoopStops, CheckDialed, RetryDial, Install, DropRefused,
       SendSelect, SelectFails, SessionOver, managerVars, sessionVars
    <3>2. current # None => current' = current
      BY <1>2, <2>4, CurrentChanges DEF Install, CanInstall
    <3>3. ExitPending => ExitPending'
      <4>1. UNCHANGED reader \/ SendSelect
        BY <1>2, <2>5 DEF LoopNext, Accept, Dial, AcceptFails, RefuseSecond, Admit, DialFails,
           LoopStops, CheckDialed, RetryDial, Install, DropRefused,
           SelectFails, SessionOver, sessionVars
      <4>2. SendSelect => \A s \in Session : reader[s] # "off" => reader'[s] = reader[s]
        BY <1>0 DEF SendSelect, SessionTypeOK, InHand
      <4> QED
        BY <4>1, <4>2 DEF ExitPending
    <3> QED
      BY <1>0, <2>1, <3>1, <3>2, <3>3 DEF Told, PublishPending
  <2> QED
    BY <2>2, <2>3, <2>5
<1>3. ASSUME NEW p \in Sender, SenderNext(p) PROVE Fine'
  BY <1>0, <1>3 DEF SenderNext, SendReadsCurrent, SendChecksSelected, SendQueues, SendFails,
     procVars, managerVars, sessionVars, Told, PublishPending, ExitPending
<1>4. ASSUME NEW s \in Session, SessionStep(s) PROVE Fine'
  <2>1. start = "returned"
    BY <1>4, Untouched DEF procVars
  <2>2. CASE ReaderAnnounces(s)
    BY <2>2 DEF ReaderAnnounces, Resting
  <2>3. CASE reader'[s] \in {"closing", "clearing", "leaving", "announcing"}
    BY <2>3 DEF ExitPending
  <2>4. CASE ~ReaderAnnounces(s) /\ reader'[s] \notin {"closing", "clearing", "leaving", "announcing"}
    <3>1. reader[s] \notin {"closing", "clearing", "leaving", "announcing"}
      BY <1>0, <1>4, <2>4 DEF SessionStep, ReadFrame, ReadFails, HandlerNext, HandlerSends,
         HandlerFails, HandlerMarks, HandlerPublishes, HandlerCloses, Doing, ExitNext,
         ReaderCloses, ReaderClears, ReaderLeaves, TimerNext, TimerFires, TimerCloses, WriterNext,
         WriterTakes, WriterWrites, WriterFails, WriterStops, Collect, Collectable, SessionTypeOK
    <3>2. UNCHANGED current
      BY <1>4, <3>1, CurrentChanges DEF ReaderClears
    <3>3. ExitPending => ExitPending'
      <4>1. \A t \in Session \ {s} : reader'[t] = reader[t]
        BY <1>4, Apart DEF Same
      <4> QED
        BY <3>1, <4>1 DEF ExitPending
    <3>4. CASE HandlerPublishes(s)
      <4>1. current = s
        BY <1>0, <3>4 DEF HandlerPublishes, Doing, View, Installed
      <4>2. published' = Name(selected[s]) /\ UNCHANGED selected
        BY <3>4, HeadIsName DEF HandlerPublishes
      <4> QED
        BY <1>0, <3>2, <4>1, <4>2 DEF Told
    <3>5. CASE ~HandlerPublishes(s)
      <4>1. UNCHANGED published
        BY <1>4, <2>4, <3>5, Publishers
      <4>2. CASE current # None /\ Told(current)
        <5>1. current \in Session
          BY <1>0, <4>2 DEF ManagerTypeOK
        <5>2. CASE current = s
          <6>1. CASE reader[s] = "running"
            <7>1. Told(s)'
              BY <1>4, <2>4, <4>2, <5>2, <6>1, ToldStep
            <7> QED
              BY <1>0, <3>2, <5>2, <7>1 DEF Told, PublishPending
          <6>2. CASE reader[s] # "running"
            <7>1. UNCHANGED <<selected, todo>>
              <8>1. ~Collect(s)
                BY <5>2 DEF Collect, Collectable
              <8> QED
                BY <1>4, <6>2, <8>1 DEF SessionStep, ReadFrame, ReadFails, HandlerNext,
                   HandlerSends, HandlerFails, HandlerMarks, HandlerPublishes, HandlerCloses,
                   Doing, ExitNext, ReaderCloses, ReaderClears, ReaderLeaves, ReaderAnnounces,
                   TimerNext, TimerFires, TimerCloses, WriterNext, WriterTakes, WriterWrites,
                   WriterFails, WriterStops
            <7> QED
              BY <3>2, <4>1, <4>2, <7>1 DEF Told, PublishPending
          <6> QED
            BY <6>1, <6>2
        <5>3. CASE current # s
          <6>1. todo'[current] = todo[current] /\ selected'[current] = selected[current]
            BY <1>4, <5>1, <5>3, Apart DEF Same
          <6> QED
            BY <3>2, <4>1, <4>2, <6>1 DEF Told, PublishPending
        <5> QED
          BY <5>2, <5>3
      <4> QED
        BY <1>0, <2>1, <3>3, <4>1, <4>2 DEF Resting
    <3> QED
      BY <3>4, <3>5
  <2> QED
    BY <2>2, <2>3, <2>4
<1> QED
  BY <1>1, <1>2, <1>3, <1>4, EarlyCases

LEMMA StatusInvariant == Spec => []StatusInv
<1>1. Init => StatusInv
  BY DEF Init, StatusInv
<1>2. StatusInv /\ UNCHANGED vars => StatusInv'
  BY DEF StatusInv, Told, PublishPending, ExitPending, vars, procVars, managerVars, sessionVars
<1> QED
  BY <1>1, <1>2, StatusStep, TypeCorrect, OwnershipInvariant, LinkInvariant, FreshInvariant,
     ModeInvariant, ViewInvariant, PromiseInvariant, PTL DEF Spec

\* When nothing is under way, current is the session that is served.
LEMMA QuietState ==
    ASSUME TypeOK, Ownership, FreshInv, ViewInv, StatusInv, Quiet, ~ctxDone
    PROVE  /\ stop = "idle" /\ ~ExitPending
           /\ \A s \in Session : ~PublishPending(s)
           /\ current # None => /\ reader[current] = "running"
                                /\ ActualState = Name(selected[current])
           /\ current = None => ActualState = Resting
<1>0. stop = "idle"
  BY DEF Ownership
<1>1. ~ExitPending
  BY DEF ExitPending, Quiet
<1>2. \A s \in Session : todo[s] = <<>>
  BY DEF Quiet, FreshInv, Fresh
<1>3. current # None => reader[current] = "running"
  BY DEF Quiet, ViewInv, View, Installed, TypeOK, ManagerTypeOK
<1> QED
  BY <1>0, <1>1, <1>2, <1>3 DEF ActualState, Name, Resting, PublishPending

\* Active mode: the goroutine that dials also serves, so the state is known
\* at each of its places.
ActiveInv ==
    Active /\ ~ctxDone =>
        /\ loop # "refused"
        /\ start \notin {"new", "failed"} => started
        /\ \A s \in Session : reader[s] \notin {"off", "done"} => loop = "serving" /\ cand = s
        /\ loop \in {"dialing", "dialed", "installing", "backoff"} => published = "CONNECTING"
        /\ loop = "selecting" => published = "CONNECTED"
        /\ loop = "serving" => cand \in Session /\ reader[cand] # "off"
        /\ loop = "serving" /\ reader[cand] = "running" => Told(cand)
        /\ loop = "serving" /\ reader[cand] = "done" => published = "CONNECTING"

LEMMA ActiveStep ==
    ASSUME TypeOK, Ownership, LinkInv, FreshInv, ModeInv, ViewInv, PromiseInv, ActiveInv, Next
    PROVE  ActiveInv'
<1> SUFFICES ASSUME Active, ~ctxDone' PROVE ActiveInv'
  BY DEF ActiveInv
<1>0. /\ SessionTypeOK /\ QueueTypeOK /\ ManagerTypeOK /\ None \notin Session
      /\ ~ctxDone /\ stop = "idle" /\ took = None
      /\ \A s \in Session : View(s)
      /\ loop \in InHand => cand \in Session /\ conn[cand] = "open" /\ reader[cand] = "off"
      /\ loop \notin {"accepting", "accepted"} /\ (loop # "off" => start = "returned")
  BY TransportAssumption, EarlyCases DEF TypeOK, ViewInv, Ownership, ModeInv
<1>1. /\ loop # "refused"
      /\ start \notin {"new", "failed"} => started
      /\ \A s \in Session : reader[s] \notin {"off", "done"} => loop = "serving" /\ cand = s
      /\ loop \in {"dialing", "dialed", "installing", "backoff"} => published = "CONNECTING"
      /\ loop = "selecting" => published = "CONNECTED"
      /\ loop = "serving" => cand \in Session /\ reader[cand] # "off"
      /\ loop = "serving" /\ reader[cand] = "running" => Told(cand)
      /\ loop = "serving" /\ reader[cand] = "done" => published = "CONNECTING"
  BY <1>0 DEF ActiveInv
<1>2. CASE StartNext
  <2>1. loop = "off"
    BY <1>0, <1>2 DEF StartNext, StartBegins, Listen, ListenFails, Register, Launch
  <2>2. UNCHANGED sessionVars
    BY <1>2 DEF StartNext, StartBegins, Listen, ListenFails, Register, Launch
  <2>3. loop' # "off" => Launch
    BY <1>2, <2>1 DEF StartNext, StartBegins, Listen, ListenFails, Register
  <2>4. start' \notin {"new", "failed"} => started'
    BY <1>1, <1>2 DEF StartNext, StartBegins, Listen, ListenFails, Register, Launch
  <2>5. Launch => loop' = "dialing" /\ published' = "CONNECTING"
    BY DEF Launch
  <2> QED
    BY <1>1, <2>1, <2>2, <2>3, <2>4, <2>5 DEF ActiveInv, sessionVars
<1>3. CASE LoopNext
  <2>1. /\ UNCHANGED <<start, started>> /\ start = "returned" /\ started
    BY <1>0, <1>1, <1>3 DEF LoopNext, Accept, Dial, AcceptFails, RefuseSecond, Admit, DialFails,
       LoopStops, CheckDialed, RetryDial, Install, DropRefused, Announce, AnnounceDialed,
       SendSelect, SelectFails, SessionOver, Redial, managerVars
  <2>2. CASE loop' = "serving"
    <3>1. SendSelect
      BY <1>3, <2>2 DEF LoopNext, Accept, Dial, AcceptFails, RefuseSecond, Admit, DialFails,
         LoopStops, CheckDialed, RetryDial, Install, DropRefused, Announce, AnnounceDialed,
         SelectFails, SessionOver, Redial
    <3>2. cand \in Session /\ ~selected[cand] /\ published = "CONNECTED"
      BY <1>0, <1>1, <3>1 DEF SendSelect, InHand, LinkInv
    <3>3. /\ cand' = cand /\ reader'[cand] = "running" /\ UNCHANGED <<published, selected>>
          /\ \A s \in Session \ {cand} : reader'[s] = reader[s]
      BY <1>0, <3>1, <3>2 DEF SendSelect, SessionTypeOK, managerVars
    <3>4. \A s \in Session : reader[s] \in {"off", "done"}
      BY <1>1, <3>1 DEF SendSelect
    <3> QED
      BY <2>1, <2>2, <3>2, <3>3, <3>4 DEF ActiveInv, Told, Name
  <2>3. CASE loop' # "serving"
    <3>1. UNCHANGED reader
      BY <1>0, <1>3, <2>3 DEF LoopNext, Accept, Dial, AcceptFails, RefuseSecond, Admit, DialFails,
         LoopStops, CheckDialed, RetryDial, Install, DropRefused, Announce, AnnounceDialed,
         SendSelect, SelectFails, SessionOver, Redial, sessionVars
    <3>2. \A s \in Session : reader[s] \in {"off", "done"}
      <4>1. loop = "serving" => SessionOver
        BY <1>3 DEF LoopNext, Accept, Dial, AcceptFails, RefuseSecond, Admit, DialFails,
           LoopStops, CheckDialed, RetryDial, Install, DropRefused, Announce, AnnounceDialed,
           SendSelect, SelectFails, Redial
      <4> QED
        BY <1>1, <4>1 DEF SessionOver
    <3>3. current # None => loop \in {"announcing", "selecting"}
      BY <1>0, <3>2 DEF ManagerTypeOK, View, Installed
    <3>4. ~SelectFails
      BY <1>0 DEF SelectFails, CanFail, InHand
    <3>5. /\ loop' # "refused"
          /\ loop' \in {"dialing", "dialed", "installing", "backoff"} => published' = "CONNECTING"
          /\ loop' = "selecting" => published' = "CONNECTED"
      BY <1>0, <1>1, <1>3, <2>1, <2>3, <3>3, <3>4 DEF LoopNext, Accept, Dial, AcceptFails,
         RefuseSecond, Admit, DialFails,
         LoopStops, CheckDialed, RetryDial, Install, CanInstall, DropRefused, Announce,
         AnnounceDialed, SendSelect, SessionOver, Redial, managerVars
    <3> QED
      BY <2>1, <2>3, <3>1, <3>2, <3>5 DEF ActiveInv
  <2> QED
    BY <2>2, <2>3
<1>4. ASSUME NEW p \in Sender, SenderNext(p) PROVE ActiveInv'
  BY <1>1, <1>4 DEF SenderNext, SendReadsCurrent, SendChecksSelected, SendQueues, SendFails,
     procVars, managerVars, sessionVars, Told, PublishPending, ActiveInv
<1>5. ASSUME NEW s \in Session, SessionStep(s) PROVE ActiveInv'
  <2>1. UNCHANGED <<start, loop, cand>>
    BY <1>5, Untouched DEF procVars
  <2>2. UNCHANGED started
    BY <1>5 DEF SessionStep, ReadFrame, ReadFails, HandlerNext, HandlerSends, HandlerFails,
         HandlerMarks, HandlerPublishes, HandlerCloses, ExitNext, ReaderCloses,
         ReaderClears, ReaderLeaves, ReaderAnnounces, TimerNext, TimerFires, TimerCloses,
         WriterNext, WriterTakes, WriterWrites, WriterFails, WriterStops, Collect, managerVars
  <2>3. \A t \in Session \ {s} : /\ reader'[t] = reader[t] /\ todo'[t] = todo[t]
                                  /\ selected'[t] = selected[t]
    BY <1>5, Apart DEF Same
  <2>4. CASE reader[s] \in {"off", "done"}
    <3>1. UNCHANGED published /\ reader'[s] \in {"off", reader[s]}
      BY <1>0, <1>5, <2>4 DEF SessionStep, ReadFrame, ReadFails, HandlerNext, HandlerSends,
         HandlerFails, HandlerMarks, HandlerPublishes, HandlerCloses, Doing, ExitNext,
         ReaderCloses, ReaderClears, ReaderLeaves, ReaderAnnounces, TimerNext, TimerFires,
         TimerCloses, WriterNext, WriterTakes, WriterWrites, WriterFails, WriterStops, Collect,
         SessionTypeOK, managerVars
    <3>2. cand = s => reader'[s] = reader[s]
      BY <1>0, <1>5, <2>4 DEF SessionStep, ReadFrame, ReadFails, HandlerNext, HandlerSends,
         HandlerFails, HandlerMarks, HandlerPublishes, HandlerCloses, Doing, ExitNext,
         ReaderCloses, ReaderClears, ReaderLeaves, ReaderAnnounces, TimerNext, TimerFires,
         TimerCloses, WriterNext, WriterTakes, WriterWrites, WriterFails, WriterStops, Collect,
         Collectable
    <3>3. \A t \in Session : reader'[t] \notin {"off", "done"} => reader[t] \notin {"off", "done"}
      BY <2>3, <2>4, <3>1
    <3>4. loop = "serving" => cand \in Session /\ reader'[cand] = reader[cand]
      BY <1>1, <2>3, <3>2
    <3>5. loop = "serving" /\ reader[cand] = "running" => Told(cand)'
      <4>1. loop = "serving" /\ reader[cand] = "running" => cand \in Session \ {s}
        BY <1>1, <2>4
      <4> QED
        BY <1>1, <2>1, <2>3, <3>1, <4>1 DEF Told, PublishPending
    <3> QED
      BY <1>1, <2>1, <2>2, <3>1, <3>3, <3>4, <3>5 DEF ActiveInv
  <2>5. CASE reader[s] \notin {"off", "done"}
    <3>1. loop = "serving" /\ cand = s
      BY <1>1, <2>5
    <3>2. \A t \in Session \ {s} : reader'[t] \in {"off", "done"}
      BY <1>1, <2>3, <3>1
    <3>3. reader'[s] # "off"
      BY <1>0, <1>5, <2>5 DEF SessionStep, ReadFrame, ReadFails, HandlerNext, HandlerSends,
         HandlerFails, HandlerMarks, HandlerPublishes, HandlerCloses, Doing, ExitNext,
         ReaderCloses, ReaderClears, ReaderLeaves, ReaderAnnounces, TimerNext, TimerFires,
         TimerCloses, WriterNext, WriterTakes, WriterWrites, WriterFails, WriterStops, Collect,
         Collectable, SessionTypeOK
    <3>4. reader'[s] = "running" => Told(s)'
      <4>1. reader'[s] = "running" => reader[s] = "running"
        BY <1>0, <1>5, <2>5 DEF SessionStep, ReadFrame, ReadFails, HandlerNext, HandlerSends,
         HandlerFails, HandlerMarks, HandlerPublishes, HandlerCloses, Doing, ExitNext,
         ReaderCloses, ReaderClears, ReaderLeaves, ReaderAnnounces, TimerNext, TimerFires,
         TimerCloses, WriterNext, WriterTakes, WriterWrites, WriterFails, WriterStops, Collect,
         SessionTypeOK
      <4>2. reader[s] = "running" => Told(s)
        BY <1>1, <3>1
      <4> QED
        BY <1>5, <4>1, <4>2, ToldStep
    <3>5. reader'[s] = "done" => published' = "CONNECTING"
      BY <1>0, <1>5, <2>5 DEF SessionStep, ReadFrame, ReadFails, HandlerNext, HandlerSends,
         HandlerFails, HandlerMarks, HandlerPublishes, HandlerCloses, Doing, ExitNext,
         ReaderCloses, ReaderClears, ReaderLeaves, ReaderAnnounces, TimerNext, TimerFires,
         TimerCloses, WriterNext, WriterTakes, WriterWrites, WriterFails, WriterStops, Collect,
         SessionTypeOK, managerVars
    <3>6. Told(cand)' <=> Told(s)'
      BY <2>1, <3>1 DEF Told, PublishPending
    <3> QED
      BY <1>1, <2>1, <2>2, <3>1, <3>2, <3>3, <3>4, <3>5, <3>6 DEF ActiveInv
  <2> QED
    BY <2>4, <2>5
<1> QED
  BY <1>2, <1>3, <1>4, <1>5, EarlyCases

LEMMA ActiveInvariant == Spec => []ActiveInv
<1>1. Init => ActiveInv
  BY DEF Init, ActiveInv
<1>2. ActiveInv /\ UNCHANGED vars => ActiveInv'
  BY DEF ActiveInv, Told, PublishPending, vars, procVars, managerVars, sessionVars
<1> QED
  BY <1>1, <1>2, ActiveStep, TypeCorrect, OwnershipInvariant, LinkInvariant, FreshInvariant,
     ModeInvariant, ViewInvariant, PromiseInvariant, PTL DEF Spec

\* Active mode: whenever no goroutine is between two steps, the state last
\* given to OnStateChange is the state of the transport, although the
\* loop, the handlers and the exits all publish.
THEOREM ActiveStatusTruthful == Spec => [](Active => StatusTruthful)
<1>1. TypeOK /\ Ownership /\ FreshInv /\ ModeInv /\ ViewInv /\ StatusInv /\ ActiveInv
         => (Active => StatusTruthful)
  <2> SUFFICES ASSUME TypeOK, Ownership, FreshInv, ModeInv, ViewInv, StatusInv, ActiveInv,
                      Active, Quiet, ~ctxDone
               PROVE  published = ActualState
    BY DEF StatusTruthful
  <2>1. CASE current = None
    <3>1. loop # "serving" \/ reader[cand] = "done"
      BY <2>1, TransportAssumption DEF ActiveInv, Quiet, ViewInv, View, Installed
    <3> QED
      BY <2>1, <3>1, QuietState DEF ActiveInv, ModeInv, Quiet, Resting
  <2>2. CASE current # None
    <3>1. reader[current] = "running" /\ current \in Session
      BY <2>2, QuietState DEF TypeOK, ManagerTypeOK
    <3>2. cand = current /\ Told(cand)
      BY <3>1 DEF ActiveInv
    <3> QED
      BY <2>2, <3>1, <3>2, QuietState DEF Told
  <2> QED
    BY <2>1, <2>2
<1> QED
  BY <1>1, TypeCorrect, OwnershipInvariant, FreshInvariant, ModeInvariant, ViewInvariant,
     StatusInvariant, ActiveInvariant, PTL

\* Whenever no goroutine is between two steps the published state is the
\* actual one, or, in passive mode, LISTENING after an exit that published
\* behind the next connection: never a stale CONNECTED or SELECTED.
THEOREM StatusLags == Spec => []StatusLagsAsListening
<1>1. TypeOK /\ Ownership /\ FreshInv /\ ViewInv /\ StatusInv /\ (Active => StatusTruthful)
         => StatusLagsAsListening
  <2> SUFFICES ASSUME TypeOK, Ownership, FreshInv, ViewInv, StatusInv, ~Active, Quiet, ~ctxDone
               PROVE  published \in {ActualState, "LISTENING"}
    BY DEF StatusTruthful, StatusLagsAsListening
  <2>1. published = "LISTENING" \/ (current # None /\ Told(current))
    BY QuietState DEF StatusInv, Quiet, Resting
  <2>2. current # None => current \in Session
    BY DEF TypeOK, ManagerTypeOK
  <2> QED
    BY <2>1, <2>2, QuietState DEF Told
<1> QED
  BY <1>1, ActiveStatusTruthful, TypeCorrect, OwnershipInvariant, FreshInvariant,
     ViewInvariant, StatusInvariant, PTL

-----------------------------------------------------------------------------
(* The order of what goes to the peer                                      *)

In(q, x) == \E k \in DOMAIN q : q[k] = x
\* Every x in q comes after an f.
Led(q, x, f) == \A k \in DOMAIN q : q[k] = x => \E j \in 1..k-1 : q[j] = f

LEMMA InEnds ==
    ASSUME NEW S, NEW q \in Seq(S), NEW x
    PROVE  /\ q # <<>> /\ In(q, x) => Head(q) = x \/ In(Tail(q), x)
           /\ q # <<>> /\ In(Tail(q), x) => In(q, x)
           /\ \A e \in S : In(q, x) => In(Append(q, e), x)
           /\ \A e \in S : In(Append(q, e), x) => In(q, x) \/ e = x
           /\ x \in S => In(Append(q, x), x)
<1>1. Len(q) \in Nat /\ DOMAIN q = 1..Len(q)
  BY LenProperties
<1>2. ASSUME q # <<>>
      PROVE (In(q, x) => Head(q) = x \/ In(Tail(q), x)) /\ (In(Tail(q), x) => In(q, x))
  <2>1. /\ 1 \in DOMAIN q /\ Head(q) = q[1]
        /\ \A k \in DOMAIN Tail(q) : k + 1 \in DOMAIN q /\ Tail(q)[k] = q[k + 1]
        /\ \A k \in DOMAIN q : k # 1 => k - 1 \in DOMAIN Tail(q)
    BY <1>1, <1>2, TailAt
  <2>2. \A k \in DOMAIN q : (k - 1) + 1 = k
    BY <1>1
  <2> QED
    BY <2>1, <2>2 DEF In
<1>3. ASSUME NEW e \in S
      PROVE  /\ \A k \in DOMAIN q : k \in DOMAIN Append(q, e) /\ Append(q, e)[k] = q[k]
             /\ Len(q) + 1 \in DOMAIN Append(q, e) /\ Append(q, e)[Len(q) + 1] = e
             /\ \A k \in DOMAIN Append(q, e) : k \in DOMAIN q \/ k = Len(q) + 1
  BY <1>1, AppendProperties, LenProperties
<1> QED
  BY <1>2, <1>3 DEF In

LEMMA LedEnds ==
    ASSUME NEW S, NEW q \in Seq(S), NEW x, NEW f, Led(q, x, f)
    PROVE  /\ q # <<>> => Head(q) # x /\ (Head(q) = f \/ Led(Tail(q), x, f))
           /\ \A e \in S : (e = x => In(q, f)) => Led(Append(q, e), x, f)
<1>1. Len(q) \in Nat /\ DOMAIN q = 1..Len(q)
  BY LenProperties
<1>2. ASSUME q # <<>> PROVE Head(q) # x /\ (Head(q) = f \/ Led(Tail(q), x, f))
  <2>1. /\ 1 \in DOMAIN q /\ Head(q) = q[1]
        /\ \A k \in DOMAIN Tail(q) : /\ k \in Nat \ {0} /\ k + 1 \in DOMAIN q
                                     /\ Tail(q)[k] = q[k + 1]
        /\ \A k \in DOMAIN q : k # 1 => k - 1 \in DOMAIN Tail(q)
    BY <1>1, <1>2, TailAt
  <2>2. Head(q) # x
    <3>1. 1..1-1 = {}
      OBVIOUS
    <3> QED
      BY <2>1, <3>1 DEF Led
  <2>3. ASSUME Head(q) # f, NEW k \in DOMAIN Tail(q), Tail(q)[k] = x
        PROVE  \E j \in 1..k-1 : Tail(q)[j] = f
    <3>1. PICK j \in 1..(k + 1)-1 : q[j] = f
      BY <2>1, <2>3 DEF Led
    <3>2. j # 1 /\ j \in DOMAIN q /\ k \in Nat
      BY <1>1, <2>1, <2>3, <3>1
    <3>3. j - 1 \in DOMAIN Tail(q) /\ j - 1 \in 1..k-1 /\ (j - 1) + 1 = j
      BY <1>1, <2>1, <3>1, <3>2
    <3>4. Tail(q)[j - 1] = q[(j - 1) + 1]
      BY <2>1, <3>3
    <3>5. Tail(q)[j - 1] = f
      BY <3>1, <3>3, <3>4
    <3> QED
      BY <3>3, <3>5
  <2> QED
    BY <2>2, <2>3 DEF Led
<1>3. ASSUME NEW e \in S, e = x => In(q, f) PROVE Led(Append(q, e), x, f)
  <2>1. /\ \A k \in DOMAIN q : Append(q, e)[k] = q[k]
        /\ Append(q, e)[Len(q) + 1] = e
        /\ \A k \in DOMAIN Append(q, e) : k \in DOMAIN q \/ k = Len(q) + 1
    BY <1>1, AppendProperties, LenProperties
  <2> SUFFICES ASSUME NEW k \in DOMAIN Append(q, e), Append(q, e)[k] = x
               PROVE  \E j \in 1..k-1 : Append(q, e)[j] = f
    BY DEF Led
  <2>2. CASE k \in DOMAIN q
    <3>1. PICK j \in 1..k-1 : q[j] = f
      BY <2>1, <2>2 DEF Led
    <3>2. j \in DOMAIN q
      BY <1>1, <2>2, <3>1
    <3> QED
      BY <2>1, <3>1, <3>2
  <2>3. CASE k = Len(q) + 1
    <3>1. PICK j \in DOMAIN q : q[j] = f
      BY <1>3, <2>1, <2>3 DEF In
    <3>2. j \in 1..k-1
      BY <1>1, <2>3, <3>1
    <3> QED
      BY <2>1, <3>1, <3>2
  <2> QED
    BY <2>1, <2>2, <2>3
<1> QED
  BY <1>2, <1>3

\* Both select messages are among those the history keeps.
Watched == "SelectRsp" \in Noted /\ (Active => "SelectReq" \in Noted)
Kept == {"SelectRsp"} \cup (IF Active THEN {"SelectReq"} ELSE {})

\* Frame f has crossed the connection, or will before anything queued later.
Under(s, f) == f \in wire[s] \/ hand[s] = f \/ In(queue[s], f)
Before(s, f) ==
    /\ "Primary" \in wire[s] => f \in wire[s]
    /\ writer[s] # "done" =>
          /\ hand[s] = "Primary" => f \in wire[s]
          /\ f \in wire[s] \/ hand[s] = f \/ Led(queue[s], "Primary", f)
\* Whoever may send data on a session does so behind the select messages.
Leads(s) ==
    /\ ~In(todo[s], Send("Primary"))
    /\ writer[s] # "done" =>
          /\ selected[s] => Under(s, "SelectRsp")
          /\ \A p \in Sender : sender[p] = "sending" /\ target[p] = s => Under(s, "SelectRsp")
          /\ Under(s, "SelectRsp") \/ Led(todo[s], Mark(TRUE), Send("SelectRsp"))
          /\ Active /\ reader[s] # "off" => Under(s, "SelectReq")
OrderInv == \A s \in Session : Leads(s) /\ \A f \in Kept : Before(s, f)

LEMMA HandlingLed ==
    ASSUME NEW frame \in PeerFrame, NEW steps \in Handling(frame)
    PROVE  /\ ~In(steps, Send("Primary"))
           /\ \/ frame = "SelectRspOk" /\ Active
              \/ Led(steps, Mark(TRUE), Send("SelectRsp"))
<1>1. CASE frame = "Data"
  <2>1. PICK n \in 0..MaxReplies : steps = [i \in 1..n |-> Send("Reply")]
    BY <1>1 DEF Handling
  <2> QED
    BY <2>1 DEF In, Led, Send, Mark
<1>2. CASE frame # "Data"
  <2>1. steps = ControlSteps(frame)
    BY <1>2 DEF Handling
  <2>2. CASE frame = "SelectReq"
    <3>1. steps = <<Send("SelectRsp"), Mark(TRUE), Publish("SELECTED")>>
      BY <2>1, <2>2 DEF ControlSteps
    <3> QED
      BY <3>1 DEF In, Led, Send, Mark, Publish
  <2>3. CASE frame = "SelectRspOk" /\ Active
    <3>1. steps = <<Mark(TRUE), Publish("SELECTED")>>
      BY <2>1, <2>3 DEF ControlSteps
    <3> QED
      BY <2>3, <3>1 DEF In, Send, Mark, Publish
  <2>4. CASE frame = "DeselectReq"
    <3>1. steps = <<Mark(FALSE), Publish("CONNECTED"), Send("DeselectRsp")>>
      BY <2>1, <2>4 DEF ControlSteps
    <3> QED
      BY <3>1 DEF In, Led, Send, Mark, Publish
  <2>5. CASE frame = "DeselectRsp"
    <3>1. steps = <<Mark(FALSE), Publish("CONNECTED")>>
      BY <2>1, <2>5 DEF ControlSteps
    <3> QED
      BY <3>1 DEF In, Led, Send, Mark, Publish
  <2>6. CASE \/ frame \notin {"SelectReq", "SelectRspOk", "DeselectReq", "DeselectRsp"}
             \/ frame = "SelectRspOk" /\ ~Active
    <3>1. steps = <<>> \/ \E step : steps = <<step>> /\ step \in {Fail, Close, Send("LinktestRsp")}
      BY <2>1, <2>6 DEF ControlSteps
    <3> QED
      BY <3>1 DEF In, Led, Send, Mark, Fail, Close
  <2> QED
    BY <2>2, <2>3, <2>4, <2>5, <2>6
<1> QED
  BY <1>1, <1>2

LEMMA KeptFacts ==
    ASSUME Watched, NEW f \in Kept
    PROVE  f \in Noted /\ f \in OutFrame /\ f # "Primary" /\ f # "nothing"
  BY DEF Watched, Kept, OutFrame

\* The three places a message goes through on its way: queue, hand, wire.
LEMMA Queues ==
    ASSUME TypeOK, NEW u \in Session, NEW e \in OutFrame, Enqueue(u, e), NEW f \in Kept, Watched,
           wire'[u] = wire[u], hand'[u] = hand[u], writer'[u] = writer[u],
           Before(u, f), writer[u] # "done" /\ e = "Primary" => Under(u, f)
    PROVE  /\ Before(u, f)'
           /\ \A g \in Kept : Under(u, g) => Under(u, g)'
           /\ e \in Kept => Under(u, e)'
<1>1. queue[u] \in Seq(OutFrame) /\ queue'[u] = Append(queue[u], e)
  BY DEF TypeOK, QueueTypeOK, Enqueue
<1>2. \A g \in Kept : In(queue[u], g) => In(Append(queue[u], e), g)
  BY <1>1, InEnds
<1>3. In(Append(queue[u], e), e)
  BY <1>1, InEnds
<1>4. ASSUME writer[u] # "done", ~(f \in wire[u] \/ hand[u] = f)
      PROVE  Led(Append(queue[u], e), "Primary", f)
  <2>1. Led(queue[u], "Primary", f)
    BY <1>4 DEF Before
  <2>2. e = "Primary" => In(queue[u], f)
    BY <1>4 DEF Under
  <2> QED
    BY <1>1, <2>1, <2>2, LedEnds
<1>5. Before(u, f)'
  BY <1>1, <1>4 DEF Before
<1> QED
  BY <1>1, <1>2, <1>3, <1>5 DEF Under

LEMMA Takes ==
    ASSUME TypeOK, NEW u \in Session, WriterTakes(u), NEW f \in Kept, Watched
    PROVE  (Before(u, f) => Before(u, f)') /\ (Under(u, f) => Under(u, f)')
<1>1. /\ queue[u] \in Seq(OutFrame) /\ queue[u] # <<>> /\ writer[u] = "on"
      /\ queue'[u] = Tail(queue[u]) /\ hand[u] = "nothing" /\ hand'[u] = Head(queue[u])
      /\ wire'[u] = wire[u] /\ writer'[u] = writer[u]
  BY DEF TypeOK, SessionTypeOK, QueueTypeOK, WriterTakes
<1>2. f # "Primary" /\ f # "nothing"
  BY KeptFacts
<1>3. Under(u, f) => Under(u, f)'
  <2>1. In(queue[u], f) => Head(queue[u]) = f \/ In(Tail(queue[u]), f)
    BY <1>1, InEnds
  <2> QED
    BY <1>1, <1>2, <2>1 DEF Under
<1>4. ASSUME Before(u, f) PROVE Before(u, f)'
  <2>1. Led(queue[u], "Primary", f)
          => Head(queue[u]) # "Primary" /\ (Head(queue[u]) = f \/ Led(Tail(queue[u]), "Primary", f))
    BY <1>1, LedEnds
  <2> QED
    BY <1>1, <1>2, <1>4, <2>1 DEF Before
<1> QED
  BY <1>3, <1>4

LEMMA Writes ==
    ASSUME TypeOK, NEW u \in Session, WriterWrites(u), NEW f \in Kept, Watched
    PROVE  (Before(u, f) => Before(u, f)') /\ (Under(u, f) => Under(u, f)')
<1>1. /\ writer[u] = "on" /\ queue'[u] = queue[u] /\ hand'[u] = "nothing"
      /\ wire'[u] = wire[u] \cup ({hand[u]} \cap Noted) /\ writer'[u] = writer[u]
  BY DEF TypeOK, SessionTypeOK, WriterWrites
<1>2. f \in Noted /\ f # "Primary" /\ f # "nothing"
  BY KeptFacts
<1> QED
  BY <1>1, <1>2 DEF Before, Under

\* What a step of the transport does to a session's way out, when it neither
\* queues nor writes.
SameWay(u) == /\ wire'[u] = wire[u] /\ hand'[u] = hand[u] /\ queue'[u] = queue[u]
              /\ writer'[u] \in {writer[u], "on"}

LEMMA SameWayKeeps ==
    ASSUME NEW u, SameWay(u), NEW f
    PROVE  /\ Under(u, f) => Under(u, f)'
           /\ writer[u] # "done" /\ Before(u, f) => Before(u, f)'
           /\ writer'[u] = writer[u] /\ Before(u, f) => Before(u, f)'
  BY DEF SameWay, Under, Before

LEMMA WayCases ==
    ASSUME TypeOK, FreshInv, Ownership, Next, NEW u \in Session
    PROVE  \/ SameWay(u) /\ (writer'[u] = writer[u] \/ writer[u] = "off")
           \/ cand = u /\ SendSelect
           \/ \E p \in Sender : SendQueues(p) /\ target[p] = u
           \/ ReadFrame(u) \/ HandlerSends(u) \/ WriterTakes(u) \/ WriterWrites(u)
           \/ WriterFails(u) \/ WriterStops(u) \/ Collect(u)
<1>0. SessionTypeOK
  BY DEF TypeOK
<1>1. Same(u) => SameWay(u) /\ writer'[u] = writer[u]
  BY DEF Same, SameWay
<1>2. CloseTaken \/ Accept(u) \/ Dial(u) \/ RefuseSecond \/ DropRefused \/ Announce
        => SameWay(u) /\ writer'[u] = writer[u]
  BY DEF CloseTaken, Accept, Dial, RefuseSecond, DropRefused, Announce, SameWay
<1>3. ASSUME cand = u, Admit \/ CheckDialed
      PROVE  SameWay(u) /\ (writer'[u] = writer[u] \/ writer[u] = "off")
  <2>1. writer[u] = "off"
    BY <1>3 DEF FreshInv, Admit, CheckDialed
  <2> QED
    BY <1>0, <1>3, <2>1 DEF Admit, CheckDialed, SameWay, SessionTypeOK
<1>4. ReadFails(u) \/ HandlerFails(u) \/ HandlerMarks(u) \/ HandlerPublishes(u)
        \/ HandlerCloses(u) \/ ExitNext(u) \/ TimerNext(u)
        => SameWay(u) /\ writer'[u] = writer[u]
  BY DEF ReadFails, HandlerFails, HandlerMarks, HandlerPublishes, HandlerCloses, ExitNext,
     ReaderCloses, ReaderClears, ReaderLeaves, ReaderAnnounces, TimerNext, TimerFires,
     TimerCloses, SameWay
<1> QED
  BY <1>1, <1>2, <1>3, <1>4, NextCases, Apart DEF SessionStep, HandlerNext, WriterNext

LEMMA UnderStays ==
    ASSUME TypeOK, FreshInv, Ownership, Next, NEW u \in Session, NEW f \in Kept, Watched,
           Before(u, f), Leads(u), Under(u, f), writer'[u] # "done", ~Collect(u)
    PROVE  Under(u, f)'
<1>0. SessionTypeOK /\ QueueTypeOK /\ f \in Noted
  BY KeptFacts DEF TypeOK
<1>1. CASE SameWay(u)
  BY <1>1, SameWayKeeps
<1>2. CASE WriterTakes(u)
  BY <1>2, Takes
<1>3. CASE WriterWrites(u)
  BY <1>3, Writes
<1>4. CASE ReadFrame(u)
  <2>1. UNCHANGED <<hand, queue>>
    BY <1>4 DEF ReadFrame
  <2>2. wire'[u] \in {wire[u], wire[u] \cup ({"SelectRsp"} \cap Noted)}
    BY <1>0, <1>4 DEF ReadFrame, SessionTypeOK
  <2> QED
    BY <2>1, <2>2 DEF Under
<1>5. ASSUME NEW e, Enqueue(u, e), UNCHANGED <<wire, hand>> PROVE Under(u, f)'
  <2>1. queue[u] \in Seq(OutFrame) /\ queue'[u] = Append(queue[u], e)
    BY <1>0, <1>5 DEF QueueTypeOK, Enqueue
  <2>2. In(queue[u], f) => In(Append(queue[u], e), f)
    <3>1. queue[u] \in Seq(OutFrame \cup {e}) /\ e \in OutFrame \cup {e}
      BY <2>1
    <3> QED
      BY <3>1, InEnds
  <2> QED
    BY <1>5, <2>1, <2>2 DEF Under
<1>6. cand = u /\ SendSelect => Enqueue(u, "SelectReq") /\ UNCHANGED <<wire, hand>>
  BY DEF SendSelect
<1>7. \A p \in Sender : SendQueues(p) /\ target[p] = u
         => Enqueue(u, "Primary") /\ UNCHANGED <<wire, hand>>
  BY DEF SendQueues
<1>8. HandlerSends(u) => Enqueue(u, Head(todo[u]).arg) /\ UNCHANGED <<wire, hand>>
  BY DEF HandlerSends
<1>9. WriterFails(u) \/ WriterStops(u) => writer'[u] = "done"
  BY <1>0 DEF WriterFails, WriterStops, SessionTypeOK
<1> QED
  BY <1>1, <1>2, <1>3, <1>4, <1>5, <1>6, <1>7, <1>8, <1>9, WayCases

\* A message is queued by its own handler step, and that step only.
LEMMA SendHead ==
    ASSUME TypeOK, NEW u \in Session, HandlerSends(u), ~In(todo[u], Send("Primary"))
    PROVE  /\ Head(todo[u]) = Send(Head(todo[u]).arg)
           /\ Head(todo[u]).arg \in OutFrame \ {"Primary"}
           /\ Enqueue(u, Head(todo[u]).arg)
<1>1. todo[u] \in Seq(Step) /\ todo[u] # <<>> /\ Head(todo[u]).op = "send"
  BY DEF TypeOK, QueueTypeOK, HandlerSends, Doing
<1>2. Head(todo[u]) \in Step /\ 1 \in DOMAIN todo[u] /\ Head(todo[u]) = todo[u][1]
  BY <1>1, TailAt
<1>3. ASSUME NEW step \in Step, step.op = "send"
      PROVE  step = Send(step.arg) /\ step.arg \in OutFrame
  <2>1. step \in [op : {"send"}, arg : OutFrame]
    BY <1>3 DEF Step
  <2>2. step = [op |-> step.op, arg |-> step.arg]
    BY <2>1
  <2> QED
    BY <1>3, <2>1, <2>2 DEF Send
<1>4. Head(todo[u]) = Send(Head(todo[u]).arg) /\ Head(todo[u]).arg \in OutFrame
  BY <1>1, <1>2, <1>3
<1>5. Head(todo[u]) # Send("Primary")
  BY <1>2 DEF In
<1>6. Head(todo[u]).arg # "Primary"
  BY <1>4, <1>5
<1> QED
  BY <1>4, <1>6 DEF HandlerSends

LEMMA SendUnder ==
    ASSUME FreshInv, NEW p \in Sender, NEW u \in Session, target[p] = u, sender[p] = "sending",
           Leads(u), writer[u] # "done", NEW f \in Kept
    PROVE  Under(u, f)
<1>1. reader[u] # "off"
  BY DEF FreshInv, Sending
<1> QED
  BY <1>1 DEF Leads, Kept

LEMMA BeforeStep ==
    ASSUME TypeOK, FreshInv, Ownership, OrderInv, Next, NEW u \in Session, NEW f \in Kept, Watched
    PROVE  Before(u, f)'
<1>0. /\ SessionTypeOK /\ QueueTypeOK /\ SenderTypeOK /\ Before(u, f) /\ Leads(u)
      /\ Fresh(u) /\ f # "Primary" /\ f # "nothing"
  BY KeptFacts DEF TypeOK, OrderInv, FreshInv
<1>1. CASE SameWay(u) /\ (writer'[u] = writer[u] \/ writer[u] = "off")
  BY <1>0, <1>1, SameWayKeeps
<1>2. CASE cand = u /\ SendSelect
  <2>1. Enqueue(u, "SelectReq") /\ UNCHANGED <<wire, hand, writer>> /\ "SelectReq" \in OutFrame
    BY <1>2 DEF SendSelect, OutFrame
  <2> QED
    BY <1>0, <2>1, Queues
<1>3. ASSUME NEW p \in Sender, SendQueues(p), target[p] = u PROVE Before(u, f)'
  <2>1. /\ Enqueue(u, "Primary") /\ UNCHANGED <<wire, hand, writer>> /\ "Primary" \in OutFrame
        /\ sender[p] = "sending"
    BY <1>3 DEF SendQueues, OutFrame
  <2>2. writer[u] # "done" => Under(u, f)
    BY <1>0, <1>3, <2>1, SendUnder
  <2> QED
    BY <1>0, <2>1, <2>2, Queues
<1>4. CASE ReadFrame(u)
  <2>1. UNCHANGED <<hand, queue, writer>>
    BY <1>4 DEF ReadFrame
  <2>2. wire'[u] \in {wire[u], wire[u] \cup ({"SelectRsp"} \cap Noted)}
    BY <1>0, <1>4 DEF ReadFrame, SessionTypeOK
  <2> QED
    BY <1>0, <2>1, <2>2 DEF Before
<1>5. CASE HandlerSends(u)
  <2> DEFINE e == Head(todo[u]).arg
  <2>1. Enqueue(u, e) /\ UNCHANGED <<wire, hand, writer>> /\ e \in OutFrame /\ e # "Primary"
    BY <1>0, <1>5, SendHead DEF HandlerSends, Leads
  <2> HIDE DEF e
  <2> QED
    BY <1>0, <2>1, Queues
<1>6. CASE WriterTakes(u)
  BY <1>0, <1>6, Takes
<1>7. CASE WriterWrites(u)
  BY <1>0, <1>7, Writes
<1>8. CASE WriterFails(u) \/ WriterStops(u)
  <2>1. writer'[u] = "done" /\ wire'[u] = wire[u]
    BY <1>0, <1>8 DEF WriterFails, WriterStops, SessionTypeOK
  <2> QED
    BY <1>0, <2>1 DEF Before
<1>9. CASE Collect(u)
  <2>1. wire'[u] = {} /\ hand'[u] = "nothing" /\ queue'[u] = <<>>
    BY <1>0, <1>9 DEF Collect, Collectable, Fresh, SessionTypeOK, QueueTypeOK
  <2>2. Led(<<>>, "Primary", f)
    BY DEF Led
  <2> QED
    BY <2>1, <2>2 DEF Before
<1> QED
  BY <1>1, <1>2, <1>3, <1>4, <1>5, <1>6, <1>7, <1>8, <1>9, WayCases

\* What a step does to the work of a reader and to its flag.
LEMMA TodoCases ==
    ASSUME TypeOK, FreshInv, Next, NEW u \in Session
    PROVE  \/ todo'[u] = todo[u] /\ (selected'[u] = selected[u])
           \/ todo'[u] = <<>> /\ (Collect(u) \/ selected'[u] = selected[u])
           \/ ReadFrame(u) \/ HandlerSends(u) \/ HandlerMarks(u)
           \/ /\ todo[u] # <<>> /\ todo'[u] = Tail(todo[u]) /\ selected'[u] = selected[u]
              /\ Head(todo[u]).op \in {"publish", "close"}
<1>0. SessionTypeOK /\ QueueTypeOK
  BY DEF TypeOK
<1>1. Same(u) => todo'[u] = todo[u] /\ selected'[u] = selected[u]
  BY DEF Same
<1>2. CloseTaken \/ Accept(u) \/ Dial(u) \/ RefuseSecond \/ DropRefused \/ Announce
        \/ Admit \/ CheckDialed \/ SendSelect
        => todo'[u] = todo[u] /\ selected'[u] = selected[u]
  BY DEF CloseTaken, Accept, Dial, RefuseSecond, DropRefused, Announce, Admit, CheckDialed,
         SendSelect
<1>3. \A p \in Sender : SendQueues(p) => todo'[u] = todo[u] /\ selected'[u] = selected[u]
  BY DEF SendQueues
<1>4. ReadFails(u) \/ ExitNext(u) \/ TimerNext(u) \/ WriterNext(u)
        => todo'[u] = todo[u] /\ selected'[u] = selected[u]
  BY DEF ReadFails, ExitNext, ReaderCloses, ReaderClears, ReaderLeaves, ReaderAnnounces,
     TimerNext, TimerFires, TimerCloses, WriterNext, WriterTakes, WriterWrites, WriterFails,
     WriterStops
<1>5. HandlerFails(u) => todo'[u] = <<>> /\ selected'[u] = selected[u]
  BY <1>0 DEF HandlerFails, QueueTypeOK
<1>6. Collect(u) => todo'[u] = <<>>
  BY DEF Collect, Collectable, FreshInv, Fresh
<1>7. HandlerPublishes(u) \/ HandlerCloses(u)
        => /\ todo[u] # <<>> /\ todo'[u] = Tail(todo[u]) /\ selected'[u] = selected[u]
           /\ Head(todo[u]).op \in {"publish", "close"}
  BY <1>0 DEF HandlerPublishes, HandlerCloses, Doing, Advance, QueueTypeOK
<1> QED
  BY <1>1, <1>2, <1>3, <1>4, <1>5, <1>6, <1>7, NextCases, Apart DEF SessionStep, HandlerNext

LEMMA NoPrimaryStep ==
    ASSUME TypeOK, FreshInv, Next, NEW u \in Session, ~In(todo[u], Send("Primary"))
    PROVE  ~In(todo'[u], Send("Primary"))
<1>0. todo[u] \in Seq(Step) /\ QueueTypeOK
  BY DEF TypeOK, QueueTypeOK
<1>1. CASE todo'[u] = <<>>
  BY <1>1 DEF In
<1>2. CASE todo[u] # <<>> /\ todo'[u] = Tail(todo[u])
  BY <1>0, <1>2, InEnds
<1>3. HandlerSends(u) \/ HandlerMarks(u) => todo[u] # <<>> /\ todo'[u] = Tail(todo[u])
  BY <1>0 DEF HandlerSends, HandlerMarks, Doing, Advance, QueueTypeOK
<1>4. CASE ReadFrame(u)
  <2>1. PICK frame \in PeerFrame : \E steps \in Handling(frame) : todo' = [todo EXCEPT ![u] = steps]
    BY <1>4 DEF ReadFrame
  <2>2. PICK steps \in Handling(frame) : todo' = [todo EXCEPT ![u] = steps]
    BY <2>1
  <2>3. todo'[u] = steps
    BY <1>0, <2>2 DEF QueueTypeOK
  <2> QED
    BY <2>3, HandlingLed
<1> QED
  BY <1>1, <1>2, <1>3, <1>4, TodoCases

\* A session is marked selected, and its handler promises to, only behind
\* the Select.rsp.
LEMMA MarkedLater ==
    ASSUME TypeOK, FreshInv, Ownership, OrderInv, Next, NEW u \in Session, Watched,
           ~Collect(u), writer[u] # "done", writer'[u] # "done"
    PROVE  /\ selected'[u] => Under(u, "SelectRsp")'
           /\ Under(u, "SelectRsp")' \/ Led(todo'[u], Mark(TRUE), Send("SelectRsp"))
<1> DEFINE f == "SelectRsp"
           g == Send("SelectRsp")
<1>0. /\ todo[u] \in Seq(Step) /\ QueueTypeOK /\ SessionTypeOK /\ Leads(u) /\ f \in Kept
      /\ Before(u, f) /\ (Under(u, f) => Under(u, f)')
  <2>1. f \in Kept
    BY DEF Kept
  <2>2. Leads(u) /\ Before(u, f)
    BY <2>1 DEF OrderInv
  <2> QED
    BY <2>1, <2>2, UnderStays DEF TypeOK, QueueTypeOK
<1>1. /\ selected[u] => Under(u, f)
      /\ Under(u, f) \/ Led(todo[u], Mark(TRUE), g)
  BY <1>0 DEF Leads
<1>2. Mark(TRUE) # g /\ (\A flag : Mark(flag).op = "mark") /\ g.op = "send" /\ g.arg = f
  BY DEF Mark, Send
<1>3. todo[u] # <<>> /\ Led(todo[u], Mark(TRUE), g)
        => Head(todo[u]) # Mark(TRUE) /\ (Head(todo[u]) = g \/ Led(Tail(todo[u]), Mark(TRUE), g))
  BY <1>0, LedEnds
<1>4. CASE todo'[u] = todo[u] /\ selected'[u] = selected[u]
  BY <1>0, <1>1, <1>4
<1>5. CASE todo'[u] = <<>> /\ selected'[u] = selected[u]
  <2>1. Led(<<>>, Mark(TRUE), g)
    BY DEF Led
  <2> QED
    BY <1>0, <1>1, <1>5, <2>1
<1>6. CASE ReadFrame(u)
  <2>1. PICK frame \in PeerFrame : \E steps \in Handling(frame) :
           /\ todo' = [todo EXCEPT ![u] = steps]
           /\ wire' = IF frame = "SelectRspOk" /\ Active
                      THEN [wire EXCEPT ![u] = @ \cup ({"SelectRsp"} \cap Noted)] ELSE wire
    BY <1>6 DEF ReadFrame
  <2>2. PICK steps \in Handling(frame) : todo' = [todo EXCEPT ![u] = steps]
    BY <2>1
  <2>3. todo'[u] = steps /\ selected'[u] = selected[u]
    BY <1>0, <1>6, <2>2 DEF QueueTypeOK, ReadFrame
  <2>4. frame = "SelectRspOk" /\ Active => f \in wire'[u]
    BY <1>0, <2>1 DEF SessionTypeOK, Watched
  <2> QED
    BY <1>0, <1>1, <2>3, <2>4, HandlingLed DEF Under
<1>7. CASE HandlerSends(u)
  <2>1. todo[u] # <<>> /\ todo'[u] = Tail(todo[u]) /\ selected'[u] = selected[u]
    BY <1>0, <1>7 DEF HandlerSends, Doing, Advance, QueueTypeOK
  <2>2. Head(todo[u]) = g => Under(u, f)'
    <3>1. Enqueue(u, Head(todo[u]).arg) /\ UNCHANGED <<wire, hand, writer>>
      BY <1>7 DEF HandlerSends
    <3>2. Head(todo[u]) = g => Enqueue(u, f)
      BY <1>2, <3>1
    <3>3. f \in OutFrame /\ f # "Primary"
      BY DEF OutFrame
    <3> QED
      BY <1>0, <3>1, <3>2, <3>3, Queues
  <2> QED
    BY <1>0, <1>1, <1>3, <2>1, <2>2
<1>8. CASE HandlerMarks(u)
  <2>1. /\ todo[u] # <<>> /\ todo'[u] = Tail(todo[u]) /\ Head(todo[u]).op = "mark"
        /\ selected'[u] = Head(todo[u]).arg /\ Head(todo[u]) \in Step
    <3>1. todo[u] # <<>> /\ Head(todo[u]).op = "mark"
      BY <1>8 DEF HandlerMarks, Doing
    <3>2. Head(todo[u]) \in Step
      BY <1>0, <3>1, TailAt
    <3> QED
      BY <1>0, <1>8, <3>1, <3>2 DEF HandlerMarks, Advance, QueueTypeOK, SessionTypeOK
  <2>2. Head(todo[u]).arg => Head(todo[u]) = Mark(TRUE)
    BY <2>1 DEF Step, Mark
  <2>3. Head(todo[u]) # g
    BY <1>2, <2>1
  <2>4. CASE Under(u, f)
    BY <1>0, <2>4
  <2>5. CASE ~Under(u, f)
    BY <1>1, <1>3, <2>1, <2>2, <2>3, <2>5
  <2> QED
    BY <2>4, <2>5
<1>9. CASE /\ todo[u] # <<>> /\ todo'[u] = Tail(todo[u]) /\ selected'[u] = selected[u]
           /\ Head(todo[u]).op \in {"publish", "close"}
  <2>1. Head(todo[u]) # g
    BY <1>2, <1>9
  <2> QED
    BY <1>0, <1>1, <1>3, <1>9, <2>1
<1> QED
  BY <1>4, <1>5, <1>6, <1>7, <1>8, <1>9, TodoCases

LEMMA LeadsStep ==
    ASSUME TypeOK, FreshInv, Ownership, OrderInv, Next, NEW u \in Session, Watched
    PROVE  Leads(u)'
<1>0. /\ SessionTypeOK /\ SenderTypeOK /\ QueueTypeOK /\ Leads(u) /\ \A f \in Kept : Before(u, f)
  BY DEF TypeOK, OrderInv
<1>1. ~In(todo'[u], Send("Primary"))
  BY <1>0, NoPrimaryStep DEF Leads
<1>2. CASE writer'[u] = "done"
  BY <1>1, <1>2 DEF Leads
<1>3. CASE Collect(u)
  <2>1. /\ ~selected'[u] /\ reader'[u] = "off" /\ UNCHANGED senderVars
        /\ \A p \in Sender : target[p] # u
    BY <1>0, <1>3 DEF Collect, Collectable, SessionTypeOK
  <2>2. todo'[u] = <<>>
    BY <1>3 DEF Collect, Collectable, FreshInv, Fresh
  <2>3. Led(<<>>, Mark(TRUE), Send("SelectRsp"))
    BY DEF Led
  <2> QED
    BY <1>1, <2>1, <2>2, <2>3 DEF Leads, senderVars
<1>4. CASE writer'[u] # "done" /\ ~Collect(u)
  <2>1. writer[u] # "done"
    <3>1. ReadFrame(u) \/ HandlerSends(u) \/ WriterTakes(u) \/ WriterWrites(u)
            => UNCHANGED writer
      BY DEF ReadFrame, HandlerSends, WriterTakes, WriterWrites
    <3>2. SendSelect \/ (\E p \in Sender : SendQueues(p)) => UNCHANGED writer
      BY DEF SendSelect, SendQueues
    <3>3. WriterFails(u) \/ WriterStops(u) => writer[u] = "on"
      BY DEF WriterFails, WriterStops
    <3> QED
      BY <1>4, <3>1, <3>2, <3>3, WayCases
  <2>2. \A f \in Kept : Under(u, f) => Under(u, f)'
    BY <1>0, <1>4, UnderStays
  <2>3. /\ selected'[u] => Under(u, "SelectRsp")'
        /\ Under(u, "SelectRsp")' \/ Led(todo'[u], Mark(TRUE), Send("SelectRsp"))
    BY <1>4, <2>1, MarkedLater
  <2>4. "SelectRsp" \in Kept
    BY DEF Kept
  <2>5. ASSUME NEW p \in Sender, sender'[p] = "sending", target'[p] = u
        PROVE  Under(u, "SelectRsp")'
    <3>1. CASE sender[p] = "sending" /\ target[p] = u
      BY <1>0, <2>1, <2>2, <2>4, <3>1 DEF Leads
    <3>2. CASE ~(sender[p] = "sending" /\ target[p] = u)
      <4>1. PICK q \in Sender : SenderNext(q)
        BY <2>5, <3>2, NextCases, Untouched DEF senderVars
      <4>2. SendChecksSelected(p) /\ selected[u]
        BY <1>0, <2>5, <3>2, <4>1 DEF SenderNext, SendReadsCurrent, SendChecksSelected,
           SendQueues, SendFails, SendReturns, SenderTypeOK
      <4> QED
        BY <1>0, <2>1, <2>2, <2>4, <4>2 DEF Leads
    <3> QED
      BY <3>1, <3>2
  <2>6. Active /\ reader'[u] # "off" => Under(u, "SelectReq")'
    <3> SUFFICES ASSUME Active, reader'[u] # "off" PROVE Under(u, "SelectReq")'
      OBVIOUS
    <3>1. "SelectReq" \in Kept
      BY DEF Kept
    <3>2. CASE reader[u] # "off"
      BY <1>0, <2>1, <2>2, <3>1, <3>2 DEF Leads
    <3>3. CASE reader[u] = "off"
      <4>1. cand = u /\ SendSelect
        <5>1. Same(u) => reader'[u] = reader[u]
          BY DEF Same
        <5>2. CloseTaken \/ Accept(u) \/ Dial(u) \/ RefuseSecond \/ DropRefused \/ Admit
                \/ CheckDialed \/ (\E p \in Sender : SendQueues(p)) => reader'[u] = reader[u]
          BY DEF CloseTaken, Accept, Dial, RefuseSecond, DropRefused, Admit, CheckDialed,
                 SendQueues
        <5>3. ~Announce
          BY DEF Announce
        <5>4. SessionStep(u) => reader'[u] = "off"
          BY <1>0, <3>3 DEF SessionStep, ReadFrame, ReadFails, HandlerNext, HandlerSends,
             HandlerFails, HandlerMarks, HandlerPublishes, HandlerCloses, Doing, ExitNext,
             ReaderCloses, ReaderClears, ReaderLeaves, ReaderAnnounces, TimerNext, TimerFires,
             TimerCloses, WriterNext, WriterTakes, WriterWrites, WriterFails, WriterStops,
             Collect, SessionTypeOK
        <5> QED
          BY <3>3, <5>1, <5>2, <5>3, <5>4, NextCases, Apart
      <4>2. Enqueue(u, "SelectReq") /\ UNCHANGED <<wire, hand, writer>> /\ "SelectReq" \in OutFrame
        BY <4>1 DEF SendSelect, OutFrame
      <4> QED
        BY <1>0, <3>1, <4>2, Queues
    <3> QED
      BY <3>2, <3>3
  <2> QED
    BY <1>1, <2>3, <2>5, <2>6 DEF Leads
<1> QED
  BY <1>2, <1>3, <1>4

\* No message of the simulator's own crosses a connection before the
\* Select.rsp has, nor in active mode before the Select.req, for every
\* number of sessions and senders and every queue capacity, when the
\* history keeps those messages.
THEOREM SelectComesFirst == Watched => (Spec => []DataFollowsSelect)
<1> SUFFICES ASSUME Watched PROVE Spec => []DataFollowsSelect
  OBVIOUS
<1>1. Init => OrderInv
  <2> SUFFICES ASSUME Init, NEW s \in Session, NEW f \in Kept PROVE Leads(s) /\ Before(s, f)
    BY DEF OrderInv, Kept
  <2>1. /\ todo[s] = <<>> /\ queue[s] = <<>> /\ hand[s] = "nothing" /\ wire[s] = {}
        /\ ~selected[s] /\ reader[s] = "off" /\ \A p \in Sender : sender[p] = "idle"
    BY DEF Init
  <2> QED
    BY <2>1 DEF Leads, Before, Led, In
<1>2. TypeOK /\ FreshInv /\ Ownership /\ OrderInv /\ Next => OrderInv'
  BY BeforeStep, LeadsStep DEF OrderInv
<1>3. OrderInv /\ UNCHANGED vars => OrderInv'
  BY DEF OrderInv, Leads, Before, Under, vars, senderVars, sessionVars
<1>4. OrderInv => DataFollowsSelect
  BY DEF OrderInv, Before, Kept, DataFollowsSelect
<1> QED
  BY <1>1, <1>2, <1>3, <1>4, TypeCorrect, OwnershipInvariant, FreshInvariant, PTL DEF Spec
=============================================================================
