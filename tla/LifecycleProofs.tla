-------------------------- MODULE LifecycleProofs --------------------------
(***************************************************************************)
(* Proofs about Lifecycle, for any number of callers, transports and runs  *)
(* and a start-up script of any length.  The types hold of every behaviour. *)
(* What is left after a Stop, what the operator is shown, that no two      *)
(* transports are live at once and that the script is sent in order hold as *)
(* long as no two calls overlap: Lifecycle_overlap shows what two overlapping *)
(* calls do.  The proof follows the transport that is held: by the run on  *)
(* record, or by the call that is stopping it.  The readers of a passive   *)
(* transport that are on their way out all belong to the held one.         *)
(***************************************************************************)
EXTENDS Lifecycle, SequenceTheorems, TLAPS

(***************************************************************************)
(* The threads are different, and a step moves one of them.                *)
(***************************************************************************)
LEMMA Threads ==
  /\ \A c \in Callers : c \in Thread
  /\ \A t \in Transport : Loop(t) \in Thread /\ Closer(t) \in Thread /\ Scheduler(t) \in Thread
  /\ \A c \in Callers, t \in Transport : c # Loop(t) /\ c # Closer(t) /\ c # Scheduler(t)
  /\ \A t, u \in Transport : /\ Loop(t) # Closer(u) /\ Loop(t) # Scheduler(u)
                             /\ Closer(t) # Scheduler(u)
                             /\ t # u => /\ Loop(t) # Loop(u) /\ Closer(t) # Closer(u)
                                         /\ Scheduler(t) # Scheduler(u)
<1>1. \A c \in Callers : c \in Thread
  BY DEF Thread
<1>2. \A t \in Transport : Loop(t) \in Thread /\ Closer(t) \in Thread /\ Scheduler(t) \in Thread
  BY DEF Thread, Loop, Closer, Scheduler
<1>3. \A c \in Callers, t \in Transport : c # Loop(t) /\ c # Closer(t) /\ c # Scheduler(t)
  BY LifecycleAssumption DEF Loop, Closer, Scheduler
<1>4. \A t, u \in Transport : /\ Loop(t) # Closer(u) /\ Loop(t) # Scheduler(u)
                              /\ Closer(t) # Scheduler(u)
                              /\ t # u => /\ Loop(t) # Loop(u) /\ Closer(t) # Closer(u)
                                          /\ Scheduler(t) # Scheduler(u)
  BY DEF Loop, Closer, Scheduler
<1> QED
  BY <1>1, <1>2, <1>3, <1>4

LEMMA Leavers ==
  ASSUME NEW t \in Transport, NEW r \in Exits
  PROVE  /\ Leaver(t, r) \in Thread
         /\ \A c \in Callers : c # Leaver(t, r)
         /\ \A u \in Transport : Leaver(t, r) \notin {Loop(u), Closer(u), Scheduler(u)}
         /\ \A u \in Transport, s \in Exits :
              t # u \/ r # s => Leaver(t, r) # Leaver(u, s)
<1>1. <<t, r>> \in Transport \X Exits
  OBVIOUS
<1>2. Leaver(t, r) \in {"leaver"} \X (Transport \X Exits)
  BY <1>1 DEF Leaver
<1>3. Leaver(t, r) \in Thread
  BY <1>2 DEF Thread
<1>4. \A c \in Callers : c # Leaver(t, r)
  BY <1>2, LifecycleAssumption
<1>5. \A u \in Transport : Leaver(t, r) \notin {Loop(u), Closer(u), Scheduler(u)}
  BY DEF Leaver, Loop, Closer, Scheduler
<1>6. \A u \in Transport, s \in Exits : t # u \/ r # s => Leaver(t, r) # Leaver(u, s)
  BY DEF Leaver
<1> QED
  BY <1>3, <1>4, <1>5, <1>6

LEMMA EveryThread ==
  ASSUME NEW k \in Thread
  PROVE  \/ k \in Callers
         \/ \E t \in Transport : k \in {Loop(t), Closer(t), Scheduler(t)}
         \/ \E t \in Transport, r \in Exits : k = Leaver(t, r)
<1>1. CASE k \in {"leaver"} \X (Transport \X Exits)
  <2>1. PICK p \in Transport \X Exits : k = <<"leaver", p>>
    BY <1>1
  <2>2. p = <<p[1], p[2]>> /\ p[1] \in Transport /\ p[2] \in Exits
    OBVIOUS
  <2> QED
    BY <2>1, <2>2 DEF Leaver
<1>2. CASE k \in {"loop", "closer", "scheduler"} \X Transport
  BY <1>2 DEF Loop, Closer, Scheduler
<1> QED
  BY <1>1, <1>2 DEF Thread

LEMMA Afterwards ==
  /\ \A c \in Callers : AfterCallback(c) = "launch"
  /\ \A t \in Transport : /\ AfterCallback(Closer(t)) = "done"
                          /\ AfterCallback(Loop(t)) \in {"idle", "begin"}
                          /\ AfterCallback(Loop(t)) = "begin" <=>
                               saw[Loop(t)] /\ says[Loop(t)] = "SELECTED"
                          /\ \A r \in Exits : AfterCallback(Leaver(t, r)) = "off"
<1>1. ASSUME NEW c \in Callers PROVE AfterCallback(c) = "launch"
  <2>1. c \in Callers /\ c \notin {Closer(t) : t \in Transport}
    BY Threads
  <2>2. c \notin {"leaver"} \X (Transport \X Exits)
    BY LifecycleAssumption
  <2> QED
    BY <2>1, <2>2 DEF AfterCallback
<1>2. ASSUME NEW t \in Transport PROVE AfterCallback(Closer(t)) = "done"
  <2>1. Closer(t) \notin Callers /\ Closer(t) \in {Closer(u) : u \in Transport}
    BY Threads
  <2>2. Closer(t) \notin {"leaver"} \X (Transport \X Exits)
    BY DEF Closer
  <2> QED
    BY <2>1, <2>2 DEF AfterCallback
<1>3. ASSUME NEW t \in Transport
      PROVE  AfterCallback(Loop(t)) = IF saw[Loop(t)] /\ says[Loop(t)] = "SELECTED"
                                      THEN "begin" ELSE "idle"
  <2>1. Loop(t) \notin Callers /\ Loop(t) \notin {Closer(u) : u \in Transport}
    BY Threads
  <2>2. Loop(t) \notin {"leaver"} \X (Transport \X Exits)
    BY DEF Loop
  <2> QED
    BY <2>1, <2>2 DEF AfterCallback
<1>4. ASSUME NEW t \in Transport, NEW r \in Exits PROVE AfterCallback(Leaver(t, r)) = "off"
  <2>1. Leaver(t, r) \notin Callers /\ Leaver(t, r) \notin {Closer(u) : u \in Transport}
    BY Leavers
  <2>2. <<t, r>> \in Transport \X Exits
    OBVIOUS
  <2>3. Leaver(t, r) \in {"leaver"} \X (Transport \X Exits)
    BY <2>2 DEF Leaver
  <2> QED
    BY <2>1, <2>3 DEF AfterCallback
<1> QED
  BY <1>1, <1>2, <1>3, <1>4

Moved(k, there) ==
  /\ at' = [j \in Thread |-> at'[j]]
  /\ at'[k] = there
  /\ \A j \in Thread : j # k => at'[j] = at[j]

LEMMA OneMoves ==
  ASSUME TypeOK, NEW k \in Thread, NEW there, Goto(k, there)
  PROVE  Moved(k, there)
<1>1. at = [j \in Thread |-> at[j]]
  BY DEF TypeOK
<1>2. at' = [j \in Thread |-> IF j = k THEN there ELSE at[j]]
  BY <1>1 DEF Goto
<1> QED
  BY <1>2 DEF Moved

-----------------------------------------------------------------------------
(***************************************************************************)
(* The types.                                                              *)
(***************************************************************************)
\* The calls that have a transport in hand.
Holding == StartPlaces \cup {"abandon", "cancel", "wait", "inject"}

PlacesOK ==
  /\ at = [k \in Thread |-> at[k]]
  /\ \A c \in Callers : at[c] \in CallPlaces
  /\ \A t \in Transport : /\ at[Loop(t)] \in LoopPlaces
                          /\ at[Closer(t)] \in CloserPlaces
                          /\ at[Scheduler(t)] \in {"off", "idle"}
                          /\ \A r \in Exits : at[Leaver(t, r)] \in LeaverPlaces

DataOK ==
  /\ run \in Transport \cup {None}
  /\ boot \in 0..LastStep \cup {None}
  /\ config \in Modes /\ applied \in Modes
  /\ listening \in BOOLEAN /\ shown \in States
  /\ pending \subseteq Transport
  /\ mode \in [Transport -> Modes \cup {None}]
  /\ ctxDone \in [Transport -> BOOLEAN]
  /\ socket \in [Transport -> BOOLEAN]
  /\ listener \in [Transport -> BOOLEAN]
  /\ link \in [Transport -> {"none", "connected", "selected"}]
  /\ says \in [Thread -> States]
  /\ saw \in [Thread -> BOOLEAN]
  /\ mine \in [Callers -> Transport \cup {None}]
  /\ step \in [Transport -> 0..LastStep]
  /\ script \in Seq(0..LastStep)

HandsOK ==
  /\ run # None => mode[run] \in Modes
  /\ \A c \in Callers : at[c] \in Holding => mine[c] \in Transport /\ mode[mine[c]] \in Modes
  /\ \A t \in Transport : at[Loop(t)] = "move" => step[t] < LastStep

TypeInv == PlacesOK /\ DataOK /\ HandsOK

LEMMA TypeParts == TypeOK <=> PlacesOK /\ DataOK
  BY DEF TypeOK, PlacesOK, DataOK

LEMMA CallerMoves ==
  ASSUME PlacesOK, NEW c \in Callers, NEW there \in CallPlaces, Moved(c, there)
  PROVE  PlacesOK'
BY Threads, Leavers DEF PlacesOK, Moved

LEMMA LoopMoves ==
  ASSUME PlacesOK, NEW t \in Transport, NEW there \in LoopPlaces, Moved(Loop(t), there)
  PROVE  PlacesOK'
BY Threads, Leavers DEF PlacesOK, Moved

LEMMA CloserMoves ==
  ASSUME PlacesOK, NEW t \in Transport, NEW there \in CloserPlaces, Moved(Closer(t), there)
  PROVE  PlacesOK'
BY Threads, Leavers DEF PlacesOK, Moved

LEMMA SchedulerMoves ==
  ASSUME PlacesOK, NEW t \in Transport, Moved(Scheduler(t), "off")
  PROVE  PlacesOK'
BY Threads, Leavers DEF PlacesOK, Moved

LEMMA LeaverMoves ==
  ASSUME PlacesOK, NEW t \in Transport, NEW r \in Exits, NEW there \in LeaverPlaces,
         Moved(Leaver(t, r), there)
  PROVE  PlacesOK'
<1>1. \A c \in Callers : at'[c] = at[c]
  BY Threads, Leavers DEF Moved
<1>2. \A u \in Transport : /\ at'[Loop(u)] = at[Loop(u)]
                            /\ at'[Closer(u)] = at[Closer(u)]
                            /\ at'[Scheduler(u)] = at[Scheduler(u)]
  BY Threads, Leavers DEF Moved
<1>3. \A u \in Transport, s \in Exits :
        at'[Leaver(u, s)] = at[Leaver(u, s)] \/ at'[Leaver(u, s)] = there
  BY Leavers DEF Moved
<1> QED
  BY <1>1, <1>2, <1>3 DEF PlacesOK, Moved

LEMMA StartLocksTyped ==
  ASSUME TypeInv, NEW c \in Callers, StartLocks(c)
  PROVE  TypeInv'
<1>1. Moved(c, IF run # None THEN "idle" ELSE "record")
  BY OneMoves, TypeParts, Threads DEF StartLocks, TypeInv
<1>2. PlacesOK'
  BY <1>1, CallerMoves DEF TypeInv, CallPlaces, StartPlaces
<1>3. DataOK'
  BY Threads
     DEF StartLocks, TypeInv, DataOK, HandsOK, States, Resting, storeVars, transportVars,
         callbackVars, bootVars
<1>4. HandsOK'
  <2>1. CASE run # None
    BY <1>1, <2>1, Threads
       DEF StartLocks, TypeInv, DataOK, HandsOK, Moved, Holding, StartPlaces, storeVars,
           transportVars, bootVars
  <2>2. CASE run = None
    <3>1. PICK t \in Transport : /\ mode[t] = None /\ mode' = [mode EXCEPT ![t] = config]
                                 /\ run' = t /\ mine' = [mine EXCEPT ![c] = t]
      BY <2>2 DEF StartLocks
    <3>2. mode'[t] \in Modes /\ \A u \in Transport : mode[u] \in Modes => mode'[u] \in Modes
      BY <3>1 DEF TypeInv, DataOK
    <3>3. \A d \in Callers : at'[d] \in Holding => mine'[d] \in Transport /\ mode'[mine'[d]] \in Modes
      BY <1>1, <3>1, <3>2, Threads DEF TypeInv, DataOK, HandsOK, Moved
    <3> QED
      BY <1>1, <3>1, <3>2, <3>3, Threads DEF StartLocks, TypeInv, HandsOK, Moved, bootVars
  <2> QED
    BY <2>1, <2>2
<1> QED
  BY <1>2, <1>3, <1>4 DEF TypeInv

LEMMA StartRecordsTyped ==
  ASSUME TypeInv, NEW c \in Callers, StartRecords(c)
  PROVE  TypeInv'
<1>1. Moved(c, "show")
  BY OneMoves, TypeParts, Threads DEF StartRecords, TypeInv
<1>2. PlacesOK'
  BY <1>1, CallerMoves DEF TypeInv, CallPlaces, StartPlaces
<1>3. DataOK'
  BY Threads
     DEF StartRecords, TypeInv, DataOK, HandsOK, Holding, StartPlaces, States, Resting,
         storeVars, transportVars, callbackVars, bootVars
<1>4. HandsOK'
  BY <1>1, Threads
     DEF StartRecords, TypeInv, DataOK, HandsOK, Moved, Holding, StartPlaces, storeVars,
         transportVars, callbackVars, bootVars
<1> QED
  BY <1>2, <1>3, <1>4 DEF TypeInv

LEMMA StartShowsTyped ==
  ASSUME TypeInv, NEW c \in Callers, StartShows(c)
  PROVE  TypeInv'
<1>1. Moved(c, "open")
  BY OneMoves, TypeParts, Threads DEF StartShows, SetRuntime, TypeInv
<1>2. PlacesOK'
  BY <1>1, CallerMoves DEF TypeInv, CallPlaces, StartPlaces
<1>3. DataOK'
  BY Threads
     DEF StartShows, SetRuntime, TypeInv, DataOK, HandsOK, States, Resting, storeVars,
         transportVars, callbackVars, bootVars
<1>4. HandsOK'
  BY <1>1, Threads
     DEF StartShows, SetRuntime, TypeInv, DataOK, HandsOK, Moved, Holding, StartPlaces,
         storeVars, transportVars, callbackVars, bootVars
<1> QED
  BY <1>2, <1>3, <1>4 DEF TypeInv

LEMMA OpenActiveTyped ==
  ASSUME TypeInv, NEW c \in Callers, OpenActive(c)
  PROVE  TypeInv'
<1>1. Moved(c, "publish")
  BY OneMoves, TypeParts, Threads DEF OpenActive, PublishFrom, TypeInv
<1>2. PlacesOK'
  BY <1>1, CallerMoves DEF TypeInv, CallPlaces, StartPlaces
<1>3. DataOK'
  BY Threads
     DEF OpenActive, PublishFrom, TypeInv, DataOK, HandsOK, States, Resting, storeVars,
         transportVars, callbackVars, bootVars
<1>4. HandsOK'
  BY <1>1, Threads
     DEF OpenActive, PublishFrom, TypeInv, DataOK, HandsOK, Moved, Holding, StartPlaces,
         storeVars, transportVars, callbackVars, bootVars
<1> QED
  BY <1>2, <1>3, <1>4 DEF TypeInv

LEMMA ListenTyped ==
  ASSUME TypeInv, NEW c \in Callers, Listen(c)
  PROVE  TypeInv'
<1>1. Moved(c, "register")
  BY OneMoves, TypeParts, Threads DEF Listen, TypeInv
<1>2. PlacesOK'
  BY <1>1, CallerMoves DEF TypeInv, CallPlaces, StartPlaces
<1>3. DataOK'
  BY Threads
     DEF Listen, TypeInv, DataOK, HandsOK, States, Resting, storeVars, transportVars,
         callbackVars, bootVars
<1>4. HandsOK'
  BY <1>1, Threads
     DEF Listen, TypeInv, DataOK, HandsOK, Moved, Holding, StartPlaces, storeVars,
         transportVars, callbackVars, bootVars
<1> QED
  BY <1>2, <1>3, <1>4 DEF TypeInv

LEMMA RegisterTyped ==
  ASSUME TypeInv, NEW c \in Callers, Register(c)
  PROVE  TypeInv'
<1>1. Moved(c, "publish")
  BY OneMoves, TypeParts, Threads DEF Register, PublishFrom, TypeInv
<1>2. PlacesOK'
  BY <1>1, CallerMoves DEF TypeInv, CallPlaces, StartPlaces
<1>3. DataOK'
  BY Threads
     DEF Register, PublishFrom, TypeInv, DataOK, HandsOK, States, Resting, storeVars,
         transportVars, callbackVars, bootVars
<1>4. HandsOK'
  BY <1>1, Threads
     DEF Register, PublishFrom, TypeInv, DataOK, HandsOK, Moved, Holding, StartPlaces,
         storeVars, transportVars, callbackVars, bootVars
<1> QED
  BY <1>2, <1>3, <1>4 DEF TypeInv

LEMMA ListenFailsTyped ==
  ASSUME TypeInv, NEW c \in Callers, ListenFails(c)
  PROVE  TypeInv'
<1>1. Moved(c, "abandon")
  BY OneMoves, TypeParts, Threads DEF ListenFails, TypeInv
<1>2. PlacesOK'
  BY <1>1, CallerMoves DEF TypeInv, CallPlaces, StartPlaces
<1>3. DataOK'
  BY Threads
     DEF ListenFails, TypeInv, DataOK, HandsOK, States, Resting, storeVars, transportVars,
         callbackVars, bootVars
<1>4. HandsOK'
  BY <1>1, Threads
     DEF ListenFails, TypeInv, DataOK, HandsOK, Moved, Holding, StartPlaces, storeVars,
         transportVars, callbackVars, bootVars
<1> QED
  BY <1>2, <1>3, <1>4 DEF TypeInv

LEMMA AbandonTyped ==
  ASSUME TypeInv, NEW c \in Callers, Abandon(c)
  PROVE  TypeInv'
<1>1. Moved(c, "report")
  BY OneMoves, TypeParts, Threads DEF Abandon, TypeInv
<1>2. PlacesOK'
  BY <1>1, CallerMoves DEF TypeInv, CallPlaces, StartPlaces
<1>3. DataOK'
  BY Threads
     DEF Abandon, TypeInv, DataOK, HandsOK, States, Resting, storeVars, transportVars,
         callbackVars, bootVars
<1>4. HandsOK'
  BY <1>1, Threads
     DEF Abandon, TypeInv, DataOK, HandsOK, Moved, Holding, StartPlaces, storeVars,
         transportVars, callbackVars, bootVars
<1> QED
  BY <1>2, <1>3, <1>4 DEF TypeInv

LEMMA StopLocksTyped ==
  ASSUME TypeInv, NEW c \in Callers, StopLocks(c)
  PROVE  TypeInv'
<1>1. Moved(c, IF run = None THEN "report" ELSE "cancel")
  BY OneMoves, TypeParts, Threads DEF StopLocks, TypeInv
<1>2. PlacesOK'
  BY <1>1, CallerMoves DEF TypeInv, CallPlaces, StartPlaces
<1>3. DataOK'
  BY Threads
     DEF StopLocks, TypeInv, DataOK, HandsOK, States, Resting, storeVars, transportVars,
         callbackVars, bootVars
<1>4. HandsOK'
  BY <1>1, Threads
     DEF StopLocks, TypeInv, DataOK, HandsOK, Moved, Holding, StartPlaces, storeVars,
         transportVars, callbackVars, bootVars
<1> QED
  BY <1>2, <1>3, <1>4 DEF TypeInv

LEMMA StopCancelsTyped ==
  ASSUME TypeInv, NEW c \in Callers, StopCancels(c)
  PROVE  TypeInv'
<1>1. Moved(c, "wait")
  BY OneMoves, TypeParts, Threads DEF StopCancels, TypeInv
<1>2. PlacesOK'
  BY <1>1, CallerMoves DEF TypeInv, CallPlaces, StartPlaces
<1>3. DataOK'
  BY Threads
     DEF StopCancels, TypeInv, DataOK, HandsOK, States, Resting, storeVars, transportVars,
         callbackVars, bootVars
<1>4. HandsOK'
  BY <1>1, Threads
     DEF StopCancels, TypeInv, DataOK, HandsOK, Moved, Holding, StartPlaces, storeVars,
         transportVars, callbackVars, bootVars
<1> QED
  BY <1>2, <1>3, <1>4 DEF TypeInv

LEMMA StopWaitsTyped ==
  ASSUME TypeInv, NEW c \in Callers, StopWaits(c)
  PROVE  TypeInv'
<1>1. Moved(c, "report")
  BY OneMoves, TypeParts, Threads DEF StopWaits, TypeInv
<1>2. PlacesOK'
  BY <1>1, CallerMoves DEF TypeInv, CallPlaces, StartPlaces
<1>3. DataOK'
  BY Threads
     DEF StopWaits, TypeInv, DataOK, HandsOK, States, Resting, storeVars, transportVars,
         callbackVars, bootVars
<1>4. HandsOK'
  BY <1>1, Threads
     DEF StopWaits, TypeInv, DataOK, HandsOK, Moved, Holding, StartPlaces, storeVars,
         transportVars, callbackVars, bootVars
<1> QED
  BY <1>2, <1>3, <1>4 DEF TypeInv

LEMMA ReportStoppedTyped ==
  ASSUME TypeInv, NEW c \in Callers, ReportStopped(c)
  PROVE  TypeInv'
<1>1. Moved(c, "idle")
  BY OneMoves, TypeParts, Threads DEF ReportStopped, SetRuntime, TypeInv
<1>2. PlacesOK'
  BY <1>1, CallerMoves DEF TypeInv, CallPlaces, StartPlaces
<1>3. DataOK'
  BY Threads
     DEF ReportStopped, SetRuntime, TypeInv, DataOK, HandsOK, States, Resting, storeVars,
         transportVars, callbackVars, bootVars
<1>4. HandsOK'
  BY <1>1, Threads
     DEF ReportStopped, SetRuntime, TypeInv, DataOK, HandsOK, Moved, Holding, StartPlaces,
         storeVars, transportVars, callbackVars, bootVars
<1> QED
  BY <1>2, <1>3, <1>4 DEF TypeInv

LEMMA ToggleReadsTyped ==
  ASSUME TypeInv, NEW c \in Callers, ToggleReads(c)
  PROVE  TypeInv'
<1>1. Moved(c, IF run # None THEN "stopping" ELSE "starting")
  BY OneMoves, TypeParts, Threads DEF ToggleReads, TypeInv
<1>2. PlacesOK'
  BY <1>1, CallerMoves DEF TypeInv, CallPlaces, StartPlaces
<1>3. DataOK'
  BY Threads
     DEF ToggleReads, TypeInv, DataOK, HandsOK, States, Resting, storeVars, transportVars,
         callbackVars, bootVars
<1>4. HandsOK'
  BY <1>1, Threads
     DEF ToggleReads, TypeInv, DataOK, HandsOK, Moved, Holding, StartPlaces, storeVars,
         transportVars, callbackVars, bootVars
<1> QED
  BY <1>2, <1>3, <1>4 DEF TypeInv

LEMMA InjectChecksTyped ==
  ASSUME TypeInv, NEW c \in Callers, InjectChecks(c)
  PROVE  TypeInv'
<1>1. Moved(c, "inject")
  BY OneMoves, TypeParts, Threads DEF InjectChecks, TypeInv
<1>2. PlacesOK'
  BY <1>1, CallerMoves DEF TypeInv, CallPlaces, StartPlaces
<1>3. DataOK'
  BY Threads
     DEF InjectChecks, TypeInv, DataOK, HandsOK, States, Resting, storeVars, transportVars,
         callbackVars, bootVars
<1>4. HandsOK'
  BY <1>1, Threads
     DEF InjectChecks, TypeInv, DataOK, HandsOK, Moved, Holding, StartPlaces, storeVars,
         transportVars, callbackVars, bootVars
<1> QED
  BY <1>2, <1>3, <1>4 DEF TypeInv

LEMMA InjectRunsTyped ==
  ASSUME TypeInv, NEW c \in Callers, InjectRuns(c)
  PROVE  TypeInv'
<1>1. Moved(c, "idle")
  BY OneMoves, TypeParts, Threads DEF InjectRuns, Schedules, TypeInv
<1>2. PlacesOK'
  BY <1>1, CallerMoves DEF TypeInv, CallPlaces, StartPlaces
<1>3. DataOK'
  BY Threads
     DEF InjectRuns, Schedules, TypeInv, DataOK, HandsOK, Holding, StartPlaces, States,
         Resting, storeVars, transportVars, callbackVars, bootVars
<1>4. HandsOK'
  BY <1>1, Threads
     DEF InjectRuns, Schedules, TypeInv, DataOK, HandsOK, Moved, Holding, StartPlaces,
         storeVars, transportVars, callbackVars, bootVars
<1> QED
  BY <1>2, <1>3, <1>4 DEF TypeInv

LEMMA ConnectsTyped ==
  ASSUME TypeInv, NEW t \in Transport, Connects(t)
  PROVE  TypeInv'
<1>1. Moved(Loop(t), "publish")
  BY OneMoves, TypeParts, Threads DEF Connects, PublishFrom, TypeInv
<1>2. PlacesOK'
  BY <1>1, LoopMoves DEF TypeInv, LoopPlaces
<1>3. DataOK'
  BY Threads
     DEF Connects, PublishFrom, TypeInv, DataOK, HandsOK, States, Resting, storeVars,
         transportVars, callbackVars, bootVars
<1>4. HandsOK'
  BY <1>1, Threads
     DEF Connects, PublishFrom, TypeInv, DataOK, HandsOK, Moved, Holding, StartPlaces,
         storeVars, transportVars, callbackVars, bootVars
<1> QED
  BY <1>2, <1>3, <1>4 DEF TypeInv

LEMMA RedialsTyped ==
  ASSUME TypeInv, NEW t \in Transport, Redials(t)
  PROVE  TypeInv'
<1>1. Moved(Loop(t), "publish")
  BY OneMoves, TypeParts, Threads DEF Redials, PublishFrom, TypeInv
<1>2. PlacesOK'
  BY <1>1, LoopMoves DEF TypeInv, LoopPlaces
<1>3. DataOK'
  BY Threads
     DEF Redials, PublishFrom, TypeInv, DataOK, HandsOK, States, Resting, storeVars,
         transportVars, callbackVars, bootVars
<1>4. HandsOK'
  BY <1>1, Threads
     DEF Redials, PublishFrom, TypeInv, DataOK, HandsOK, Moved, Holding, StartPlaces,
         storeVars, transportVars, callbackVars, bootVars
<1> QED
  BY <1>2, <1>3, <1>4 DEF TypeInv

LEMMA ReadsFrameTyped ==
  ASSUME TypeInv, NEW t \in Transport, ReadsFrame(t)
  PROVE  TypeInv'
<1>1. Moved(Loop(t), "handle")
  BY OneMoves, TypeParts, Threads DEF ReadsFrame, TypeInv
<1>2. PlacesOK'
  BY <1>1, LoopMoves DEF TypeInv, LoopPlaces
<1>3. DataOK'
  BY Threads
     DEF ReadsFrame, TypeInv, DataOK, HandsOK, States, Resting, storeVars, transportVars,
         callbackVars, bootVars
<1>4. HandsOK'
  BY <1>1, Threads
     DEF ReadsFrame, TypeInv, DataOK, HandsOK, Moved, Holding, StartPlaces, storeVars,
         transportVars, callbackVars, bootVars
<1> QED
  BY <1>2, <1>3, <1>4 DEF TypeInv

LEMMA AcceptsTooLateTyped ==
  ASSUME TypeInv, NEW t \in Transport, AcceptsTooLate(t)
  PROVE  TypeInv'
<1>1. Moved(Loop(t), "off")
  BY OneMoves, TypeParts, Threads DEF AcceptsTooLate, TypeInv
<1>2. PlacesOK'
  BY <1>1, LoopMoves DEF TypeInv, LoopPlaces
<1>3. DataOK'
  BY Threads
     DEF AcceptsTooLate, TypeInv, DataOK, HandsOK, States, Resting, storeVars,
         transportVars, callbackVars, bootVars
<1>4. HandsOK'
  BY <1>1, Threads
     DEF AcceptsTooLate, TypeInv, DataOK, HandsOK, Moved, Holding, StartPlaces, storeVars,
         transportVars, callbackVars, bootVars
<1> QED
  BY <1>2, <1>3, <1>4 DEF TypeInv

LEMMA SelectsTyped ==
  ASSUME TypeInv, NEW t \in Transport, Selects(t)
  PROVE  TypeInv'
<1>1. Moved(Loop(t), "publish")
  BY OneMoves, TypeParts, Threads DEF Selects, Selection, PublishFrom, TypeInv
<1>2. PlacesOK'
  BY <1>1, LoopMoves DEF TypeInv, LoopPlaces
<1>3. DataOK'
  BY Threads
     DEF Selects, Selection, PublishFrom, TypeInv, DataOK, HandsOK, States, Resting,
         storeVars, transportVars, callbackVars, bootVars
<1>4. HandsOK'
  BY <1>1, Threads
     DEF Selects, Selection, PublishFrom, TypeInv, DataOK, HandsOK, Moved, Holding,
         StartPlaces, storeVars, transportVars, callbackVars, bootVars
<1> QED
  BY <1>2, <1>3, <1>4 DEF TypeInv

LEMMA DeselectsTyped ==
  ASSUME TypeInv, NEW t \in Transport, Deselects(t)
  PROVE  TypeInv'
<1>1. Moved(Loop(t), "publish")
  BY OneMoves, TypeParts, Threads DEF Deselects, Selection, PublishFrom, TypeInv
<1>2. PlacesOK'
  BY <1>1, LoopMoves DEF TypeInv, LoopPlaces
<1>3. DataOK'
  BY Threads
     DEF Deselects, Selection, PublishFrom, TypeInv, DataOK, HandsOK, States, Resting,
         storeVars, transportVars, callbackVars, bootVars
<1>4. HandsOK'
  BY <1>1, Threads
     DEF Deselects, Selection, PublishFrom, TypeInv, DataOK, HandsOK, Moved, Holding,
         StartPlaces, storeVars, transportVars, callbackVars, bootVars
<1> QED
  BY <1>2, <1>3, <1>4 DEF TypeInv

\* In passive mode two threads move: the loop is free again, and the reader
\* is on its way out.
LEMMA HandsOver ==
  ASSUME PlacesOK, NEW t \in Transport, NEW r \in Exits,
         at' = [at EXCEPT ![Loop(t)] = "idle", ![Leaver(t, r)] = "leave"]
  PROVE  /\ PlacesOK'
         /\ \A c \in Callers : at'[c] = at[c]
         /\ at'[Loop(t)] = "idle" /\ at'[Leaver(t, r)] = "leave"
         /\ \A u \in Transport : /\ u # t => at'[Loop(u)] = at[Loop(u)]
                                 /\ at'[Closer(u)] = at[Closer(u)]
                                 /\ at'[Scheduler(u)] = at[Scheduler(u)]
         /\ \A u \in Transport, s \in Exits :
              u # t \/ s # r => at'[Leaver(u, s)] = at[Leaver(u, s)]
<1> DEFINE k == Leaver(t, r)
           l == Loop(t)
<1>1. k \in Thread /\ l \in Thread /\ k # l
  BY Threads, Leavers
<1>2. at = [j \in Thread |-> at[j]]
  BY DEF PlacesOK
<1>3. at' = [j \in Thread |-> IF j = k THEN "leave" ELSE IF j = l THEN "idle" ELSE at[j]]
  BY <1>1, <1>2
<1>4. \A c \in Callers : at'[c] = at[c]
  BY <1>3, Threads, Leavers
<1>5. at'[l] = "idle" /\ at'[k] = "leave"
  BY <1>1, <1>3
<1>6. ASSUME NEW u \in Transport
      PROVE  /\ u # t => at'[Loop(u)] = at[Loop(u)]
             /\ at'[Closer(u)] = at[Closer(u)] /\ at'[Scheduler(u)] = at[Scheduler(u)]
  BY <1>3, Threads, Leavers
<1>7. ASSUME NEW u \in Transport, NEW s \in Exits, u # t \/ s # r
      PROVE  at'[Leaver(u, s)] = at[Leaver(u, s)]
  <2>1. Leaver(u, s) \in Thread /\ Leaver(u, s) # k /\ Leaver(u, s) # l
    BY <1>7, Leavers
  <2> QED
    BY <1>3, <2>1
<1>8. PlacesOK'
  <2>1. at' = [j \in Thread |-> at'[j]]
    BY <1>3
  <2>2. \A u \in Transport : at'[Loop(u)] \in LoopPlaces
    BY <1>5, <1>6 DEF PlacesOK, LoopPlaces
  <2>3. \A u \in Transport, s \in Exits : at'[Leaver(u, s)] \in LeaverPlaces
    BY <1>5, <1>7 DEF PlacesOK, LeaverPlaces
  <2> QED
    BY <1>4, <1>6, <2>1, <2>2, <2>3 DEF PlacesOK
<1> QED
  BY <1>4, <1>5, <1>6, <1>7, <1>8

LEMMA SessionEndsTyped ==
  ASSUME TypeInv, NEW t \in Transport, SessionEnds(t)
  PROVE  TypeInv'
<1>1. DataOK'
  BY DEF SessionEnds, TypeInv, DataOK, storeVars, callbackVars, bootVars
<1>2. PlacesOK' /\ \A c \in Callers : at'[c] = at[c]
  <2>1. CASE mode[t] = "passive"
    BY <2>1, HandsOver DEF SessionEnds, TypeInv
  <2>2. CASE mode[t] # "passive"
    <3>1. Moved(Loop(t), "leave")
      BY <2>2, OneMoves, TypeParts, Threads DEF SessionEnds, TypeInv
    <3> QED
      BY <3>1, LoopMoves, Threads DEF TypeInv, LoopPlaces, Moved
  <2> QED
    BY <2>1, <2>2
<1>3. \A u \in Transport : at'[Loop(u)] = "move" => at[Loop(u)] = "move"
  <2>1. CASE mode[t] = "passive"
    BY <2>1, HandsOver DEF SessionEnds, TypeInv
  <2>2. CASE mode[t] # "passive"
    <3>1. Moved(Loop(t), "leave")
      BY <2>2, OneMoves, TypeParts, Threads DEF SessionEnds, TypeInv
    <3> QED
      BY <3>1, Threads DEF Moved
  <2> QED
    BY <2>1, <2>2
<1>4. HandsOK'
  BY <1>2, <1>3 DEF SessionEnds, TypeInv, HandsOK, bootVars
<1> QED
  BY <1>1, <1>2, <1>4 DEF TypeInv

LEMMA LoopEndTyped ==
  ASSUME TypeInv, NEW t \in Transport, Leaves(t, Loop(t))
  PROVE  TypeInv'
<1>1. Moved(Loop(t), IF ctxDone[t] THEN "idle" ELSE "publish")
  BY OneMoves, TypeParts, Threads DEF Leaves, PublishFrom, TypeInv
<1>2. PlacesOK'
  BY <1>1, LoopMoves DEF TypeInv, LoopPlaces
<1>3. DataOK'
  BY Threads
     DEF Leaves, PublishFrom, TypeInv, DataOK, HandsOK, States, Resting, storeVars,
         transportVars, callbackVars, bootVars
<1>4. HandsOK'
  BY <1>1, Threads
     DEF Leaves, PublishFrom, TypeInv, DataOK, HandsOK, Moved, Holding, StartPlaces,
         storeVars, transportVars, callbackVars, bootVars
<1> QED
  BY <1>2, <1>3, <1>4 DEF TypeInv

LEMMA LeaverEndTyped ==
  ASSUME TypeInv, NEW t \in Transport, NEW r \in Exits, Leaves(t, Leaver(t, r))
  PROVE  TypeInv'
<1>1. Moved(Leaver(t, r), IF ctxDone[t] THEN "off" ELSE "publish")
  BY OneMoves, TypeParts, Leavers DEF Leaves, PublishFrom, TypeInv
<1>2. PlacesOK'
  BY <1>1, LeaverMoves DEF TypeInv, LeaverPlaces
<1>3. DataOK'
  BY Leavers
     DEF Leaves, PublishFrom, TypeInv, DataOK, HandsOK, States, Resting, storeVars,
         transportVars, callbackVars, bootVars
<1>4. HandsOK'
  BY <1>1, Threads, Leavers
     DEF Leaves, TypeInv, HandsOK, Moved, transportVars, bootVars
<1> QED
  BY <1>2, <1>3, <1>4 DEF TypeInv

LEMMA HandlesDataTyped ==
  ASSUME TypeInv, NEW t \in Transport, HandlesData(t)
  PROVE  TypeInv'
<1>1. Moved(Loop(t), IF config = "scripted" THEN "advance" ELSE "idle")
  BY OneMoves, TypeParts, Threads DEF HandlesData, Schedules, TypeInv
<1>2. PlacesOK'
  BY <1>1, LoopMoves DEF TypeInv, LoopPlaces
<1>3. DataOK'
  BY Threads
     DEF HandlesData, Schedules, TypeInv, DataOK, HandsOK, States, Resting, storeVars,
         transportVars, callbackVars, bootVars
<1>4. HandsOK'
  BY <1>1, Threads
     DEF HandlesData, Schedules, TypeInv, DataOK, HandsOK, Moved, Holding, StartPlaces,
         storeVars, transportVars, callbackVars, bootVars
<1> QED
  BY <1>2, <1>3, <1>4 DEF TypeInv

LEMMA BeginTyped ==
  ASSUME TypeInv, NEW t \in Transport, Begin(t)
  PROVE  TypeInv'
<1>1. Moved(Loop(t), IF config = "scripted" /\ run # None /\ boot = None THEN "first" ELSE "idle")
  BY OneMoves, TypeParts, Threads DEF Begin, TypeInv
<1>2. PlacesOK'
  BY <1>1, LoopMoves DEF TypeInv, LoopPlaces
<1>3. DataOK'
  <2>1. boot' \in 0..LastStep \cup {None}
    BY LifecycleAssumption DEF Begin, TypeInv, DataOK
  <2>2. script' \in Seq(0..LastStep)
    BY EmptySeq DEF Begin, TypeInv, DataOK
  <2> QED
    BY <2>1, <2>2, Threads
       DEF Begin, TypeInv, DataOK, storeVars, transportVars, callbackVars
<1>4. HandsOK'
  BY <1>1, Threads
     DEF Begin, TypeInv, DataOK, HandsOK, Moved, Holding, StartPlaces, storeVars,
         transportVars, callbackVars, bootVars
<1> QED
  BY <1>2, <1>3, <1>4 DEF TypeInv

LEMMA SendsFirstTyped ==
  ASSUME TypeInv, NEW t \in Transport, SendsFirst(t)
  PROVE  TypeInv'
<1>1. Moved(Loop(t), "idle")
  BY OneMoves, TypeParts, Threads DEF SendsFirst, TypeInv
<1>2. PlacesOK'
  BY <1>1, LoopMoves DEF TypeInv, LoopPlaces
<1>3. DataOK'
  <2>1. 0 \in 0..LastStep
    BY LifecycleAssumption
  <2>2. script \in Seq(0..LastStep)
    BY DEF TypeInv, DataOK
  <2>3. Append(script, 0) \in Seq(0..LastStep)
    BY <2>1, <2>2, AppendProperties
  <2>4. script' \in Seq(0..LastStep)
    BY <2>2, <2>3 DEF SendsFirst
  <2> QED
    BY <2>4, Threads DEF SendsFirst, TypeInv, DataOK, storeVars, transportVars, callbackVars
<1>4. HandsOK'
  BY <1>1, Threads
     DEF SendsFirst, TypeInv, DataOK, HandsOK, Moved, Holding, StartPlaces, storeVars,
         transportVars, callbackVars, bootVars
<1> QED
  BY <1>2, <1>3, <1>4 DEF TypeInv

LEMMA AdvanceFinishesTyped ==
  ASSUME TypeInv, NEW t \in Transport, AdvanceFinishes(t)
  PROVE  TypeInv'
<1>1. Moved(Loop(t), "idle")
  BY OneMoves, TypeParts, Threads DEF AdvanceFinishes, TypeInv
<1>2. PlacesOK'
  BY <1>1, LoopMoves DEF TypeInv, LoopPlaces
<1>3. DataOK'
  BY Threads, LifecycleAssumption
     DEF AdvanceFinishes, TypeInv, DataOK, HandsOK, storeVars, transportVars, callbackVars,
         bootVars
<1>4. HandsOK'
  BY <1>1, Threads
     DEF AdvanceFinishes, TypeInv, DataOK, HandsOK, Moved, Holding, StartPlaces, storeVars,
         transportVars, callbackVars, bootVars
<1> QED
  BY <1>2, <1>3, <1>4 DEF TypeInv

LEMMA AdvanceMovesTyped ==
  ASSUME TypeInv, NEW t \in Transport, AdvanceMoves(t)
  PROVE  TypeInv'
<1>1. Moved(Loop(t), IF boot = step[t] /\ step[t] + 1 \notin Silent THEN "next" ELSE "idle")
  BY OneMoves, TypeParts, Threads DEF AdvanceMoves, TypeInv
<1>2. PlacesOK'
  BY <1>1, LoopMoves DEF TypeInv, LoopPlaces
<1>3. DataOK'
  <2>1. step[t] + 1 \in 0..LastStep /\ 0 \in 0..LastStep
    BY LifecycleAssumption DEF AdvanceMoves, TypeInv, DataOK, HandsOK
  <2>2. boot' \in 0..LastStep \cup {None}
    BY <2>1 DEF AdvanceMoves, TypeInv, DataOK
  <2>3. step' \in [Transport -> 0..LastStep]
    BY <2>1 DEF AdvanceMoves, TypeInv, DataOK
  <2> QED
    BY <2>2, <2>3, Threads
       DEF AdvanceMoves, TypeInv, DataOK, storeVars, transportVars, callbackVars
<1>4. HandsOK'
  BY <1>1, Threads
     DEF AdvanceMoves, TypeInv, DataOK, HandsOK, Moved, Holding, StartPlaces, storeVars,
         transportVars, callbackVars, bootVars
<1> QED
  BY <1>2, <1>3, <1>4 DEF TypeInv

LEMMA SendsNextTyped ==
  ASSUME TypeInv, NEW t \in Transport, SendsNext(t)
  PROVE  TypeInv'
<1>1. Moved(Loop(t), "idle")
  BY OneMoves, TypeParts, Threads DEF SendsNext, TypeInv
<1>2. PlacesOK'
  BY <1>1, LoopMoves DEF TypeInv, LoopPlaces
<1>3. DataOK'
  <2>1. step[t] \in 0..LastStep /\ 0 \in 0..LastStep
    BY LifecycleAssumption DEF TypeInv, DataOK
  <2>2. script \in Seq(0..LastStep)
    BY DEF TypeInv, DataOK
  <2>3. Append(script, step[t]) \in Seq(0..LastStep)
    BY <2>1, <2>2, AppendProperties
  <2>4. script' \in Seq(0..LastStep)
    BY <2>2, <2>3 DEF SendsNext
  <2>5. step' \in [Transport -> 0..LastStep]
    BY <2>1 DEF SendsNext, TypeInv, DataOK
  <2> QED
    BY <2>4, <2>5, Threads
       DEF SendsNext, TypeInv, DataOK, storeVars, transportVars, callbackVars
<1>4. HandsOK'
  BY <1>1, Threads
     DEF SendsNext, TypeInv, DataOK, HandsOK, Moved, Holding, StartPlaces, storeVars,
         transportVars, callbackVars, bootVars
<1> QED
  BY <1>2, <1>3, <1>4 DEF TypeInv

LEMMA LoopLeavesTyped ==
  ASSUME TypeInv, NEW t \in Transport, LoopLeaves(t)
  PROVE  TypeInv'
<1>1. Moved(Loop(t), "off")
  BY OneMoves, TypeParts, Threads DEF LoopLeaves, TypeInv
<1>2. PlacesOK'
  BY <1>1, LoopMoves DEF TypeInv, LoopPlaces
<1>3. DataOK'
  BY Threads
     DEF LoopLeaves, TypeInv, DataOK, HandsOK, States, Resting, storeVars, transportVars,
         callbackVars, bootVars
<1>4. HandsOK'
  BY <1>1, Threads
     DEF LoopLeaves, TypeInv, DataOK, HandsOK, Moved, Holding, StartPlaces, storeVars,
         transportVars, callbackVars, bootVars
<1> QED
  BY <1>2, <1>3, <1>4 DEF TypeInv

LEMMA ShutdownTakesTyped ==
  ASSUME TypeInv, NEW t \in Transport, ShutdownTakes(t)
  PROVE  TypeInv'
<1>1. Moved(Closer(t), "publish")
  BY OneMoves, TypeParts, Threads DEF ShutdownTakes, PublishFrom, TypeInv
<1>2. PlacesOK'
  BY <1>1, CloserMoves DEF TypeInv, CloserPlaces
<1>3. DataOK'
  BY Threads
     DEF ShutdownTakes, PublishFrom, TypeInv, DataOK, HandsOK, States, Resting, storeVars,
         transportVars, callbackVars, bootVars
<1>4. HandsOK'
  BY <1>1, Threads
     DEF ShutdownTakes, PublishFrom, TypeInv, DataOK, HandsOK, Moved, Holding, StartPlaces,
         storeVars, transportVars, callbackVars, bootVars
<1> QED
  BY <1>2, <1>3, <1>4 DEF TypeInv

LEMMA SchedulerEndsTyped ==
  ASSUME TypeInv, NEW t \in Transport, SchedulerEnds(t)
  PROVE  TypeInv'
<1>1. Moved(Scheduler(t), "off")
  BY OneMoves, TypeParts, Threads DEF SchedulerEnds, TypeInv
<1>2. PlacesOK'
  BY <1>1, SchedulerMoves DEF TypeInv, CloserPlaces
<1>3. DataOK'
  BY Threads
     DEF SchedulerEnds, TypeInv, DataOK, HandsOK, States, Resting, storeVars,
         transportVars, callbackVars, bootVars
<1>4. HandsOK'
  BY <1>1, Threads
     DEF SchedulerEnds, TypeInv, DataOK, HandsOK, Moved, Holding, StartPlaces, storeVars,
         transportVars, callbackVars, bootVars
<1> QED
  BY <1>2, <1>3, <1>4 DEF TypeInv

LEMMA CallbackReadsTyped ==
  ASSUME TypeInv, NEW k \in Thread, CallbackReads(k)
  PROVE  TypeInv'
<1>1. Moved(k, "set")
  BY OneMoves, TypeParts DEF CallbackReads, TypeInv
<1>2. PlacesOK'
  <2>1. CASE k \in Callers
    BY <1>1, <2>1, CallerMoves DEF TypeInv, CallPlaces, StartPlaces
  <2>2. CASE \E t \in Transport : k = Loop(t)
    BY <1>1, <2>2, LoopMoves DEF TypeInv, LoopPlaces
  <2>3. CASE \E t \in Transport : k = Closer(t)
    BY <1>1, <2>3, CloserMoves DEF TypeInv, CloserPlaces
  <2>4. CASE \E t \in Transport : k = Scheduler(t)
    BY <2>4 DEF CallbackReads, TypeInv, PlacesOK
  <2>5. CASE \E t \in Transport, r \in Exits : k = Leaver(t, r)
    BY <1>1, <2>5, LeaverMoves DEF TypeInv, LeaverPlaces
  <2> QED
    BY <2>1, <2>2, <2>3, <2>4, <2>5, EveryThread
<1>3. DataOK'
  BY DEF CallbackReads, TypeInv, DataOK, storeVars, transportVars
<1>4. HandsOK'
  BY <1>1, Threads
     DEF CallbackReads, TypeInv, HandsOK, Moved, Holding, StartPlaces, transportVars
<1> QED
  BY <1>2, <1>3, <1>4 DEF TypeInv

LEMMA CallbackSetsTyped ==
  ASSUME TypeInv, NEW k \in Thread, CallbackSets(k)
  PROVE  TypeInv'
<1>1. Moved(k, AfterCallback(k))
  BY OneMoves, TypeParts DEF CallbackSets, TypeInv
<1>2. PlacesOK'
  <2>1. CASE k \in Callers
    BY <1>1, <2>1, CallerMoves, Afterwards DEF TypeInv, CallPlaces, StartPlaces
  <2>2. CASE \E t \in Transport : k = Loop(t)
    BY <1>1, <2>2, LoopMoves, Afterwards DEF TypeInv, LoopPlaces
  <2>3. CASE \E t \in Transport : k = Closer(t)
    BY <1>1, <2>3, CloserMoves, Afterwards DEF TypeInv, CloserPlaces
  <2>4. CASE \E t \in Transport : k = Scheduler(t)
    BY <2>4 DEF CallbackSets, TypeInv, PlacesOK
  <2>5. CASE \E t \in Transport, r \in Exits : k = Leaver(t, r)
    BY <1>1, <2>5, LeaverMoves, Afterwards DEF TypeInv, LeaverPlaces
  <2> QED
    BY <2>1, <2>2, <2>3, <2>4, <2>5, EveryThread
<1>3. DataOK'
  BY DEF CallbackSets, SetRuntime, TypeInv, DataOK, States, bootVars, transportVars
<1>4. HandsOK'
  <2>1. k \in Callers => at[k] \in Holding
    BY DEF CallbackSets, Holding, StartPlaces
  <2>2. \A t \in Transport : k = Loop(t) => AfterCallback(k) # "move"
    BY Afterwards
  <2> QED
    BY <1>1, <2>1, <2>2, Threads, EveryThread
       DEF CallbackSets, TypeInv, HandsOK, Moved, bootVars, transportVars
<1> QED
  BY <1>2, <1>3, <1>4 DEF TypeInv

LEMMA LaunchTyped ==
  ASSUME TypeInv, NEW c \in Callers, Launch(c)
  PROVE  TypeInv'
<1>1. at' = [k \in Thread |-> IF k \in {c, Loop(mine[c]), Scheduler(mine[c])} THEN "idle" ELSE at[k]]
  <2>1. at = [k \in Thread |-> at[k]] /\ mine[c] \in Transport
    BY DEF Launch, TypeInv, PlacesOK, HandsOK, Holding, StartPlaces
  <2> QED
    BY <2>1, Threads DEF Launch
<1>2. mine[c] \in Transport
  BY DEF Launch, TypeInv, HandsOK, Holding, StartPlaces
<1>3. PlacesOK'
  <2>1. \A u \in Transport, s \in Exits : at'[Leaver(u, s)] = at[Leaver(u, s)]
    BY <1>1, <1>2, Leavers
  <2> QED
    BY <1>1, <1>2, <2>1, Threads DEF TypeInv, PlacesOK, CallPlaces, LoopPlaces
<1>4. DataOK'
  BY DEF Launch, TypeInv, DataOK, storeVars, transportVars, callbackVars, bootVars
<1>5. HandsOK'
  BY <1>1, <1>2, Threads
     DEF Launch, TypeInv, DataOK, HandsOK, Holding, StartPlaces, transportVars, bootVars
<1> QED
  BY <1>3, <1>4, <1>5 DEF TypeInv

LEMMA RecycleTyped ==
  ASSUME TypeInv, NEW t \in Transport, Recycle(t)
  PROVE  TypeInv'
<1>1. Moved(Closer(t), "off")
  <2>1. at = [k \in Thread |-> at[k]]
    BY DEF TypeInv, PlacesOK
  <2> QED
    BY <2>1, Threads DEF Recycle, Moved
<1>2. PlacesOK'
  BY <1>1, CloserMoves DEF TypeInv, CloserPlaces
<1>3. DataOK'
  BY DEF Recycle, TypeInv, DataOK, storeVars, bootVars, callbackVars
<1>4. HandsOK'
  <2>1. \A u \in Transport : u # t => mode'[u] = mode[u]
    BY DEF Recycle, TypeInv, DataOK
  <2> QED
    BY <1>1, <2>1, Threads DEF Recycle, TypeInv, DataOK, HandsOK, Moved, bootVars
<1> QED
  BY <1>2, <1>3, <1>4 DEF TypeInv

\* The steps that move no thread.
LEMMA OthersTyped ==
  ASSUME TypeInv, (\E t \in Transport : SchedulerTicks(t)) \/ UpdateHSMS \/ UNCHANGED vars
  PROVE  TypeInv'
<1>1. CASE \E t \in Transport : SchedulerTicks(t)
  BY <1>1
     DEF SchedulerTicks, TypeInv, PlacesOK, DataOK, HandsOK, transportVars, callbackVars,
         bootVars
<1>2. CASE UpdateHSMS
  <2>1. Settings \subseteq Modes
    BY LifecycleAssumption DEF Modes
  <2> QED
    BY <1>2, <2>1
       DEF UpdateHSMS, TypeInv, PlacesOK, DataOK, HandsOK, transportVars, callbackVars,
           bootVars
<1>3. CASE UNCHANGED vars
  BY <1>3
     DEF vars, TypeInv, PlacesOK, DataOK, HandsOK, storeVars, transportVars, callbackVars,
         bootVars
<1> QED
  BY <1>1, <1>2, <1>3

LEMMA AdvanceReadsTyped ==
  ASSUME TypeInv, NEW t \in Transport, AdvanceReads(t)
  PROVE  TypeInv'
<1>1. CASE Goto(Loop(t), "idle") /\ UNCHANGED step
  <2>1. Moved(Loop(t), "idle")
    BY <1>1, OneMoves, TypeParts, Threads DEF TypeInv
  <2>2. PlacesOK'
    BY <2>1, LoopMoves DEF TypeInv, LoopPlaces
  <2>3. DataOK' /\ HandsOK'
    BY <1>1, <2>1, Threads
       DEF AdvanceReads, TypeInv, DataOK, HandsOK, Moved, storeVars, transportVars,
           callbackVars
  <2> QED
    BY <2>2, <2>3 DEF TypeInv
<1>2. CASE /\ boot # None
           /\ step' = [step EXCEPT ![t] = boot]
           /\ Goto(Loop(t), IF boot = LastStep THEN "finish" ELSE "move")
  <2>1. Moved(Loop(t), IF boot = LastStep THEN "finish" ELSE "move")
    BY <1>2, OneMoves, TypeParts, Threads DEF TypeInv
  <2>2. PlacesOK'
    BY <2>1, LoopMoves DEF TypeInv, LoopPlaces
  <2>3. boot \in 0..LastStep
    BY <1>2 DEF TypeInv, DataOK
  <2>4. DataOK'
    BY <1>2, <2>3 DEF AdvanceReads, TypeInv, DataOK, storeVars, transportVars, callbackVars
  <2>5. \A u \in Transport : at'[Loop(u)] = "move" => step'[u] < LastStep
    <3>1. step'[t] = boot /\ \A u \in Transport : u # t => step'[u] = step[u]
      BY <1>2 DEF TypeInv, DataOK
    <3>2. boot # LastStep => boot < LastStep
      BY <2>3, LifecycleAssumption
    <3> QED
      BY <2>1, <3>1, <3>2, Threads DEF TypeInv, HandsOK, Moved
  <2>6. HandsOK'
    BY <1>2, <2>1, <2>5, Threads
       DEF AdvanceReads, TypeInv, HandsOK, Moved, storeVars, transportVars
  <2> QED
    BY <2>2, <2>4, <2>6 DEF TypeInv
<1> QED
  BY <1>1, <1>2 DEF AdvanceReads

LEMMA StepTyped ==
  ASSUME TypeInv, [Next]_vars
  PROVE  TypeInv'
<1>1. ASSUME NEW c \in Callers, StartNext(c) PROVE TypeInv'
  BY <1>1, StartLocksTyped, StartRecordsTyped, StartShowsTyped, OpenActiveTyped,
     ListenTyped, RegisterTyped, LaunchTyped, ListenFailsTyped, AbandonTyped
     DEF StartNext
<1>2. ASSUME NEW c \in Callers, StopNext(c) PROVE TypeInv'
  BY <1>2, StopLocksTyped, StopCancelsTyped, StopWaitsTyped, ReportStoppedTyped DEF StopNext
<1>3. ASSUME NEW c \in Callers, CallNext(c) PROVE TypeInv'
  BY <1>3, ToggleReadsTyped, InjectChecksTyped, InjectRunsTyped DEF CallNext
<1>4. ASSUME NEW k \in Thread, CallbackNext(k) PROVE TypeInv'
  BY <1>4, CallbackReadsTyped, CallbackSetsTyped DEF CallbackNext
<1>5. ASSUME NEW t \in Transport, LinkNext(t) PROVE TypeInv'
  BY <1>5, ConnectsTyped, RedialsTyped, ReadsFrameTyped, AcceptsTooLateTyped DEF LinkNext
<1>6. ASSUME NEW t \in Transport, HandleNext(t) PROVE TypeInv'
  BY <1>6, SelectsTyped, DeselectsTyped, SessionEndsTyped, LoopEndTyped DEF HandleNext
<1>7. ASSUME NEW t \in Transport, DataNext(t) PROVE TypeInv'
  BY <1>7, HandlesDataTyped, BeginTyped, SendsFirstTyped, AdvanceReadsTyped,
     AdvanceFinishesTyped, AdvanceMovesTyped, SendsNextTyped
     DEF DataNext
<1>8. ASSUME NEW t \in Transport, EndNext(t) PROVE TypeInv'
  BY <1>8, ShutdownTakesTyped, LoopLeavesTyped, SchedulerEndsTyped, RecycleTyped DEF EndNext
<1>9. ASSUME NEW t \in Transport, LeaversNext(t) PROVE TypeInv'
  BY <1>9, LeaverEndTyped DEF LeaversNext
<1> QED
  BY <1>1, <1>2, <1>3, <1>4, <1>5, <1>6, <1>7, <1>8, <1>9, OthersTyped DEF Next

LEMMA InitTyped == Init => TypeInv
<1> SUFFICES ASSUME Init PROVE TypeInv
  OBVIOUS
<1>1. PlacesOK
  BY Threads, Leavers DEF Init, PlacesOK, CallPlaces, LoopPlaces, CloserPlaces, LeaverPlaces
<1>2. DataOK
  <2>1. 0 \in 0..LastStep
    BY LifecycleAssumption
  <2>2. script \in Seq(0..LastStep)
    BY EmptySeq DEF Init
  <2>3. /\ mode \in [Transport -> Modes \cup {None}]
        /\ mine \in [Callers -> Transport \cup {None}]
    BY DEF Init
  <2>4. Settings \subseteq Modes
    BY LifecycleAssumption DEF Modes
  <2> QED
    BY <2>1, <2>2, <2>3, <2>4 DEF Init, DataOK, States
<1>3. HandsOK
  BY Threads DEF Init, HandsOK, Holding, StartPlaces
<1> QED
  BY <1>1, <1>2, <1>3 DEF TypeInv

\* Every variable keeps its type and every thread is at one of its own
\* places, for any number of callers, transports and runs, overlapping or not.
THEOREM LifecycleTypes == Spec => []TypeOK
<1>1. TypeInv /\ [Next]_vars => TypeInv'
  BY StepTyped
<1>2. TypeInv => TypeOK
  BY TypeParts DEF TypeInv
<1> QED
  BY <1>1, <1>2, InitTyped, PTL DEF Spec

-----------------------------------------------------------------------------
(***************************************************************************)
(* The inductive invariant, of a caller c whose call is the only one: what *)
(* its place says of the run, what is left of a transport that is not held, *)
(* how far a held one has come, and what the operator is shown meanwhile.  *)
(***************************************************************************)
CallInv(c) ==
  /\ at[c] \in StartPlaces \cup {"abandon", "inject"} => run = mine[c] /\ run # None
  /\ at[c] \in {"cancel", "wait"} => run = None /\ mine[c] # None
  /\ at[c] \in {"report", "starting"} => run = None
  /\ at[c] = "stopping" => run # None

\* The transport of the run on record, or of the run that is being stopped.
Held(c, t) == t = run \/ (at[c] \in {"cancel", "wait"} /\ t = mine[c])

Free(t) ==
  /\ at[Loop(t)] = "off" /\ ~socket[t] /\ ~listener[t] /\ link[t] = "none"
  /\ mode[t] = None => ~ctxDone[t] /\ at[Closer(t)] = "off"
  /\ mode[t] # None => ctxDone[t] /\ at[Closer(t)] = "done"
FreeInv(c) == \A t \in Transport : ~Held(c, t) => Free(t)

Used(c, t) ==
  /\ mode[t] # None
  /\ ctxDone[t] <=> at[c] \in {"wait", "abandon"}
  /\ at[c] # "register" => (socket[t] <=> listener[t])
  /\ at[c] = "register" => socket[t]
  /\ ~ctxDone[t] => at[Closer(t)] = "off"
  /\ at[Closer(t)] # "off" => ~socket[t] /\ link[t] = "none"
  /\ at[c] \in StartPlaces \cup {"abandon"} => at[Loop(t)] = "off" /\ link[t] = "none"
  /\ at[c] \in {"record", "show", "open", "abandon"} => ~socket[t]
HeldInv(c) == \A t \in Transport : Held(c, t) => Used(c, t)

StopInv(c) ==
  /\ run = None /\ at[c] \in {"idle", "starting"} =>
       ~listening /\ shown = "NOT CONNECTED" /\ pending = {}
  /\ at[c] \in StartPlaces => pending = {}
  /\ run = None \/ at[c] \in StartPlaces \cup {"abandon"} => boot = None

\* A run whose start has returned.
Running(c) == run # None /\ at[c] \in {"idle", "stopping", "inject"}

\* The status is that of the link, or a passive reader's LISTENING, which
\* came late or is still to come.
Status(t) ==
  \/ shown = LinkState(t)
  \/ mode[t] = "passive" /\ (shown = "LISTENING" \/ (link[t] = "none" /\ ~AllOut(t)))

Shown(t) ==
  /\ applied = mode[t] /\ listening /\ pending \subseteq {t}
  /\ at[Loop(t)] \in {"publish", "set"} => says[Loop(t)] = LinkState(t)
  /\ at[Loop(t)] \notin {"publish", "set", "leave"} => Status(t)
  /\ at[Loop(t)] = "leave" => link[t] = "none" /\ mode[t] # "passive"
  /\ at[Loop(t)] = "set" => saw[Loop(t)]
  /\ at[Loop(t)] \in {"handle", "advance", "finish", "move", "next"} => link[t] # "none"
ShowInv(c) ==
  /\ at[c] \in StartPlaces \ {"record"} => applied = mode[run]
  /\ at[c] \in StartPlaces \ {"record", "show"} => listening
  /\ at[c] = "register" => mode[run] = "passive"
  /\ at[c] \in {"publish", "set"} => says[c] = Resting(run)
  /\ at[c] = "set" => saw[c]
  /\ at[c] = "launch" => shown = Resting(run)
  /\ Running(c) => Shown(run)

Scripted(t) ==
  boot # None =>
    /\ at[Loop(t)] = "first" => boot = 0 /\ script = <<>>
    /\ at[Loop(t)] = "next" => /\ boot = step[t] /\ boot > 0 /\ boot \notin Silent
                               /\ SentUpTo(boot - 1)
    /\ at[Loop(t)] \notin {"first", "next"} => SentUpTo(boot)
    /\ at[Loop(t)] = "move" => boot = step[t]
BootInv(c) == Running(c) => Scripted(run)

Inv(c) == CallInv(c) /\ FreeInv(c) /\ HeldInv(c) /\ StopInv(c) /\ ShowInv(c) /\ BootInv(c)

\* A reader is on its way out of a passive transport that is held and has
\* started, and the one thing it publishes is LISTENING.
Leaving(c, t, r) ==
  /\ Held(c, t) /\ mode[t] = "passive" /\ at[c] \notin StartPlaces \cup {"abandon"}
  /\ at[Leaver(t, r)] \in {"publish", "set"} => says[Leaver(t, r)] = "LISTENING"
  /\ at[Leaver(t, r)] = "set" /\ run = t => saw[Leaver(t, r)]
ExitInv(c) == \A t \in Transport, r \in Exits : at[Leaver(t, r)] # "off" => Leaving(c, t, r)

-----------------------------------------------------------------------------
(***************************************************************************)
(* The loop of a transport moves.                                          *)
(***************************************************************************)
LEMMA CallerAlone ==
  ASSUME NEW c \in Callers, NEW there, Moved(c, there)
  PROVE  /\ at'[c] = there
         /\ \A t \in Transport : /\ at'[Loop(t)] = at[Loop(t)]
                                 /\ at'[Closer(t)] = at[Closer(t)]
                                 /\ at'[Scheduler(t)] = at[Scheduler(t)]
         /\ \A t \in Transport, r \in Exits : at'[Leaver(t, r)] = at[Leaver(t, r)]
         /\ \A t \in Transport : AllOut(t)' <=> AllOut(t)
<1>1. \A t \in Transport, r \in Exits : at'[Leaver(t, r)] = at[Leaver(t, r)]
  BY Leavers DEF Moved
<1>2. \A t \in Transport : AllOut(t)' <=> AllOut(t)
  BY <1>1 DEF AllOut
<1> QED
  BY <1>1, <1>2, Threads DEF Moved

LEMMA LoopAlone ==
  ASSUME NEW t \in Transport, NEW there, Moved(Loop(t), there)
  PROVE  /\ at'[Loop(t)] = there
         /\ \A c \in Callers : at'[c] = at[c]
         /\ \A u \in Transport : /\ u # t => at'[Loop(u)] = at[Loop(u)]
                                 /\ at'[Closer(u)] = at[Closer(u)]
                                 /\ at'[Scheduler(u)] = at[Scheduler(u)]
         /\ \A u \in Transport, r \in Exits : at'[Leaver(u, r)] = at[Leaver(u, r)]
         /\ \A u \in Transport : AllOut(u)' <=> AllOut(u)
<1>1. \A u \in Transport, r \in Exits : at'[Leaver(u, r)] = at[Leaver(u, r)]
  BY Leavers DEF Moved
<1>2. \A u \in Transport : AllOut(u)' <=> AllOut(u)
  BY <1>1 DEF AllOut
<1> QED
  BY <1>1, <1>2, Threads DEF Moved

LEMMA CloserAlone ==
  ASSUME NEW t \in Transport, NEW there, Moved(Closer(t), there)
  PROVE  /\ at'[Closer(t)] = there
         /\ \A c \in Callers : at'[c] = at[c]
         /\ \A u \in Transport : /\ u # t => at'[Closer(u)] = at[Closer(u)]
                                 /\ at'[Loop(u)] = at[Loop(u)]
                                 /\ at'[Scheduler(u)] = at[Scheduler(u)]
         /\ \A u \in Transport, r \in Exits : at'[Leaver(u, r)] = at[Leaver(u, r)]
         /\ \A u \in Transport : AllOut(u)' <=> AllOut(u)
<1>1. \A u \in Transport, r \in Exits : at'[Leaver(u, r)] = at[Leaver(u, r)]
  BY Leavers DEF Moved
<1>2. \A u \in Transport : AllOut(u)' <=> AllOut(u)
  BY <1>1 DEF AllOut
<1> QED
  BY <1>1, <1>2, Threads DEF Moved

LEMMA LeaverAlone ==
  ASSUME NEW t \in Transport, NEW r \in Exits, NEW there, Moved(Leaver(t, r), there)
  PROVE  /\ at'[Leaver(t, r)] = there
         /\ \A c \in Callers : at'[c] = at[c]
         /\ \A u \in Transport : /\ at'[Loop(u)] = at[Loop(u)]
                                 /\ at'[Closer(u)] = at[Closer(u)]
                                 /\ at'[Scheduler(u)] = at[Scheduler(u)]
         /\ \A u \in Transport, s \in Exits :
              u # t \/ s # r => at'[Leaver(u, s)] = at[Leaver(u, s)]
<1>1. \A u \in Transport, s \in Exits :
        u # t \/ s # r => at'[Leaver(u, s)] = at[Leaver(u, s)]
  BY Leavers DEF Moved
<1>2. \A u \in Transport : /\ at'[Loop(u)] = at[Loop(u)]
                            /\ at'[Closer(u)] = at[Closer(u)]
                            /\ at'[Scheduler(u)] = at[Scheduler(u)]
  BY Threads, Leavers DEF Moved
<1>3. \A c \in Callers : at'[c] = at[c]
  BY Threads, Leavers DEF Moved
<1> QED
  BY <1>1, <1>2, <1>3 DEF Moved

\* A transport that is held and has started is that of the run, or of the
\* run that is being stopped.
LEMMA HeldActs ==
  ASSUME NEW c \in Callers, NEW t \in Transport, TypeInv, Inv(c), Held(c, t),
         at[c] \notin StartPlaces \cup {"abandon"}
  PROVE  /\ Used(c, t)
         /\ \/ run = t /\ Running(c) /\ Shown(t) /\ Scripted(t)
            \/ run = None /\ boot = None /\ at[c] \in {"cancel", "wait"} /\ mine[c] = t
<1>1. Held(c, t)
  OBVIOUS
<1>2. Used(c, t)
  BY <1>1 DEF Inv, HeldInv
<1>3. at[c] \notin StartPlaces \cup {"abandon"}
  OBVIOUS
<1>4. at[c] \in CallPlaces /\ t # None
  BY LifecycleAssumption DEF TypeInv, PlacesOK
<1>5. CASE at[c] \in {"cancel", "wait"}
  BY <1>1, <1>2, <1>5, <1>4 DEF Inv, CallInv, Held, StopInv
<1>6. CASE at[c] \notin {"cancel", "wait"}
  <2>1. run = t
    BY <1>1, <1>6 DEF Held
  <2>2. Running(c)
    BY <1>3, <1>4, <1>6, <2>1 DEF Inv, CallInv, Running, CallPlaces
  <2> QED
    BY <1>1, <1>2, <2>1, <2>2 DEF Inv, ShowInv, BootInv
<1> QED
  BY <1>5, <1>6

\* A loop is there only once its run has started, or while it is stopped.
LEMMA LoopActs ==
  ASSUME NEW c \in Callers, NEW t \in Transport, TypeInv, Inv(c), at[Loop(t)] # "off"
  PROVE  /\ Used(c, t) /\ Held(c, t)
         /\ \/ run = t /\ Running(c) /\ Shown(t) /\ Scripted(t)
            \/ run = None /\ boot = None /\ at[c] \in {"cancel", "wait"} /\ mine[c] = t
<1>1. Held(c, t)
  BY DEF Inv, FreeInv, Free
<1>2. Used(c, t)
  BY <1>1 DEF Inv, HeldInv
<1>3. at[c] \notin StartPlaces \cup {"abandon"}
  BY <1>2 DEF Used
<1> QED
  BY <1>1, <1>2, <1>3, HeldActs

\* What a step of a loop or of a reader on its way out leaves as it was.
LEMMA RunStep ==
  ASSUME NEW c \in Callers, NEW t \in Transport, TypeInv, Inv(c),
         Used(c, t), Held(c, t),
         \/ run = t /\ Running(c)
         \/ run = None /\ boot = None /\ at[c] \in {"cancel", "wait"},
         at'[c] = at[c],
         \A u \in Transport : /\ u # t => at'[Loop(u)] = at[Loop(u)]
                              /\ at'[Closer(u)] = at[Closer(u)],
         UNCHANGED <<run, mine, mode, ctxDone, socket, listener>>,
         \A u \in Transport : u # t => link'[u] = link[u],
         link'[t] # "none" => link[t] # "none" \/ ~ctxDone[t],
         run = None /\ boot = None => boot' = None,
         run = t => Shown(t)' /\ Scripted(t)'
  PROVE  Inv(c)'
<1>1. /\ at'[c] = at[c]
      /\ \A u \in Transport : /\ u # t => at'[Loop(u)] = at[Loop(u)]
                              /\ at'[Closer(u)] = at[Closer(u)]
  OBVIOUS
<1>2. /\ Used(c, t) /\ Held(c, t)
      /\ \/ run = t /\ Running(c)
         \/ run = None /\ boot = None /\ at[c] \in {"cancel", "wait"}
  OBVIOUS
<1>3. CallInv(c)'
  BY <1>1 DEF Inv, CallInv
<1>4. FreeInv(c)'
  <2> SUFFICES ASSUME NEW u \in Transport, ~Held(c, u)' PROVE Free(u)'
    BY DEF FreeInv
  <2>1. ~Held(c, u) /\ u # t
    BY <1>1, <1>2 DEF Held
  <2>2. Free(u)
    BY <2>1 DEF Inv, FreeInv
  <2> QED
    BY <1>1, <2>1, <2>2 DEF Free
<1>5. HeldInv(c)'
  <2> SUFFICES ASSUME NEW u \in Transport, Held(c, u)' PROVE Used(c, u)'
    BY DEF HeldInv
  <2>1. Held(c, u)
    BY <1>1 DEF Held
  <2>2. Used(c, u)
    BY <2>1 DEF Inv, HeldInv
  <2>3. CASE u = t
    <3>1. at[c] \notin StartPlaces \cup {"abandon"}
      BY <1>2 DEF Running, StartPlaces
    <3>2. at[Closer(t)] # "off" => link'[t] = "none"
      BY <1>2 DEF Used
    <3> QED
      BY <1>1, <2>2, <2>3, <3>1, <3>2 DEF Used, StartPlaces
  <2>4. CASE u # t
    BY <1>1, <2>2, <2>4 DEF Used
  <2> QED
    BY <2>3, <2>4
<1>6. StopInv(c)'
  BY <1>1, <1>2 DEF StopInv, Running, StartPlaces
<1>7. ShowInv(c)'
  BY <1>1, <1>2 DEF ShowInv, Running, StartPlaces
<1>8. BootInv(c)'
  BY <1>1, <1>2 DEF BootInv, Running
<1> QED
  BY <1>3, <1>4, <1>5, <1>6, <1>7, <1>8 DEF Inv

LEMMA LoopStep ==
  ASSUME NEW c \in Callers, NEW t \in Transport, TypeInv, Inv(c), at[Loop(t)] # "off",
         NEW there, Moved(Loop(t), there),
         UNCHANGED <<run, mine, mode, ctxDone, socket, listener>>,
         \A u \in Transport : u # t => link'[u] = link[u],
         link'[t] # "none" => link[t] # "none" \/ ~ctxDone[t],
         run = None /\ boot = None => boot' = None,
         run = t => Shown(t)' /\ Scripted(t)'
  PROVE  Inv(c)'
<1>1. /\ at'[c] = at[c]
      /\ \A u \in Transport : /\ u # t => at'[Loop(u)] = at[Loop(u)]
                              /\ at'[Closer(u)] = at[Closer(u)]
  BY LoopAlone
<1>2. /\ Used(c, t) /\ Held(c, t)
      /\ \/ run = t /\ Running(c)
         \/ run = None /\ boot = None /\ at[c] \in {"cancel", "wait"}
  BY LoopActs
<1> QED
  BY <1>1, <1>2, RunStep

(***************************************************************************)
(* What of the script has been sent.                                       *)
(***************************************************************************)
Sent(s, n) ==
  /\ ToSet(s) = (0..n) \ Silent
  /\ \A i, j \in DOMAIN s : i < j => s[i] < s[j]

LEMMA SentFirst == Sent(Append(<<>>, 0), 0)
<1>1. Append(<<>>, 0) = <<0>>
  OBVIOUS
<1>2. DOMAIN <<0>> = {1} /\ <<0>>[1] = 0
  OBVIOUS
<1>3. ToSet(<<0>>) = {0}
  BY <1>2 DEF ToSet
<1>4. (0..0) \ Silent = {0}
  BY LifecycleAssumption
<1>5. \A i, j \in DOMAIN <<0>> : ~(i < j)
  BY <1>2
<1> QED
  BY <1>1, <1>3, <1>4, <1>5 DEF Sent

LEMMA SentSilent ==
  ASSUME NEW s, NEW n \in Nat, Sent(s, n), n + 1 \in Silent
  PROVE  Sent(s, n + 1)
<1>1. (0..n + 1) \ Silent = (0..n) \ Silent
  OBVIOUS
<1> QED
  BY <1>1 DEF Sent

LEMMA SentMore ==
  ASSUME NEW s \in Seq(0..LastStep), NEW n \in 0..LastStep, Sent(s, n - 1), n \notin Silent
  PROVE  Sent(Append(s, n), n)
<1> DEFINE u == Append(s, n)
<1>1. /\ Len(u) = Len(s) + 1 /\ Len(s) \in Nat /\ n \in Nat
      /\ \A i \in 1..Len(s) : u[i] = s[i]
      /\ u[Len(s) + 1] = n
      /\ DOMAIN s = 1..Len(s) /\ DOMAIN u = 1..Len(u)
  <2>1. u \in Seq(0..LastStep) /\ Len(u) = Len(s) + 1 /\ u[Len(s) + 1] = n
    BY AppendProperties
  <2>2. \A i \in 1..Len(s) : u[i] = s[i]
    BY AppendProperties
  <2>3. n \in Nat
    BY LifecycleAssumption
  <2> QED
    BY <2>1, <2>2, <2>3
<1> HIDE DEF u
<1>2. \A i \in 1..Len(s) : s[i] \in Nat /\ s[i] < n
  <2> SUFFICES ASSUME NEW i \in 1..Len(s) PROVE s[i] \in Nat /\ s[i] < n
    OBVIOUS
  <2>1. s[i] \in ToSet(s)
    BY <1>1 DEF ToSet
  <2>2. s[i] \in 0..(n - 1)
    BY <2>1 DEF Sent
  <2> QED
    BY <1>1, <2>2
<1>3. ToSet(u) = (0..n) \ Silent
  <2>1. ToSet(u) = ToSet(s) \cup {n}
    <3>1. DOMAIN u = DOMAIN s \cup {Len(s) + 1}
      BY <1>1
    <3> QED
      BY <3>1, <1>1 DEF ToSet
  <2>2. ((0..(n - 1)) \ Silent) \cup {n} = (0..n) \ Silent
    BY <1>1
  <2> QED
    BY <2>1, <2>2 DEF Sent
<1>4. ASSUME NEW i \in DOMAIN u, NEW j \in DOMAIN u, i < j PROVE u[i] < u[j]
  <2>1. CASE j = Len(s) + 1
    BY <1>1, <1>2, <1>4, <2>1
  <2>2. CASE j # Len(s) + 1
    <3>1. i \in DOMAIN s /\ j \in DOMAIN s
      BY <1>1, <1>4, <2>2
    <3>2. s[i] < s[j]
      BY <1>4, <3>1 DEF Sent
    <3> QED
      BY <1>1, <3>1, <3>2
  <2> QED
    BY <2>1, <2>2
<1>5. Sent(u, n)
  BY <1>3, <1>4 DEF Sent
<1> QED
  BY <1>5 DEF u

LEMMA ConnectsKeeps ==
  ASSUME NEW c \in Callers, NEW t \in Transport, TypeInv, Inv(c), Connects(t)
  PROVE  Inv(c)'
<1>1. Moved(Loop(t), "publish")
  BY OneMoves, TypeParts, Threads DEF Connects, PublishFrom, TypeInv
<1>2. at[Loop(t)] # "off"
  BY DEF Connects, PublishFrom
<1>3. /\ Used(c, t) /\ t # None
      /\ \/ run = t /\ Running(c) /\ Shown(t) /\ Scripted(t)
         \/ run = None /\ boot = None /\ at[c] \in {"cancel", "wait"}
  BY <1>2, LoopActs, LifecycleAssumption
<1>4. ASSUME run = t PROVE Shown(t)'
  BY <1>1, <1>3, <1>4, LoopAlone, Threads
     DEF Connects, PublishFrom, Shown, Status, LinkState, Resting, TypeInv, DataOK, storeVars,
         transportVars, callbackVars, bootVars
<1>5. ASSUME run = t PROVE Scripted(t)'
  BY <1>1, <1>3, <1>5, LoopAlone, LifecycleAssumption
     DEF Connects, PublishFrom, Scripted, SentUpTo, storeVars, transportVars, callbackVars,
         bootVars
<1> QED
  BY <1>1, <1>2, <1>4, <1>5, LoopStep
     DEF Connects, PublishFrom, TypeInv, DataOK, storeVars, transportVars, callbackVars,
         bootVars

LEMMA RedialsKeeps ==
  ASSUME NEW c \in Callers, NEW t \in Transport, TypeInv, Inv(c), Redials(t)
  PROVE  Inv(c)'
<1>1. Moved(Loop(t), "publish")
  BY OneMoves, TypeParts, Threads DEF Redials, PublishFrom, TypeInv
<1>2. at[Loop(t)] # "off"
  BY DEF Redials, PublishFrom
<1>3. /\ Used(c, t) /\ t # None
      /\ \/ run = t /\ Running(c) /\ Shown(t) /\ Scripted(t)
         \/ run = None /\ boot = None /\ at[c] \in {"cancel", "wait"}
  BY <1>2, LoopActs, LifecycleAssumption
<1>4. ASSUME run = t PROVE Shown(t)'
  BY <1>1, <1>3, <1>4, LoopAlone, Threads
     DEF Redials, PublishFrom, Shown, Status, LinkState, Resting, TypeInv, DataOK, storeVars,
         transportVars, callbackVars, bootVars
<1>5. ASSUME run = t PROVE Scripted(t)'
  BY <1>1, <1>3, <1>5, LoopAlone, LifecycleAssumption
     DEF Redials, PublishFrom, Scripted, SentUpTo, storeVars, transportVars, callbackVars,
         bootVars
<1> QED
  BY <1>1, <1>2, <1>4, <1>5, LoopStep
     DEF Redials, PublishFrom, TypeInv, DataOK, storeVars, transportVars, callbackVars,
         bootVars

LEMMA ReadsFrameKeeps ==
  ASSUME NEW c \in Callers, NEW t \in Transport, TypeInv, Inv(c), ReadsFrame(t)
  PROVE  Inv(c)'
<1>1. Moved(Loop(t), "handle")
  BY OneMoves, TypeParts, Threads DEF ReadsFrame, TypeInv
<1>2. at[Loop(t)] # "off"
  BY DEF ReadsFrame
<1>3. /\ Used(c, t) /\ t # None
      /\ \/ run = t /\ Running(c) /\ Shown(t) /\ Scripted(t)
         \/ run = None /\ boot = None /\ at[c] \in {"cancel", "wait"}
  BY <1>2, LoopActs, LifecycleAssumption
<1>4. ASSUME run = t PROVE Shown(t)'
  BY <1>1, <1>3, <1>4, LoopAlone, Threads
     DEF ReadsFrame, Shown, Status, LinkState, Resting, TypeInv, DataOK, storeVars, transportVars,
         callbackVars, bootVars
<1>5. ASSUME run = t PROVE Scripted(t)'
  BY <1>1, <1>3, <1>5, LoopAlone, LifecycleAssumption
     DEF ReadsFrame, Scripted, SentUpTo, storeVars, transportVars, callbackVars, bootVars
<1> QED
  BY <1>1, <1>2, <1>4, <1>5, LoopStep
     DEF ReadsFrame, TypeInv, DataOK, storeVars, transportVars, callbackVars, bootVars

LEMMA AcceptsTooLateKeeps ==
  ASSUME NEW c \in Callers, NEW t \in Transport, TypeInv, Inv(c), AcceptsTooLate(t)
  PROVE  Inv(c)'
<1>1. Moved(Loop(t), "off")
  BY OneMoves, TypeParts, Threads DEF AcceptsTooLate, TypeInv
<1>2. at[Loop(t)] # "off"
  BY DEF AcceptsTooLate
<1>3. /\ Used(c, t) /\ t # None
      /\ \/ run = t /\ Running(c) /\ Shown(t) /\ Scripted(t)
         \/ run = None /\ boot = None /\ at[c] \in {"cancel", "wait"}
  BY <1>2, LoopActs, LifecycleAssumption
<1>4. ASSUME run = t PROVE Shown(t)'
  BY <1>1, <1>3, <1>4, LoopAlone, Threads
     DEF AcceptsTooLate, Shown, Status, LinkState, Resting, TypeInv, DataOK, storeVars,
         transportVars, callbackVars, bootVars
<1>5. ASSUME run = t PROVE Scripted(t)'
  BY <1>1, <1>3, <1>5, LoopAlone, LifecycleAssumption
     DEF AcceptsTooLate, Scripted, SentUpTo, storeVars, transportVars, callbackVars,
         bootVars
<1> QED
  BY <1>1, <1>2, <1>4, <1>5, LoopStep
     DEF AcceptsTooLate, TypeInv, DataOK, storeVars, transportVars, callbackVars, bootVars

LEMMA SelectsKeeps ==
  ASSUME NEW c \in Callers, NEW t \in Transport, TypeInv, Inv(c), Selects(t)
  PROVE  Inv(c)'
<1>1. Moved(Loop(t), "publish")
  BY OneMoves, TypeParts, Threads DEF Selects, Selection, PublishFrom, TypeInv
<1>2. at[Loop(t)] # "off"
  BY DEF Selects, Selection, PublishFrom
<1>3. /\ Used(c, t) /\ t # None
      /\ \/ run = t /\ Running(c) /\ Shown(t) /\ Scripted(t)
         \/ run = None /\ boot = None /\ at[c] \in {"cancel", "wait"}
  BY <1>2, LoopActs, LifecycleAssumption
<1>4. ASSUME run = t PROVE Shown(t)'
  BY <1>1, <1>3, <1>4, LoopAlone, Threads
     DEF Selects, Selection, PublishFrom, Shown, Status, LinkState, Resting, TypeInv, DataOK,
         storeVars, transportVars, callbackVars, bootVars
<1>5. ASSUME run = t PROVE Scripted(t)'
  BY <1>1, <1>3, <1>5, LoopAlone, LifecycleAssumption
     DEF Selects, Selection, PublishFrom, Scripted, SentUpTo, storeVars, transportVars,
         callbackVars, bootVars
<1> QED
  BY <1>1, <1>2, <1>4, <1>5, LoopStep
     DEF Selects, Selection, PublishFrom, TypeInv, DataOK, storeVars, transportVars,
         callbackVars, bootVars

LEMMA DeselectsKeeps ==
  ASSUME NEW c \in Callers, NEW t \in Transport, TypeInv, Inv(c), Deselects(t)
  PROVE  Inv(c)'
<1>1. Moved(Loop(t), "publish")
  BY OneMoves, TypeParts, Threads DEF Deselects, Selection, PublishFrom, TypeInv
<1>2. at[Loop(t)] # "off"
  BY DEF Deselects, Selection, PublishFrom
<1>3. /\ Used(c, t) /\ t # None
      /\ \/ run = t /\ Running(c) /\ Shown(t) /\ Scripted(t)
         \/ run = None /\ boot = None /\ at[c] \in {"cancel", "wait"}
  BY <1>2, LoopActs, LifecycleAssumption
<1>4. ASSUME run = t PROVE Shown(t)'
  BY <1>1, <1>3, <1>4, LoopAlone, Threads
     DEF Deselects, Selection, PublishFrom, Shown, Status, LinkState, Resting, TypeInv, DataOK,
         storeVars, transportVars, callbackVars, bootVars
<1>5. ASSUME run = t PROVE Scripted(t)'
  BY <1>1, <1>3, <1>5, LoopAlone, LifecycleAssumption
     DEF Deselects, Selection, PublishFrom, Scripted, SentUpTo, storeVars, transportVars,
         callbackVars, bootVars
<1> QED
  BY <1>1, <1>2, <1>4, <1>5, LoopStep
     DEF Deselects, Selection, PublishFrom, TypeInv, DataOK, storeVars, transportVars,
         callbackVars, bootVars

\* In passive mode the loop is free while the reader leaves; in active mode
\* the loop itself has to leave first.
LEMMA SessionEndsMoves ==
  ASSUME NEW t \in Transport, TypeInv, SessionEnds(t)
  PROVE  /\ \A c \in Callers : at'[c] = at[c]
         /\ \A u \in Transport : /\ u # t => at'[Loop(u)] = at[Loop(u)]
                                 /\ at'[Closer(u)] = at[Closer(u)]
         /\ mode[t] = "passive" => at'[Loop(t)] = "idle" /\ ~AllOut(t)'
         /\ mode[t] # "passive" => at'[Loop(t)] = "leave"
<1>1. CASE mode[t] = "passive"
  <2>1. PICK r \in Exits : at' = [at EXCEPT ![Loop(t)] = "idle", ![Leaver(t, r)] = "leave"]
    BY <1>1 DEF SessionEnds
  <2>2. /\ at'[Loop(t)] = "idle" /\ at'[Leaver(t, r)] = "leave"
        /\ \A c \in Callers : at'[c] = at[c]
        /\ \A u \in Transport : /\ u # t => at'[Loop(u)] = at[Loop(u)]
                                /\ at'[Closer(u)] = at[Closer(u)]
    BY <2>1, HandsOver DEF TypeInv
  <2>3. ~AllOut(t)'
    BY <2>2 DEF AllOut
  <2> QED
    BY <1>1, <2>2, <2>3
<1>2. CASE mode[t] # "passive"
  <2>1. Moved(Loop(t), "leave")
    BY <1>2, OneMoves, TypeParts, Threads DEF SessionEnds, TypeInv
  <2> QED
    BY <1>2, <2>1, LoopAlone
<1> QED
  BY <1>1, <1>2

LEMMA SessionEndsKeeps ==
  ASSUME NEW c \in Callers, NEW t \in Transport, TypeInv, Inv(c), SessionEnds(t)
  PROVE  Inv(c)'
<1>1. at[Loop(t)] = "handle"
  BY DEF SessionEnds
<1>2. /\ link'[t] = "none" /\ \A u \in Transport : u # t => link'[u] = link[u]
      /\ UNCHANGED <<run, boot, step, script, mine, mode, ctxDone, socket, listener>>
      /\ UNCHANGED <<applied, listening, shown, pending, says, saw>>
  BY DEF SessionEnds, TypeInv, DataOK, storeVars, callbackVars, bootVars
<1>3. /\ Used(c, t) /\ Held(c, t) /\ t # None
      /\ \/ run = t /\ Running(c) /\ Shown(t) /\ Scripted(t)
         \/ run = None /\ boot = None /\ at[c] \in {"cancel", "wait"}
  BY <1>1, LoopActs, LifecycleAssumption
<1>4. ASSUME run = t PROVE Shown(t)'
  <2>1. mode'[t] = "passive" => Status(t)'
    BY <1>2, SessionEndsMoves DEF Status
  <2> QED
    BY <1>1, <1>2, <1>3, <1>4, <2>1, SessionEndsMoves DEF Shown
<1>5. ASSUME run = t PROVE Scripted(t)'
  BY <1>1, <1>2, <1>3, <1>5, SessionEndsMoves DEF Scripted, SentUpTo
<1> QED
  BY <1>2, <1>3, <1>4, <1>5, SessionEndsMoves, RunStep

LEMMA LoopEndKeeps ==
  ASSUME NEW c \in Callers, NEW t \in Transport, TypeInv, Inv(c), Leaves(t, Loop(t))
  PROVE  Inv(c)'
<1>1. Moved(Loop(t), IF ctxDone[t] THEN "idle" ELSE "publish")
  BY OneMoves, TypeParts, Threads DEF Leaves, PublishFrom, TypeInv
<1>2. at[Loop(t)] # "off"
  BY DEF Leaves
<1>3. /\ Used(c, t) /\ t # None
      /\ \/ run = t /\ Running(c) /\ Shown(t) /\ Scripted(t)
         \/ run = None /\ boot = None /\ at[c] \in {"cancel", "wait"}
  BY <1>2, LoopActs, LifecycleAssumption
<1>4. ASSUME run = t PROVE Shown(t)'
  <2>1. ~ctxDone[t]
    BY <1>3, <1>4 DEF Used, Running
  <2>2. /\ says'[Loop(t)] = Resting(t) /\ at'[Loop(t)] = "publish"
    BY <1>1, <2>1, LoopAlone, Threads DEF Leaves, PublishFrom, TypeInv, DataOK
  <2>3. UNCHANGED <<applied, mode, listening, pending, link>>
    BY DEF Leaves, storeVars, transportVars
  <2>4. link[t] = "none"
    BY <1>3, <1>4 DEF Shown, Leaves
  <2> QED
    BY <1>3, <1>4, <2>2, <2>3, <2>4 DEF Shown, LinkState, Resting
<1>5. ASSUME run = t PROVE Scripted(t)'
  BY <1>1, <1>3, <1>5, LoopAlone, LifecycleAssumption
     DEF Leaves, PublishFrom, Scripted, SentUpTo, storeVars, transportVars,
         callbackVars, bootVars
<1> QED
  BY <1>1, <1>2, <1>4, <1>5, LoopStep
     DEF Leaves, PublishFrom, TypeInv, DataOK, storeVars, transportVars, callbackVars,
         bootVars

LEMMA HandlesDataKeeps ==
  ASSUME NEW c \in Callers, NEW t \in Transport, TypeInv, Inv(c), HandlesData(t)
  PROVE  Inv(c)'
<1>1. Moved(Loop(t), IF config = "scripted" THEN "advance" ELSE "idle")
  BY OneMoves, TypeParts, Threads DEF HandlesData, Schedules, TypeInv
<1>2. at[Loop(t)] # "off"
  BY DEF HandlesData, Schedules
<1>3. /\ Used(c, t) /\ t # None
      /\ \/ run = t /\ Running(c) /\ Shown(t) /\ Scripted(t)
         \/ run = None /\ boot = None /\ at[c] \in {"cancel", "wait"}
  BY <1>2, LoopActs, LifecycleAssumption
<1>4. ASSUME run = t PROVE Shown(t)'
  BY <1>1, <1>3, <1>4, LoopAlone, Threads
     DEF HandlesData, Schedules, Shown, Status, LinkState, Resting, TypeInv, DataOK, storeVars,
         transportVars, callbackVars, bootVars
<1>5. ASSUME run = t PROVE Scripted(t)'
  BY <1>1, <1>3, <1>5, LoopAlone, LifecycleAssumption
     DEF HandlesData, Schedules, Scripted, SentUpTo, storeVars, transportVars,
         callbackVars, bootVars
<1> QED
  BY <1>1, <1>2, <1>4, <1>5, LoopStep
     DEF HandlesData, Schedules, TypeInv, DataOK, storeVars, transportVars, callbackVars,
         bootVars

LEMMA BeginKeeps ==
  ASSUME NEW c \in Callers, NEW t \in Transport, TypeInv, Inv(c), Begin(t)
  PROVE  Inv(c)'
<1>1. Moved(Loop(t), IF config = "scripted" /\ run # None /\ boot = None THEN "first" ELSE "idle")
  BY OneMoves, TypeParts, Threads DEF Begin, TypeInv
<1>2. at[Loop(t)] # "off"
  BY DEF Begin
<1>3. /\ Used(c, t) /\ t # None
      /\ \/ run = t /\ Running(c) /\ Shown(t) /\ Scripted(t)
         \/ run = None /\ boot = None /\ at[c] \in {"cancel", "wait"}
  BY <1>2, LoopActs, LifecycleAssumption
<1>4. ASSUME run = t PROVE Shown(t)'
  BY <1>1, <1>3, <1>4, LoopAlone, Threads
     DEF Begin, Shown, Status, LinkState, Resting, TypeInv, DataOK, storeVars, transportVars,
         callbackVars, bootVars
<1>5. ASSUME run = t PROVE Scripted(t)'
  BY <1>1, <1>3, <1>5, LoopAlone, LifecycleAssumption
     DEF Begin, Scripted, SentUpTo, storeVars, transportVars, callbackVars, bootVars
<1> QED
  BY <1>1, <1>2, <1>4, <1>5, LoopStep
     DEF Begin, TypeInv, DataOK, storeVars, transportVars, callbackVars, bootVars

LEMMA SendsFirstKeeps ==
  ASSUME NEW c \in Callers, NEW t \in Transport, TypeInv, Inv(c), SendsFirst(t)
  PROVE  Inv(c)'
<1>1. Moved(Loop(t), "idle")
  BY OneMoves, TypeParts, Threads DEF SendsFirst, TypeInv
<1>2. at[Loop(t)] # "off"
  BY DEF SendsFirst
<1>3. /\ Used(c, t) /\ t # None
      /\ \/ run = t /\ Running(c) /\ Shown(t) /\ Scripted(t)
         \/ run = None /\ boot = None /\ at[c] \in {"cancel", "wait"}
  BY <1>2, LoopActs, LifecycleAssumption
<1>4. ASSUME run = t PROVE Shown(t)'
  BY <1>1, <1>3, <1>4, LoopAlone, Threads
     DEF SendsFirst, Shown, Status, LinkState, Resting, TypeInv, DataOK, storeVars, transportVars,
         callbackVars, bootVars
<1>5. ASSUME run = t PROVE Scripted(t)'
  <2>1. CASE link[run] = "selected"
    <3> SUFFICES ASSUME boot' # None PROVE Scripted(t)'
      BY DEF Scripted
    <3>1. boot' = boot /\ script' = Append(script, 0) /\ at'[Loop(t)] = "idle"
      BY <1>1, <1>3, <1>5, <2>1, LoopAlone DEF SendsFirst
    <3>2. boot = 0 /\ script = <<>>
      BY <1>3, <1>5, <3>1 DEF Scripted, SendsFirst
    <3>3. Sent(script', 0)
      BY <3>1, <3>2, SentFirst
    <3> QED
      BY <3>1, <3>2, <3>3 DEF Scripted, SentUpTo, Sent
  <2>2. CASE link[run] # "selected"
    BY <2>2 DEF SendsFirst, Scripted
  <2> QED
    BY <2>1, <2>2
<1> QED
  BY <1>1, <1>2, <1>4, <1>5, LoopStep
     DEF SendsFirst, TypeInv, DataOK, storeVars, transportVars, callbackVars, bootVars

LEMMA AdvanceFinishesKeeps ==
  ASSUME NEW c \in Callers, NEW t \in Transport, TypeInv, Inv(c), AdvanceFinishes(t)
  PROVE  Inv(c)'
<1>1. Moved(Loop(t), "idle")
  BY OneMoves, TypeParts, Threads DEF AdvanceFinishes, TypeInv
<1>2. at[Loop(t)] # "off"
  BY DEF AdvanceFinishes
<1>3. /\ Used(c, t) /\ t # None
      /\ \/ run = t /\ Running(c) /\ Shown(t) /\ Scripted(t)
         \/ run = None /\ boot = None /\ at[c] \in {"cancel", "wait"}
  BY <1>2, LoopActs, LifecycleAssumption
<1>4. ASSUME run = t PROVE Shown(t)'
  BY <1>1, <1>3, <1>4, LoopAlone, Threads
     DEF AdvanceFinishes, Shown, Status, LinkState, Resting, TypeInv, DataOK, storeVars,
         transportVars, callbackVars, bootVars
<1>5. ASSUME run = t PROVE Scripted(t)'
  BY <1>1, <1>3, <1>5, LoopAlone, LifecycleAssumption
     DEF AdvanceFinishes, Scripted, SentUpTo, storeVars, transportVars, callbackVars,
         bootVars
<1> QED
  BY <1>1, <1>2, <1>4, <1>5, LoopStep
     DEF AdvanceFinishes, TypeInv, DataOK, storeVars, transportVars, callbackVars, bootVars

LEMMA AdvanceMovesKeeps ==
  ASSUME NEW c \in Callers, NEW t \in Transport, TypeInv, Inv(c), AdvanceMoves(t)
  PROVE  Inv(c)'
<1>1. Moved(Loop(t), IF boot = step[t] /\ step[t] + 1 \notin Silent THEN "next" ELSE "idle")
  BY OneMoves, TypeParts, Threads DEF AdvanceMoves, TypeInv
<1>2. at[Loop(t)] # "off"
  BY DEF AdvanceMoves
<1>3. /\ Used(c, t) /\ t # None
      /\ \/ run = t /\ Running(c) /\ Shown(t) /\ Scripted(t)
         \/ run = None /\ boot = None /\ at[c] \in {"cancel", "wait"}
  BY <1>2, LoopActs, LifecycleAssumption
<1>4. ASSUME run = t PROVE Shown(t)'
  BY <1>1, <1>3, <1>4, LoopAlone, Threads
     DEF AdvanceMoves, Shown, Status, LinkState, Resting, TypeInv, DataOK, storeVars,
         transportVars, callbackVars, bootVars
<1>5. ASSUME run = t PROVE Scripted(t)'
  <2> SUFFICES ASSUME boot' # None PROVE Scripted(t)'
    BY DEF Scripted
  <2>1. boot # None /\ at[Loop(t)] = "move" /\ script' = script
    <3>1. step[t] # None
      BY LifecycleAssumption DEF TypeInv, DataOK
    <3> QED
      BY <3>1 DEF AdvanceMoves
  <2>2. boot = step[t] /\ SentUpTo(boot)
    BY <1>3, <1>5, <2>1 DEF Scripted
  <2>3. boot \in Nat /\ boot' = boot + 1
    BY <2>2, LifecycleAssumption DEF AdvanceMoves, TypeInv, DataOK
  <2>4. CASE boot + 1 \in Silent
    <3>1. at'[Loop(t)] = "idle"
      BY <1>1, <2>2, <2>4, LoopAlone
    <3>2. Sent(script, boot + 1)
      BY <2>2, <2>3, <2>4, SentSilent DEF SentUpTo, Sent
    <3> QED
      BY <2>1, <2>3, <3>1, <3>2 DEF Scripted, SentUpTo, Sent
  <2>5. CASE boot + 1 \notin Silent
    <3>1. at'[Loop(t)] = "next"
      BY <1>1, <2>2, <2>5, LoopAlone
    <3>2. step'[t] = boot + 1
      BY <2>2, <2>5 DEF AdvanceMoves, TypeInv, DataOK
    <3>3. Sent(script, boot)
      BY <2>2 DEF SentUpTo, Sent
    <3>4. (boot + 1) - 1 = boot /\ boot + 1 > 0
      BY <2>3
    <3>5. Sent(script', boot' - 1)
      BY <2>1, <2>3, <3>3, <3>4
    <3>6. SentUpTo(boot - 1)'
      BY <3>5 DEF SentUpTo, Sent
    <3> QED
      BY <2>3, <2>5, <3>1, <3>2, <3>4, <3>6 DEF Scripted
  <2> QED
    BY <2>4, <2>5
<1> QED
  <2>1. step[t] # None
    BY LifecycleAssumption DEF TypeInv, DataOK
  <2>2. link' = link /\ UNCHANGED <<run, mine, mode, ctxDone, socket, listener>>
    BY DEF AdvanceMoves, transportVars
  <2>3. boot = None => boot' = None
    BY <2>1 DEF AdvanceMoves
  <2> QED
    BY <1>1, <1>2, <1>4, <1>5, <2>2, <2>3, LoopStep

LEMMA SendsNextKeeps ==
  ASSUME NEW c \in Callers, NEW t \in Transport, TypeInv, Inv(c), SendsNext(t)
  PROVE  Inv(c)'
<1>1. Moved(Loop(t), "idle")
  BY OneMoves, TypeParts, Threads DEF SendsNext, TypeInv
<1>2. at[Loop(t)] # "off"
  BY DEF SendsNext
<1>3. /\ Used(c, t) /\ t # None
      /\ \/ run = t /\ Running(c) /\ Shown(t) /\ Scripted(t)
         \/ run = None /\ boot = None /\ at[c] \in {"cancel", "wait"}
  BY <1>2, LoopActs, LifecycleAssumption
<1>4. ASSUME run = t PROVE Shown(t)'
  BY <1>1, <1>3, <1>4, LoopAlone, Threads
     DEF SendsNext, Shown, Status, LinkState, Resting, TypeInv, DataOK, storeVars, transportVars,
         callbackVars, bootVars
<1>5. ASSUME run = t PROVE Scripted(t)'
  <2> SUFFICES ASSUME boot' # None PROVE Scripted(t)'
    BY DEF Scripted
  <2>1. at[Loop(t)] = "next" /\ boot' = boot /\ boot # None /\ at'[Loop(t)] = "idle"
    BY <1>1, LoopAlone DEF SendsNext
  <2>2. link[t] # "none" /\ run # None
    BY <1>3, <1>5, <2>1 DEF Shown
  <2>3. boot = step[t] /\ boot > 0 /\ boot \notin Silent /\ SentUpTo(boot - 1)
    BY <1>3, <1>5, <2>1 DEF Scripted
  <2>4. script' = Append(script, boot)
    BY <2>2, <2>3 DEF SendsNext
  <2>5. boot \in 0..LastStep /\ script \in Seq(0..LastStep)
    BY <2>1 DEF TypeInv, DataOK
  <2>6. Sent(script, boot - 1)
    BY <2>3 DEF SentUpTo, Sent
  <2>7. Sent(Append(script, boot), boot)
    BY <2>3, <2>5, <2>6, SentMore
  <2>8. Sent(script', boot')
    BY <2>1, <2>4, <2>7
  <2> QED
    BY <2>1, <2>8 DEF Scripted, SentUpTo, Sent
<1> QED
  BY <1>1, <1>2, <1>4, <1>5, LoopStep
     DEF SendsNext, TypeInv, DataOK, storeVars, transportVars, callbackVars, bootVars

LEMMA LoopLeavesKeeps ==
  ASSUME NEW c \in Callers, NEW t \in Transport, TypeInv, Inv(c), LoopLeaves(t)
  PROVE  Inv(c)'
<1>1. Moved(Loop(t), "off")
  BY OneMoves, TypeParts, Threads DEF LoopLeaves, TypeInv
<1>2. at[Loop(t)] # "off"
  BY DEF LoopLeaves
<1>3. /\ Used(c, t) /\ t # None
      /\ \/ run = t /\ Running(c) /\ Shown(t) /\ Scripted(t)
         \/ run = None /\ boot = None /\ at[c] \in {"cancel", "wait"}
  BY <1>2, LoopActs, LifecycleAssumption
<1>4. ASSUME run = t PROVE Shown(t)'
  BY <1>1, <1>3, <1>4, LoopAlone, Threads
     DEF LoopLeaves, Shown, Status, LinkState, Resting, TypeInv, DataOK, storeVars, transportVars,
         callbackVars, bootVars
<1>5. ASSUME run = t PROVE Scripted(t)'
  BY <1>1, <1>3, <1>5, LoopAlone, LifecycleAssumption
     DEF LoopLeaves, Scripted, SentUpTo, storeVars, transportVars, callbackVars, bootVars
<1> QED
  BY <1>1, <1>2, <1>4, <1>5, LoopStep
     DEF LoopLeaves, TypeInv, DataOK, storeVars, transportVars, callbackVars, bootVars

LEMMA LoopReadsKeeps ==
  ASSUME NEW c \in Callers, NEW t \in Transport, TypeInv, Inv(c), CallbackReads(Loop(t))
  PROVE  Inv(c)'
<1>1. Moved(Loop(t), "set")
  BY OneMoves, TypeParts, Threads DEF CallbackReads, TypeInv
<1>2. at[Loop(t)] # "off"
  BY DEF CallbackReads
<1>3. /\ Used(c, t) /\ t # None
      /\ \/ run = t /\ Running(c) /\ Shown(t) /\ Scripted(t)
         \/ run = None /\ boot = None /\ at[c] \in {"cancel", "wait"}
  BY <1>2, LoopActs, LifecycleAssumption
<1>4. ASSUME run = t PROVE Shown(t)'
  BY <1>1, <1>3, <1>4, LoopAlone, Threads
     DEF CallbackReads, Shown, Status, LinkState, Resting, TypeInv, DataOK, storeVars,
         transportVars, callbackVars, bootVars
<1>5. ASSUME run = t PROVE Scripted(t)'
  BY <1>1, <1>3, <1>5, LoopAlone, LifecycleAssumption
     DEF CallbackReads, Scripted, SentUpTo, storeVars, transportVars, callbackVars,
         bootVars
<1> QED
  BY <1>1, <1>2, <1>4, <1>5, LoopStep
     DEF CallbackReads, TypeInv, DataOK, storeVars, transportVars, callbackVars, bootVars

LEMMA LoopSetsKeeps ==
  ASSUME NEW c \in Callers, NEW t \in Transport, TypeInv, Inv(c), CallbackSets(Loop(t))
  PROVE  Inv(c)'
<1>1. Moved(Loop(t), IF saw[Loop(t)] /\ says[Loop(t)] = "SELECTED" THEN "begin" ELSE "idle")
  BY OneMoves, TypeParts, Threads, Afterwards DEF CallbackSets, SetRuntime, TypeInv
<1>2. at[Loop(t)] # "off"
  BY DEF CallbackSets, SetRuntime
<1>3. /\ Used(c, t) /\ t # None
      /\ \/ run = t /\ Running(c) /\ Shown(t) /\ Scripted(t)
         \/ run = None /\ boot = None /\ at[c] \in {"cancel", "wait"}
  BY <1>2, LoopActs, LifecycleAssumption
<1>4. ASSUME run = t PROVE Shown(t)'
  <2>1. at[Loop(t)] = "set" /\ at'[Loop(t)] \in {"begin", "idle"}
    <3>1. at[Loop(t)] = "set"
      BY DEF CallbackSets
    <3>2. at'[Loop(t)] \in {"begin", "idle"}
      BY <1>1, LoopAlone
    <3> QED
      BY <3>1, <3>2
  <2>2. saw[Loop(t)] /\ says[Loop(t)] = LinkState(t)
    BY <1>3, <1>4, <2>1 DEF Shown
  <2>3. /\ shown' = LinkState(t) /\ listening' /\ pending' = pending
        /\ UNCHANGED <<applied, mode, link>>
    BY <2>2 DEF CallbackSets, SetRuntime, transportVars
  <2>4. Status(t)'
    BY <2>3 DEF Status, LinkState, Resting
  <2> QED
    BY <1>3, <1>4, <2>1, <2>3, <2>4 DEF Shown
<1>5. ASSUME run = t PROVE Scripted(t)'
  <2>1. at[Loop(t)] = "set" /\ at'[Loop(t)] \in {"begin", "idle"}
    <3>1. at[Loop(t)] = "set"
      BY DEF CallbackSets
    <3>2. at'[Loop(t)] \in {"begin", "idle"}
      BY <1>1, LoopAlone
    <3> QED
      BY <3>1, <3>2
  <2>2. UNCHANGED <<boot, script>>
    BY DEF CallbackSets, bootVars
  <2> QED
    BY <1>3, <1>5, <2>1, <2>2 DEF Scripted, SentUpTo
<1> QED
  BY <1>1, <1>2, <1>4, <1>5, LoopStep
     DEF CallbackSets, SetRuntime, TypeInv, DataOK, storeVars, transportVars, callbackVars,
         bootVars
LEMMA AdvanceReadsKeeps ==
  ASSUME NEW c \in Callers, NEW t \in Transport, TypeInv, Inv(c), AdvanceReads(t)
  PROVE  Inv(c)'
<1>1. PICK there \in {"idle", "finish", "move"} :
        /\ Moved(Loop(t), there)
        /\ there = "move" => boot # None /\ step'[t] = boot
  <2>1. CASE Goto(Loop(t), "idle") /\ UNCHANGED step
    BY <2>1, OneMoves, TypeParts, Threads DEF TypeInv
  <2>2. CASE /\ boot # None
             /\ step' = [step EXCEPT ![t] = boot]
             /\ Goto(Loop(t), IF boot = LastStep THEN "finish" ELSE "move")
    BY <2>2, OneMoves, TypeParts, Threads DEF TypeInv, DataOK
  <2> QED
    BY <2>1, <2>2 DEF AdvanceReads
<1>2. at[Loop(t)] = "advance"
  BY DEF AdvanceReads
<1>3. /\ Used(c, t) /\ t # None
      /\ \/ run = t /\ Running(c) /\ Shown(t) /\ Scripted(t)
         \/ run = None /\ boot = None /\ at[c] \in {"cancel", "wait"}
  BY <1>2, LoopActs, LifecycleAssumption
<1>4. UNCHANGED <<run, boot, script, mine, mode, ctxDone, socket, listener, link, says, saw>>
  BY DEF AdvanceReads, transportVars, callbackVars
<1>5. ASSUME run = t PROVE Shown(t)'
  BY <1>1, <1>2, <1>3, <1>4, <1>5, LoopAlone
     DEF AdvanceReads, Shown, Status, LinkState, Resting, storeVars
<1>6. ASSUME run = t PROVE Scripted(t)'
  BY <1>1, <1>2, <1>3, <1>4, <1>6, LoopAlone DEF Scripted, SentUpTo
<1> QED
  BY <1>1, <1>2, <1>4, <1>5, <1>6, LoopStep

-----------------------------------------------------------------------------
(***************************************************************************)
(* A passive reader leaves.                                                *)
(***************************************************************************)
LEMMA LeaverActs ==
  ASSUME NEW c \in Callers, NEW t \in Transport, NEW r \in Exits, TypeInv, Inv(c), ExitInv(c),
         at[Leaver(t, r)] # "off"
  PROVE  /\ Used(c, t) /\ Leaving(c, t, r)
         /\ \/ run = t /\ Running(c) /\ Shown(t) /\ Scripted(t)
            \/ run = None /\ boot = None /\ at[c] \in {"cancel", "wait"} /\ mine[c] = t
<1>1. Leaving(c, t, r)
  BY DEF ExitInv
<1> QED
  BY <1>1, HeldActs DEF Leaving

LEMMA LeaverStep ==
  ASSUME NEW c \in Callers, NEW t \in Transport, NEW r \in Exits, TypeInv, Inv(c), ExitInv(c),
         at[Leaver(t, r)] # "off", NEW there, Moved(Leaver(t, r), there),
         UNCHANGED <<run, mine, mode, ctxDone, socket, listener, link>>,
         boot' \in {boot, None} /\ UNCHANGED <<step, script>>,
         run = t => /\ UNCHANGED <<applied, pending>> /\ listening'
                    /\ says'[Loop(t)] = says[Loop(t)] /\ saw'[Loop(t)] = saw[Loop(t)]
                    /\ shown' = "LISTENING" \/ (shown' = shown /\ there # "off")
  PROVE  Inv(c)'
<1>1. /\ at'[c] = at[c] /\ at'[Leaver(t, r)] = there
      /\ \A u \in Transport : at'[Loop(u)] = at[Loop(u)] /\ at'[Closer(u)] = at[Closer(u)]
  BY LeaverAlone
<1>2. /\ Used(c, t) /\ Held(c, t) /\ mode[t] = "passive"
      /\ \/ run = t /\ Running(c) /\ Shown(t) /\ Scripted(t)
         \/ run = None /\ boot = None /\ at[c] \in {"cancel", "wait"}
  BY LeaverActs DEF Leaving
<1>3. run = t => Shown(t)'
  <2> SUFFICES ASSUME run = t PROVE Shown(t)'
    OBVIOUS
  <2>1. Shown(t) /\ t # None
    BY <1>2, LifecycleAssumption
  <2>2. LinkState(t)' = LinkState(t)
    BY DEF LinkState, Resting
  <2>3. there # "off" => ~AllOut(t)'
    BY <1>1 DEF AllOut
  <2>4. at[Loop(t)] \notin {"publish", "set", "leave"} => Status(t)'
    BY <1>2, <2>1, <2>2, <2>3 DEF Shown, Status
  <2> QED
    BY <1>1, <2>1, <2>2, <2>4 DEF Shown
<1>4. run = t => Scripted(t)'
  <2> SUFFICES ASSUME run = t, boot' # None PROVE Scripted(t)'
    BY DEF Scripted
  <2>1. Scripted(t) /\ boot' = boot
    BY <1>2, LifecycleAssumption
  <2> QED
    BY <1>1, <2>1 DEF Scripted, SentUpTo
<1>5. run = None /\ boot = None => boot' = None
  OBVIOUS
<1> QED
  BY <1>1, <1>2, <1>3, <1>4, <1>5, RunStep

LEMMA LeaverEndKeeps ==
  ASSUME NEW c \in Callers, NEW t \in Transport, NEW r \in Exits, TypeInv, Inv(c), ExitInv(c),
         Leaves(t, Leaver(t, r))
  PROVE  Inv(c)'
<1>1. Moved(Leaver(t, r), IF ctxDone[t] THEN "off" ELSE "publish")
  BY OneMoves, TypeParts, Leavers DEF Leaves, PublishFrom, TypeInv
<1>2. at[Leaver(t, r)] # "off"
  BY DEF Leaves
<1>3. run = t => ~ctxDone[t] /\ listening
  BY <1>2, LeaverActs, LifecycleAssumption DEF Used, Running, Shown
<1>4. says'[Loop(t)] = says[Loop(t)] /\ saw' = saw
  BY Threads, Leavers DEF Leaves, PublishFrom, TypeInv, DataOK, callbackVars
<1>5. UNCHANGED <<run, boot, step, script, mine, mode, ctxDone, socket, listener, link>>
  BY DEF Leaves, transportVars, bootVars
<1>6. UNCHANGED <<applied, listening, shown, pending>>
  BY DEF Leaves, storeVars
<1> QED
  BY <1>1, <1>2, <1>3, <1>4, <1>5, <1>6, LeaverStep

LEMMA LeaverReadsKeeps ==
  ASSUME NEW c \in Callers, NEW t \in Transport, NEW r \in Exits, TypeInv, Inv(c), ExitInv(c),
         CallbackReads(Leaver(t, r))
  PROVE  Inv(c)'
<1>1. Moved(Leaver(t, r), "set")
  BY OneMoves, TypeParts, Leavers DEF CallbackReads, TypeInv
<1>2. at[Leaver(t, r)] # "off"
  BY DEF CallbackReads
<1>3. run = t => listening
  BY <1>2, LeaverActs, LifecycleAssumption DEF Shown
<1>4. says'[Loop(t)] = says[Loop(t)] /\ saw'[Loop(t)] = saw[Loop(t)]
  BY Threads, Leavers DEF CallbackReads, TypeInv, DataOK
<1>5. /\ UNCHANGED <<run, step, script, mine, mode, ctxDone, socket, listener, link>>
      /\ UNCHANGED <<applied, listening, shown, pending>> /\ boot' \in {boot, None}
  BY DEF CallbackReads, storeVars, transportVars
<1> QED
  BY <1>1, <1>2, <1>3, <1>4, <1>5, LeaverStep

LEMMA LeaverSetsKeeps ==
  ASSUME NEW c \in Callers, NEW t \in Transport, NEW r \in Exits, TypeInv, Inv(c), ExitInv(c),
         CallbackSets(Leaver(t, r))
  PROVE  Inv(c)'
<1>1. Moved(Leaver(t, r), "off")
  BY OneMoves, TypeParts, Leavers, Afterwards DEF CallbackSets, TypeInv
<1>2. at[Leaver(t, r)] = "set"
  BY DEF CallbackSets
<1>3. says[Leaver(t, r)] = "LISTENING" /\ (run = t => saw[Leaver(t, r)])
  BY <1>2, LeaverActs DEF Leaving
<1>4. says'[Loop(t)] = says[Loop(t)] /\ saw'[Loop(t)] = saw[Loop(t)]
  BY Threads, Leavers DEF CallbackSets, TypeInv, DataOK
<1>5. UNCHANGED <<run, boot, step, script, mine, mode, ctxDone, socket, listener, link>>
  BY DEF CallbackSets, transportVars, bootVars
<1>6. /\ shown' = "LISTENING" /\ UNCHANGED applied
      /\ run = t => listening' /\ UNCHANGED pending
  BY <1>3 DEF CallbackSets, SetRuntime
<1> QED
  BY <1>1, <1>2, <1>4, <1>5, <1>6, LeaverStep

-----------------------------------------------------------------------------
(***************************************************************************)
(* A caller moves.                                                         *)
(***************************************************************************)
LEMMA StartLocksKeeps ==
  ASSUME NEW c \in Callers, TypeInv, Inv(c), StartLocks(c)
  PROVE  Inv(c)'
<1>1. Moved(c, IF run # None THEN "idle" ELSE "record")
  BY OneMoves, TypeParts, Threads DEF StartLocks, TypeInv
<1>2. /\ at'[c] = (IF run # None THEN "idle" ELSE "record")
      /\ \A t \in Transport : at'[Loop(t)] = at[Loop(t)] /\ at'[Closer(t)] = at[Closer(t)]
      /\ \A t \in Transport : AllOut(t)' <=> AllOut(t)
  BY <1>1, CallerAlone
<1>3. CallInv(c)'
  BY <1>2, LifecycleAssumption
     DEF StartLocks, Inv, TypeInv, DataOK, CallInv, StartPlaces, storeVars, transportVars,
         callbackVars, bootVars
<1>4. FreeInv(c)'
  <2> SUFFICES ASSUME NEW u \in Transport, ~Held(c, u)' PROVE Free(u)'
    BY DEF FreeInv
  <2>1. ~Held(c, u)
    BY <1>2, LifecycleAssumption
       DEF StartLocks, Held, Inv, TypeInv, DataOK, CallInv, StartPlaces
  <2>2. Free(u)
    BY <2>1 DEF Inv, FreeInv
  <2> QED
    BY <1>2, <2>1, <2>2
       DEF StartLocks, Free, Held, Inv, TypeInv, DataOK, CallInv, StartPlaces, storeVars,
           transportVars, callbackVars, bootVars
<1>5. HeldInv(c)'
  <2> SUFFICES ASSUME NEW u \in Transport, Held(c, u)' PROVE Used(c, u)'
    BY DEF HeldInv
  <2>1. CASE run # None
    <3>1. Held(c, u)
      BY <1>2, <2>1 DEF StartLocks, Held
    <3>2. Used(c, u)
      BY <3>1 DEF Inv, HeldInv
    <3> QED
      BY <1>2, <2>1, <3>2 DEF StartLocks, Used, StartPlaces, transportVars
  <2>2. CASE run = None
    <3>1. PICK t \in Transport : /\ mode[t] = None /\ mode' = [mode EXCEPT ![t] = config]
                                 /\ run' = t
      BY <2>2 DEF StartLocks
    <3>2. u = t /\ at'[c] = "record" /\ at[c] \in {"idle", "starting"}
      BY <1>2, <2>2, <3>1 DEF Held, StartLocks
    <3>3. ~Held(c, t)
      BY <2>2, <3>2, LifecycleAssumption DEF Held
    <3>4. Free(t)
      BY <3>3 DEF Inv, FreeInv
    <3>5. mode'[t] # None
      BY <3>1, LifecycleAssumption DEF TypeInv, DataOK, Modes
    <3>6. UNCHANGED <<ctxDone, socket, listener, link>>
      BY <2>2 DEF StartLocks
    <3> QED
      BY <1>2, <3>1, <3>2, <3>4, <3>5, <3>6 DEF Used, Free
  <2> QED
    BY <2>1, <2>2
<1>6. StopInv(c)'
  BY <1>2, LifecycleAssumption
     DEF StartLocks, Inv, TypeInv, DataOK, CallInv, StopInv, StartPlaces, storeVars,
         transportVars, callbackVars, bootVars
<1>7. ShowInv(c)'
  BY <1>2, Threads, LifecycleAssumption
     DEF StartLocks, Inv, TypeInv, DataOK, CallInv, StopInv, ShowInv, Shown, Status, Running,
         LinkState, Resting, StartPlaces, storeVars, transportVars, callbackVars, bootVars
<1>8. BootInv(c)'
  BY <1>2, LifecycleAssumption
     DEF StartLocks, Inv, TypeInv, DataOK, CallInv, StopInv, BootInv, Scripted, SentUpTo,
         Running, StartPlaces, storeVars, transportVars, callbackVars, bootVars
<1> QED
  BY <1>3, <1>4, <1>5, <1>6, <1>7, <1>8 DEF Inv

LEMMA StartRecordsKeeps ==
  ASSUME NEW c \in Callers, TypeInv, Inv(c), StartRecords(c)
  PROVE  Inv(c)'
<1>1. Moved(c, "show")
  BY OneMoves, TypeParts, Threads DEF StartRecords, TypeInv
<1>2. /\ at'[c] = "show"
      /\ \A t \in Transport : at'[Loop(t)] = at[Loop(t)] /\ at'[Closer(t)] = at[Closer(t)]
      /\ \A t \in Transport : AllOut(t)' <=> AllOut(t)
  BY <1>1, CallerAlone
<1>3. CallInv(c)'
  BY <1>2, LifecycleAssumption
     DEF StartRecords, Inv, TypeInv, DataOK, CallInv, StartPlaces, storeVars,
         transportVars, callbackVars, bootVars
<1>4. FreeInv(c)'
  <2> SUFFICES ASSUME NEW u \in Transport, ~Held(c, u)' PROVE Free(u)'
    BY DEF FreeInv
  <2>1. ~Held(c, u)
    BY <1>2, LifecycleAssumption
       DEF StartRecords, Held, Inv, TypeInv, DataOK, CallInv, StartPlaces
  <2>2. Free(u)
    BY <2>1 DEF Inv, FreeInv
  <2> QED
    BY <1>2, <2>1, <2>2
       DEF StartRecords, Free, Held, Inv, TypeInv, DataOK, CallInv, StartPlaces, storeVars,
           transportVars, callbackVars, bootVars
<1>5. HeldInv(c)'
  <2> SUFFICES ASSUME NEW u \in Transport, Held(c, u)' PROVE Used(c, u)'
    BY DEF HeldInv
  <2>1. Held(c, u)
    BY <1>2, LifecycleAssumption
       DEF StartRecords, Held, Inv, TypeInv, DataOK, CallInv, StartPlaces
  <2>2. Used(c, u)
    BY <2>1 DEF Inv, HeldInv
  <2> QED
    BY <1>2, <2>1, <2>2, LifecycleAssumption
       DEF StartRecords, Used, Held, Inv, TypeInv, DataOK, CallInv, StartPlaces, storeVars,
           transportVars, callbackVars, bootVars
<1>6. StopInv(c)'
  BY <1>2, LifecycleAssumption
     DEF StartRecords, Inv, TypeInv, DataOK, CallInv, StopInv, StartPlaces, storeVars,
         transportVars, callbackVars, bootVars
<1>7. ShowInv(c)'
  BY <1>2, Threads, LifecycleAssumption
     DEF StartRecords, Inv, TypeInv, DataOK, CallInv, StopInv, ShowInv, Shown, Status, Running,
         LinkState, Resting, StartPlaces, storeVars, transportVars, callbackVars, bootVars
<1>8. BootInv(c)'
  BY <1>2, LifecycleAssumption
     DEF StartRecords, Inv, TypeInv, DataOK, CallInv, StopInv, BootInv, Scripted, SentUpTo,
         Running, StartPlaces, storeVars, transportVars, callbackVars, bootVars
<1> QED
  BY <1>3, <1>4, <1>5, <1>6, <1>7, <1>8 DEF Inv

LEMMA StartShowsKeeps ==
  ASSUME NEW c \in Callers, TypeInv, Inv(c), StartShows(c)
  PROVE  Inv(c)'
<1>1. Moved(c, "open")
  BY OneMoves, TypeParts, Threads DEF StartShows, SetRuntime, TypeInv
<1>2. /\ at'[c] = "open"
      /\ \A t \in Transport : at'[Loop(t)] = at[Loop(t)] /\ at'[Closer(t)] = at[Closer(t)]
      /\ \A t \in Transport : AllOut(t)' <=> AllOut(t)
  BY <1>1, CallerAlone
<1>3. CallInv(c)'
  BY <1>2, LifecycleAssumption
     DEF StartShows, SetRuntime, Inv, TypeInv, DataOK, CallInv, StartPlaces, storeVars,
         transportVars, callbackVars, bootVars
<1>4. FreeInv(c)'
  <2> SUFFICES ASSUME NEW u \in Transport, ~Held(c, u)' PROVE Free(u)'
    BY DEF FreeInv
  <2>1. ~Held(c, u)
    BY <1>2, LifecycleAssumption
       DEF StartShows, SetRuntime, Held, Inv, TypeInv, DataOK, CallInv, StartPlaces
  <2>2. Free(u)
    BY <2>1 DEF Inv, FreeInv
  <2> QED
    BY <1>2, <2>1, <2>2
       DEF StartShows, SetRuntime, Free, Held, Inv, TypeInv, DataOK, CallInv, StartPlaces,
           storeVars, transportVars, callbackVars, bootVars
<1>5. HeldInv(c)'
  <2> SUFFICES ASSUME NEW u \in Transport, Held(c, u)' PROVE Used(c, u)'
    BY DEF HeldInv
  <2>1. Held(c, u)
    BY <1>2, LifecycleAssumption
       DEF StartShows, SetRuntime, Held, Inv, TypeInv, DataOK, CallInv, StartPlaces
  <2>2. Used(c, u)
    BY <2>1 DEF Inv, HeldInv
  <2> QED
    BY <1>2, <2>1, <2>2, LifecycleAssumption
       DEF StartShows, SetRuntime, Used, Held, Inv, TypeInv, DataOK, CallInv, StartPlaces,
           storeVars, transportVars, callbackVars, bootVars
<1>6. StopInv(c)'
  BY <1>2, LifecycleAssumption
     DEF StartShows, SetRuntime, Inv, TypeInv, DataOK, CallInv, StopInv, StartPlaces,
         storeVars, transportVars, callbackVars, bootVars
<1>7. ShowInv(c)'
  BY <1>2, Threads, LifecycleAssumption
     DEF StartShows, SetRuntime, Inv, TypeInv, DataOK, CallInv, StopInv, ShowInv, Shown, Status,
         Running, LinkState, Resting, StartPlaces, storeVars, transportVars, callbackVars,
         bootVars
<1>8. BootInv(c)'
  BY <1>2, LifecycleAssumption
     DEF StartShows, SetRuntime, Inv, TypeInv, DataOK, CallInv, StopInv, BootInv, Scripted,
         SentUpTo, Running, StartPlaces, storeVars, transportVars, callbackVars, bootVars
<1> QED
  BY <1>3, <1>4, <1>5, <1>6, <1>7, <1>8 DEF Inv

LEMMA OpenActiveKeeps ==
  ASSUME NEW c \in Callers, TypeInv, Inv(c), OpenActive(c)
  PROVE  Inv(c)'
<1>1. Moved(c, "publish")
  BY OneMoves, TypeParts, Threads DEF OpenActive, PublishFrom, TypeInv
<1>2. /\ at'[c] = "publish"
      /\ \A t \in Transport : at'[Loop(t)] = at[Loop(t)] /\ at'[Closer(t)] = at[Closer(t)]
      /\ \A t \in Transport : AllOut(t)' <=> AllOut(t)
  BY <1>1, CallerAlone
<1>3. CallInv(c)'
  BY <1>2, LifecycleAssumption
     DEF OpenActive, PublishFrom, Inv, TypeInv, DataOK, CallInv, StartPlaces, storeVars,
         transportVars, callbackVars, bootVars
<1>4. FreeInv(c)'
  <2> SUFFICES ASSUME NEW u \in Transport, ~Held(c, u)' PROVE Free(u)'
    BY DEF FreeInv
  <2>1. ~Held(c, u)
    BY <1>2, LifecycleAssumption
       DEF OpenActive, PublishFrom, Held, Inv, TypeInv, DataOK, CallInv, StartPlaces
  <2>2. Free(u)
    BY <2>1 DEF Inv, FreeInv
  <2> QED
    BY <1>2, <2>1, <2>2
       DEF OpenActive, PublishFrom, Free, Held, Inv, TypeInv, DataOK, CallInv, StartPlaces,
           storeVars, transportVars, callbackVars, bootVars
<1>5. HeldInv(c)'
  <2> SUFFICES ASSUME NEW u \in Transport, Held(c, u)' PROVE Used(c, u)'
    BY DEF HeldInv
  <2>1. Held(c, u)
    BY <1>2, LifecycleAssumption
       DEF OpenActive, PublishFrom, Held, Inv, TypeInv, DataOK, CallInv, StartPlaces
  <2>2. Used(c, u)
    BY <2>1 DEF Inv, HeldInv
  <2> QED
    BY <1>2, <2>1, <2>2, LifecycleAssumption
       DEF OpenActive, PublishFrom, Used, Held, Inv, TypeInv, DataOK, CallInv, StartPlaces,
           storeVars, transportVars, callbackVars, bootVars
<1>6. StopInv(c)'
  BY <1>2, LifecycleAssumption
     DEF OpenActive, PublishFrom, Inv, TypeInv, DataOK, CallInv, StopInv, StartPlaces,
         storeVars, transportVars, callbackVars, bootVars
<1>7. ShowInv(c)'
  BY <1>2, Threads, LifecycleAssumption
     DEF OpenActive, PublishFrom, Inv, TypeInv, DataOK, CallInv, StopInv, ShowInv, Shown, Status,
         Running, LinkState, Resting, StartPlaces, storeVars, transportVars, callbackVars,
         bootVars
<1>8. BootInv(c)'
  BY <1>2, LifecycleAssumption
     DEF OpenActive, PublishFrom, Inv, TypeInv, DataOK, CallInv, StopInv, BootInv,
         Scripted, SentUpTo, Running, StartPlaces, storeVars, transportVars, callbackVars,
         bootVars
<1> QED
  BY <1>3, <1>4, <1>5, <1>6, <1>7, <1>8 DEF Inv

LEMMA ListenKeeps ==
  ASSUME NEW c \in Callers, TypeInv, Inv(c), Listen(c)
  PROVE  Inv(c)'
<1>1. Moved(c, "register")
  BY OneMoves, TypeParts, Threads DEF Listen, TypeInv
<1>2. /\ at'[c] = "register"
      /\ \A t \in Transport : at'[Loop(t)] = at[Loop(t)] /\ at'[Closer(t)] = at[Closer(t)]
      /\ \A t \in Transport : AllOut(t)' <=> AllOut(t)
  BY <1>1, CallerAlone
<1>3. CallInv(c)'
  BY <1>2, LifecycleAssumption
     DEF Listen, Inv, TypeInv, DataOK, CallInv, StartPlaces, storeVars, transportVars,
         callbackVars, bootVars
<1>4. FreeInv(c)'
  <2> SUFFICES ASSUME NEW u \in Transport, ~Held(c, u)' PROVE Free(u)'
    BY DEF FreeInv
  <2>1. ~Held(c, u)
    BY <1>2, LifecycleAssumption
       DEF Listen, Held, Inv, TypeInv, DataOK, CallInv, StartPlaces
  <2>2. Free(u)
    BY <2>1 DEF Inv, FreeInv
  <2> QED
    BY <1>2, <2>1, <2>2
       DEF Listen, Free, Held, Inv, TypeInv, DataOK, CallInv, StartPlaces, storeVars,
           transportVars, callbackVars, bootVars
<1>5. HeldInv(c)'
  <2> SUFFICES ASSUME NEW u \in Transport, Held(c, u)' PROVE Used(c, u)'
    BY DEF HeldInv
  <2>1. Held(c, u)
    BY <1>2, LifecycleAssumption
       DEF Listen, Held, Inv, TypeInv, DataOK, CallInv, StartPlaces
  <2>2. Used(c, u)
    BY <2>1 DEF Inv, HeldInv
  <2> QED
    BY <1>2, <2>1, <2>2, LifecycleAssumption
       DEF Listen, Used, Held, Inv, TypeInv, DataOK, CallInv, StartPlaces, storeVars,
           transportVars, callbackVars, bootVars
<1>6. StopInv(c)'
  BY <1>2, LifecycleAssumption
     DEF Listen, Inv, TypeInv, DataOK, CallInv, StopInv, StartPlaces, storeVars,
         transportVars, callbackVars, bootVars
<1>7. ShowInv(c)'
  BY <1>2, Threads, LifecycleAssumption
     DEF Listen, Inv, TypeInv, DataOK, CallInv, StopInv, ShowInv, Shown, Status, Running,
         LinkState, Resting, StartPlaces, storeVars, transportVars, callbackVars, bootVars
<1>8. BootInv(c)'
  BY <1>2, LifecycleAssumption
     DEF Listen, Inv, TypeInv, DataOK, CallInv, StopInv, BootInv, Scripted, SentUpTo,
         Running, StartPlaces, storeVars, transportVars, callbackVars, bootVars
<1> QED
  BY <1>3, <1>4, <1>5, <1>6, <1>7, <1>8 DEF Inv

LEMMA RegisterKeeps ==
  ASSUME NEW c \in Callers, TypeInv, Inv(c), Register(c)
  PROVE  Inv(c)'
<1>1. Moved(c, "publish")
  BY OneMoves, TypeParts, Threads DEF Register, PublishFrom, TypeInv
<1>2. /\ at'[c] = "publish"
      /\ \A t \in Transport : at'[Loop(t)] = at[Loop(t)] /\ at'[Closer(t)] = at[Closer(t)]
      /\ \A t \in Transport : AllOut(t)' <=> AllOut(t)
  BY <1>1, CallerAlone
<1>3. CallInv(c)'
  BY <1>2, LifecycleAssumption
     DEF Register, PublishFrom, Inv, TypeInv, DataOK, CallInv, StartPlaces, storeVars,
         transportVars, callbackVars, bootVars
<1>4. FreeInv(c)'
  <2> SUFFICES ASSUME NEW u \in Transport, ~Held(c, u)' PROVE Free(u)'
    BY DEF FreeInv
  <2>1. ~Held(c, u)
    BY <1>2, LifecycleAssumption
       DEF Register, PublishFrom, Held, Inv, TypeInv, DataOK, CallInv, StartPlaces
  <2>2. Free(u)
    BY <2>1 DEF Inv, FreeInv
  <2> QED
    BY <1>2, <2>1, <2>2
       DEF Register, PublishFrom, Free, Held, Inv, TypeInv, DataOK, CallInv, StartPlaces,
           storeVars, transportVars, callbackVars, bootVars
<1>5. HeldInv(c)'
  <2> SUFFICES ASSUME NEW u \in Transport, Held(c, u)' PROVE Used(c, u)'
    BY DEF HeldInv
  <2>1. Held(c, u)
    BY <1>2, LifecycleAssumption
       DEF Register, PublishFrom, Held, Inv, TypeInv, DataOK, CallInv, StartPlaces
  <2>2. Used(c, u)
    BY <2>1 DEF Inv, HeldInv
  <2> QED
    BY <1>2, <2>1, <2>2, LifecycleAssumption
       DEF Register, PublishFrom, Used, Held, Inv, TypeInv, DataOK, CallInv, StartPlaces,
           storeVars, transportVars, callbackVars, bootVars
<1>6. StopInv(c)'
  BY <1>2, LifecycleAssumption
     DEF Register, PublishFrom, Inv, TypeInv, DataOK, CallInv, StopInv, StartPlaces,
         storeVars, transportVars, callbackVars, bootVars
<1>7. ShowInv(c)'
  BY <1>2, Threads, LifecycleAssumption
     DEF Register, PublishFrom, Inv, TypeInv, DataOK, CallInv, StopInv, ShowInv, Shown, Status,
         Running, LinkState, Resting, StartPlaces, storeVars, transportVars, callbackVars,
         bootVars
<1>8. BootInv(c)'
  BY <1>2, LifecycleAssumption
     DEF Register, PublishFrom, Inv, TypeInv, DataOK, CallInv, StopInv, BootInv, Scripted,
         SentUpTo, Running, StartPlaces, storeVars, transportVars, callbackVars, bootVars
<1> QED
  BY <1>3, <1>4, <1>5, <1>6, <1>7, <1>8 DEF Inv

LEMMA ListenFailsKeeps ==
  ASSUME NEW c \in Callers, TypeInv, Inv(c), ListenFails(c)
  PROVE  Inv(c)'
<1>1. Moved(c, "abandon")
  BY OneMoves, TypeParts, Threads DEF ListenFails, TypeInv
<1>2. /\ at'[c] = "abandon"
      /\ \A t \in Transport : at'[Loop(t)] = at[Loop(t)] /\ at'[Closer(t)] = at[Closer(t)]
      /\ \A t \in Transport : AllOut(t)' <=> AllOut(t)
  BY <1>1, CallerAlone
<1>3. CallInv(c)'
  BY <1>2, LifecycleAssumption
     DEF ListenFails, Inv, TypeInv, DataOK, CallInv, StartPlaces, storeVars, transportVars,
         callbackVars, bootVars
<1>4. FreeInv(c)'
  <2> SUFFICES ASSUME NEW u \in Transport, ~Held(c, u)' PROVE Free(u)'
    BY DEF FreeInv
  <2>1. ~Held(c, u)
    BY <1>2, LifecycleAssumption
       DEF ListenFails, Held, Inv, TypeInv, DataOK, CallInv, StartPlaces
  <2>2. Free(u)
    BY <2>1 DEF Inv, FreeInv
  <2> QED
    BY <1>2, <2>1, <2>2
       DEF ListenFails, Free, Held, Inv, TypeInv, DataOK, CallInv, StartPlaces, storeVars,
           transportVars, callbackVars, bootVars
<1>5. HeldInv(c)'
  <2> SUFFICES ASSUME NEW u \in Transport, Held(c, u)' PROVE Used(c, u)'
    BY DEF HeldInv
  <2>1. Held(c, u)
    BY <1>2, LifecycleAssumption
       DEF ListenFails, Held, Inv, TypeInv, DataOK, CallInv, StartPlaces
  <2>2. Used(c, u)
    BY <2>1 DEF Inv, HeldInv
  <2> QED
    BY <1>2, <2>1, <2>2, LifecycleAssumption
       DEF ListenFails, Used, Held, Inv, TypeInv, DataOK, CallInv, StartPlaces, storeVars,
           transportVars, callbackVars, bootVars
<1>6. StopInv(c)'
  BY <1>2, LifecycleAssumption
     DEF ListenFails, Inv, TypeInv, DataOK, CallInv, StopInv, StartPlaces, storeVars,
         transportVars, callbackVars, bootVars
<1>7. ShowInv(c)'
  BY <1>2, Threads, LifecycleAssumption
     DEF ListenFails, Inv, TypeInv, DataOK, CallInv, StopInv, ShowInv, Shown, Status, Running,
         LinkState, Resting, StartPlaces, storeVars, transportVars, callbackVars, bootVars
<1>8. BootInv(c)'
  BY <1>2, LifecycleAssumption
     DEF ListenFails, Inv, TypeInv, DataOK, CallInv, StopInv, BootInv, Scripted, SentUpTo,
         Running, StartPlaces, storeVars, transportVars, callbackVars, bootVars
<1> QED
  BY <1>3, <1>4, <1>5, <1>6, <1>7, <1>8 DEF Inv

LEMMA AbandonKeeps ==
  ASSUME NEW c \in Callers, TypeInv, Inv(c), Abandon(c)
  PROVE  Inv(c)'
<1>1. Moved(c, "report")
  BY OneMoves, TypeParts, Threads DEF Abandon, TypeInv
<1>2. /\ at'[c] = "report"
      /\ \A t \in Transport : at'[Loop(t)] = at[Loop(t)] /\ at'[Closer(t)] = at[Closer(t)]
      /\ \A t \in Transport : AllOut(t)' <=> AllOut(t)
  BY <1>1, CallerAlone
<1>3. CallInv(c)'
  BY <1>2, LifecycleAssumption
     DEF Abandon, Inv, TypeInv, DataOK, CallInv, StartPlaces, storeVars, transportVars,
         callbackVars, bootVars
<1>4. FreeInv(c)'
  <2> SUFFICES ASSUME NEW u \in Transport, ~Held(c, u)' PROVE Free(u)'
    BY DEF FreeInv
  <2>1. CASE ~Held(c, u)
    <3>1. Free(u)
      BY <2>1 DEF Inv, FreeInv
    <3> QED
      BY <1>2, <3>1 DEF Abandon, Free, transportVars
  <2>2. CASE Held(c, u)
    <3>1. u = mine[c] /\ Used(c, u) /\ at[c] \in {"abandon", "wait"}
      BY <2>2, LifecycleAssumption DEF Abandon, Held, Inv, CallInv, HeldInv
    <3>2. at[Closer(u)] = "done" /\ at[Loop(u)] = "off"
      BY <3>1 DEF Abandon, Waited
    <3> QED
      BY <1>2, <3>1, <3>2 DEF Abandon, Used, Free, transportVars
  <2> QED
    BY <2>1, <2>2
<1>5. HeldInv(c)'
  <2> SUFFICES ASSUME NEW u \in Transport, Held(c, u)' PROVE Used(c, u)'
    BY DEF HeldInv
  <2>1. Held(c, u)
    BY <1>2, LifecycleAssumption
       DEF Abandon, Held, Inv, TypeInv, DataOK, CallInv, StartPlaces
  <2>2. Used(c, u)
    BY <2>1 DEF Inv, HeldInv
  <2> QED
    BY <1>2, <2>1, <2>2, LifecycleAssumption
       DEF Abandon, Used, Held, Inv, TypeInv, DataOK, CallInv, StartPlaces, storeVars,
           transportVars, callbackVars, bootVars
<1>6. StopInv(c)'
  BY <1>2, LifecycleAssumption
     DEF Abandon, Inv, TypeInv, DataOK, CallInv, StopInv, StartPlaces, storeVars,
         transportVars, callbackVars, bootVars
<1>7. ShowInv(c)'
  BY <1>2, Threads, LifecycleAssumption
     DEF Abandon, Inv, TypeInv, DataOK, CallInv, StopInv, ShowInv, Shown, Status, Running,
         LinkState, Resting, StartPlaces, storeVars, transportVars, callbackVars, bootVars
<1>8. BootInv(c)'
  BY <1>2, LifecycleAssumption
     DEF Abandon, Inv, TypeInv, DataOK, CallInv, StopInv, BootInv, Scripted, SentUpTo,
         Running, StartPlaces, storeVars, transportVars, callbackVars, bootVars
<1> QED
  BY <1>3, <1>4, <1>5, <1>6, <1>7, <1>8 DEF Inv

LEMMA StopLocksKeeps ==
  ASSUME NEW c \in Callers, TypeInv, Inv(c), StopLocks(c)
  PROVE  Inv(c)'
<1>1. Moved(c, IF run = None THEN "report" ELSE "cancel")
  BY OneMoves, TypeParts, Threads DEF StopLocks, TypeInv
<1>2. /\ at'[c] = (IF run = None THEN "report" ELSE "cancel")
      /\ \A t \in Transport : at'[Loop(t)] = at[Loop(t)] /\ at'[Closer(t)] = at[Closer(t)]
      /\ \A t \in Transport : AllOut(t)' <=> AllOut(t)
  BY <1>1, CallerAlone
<1>3. CallInv(c)'
  BY <1>2, LifecycleAssumption
     DEF StopLocks, Inv, TypeInv, DataOK, CallInv, StartPlaces, storeVars, transportVars,
         callbackVars, bootVars
<1>4. FreeInv(c)'
  <2> SUFFICES ASSUME NEW u \in Transport, ~Held(c, u)' PROVE Free(u)'
    BY DEF FreeInv
  <2>1. ~Held(c, u)
    BY <1>2, LifecycleAssumption
       DEF StopLocks, Held, Inv, TypeInv, DataOK, CallInv, StartPlaces
  <2>2. Free(u)
    BY <2>1 DEF Inv, FreeInv
  <2> QED
    BY <1>2, <2>1, <2>2
       DEF StopLocks, Free, Held, Inv, TypeInv, DataOK, CallInv, StartPlaces, storeVars,
           transportVars, callbackVars, bootVars
<1>5. HeldInv(c)'
  <2> SUFFICES ASSUME NEW u \in Transport, Held(c, u)' PROVE Used(c, u)'
    BY DEF HeldInv
  <2>1. Held(c, u)
    BY <1>2, LifecycleAssumption
       DEF StopLocks, Held, Inv, TypeInv, DataOK, CallInv, StartPlaces
  <2>2. Used(c, u)
    BY <2>1 DEF Inv, HeldInv
  <2> QED
    BY <1>2, <2>1, <2>2, LifecycleAssumption
       DEF StopLocks, Used, Held, Inv, TypeInv, DataOK, CallInv, StartPlaces, storeVars,
           transportVars, callbackVars, bootVars
<1>6. StopInv(c)'
  BY <1>2, LifecycleAssumption
     DEF StopLocks, Inv, TypeInv, DataOK, CallInv, StopInv, StartPlaces, storeVars,
         transportVars, callbackVars, bootVars
<1>7. ShowInv(c)'
  BY <1>2, Threads, LifecycleAssumption
     DEF StopLocks, Inv, TypeInv, DataOK, CallInv, StopInv, ShowInv, Shown, Status, Running,
         LinkState, Resting, StartPlaces, storeVars, transportVars, callbackVars, bootVars
<1>8. BootInv(c)'
  BY <1>2, LifecycleAssumption
     DEF StopLocks, Inv, TypeInv, DataOK, CallInv, StopInv, BootInv, Scripted, SentUpTo,
         Running, StartPlaces, storeVars, transportVars, callbackVars, bootVars
<1> QED
  BY <1>3, <1>4, <1>5, <1>6, <1>7, <1>8 DEF Inv

LEMMA StopCancelsKeeps ==
  ASSUME NEW c \in Callers, TypeInv, Inv(c), StopCancels(c)
  PROVE  Inv(c)'
<1>1. Moved(c, "wait")
  BY OneMoves, TypeParts, Threads DEF StopCancels, TypeInv
<1>2. /\ at'[c] = "wait"
      /\ \A t \in Transport : at'[Loop(t)] = at[Loop(t)] /\ at'[Closer(t)] = at[Closer(t)]
      /\ \A t \in Transport : AllOut(t)' <=> AllOut(t)
  BY <1>1, CallerAlone
<1>3. CallInv(c)'
  BY <1>2, LifecycleAssumption
     DEF StopCancels, Inv, TypeInv, DataOK, CallInv, StartPlaces, storeVars, transportVars,
         callbackVars, bootVars
<1>4. FreeInv(c)'
  <2> SUFFICES ASSUME NEW u \in Transport, ~Held(c, u)' PROVE Free(u)'
    BY DEF FreeInv
  <2>1. ~Held(c, u)
    BY <1>2, LifecycleAssumption
       DEF StopCancels, Held, Inv, TypeInv, DataOK, CallInv, StartPlaces
  <2>2. Free(u)
    BY <2>1 DEF Inv, FreeInv
  <2> QED
    BY <1>2, <2>1, <2>2
       DEF StopCancels, Free, Held, Inv, TypeInv, DataOK, CallInv, StartPlaces, storeVars,
           transportVars, callbackVars, bootVars
<1>5. HeldInv(c)'
  <2> SUFFICES ASSUME NEW u \in Transport, Held(c, u)' PROVE Used(c, u)'
    BY DEF HeldInv
  <2>1. Held(c, u)
    BY <1>2, LifecycleAssumption
       DEF StopCancels, Held, Inv, TypeInv, DataOK, CallInv, StartPlaces
  <2>2. Used(c, u)
    BY <2>1 DEF Inv, HeldInv
  <2> QED
    BY <1>2, <2>1, <2>2, LifecycleAssumption
       DEF StopCancels, Used, Held, Inv, TypeInv, DataOK, CallInv, StartPlaces, storeVars,
           transportVars, callbackVars, bootVars
<1>6. StopInv(c)'
  BY <1>2, LifecycleAssumption
     DEF StopCancels, Inv, TypeInv, DataOK, CallInv, StopInv, StartPlaces, storeVars,
         transportVars, callbackVars, bootVars
<1>7. ShowInv(c)'
  BY <1>2, Threads, LifecycleAssumption
     DEF StopCancels, Inv, TypeInv, DataOK, CallInv, StopInv, ShowInv, Shown, Status, Running,
         LinkState, Resting, StartPlaces, storeVars, transportVars, callbackVars, bootVars
<1>8. BootInv(c)'
  BY <1>2, LifecycleAssumption
     DEF StopCancels, Inv, TypeInv, DataOK, CallInv, StopInv, BootInv, Scripted, SentUpTo,
         Running, StartPlaces, storeVars, transportVars, callbackVars, bootVars
<1> QED
  BY <1>3, <1>4, <1>5, <1>6, <1>7, <1>8 DEF Inv

LEMMA StopWaitsKeeps ==
  ASSUME NEW c \in Callers, TypeInv, Inv(c), StopWaits(c)
  PROVE  Inv(c)'
<1>1. Moved(c, "report")
  BY OneMoves, TypeParts, Threads DEF StopWaits, TypeInv
<1>2. /\ at'[c] = "report"
      /\ \A t \in Transport : at'[Loop(t)] = at[Loop(t)] /\ at'[Closer(t)] = at[Closer(t)]
      /\ \A t \in Transport : AllOut(t)' <=> AllOut(t)
  BY <1>1, CallerAlone
<1>3. CallInv(c)'
  BY <1>2, LifecycleAssumption
     DEF StopWaits, Inv, TypeInv, DataOK, CallInv, StartPlaces, storeVars, transportVars,
         callbackVars, bootVars
<1>4. FreeInv(c)'
  <2> SUFFICES ASSUME NEW u \in Transport, ~Held(c, u)' PROVE Free(u)'
    BY DEF FreeInv
  <2>1. CASE ~Held(c, u)
    <3>1. Free(u)
      BY <2>1 DEF Inv, FreeInv
    <3> QED
      BY <1>2, <3>1 DEF StopWaits, Free, transportVars
  <2>2. CASE Held(c, u)
    <3>1. u = mine[c] /\ Used(c, u) /\ at[c] \in {"abandon", "wait"}
      BY <2>2, LifecycleAssumption DEF StopWaits, Held, Inv, CallInv, HeldInv
    <3>2. at[Closer(u)] = "done" /\ at[Loop(u)] = "off"
      BY <3>1 DEF StopWaits, Waited
    <3> QED
      BY <1>2, <3>1, <3>2 DEF StopWaits, Used, Free, transportVars
  <2> QED
    BY <2>1, <2>2
<1>5. HeldInv(c)'
  <2> SUFFICES ASSUME NEW u \in Transport, Held(c, u)' PROVE Used(c, u)'
    BY DEF HeldInv
  <2>1. Held(c, u)
    BY <1>2, LifecycleAssumption
       DEF StopWaits, Held, Inv, TypeInv, DataOK, CallInv, StartPlaces
  <2>2. Used(c, u)
    BY <2>1 DEF Inv, HeldInv
  <2> QED
    BY <1>2, <2>1, <2>2, LifecycleAssumption
       DEF StopWaits, Used, Held, Inv, TypeInv, DataOK, CallInv, StartPlaces, storeVars,
           transportVars, callbackVars, bootVars
<1>6. StopInv(c)'
  BY <1>2, LifecycleAssumption
     DEF StopWaits, Inv, TypeInv, DataOK, CallInv, StopInv, StartPlaces, storeVars,
         transportVars, callbackVars, bootVars
<1>7. ShowInv(c)'
  BY <1>2, Threads, LifecycleAssumption
     DEF StopWaits, Inv, TypeInv, DataOK, CallInv, StopInv, ShowInv, Shown, Status, Running,
         LinkState, Resting, StartPlaces, storeVars, transportVars, callbackVars, bootVars
<1>8. BootInv(c)'
  BY <1>2, LifecycleAssumption
     DEF StopWaits, Inv, TypeInv, DataOK, CallInv, StopInv, BootInv, Scripted, SentUpTo,
         Running, StartPlaces, storeVars, transportVars, callbackVars, bootVars
<1> QED
  BY <1>3, <1>4, <1>5, <1>6, <1>7, <1>8 DEF Inv

LEMMA ReportStoppedKeeps ==
  ASSUME NEW c \in Callers, TypeInv, Inv(c), ReportStopped(c)
  PROVE  Inv(c)'
<1>1. Moved(c, "idle")
  BY OneMoves, TypeParts, Threads DEF ReportStopped, SetRuntime, TypeInv
<1>2. /\ at'[c] = "idle"
      /\ \A t \in Transport : at'[Loop(t)] = at[Loop(t)] /\ at'[Closer(t)] = at[Closer(t)]
      /\ \A t \in Transport : AllOut(t)' <=> AllOut(t)
  BY <1>1, CallerAlone
<1>3. CallInv(c)'
  BY <1>2, LifecycleAssumption
     DEF ReportStopped, SetRuntime, Inv, TypeInv, DataOK, CallInv, StartPlaces, storeVars,
         transportVars, callbackVars, bootVars
<1>4. FreeInv(c)'
  <2> SUFFICES ASSUME NEW u \in Transport, ~Held(c, u)' PROVE Free(u)'
    BY DEF FreeInv
  <2>1. ~Held(c, u)
    BY <1>2, LifecycleAssumption
       DEF ReportStopped, SetRuntime, Held, Inv, TypeInv, DataOK, CallInv, StartPlaces
  <2>2. Free(u)
    BY <2>1 DEF Inv, FreeInv
  <2> QED
    BY <1>2, <2>1, <2>2
       DEF ReportStopped, SetRuntime, Free, Held, Inv, TypeInv, DataOK, CallInv,
           StartPlaces, storeVars, transportVars, callbackVars, bootVars
<1>5. HeldInv(c)'
  <2> SUFFICES ASSUME NEW u \in Transport, Held(c, u)' PROVE Used(c, u)'
    BY DEF HeldInv
  <2>1. Held(c, u)
    BY <1>2, LifecycleAssumption
       DEF ReportStopped, SetRuntime, Held, Inv, TypeInv, DataOK, CallInv, StartPlaces
  <2>2. Used(c, u)
    BY <2>1 DEF Inv, HeldInv
  <2> QED
    BY <1>2, <2>1, <2>2, LifecycleAssumption
       DEF ReportStopped, SetRuntime, Used, Held, Inv, TypeInv, DataOK, CallInv,
           StartPlaces, storeVars, transportVars, callbackVars, bootVars
<1>6. StopInv(c)'
  BY <1>2, LifecycleAssumption
     DEF ReportStopped, SetRuntime, Inv, TypeInv, DataOK, CallInv, StopInv, StartPlaces,
         storeVars, transportVars, callbackVars, bootVars
<1>7. ShowInv(c)'
  BY <1>2, Threads, LifecycleAssumption
     DEF ReportStopped, SetRuntime, Inv, TypeInv, DataOK, CallInv, StopInv, ShowInv, Shown, Status,
         Running, LinkState, Resting, StartPlaces, storeVars, transportVars, callbackVars,
         bootVars
<1>8. BootInv(c)'
  BY <1>2, LifecycleAssumption
     DEF ReportStopped, SetRuntime, Inv, TypeInv, DataOK, CallInv, StopInv, BootInv,
         Scripted, SentUpTo, Running, StartPlaces, storeVars, transportVars, callbackVars,
         bootVars
<1> QED
  BY <1>3, <1>4, <1>5, <1>6, <1>7, <1>8 DEF Inv

LEMMA ToggleReadsKeeps ==
  ASSUME NEW c \in Callers, TypeInv, Inv(c), ToggleReads(c)
  PROVE  Inv(c)'
<1>1. Moved(c, IF run # None THEN "stopping" ELSE "starting")
  BY OneMoves, TypeParts, Threads DEF ToggleReads, TypeInv
<1>2. /\ at'[c] = (IF run # None THEN "stopping" ELSE "starting")
      /\ \A t \in Transport : at'[Loop(t)] = at[Loop(t)] /\ at'[Closer(t)] = at[Closer(t)]
      /\ \A t \in Transport : AllOut(t)' <=> AllOut(t)
  BY <1>1, CallerAlone
<1>3. CallInv(c)'
  BY <1>2, LifecycleAssumption
     DEF ToggleReads, Inv, TypeInv, DataOK, CallInv, StartPlaces, storeVars, transportVars,
         callbackVars, bootVars
<1>4. FreeInv(c)'
  <2> SUFFICES ASSUME NEW u \in Transport, ~Held(c, u)' PROVE Free(u)'
    BY DEF FreeInv
  <2>1. ~Held(c, u)
    BY <1>2, LifecycleAssumption
       DEF ToggleReads, Held, Inv, TypeInv, DataOK, CallInv, StartPlaces
  <2>2. Free(u)
    BY <2>1 DEF Inv, FreeInv
  <2> QED
    BY <1>2, <2>1, <2>2
       DEF ToggleReads, Free, Held, Inv, TypeInv, DataOK, CallInv, StartPlaces, storeVars,
           transportVars, callbackVars, bootVars
<1>5. HeldInv(c)'
  <2> SUFFICES ASSUME NEW u \in Transport, Held(c, u)' PROVE Used(c, u)'
    BY DEF HeldInv
  <2>1. Held(c, u)
    BY <1>2, LifecycleAssumption
       DEF ToggleReads, Held, Inv, TypeInv, DataOK, CallInv, StartPlaces
  <2>2. Used(c, u)
    BY <2>1 DEF Inv, HeldInv
  <2> QED
    BY <1>2, <2>1, <2>2, LifecycleAssumption
       DEF ToggleReads, Used, Held, Inv, TypeInv, DataOK, CallInv, StartPlaces, storeVars,
           transportVars, callbackVars, bootVars
<1>6. StopInv(c)'
  BY <1>2, LifecycleAssumption
     DEF ToggleReads, Inv, TypeInv, DataOK, CallInv, StopInv, StartPlaces, storeVars,
         transportVars, callbackVars, bootVars
<1>7. ShowInv(c)'
  BY <1>2, Threads, LifecycleAssumption
     DEF ToggleReads, Inv, TypeInv, DataOK, CallInv, StopInv, ShowInv, Shown, Status, Running,
         LinkState, Resting, StartPlaces, storeVars, transportVars, callbackVars, bootVars
<1>8. BootInv(c)'
  BY <1>2, LifecycleAssumption
     DEF ToggleReads, Inv, TypeInv, DataOK, CallInv, StopInv, BootInv, Scripted, SentUpTo,
         Running, StartPlaces, storeVars, transportVars, callbackVars, bootVars
<1> QED
  BY <1>3, <1>4, <1>5, <1>6, <1>7, <1>8 DEF Inv

LEMMA InjectChecksKeeps ==
  ASSUME NEW c \in Callers, TypeInv, Inv(c), InjectChecks(c)
  PROVE  Inv(c)'
<1>1. Moved(c, "inject")
  BY OneMoves, TypeParts, Threads DEF InjectChecks, TypeInv
<1>2. /\ at'[c] = "inject"
      /\ \A t \in Transport : at'[Loop(t)] = at[Loop(t)] /\ at'[Closer(t)] = at[Closer(t)]
      /\ \A t \in Transport : AllOut(t)' <=> AllOut(t)
  BY <1>1, CallerAlone
<1>3. CallInv(c)'
  BY <1>2, LifecycleAssumption
     DEF InjectChecks, Inv, TypeInv, DataOK, CallInv, StartPlaces, storeVars,
         transportVars, callbackVars, bootVars
<1>4. FreeInv(c)'
  <2> SUFFICES ASSUME NEW u \in Transport, ~Held(c, u)' PROVE Free(u)'
    BY DEF FreeInv
  <2>1. ~Held(c, u)
    BY <1>2, LifecycleAssumption
       DEF InjectChecks, Held, Inv, TypeInv, DataOK, CallInv, StartPlaces
  <2>2. Free(u)
    BY <2>1 DEF Inv, FreeInv
  <2> QED
    BY <1>2, <2>1, <2>2
       DEF InjectChecks, Free, Held, Inv, TypeInv, DataOK, CallInv, StartPlaces, storeVars,
           transportVars, callbackVars, bootVars
<1>5. HeldInv(c)'
  <2> SUFFICES ASSUME NEW u \in Transport, Held(c, u)' PROVE Used(c, u)'
    BY DEF HeldInv
  <2>1. Held(c, u)
    BY <1>2, LifecycleAssumption
       DEF InjectChecks, Held, Inv, TypeInv, DataOK, CallInv, StartPlaces
  <2>2. Used(c, u)
    BY <2>1 DEF Inv, HeldInv
  <2> QED
    BY <1>2, <2>1, <2>2, LifecycleAssumption
       DEF InjectChecks, Used, Held, Inv, TypeInv, DataOK, CallInv, StartPlaces, storeVars,
           transportVars, callbackVars, bootVars
<1>6. StopInv(c)'
  BY <1>2, LifecycleAssumption
     DEF InjectChecks, Inv, TypeInv, DataOK, CallInv, StopInv, StartPlaces, storeVars,
         transportVars, callbackVars, bootVars
<1>7. ShowInv(c)'
  BY <1>2, Threads, LifecycleAssumption
     DEF InjectChecks, Inv, TypeInv, DataOK, CallInv, StopInv, ShowInv, Shown, Status, Running,
         LinkState, Resting, StartPlaces, storeVars, transportVars, callbackVars, bootVars
<1>8. BootInv(c)'
  BY <1>2, LifecycleAssumption
     DEF InjectChecks, Inv, TypeInv, DataOK, CallInv, StopInv, BootInv, Scripted, SentUpTo,
         Running, StartPlaces, storeVars, transportVars, callbackVars, bootVars
<1> QED
  BY <1>3, <1>4, <1>5, <1>6, <1>7, <1>8 DEF Inv

LEMMA InjectRunsKeeps ==
  ASSUME NEW c \in Callers, TypeInv, Inv(c), InjectRuns(c)
  PROVE  Inv(c)'
<1>1. Moved(c, "idle")
  BY OneMoves, TypeParts, Threads DEF InjectRuns, Schedules, TypeInv
<1>2. /\ at'[c] = "idle"
      /\ \A t \in Transport : at'[Loop(t)] = at[Loop(t)] /\ at'[Closer(t)] = at[Closer(t)]
      /\ \A t \in Transport : AllOut(t)' <=> AllOut(t)
  BY <1>1, CallerAlone
<1>3. CallInv(c)'
  BY <1>2, LifecycleAssumption
     DEF InjectRuns, Schedules, Inv, TypeInv, DataOK, CallInv, StartPlaces, storeVars,
         transportVars, callbackVars, bootVars
<1>4. FreeInv(c)'
  <2> SUFFICES ASSUME NEW u \in Transport, ~Held(c, u)' PROVE Free(u)'
    BY DEF FreeInv
  <2>1. ~Held(c, u)
    BY <1>2, LifecycleAssumption
       DEF InjectRuns, Schedules, Held, Inv, TypeInv, DataOK, CallInv, StartPlaces
  <2>2. Free(u)
    BY <2>1 DEF Inv, FreeInv
  <2> QED
    BY <1>2, <2>1, <2>2
       DEF InjectRuns, Schedules, Free, Held, Inv, TypeInv, DataOK, CallInv, StartPlaces,
           storeVars, transportVars, callbackVars, bootVars
<1>5. HeldInv(c)'
  <2> SUFFICES ASSUME NEW u \in Transport, Held(c, u)' PROVE Used(c, u)'
    BY DEF HeldInv
  <2>1. Held(c, u)
    BY <1>2, LifecycleAssumption
       DEF InjectRuns, Schedules, Held, Inv, TypeInv, DataOK, CallInv, StartPlaces
  <2>2. Used(c, u)
    BY <2>1 DEF Inv, HeldInv
  <2> QED
    BY <1>2, <2>1, <2>2, LifecycleAssumption
       DEF InjectRuns, Schedules, Used, Held, Inv, TypeInv, DataOK, CallInv, StartPlaces,
           storeVars, transportVars, callbackVars, bootVars
<1>6. StopInv(c)'
  BY <1>2, LifecycleAssumption
     DEF InjectRuns, Schedules, Inv, TypeInv, DataOK, CallInv, StopInv, StartPlaces,
         storeVars, transportVars, callbackVars, bootVars
<1>7. ShowInv(c)'
  BY <1>2, Threads, LifecycleAssumption
     DEF InjectRuns, Schedules, Inv, TypeInv, DataOK, CallInv, StopInv, ShowInv, Shown, Status,
         Running, LinkState, Resting, StartPlaces, storeVars, transportVars, callbackVars,
         bootVars
<1>8. BootInv(c)'
  BY <1>2, LifecycleAssumption
     DEF InjectRuns, Schedules, Inv, TypeInv, DataOK, CallInv, StopInv, BootInv, Scripted,
         SentUpTo, Running, StartPlaces, storeVars, transportVars, callbackVars, bootVars
<1> QED
  BY <1>3, <1>4, <1>5, <1>6, <1>7, <1>8 DEF Inv

LEMMA CallReadsKeeps ==
  ASSUME NEW c \in Callers, TypeInv, Inv(c), CallbackReads(c)
  PROVE  Inv(c)'
<1>1. Moved(c, "set")
  BY OneMoves, TypeParts, Threads DEF CallbackReads, TypeInv
<1>2. /\ at'[c] = "set"
      /\ \A t \in Transport : at'[Loop(t)] = at[Loop(t)] /\ at'[Closer(t)] = at[Closer(t)]
      /\ \A t \in Transport : AllOut(t)' <=> AllOut(t)
  BY <1>1, CallerAlone
<1>3. CallInv(c)'
  BY <1>2, LifecycleAssumption
     DEF CallbackReads, Inv, TypeInv, DataOK, CallInv, StartPlaces, storeVars,
         transportVars, callbackVars, bootVars
<1>4. FreeInv(c)'
  <2> SUFFICES ASSUME NEW u \in Transport, ~Held(c, u)' PROVE Free(u)'
    BY DEF FreeInv
  <2>1. ~Held(c, u)
    BY <1>2, LifecycleAssumption
       DEF CallbackReads, Held, Inv, TypeInv, DataOK, CallInv, StartPlaces
  <2>2. Free(u)
    BY <2>1 DEF Inv, FreeInv
  <2> QED
    BY <1>2, <2>1, <2>2
       DEF CallbackReads, Free, Held, Inv, TypeInv, DataOK, CallInv, StartPlaces,
           storeVars, transportVars, callbackVars, bootVars
<1>5. HeldInv(c)'
  <2> SUFFICES ASSUME NEW u \in Transport, Held(c, u)' PROVE Used(c, u)'
    BY DEF HeldInv
  <2>1. Held(c, u)
    BY <1>2, LifecycleAssumption
       DEF CallbackReads, Held, Inv, TypeInv, DataOK, CallInv, StartPlaces
  <2>2. Used(c, u)
    BY <2>1 DEF Inv, HeldInv
  <2> QED
    BY <1>2, <2>1, <2>2, LifecycleAssumption
       DEF CallbackReads, Used, Held, Inv, TypeInv, DataOK, CallInv, StartPlaces,
           storeVars, transportVars, callbackVars, bootVars
<1>6. StopInv(c)'
  BY <1>2, LifecycleAssumption
     DEF CallbackReads, Inv, TypeInv, DataOK, CallInv, StopInv, StartPlaces, storeVars,
         transportVars, callbackVars, bootVars
<1>7. ShowInv(c)'
  BY <1>2, Threads, LifecycleAssumption
     DEF CallbackReads, Inv, TypeInv, DataOK, CallInv, StopInv, ShowInv, Shown, Status, Running,
         LinkState, Resting, StartPlaces, storeVars, transportVars, callbackVars, bootVars
<1>8. BootInv(c)'
  BY <1>2, LifecycleAssumption
     DEF CallbackReads, Inv, TypeInv, DataOK, CallInv, StopInv, BootInv, Scripted,
         SentUpTo, Running, StartPlaces, storeVars, transportVars, callbackVars, bootVars
<1> QED
  BY <1>3, <1>4, <1>5, <1>6, <1>7, <1>8 DEF Inv

LEMMA CallSetsKeeps ==
  ASSUME NEW c \in Callers, TypeInv, Inv(c), CallbackSets(c)
  PROVE  Inv(c)'
<1>1. Moved(c, "launch")
  BY OneMoves, TypeParts, Threads, Afterwards DEF CallbackSets, SetRuntime, TypeInv
<1>2. /\ at'[c] = "launch"
      /\ \A t \in Transport : at'[Loop(t)] = at[Loop(t)] /\ at'[Closer(t)] = at[Closer(t)]
      /\ \A t \in Transport : AllOut(t)' <=> AllOut(t)
  BY <1>1, CallerAlone
<1>3. CallInv(c)'
  BY <1>2, LifecycleAssumption
     DEF CallbackSets, SetRuntime, Inv, TypeInv, DataOK, CallInv, StartPlaces, storeVars,
         transportVars, callbackVars, bootVars
<1>4. FreeInv(c)'
  <2> SUFFICES ASSUME NEW u \in Transport, ~Held(c, u)' PROVE Free(u)'
    BY DEF FreeInv
  <2>1. ~Held(c, u)
    BY <1>2, LifecycleAssumption
       DEF CallbackSets, SetRuntime, Held, Inv, TypeInv, DataOK, CallInv, StartPlaces
  <2>2. Free(u)
    BY <2>1 DEF Inv, FreeInv
  <2> QED
    BY <1>2, <2>1, <2>2
       DEF CallbackSets, SetRuntime, Free, Held, Inv, TypeInv, DataOK, CallInv,
           StartPlaces, storeVars, transportVars, callbackVars, bootVars
<1>5. HeldInv(c)'
  <2> SUFFICES ASSUME NEW u \in Transport, Held(c, u)' PROVE Used(c, u)'
    BY DEF HeldInv
  <2>1. Held(c, u)
    BY <1>2, LifecycleAssumption
       DEF CallbackSets, SetRuntime, Held, Inv, TypeInv, DataOK, CallInv, StartPlaces
  <2>2. Used(c, u)
    BY <2>1 DEF Inv, HeldInv
  <2> QED
    BY <1>2, <2>1, <2>2, LifecycleAssumption
       DEF CallbackSets, SetRuntime, Used, Held, Inv, TypeInv, DataOK, CallInv,
           StartPlaces, storeVars, transportVars, callbackVars, bootVars
<1>6. StopInv(c)'
  BY <1>2, LifecycleAssumption
     DEF CallbackSets, SetRuntime, Inv, TypeInv, DataOK, CallInv, StopInv, StartPlaces,
         storeVars, transportVars, callbackVars, bootVars
<1>7. ShowInv(c)'
  BY <1>2, Threads, LifecycleAssumption
     DEF CallbackSets, SetRuntime, Inv, TypeInv, DataOK, CallInv, StopInv, ShowInv, Shown, Status,
         Running, LinkState, Resting, StartPlaces, storeVars, transportVars, callbackVars,
         bootVars
<1>8. BootInv(c)'
  BY <1>2, LifecycleAssumption
     DEF CallbackSets, SetRuntime, Inv, TypeInv, DataOK, CallInv, StopInv, BootInv,
         Scripted, SentUpTo, Running, StartPlaces, storeVars, transportVars, callbackVars,
         bootVars
<1> QED
  BY <1>3, <1>4, <1>5, <1>6, <1>7, <1>8 DEF Inv

LEMMA LaunchKeeps ==
  ASSUME NEW c \in Callers, TypeInv, Inv(c), Launch(c)
  PROVE  Inv(c)'
<1> DEFINE r == mine[c]
<1>1. r \in Transport /\ r = run /\ run # None
  BY DEF Launch, TypeInv, HandsOK, Holding, StartPlaces, Inv, CallInv
<1>2. at' = [k \in Thread |-> IF k \in {c, Loop(r), Scheduler(r)} THEN "idle" ELSE at[k]]
  <2>1. at = [k \in Thread |-> at[k]]
    BY DEF TypeInv, PlacesOK
  <2> QED
    BY <2>1, <1>1, Threads DEF Launch
<1>3. /\ at'[c] = "idle" /\ at'[Loop(r)] = "idle"
      /\ \A u \in Transport : /\ u # r => at'[Loop(u)] = at[Loop(u)]
                              /\ at'[Closer(u)] = at[Closer(u)]
  BY <1>1, <1>2, Threads
<1>4. /\ UNCHANGED <<run, boot, script, step, mode, ctxDone, socket, listener, link>>
      /\ UNCHANGED <<applied, listening, shown, pending, says, saw>>
  BY DEF Launch, storeVars, transportVars, callbackVars, bootVars
<1>5. Used(c, r) /\ at[c] = "launch" /\ "launch" \in StartPlaces
  BY <1>1 DEF Launch, Inv, HeldInv, Held, StartPlaces
<1> HIDE DEF r
<1>6. CallInv(c)'
  BY <1>3 DEF CallInv, StartPlaces
<1>7. FreeInv(c)'
  <2> SUFFICES ASSUME NEW u \in Transport, ~Held(c, u)' PROVE Free(u)'
    BY DEF FreeInv
  <2>1. u # r /\ Free(u)
    BY <1>1, <1>4, <1>5 DEF Held, Inv, FreeInv
  <2> QED
    BY <1>3, <1>4, <2>1 DEF Free
<1>8. HeldInv(c)'
  <2> SUFFICES ASSUME NEW u \in Transport, Held(c, u)' PROVE Used(c, u)'
    BY DEF HeldInv
  <2>1. u = r
    BY <1>1, <1>3, <1>4 DEF Held
  <2> QED
    BY <1>3, <1>4, <1>5, <2>1 DEF Used, StartPlaces
<1>9. StopInv(c)'
  BY <1>1, <1>3, <1>4, <1>5 DEF StopInv, StartPlaces
<1>10. ShowInv(c)'
  <2>1. /\ applied = mode[r] /\ listening /\ shown = Resting(r) /\ pending = {}
        /\ link[r] = "none"
    BY <1>1, <1>5 DEF Inv, ShowInv, StopInv, Used, StartPlaces
  <2>2. Shown(run)'
    BY <1>1, <1>3, <1>4, <2>1 DEF Shown, Status, LinkState, Resting
  <2> QED
    BY <1>3, <2>2 DEF ShowInv, StartPlaces
<1>11. BootInv(c)'
  <2>1. boot' = None
    BY <1>4, <1>5 DEF Inv, StopInv
  <2> QED
    BY <2>1 DEF BootInv, Scripted
<1> QED
  BY <1>6, <1>7, <1>8, <1>9, <1>10, <1>11 DEF Inv

-----------------------------------------------------------------------------
(***************************************************************************)
(* A transport is shut down, and the steps aside.                          *)
(***************************************************************************)
\* A shutdown is under way only for the run that is being stopped.
LEMMA CloserStep ==
  ASSUME NEW c \in Callers, NEW t \in Transport, TypeInv, Inv(c),
         ctxDone[t], at[Closer(t)] # "done",
         NEW there, Moved(Closer(t), there),
         UNCHANGED <<run, mine, mode, ctxDone>>,
         \A u \in Transport : u # t => /\ link'[u] = link[u] /\ socket'[u] = socket[u]
                                       /\ listener'[u] = listener[u],
         ~socket'[t] /\ ~listener'[t] /\ link'[t] = "none",
         boot = None => boot' = None
  PROVE  Inv(c)'
<1>1. /\ at'[c] = at[c]
      /\ \A u \in Transport : /\ u # t => at'[Closer(u)] = at[Closer(u)]
                              /\ at'[Loop(u)] = at[Loop(u)]
  BY CloserAlone
<1>2. Held(c, t)
  BY DEF Inv, FreeInv, Free
<1>3. Used(c, t)
  BY <1>2 DEF Inv, HeldInv
<1>4. at[c] \in {"wait", "abandon"}
  BY <1>3 DEF Used
<1>5. CallInv(c)'
  BY <1>1 DEF Inv, CallInv
<1>6. FreeInv(c)'
  <2> SUFFICES ASSUME NEW u \in Transport, ~Held(c, u)' PROVE Free(u)'
    BY DEF FreeInv
  <2>1. ~Held(c, u) /\ u # t
    BY <1>1, <1>2 DEF Held
  <2>2. Free(u)
    BY <2>1 DEF Inv, FreeInv
  <2> QED
    BY <1>1, <2>1, <2>2 DEF Free
<1>7. HeldInv(c)'
  <2> SUFFICES ASSUME NEW u \in Transport, Held(c, u)' PROVE Used(c, u)'
    BY DEF HeldInv
  <2>1. Held(c, u)
    BY <1>1 DEF Held
  <2>2. Used(c, u)
    BY <2>1 DEF Inv, HeldInv
  <2>3. CASE u = t
    BY <1>1, <1>4, <2>2, <2>3 DEF Used
  <2>4. CASE u # t
    BY <1>1, <2>2, <2>4 DEF Used
  <2> QED
    BY <2>3, <2>4
<1>8. StopInv(c)' /\ ShowInv(c)' /\ BootInv(c)'
  <2>1. at'[c] \in {"wait", "abandon"} /\ boot' = None
    <3>1. run = None \/ at[c] = "abandon"
      BY <1>4 DEF Inv, CallInv
    <3>2. boot = None
      BY <3>1 DEF Inv, StopInv
    <3> QED
      BY <1>1, <1>4, <3>2
  <2>2. at'[c] \notin StartPlaces \cup {"idle", "starting", "stopping", "inject"}
    BY <2>1 DEF StartPlaces
  <2> QED
    BY <2>1, <2>2 DEF StopInv, ShowInv, BootInv, Running, StartPlaces
<1> QED
  BY <1>5, <1>6, <1>7, <1>8 DEF Inv

\* The closer of a transport that it has begun to shut down.
LEMMA CloserActs ==
  ASSUME NEW c \in Callers, NEW t \in Transport, TypeInv, Inv(c),
         at[Closer(t)] \in {"publish", "set"}
  PROVE  ctxDone[t] /\ ~socket[t] /\ ~listener[t] /\ link[t] = "none"
<1>1. Held(c, t)
  BY DEF Inv, FreeInv, Free
<1>2. Used(c, t)
  BY <1>1 DEF Inv, HeldInv
<1>3. ctxDone[t] /\ ~socket[t] /\ link[t] = "none"
  BY <1>2 DEF Used, TypeInv, DataOK
<1>4. at[c] # "register"
  BY <1>2, <1>3 DEF Used
<1> QED
  BY <1>2, <1>3, <1>4 DEF Used

LEMMA ShutdownTakesKeeps ==
  ASSUME NEW c \in Callers, NEW t \in Transport, TypeInv, Inv(c), ShutdownTakes(t)
  PROVE  Inv(c)'
<1>1. Moved(Closer(t), "publish")
  BY OneMoves, TypeParts, Threads DEF ShutdownTakes, PublishFrom, TypeInv
<1>2. ctxDone[t] /\ at[Closer(t)] = "off"
  BY DEF ShutdownTakes
<1>3. socket[t] <=> listener[t]
  <2>1. Held(c, t)
    BY <1>2 DEF Inv, FreeInv, Free
  <2>2. Used(c, t)
    BY <2>1 DEF Inv, HeldInv
  <2> QED
    BY <1>2, <2>2 DEF Used
<1>4. /\ ~socket'[t] /\ ~listener'[t] /\ link'[t] = "none"
      /\ \A u \in Transport : u # t => /\ link'[u] = link[u] /\ socket'[u] = socket[u]
                                       /\ listener'[u] = listener[u]
  BY <1>3 DEF ShutdownTakes, TypeInv, DataOK
<1> QED
  BY <1>1, <1>2, <1>4, CloserStep DEF ShutdownTakes, bootVars

LEMMA CloserReadsKeeps ==
  ASSUME NEW c \in Callers, NEW t \in Transport, TypeInv, Inv(c), CallbackReads(Closer(t))
  PROVE  Inv(c)'
<1>1. Moved(Closer(t), "set")
  BY OneMoves, TypeParts, Threads DEF CallbackReads, TypeInv
<1>2. at[Closer(t)] = "publish"
  BY DEF CallbackReads
<1>3. ctxDone[t] /\ ~socket[t] /\ ~listener[t] /\ link[t] = "none"
  BY <1>2, CloserActs
<1> QED
  BY <1>1, <1>2, <1>3, CloserStep DEF CallbackReads, transportVars

LEMMA CloserSetsKeeps ==
  ASSUME NEW c \in Callers, NEW t \in Transport, TypeInv, Inv(c), CallbackSets(Closer(t))
  PROVE  Inv(c)'
<1>1. Moved(Closer(t), "done")
  BY OneMoves, TypeParts, Threads, Afterwards DEF CallbackSets, TypeInv
<1>2. at[Closer(t)] = "set"
  BY DEF CallbackSets
<1>3. ctxDone[t] /\ ~socket[t] /\ ~listener[t] /\ link[t] = "none"
  BY <1>2, CloserActs
<1> QED
  BY <1>1, <1>2, <1>3, CloserStep DEF CallbackSets, transportVars, bootVars

LEMMA RecycleKeeps ==
  ASSUME NEW c \in Callers, NEW t \in Transport, TypeInv, Inv(c), Recycle(t)
  PROVE  Inv(c)'
<1>1. Moved(Closer(t), "off")
  <2>1. at = [k \in Thread |-> at[k]]
    BY DEF TypeInv, PlacesOK
  <2> QED
    BY <2>1, Threads DEF Recycle, Moved
<1>2. /\ at'[c] = at[c] /\ at'[Closer(t)] = "off"
      /\ \A u \in Transport : /\ u # t => at'[Closer(u)] = at[Closer(u)]
                              /\ at'[Loop(u)] = at[Loop(u)]
                              /\ AllOut(u)' <=> AllOut(u)
  BY <1>1, CloserAlone
<1>3. /\ UNCHANGED <<run, boot, script, step, mine, socket, listener, link, says, saw>>
      /\ UNCHANGED <<applied, listening, shown, pending>>
  BY DEF Recycle, bootVars, storeVars, callbackVars
<1>4. ~Held(c, t) /\ run # t
  BY DEF Recycle, Held
<1>5. /\ mode'[t] = None /\ ~ctxDone'[t]
      /\ \A u \in Transport : u # t => mode'[u] = mode[u] /\ ctxDone'[u] = ctxDone[u]
  BY DEF Recycle, TypeInv, DataOK
<1>6. CallInv(c)'
  BY <1>2, <1>3 DEF Inv, CallInv
<1>7. FreeInv(c)'
  <2> SUFFICES ASSUME NEW u \in Transport, ~Held(c, u)' PROVE Free(u)'
    BY DEF FreeInv
  <2>1. Free(u)
    BY <1>2, <1>3 DEF Held, Inv, FreeInv
  <2> QED
    BY <1>2, <1>3, <1>5, <2>1 DEF Free
<1>8. HeldInv(c)'
  <2> SUFFICES ASSUME NEW u \in Transport, Held(c, u)' PROVE Used(c, u)'
    BY DEF HeldInv
  <2>1. Held(c, u) /\ u # t
    BY <1>2, <1>3, <1>4 DEF Held
  <2>2. Used(c, u)
    BY <2>1 DEF Inv, HeldInv
  <2> QED
    BY <1>2, <1>3, <1>5, <2>1, <2>2 DEF Used
<1>9. StopInv(c)'
  BY <1>2, <1>3 DEF Inv, StopInv
<1>10. run # None => mode'[run] = mode[run]
  BY <1>4, <1>5 DEF TypeInv, DataOK
<1>11. ShowInv(c)'
  <2>1. at[c] \in StartPlaces => run # None
    BY DEF Inv, CallInv
  <2>2. {"register", "publish", "set", "launch"} \subseteq StartPlaces
    BY DEF StartPlaces
  <2>3. Running(c) => Shown(run)'
    <3> SUFFICES ASSUME Running(c) PROVE Shown(run)'
      OBVIOUS
    <3>1. Shown(run) /\ run \in Transport
      BY DEF Inv, ShowInv, Running, TypeInv, DataOK
    <3> QED
      BY <1>2, <1>3, <1>10, <3>1 DEF Shown, Status, Running, LinkState, Resting
  <2> QED
    BY <1>2, <1>3, <1>10, <2>1, <2>2, <2>3 DEF Inv, ShowInv, Running, Resting
<1>12. BootInv(c)'
  <2> SUFFICES ASSUME Running(c) PROVE Scripted(run)'
    BY <1>2, <1>3 DEF BootInv, Running
  <2>1. Scripted(run) /\ run \in Transport
    BY DEF Inv, BootInv, Running, TypeInv, DataOK
  <2> QED
    BY <1>2, <1>3, <2>1 DEF Scripted, SentUpTo
<1> QED
  BY <1>6, <1>7, <1>8, <1>9, <1>11, <1>12 DEF Inv

\* The steps that no part of the invariant looks at, but for the queue.
LEMMA AsideKeeps ==
  ASSUME NEW c \in Callers, TypeInv, Inv(c), at'[c] = at[c], pending' \subseteq pending,
         \A t \in Transport : at'[Loop(t)] = at[Loop(t)] /\ at'[Closer(t)] = at[Closer(t)],
         \A t \in Transport : AllOut(t)' <=> AllOut(t),
         UNCHANGED <<run, boot, script, step, mine, mode, ctxDone, socket, listener, link>>,
         UNCHANGED <<applied, listening, shown, says, saw>>
  PROVE  Inv(c)'
<1>1. CallInv(c)' /\ StopInv(c)'
  BY DEF Inv, CallInv, StopInv
<1>2. FreeInv(c)'
  BY DEF Inv, FreeInv, Free, Held
<1>3. HeldInv(c)'
  BY DEF Inv, HeldInv, Used, Held
<1>4. run # None => run \in Transport
  BY DEF TypeInv, DataOK
<1>5. ShowInv(c)'
  BY <1>4 DEF Inv, ShowInv, Shown, Status, Running, LinkState, Resting
<1>6. BootInv(c)'
  BY <1>4 DEF Inv, BootInv, Scripted, Running, SentUpTo
<1> QED
  BY <1>1, <1>2, <1>3, <1>5, <1>6 DEF Inv

LEMMA OthersKeep ==
  ASSUME NEW c \in Callers, TypeInv, Inv(c),
         \/ \E t \in Transport : SchedulerTicks(t) \/ SchedulerEnds(t)
         \/ UpdateHSMS \/ UNCHANGED vars
  PROVE  Inv(c)'
<1>0. at' = at => \A u \in Transport : AllOut(u)' <=> AllOut(u)
  BY DEF AllOut
<1>1. ASSUME NEW t \in Transport, SchedulerTicks(t) PROVE Inv(c)'
  BY <1>0, <1>1, AsideKeeps DEF SchedulerTicks, transportVars, callbackVars, bootVars
<1>2. ASSUME NEW t \in Transport, SchedulerEnds(t) PROVE Inv(c)'
  <2>1. Moved(Scheduler(t), "off")
    BY <1>2, OneMoves, TypeParts, Threads DEF SchedulerEnds, TypeInv
  <2>2. /\ at'[c] = at[c]
        /\ \A u \in Transport : at'[Loop(u)] = at[Loop(u)] /\ at'[Closer(u)] = at[Closer(u)]
    BY <2>1, Threads DEF Moved
  <2>3. \A u \in Transport, r \in Exits : at'[Leaver(u, r)] = at[Leaver(u, r)]
    BY <2>1, Leavers DEF Moved
  <2>4. \A u \in Transport : AllOut(u)' <=> AllOut(u)
    BY <2>3 DEF AllOut
  <2> QED
    BY <1>2, <2>2, <2>4, AsideKeeps
       DEF SchedulerEnds, storeVars, transportVars, callbackVars, bootVars
<1>3. CASE UpdateHSMS
  BY <1>0, <1>3, AsideKeeps DEF UpdateHSMS, transportVars, callbackVars, bootVars
<1>4. CASE UNCHANGED vars
  BY <1>0, <1>4, AsideKeeps DEF vars, storeVars, transportVars, callbackVars, bootVars
<1> QED
  BY <1>1, <1>2, <1>3, <1>4

-----------------------------------------------------------------------------
(***************************************************************************)
(* The readers on their way out, in the steps of the others and their own. *)
(***************************************************************************)
LEMMA ExitsKept ==
  ASSUME NEW c \in Callers, ExitInv(c),
         \A t \in Transport, r \in Exits : /\ at'[Leaver(t, r)] = at[Leaver(t, r)]
                                          /\ says'[Leaver(t, r)] = says[Leaver(t, r)]
                                          /\ saw'[Leaver(t, r)] = saw[Leaver(t, r)],
         \A t \in Transport :
           Held(c, t) /\ at[c] \notin StartPlaces \cup {"abandon"} /\ ~AllOut(t) =>
             /\ Held(c, t)' /\ at'[c] \notin StartPlaces \cup {"abandon"}
             /\ mode'[t] = mode[t] /\ (run' = t => run = t)
  PROVE  ExitInv(c)'
<1> SUFFICES ASSUME NEW t \in Transport, NEW r \in Exits, at'[Leaver(t, r)] # "off"
             PROVE  Leaving(c, t, r)'
  BY DEF ExitInv
<1>1. Leaving(c, t, r) /\ ~AllOut(t)
  BY DEF ExitInv, AllOut
<1>2. /\ Held(c, t)' /\ at'[c] \notin StartPlaces \cup {"abandon"}
      /\ mode'[t] = mode[t] /\ (run' = t => run = t)
  BY <1>1 DEF Leaving
<1> QED
  BY <1>1, <1>2 DEF Leaving

\* A step that is not a reader's leaves the readers alone.
LEMMA NotALeaver ==
  ASSUME TypeInv, NEW k, \A t \in Transport, r \in Exits : k # Leaver(t, r),
         at' = at \/ (\E there : Goto(k, there)),
         says' = says \/ (\E state : says' = [says EXCEPT ![k] = state]),
         saw' = saw \/ (\E seen : saw' = [saw EXCEPT ![k] = seen])
  PROVE  \A t \in Transport, r \in Exits : /\ at'[Leaver(t, r)] = at[Leaver(t, r)]
                                          /\ says'[Leaver(t, r)] = says[Leaver(t, r)]
                                          /\ saw'[Leaver(t, r)] = saw[Leaver(t, r)]
<1> SUFFICES ASSUME NEW t \in Transport, NEW r \in Exits
             PROVE  /\ at'[Leaver(t, r)] = at[Leaver(t, r)]
                    /\ says'[Leaver(t, r)] = says[Leaver(t, r)]
                    /\ saw'[Leaver(t, r)] = saw[Leaver(t, r)]
  OBVIOUS
<1>1. Leaver(t, r) \in Thread /\ k # Leaver(t, r)
  BY Leavers
<1>2. /\ at = [j \in Thread |-> at[j]]
      /\ says \in [Thread -> States] /\ saw \in [Thread -> BOOLEAN]
  BY DEF TypeInv, PlacesOK, DataOK
<1>3. at'[Leaver(t, r)] = at[Leaver(t, r)]
  BY <1>1, <1>2 DEF Goto
<1>4. says'[Leaver(t, r)] = says[Leaver(t, r)]
  BY <1>1, <1>2
<1>5. saw'[Leaver(t, r)] = saw[Leaver(t, r)]
  BY <1>1, <1>2
<1> QED
  BY <1>3, <1>4, <1>5

-----------------------------------------------------------------------------
(***************************************************************************)
(* Any number of callers, of which one at a time has a call in progress.   *)
(* The invariant holds of the caller that has, and of every caller when    *)
(* none has.                                                               *)
(***************************************************************************)
OneAtATime == \A c, d \in Callers : at[c] # "idle" /\ at[d] # "idle" => c = d

Alone(c) == \A d \in Callers : d # c => at[d] = "idle"
Whole(c) == Inv(c) /\ ExitInv(c)
AllInv == \A c \in Callers : Alone(c) => Whole(c)

LEMMA SomeoneAlone ==
  ASSUME AllInv, OneAtATime
  PROVE  \E c \in Callers : Whole(c)
<1>1. CASE \E c \in Callers : at[c] # "idle"
  BY <1>1 DEF AllInv, Alone, OneAtATime
<1>2. CASE \A c \in Callers : at[c] = "idle"
  BY <1>2, LifecycleAssumption DEF AllInv, Alone
<1> QED
  BY <1>1, <1>2

\* Idle callers are all alike.
Alike == \A c, d \in Callers : at[c] = "idle" /\ at[d] = "idle" /\ Whole(c) => Whole(d)

LEMMA IdleAlike == Alike
<1> SUFFICES ASSUME NEW c \in Callers, NEW d \in Callers, at[c] = "idle", at[d] = "idle",
                    Inv(c), ExitInv(c)
             PROVE  Inv(d) /\ ExitInv(d)
  BY DEF Alike, Whole
<1>1. "idle" \notin StartPlaces
  BY DEF StartPlaces
<1>2. \A t \in Transport : (Held(c, t) <=> Held(d, t)) /\ (Used(c, t) <=> Used(d, t))
  BY <1>1 DEF Held, Used
<1>3. (Running(c) <=> Running(d)) /\ CallInv(d)
  BY <1>1 DEF Running, CallInv
<1>4. FreeInv(d) /\ HeldInv(d)
  BY <1>2 DEF Inv, FreeInv, HeldInv
<1>5. StopInv(d) /\ ShowInv(d) /\ BootInv(d)
  BY <1>1, <1>3 DEF Inv, StopInv, ShowInv, BootInv
<1>6. ExitInv(d)
  BY <1>1, <1>2 DEF ExitInv, Leaving
<1> QED
  BY <1>3, <1>4, <1>5, <1>6 DEF Inv

LEMMA IdleAlikeNext == Alike'
BY IdleAlike, PTL

CallerStep(c) == StartNext(c) \/ StopNext(c) \/ CallNext(c) \/ CallbackNext(c)

LEMMA CallerKeeps ==
  ASSUME NEW c \in Callers, TypeInv, Inv(c), CallerStep(c)
  PROVE  Inv(c)'
<1>1. CASE StartNext(c)
  BY <1>1, StartLocksKeeps, StartRecordsKeeps, StartShowsKeeps, OpenActiveKeeps,
     ListenKeeps, RegisterKeeps, LaunchKeeps, ListenFailsKeeps, AbandonKeeps
     DEF StartNext
<1>2. CASE StopNext(c)
  BY <1>2, StopLocksKeeps, StopCancelsKeeps, StopWaitsKeeps, ReportStoppedKeeps DEF StopNext
<1>3. CASE CallNext(c)
  BY <1>3, ToggleReadsKeeps, InjectChecksKeeps, InjectRunsKeeps DEF CallNext
<1>4. CASE CallbackNext(c)
  BY <1>4, CallReadsKeeps, CallSetsKeeps DEF CallbackNext
<1> QED
  BY <1>1, <1>2, <1>3, <1>4 DEF CallerStep

LEMMA CallerMovesAlone ==
  ASSUME NEW c \in Callers, TypeInv, CallerStep(c), NEW d \in Callers, d # c
  PROVE  at'[d] = at[d]
<1>1. at = [k \in Thread |-> at[k]] /\ c \in Thread /\ d \in Thread
  BY Threads DEF TypeInv, PlacesOK
<1>2. ASSUME NEW there, Goto(c, there) PROVE at'[d] = at[d]
  BY <1>1, <1>2 DEF Goto
<1>3. CASE StartNext(c)
  <2>1. CASE Launch(c)
    <3>1. mine[c] \in Transport
      BY <2>1 DEF Launch, TypeInv, HandsOK, Holding, StartPlaces
    <3> QED
      BY <1>1, <2>1, <3>1, Threads DEF Launch
  <2>2. CASE ~Launch(c)
    BY <1>2, <1>3, <2>2
       DEF StartNext, StartLocks, StartRecords, StartShows, OpenActive, Listen, Register,
           ListenFails, Abandon, PublishFrom
  <2> QED
    BY <2>1, <2>2
<1>4. CASE StopNext(c)
  BY <1>2, <1>4 DEF StopNext, StopLocks, StopCancels, StopWaits, ReportStopped
<1>5. CASE CallNext(c)
  BY <1>2, <1>5 DEF CallNext, ToggleReads, InjectChecks, InjectRuns
<1>6. CASE CallbackNext(c)
  BY <1>2, <1>6 DEF CallbackNext, CallbackReads, CallbackSets
<1> QED
  BY <1>3, <1>4, <1>5, <1>6 DEF CallerStep

\* What a caller does leaves the readers as they are, and gives up a
\* transport only once it has none.
LEMMA CallerLeavesReaders ==
  ASSUME NEW c \in Callers, TypeInv, CallerStep(c)
  PROVE  \A t \in Transport, r \in Exits : /\ at'[Leaver(t, r)] = at[Leaver(t, r)]
                                          /\ says'[Leaver(t, r)] = says[Leaver(t, r)]
                                          /\ saw'[Leaver(t, r)] = saw[Leaver(t, r)]
<1>1. \A t \in Transport, r \in Exits : c # Leaver(t, r)
  BY Leavers
<1>2. CASE Launch(c)
  <2>1. mine[c] \in Transport
    BY <1>2 DEF Launch, TypeInv, HandsOK, Holding, StartPlaces
  <2>2. at = [k \in Thread |-> at[k]]
    BY DEF TypeInv, PlacesOK
  <2>3. at' = [at EXCEPT ![c] = "idle", ![Loop(mine[c])] = "idle", ![Scheduler(mine[c])] = "idle"]
    BY <1>2 DEF Launch
  <2>4. UNCHANGED <<says, saw>>
    BY <1>2 DEF Launch, callbackVars
  <2> SUFFICES ASSUME NEW t \in Transport, NEW r \in Exits
               PROVE  at'[Leaver(t, r)] = at[Leaver(t, r)]
    BY <2>4
  <2>5. /\ Leaver(t, r) \in Thread
        /\ Leaver(t, r) \notin {c, Loop(mine[c]), Scheduler(mine[c])}
    BY <1>1, <2>1, Leavers
  <2> QED
    BY <2>2, <2>3, <2>5
<1>3. CASE ~Launch(c)
  <2>1. at' = at \/ \E there : Goto(c, there)
    <3>1. CASE StartNext(c)
      BY <1>3, <3>1
         DEF StartNext, StartLocks, StartRecords, StartShows, OpenActive, Listen, Register,
             ListenFails, Abandon, PublishFrom
    <3>2. CASE StopNext(c)
      BY <3>2 DEF StopNext, StopLocks, StopCancels, StopWaits, ReportStopped
    <3>3. CASE CallNext(c)
      BY <3>3 DEF CallNext, ToggleReads, InjectChecks, InjectRuns
    <3>4. CASE CallbackNext(c)
      BY <3>4 DEF CallbackNext, CallbackReads, CallbackSets
    <3> QED
      BY <3>1, <3>2, <3>3, <3>4 DEF CallerStep
  <2>2. says' = says \/ \E state : says' = [says EXCEPT ![c] = state]
    <3>1. CASE StartNext(c)
      BY <1>3, <3>1
         DEF StartNext, StartLocks, StartRecords, StartShows, OpenActive, Listen, Register,
             ListenFails, Abandon, PublishFrom, callbackVars
    <3>2. CASE StopNext(c)
      BY <3>2 DEF StopNext, StopLocks, StopCancels, StopWaits, ReportStopped, callbackVars
    <3>3. CASE CallNext(c)
      BY <3>3 DEF CallNext, ToggleReads, InjectChecks, InjectRuns, callbackVars
    <3>4. CASE CallbackNext(c)
      BY <3>4 DEF CallbackNext, CallbackReads, CallbackSets
    <3> QED
      BY <3>1, <3>2, <3>3, <3>4 DEF CallerStep
  <2>3. saw' = saw \/ \E seen : saw' = [saw EXCEPT ![c] = seen]
    <3>1. CASE StartNext(c)
      BY <1>3, <3>1
         DEF StartNext, StartLocks, StartRecords, StartShows, OpenActive, Listen, Register,
             ListenFails, Abandon, PublishFrom, callbackVars
    <3>2. CASE StopNext(c)
      BY <3>2 DEF StopNext, StopLocks, StopCancels, StopWaits, ReportStopped, callbackVars
    <3>3. CASE CallNext(c)
      BY <3>3 DEF CallNext, ToggleReads, InjectChecks, InjectRuns, callbackVars
    <3>4. CASE CallbackNext(c)
      BY <3>4 DEF CallbackNext, CallbackReads, CallbackSets
    <3> QED
      BY <3>1, <3>2, <3>3, <3>4 DEF CallerStep
  <2> QED
    BY <1>1, <2>1, <2>2, <2>3, NotALeaver
<1> QED
  BY <1>2, <1>3

LEMMA CallerExits ==
  ASSUME NEW c \in Callers, TypeInv, Inv(c), ExitInv(c), CallerStep(c)
  PROVE  ExitInv(c)'
<1>1. ASSUME NEW t \in Transport, Held(c, t), at[c] \notin StartPlaces \cup {"abandon"}, ~AllOut(t)
      PROVE  /\ Held(c, t)' /\ at'[c] \notin StartPlaces \cup {"abandon"}
             /\ mode'[t] = mode[t] /\ (run' = t => run = t)
  <2>1. \/ run = t /\ at[c] \in {"idle", "stopping", "inject"}
        \/ run = None /\ at[c] \in {"cancel", "wait"} /\ mine[c] = t
    BY <1>1, HeldActs DEF Running
  <2>2. t # None /\ c \in Thread
    BY LifecycleAssumption, Threads
  <2>3. \A there : Goto(c, there) => at'[c] = there
    BY <2>2 DEF Goto, TypeInv, PlacesOK
  <2>4. CASE StartNext(c)
    <3>1. StartLocks(c) /\ run = t
      BY <1>1, <2>1, <2>4
         DEF StartNext, StartLocks, StartRecords, StartShows, OpenActive, Listen, Register, Launch,
             ListenFails, Abandon, StartPlaces
    <3> QED
      BY <2>2, <2>3, <3>1 DEF StartLocks, Held, transportVars, StartPlaces
  <2>5. CASE StopNext(c)
    <3>1. CASE StopLocks(c)
      BY <2>1, <2>2, <2>3, <3>1 DEF StopLocks, Held, transportVars, StartPlaces, TypeInv, DataOK
    <3>2. CASE StopCancels(c)
      BY <2>1, <2>2, <2>3, <3>2 DEF StopCancels, Held, StartPlaces
    <3>3. CASE StopWaits(c)
      BY <1>1, <2>1, <3>3 DEF StopWaits, Waited
    <3>4. CASE ReportStopped(c)
      BY <2>1, <3>4 DEF ReportStopped
    <3> QED
      BY <2>5, <3>1, <3>2, <3>3, <3>4 DEF StopNext
  <2>6. CASE CallNext(c)
    BY <2>1, <2>2, <2>3, <2>6
       DEF CallNext, ToggleReads, InjectChecks, InjectRuns, Held, transportVars, StartPlaces
  <2>7. CASE CallbackNext(c)
    BY <1>1, <2>7 DEF CallbackNext, CallbackReads, CallbackSets, StartPlaces
  <2> QED
    BY <2>4, <2>5, <2>6, <2>7 DEF CallerStep
<1>2. \A t \in Transport, r \in Exits : /\ at'[Leaver(t, r)] = at[Leaver(t, r)]
                                        /\ says'[Leaver(t, r)] = says[Leaver(t, r)]
                                        /\ saw'[Leaver(t, r)] = saw[Leaver(t, r)]
  BY CallerLeavesReaders
<1> QED
  BY <1>1, <1>2, ExitsKept

\* A caller that neither was nor is busy has done nothing: a Start that
\* finds a run.
LEMMA IdleCall ==
  ASSUME NEW c \in Callers, TypeInv, CallerStep(c), at[c] = "idle", at'[c] = "idle"
  PROVE  UNCHANGED vars
<1>1. \A there : Goto(c, there) => there = "idle"
  <2>1. at = [k \in Thread |-> at[k]] /\ c \in Thread
    BY Threads DEF TypeInv, PlacesOK
  <2> QED
    BY <2>1 DEF Goto
<1>2. StartLocks(c) /\ run # None
  <2>1. ~StopNext(c)
    BY <1>1 DEF StopNext, StopLocks, StopCancels, StopWaits, ReportStopped
  <2>2. ~CallNext(c)
    BY <1>1 DEF CallNext, ToggleReads, InjectChecks, InjectRuns
  <2>3. ~CallbackNext(c)
    BY DEF CallbackNext, CallbackReads, CallbackSets
  <2>4. StartLocks(c)
    BY <2>1, <2>2, <2>3
       DEF CallerStep, StartNext, StartRecords, StartShows, OpenActive, Listen, Register,
           Launch, ListenFails, Abandon
  <2> QED
    BY <1>1, <2>4 DEF StartLocks
<1>3. at' = at
  <2>1. at = [k \in Thread |-> at[k]] /\ c \in Thread
    BY Threads DEF TypeInv, PlacesOK
  <2> QED
    BY <1>2, <2>1 DEF StartLocks, Goto
<1> QED
  BY <1>2, <1>3 DEF StartLocks, vars

\* Nothing that a reader on its way out depends on moves.
LEMMA AsideExits ==
  ASSUME NEW c \in Callers, ExitInv(c), UpdateHSMS \/ UNCHANGED vars
  PROVE  ExitInv(c)'
<1>1. UNCHANGED <<run, mine, mode, at, says, saw>>
  BY DEF UpdateHSMS, vars, transportVars, callbackVars
<1> QED
  BY <1>1, ExitsKept DEF Held

LEMMA CallerKeepsAll ==
  ASSUME NEW c \in Callers, TypeInv, AllInv, OneAtATime, OneAtATime', CallerStep(c)
  PROVE  AllInv'
<1>1. \A d \in Callers : d # c => at'[d] = at[d]
  BY CallerMovesAlone
<1>2. CASE at[c] = "idle" /\ at'[c] = "idle"
  <2>1. UNCHANGED vars
    BY <1>2, IdleCall
  <2> SUFFICES ASSUME NEW d \in Callers, Alone(d)' PROVE Whole(d)'
    BY DEF AllInv
  <2>2. Inv(d) /\ ExitInv(d)
    BY <2>1 DEF vars, AllInv, Alone, Whole
  <2>3. Inv(d)'
    BY <2>1, <2>2, OthersKeep
  <2>4. ExitInv(d)'
    BY <2>1, <2>2, AsideExits
  <2> QED
    BY <2>3, <2>4 DEF Whole
<1>3. CASE at[c] # "idle" \/ at'[c] # "idle"
  <2>1. \A d \in Callers : d # c => at[d] = "idle" /\ at'[d] = "idle"
    BY <1>1, <1>3 DEF OneAtATime
  <2>2. Whole(c)'
    <3>1. Inv(c) /\ ExitInv(c)
      BY <2>1 DEF AllInv, Alone, Whole
    <3>2. Inv(c)'
      BY <3>1, CallerKeeps
    <3>3. ExitInv(c)'
      BY <3>1, CallerExits
    <3> QED
      BY <3>2, <3>3 DEF Whole
  <2> SUFFICES ASSUME NEW d \in Callers, Alone(d)', d # c PROVE Whole(d)'
    BY <2>2 DEF AllInv
  <2>3. at'[c] = "idle" /\ at'[d] = "idle"
    BY <2>1 DEF Alone
  <2> QED
    BY <2>2, <2>3, IdleAlikeNext DEF Alike
<1> QED
  BY <1>2, <1>3

LEMMA LoopKeeps ==
  ASSUME NEW c \in Callers, NEW t \in Transport, TypeInv, Inv(c),
         LinkNext(t) \/ HandleNext(t) \/ DataNext(t) \/ CallbackNext(Loop(t))
  PROVE  Inv(c)'
<1>1. CASE LinkNext(t)
  BY <1>1, ConnectsKeeps, RedialsKeeps, ReadsFrameKeeps, AcceptsTooLateKeeps DEF LinkNext
<1>2. CASE HandleNext(t)
  BY <1>2, SelectsKeeps, DeselectsKeeps, SessionEndsKeeps, LoopEndKeeps DEF HandleNext
<1>3. CASE DataNext(t)
  BY <1>3, HandlesDataKeeps, BeginKeeps, SendsFirstKeeps, AdvanceReadsKeeps,
     AdvanceFinishesKeeps, AdvanceMovesKeeps, SendsNextKeeps
     DEF DataNext
<1>4. CASE CallbackNext(Loop(t))
  BY <1>4, LoopReadsKeeps, LoopSetsKeeps DEF CallbackNext
<1> QED
  BY <1>1, <1>2, <1>3, <1>4

LEMMA EndKeeps ==
  ASSUME NEW c \in Callers, NEW t \in Transport, TypeInv, Inv(c),
         EndNext(t) \/ CallbackNext(Closer(t)) \/ SchedulerTicks(t)
  PROVE  Inv(c)'
<1>1. CASE EndNext(t)
  BY <1>1, ShutdownTakesKeeps, LoopLeavesKeeps, OthersKeep, RecycleKeeps DEF EndNext
<1>2. CASE CallbackNext(Closer(t))
  BY <1>2, CloserReadsKeeps, CloserSetsKeeps DEF CallbackNext
<1>3. CASE SchedulerTicks(t)
  BY <1>3, OthersKeep
<1> QED
  BY <1>1, <1>2, <1>3

\* The steps of the goroutines of a transport.
LeaverStepOf(t, r) == Leaves(t, Leaver(t, r)) \/ CallbackNext(Leaver(t, r))
TransportStep(t) ==
  \/ LinkNext(t) \/ HandleNext(t) \/ DataNext(t) \/ EndNext(t) \/ SchedulerTicks(t)
  \/ CallbackNext(Loop(t)) \/ CallbackNext(Closer(t))
  \/ \E r \in Exits : LeaverStepOf(t, r)

LEMMA LeaverKeeps ==
  ASSUME NEW c \in Callers, NEW t \in Transport, NEW r \in Exits, TypeInv, Inv(c), ExitInv(c),
         LeaverStepOf(t, r)
  PROVE  Inv(c)'
BY LeaverEndKeeps, LeaverReadsKeeps, LeaverSetsKeeps DEF LeaverStepOf, CallbackNext

LEMMA TransportMovesNoCaller ==
  ASSUME NEW c \in Callers, NEW t \in Transport, TypeInv, TransportStep(t)
  PROVE  at'[c] = at[c]
<1>1. at = [k \in Thread |-> at[k]] /\ c \in Thread
  BY Threads DEF TypeInv, PlacesOK
<1>2. \A k, there : k # c /\ at' = [at EXCEPT ![k] = there] => at'[c] = at[c]
  BY <1>1
<1>3. c # Loop(t) /\ c # Closer(t) /\ c # Scheduler(t)
  BY Threads
<1>4. CASE LinkNext(t) \/ (HandleNext(t) /\ ~SessionEnds(t))
  BY <1>2, <1>3, <1>4
     DEF LinkNext, HandleNext, Connects, Redials, ReadsFrame, AcceptsTooLate, Selects,
         Deselects, Selection, Leaves, PublishFrom, Goto
<1>5. CASE SessionEnds(t)
  BY <1>5, SessionEndsMoves
<1>6. CASE DataNext(t)
  BY <1>2, <1>3, <1>6
     DEF DataNext, HandlesData, Begin, SendsFirst, AdvanceReads, AdvanceFinishes,
         AdvanceMoves, SendsNext, Goto
<1>7. CASE EndNext(t) \/ SchedulerTicks(t)
  BY <1>2, <1>3, <1>7
     DEF EndNext, ShutdownTakes, LoopLeaves, SchedulerEnds, Recycle, SchedulerTicks,
         PublishFrom, Goto
<1>8. CASE CallbackNext(Loop(t)) \/ CallbackNext(Closer(t))
  BY <1>2, <1>3, <1>8 DEF CallbackNext, CallbackReads, CallbackSets, Goto
<1>9. ASSUME NEW r \in Exits, LeaverStepOf(t, r) PROVE at'[c] = at[c]
  <2>1. c # Leaver(t, r)
    BY Leavers
  <2> QED
    BY <1>2, <1>9, <2>1
       DEF LeaverStepOf, Leaves, CallbackNext, CallbackReads, CallbackSets, PublishFrom, Goto
<1> QED
  BY <1>4, <1>5, <1>6, <1>7, <1>8, <1>9 DEF TransportStep

-----------------------------------------------------------------------------
(***************************************************************************)
(* The readers on their way out, in the steps of a transport.              *)
(***************************************************************************)

\* A step of another goroutine of a transport.
BesideStep(t) ==
  \/ LinkNext(t) \/ Selects(t) \/ Deselects(t) \/ Leaves(t, Loop(t)) \/ DataNext(t)
  \/ EndNext(t) \/ SchedulerTicks(t) \/ CallbackNext(Loop(t)) \/ CallbackNext(Closer(t))

LEMMA BesideMoves ==
  ASSUME NEW t \in Transport, TypeInv, BesideStep(t)
  PROVE  \A u \in Transport, r \in Exits : /\ at'[Leaver(u, r)] = at[Leaver(u, r)]
                                          /\ says'[Leaver(u, r)] = says[Leaver(u, r)]
                                          /\ saw'[Leaver(u, r)] = saw[Leaver(u, r)]
<1>1. \A k \in {Loop(t), Closer(t), Scheduler(t)}, u \in Transport, r \in Exits : k # Leaver(u, r)
  BY Leavers
<1>2. PICK k \in {Loop(t), Closer(t), Scheduler(t)} :
        /\ at' = at \/ (\E there : Goto(k, there))
        /\ says' = says \/ (\E state : says' = [says EXCEPT ![k] = state])
        /\ saw' = saw \/ (\E seen : saw' = [saw EXCEPT ![k] = seen])
  <2>1. CASE LinkNext(t) \/ Selects(t) \/ Deselects(t) \/ Leaves(t, Loop(t))
    BY <2>1
       DEF LinkNext, Connects, Redials, ReadsFrame, AcceptsTooLate, Selects, Deselects,
           Selection, Leaves, PublishFrom, callbackVars
  <2>2. CASE DataNext(t)
    BY <2>2
       DEF DataNext, HandlesData, Begin, SendsFirst, AdvanceReads, AdvanceFinishes,
           AdvanceMoves, SendsNext, callbackVars
  <2>3. CASE EndNext(t)
    <3>1. CASE ShutdownTakes(t)
      BY <3>1 DEF ShutdownTakes, PublishFrom
    <3>2. CASE LoopLeaves(t)
      BY <3>2 DEF LoopLeaves, callbackVars
    <3>3. CASE SchedulerEnds(t)
      BY <3>3 DEF SchedulerEnds, callbackVars
    <3>4. CASE Recycle(t)
      BY <3>4 DEF Recycle, callbackVars, Goto
    <3> QED
      BY <2>3, <3>1, <3>2, <3>3, <3>4 DEF EndNext
  <2>4. CASE SchedulerTicks(t)
    BY <2>4 DEF SchedulerTicks, callbackVars
  <2>5. CASE CallbackNext(Loop(t))
    BY <2>5 DEF CallbackNext, CallbackReads, CallbackSets
  <2>6. CASE CallbackNext(Closer(t))
    BY <2>6 DEF CallbackNext, CallbackReads, CallbackSets
  <2> QED
    BY <2>1, <2>2, <2>3, <2>4, <2>5, <2>6 DEF BesideStep
<1> HIDE DEF Goto
<1>3. \A u \in Transport, r \in Exits : k # Leaver(u, r)
  BY <1>1
<1> QED
  BY <1>2, <1>3, NotALeaver

LEMMA BesideExits ==
  ASSUME NEW c \in Callers, NEW t \in Transport, TypeInv, ExitInv(c), BesideStep(t),
         at'[c] = at[c]
  PROVE  ExitInv(c)'
<1>1. UNCHANGED <<run, mine>>
  BY DEF BesideStep, LinkNext, Connects, Redials, ReadsFrame, AcceptsTooLate, Selects,
         Deselects, Selection, Leaves, DataNext, HandlesData, Begin, SendsFirst, AdvanceReads,
         AdvanceFinishes, AdvanceMoves, SendsNext, EndNext, ShutdownTakes, LoopLeaves,
         SchedulerEnds, Recycle, SchedulerTicks, CallbackNext, CallbackReads, CallbackSets
<1>2. ASSUME NEW u \in Transport, Held(c, u) PROVE mode'[u] = mode[u]
  <2>1. CASE Recycle(t)
    <3>1. u # t
      BY <1>2, <2>1 DEF Recycle, Held
    <3> QED
      BY <2>1, <3>1 DEF Recycle, TypeInv, DataOK
  <2>2. CASE ~Recycle(t)
    BY <2>2
       DEF BesideStep, LinkNext, Connects, Redials, ReadsFrame, AcceptsTooLate, Selects,
           Deselects, Selection, Leaves, DataNext, HandlesData, Begin, SendsFirst,
           AdvanceReads, AdvanceFinishes, AdvanceMoves, SendsNext, EndNext, ShutdownTakes,
           LoopLeaves, SchedulerEnds, SchedulerTicks, CallbackNext, CallbackReads,
           CallbackSets, transportVars
  <2> QED
    BY <2>1, <2>2
<1>3. \A u \in Transport : Held(c, u)' <=> Held(c, u)
  BY <1>1 DEF Held
<1>4. \A u \in Transport, r \in Exits : /\ at'[Leaver(u, r)] = at[Leaver(u, r)]
                                        /\ says'[Leaver(u, r)] = says[Leaver(u, r)]
                                        /\ saw'[Leaver(u, r)] = saw[Leaver(u, r)]
  BY BesideMoves
<1> QED
  BY <1>1, <1>2, <1>3, <1>4, ExitsKept

\* A session ends, and in passive mode its reader is on its way out.
LEMMA SessionEndsExits ==
  ASSUME NEW c \in Callers, NEW t \in Transport, TypeInv, Inv(c), ExitInv(c), SessionEnds(t)
  PROVE  ExitInv(c)'
<1>1. UNCHANGED <<run, mine, mode, says, saw>> /\ at'[c] = at[c]
  BY SessionEndsMoves DEF SessionEnds, callbackVars
<1>2. Held(c, t) /\ at[c] \notin StartPlaces \cup {"abandon"}
  <2>1. at[Loop(t)] # "off"
    BY DEF SessionEnds
  <2> QED
    BY <2>1, LoopActs DEF Running, StartPlaces
<1>3. \A u \in Transport : Held(c, u)' <=> Held(c, u)
  BY <1>1 DEF Held
<1>4. CASE mode[t] # "passive"
  <2>1. Moved(Loop(t), "leave")
    BY <1>4, OneMoves, TypeParts, Threads DEF SessionEnds, TypeInv
  <2>2. \A u \in Transport, r \in Exits : at'[Leaver(u, r)] = at[Leaver(u, r)]
    BY <2>1, LoopAlone
  <2> QED
    BY <1>1, <1>3, <2>2, ExitsKept
<1>5. CASE mode[t] = "passive"
  <2>1. PICK r \in Exits : at' = [at EXCEPT ![Loop(t)] = "idle", ![Leaver(t, r)] = "leave"]
    BY <1>5 DEF SessionEnds
  <2>2. /\ at'[Leaver(t, r)] = "leave"
        /\ \A u \in Transport, s \in Exits :
             u # t \/ s # r => at'[Leaver(u, s)] = at[Leaver(u, s)]
    BY <2>1, HandsOver DEF TypeInv
  <2> SUFFICES ASSUME NEW u \in Transport, NEW s \in Exits, at'[Leaver(u, s)] # "off"
               PROVE  Leaving(c, u, s)'
    BY DEF ExitInv
  <2>3. CASE u = t /\ s = r
    BY <1>1, <1>2, <1>3, <1>5, <2>2, <2>3 DEF Leaving
  <2>4. CASE u # t \/ s # r
    <3>1. Leaving(c, u, s) /\ at'[Leaver(u, s)] = at[Leaver(u, s)]
      BY <2>2, <2>4 DEF ExitInv
    <3> QED
      BY <1>1, <1>3, <3>1 DEF Leaving
  <2> QED
    BY <2>3, <2>4
<1> QED
  BY <1>4, <1>5

\* The reader that is on its way out takes a step.
LEMMA LeaverExits ==
  ASSUME NEW c \in Callers, NEW t \in Transport, NEW r \in Exits, TypeInv, Inv(c), ExitInv(c),
         LeaverStepOf(t, r)
  PROVE  ExitInv(c)'
<1>1. PICK there : Moved(Leaver(t, r), there)
  BY OneMoves, TypeParts, Leavers, Afterwards
     DEF LeaverStepOf, Leaves, CallbackNext, CallbackReads, CallbackSets, PublishFrom, TypeInv
<1>2. /\ at'[Leaver(t, r)] = there /\ at'[c] = at[c]
      /\ \A u \in Transport, s \in Exits :
           u # t \/ s # r => at'[Leaver(u, s)] = at[Leaver(u, s)]
  BY <1>1, LeaverAlone
<1>3. UNCHANGED <<run, mine, mode>>
  BY DEF LeaverStepOf, Leaves, CallbackNext, CallbackReads, CallbackSets, transportVars
<1>4. Leaving(c, t, r) /\ t # None
  <2>1. at[Leaver(t, r)] # "off"
    BY DEF LeaverStepOf, Leaves, CallbackNext, CallbackReads, CallbackSets
  <2> QED
    BY <2>1, LifecycleAssumption DEF ExitInv
<1>5. \A u \in Transport : Held(c, u)' <=> Held(c, u)
  BY <1>2, <1>3 DEF Held
<1>6. /\ Leaver(t, r) \in Thread /\ says \in [Thread -> States] /\ saw \in [Thread -> BOOLEAN]
      /\ at = [k \in Thread |-> at[k]]
  BY Leavers DEF TypeInv, DataOK, PlacesOK
<1> SUFFICES ASSUME NEW u \in Transport, NEW s \in Exits, at'[Leaver(u, s)] # "off"
             PROVE  Leaving(c, u, s)'
  BY DEF ExitInv
<1>7. CASE u # t \/ s # r
  <2>1. Leaving(c, u, s) /\ at'[Leaver(u, s)] = at[Leaver(u, s)]
    BY <1>2, <1>7 DEF ExitInv
  <2>2. Leaver(u, s) # Leaver(t, r) /\ Leaver(u, s) \in Thread
    BY <1>7, Leavers
  <2>3. says'[Leaver(u, s)] = says[Leaver(u, s)]
    BY <1>6, <2>2
       DEF LeaverStepOf, Leaves, CallbackNext, CallbackReads, CallbackSets, PublishFrom,
           callbackVars
  <2>4. saw'[Leaver(u, s)] = saw[Leaver(u, s)]
    BY <1>6, <2>2
       DEF LeaverStepOf, Leaves, CallbackNext, CallbackReads, CallbackSets, PublishFrom,
           callbackVars
  <2> QED
    BY <1>2, <1>3, <1>5, <2>1, <2>3, <2>4 DEF Leaving
<1>8. CASE u = t /\ s = r
  <2>1. CASE Leaves(t, Leaver(t, r))
    <3>1. at'[Leaver(t, r)] # "set"
      BY <1>6, <2>1, Leavers DEF Leaves, PublishFrom, Goto
    <3>2. at'[Leaver(t, r)] = "publish" => says'[Leaver(t, r)] = "LISTENING"
      BY <1>4, <1>6, <2>1, Leavers DEF Leaves, PublishFrom, Goto, Leaving, Resting
    <3> QED
      BY <1>2, <1>3, <1>4, <1>5, <1>8, <3>1, <3>2 DEF Leaving
  <2>2. CASE CallbackReads(Leaver(t, r))
    <3>1. says'[Leaver(t, r)] = "LISTENING"
      BY <1>4, <2>2 DEF CallbackReads, Leaving
    <3>2. run = t => saw'[Leaver(t, r)]
      BY <1>4, <1>6, <2>2 DEF CallbackReads
    <3> QED
      BY <1>2, <1>3, <1>4, <1>5, <1>8, <3>1, <3>2 DEF Leaving
  <2>3. CASE CallbackSets(Leaver(t, r))
    <3>1. at'[Leaver(t, r)] = "off"
      BY <1>6, <2>3, Afterwards, OneMoves, TypeParts, Leavers
         DEF CallbackSets, Moved, TypeInv
    <3> QED
      BY <1>8, <3>1
  <2> QED
    BY <2>1, <2>2, <2>3 DEF LeaverStepOf, CallbackNext
<1> QED
  BY <1>7, <1>8

LEMMA TransportKeepsAll ==
  ASSUME NEW t \in Transport, TypeInv, AllInv, TransportStep(t)
  PROVE  AllInv'
<1> SUFFICES ASSUME NEW c \in Callers, Alone(c)' PROVE Whole(c)'
  BY DEF AllInv
<1>1. \A d \in Callers : at'[d] = at[d]
  BY TransportMovesNoCaller
<1>2. Inv(c) /\ ExitInv(c)
  BY <1>1 DEF AllInv, Alone, Whole
<1>3. Inv(c)'
  BY <1>2, LoopKeeps, EndKeeps, LeaverKeeps DEF TransportStep
<1>4. ExitInv(c)'
  <2>1. CASE BesideStep(t)
    BY <1>1, <1>2, <2>1, BesideExits
  <2>2. CASE SessionEnds(t)
    BY <1>2, <2>2, SessionEndsExits
  <2>3. ASSUME NEW r \in Exits, LeaverStepOf(t, r) PROVE ExitInv(c)'
    BY <1>2, <2>3, LeaverExits
  <2> QED
    BY <2>1, <2>2, <2>3 DEF TransportStep, BesideStep, HandleNext
<1> QED
  BY <1>3, <1>4 DEF Whole

LEMMA StepKeepsAll ==
  ASSUME TypeInv, AllInv, OneAtATime, OneAtATime', [Next]_vars
  PROVE  AllInv'
<1>1. ASSUME NEW c \in Callers, CallerStep(c) PROVE AllInv'
  BY <1>1, CallerKeepsAll
<1>2. ASSUME NEW t \in Transport, TransportStep(t) PROVE AllInv'
  BY <1>2, TransportKeepsAll
<1>3. ASSUME NEW k \in Thread, CallbackNext(k) PROVE AllInv'
  <2>1. CASE k \in Callers
    BY <1>1, <1>3, <2>1 DEF CallerStep
  <2>2. ASSUME NEW t \in Transport, k \in {Loop(t), Closer(t)} PROVE AllInv'
    BY <1>2, <1>3, <2>2 DEF TransportStep
  <2>3. ASSUME NEW t \in Transport, k = Scheduler(t) PROVE AllInv'
    <3>1. at[k] \in {"off", "idle"}
      BY <2>3 DEF TypeInv, PlacesOK
    <3> QED
      BY <1>3, <3>1 DEF CallbackNext, CallbackReads, CallbackSets
  <2>4. ASSUME NEW t \in Transport, NEW r \in Exits, k = Leaver(t, r) PROVE AllInv'
    BY <1>2, <1>3, <2>4 DEF TransportStep, LeaverStepOf
  <2> QED
    BY <2>1, <2>2, <2>3, <2>4, EveryThread
<1>4. CASE UpdateHSMS \/ UNCHANGED vars
  <2>1. at' = at
    BY <1>4 DEF UpdateHSMS, vars
  <2> SUFFICES ASSUME NEW c \in Callers, Alone(c)' PROVE Whole(c)'
    BY DEF AllInv
  <2>2. Inv(c) /\ ExitInv(c)
    BY <2>1 DEF AllInv, Alone, Whole
  <2>3. Inv(c)'
    BY <1>4, <2>2, OthersKeep
  <2>4. ExitInv(c)'
    BY <1>4, <2>2, AsideExits
  <2> QED
    BY <2>3, <2>4 DEF Whole
<1>5. ASSUME NEW t \in Transport, LeaversNext(t) PROVE AllInv'
  BY <1>2, <1>5 DEF LeaversNext, TransportStep, LeaverStepOf
<1>6. ASSUME NEW t \in Transport,
             LinkNext(t) \/ HandleNext(t) \/ DataNext(t) \/ EndNext(t) \/ SchedulerTicks(t)
      PROVE  AllInv'
  BY <1>2, <1>6 DEF TransportStep
<1>7. ASSUME NEW c \in Callers, StartNext(c) \/ StopNext(c) \/ CallNext(c) PROVE AllInv'
  BY <1>1, <1>7 DEF CallerStep
<1> QED
  BY <1>3, <1>4, <1>5, <1>6, <1>7 DEF Next

LEMMA InitKeeps ==
  ASSUME NEW c \in Callers, Init
  PROVE  Whole(c)
<1>1. /\ at[c] = "idle" /\ run = None
      /\ \A t \in Transport : at[Loop(t)] = "off" /\ at[Closer(t)] = "off"
  BY Threads DEF Init
<1>2. \A t \in Transport : ~Held(c, t)
  BY <1>1, LifecycleAssumption DEF Held
<1>3. CallInv(c) /\ ShowInv(c) /\ BootInv(c)
  BY <1>1 DEF CallInv, ShowInv, BootInv, Running, StartPlaces
<1>4. FreeInv(c) /\ HeldInv(c)
  BY <1>1, <1>2 DEF Init, FreeInv, Free, HeldInv
<1>5. StopInv(c)
  BY <1>1 DEF Init, StopInv, StartPlaces
<1>6. ExitInv(c)
  BY Leavers DEF Init, ExitInv
<1> QED
  BY <1>3, <1>4, <1>5, <1>6 DEF Inv, Whole

\* The inductive invariant, as long as no two calls overlap.
LEMMA AllInvHolds == Spec /\ []OneAtATime => [](TypeInv /\ AllInv)
<1>1. Init => TypeInv /\ AllInv
  BY InitTyped, InitKeeps DEF AllInv
<1>2. TypeInv /\ AllInv /\ OneAtATime /\ OneAtATime' /\ [Next]_vars => TypeInv' /\ AllInv'
  BY StepTyped, StepKeepsAll
<1> QED
  BY <1>1, <1>2, PTL DEF Spec

LEMMA QuietInv ==
  ASSUME AllInv, Quiet
  PROVE  \E c \in Callers : Whole(c) /\ at[c] = "idle"
BY LifecycleAssumption DEF AllInv, Alone, Quiet

\* Once the calls have returned and no run is recorded, nothing of any run is
\* left and the operator is shown a stopped simulator (controller.go: Stop,
\* stop, Manager.Shutdown), for any number of callers, transports and runs,
\* as long as no two calls overlap.
THEOREM StopStops == Spec /\ []OneAtATime => []StoppedIsStopped
<1>1. ASSUME TypeInv, AllInv PROVE StoppedIsStopped
  <2> SUFFICES ASSUME Quiet, run = None
               PROVE  /\ \A t \in Transport : ~Live(t)
                      /\ ~listening /\ shown = "NOT CONNECTED"
                      /\ pending = {} /\ boot = None
    BY DEF StoppedIsStopped
  <2>1. PICK c \in Callers : Inv(c) /\ ExitInv(c) /\ at[c] = "idle"
    BY <1>1, QuietInv DEF Whole
  <2>2. \A t \in Transport : ~Live(t)
    <3> SUFFICES ASSUME NEW t \in Transport PROVE ~Live(t)
      OBVIOUS
    <3>1. ~Held(c, t)
      BY <2>1, LifecycleAssumption DEF Held
    <3>2. AllOut(t)
      BY <2>1, <3>1 DEF ExitInv, Leaving, AllOut
    <3> QED
      BY <2>1, <3>1, <3>2 DEF Inv, FreeInv, Free, Live
  <2>3. ~listening /\ shown = "NOT CONNECTED" /\ pending = {} /\ boot = None
    BY <2>1 DEF Inv, StopInv
  <2> QED
    BY <2>2, <2>3
<1> QED
  BY <1>1, AllInvHolds, PTL

\* Once the calls have returned and a run is recorded, the operator is shown
\* that run: its settings, its queue and, when its goroutines are at rest,
\* the state of its link or, in passive mode, the LISTENING of an earlier
\* session's reader (controller.go: Start, updateRuntimeState; session.go:
\* runSession), as long as no two calls overlap.
THEOREM RunIsShown == Spec /\ []OneAtATime => []RunningIsShown
<1>1. ASSUME TypeInv, AllInv PROVE RunningIsShown
  <2> SUFFICES ASSUME Quiet, run # None
               PROVE  /\ ~ctxDone[run] /\ listening
                      /\ AtRest(run) => \/ shown = LinkState(run)
                                        \/ mode[run] = "passive" /\ shown = "LISTENING"
                      /\ applied = mode[run]
                      /\ pending \subseteq {run}
    BY DEF RunningIsShown
  <2>1. PICK c \in Callers : Inv(c) /\ at[c] = "idle"
    BY <1>1, QuietInv DEF Whole
  <2>2. run \in Transport
    BY <1>1 DEF TypeInv, DataOK
  <2>3. Shown(run) /\ Used(c, run)
    BY <2>1, <2>2 DEF Inv, ShowInv, Running, HeldInv, Held
  <2> QED
    BY <2>1, <2>3 DEF Shown, Status, Used, AtRest
<1> QED
  BY <1>1, AllInvHolds, PTL

\* Two transports are never live at once: a stop lets go of the old one before
\* a start can make another (controller.go: stop waits for Shutdown), as long
\* as no two calls overlap.
THEOREM OneTransportLives == Spec /\ []OneAtATime => []NoOverlap
<1>1. ASSUME TypeInv, AllInv, OneAtATime PROVE NoOverlap
  <2> SUFFICES ASSUME NEW t \in Transport, NEW u \in Transport, Live(t), Live(u) PROVE t = u
    BY DEF NoOverlap
  <2>1. PICK c \in Callers : Inv(c) /\ ExitInv(c)
    BY <1>1, SomeoneAlone DEF Whole
  <2>2. \A v \in Transport : ~AllOut(v) => Held(c, v)
    BY <2>1 DEF ExitInv, Leaving, AllOut
  <2>3. Held(c, t) /\ Held(c, u)
    BY <2>1, <2>2 DEF Inv, FreeInv, Free, Live
  <2> QED
    BY <2>1, <2>3, LifecycleAssumption DEF Held, Inv, CallInv
<1> QED
  BY <1>1, AllInvHolds, PTL

\* While the start-up script runs, the steps sent are the script up to the
\* current step, each once and in order (controller.go: beginHostBootstrap,
\* advanceHostBootstrap, transitionHostBootstrap), for a script of any length
\* with any silent steps, as long as no two calls overlap.
THEOREM ScriptInOrder == Spec /\ []OneAtATime => []BootstrapInOrder
<1>1. ASSUME TypeInv, AllInv, OneAtATime PROVE BootstrapInOrder
  <2> SUFFICES ASSUME boot # None
               PROVE  SentUpTo(boot) \/ (boot > 0 /\ SentUpTo(boot - 1)) \/ (boot = 0 /\ script = <<>>)
    BY DEF BootstrapInOrder
  <2>1. PICK c \in Callers : Inv(c)
    BY <1>1, SomeoneAlone DEF Whole
  <2>2. run # None /\ at[c] \notin StartPlaces \cup {"abandon"} /\ at[c] \in CallPlaces
    BY <1>1, <2>1 DEF Inv, StopInv, TypeInv, PlacesOK
  <2>3. Running(c)
    BY <2>1, <2>2 DEF Inv, CallInv, Running, CallPlaces
  <2>4. Scripted(run)
    BY <2>1, <2>3 DEF Inv, BootInv
  <2> QED
    BY <2>4 DEF Scripted
<1> QED
  BY <1>1, AllInvHolds, PTL
=============================================================================
