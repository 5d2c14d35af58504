------------------------------ MODULE Lifecycle ------------------------------
(***************************************************************************)
(* The controller of internal/sim/controller.go: Start, Stop, Toggle and   *)
(* Inject, the callbacks its transports make, the scheduler loop and the   *)
(* host bootstrap.                                                         *)
(*                                                                         *)
(* Threads:                                                                *)
(*   a caller        an HTTP request that runs Start, Stop, Toggle, Inject *)
(*   Loop(t)         the accept or dial loop of transport t together with  *)
(*                   the reader of its current session.  In active mode    *)
(*                   they are one goroutine; in passive mode the accept    *)
(*                   loop, beside a session, only turns connections away   *)
(*   Leaver(t, r)    in passive mode, the reader r of a session that is    *)
(*                   no longer current, on its way out: the accept loop    *)
(*                   may be at work on the next connection meanwhile       *)
(*   Closer(t)       shutdown of transport t, run once by the watcher of   *)
(*                   the context or by a caller of Shutdown                *)
(*   Scheduler(t)    the schedulerLoop of the run of transport t           *)
(*                                                                         *)
(* A section under Controller.mu is one step, and so is a store operation. *)
(* A transport is one Manager, made by one Start; a finished one can be    *)
(* used again, so that two stand for any number of runs.                   *)
(***************************************************************************)
EXTENDS Naturals, Sequences, SequencesExt

CONSTANTS
    Callers,    \* the HTTP requests that may be in flight at once
    Transport,  \* identities of Managers
    Exits,      \* the readers of one transport that may be on their way out
    Settings,   \* the kinds of settings the operator chooses from
    None,
    LastStep,   \* the index of the last step of the start-up script
    Silent      \* the steps whose Send is nil

ASSUME LifecycleAssumption ==
    /\ Settings \subseteq {"passive", "active", "scripted"}
    /\ LastStep \in Nat
    /\ Silent \subseteq 1..LastStep
    /\ None \notin Transport \cup Nat \cup {"passive", "active", "scripted"}
    /\ Callers # {}
    /\ Callers \cap ({"loop", "closer", "scheduler"} \X Transport) = {}
    /\ Callers \cap ({"leaver"} \X (Transport \X Exits)) = {}

Loop(t) == <<"loop", t>>
Closer(t) == <<"closer", t>>
Scheduler(t) == <<"scheduler", t>>
Leaver(t, r) == <<"leaver", <<t, r>>>>
Thread == Callers \cup ({"loop", "closer", "scheduler"} \X Transport)
            \cup ({"leaver"} \X (Transport \X Exits))

\* What the controller looks at in HsmsConfig: the mode, and in active mode
\* whether a start-up script is chosen.
Modes == {"passive", "active", "scripted"}
States == {"NOT CONNECTED", "LISTENING", "CONNECTING", "CONNECTED", "SELECTED"}

VARIABLES
    run,        \* c.cancel and c.transport, set and cleared together
    boot,       \* c.hostBootstrap: the step the script is at, or None
    config, applied,            \* of the store: the settings, appliedHSMS
    listening, shown, pending,  \* of the store: Runtime.Listening, HSMSState
                                \* and the runs the queued actions are from
    mode,       \* the settings each transport was made with; None: unused
    ctxDone,
    socket,     \* is the listening socket of the transport bound?
    listener,   \* is its m.listener set?
    link,       \* its session: "none", "connected" or "selected"
    at,         \* the program counter of each thread
    says,       \* the state each thread is publishing
    saw,        \* what updateRuntimeState read: was the simulator running?
    mine,       \* the transport each caller has in hand
    step,       \* the step advanceHostBootstrap read
    script      \* history: the steps sent since the script last began

storeVars == <<config, applied, listening, shown, pending>>
transportVars == <<mode, ctxDone, socket, listener, link>>
callbackVars == <<says, saw>>
bootVars == <<boot, step, script>>
vars == <<run, bootVars, storeVars, transportVars, at, callbackVars, mine>>

\* Where each kind of thread can be.
StartPlaces == {"record", "show", "open", "register", "publish", "set", "launch"}
CallPlaces == {"idle", "starting", "stopping", "abandon", "cancel", "wait", "report", "inject"}
                \cup StartPlaces
LoopPlaces == {"off", "idle", "publish", "set", "begin", "first", "handle", "advance",
               "finish", "move", "next", "leave"}
LeaverPlaces == {"off", "leave", "publish", "set"}
CloserPlaces == {"off", "publish", "set", "done"}

TypeOK ==
    /\ run \in Transport \cup {None}
    /\ boot \in 0..LastStep \cup {None}
    /\ config \in Modes /\ applied \in Modes
    /\ listening \in BOOLEAN /\ shown \in States
    /\ pending \subseteq Transport
    /\ mode \in [Transport -> Modes \cup {None}]
    /\ ctxDone \in [Transport -> BOOLEAN]
    /\ socket \in [Transport -> BOOLEAN]
    /\ listener \in [Transport -> BOOLEAN]
    /\ link \in [Transport -> {"none", "connected", "selected"}]
    /\ at = [k \in Thread |-> at[k]]
    /\ \A c \in Callers : at[c] \in CallPlaces
    /\ \A t \in Transport : /\ at[Loop(t)] \in LoopPlaces
                             /\ at[Closer(t)] \in CloserPlaces
                             /\ at[Scheduler(t)] \in {"off", "idle"}
                             /\ \A r \in Exits : at[Leaver(t, r)] \in LeaverPlaces
    /\ says \in [Thread -> States]
    /\ saw \in [Thread -> BOOLEAN]
    /\ mine \in [Callers -> Transport \cup {None}]
    /\ step \in [Transport -> 0..LastStep]
    /\ script \in Seq(0..LastStep)

Init ==
    /\ run = None /\ boot = None
    /\ config \in Settings /\ applied = config
    /\ listening = FALSE /\ shown = "NOT CONNECTED" /\ pending = {}
    /\ mode = [t \in Transport |-> None]
    /\ ctxDone = [t \in Transport |-> FALSE]
    /\ socket = [t \in Transport |-> FALSE]
    /\ listener = [t \in Transport |-> FALSE]
    /\ link = [t \in Transport |-> "none"]
    /\ at = [k \in Thread |-> IF k \in Callers THEN "idle" ELSE "off"]
    /\ says = [k \in Thread |-> "NOT CONNECTED"]
    /\ saw = [k \in Thread |-> FALSE]
    /\ mine = [c \in Callers |-> None]
    /\ step = [t \in Transport |-> 0]
    /\ script = <<>>

Goto(k, there) == at' = [at EXCEPT ![k] = there]

\* Store.SetRuntime: a simulator that is not listening has no queue.
SetRuntime(running, state) ==
    /\ listening' = running /\ shown' = state
    /\ pending' = IF running THEN pending ELSE {}
    /\ UNCHANGED <<config, applied>>

-----------------------------------------------------------------------------
(* The OnStateChange callback, of whichever thread publishes               *)

PublishFrom(k, state) ==
    /\ says' = [says EXCEPT ![k] = state]
    /\ Goto(k, "publish")
    /\ UNCHANGED saw

CallbackReads(k) ==
    /\ at[k] = "publish"
    /\ saw' = [saw EXCEPT ![k] = run # None]
    /\ boot' = IF says[k] # "SELECTED" THEN None ELSE boot
    /\ Goto(k, "set")
    /\ UNCHANGED <<run, step, script, storeVars, transportVars, says, mine>>

AfterCallback(k) ==
    CASE k \in Callers -> "launch"
      [] k \in {Closer(t) : t \in Transport} -> "done"
      [] k \in {"leaver"} \X (Transport \X Exits) -> "off"
      [] OTHER -> IF saw[k] /\ says[k] = "SELECTED" THEN "begin" ELSE "idle"

\* (What the thread has published is forgotten.)
CallbackSets(k) ==
    /\ at[k] = "set"
    /\ SetRuntime(saw[k], says[k])
    /\ Goto(k, AfterCallback(k))
    /\ says' = [says EXCEPT ![k] = "NOT CONNECTED"]
    /\ saw' = [saw EXCEPT ![k] = FALSE]
    /\ UNCHANGED <<run, bootVars, transportVars, mine>>

-----------------------------------------------------------------------------
(* Start                                                                   *)

\* A Start while a run is recorded returns at once.
StartLocks(c) ==
    /\ at[c] \in {"idle", "starting"}
    /\ IF run # None
         THEN Goto(c, "idle") /\ UNCHANGED <<run, bootVars, transportVars, mine>>
         ELSE \E t \in Transport :
                /\ mode[t] = None
                /\ mode' = [mode EXCEPT ![t] = config]
                /\ run' = t /\ boot' = None
                /\ mine' = [mine EXCEPT ![c] = t]
                /\ Goto(c, "record")
                /\ UNCHANGED <<step, script, ctxDone, socket, listener, link>>
    /\ UNCHANGED <<storeVars, callbackVars>>

StartRecords(c) ==
    /\ at[c] = "record"
    /\ applied' = mode[mine[c]]
    /\ Goto(c, "show")
    /\ UNCHANGED <<run, bootVars, config, listening, shown, pending, transportVars,
                   callbackVars, mine>>

StartShows(c) ==
    /\ at[c] = "show"
    /\ SetRuntime(TRUE, "NOT CONNECTED")
    /\ Goto(c, "open")
    /\ UNCHANGED <<run, bootVars, transportVars, callbackVars, mine>>

OpenActive(c) ==
    /\ at[c] = "open" /\ mode[mine[c]] # "passive"
    /\ PublishFrom(c, "CONNECTING")
    /\ UNCHANGED <<run, bootVars, storeVars, transportVars, mine>>

\* There is one port: it is free when no transport holds it.
Listen(c) ==
    /\ at[c] = "open" /\ mode[mine[c]] = "passive"
    /\ \A t \in Transport : ~socket[t]
    /\ socket' = [socket EXCEPT ![mine[c]] = TRUE]
    /\ Goto(c, "register")
    /\ UNCHANGED <<run, bootVars, storeVars, mode, ctxDone, listener, link,
                   callbackVars, mine>>

Register(c) ==
    /\ at[c] = "register"
    /\ listener' = [listener EXCEPT ![mine[c]] = TRUE]
    /\ PublishFrom(c, "LISTENING")
    /\ UNCHANGED <<run, bootVars, storeVars, mode, ctxDone, socket, link, mine>>

\* The loop and the scheduler are started, and Start returns.
Launch(c) ==
    /\ at[c] = "launch"
    /\ at' = [at EXCEPT ![c] = "idle", ![Loop(mine[c])] = "idle",
                        ![Scheduler(mine[c])] = "idle"]
    /\ mine' = [mine EXCEPT ![c] = None]
    /\ UNCHANGED <<run, bootVars, storeVars, transportVars, callbackVars>>

\* net.Listen fails: Start cancels its context and calls Shutdown.
ListenFails(c) ==
    /\ at[c] = "open" /\ mode[mine[c]] = "passive"
    /\ ctxDone' = [ctxDone EXCEPT ![mine[c]] = TRUE]
    /\ Goto(c, "abandon")
    /\ UNCHANGED <<run, bootVars, storeVars, mode, socket, listener, link,
                   callbackVars, mine>>

\* Manager.Shutdown returns when shutdown is done and the loops and the
\* readers are gone.
AllOut(t) == \A r \in Exits : at[Leaver(t, r)] = "off"
Waited(t) == at[Closer(t)] = "done" /\ at[Loop(t)] = "off" /\ AllOut(t)

\* The record is cleared, whoever's transport it holds by now.
Abandon(c) ==
    /\ at[c] = "abandon" /\ Waited(mine[c])
    /\ run' = None
    /\ Goto(c, "report")
    /\ UNCHANGED <<bootVars, storeVars, transportVars, callbackVars, mine>>

-----------------------------------------------------------------------------
(* Stop, Toggle, Inject                                                    *)

StopLocks(c) ==
    /\ at[c] \in {"idle", "stopping"}
    /\ mine' = [mine EXCEPT ![c] = run]
    /\ run' = None /\ boot' = None
    /\ Goto(c, IF run = None THEN "report" ELSE "cancel")
    /\ UNCHANGED <<step, script, storeVars, transportVars, callbackVars>>

\* A bug TLC must catch: the context is not cancelled.
StopCancels_Forgets(c) ==
    /\ at[c] = "cancel"
    /\ Goto(c, "wait")
    /\ UNCHANGED <<run, bootVars, storeVars, transportVars, callbackVars, mine>>

StopCancels(c) ==
    /\ at[c] = "cancel"
    /\ ctxDone' = [ctxDone EXCEPT ![mine[c]] = TRUE]
    /\ Goto(c, "wait")
    /\ UNCHANGED <<run, bootVars, storeVars, mode, socket, listener, link,
                   callbackVars, mine>>

\* A bug TLC must catch: Stop does not wait for the loops.
StopWaits_NotAtAll(c) ==
    /\ at[c] = "wait" /\ at[Closer(mine[c])] = "done"
    /\ Goto(c, "report")
    /\ UNCHANGED <<run, bootVars, storeVars, transportVars, callbackVars, mine>>

StopWaits(c) ==
    /\ at[c] = "wait" /\ Waited(mine[c])
    /\ Goto(c, "report")
    /\ UNCHANGED <<run, bootVars, storeVars, transportVars, callbackVars, mine>>

\* The last act of Stop, and of a Start that failed.
ReportStopped(c) ==
    /\ at[c] = "report"
    /\ SetRuntime(FALSE, "NOT CONNECTED")
    /\ Goto(c, "idle")
    /\ mine' = [mine EXCEPT ![c] = None]
    /\ UNCHANGED <<run, bootVars, transportVars, callbackVars>>

ToggleReads(c) ==
    /\ at[c] = "idle"
    /\ Goto(c, IF run # None THEN "stopping" ELSE "starting")
    /\ UNCHANGED <<run, bootVars, storeVars, transportVars, callbackVars, mine>>

InjectChecks(c) ==
    /\ at[c] = "idle" /\ run # None
    /\ mine' = [mine EXCEPT ![c] = run]
    /\ Goto(c, "inject")
    /\ UNCHANGED <<run, bootVars, storeVars, transportVars, callbackVars>>

\* ProcessInbound, with a rule that schedules actions or without.
Schedules(t) ==
    /\ pending' \in {pending, pending \cup {t}}
    /\ UNCHANGED <<config, applied, listening, shown>>

InjectRuns(c) ==
    /\ at[c] = "inject"
    /\ Schedules(mine[c])
    /\ Goto(c, "idle")
    /\ mine' = [mine EXCEPT ![c] = None]
    /\ UNCHANGED <<run, bootVars, transportVars, callbackVars>>

-----------------------------------------------------------------------------
(* The transport, as the controller meets it                               *)

\* Manager.shutdown: started is cleared, the listener and the session are
\* taken and closed, and NOT CONNECTED is published.
ShutdownTakes(t) ==
    /\ ctxDone[t] /\ at[Closer(t)] = "off"
    /\ socket' = [socket EXCEPT ![t] = @ /\ ~listener[t]]
    /\ listener' = [listener EXCEPT ![t] = FALSE]
    /\ link' = [link EXCEPT ![t] = "none"]
    /\ PublishFrom(Closer(t), "NOT CONNECTED")
    /\ UNCHANGED <<run, bootVars, storeVars, mode, ctxDone, mine>>

\* A connection is dialed or accepted, and installed.
Connects(t) ==
    /\ at[Loop(t)] = "idle" /\ link[t] = "none" /\ ~ctxDone[t]
    /\ mode[t] = "passive" => socket[t]
    /\ link' = [link EXCEPT ![t] = "connected"]
    /\ PublishFrom(Loop(t), "CONNECTED")
    /\ UNCHANGED <<run, bootVars, storeVars, mode, ctxDone, socket, listener, mine>>

\* A frame has been read; shutdown may still close the session under it.
ReadsFrame(t) ==
    /\ at[Loop(t)] = "idle" /\ link[t] # "none"
    /\ Goto(Loop(t), "handle")
    /\ UNCHANGED <<run, bootVars, storeVars, transportVars, callbackVars, mine>>

Selection(t, selection, state) ==
    /\ at[Loop(t)] = "handle"
    /\ link' = [link EXCEPT ![t] = IF @ = "none" THEN @ ELSE selection]
    /\ PublishFrom(Loop(t), state)
    /\ UNCHANGED <<run, bootVars, storeVars, mode, ctxDone, socket, listener, mine>>
Selects(t) == Selection(t, "selected", "SELECTED")
Deselects(t) == Selection(t, "connected", "CONNECTED")

\* The session ends: broken by the peer, by an error, or by shutdown.  It
\* is no longer current, and its reader goes; in passive mode the accept
\* loop takes the next connection from here on.
SessionEnds(t) ==
    /\ at[Loop(t)] = "handle"
    /\ link' = [link EXCEPT ![t] = "none"]
    /\ IF mode[t] = "passive"
         THEN \E r \in Exits :
                /\ at[Leaver(t, r)] = "off"
                /\ at' = [at EXCEPT ![Loop(t)] = "idle", ![Leaver(t, r)] = "leave"]
         ELSE Goto(Loop(t), "leave")
    /\ UNCHANGED <<run, bootVars, storeVars, mode, ctxDone, socket, listener,
                   callbackVars, mine>>

\* The last act of a reader: the end of the session is published, unless
\* the context is done.
Resting(t) == IF mode[t] = "passive" THEN "LISTENING" ELSE "CONNECTING"

\* A bug TLC must catch: the end of a session is not published.
Leaves_InSilence(t, k) ==
    /\ at[k] = "leave"
    /\ Goto(k, IF k = Loop(t) THEN "idle" ELSE "off")
    /\ UNCHANGED <<run, bootVars, storeVars, transportVars, callbackVars, mine>>

Leaves(t, k) ==
    /\ at[k] = "leave"
    /\ IF ctxDone[t] THEN Goto(k, IF k = Loop(t) THEN "idle" ELSE "off")
                          /\ UNCHANGED callbackVars
                     ELSE PublishFrom(k, Resting(t))
    /\ UNCHANGED <<run, bootVars, storeVars, transportVars, mine>>

\* The active loop has slept T5 and says again that it is connecting.
Redials(t) ==
    /\ at[Loop(t)] = "idle" /\ link[t] = "none" /\ ~ctxDone[t] /\ mode[t] # "passive"
    /\ PublishFrom(Loop(t), "CONNECTING")
    /\ UNCHANGED <<run, bootVars, storeVars, transportVars, mine>>

\* The loop leaves: it sees the context done, or its listener is closed.  A
\* passive loop also leaves when it accepts a connection too late.
LoopLeaves(t) ==
    /\ at[Loop(t)] = "idle" /\ ctxDone[t] /\ link[t] = "none"
    /\ ~socket[t]
    /\ Goto(Loop(t), "off")
    /\ UNCHANGED <<run, bootVars, storeVars, transportVars, callbackVars, mine>>
AcceptsTooLate(t) ==
    /\ at[Loop(t)] = "idle" /\ ctxDone[t] /\ link[t] = "none"
    /\ socket[t]
    /\ Goto(Loop(t), "off")
    /\ UNCHANGED <<run, bootVars, storeVars, transportVars, callbackVars, mine>>

\* A finished transport is forgotten.
Recycle(t) ==
    /\ mode[t] # None /\ run # t /\ t \notin pending
    /\ \A c \in Callers : mine[c] # t
    /\ Waited(t) /\ at[Scheduler(t)] = "off" /\ ~socket[t]
    /\ mode' = [mode EXCEPT ![t] = None]
    /\ ctxDone' = [ctxDone EXCEPT ![t] = FALSE]
    /\ at' = [at EXCEPT ![Closer(t)] = "off"]
    /\ UNCHANGED <<run, bootVars, storeVars, socket, listener, link, callbackVars, mine>>

-----------------------------------------------------------------------------
(* Data messages and the host bootstrap                                    *)

\* A bug TLC must catch: a script that is under way is begun again.
Begin_Again(t) ==
    /\ at[Loop(t)] = "begin"
    /\ IF config = "scripted" /\ run # None
         THEN /\ boot' = 0 /\ Goto(Loop(t), "first")
              /\ script' = IF boot = None THEN <<>> ELSE script
         ELSE Goto(Loop(t), "idle") /\ UNCHANGED <<boot, script>>
    /\ UNCHANGED <<run, step, storeVars, transportVars, callbackVars, mine>>

\* beginHostBootstrap, called by the callback that showed SELECTED.
Begin(t) ==
    /\ at[Loop(t)] = "begin"
    /\ IF config = "scripted" /\ run # None /\ boot = None
         THEN boot' = 0 /\ script' = <<>> /\ Goto(Loop(t), "first")
         ELSE Goto(Loop(t), "idle") /\ UNCHANGED <<boot, script>>
    /\ UNCHANGED <<run, step, storeVars, transportVars, callbackVars, mine>>

\* The first step goes through the current transport; when there is none,
\* or its session is not selected, the script is dropped.
SendsFirst(t) ==
    /\ at[Loop(t)] = "first"
    /\ IF run # None /\ link[run] = "selected"
         THEN script' = Append(script, 0) /\ UNCHANGED boot
         ELSE boot' = None /\ UNCHANGED script
    /\ Goto(Loop(t), "idle")
    /\ UNCHANGED <<run, step, storeVars, transportVars, callbackVars, mine>>

\* handleDataMessage: the settings are read, the store processes the
\* message, and with a script the bootstrap looks at it.
HandlesData(t) ==
    /\ at[Loop(t)] = "handle"
    /\ Schedules(t)
    /\ Goto(Loop(t), IF config = "scripted" THEN "advance" ELSE "idle")
    /\ UNCHANGED <<run, bootVars, transportVars, callbackVars, mine>>

\* A bug TLC must catch: no last step.
AdvanceReads_NoEnd(t) ==
    /\ at[Loop(t)] = "advance"
    /\ \/ Goto(Loop(t), "idle") /\ UNCHANGED step
       \/ /\ boot # None
          /\ step' = [step EXCEPT ![t] = boot]
          /\ Goto(Loop(t), "move")
    /\ UNCHANGED <<run, boot, script, storeVars, transportVars, callbackVars, mine>>

\* The message is the answer to the current step, or it is not.
AdvanceReads(t) ==
    /\ at[Loop(t)] = "advance"
    /\ \/ Goto(Loop(t), "idle") /\ UNCHANGED step
       \/ /\ boot # None
          /\ step' = [step EXCEPT ![t] = boot]
          /\ Goto(Loop(t), IF boot = LastStep THEN "finish" ELSE "move")
    /\ UNCHANGED <<run, boot, script, storeVars, transportVars, callbackVars, mine>>

AdvanceFinishes(t) ==
    /\ at[Loop(t)] = "finish"
    /\ boot' = None
    /\ step' = [step EXCEPT ![t] = 0]
    /\ Goto(Loop(t), "idle")
    /\ UNCHANGED <<run, script, storeVars, transportVars, callbackVars, mine>>

\* A bug TLC must catch: the position is set without comparing.
AdvanceMoves_Blindly(t) ==
    /\ at[Loop(t)] = "move"
    /\ boot' = step[t] + 1
    /\ IF step[t] + 1 \notin Silent
         THEN step' = [step EXCEPT ![t] = @ + 1] /\ Goto(Loop(t), "next")
         ELSE step' = [step EXCEPT ![t] = 0] /\ Goto(Loop(t), "idle")
    /\ UNCHANGED <<run, script, storeVars, transportVars, callbackVars, mine>>

\* transitionHostBootstrap: compare and set.  A silent step sends nothing.
AdvanceMoves(t) ==
    /\ at[Loop(t)] = "move"
    /\ boot' = IF boot = step[t] THEN step[t] + 1 ELSE boot
    /\ IF boot = step[t] /\ step[t] + 1 \notin Silent
         THEN step' = [step EXCEPT ![t] = @ + 1] /\ Goto(Loop(t), "next")
         ELSE step' = [step EXCEPT ![t] = 0] /\ Goto(Loop(t), "idle")
    /\ UNCHANGED <<run, script, storeVars, transportVars, callbackVars, mine>>

\* The message of the next step is one of the answers of OnData.  Without a
\* transport to number it there is no answer at all.
SendsNext(t) ==
    /\ at[Loop(t)] = "next"
    /\ script' = IF run # None /\ link[t] # "none" THEN Append(script, step[t])
                                                   ELSE script
    /\ step' = [step EXCEPT ![t] = 0]
    /\ Goto(Loop(t), "idle")
    /\ UNCHANGED <<run, boot, storeVars, transportVars, callbackVars, mine>>

-----------------------------------------------------------------------------
(* The scheduler, and the operator's settings                              *)

\* RunScheduled takes what is due, whichever run queued it.
SchedulerTicks(t) ==
    /\ at[Scheduler(t)] = "idle" /\ pending # {}
    /\ \E due \in SUBSET pending \ {{}} : pending' = pending \ due
    /\ UNCHANGED <<run, bootVars, config, applied, listening, shown, transportVars, at,
                   callbackVars, mine>>

SchedulerEnds(t) ==
    /\ at[Scheduler(t)] = "idle" /\ ctxDone[t]
    /\ Goto(Scheduler(t), "off")
    /\ UNCHANGED <<run, bootVars, storeVars, transportVars, callbackVars, mine>>

UpdateHSMS ==
    /\ config' \in Settings
    /\ UNCHANGED <<run, bootVars, applied, listening, shown, pending, transportVars, at,
                   callbackVars, mine>>

-----------------------------------------------------------------------------
StartNext(c) == StartLocks(c) \/ StartRecords(c) \/ StartShows(c) \/ OpenActive(c)
                  \/ Listen(c) \/ Register(c) \/ Launch(c) \/ ListenFails(c) \/ Abandon(c)
StopNext(c) == StopLocks(c) \/ StopCancels(c) \/ StopWaits(c) \/ ReportStopped(c)
CallNext(c) == ToggleReads(c) \/ InjectChecks(c) \/ InjectRuns(c)
CallbackNext(k) == CallbackReads(k) \/ CallbackSets(k)
LinkNext(t) == Connects(t) \/ Redials(t) \/ ReadsFrame(t) \/ AcceptsTooLate(t)
HandleNext(t) == Selects(t) \/ Deselects(t) \/ SessionEnds(t) \/ Leaves(t, Loop(t))
LeaversNext(t) == \E r \in Exits : Leaves(t, Leaver(t, r))
DataNext(t) == HandlesData(t) \/ Begin(t) \/ SendsFirst(t) \/ AdvanceReads(t)
                 \/ AdvanceFinishes(t) \/ AdvanceMoves(t) \/ SendsNext(t)
EndNext(t) == ShutdownTakes(t) \/ LoopLeaves(t) \/ SchedulerEnds(t) \/ Recycle(t)

Next ==
    \/ \E c \in Callers : StartNext(c) \/ StopNext(c) \/ CallNext(c)
    \/ \E k \in Thread : CallbackNext(k)
    \/ \E t \in Transport : LinkNext(t) \/ HandleNext(t) \/ LeaversNext(t)
                              \/ DataNext(t) \/ EndNext(t) \/ SchedulerTicks(t)
    \/ UpdateHSMS

\* Goroutines are scheduled: a call that has begun, a callback, a handler
\* and a goroutine that can end each take their next step.  Nothing is
\* assumed of the peer, of the operator or of when a call begins.
Fairness ==
    /\ \A c \in Callers :
         WF_vars(at[c] # "idle" /\ (StartNext(c) \/ StopNext(c) \/ CallNext(c) \/ CallbackNext(c)))
    /\ \A t \in Transport :
         /\ WF_vars(HandleNext(t) \/ DataNext(t) \/ CallbackNext(Loop(t)) \/ LoopLeaves(t))
         /\ \A r \in Exits : WF_vars(Leaves(t, Leaver(t, r)) \/ CallbackNext(Leaver(t, r)))
         /\ WF_vars(ShutdownTakes(t) \/ CallbackNext(Closer(t)))
         /\ WF_vars(SchedulerEnds(t)) /\ WF_vars(Recycle(t))

Spec == Init /\ [][Next]_vars
FairSpec == Spec /\ Fairness

-----------------------------------------------------------------------------
(* Properties                                                              *)

Quiet == \A c \in Callers : at[c] = "idle"
Live(t) == at[Loop(t)] # "off" \/ ~AllOut(t) \/ socket[t] \/ link[t] # "none"

\* Once the calls have returned and no run is recorded, nothing of any run
\* is left: no loop, no reader, no socket, no session, no start-up script,
\* nothing in the queue, and the operator is shown a stopped simulator.
StoppedIsStopped ==
    Quiet /\ run = None =>
        /\ \A t \in Transport : ~Live(t)
        /\ ~listening /\ shown = "NOT CONNECTED"
        /\ pending = {} /\ boot = None

LinkState(t) == CASE link[t] = "selected" -> "SELECTED"
                  [] link[t] = "connected" -> "CONNECTED"
                  [] OTHER -> Resting(t)
AtRest(t) == at[Loop(t)] = "idle" /\ AllOut(t)

\* Once the calls have returned and a run is recorded, its context is live,
\* the operator is shown a running simulator, the settings recorded as
\* applied are those the transport was made with, and the queue holds
\* nothing of an earlier run.  When its goroutines are at rest, the state
\* shown is that of this run's link, whatever earlier runs, sessions and
\* callbacks wrote: always in active mode, and in passive mode but for the
\* LISTENING of an earlier session's reader that came late.
RunningIsShown ==
    Quiet /\ run # None =>
        /\ ~ctxDone[run] /\ listening
        /\ AtRest(run) => \/ shown = LinkState(run)
                          \/ mode[run] = "passive" /\ shown = "LISTENING"
        /\ applied = mode[run]
        /\ pending \subseteq {run}

\* Two transports are never live at once: a stop waits for the old transport
\* to let go before a start can make a new one.
NoOverlap == \A t, u \in Transport : Live(t) /\ Live(u) => t = u

\* While the start-up script runs, the steps sent are the script up to the
\* current step, each once and in order; the current one may be on its way.
SentUpTo(n) ==
    /\ ToSet(script) = (0..n) \ Silent
    /\ \A i, j \in DOMAIN script : i < j => script[i] < script[j]
BootstrapInOrder ==
    boot # None =>
        \/ SentUpTo(boot)
        \/ boot > 0 /\ SentUpTo(boot - 1)
        \/ boot = 0 /\ script = <<>>

\* Every call returns: Start, Stop, Toggle and Inject, whatever the peer,
\* the transport and the callbacks do meanwhile.
CallsReturn == \A c \in Callers : (at[c] # "idle") ~> (at[c] = "idle")

=============================================================================
