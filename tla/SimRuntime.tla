----------------------------- MODULE SimRuntime -----------------------------
(***************************************************************************)
(* The runtime half of the simulator's store: inbound messages are matched *)
(* against the rules in order, a match is logged with its reply and        *)
(* schedules the actions of the rule, and the scheduler's tick logs and    *)
(* hands out the actions that are due.  The configuration half is          *)
(* SimConfig; its operations happen in between, some of them touching the  *)
(* log or the queue (Reload, ClearLog, SetRuntime).                        *)
(*                                                                         *)
(* tickets, emitted and dropped are history: the k-th action ever          *)
(* scheduled holds ticket k, which tells it apart from later ones with the *)
(* same rule and action identifiers.                                       *)
(***************************************************************************)
EXTENDS SimConfig, FiniteSetsExt

CONSTANTS
  Inbound,       \* messages: [sf, rcmd, facts], facts being the conditions it meets
  SeedMessages,  \* the demonstration log the program starts with
  Lag,           \* how much older than the clock the caller's time may be
  MaxInbound,    \* bound: messages processed
  MaxTime,       \* bound: the clock
  MaxTickets,    \* bound: actions scheduled
  MaxMessageID   \* bound: the largest message identifier issued by a failing tick

\* The demonstration log is numbered as the store numbers its own records.
ASSUME RuntimeAssumption ==
  /\ IsSequence(SeedMessages)
  /\ \A k \in DOMAIN SeedMessages : SeedMessages[k].id \in Generated
  /\ \A j, k \in DOMAIN SeedMessages :
       j # k => SeedMessages[j].id # SeedMessages[k].id

VARIABLES
  messages,       \* Store.messages: [id, direction, rule, evaluations]
  pending,        \* Store.pending: [due, rule, action, ticket]
  nextMessageID,  \* Store.nextMessageID
  clock,          \* time.Now()
  inbounds,       \* history: how many messages were processed
  tickets,        \* history: for each scheduled action, its inbound and its due time
  emitted,        \* history: the tickets logged by RunScheduled, in order
  dropped         \* history: the tickets a Stop, a Reload or a crash discarded

logVars == <<messages, pending, nextMessageID>>
historyVars == <<inbounds, tickets, emitted, dropped>>
runtimeVars == <<messages, pending, nextMessageID, clock, inbounds, tickets, emitted, dropped>>
vars == <<configVars, runtimeVars>>
-----------------------------------------------------------------------------
(* Matching *)

NoRule == 0

MatchesPattern(head, m) ==
  /\ head.enabled
  /\ head.sf = m.sf
  /\ head.rcmd \in {"", m.rcmd}

EvaluateConditions(head, m) == {[need |-> n, passed |-> n \in m.facts] : n \in head.needs}

Candidates(m) == {i \in DOMAIN config.rules : MatchesPattern(config.rules[i].head, m)}
Matching(m) == {i \in Candidates(m) : config.rules[i].head.needs \subseteq m.facts}

\* What the log shows of the message: the evaluations of the rule that matched, or
\* of the first that matched but for its conditions.
Diagnosed(m) == IF Matching(m) # {} THEN Matching(m) ELSE Candidates(m)
Evaluations(m) ==
  IF Diagnosed(m) = {} THEN {} ELSE EvaluateConditions(config.rules[Min(Diagnosed(m))].head, m)

Record(id, direction, rule, evaluations) ==
  [id |-> id, direction |-> direction, rule |-> rule, evaluations |-> evaluations]

Append1(record) ==
  /\ messages' = Append(messages, record)
  /\ nextMessageID' = nextMessageID + 1
-----------------------------------------------------------------------------
(* The runtime operations *)

\* sortScheduledActions: by due time, then by the action's identifier as a string.
DueBefore(a, b) ==
  \/ a.due < b.due
  \/ a.due = b.due /\ IdRank(a.action.id) < IdRank(b.action.id)

\* The elements of s that satisfy Keep, in their order: its k-th element is the one
\* that has k of them up to and including itself.
Those(s, Keep(_)) ==
  LET I == {i \in DOMAIN s : Keep(s[i])}
      Place(i) == Cardinality({j \in I : j <= i})
  IN  [k \in 1 .. Cardinality(I) |-> s[CHOOSE i \in I : Place(i) = k]]

Scheduled(rule, at) ==
  [j \in DOMAIN rule.actions |->
    [due |-> at + rule.actions[j].payload.delay, rule |-> rule.id,
     action |-> rule.actions[j], ticket |-> Len(tickets) + j]]

ProcessUnmatched(m) ==
  /\ Matching(m) = {}
  /\ Append1(Record(nextMessageID, "IN", NoRule, Evaluations(m)))
  /\ UNCHANGED <<pending, tickets>>

\* Mutant: the new actions replace the waiting ones.
ProcessMatched_Replaces(m, at) ==
  /\ Matching(m) # {}
  /\ LET rule == config.rules[Min(Matching(m))]
         actions == Scheduled(rule, at)
     IN  /\ Len(tickets) + Len(actions) <= MaxTickets
         /\ \A j \in DOMAIN actions : actions[j].due <= MaxTime
         /\ messages' = messages \o
              <<Record(nextMessageID, "IN", rule.id, Evaluations(m)),
                Record(nextMessageID + 1, "OUT", rule.id, {})>>
         /\ nextMessageID' = nextMessageID + 2
         /\ pending' = StableSort(actions, DueBefore)
         /\ tickets' = tickets \o [j \in DOMAIN actions |->
                                    [inbound |-> inbounds, due |-> actions[j].due]]

\* Mutant: the new actions are appended and the queue is not sorted.
ProcessMatched_Unsorted(m, at) ==
  /\ Matching(m) # {}
  /\ LET rule == config.rules[Min(Matching(m))]
         actions == Scheduled(rule, at)
     IN  /\ Len(tickets) + Len(actions) <= MaxTickets
         /\ \A j \in DOMAIN actions : actions[j].due <= MaxTime
         /\ messages' = messages \o
              <<Record(nextMessageID, "IN", rule.id, Evaluations(m)),
                Record(nextMessageID + 1, "OUT", rule.id, {})>>
         /\ nextMessageID' = nextMessageID + 2
         /\ pending' = pending \o actions
         /\ tickets' = tickets \o [j \in DOMAIN actions |->
                                    [inbound |-> inbounds, due |-> actions[j].due]]

ProcessMatched(m, at) ==
  /\ Matching(m) # {}
  /\ LET rule == config.rules[Min(Matching(m))]
         actions == Scheduled(rule, at)
     IN  /\ Len(tickets) + Len(actions) <= MaxTickets
         /\ \A j \in DOMAIN actions : actions[j].due <= MaxTime
         /\ messages' = messages \o
              <<Record(nextMessageID, "IN", rule.id, Evaluations(m)),
                Record(nextMessageID + 1, "OUT", rule.id, {})>>
         /\ nextMessageID' = nextMessageID + 2
         /\ pending' = StableSort(pending \o actions, DueBefore)
         /\ tickets' = tickets \o [j \in DOMAIN actions |->
                                    [inbound |-> inbounds, due |-> actions[j].due]]

\* The caller reads the time before it asks for the lock.
ProcessInbound(m, at) ==
  /\ up /\ inbounds < MaxInbound
  /\ at \in 0 .. clock /\ clock - at <= Lag
  /\ ProcessUnmatched(m) \/ ProcessMatched(m, at)
  /\ inbounds' = inbounds + 1
  /\ UNCHANGED <<clock, emitted, dropped>> /\ UNCHANGED configVars

AppendProtocolMessage(direction) ==
  /\ up /\ inbounds < MaxInbound
  /\ Append1(Record(nextMessageID, direction, NoRule, {}))
  /\ inbounds' = inbounds + 1
  /\ UNCHANGED <<pending, clock, tickets, emitted, dropped>> /\ UNCHANGED configVars

Buildable(p) == p.action.payload.kind \in {"send", "event"} /\ p.action.payload.body = "ok"

\* Mutant: an action due exactly now is logged and kept.
RunScheduled_KeepsDueNow(now) ==
  LET Due == Those(pending, LAMBDA p : p.due <= now)
      broken == {k \in DOMAIN Due : ~Buildable(Due[k])}
      built == SubSeq(Due, 1, IF broken = {} THEN Len(Due) ELSE Min(broken) - 1)
      wasted == IF broken # {} /\ Due[Min(broken)].action.payload.kind = "send" THEN 1 ELSE 0
  IN  /\ up /\ now \in 0 .. clock /\ clock - now <= Lag
      /\ Due # <<>>
      /\ broken # {} => nextMessageID + Len(Due) <= MaxMessageID
      /\ messages' = messages \o [k \in DOMAIN built |->
           Record(nextMessageID + k - 1, "OUT", built[k].rule, {})]
      /\ nextMessageID' = nextMessageID + Len(built) + wasted
      /\ pending' = IF broken = {} THEN Those(pending, LAMBDA p : p.due >= now) ELSE pending
      /\ emitted' = emitted \o [k \in DOMAIN built |-> built[k].ticket]
      /\ UNCHANGED <<clock, inbounds, tickets, dropped>> /\ UNCHANGED configVars

\* The due actions are logged one by one.  The first that cannot be built ends the
\* tick with an error: what was logged stays logged, and the queue stays as it was.
RunScheduled(now) ==
  LET Due == Those(pending, LAMBDA p : p.due <= now)
      broken == {k \in DOMAIN Due : ~Buildable(Due[k])}
      built == SubSeq(Due, 1, IF broken = {} THEN Len(Due) ELSE Min(broken) - 1)
      wasted == IF broken # {} /\ Due[Min(broken)].action.payload.kind = "send" THEN 1 ELSE 0
  IN  /\ up /\ now \in 0 .. clock /\ clock - now <= Lag
      /\ Due # <<>>
      /\ broken # {} => nextMessageID + Len(Due) <= MaxMessageID
      /\ messages' = messages \o [k \in DOMAIN built |->
           Record(nextMessageID + k - 1, "OUT", built[k].rule, {})]
      /\ nextMessageID' = nextMessageID + Len(built) + wasted
      /\ pending' = IF broken = {} THEN Those(pending, LAMBDA p : p.due > now) ELSE pending
      /\ emitted' = emitted \o [k \in DOMAIN built |-> built[k].ticket]
      /\ UNCHANGED <<clock, inbounds, tickets, dropped>> /\ UNCHANGED configVars

Tick ==
  /\ clock < MaxTime
  /\ clock' = clock + 1
  /\ UNCHANGED logVars /\ UNCHANGED historyVars /\ UNCHANGED configVars
-----------------------------------------------------------------------------
(* The operations of the configuration half, with what they do to the log and the *)
(* queue                                                                          *)

MessageIds(log) == {log[k].id : k \in DOMAIN log}
PendingTickets == {pending[k].ticket : k \in DOMAIN pending}

Discard ==
  /\ pending' = <<>>
  /\ dropped' = dropped \cup PendingTickets

\* Mutant: a stop leaves the queue.
StopRuntime_KeepsQueue ==
  /\ \E state \in Statuses : SetRuntime(FALSE, state)
  /\ dropped' = dropped \cup PendingTickets
  /\ UNCHANGED <<messages, pending, nextMessageID, clock, inbounds, tickets, emitted>>

StopRuntime ==
  /\ \E state \in Statuses : SetRuntime(FALSE, state)
  /\ Discard
  /\ UNCHANGED <<messages, nextMessageID, clock, inbounds, tickets, emitted>>

SetRunning ==
  /\ \E state \in Statuses : SetRuntime(TRUE, state)
  /\ UNCHANGED runtimeVars

Toggle ==
  /\ ToggleRuntime
  /\ IF runtime.listening THEN Discard ELSE UNCHANGED <<pending, dropped>>
  /\ UNCHANGED <<messages, nextMessageID, clock, inbounds, tickets, emitted>>

\* Mutant: the counter forgets the log that Reload keeps.
ReloadConfig_ForgetsLog ==
  /\ Reload
  /\ Discard
  /\ nextMessageID' = NextIdentifier({})
  /\ UNCHANGED <<messages, clock, inbounds, tickets, emitted>>

ReloadConfig ==
  /\ Reload
  /\ Discard
  /\ nextMessageID' = NextIdentifier(MessageIds(messages))
  /\ UNCHANGED <<messages, clock, inbounds, tickets, emitted>>

ClearMessages ==
  /\ ClearLog
  /\ messages' = <<>>
  /\ nextMessageID' = NextIdentifier({})
  /\ UNCHANGED <<pending, clock, inbounds, tickets, emitted, dropped>>

RestartProcess ==
  /\ Restart
  /\ Discard
  /\ messages' = SeedMessages
  /\ nextMessageID' = NextIdentifier(MessageIds(SeedMessages))
  /\ UNCHANGED <<clock, inbounds, tickets, emitted>>

EditConfig ==
  /\ EditNext \/ Save \/ RefusesToStart \/ \E f \in FileEdits : EditFile(f)
  /\ UNCHANGED runtimeVars

NoteRuntime ==
  /\ \/ \E e \in Errors : SetRuntimeError(e)
     \/ \E state \in Statuses : SetHSMSState(state)
     \/ \E c \in Conns : RecordAppliedHSMS(c)
  /\ UNCHANGED runtimeVars
-----------------------------------------------------------------------------
RuntimeInit ==
  /\ messages = SeedMessages /\ nextMessageID = NextIdentifier(MessageIds(SeedMessages))
  /\ pending = <<>> /\ clock = 0 /\ inbounds = 0
  /\ tickets = <<>> /\ emitted = <<>> /\ dropped = {}

StoreInit == Init /\ RuntimeInit

StoreNext ==
  \/ \E m \in Inbound, at \in 0 .. clock : ProcessInbound(m, at)
  \/ \E direction \in {"IN", "OUT"} : AppendProtocolMessage(direction)
  \/ \E now \in 0 .. clock : RunScheduled(now)
  \/ Tick
  \/ StopRuntime
  \/ SetRunning
  \/ Toggle
  \/ ReloadConfig
  \/ ClearMessages
  \/ RestartProcess
  \/ EditConfig
  \/ NoteRuntime

StoreSpec == StoreInit /\ [][StoreNext]_vars

\* Mutant: the scheduler waits for a selected session.
Scheduler_OnlySelected ==
  runtime.listening /\ runtime.state = "SELECTED" /\ RunScheduled(clock)

\* While the simulator runs, its scheduler ticks every 25 ms and time passes.
Scheduler == runtime.listening /\ RunScheduled(clock)
FairStoreSpec == StoreSpec /\ WF_vars(Scheduler) /\ WF_vars(Tick)
-----------------------------------------------------------------------------
(* Properties *)

Due(ticket) == tickets[ticket].due

\* No two records of the log share an identifier, although ClearLog and Reload
\* reset the counter and records are numbered by three different methods: the
\* monitor selects and expands a record by its identifier.
MessageIdsDistinct ==
  \A j, k \in DOMAIN messages : j # k => messages[j].id # messages[k].id

\* A scheduled action is logged at most once (RunScheduled).
EmittedOnce == \A j, k \in DOMAIN emitted : j # k => emitted[j] # emitted[k]

\* An action that a match scheduled does not vanish: it waits, was logged, or was
\* discarded by a Stop, a Reload or a crash.
NoneLost == DOMAIN tickets = PendingTickets \cup ToSet(emitted) \cup dropped

\* What a Stop or a Reload discarded is not logged afterwards, nor was before.
DiscardedIsGone == dropped \cap (ToSet(emitted) \cup PendingTickets) = {}

\* One tick logs the actions of different matches in the order they fall due, and
\* none while an earlier one is left waiting.
EmittedInOrder ==
  [][LET new == SubSeq(emitted', Len(emitted) + 1, Len(emitted'))
     IN  \A k \in DOMAIN new :
           /\ \A j \in 1 .. k : Due(new[j]) <= Due(new[k])
           /\ \A p \in ToSet(pending') : p.ticket \in ToSet(new) \/ Due(new[k]) <= p.due]_vars

\* While the simulator keeps running, a scheduled action is logged in the end.
QueueDrains ==
  \A t \in 1 .. MaxTickets :
    (t \in PendingTickets /\ runtime.listening) ~> (t \notin PendingTickets \/ ~runtime.listening)
=============================================================================
