------------------------------ MODULE DataPath ------------------------------
(* The way of data messages through a running simulator                      *)
(* (internal/sim/controller.go: handleDataMessage, the scheduler, the        *)
(* start-up script; internal/store/runtime.go). Three actors share the store *)
(* and the link: the reader of the session, which handles one message at a   *)
(* time, the scheduler, and the operator, whose requests change the settings *)
(* and the rules between any two of their steps. The link is selected when it*)
(* is made, breaks at any time and is made again, as an active simulator     *)
(* does; how it is selected is the subject of HsmsTransport. Session         *)
(* identifiers are left out.                                                 *)
EXTENDS HostProfiles, FiniteSets, FiniteSetsExt

CONSTANTS
    SettingsSet,    \* what the operator may set: [auto, scripted, profile, name]
    RuleLists,      \* the rules the operator may leave: sequences of [id, stream, function, reply, actions]
    Starts,         \* what both are at first: pairs of the two
    Primaries,      \* what the peer may send of its own accord
    Unruly,         \* BOOLEAN: the peer may also answer wrongly
    Words,          \* 2^32: system bytes are counted modulo it
    FirstWord,      \* where the counter stands
    MaxPrimaries, MaxTroubles, MaxLinks    \* bounds

IsSequence(s) == s \in Seq(ToSet(s))
IsMessage(m)  == /\ m.wbit \in BOOLEAN
                 /\ m = [stream |-> m.stream, function |-> m.function, wbit |-> m.wbit,
                         system |-> m.system, body |-> m.body]
IsMessages(s) == IsSequence(s) /\ \A k \in DOMAIN s : IsMessage(s[k])

(* The store gives every rule an identifier of its own (SimConfig).          *)
ASSUME DataPathAssumption ==
    /\ Words \in Nat \ {0, 1} /\ FirstWord \in 0..(Words - 1)
    /\ Starts \subseteq SettingsSet \X RuleLists
    /\ \A s \in SettingsSet : s.profile \in Profiles /\ (s.scripted <=> s.profile # "disabled")
    /\ \A m \in Primaries : IsMessage(m)
    /\ \A list \in RuleLists :
          /\ IsSequence(list)
          /\ \A k \in DOMAIN list : list[k].id # 0 /\ IsMessages(list[k].actions)
          /\ \A j, k \in DOMAIN list : j # k => list[j].id # list[k].id
    /\ MaxPrimaries \in Nat /\ MaxTroubles \in Nat /\ MaxLinks \in Nat /\ Unruly \in BOOLEAN

VARIABLES
    settings, rules,    \* the configuration of the store
    running,            \* the controller has a transport
    link,               \* the number of the current link, and whether it is up
    counter,            \* nextSystemBytes of the transport
    script,             \* hostBootstrap: [profile, step], or NoScript
    pending,            \* scheduled actions of the store
    pc, h,              \* where the reader is, and what it handles
    batch,              \* what the scheduler has still to send
    inbox,              \* messages on their way from the peer
    events,             \* how many events it has sent
    owed,               \* requests on their way to it, or not yet answered by it
    ledger,             \* of each message, how often the log shows it as sent less how often it is sent
    answers,            \* of each message answered on this link, its answers in order
    primaries, troubles, \* counted for the bounds: an edit, a stop, a break and a wrong answer are troubles
    undisturbed,        \* since the script was begun: no edit, stop, break or wrong answer
    overtaken           \* an edit has come between the reader's copy and its match

config == <<settings, rules, overtaken>>
store  == <<config, pending>>
wire   == <<owed, answers>>
peer   == <<inbox, events, primaries>>
vars   == <<store, ledger, running, link, counter, script, pc, h, batch, wire, peer, troubles, undisturbed>>

NoScript == [profile |-> "", step |-> 0]
Handling(m, s, list) == [message |-> m, settings |-> s, rules |-> list,
                         matched |-> 0, responses |-> <<>>, asks |-> Silent]
NoSettings == [auto |-> {}, scripted |-> FALSE, profile |-> "disabled", name |-> ""]
Nothing    == Handling(Silent, NoSettings, <<>>)

-----------------------------------------------------------------------------
(* The message log and the wire meet in the ledger, which counts what is     *)
(* logged as sent up and what is sent down, without the system bytes, which  *)
(* the log does not show. Inbound records and the order of the log are the   *)
(* subject of SimRuntime.                                                    *)
Shown(m) == [m EXCEPT !.system = 0]
Balance(l, x) == IF x \in DOMAIN l THEN l[x] ELSE 0
Copies(s, x) == Cardinality({k \in DOMAIN s : Shown(s[k]) = x})
Booked(l, s, sign) ==
    LET Sum(x) == Balance(l, x) + sign * Copies(s, x)
    IN  [x \in {y \in DOMAIN l \cup {Shown(s[k]) : k \in DOMAIN s} : Sum(y) # 0} |-> Sum(x)]
Logged(messages) == ledger' = Booked(ledger, messages, 1)

Answer(m, body) == [stream |-> m.stream, function |-> m.function + 1, wbit |-> FALSE,
                    system |-> m.system, body |-> body]
Ack == Binary(<<0>>)

(* autoResponseForMessage: the handshakes the settings switch on, by stream  *)
(* and function; the W bit is not looked at.                                 *)
Handshakes == {<<1, 1>>, <<1, 13>>, <<1, 17>>, <<2, 25>>}
Identity == List(<<ASCII("MDLN"), ASCII("SOFTREV")>>)
IsAuto(c, m) == <<m.stream, m.function>> \in c.auto \cap Handshakes
AutoAnswer(m) ==
    Answer(m, CASE m.function = 1  -> Identity
                [] m.function = 13 -> List(<<Ack, Identity>>)
                [] m.function = 17 -> Ack
                [] m.function = 25 -> m.body)

(* hostAutoResponseForMessage: events are acknowledged for the script. *)
HostAnswers(c, m) == IF c.scripted /\ m.stream = 6 /\ m.function = 11 /\ m.wbit
                     THEN <<Answer(m, Ack)>> ELSE <<>>

(* The first rule for a message, and the reply a rule gives. *)
NoRule == [id |-> 0]
FirstMatch(list, m) ==
    LET Hits == {k \in DOMAIN list : list[k].stream = m.stream /\ list[k].function = m.function}
    IN  IF Hits = {} THEN NoRule ELSE list[Min(Hits)]
RuleReply(rule, m) ==
    [stream |-> rule.reply.stream, function |-> rule.reply.function, wbit |-> FALSE,
     system |-> m.system, body |-> List(<<Binary(<<rule.reply.ack>>), Empty>>)]

(* replyForResult: the rule with the matched identifier, in the copy of the  *)
(* configuration the reader took before it matched.                          *)
RuleOf_First(list, id) == IF list = <<>> THEN NoRule ELSE list[1]
RuleOf(list, id) ==
    LET Hits == {k \in DOMAIN list : list[k].id = id}
    IN  IF Hits = {} THEN NoRule ELSE list[Min(Hits)]

(* nextSystemByte. *)
NextWord == (counter + 1) % Words

-----------------------------------------------------------------------------
Init ==
    /\ \E start \in Starts : settings = start[1] /\ rules = start[2]
    /\ running = TRUE /\ link = [n |-> 1, up |-> TRUE] /\ counter = FirstWord
    /\ script = NoScript /\ pending = <<>> /\ ledger = <<>>
    /\ pc = "selected" /\ h = Nothing /\ batch = <<>>
    /\ inbox = <<>> /\ events = 0 /\ owed = <<>> /\ answers = <<>>
    /\ primaries = 0 /\ troubles = 0 /\ undisturbed = TRUE /\ overtaken = FALSE

(* A frame queued on a session that is up reaches the peer. *)
AnswersTo(a, word) == IF word \in DOMAIN a THEN a[word] ELSE <<>>
WithAnswer(a, m) == [w \in DOMAIN a \cup {m.system} |->
                      IF w = m.system THEN Append(AnswersTo(a, w), m) ELSE a[w]]
Transmit(m) ==
    /\ ledger' = Booked(ledger, <<m>>, -1)
    /\ IF m.wbit THEN owed' = Append(owed, m) /\ UNCHANGED answers
                 ELSE answers' = WithAnswer(answers, m) /\ UNCHANGED owed

-----------------------------------------------------------------------------
(* The reader announces that the link is selected and begins the script.     *)
BeginScript ==
    /\ pc = "selected"
    /\ LET steps == Steps(settings.profile, settings.name)
       IN  IF settings.scripted /\ steps # <<>> /\ running /\ script = NoScript
           THEN /\ script' = [profile |-> settings.profile, step |-> 1]
                /\ h' = [Nothing EXCEPT !.message = steps[1].send]
                /\ pc' = "first" /\ undisturbed' = TRUE
           ELSE pc' = "reading" /\ UNCHANGED <<script, h, undisturbed>>
    /\ UNCHANGED <<store, ledger, running, link, counter, batch, wire, peer, troubles>>

(* sendStandaloneMessage: the first message is sent, then logged; when it    *)
(* cannot be sent the script is given up.                                    *)
SendFirst ==
    /\ pc = "first"
    /\ IF running /\ link.up
       THEN LET m == [h.message EXCEPT !.system = NextWord]
            IN  /\ Transmit(m) /\ counter' = NextWord
                /\ h' = [Nothing EXCEPT !.message = m] /\ pc' = "sentFirst" /\ UNCHANGED script
       ELSE script' = NoScript /\ pc' = "reading" /\ h' = Nothing /\ UNCHANGED <<ledger, wire, counter>>
    /\ UNCHANGED <<store, running, link, batch, peer, troubles, undisturbed>>

LogFirst ==
    /\ pc = "sentFirst"
    /\ Logged(<<h.message>>)
    /\ pc' = "reading" /\ h' = Nothing
    /\ UNCHANGED <<config, pending, running, link, counter, script, batch, wire, peer, troubles, undisturbed>>

-----------------------------------------------------------------------------
(* The reader handles a message, from a copy of the configuration. *)
Receive ==
    /\ pc = "reading" /\ link.up /\ inbox # <<>>
    /\ h' = Handling(Head(inbox), settings, rules)
    /\ inbox' = Tail(inbox) /\ pc' = "match" /\ UNCHANGED <<events, primaries>>
    /\ UNCHANGED <<store, ledger, running, link, counter, script, batch, wire, troubles, undisturbed>>

(* ProcessInbound: the message and the reply of the rule it matches are      *)
(* logged, and the rule's actions scheduled.                                 *)
ProcessInbound ==
    /\ pc = "match"
    /\ LET m == h.message
           rule == FirstMatch(rules, m)
       IN  /\ IF rule = NoRule
              THEN UNCHANGED <<pending, ledger>>
              ELSE Logged(<<RuleReply(rule, m)>>) /\ pending' = pending \o rule.actions
           /\ h' = [h EXCEPT !.matched = rule.id]
    /\ pc' = "answer"
    /\ UNCHANGED <<config, running, link, counter, script, batch, wire, peer, troubles, undisturbed>>

(* A handshake is answered and nothing else is done for it. Any other        *)
(* message has the acknowledgement of the script and then the reply of the   *)
(* matched rule; when that rule is not in the copy, everything is dropped.   *)
AnswersAlone_Never(auto) == FALSE
AnswersAlone(auto) == auto
AnswersItself ==
    /\ pc = "answer"
    /\ LET auto == IsAuto(h.settings, h.message)
           own  == IF auto THEN <<AutoAnswer(h.message)>> ELSE HostAnswers(h.settings, h.message)
           rule == RuleOf(h.rules, h.matched)
           Answered(responses, next) == h' = [h EXCEPT !.responses = responses] /\ pc' = next
       IN  /\ Logged(own)
           /\ IF AnswersAlone(auto) THEN Answered(own, "send")
              ELSE IF h.matched = 0 THEN Answered(own, "advance")
              ELSE IF rule = NoRule THEN h' = Nothing /\ pc' = "reading"
              ELSE Answered(Append(own, RuleReply(rule, h.message)), "advance")
    /\ UNCHANGED <<config, pending, running, link, counter, script, batch, wire, peer, troubles, undisturbed>>

(* advanceHostBootstrap, by the settings of the copy and the profile the     *)
(* script was begun with. The message to send gets its system bytes from the *)
(* transport of the next moment, and everything is dropped when there is     *)
(* none any more.                                                            *)
Reserved_Peeked(word) == counter
Reserved(word) == word
NextStep == IF script.step < Len(Steps(script.profile, "")) THEN [script EXCEPT !.step = @ + 1] ELSE NoScript
Advances == /\ h.settings.scripted /\ script # NoScript
            /\ Matches(Steps(script.profile, "")[script.step], h.message)
AdvanceScript ==
    /\ pc = "advance"
    /\ LET send == Steps(script.profile, h.settings.name)[script.step + 1].send
           asks == Advances /\ NextStep # NoScript /\ send # Silent
       IN  /\ script' = IF Advances THEN NextStep ELSE script
           /\ pc' = IF asks THEN "number" ELSE "send"
           /\ h' = IF asks THEN [h EXCEPT !.asks = send] ELSE h
    /\ UNCHANGED <<store, ledger, running, link, counter, batch, wire, peer, troubles, undisturbed>>

NumberStep ==
    /\ pc = "number"
    /\ IF running
       THEN LET m == [h.asks EXCEPT !.system = NextWord]
            IN  /\ counter' = Reserved(NextWord) /\ Logged(<<m>>)
                /\ h' = [h EXCEPT !.responses = Append(@, m)] /\ pc' = "send"
       ELSE pc' = "reading" /\ h' = Nothing /\ UNCHANGED <<counter, ledger>>
    /\ UNCHANGED <<store, running, link, script, batch, wire, peer, troubles, undisturbed>>

(* runSession sends the answers on its own session; a response without       *)
(* system bytes takes those of the message it answers.                       *)
SendResponse ==
    /\ pc = "send"
    /\ IF h.responses # <<>> /\ link.up
       THEN LET m == Head(h.responses)
            IN  /\ Transmit(IF m.system = 0 THEN [m EXCEPT !.system = h.message.system] ELSE m)
                /\ h' = [h EXCEPT !.responses = Tail(@)] /\ UNCHANGED pc
       ELSE pc' = "reading" /\ h' = Nothing /\ UNCHANGED <<ledger, wire>>
    /\ UNCHANGED <<store, running, link, counter, script, batch, peer, troubles, undisturbed>>

(* The reader of a link that is gone resets the script; the dial loop makes  *)
(* a new link, which takes one number for its Select.req.                    *)
LeaveLink ==
    /\ pc = "reading" /\ ~link.up
    /\ script' = NoScript /\ pc' = "dialing"
    /\ UNCHANGED <<store, ledger, running, link, counter, h, batch, wire, peer, troubles, undisturbed>>

Redial ==
    /\ pc = "dialing" /\ running /\ link.n < MaxLinks
    /\ link' = [n |-> link.n + 1, up |-> TRUE] /\ counter' = NextWord
    /\ pc' = "selected" /\ answers' = <<>>
    /\ UNCHANGED <<store, ledger, running, script, h, batch, owed, peer, troubles, undisturbed>>

-----------------------------------------------------------------------------
(* RunScheduled logs the actions that are due, a first part of the queue;    *)
(* they are sent, one by one, by the transport of the moment, or dropped.    *)
RunScheduled(n) ==
    /\ running /\ batch = <<>> /\ n \in 1..Len(pending)
    /\ Logged(SubSeq(pending, 1, n))
    /\ batch' = SubSeq(pending, 1, n)
    /\ pending' = SubSeq(pending, n + 1, Len(pending))
    /\ UNCHANGED <<config, running, link, counter, script, pc, h, wire, peer, troubles, undisturbed>>

SendScheduled ==
    /\ batch # <<>> /\ batch' = Tail(batch)
    /\ IF running /\ link.up
       THEN Transmit([Head(batch) EXCEPT !.system = NextWord]) /\ counter' = NextWord
       ELSE UNCHANGED <<ledger, wire, counter>>
    /\ UNCHANGED <<store, running, link, script, pc, h, peer, troubles, undisturbed>>

-----------------------------------------------------------------------------
Trouble == troubles < MaxTroubles /\ troubles' = troubles + 1

(* The operator. *)
EditSettings(s) ==
    /\ Trouble /\ s # settings /\ settings' = s /\ undisturbed' = FALSE
    /\ UNCHANGED <<ledger, rules, overtaken, pending, running, link, counter, script, pc, h, batch, wire, peer>>

EditRules(list) ==
    /\ Trouble /\ list # rules /\ rules' = list
    /\ undisturbed' = FALSE /\ overtaken' = (overtaken \/ pc = "match")
    /\ UNCHANGED <<ledger, settings, pending, running, link, counter, script, pc, h, batch, wire, peer>>

LoseLink ==
    /\ link' = [link EXCEPT !.up = FALSE]
    /\ inbox' = <<>> /\ owed' = <<>>
    /\ undisturbed' = FALSE

(* Stop clears the transport and the queue, and closes the link. *)
Stop ==
    /\ running /\ Trouble /\ running' = FALSE /\ pending' = <<>> /\ script' = NoScript
    /\ LoseLink
    /\ UNCHANGED <<ledger, config, counter, pc, h, batch, events, primaries, answers>>

LinkBreaks ==
    /\ link.up /\ link.n < MaxLinks /\ Trouble /\ LoseLink
    /\ UNCHANGED <<store, ledger, running, counter, script, pc, h, batch, events, primaries, answers>>

-----------------------------------------------------------------------------
(* The peer. Its own messages, primaries and the events around its answers,  *)
(* are numbered apart from the simulator's and from each other.              *)
PeerSends(m) ==
    /\ link.up /\ primaries < MaxPrimaries /\ primaries' = primaries + 1
    /\ inbox' = Append(inbox, [m EXCEPT !.system = Words + 2 * primaries])
    /\ UNCHANGED <<store, ledger, running, link, counter, script, pc, h, batch, wire, events, troubles, undisturbed>>

(* What equipment answers: the right body, and the events around it that the *)
(* conveyor's script waits for, in the order it waits for them.              *)
Event(ceid) == [Ask(6, 11, List(<<U4(0), U4(ceid), List(<<List(<<U4(1), Empty>>)>>)>>))
                  EXCEPT !.system = Words + 2 * events + 1]
Row == List([k \in 1..9 |-> ASCII("cell")])
RightBody(m) ==
    CASE m.stream = 1 /\ m.function = 13 -> List(<<Ack, Identity>>)
      [] m.stream = 2 /\ m.function = 41 -> List(<<Ack, Empty>>)
      [] m.stream = 1 /\ m.function = 3 ->
            List(<<CASE m.body = S1F3(6).body   -> Number("U1", 1)
                     [] m.body = S1F3(507).body -> List(<<Row>>)
                     [] OTHER                   -> Empty>>)
      [] OTHER -> Ack
Answers(m) ==
    LET answer == <<Answer(m, RightBody(m))>>
    IN  CASE m.stream = 1 /\ m.function = 17 -> <<Event(3)>> \o answer
          [] m.stream = 2 /\ m.function = 41 -> answer \o <<Event(57)>>
          [] OTHER -> answer

Delivers(k, answer) ==
    /\ link.up /\ owed' = RemoveAt(owed, k)
    /\ inbox' = inbox \o answer /\ events' = events + Len(answer) - 1
    /\ UNCHANGED <<store, ledger, running, link, counter, script, pc, h, batch, answers, primaries>>

PeerAnswers(k) == Delivers(k, Answers(owed[k])) /\ UNCHANGED <<troubles, undisturbed>>

(* A peer that answers with an error, or the answers of the conveyor in the  *)
(* other order.                                                              *)
PeerMisanswers(k) ==
    /\ Unruly /\ Trouble /\ undisturbed' = FALSE
    /\ \E answer \in {<<Answer(owed[k], Binary(<<1>>))>>, Reverse(Answers(owed[k]))} : Delivers(k, answer)

-----------------------------------------------------------------------------
ReaderNext == \/ BeginScript \/ SendFirst \/ LogFirst
              \/ Receive \/ ProcessInbound \/ AnswersItself \/ AdvanceScript \/ NumberStep \/ SendResponse
              \/ LeaveLink \/ Redial
SchedulerNext == (\E n \in 1..Len(pending) : RunScheduled(n)) \/ SendScheduled
OperatorNext  == (\E s \in SettingsSet : EditSettings(s)) \/ (\E list \in RuleLists : EditRules(list)) \/ Stop
PeerNext      == \/ \E m \in Primaries : PeerSends(m)
                 \/ \E k \in DOMAIN owed : PeerAnswers(k) \/ PeerMisanswers(k)
Next == ReaderNext \/ SchedulerNext \/ OperatorNext \/ LinkBreaks \/ PeerNext

Spec == Init /\ [][Next]_vars

(* The reader and the scheduler run; the peer's own promise to answer is     *)
(* part of the property that needs it.                                       *)
FairSpec == Spec /\ WF_vars(ReaderNext) /\ WF_vars(SchedulerNext)
                 /\ WF_vars(\E k \in DOMAIN owed : PeerAnswers(k))

-----------------------------------------------------------------------------
(* Nothing is sent that the log does not show as sent, nor more often than   *)
(* it shows it: the reply of the rule that matched, the answers to handshakes*)
(* and events, the messages of the script and the actions (controller.go,    *)
(* runtime.go). The system bytes, which the log does not show, are set aside,*)
(* and so is a history in which the rules were changed between the reader's  *)
(* copy and its match.                                                       *)
SentAsLogged ==
    ~overtaken => \A m \in DOMAIN ledger : ledger[m] < 0 => pc = "sentFirst" /\ m = Shown(h.message)

(* A message of the peer is answered at most once on its link, except that an*)
(* event is acknowledged for the script before a rule answers it again.      *)
OneAnswer ==
    \A w \in DOMAIN answers :
        \/ Len(answers[w]) = 1
        \/ Len(answers[w]) = 2 /\ answers[w][1].stream = 6 /\ answers[w][1].body = Ack

(* Requests of the simulator that have not been answered never share their   *)
(* system bytes, though the reader, the scheduler and the script all number  *)
(* them and the counter wraps.                                               *)
OutstandingDistinct == \A j, k \in DOMAIN owed : j # k => owed[j].system # owed[k].system

(* A script that is begun comes to its end when the peer answers every       *)
(* request as equipment does and nobody breaks the link, stops the simulator *)
(* or changes the settings.                                                  *)
ScriptFinishes == (script # NoScript) ~> (script = NoScript \/ ~undisturbed)
=============================================================================
