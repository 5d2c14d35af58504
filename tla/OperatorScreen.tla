---------------------------- MODULE OperatorScreen ---------------------------
(* The operator's browser (frontend/src/App.tsx, lib/api.ts) against the     *)
(* handlers of the API and the store. The browser shows the snapshot it got  *)
(* last, from the event stream or from the answer of a request; an edit is   *)
(* shown at once and sent. Requests are in flight together: they are handled *)
(* in any order, answered in any order, and each may fail. Of the settings   *)
(* only the rules are told apart: an edit of the HSMS or the device settings *)
(* takes the same way.                                                       *)
EXTENDS Subscriptions, SequencesExt, FiniteSets

CONSTANTS Texts,                \* what a rule may say
          Shortcuts,            \* the kinds of requests the operator makes without a rule
          OthersDo,             \* the kinds of requests others make
          MaxEvents             \* bound on the requests of the operator and of others

NoStream == 0
ASSUME StreamsAssumption == Streams \subseteq Nat \ {0}

(* A rule: its identifier, what it says, and who it is, which the program    *)
(* does not keep: two rules may have one identifier, one after the other.    *)
RuleType == [id : Nat, text : Texts, who : Nat]
Rule(id, text, who) == [id |-> id, text |-> text, who |-> who]

Kinds == {"create", "update", "delete", "save", "reload", "clear", "load", "message"}

(* The store starts from a configuration just loaded, whose rules are        *)
(* numbered from one (loadSnapshotFromYAML, seedSnapshot).                   *)
ASSUME ContentsAssumption ==
    /\ "new" \in Texts /\ OthersDo \subseteq Kinds /\ Shortcuts \subseteq Kinds \ {"update", "delete"}
    /\ \A rules \in Contents :
          rules \in Seq(RuleType) /\ \A k \in DOMAIN rules : rules[k].id = k

VARIABLES
    nextRuleID, file,   \* of the store
    born,               \* how many rules have been made
    counted,            \* the version at which the identifiers were last counted anew
    others,             \* changes by others
    stream,             \* the event stream the browser reads
    shown,              \* the snapshot on the screen, and its rules with the edits made to them
    latest,             \* the highest version it has shown
    loading, loadFailed,\* the screen is hidden for a load; the last load has failed
    asked, requests, answers    \* requests sent, in flight, and answered

hidden  == <<nextRuleID, file, born, counted>>
browser == <<stream, shown, latest, loading, loadFailed, asked, requests, answers>>
vars == <<streamVars, hidden, others, browser>>

Ids(rules) == {rules[k].id : k \in DOMAIN rules}
At(rules, id) == CHOOSE k \in DOMAIN rules : rules[k].id = id
NoSnapshot == [version |-> 0, rules |-> <<>>]
NothingShown == [snapshot |-> NoSnapshot, rules |-> <<>>]
Load == [n |-> 0, kind |-> "load", id |-> 0, text |-> "", who |-> 0, version |-> 0]

Init ==
    /\ StreamInit /\ nextRuleID = Len(store.rules) + 1 /\ file = store.rules
    /\ born = Len(store.rules) /\ counted = 0 /\ others = 0
    /\ stream = NoStream /\ shown = NothingShown /\ latest = 0 /\ loading = TRUE /\ loadFailed = FALSE
    /\ asked = 0 /\ requests = {Load} /\ answers = {}

-----------------------------------------------------------------------------
(* The store: NewRule, UpdateRule, DeleteRule, Save, Reload and ClearLog, the*)
(* last two of which count the identifiers anew (resetIDCountersLocked).     *)
HighestId(rules) == IF rules = <<>> THEN 0 ELSE Max(Ids(rules))
Replaced(rules, id, text) == [rules EXCEPT ![At(rules, id)].text = text]
Numbered(rules) == [k \in DOMAIN rules |-> [rules[k] EXCEPT !.id = k]]

NewRule ==
    /\ Publish(Append(store.rules, Rule(nextRuleID, "new", born + 1)))
    /\ nextRuleID' = nextRuleID + 1 /\ born' = born + 1 /\ UNCHANGED <<file, counted>>
UpdateRule(id, text) ==
    /\ id \in Ids(store.rules) /\ Publish(Replaced(store.rules, id, text))
    /\ UNCHANGED hidden
DeleteRule_Renumbers(id) ==
    /\ id \in Ids(store.rules) /\ Publish(Numbered(RemoveAt(store.rules, At(store.rules, id))))
    /\ UNCHANGED hidden
DeleteRule(id) ==
    /\ id \in Ids(store.rules) /\ Publish(RemoveAt(store.rules, At(store.rules, id)))
    /\ UNCHANGED hidden
Save == Publish(store.rules) /\ file' = store.rules /\ UNCHANGED <<nextRuleID, born, counted>>
Reload ==
    /\ Publish(Numbered(file)) /\ nextRuleID' = Len(file) + 1
    /\ counted' = store.version + 1 /\ UNCHANGED <<file, born>>
ClearLog ==
    /\ Publish(store.rules) /\ nextRuleID' = HighestId(store.rules) + 1
    /\ counted' = store.version + 1 /\ UNCHANGED <<file, born>>

Do(kind, id, text) ==
    CASE kind = "create" -> NewRule
      [] kind = "update" -> UpdateRule(id, text)
      [] kind = "delete" -> DeleteRule(id)
      [] kind = "save"   -> Save
      [] kind = "reload" -> Reload
      [] kind = "clear"  -> ClearLog
      [] kind = "load"   -> UNCHANGED <<store, streams, hidden>>
      [] kind = "message" -> Publish(store.rules) /\ UNCHANGED hidden

MayHappen == asked + others < MaxEvents

(* The state of the link, a message, another operator. *)
OthersChange ==
    /\ MayHappen /\ others' = others + 1
    /\ \E kind \in OthersDo, id \in Ids(store.rules) \cup {0}, text \in Texts :
          /\ kind # "update" => text = "new"
          /\ kind \notin {"update", "delete"} => id = 0
          /\ Do(kind, id, text)
    /\ UNCHANGED <<starting, browser>>
ControllerStarts ==
    /\ MayHappen /\ others' = others + 1
    /\ RecordApplied /\ UNCHANGED <<hidden, browser>>
ControllerShows == SetRuntime /\ UNCHANGED <<hidden, others, browser>>

-----------------------------------------------------------------------------
(* A handler does what a request asks and answers with the snapshot of the   *)
(* same step; an error, of the store or of the network, is an answer too, and*)
(* the network may fail before the request is handled or after it.           *)
Answered(r, ok, snapshot) ==
    /\ requests' = requests \ {r}
    /\ answers' = answers \cup {[request |-> r, ok |-> ok, snapshot |-> snapshot]}
    /\ UNCHANGED <<stream, shown, latest, loading, loadFailed, asked, others>>

Handle(r) ==
    /\ Do(r.kind, r.id, r.text)
    /\ UNCHANGED starting
    /\ Answered(r, TRUE, store') \/ Answered(r, FALSE, NoSnapshot)

Fail(r) == Answered(r, FALSE, NoSnapshot) /\ UNCHANGED <<streamVars, hidden>>

-----------------------------------------------------------------------------
(* What the operator does. Rules are changed on the screen, which a load     *)
(* hides; the shortcuts work all the same.                                   *)
Send(r) == /\ MayHappen /\ asked' = asked + 1
           /\ requests' = requests \cup {r}
           /\ UNCHANGED <<streamVars, hidden, others, stream, latest, loading, loadFailed, answers>>
Request(kind, rule, text) ==
    [n |-> asked + 1, kind |-> kind, id |-> rule.id, text |-> text, who |-> rule.who,
     version |-> shown.snapshot.version]

Press(kind) ==
    /\ shown # NothingShown
    /\ Send(Request(kind, Rule(0, "", 0), "")) /\ UNCHANGED shown

DeleteShown(k) ==
    /\ ~loading /\ Send(Request("delete", shown.rules[k], "")) /\ UNCHANGED shown

ChangeShown(k, text) ==
    /\ ~loading /\ text # shown.rules[k].text
    /\ shown' = [shown EXCEPT !.rules[k].text = text]
    /\ Send(Request("update", shown.rules[k], text))

-----------------------------------------------------------------------------
(* What arrives. A snapshot replaces everything shown. *)
Replace(snapshot) ==
    /\ shown' = [snapshot |-> snapshot, rules |-> snapshot.rules]
    /\ latest' = Max({latest, snapshot.version})

OnAnswer(a) ==
    /\ a.ok /\ answers' = answers \ {a} /\ Replace(a.snapshot)
    /\ loading' = (loading /\ a.request.kind # "load")
    /\ loadFailed' = FALSE
    /\ UNCHANGED <<streamVars, hidden, others, stream, asked, requests>>

(* An edit that failed is taken back by loading the state anew. *)
TakenBack_Never(r) == FALSE
TakenBack(r) == r.kind = "update"
OnFailure(a) ==
    /\ ~a.ok /\ answers' = answers \ {a}
    /\ requests' = IF TakenBack(a.request) THEN requests \cup {[Load EXCEPT !.n = a.request.n]} ELSE requests
    /\ loading' = IF a.request.kind = "load" THEN FALSE ELSE loading \/ TakenBack(a.request)
    /\ loadFailed' = (loadFailed \/ a.request.kind = "load")
    /\ UNCHANGED <<streamVars, hidden, others, stream, shown, latest, asked>>

(* The event stream is opened, and opened again when it breaks. The handler  *)
(* of a broken stream is taken to leave at once: what its channel still takes*)
(* nobody reads, and no publication waits for it. The bound lets a stream    *)
(* break when there is another.                                              *)
OpenStream(s) ==
    /\ stream = NoStream /\ \A t \in Streams \ opened : s <= t
    /\ stream' = s /\ Subscribe(s)
    /\ UNCHANGED <<hidden, others, shown, latest, loading, loadFailed, asked, requests, answers>>
BreakStream(s) ==
    /\ s = stream /\ opened # Streams /\ stream' = NoStream /\ Unsubscribe(s)
    /\ UNCHANGED <<hidden, others, shown, latest, loading, loadFailed, asked, requests, answers>>

OnMessage(s) ==
    /\ s = stream /\ Deliver(s) /\ Replace(Head(hand[s]))
    /\ loadFailed' = FALSE
    /\ UNCHANGED <<hidden, others, stream, loading, asked, requests, answers>>

HandlerTakes(s) == s = stream /\ Take(s) /\ UNCHANGED <<hidden, others, browser>>

-----------------------------------------------------------------------------
OperatorNext ==
    \/ \E kind \in Shortcuts : Press(kind)
    \/ \E k \in DOMAIN shown.rules : DeleteShown(k) \/ \E text \in Texts : ChangeShown(k, text)
ServerNext == (\E r \in requests : Handle(r) \/ Fail(r)) \/ OthersChange \/ ControllerStarts
BrowserNext == \E a \in answers : OnAnswer(a) \/ OnFailure(a)
StreamWorks(s) == HandlerTakes(s) \/ OnMessage(s)
Next ==
    \/ OperatorNext \/ ServerNext \/ BrowserNext \/ ControllerShows
    \/ \E s \in Streams : OpenStream(s) \/ BreakStream(s) \/ StreamWorks(s)

Spec == Init /\ [][Next]_vars

(* The controller goes on from one call to the next, the handler of a stream *)
(* is scheduled, the browser opens the stream again and handles its events.  *)
FairSpec ==
    /\ Spec /\ WF_vars(ControllerShows) /\ WF_vars(\E s \in Streams : OpenStream(s))
    /\ \A s \in Streams : WF_vars(StreamWorks(s))

-----------------------------------------------------------------------------
(* An edit on the screen that the store does not have lasts only while a     *)
(* request is on its way, or when the load that was to take it back has      *)
(* failed too: otherwise the screen shows a state the store has had.         *)
NoPhantomEdit ==
    requests = {} /\ answers = {} /\ ~loadFailed => shown.rules = shown.snapshot.rules

(* An edit or a deletion that is on its way, however old the screen it was   *)
(* made on, never meets another rule under the identifier of its own: they   *)
(* are not used again until they are counted anew, by Reload and ClearLog    *)
(* (store.go: nextRuleIDValue, resetIDCountersLocked).                       *)
EditHitsItsRule ==
    \A r \in requests : r.kind \in {"update", "delete"} /\ counted <= r.version =>
        \A k \in DOMAIN store.rules : store.rules[k].id = r.id => store.rules[k].who = r.who

(* Every change of the store comes to the screen over the event stream, also *)
(* over one that is opened after the change, unless the newest snapshot found*)
(* the channel full.                                                         *)
LastVersion == 1 + MaxEvents * 2
ChangesArrive ==
    \A v \in 1..LastVersion :
        store.version >= v ~> (latest >= v \/ \E s \in Streams : lost[s])
=============================================================================
