----------------------------- MODULE SimConfig -----------------------------
(***************************************************************************)
(* The configuration half of the simulator's store (internal/store): the   *)
(* working configuration, the baseline it is compared with, the YAML file  *)
(* behind both, the runtime flags shown to the operator, and the counters  *)
(* that issue identifiers.  Every method of the Go Store holds Store.mu    *)
(* from its first line to its last, so every method is one action; a call  *)
(* that returns an error or finds nothing to do changes nothing and is a   *)
(* stuttering step.                                                        *)
(*                                                                         *)
(* Identifiers.  "rule-7" and "action-7" are the number 7; an action that  *)
(* the web client invents carries a UUID, which is a number that is not    *)
(* positive.  Where the code compares identifiers as strings, so does the  *)
(* model (IdRank): "action-10" sorts before "action-9".                    *)
(***************************************************************************)
EXTENDS Integers, Sequences, SequencesExt, FiniteSets

CONSTANTS
  Conns,        \* connection settings: mode, address and port
  Tunings,      \* the other HSMS settings: session id, timers, handshake
  Devices,      \* device sections
  Heads,        \* what a rule says besides its actions: match, conditions, reply
  NewHead,      \* the heading NewRule gives: match S0F0, reply S0F0
  Kinds,        \* action types: "send", the legacy "event" and what a client makes up
  Bodies,       \* the message bodies that are told apart
  Payloads,     \* what an action of the web client does: [delay, kind, body]
  ClientIds,    \* identifiers the web client may give to a new action
  LateIds,      \* those of them that sort after "action-"; the others sort before
  Seed,         \* the built-in configuration, as the contents of a file
  FileBacked,   \* whether the store has a configuration file
  NoFile,       \* there is no file
  Garbled,      \* a file that is not the YAML the program knows
  Unreadable,   \* a file that the program may not read
  Kept,         \* a section that a hand-written file does not mention
  FirstFiles,   \* what may be on disk when the program first starts
  FileEdits,    \* what somebody may write to the file by hand
  Statuses,     \* the HSMS status words that are told apart
  Errors,       \* the runtime errors that are told apart
  MaxRules,     \* bound: rules in the working configuration
  MaxActions,   \* bound: actions of one rule
  MaxRuleID,    \* bound: the largest rule identifier issued
  MaxActionID,  \* bound: the largest action identifier issued
  MaxCopies     \* bound: how often a copy is copied again

NoError == ""

Generated == Nat \ {0}    \* the identifiers the store itself issues

IsSequence(s) == s \in Seq(ToSet(s))
IsConfig(c) == c = [hsms |-> c.hsms, device |-> c.device, rules |-> c.rules]
IsFile(f) == f \in {NoFile, Garbled, Unreadable} \/ f.rules = Kept \/ IsSequence(f.rules)

Settings == [conn : Conns, tuning : Tunings]
Payload == [delay : Int, kind : Kinds, body : Bodies]    \* a delay may be negative
Action == [id : Int, payload : Payload]

\* What the sections of a file hold.
FileTyped(f) ==
  f \notin {NoFile, Garbled, Unreadable} =>
    /\ f.hsms # Kept => f.hsms \in Settings
    /\ f.device # Kept => f.device \in Devices
    /\ f.rules # Kept => \A i \in DOMAIN f.rules : f.rules[i].actions \in Seq(Payload)

ASSUME ConfigAssumption ==
  /\ NewHead \in Heads /\ FileBacked \in BOOLEAN
  /\ ClientIds \subseteq Int \ Generated /\ LateIds \subseteq ClientIds
  /\ NoError \in Errors
  /\ {"send", "event"} \subseteq Kinds /\ Payloads \subseteq Payload
  /\ IsConfig(Seed) /\ IsSequence(Seed.rules)
  /\ Seed \notin {NoFile, Garbled, Unreadable} /\ Kept \notin {Seed.hsms, Seed.device, Seed.rules}
  /\ FileTyped(Seed)
  /\ \A f \in FirstFiles \cup FileEdits : IsFile(f) /\ FileTyped(f)

VARIABLES
  config,           \* Store.config: [hsms, device, rules]
  baseline,         \* Store.baseline, of the same shape
  file,             \* the YAML file
  applied,          \* Store.appliedHSMS, of which only the connection is read
  runtime,          \* config.Runtime: [listening, state, error]
  dirty,            \* config.Runtime.Dirty
  restartRequired,  \* config.Runtime.RestartRequired
  nextRuleID,       \* Store.nextRuleID
  nextActionID,     \* Store.nextActionID
  up                \* whether the process is running

counterVars == <<nextRuleID, nextActionID>>
configVars == <<config, baseline, file, applied, runtime, dirty, restartRequired,
                nextRuleID, nextActionID, up>>
-----------------------------------------------------------------------------
(* Identifiers and the order of actions *)

\* Comparing ranks compares "action-m" with "action-n" character by character, for
\* numbers of at most two digits.
IdRank(n) ==
  IF n \in Generated
    THEN IF n < 10 THEN 11 * n ELSE 11 * (n \div 10) + (n % 10) + 1
    ELSE IF n \in LateIds THEN 1000 - n ELSE n

\* The order of model.SortActions: by delay, then by identifier.
ActionBefore(a, b) ==
  \/ a.payload.delay < b.payload.delay
  \/ a.payload.delay = b.payload.delay /\ IdRank(a.id) < IdRank(b.id)

\* The stable sort of s by the strict order Before.
StableSort(s, Before(_, _)) ==
  LET Place(i) == Cardinality({j \in DOMAIN s : \/ Before(s[j], s[i])
                                                \/ j <= i /\ ~Before(s[i], s[j])})
  IN  [k \in DOMAIN s |-> s[CHOOSE i \in DOMAIN s : Place(i) = k]]

SortActions(actions) == StableSort(actions, ActionBefore)

\* Mutant: one past the number of identifiers.
NextIdentifier_Counts(ids) == 1 + Cardinality(ids \cap Generated)

\* One past the largest generated identifier, or 1.
NextIdentifier(ids) ==
  LET used == ids \cap Generated
  IN  CHOOSE n \in {1} \cup {i + 1 : i \in used} : \A i \in used : i < n

RuleIds(rules) == {rules[i].id : i \in DOMAIN rules}
ActionIds(rules) == UNION {{rules[i].actions[j].id : j \in DOMAIN rules[i].actions} :
                             i \in DOMAIN rules}
-----------------------------------------------------------------------------
(* The file: a configuration without its identifiers *)

RuleContent(r) == [head |-> r.head, copies |-> r.copies,
                   actions |-> [j \in DOMAIN r.actions |-> r.actions[j].payload]]
Content(c) == [c EXCEPT !.rules = [i \in DOMAIN c.rules |-> RuleContent(c.rules[i])]]

Same(c, d) == Content(c) = Content(d)

\* A file with an unknown action type is refused.
Loadable(f) ==
  /\ f \notin {NoFile, Garbled, Unreadable}
  /\ f.rules # Kept =>
       \A i \in DOMAIN f.rules : \A j \in DOMAIN f.rules[i].actions :
         f.rules[i].actions[j].kind \in {"send", "event"}

Section(given, kept) == IF given = Kept THEN kept ELSE given

\* The rules of a file, numbered from 1; the actions are numbered across rules.
Numbered(rules) ==
  LET Before(i) == Cardinality(UNION {{k} \X DOMAIN rules[k].actions : k \in 1 .. i - 1})
  IN  [i \in DOMAIN rules |->
        [id |-> i, head |-> rules[i].head, copies |-> rules[i].copies,
         actions |-> SortActions([j \in DOMAIN rules[i].actions |->
                       [id |-> Before(i) + j,
                        payload |-> [rules[i].actions[j] EXCEPT !.kind = "send"]]])]]

\* Mutant: a missing device section is not filled in.
Load_MissingSection(f, base) ==
  [hsms   |-> Section(f.hsms, base.hsms),
   device |-> f.device,
   rules  |-> Numbered(Section(f.rules, Content(base).rules))]

\* What loading f over base gives.
Load(f, base) ==
  [hsms   |-> Section(f.hsms, base.hsms),
   device |-> Section(f.device, base.device),
   rules  |-> Numbered(Section(f.rules, Content(base).rules))]

SeedConfig == [Seed EXCEPT !.rules = Numbered(Seed.rules)]
-----------------------------------------------------------------------------
(* Flags and counters *)

\* updateRuntimeFlagsLocked, called after the other fields have been assigned.
UpdateRuntimeFlags ==
  /\ dirty' = ~Same(config', baseline')
  /\ restartRequired' = (runtime'.listening /\ config'.hsms.conn # applied')

ResetIDCounters ==
  /\ nextRuleID' = NextIdentifier(RuleIds(config'.rules))
  /\ nextActionID' = NextIdentifier(ActionIds(config'.rules))

\* NewFromFile, then ensureConfigFile: the program starts with the file f, or
\* ends at once when the file is refused.  A file that is there but cannot be read
\* is ignored.
Boots(f, c) ==
  \/ FileBacked /\ Loadable(f) /\ c = Load(f, SeedConfig)
  \/ (FileBacked => f \in {NoFile, Unreadable}) /\ c = SeedConfig

Starting == [listening |-> FALSE, state |-> "NOT CONNECTED", error |-> NoError]

Init ==
  /\ \E f \in FirstFiles :
       /\ Boots(f, config)
       /\ file = IF FileBacked /\ f = NoFile THEN Content(config) ELSE f
  /\ baseline = config
  /\ applied = config.hsms.conn
  /\ runtime = Starting
  /\ dirty = FALSE /\ restartRequired = FALSE
  /\ nextRuleID = NextIdentifier(RuleIds(config.rules))
  /\ nextActionID = NextIdentifier(ActionIds(config.rules))
  /\ up = TRUE
-----------------------------------------------------------------------------
(* Editing the configuration *)

\* An edit ends by refreshing the flags; it issues no identifier unless it says so.
Edited(c) ==
  /\ config' = c
  /\ UNCHANGED <<baseline, file, applied, runtime, up>>
  /\ UpdateRuntimeFlags

UpdateHSMS(hsms) ==
  /\ up
  /\ Edited([config EXCEPT !.hsms = hsms])
  /\ UNCHANGED counterVars

UpdateDevice(device) ==
  /\ up
  /\ Edited([config EXCEPT !.device = device])
  /\ UNCHANGED counterVars

EditRules(rules) == Edited([config EXCEPT !.rules = rules])

HasRoom == Len(config.rules) < MaxRules /\ nextRuleID <= MaxRuleID

NewRule ==
  /\ up /\ HasRoom
  /\ EditRules(Append(config.rules, [id |-> nextRuleID, head |-> NewHead, copies |-> 0,
                                     actions |-> <<>>]))
  /\ nextRuleID' = nextRuleID + 1
  /\ UNCHANGED nextActionID

\* What the rule editor can send for a rule with these actions: one dropped, one
\* added under a new identifier, one changed, or none touched.
Fewer(actions) == {RemoveAt(actions, j) : j \in DOMAIN actions}

Changed(actions) ==
  UNION {{[actions EXCEPT ![j].payload = p] : p \in Payloads} : j \in DOMAIN actions}

More(actions) ==
  UNION {{Append(actions, [id |-> c, payload |-> p]) : p \in Payloads} :
           c \in ClientIds \ ActionIds(config.rules)}

ActionEdits(actions) ==
  {actions} \cup Fewer(actions) \cup Changed(actions)
  \cup (IF Len(actions) < MaxActions THEN More(actions) ELSE {})

\* The legacy type "event" becomes "send"; any other type is stored as it is.
EventToSend(action) ==
  IF action.payload.kind = "event" THEN [action EXCEPT !.payload.kind = "send"] ELSE action

UpdateRule(i, head, actions) ==
  /\ up
  /\ EditRules([config.rules EXCEPT ![i] =
       [id |-> @.id, head |-> head, copies |-> IF head = @.head THEN @.copies ELSE 0,
        actions |-> SortActions([j \in DOMAIN actions |-> EventToSend(actions[j])])]])
  /\ UNCHANGED counterVars

\* The copy follows its original; it and its actions get fresh identifiers.
DuplicateRule(i) ==
  LET rule == config.rules[i]
      copy == [id |-> nextRuleID, head |-> rule.head, copies |-> rule.copies + 1,
               actions |-> [j \in DOMAIN rule.actions |->
                             [rule.actions[j] EXCEPT !.id = nextActionID + j - 1]]]
  IN  /\ up /\ HasRoom /\ rule.copies < MaxCopies
      /\ nextActionID + Len(rule.actions) - 1 <= MaxActionID
      /\ EditRules(InsertAt(config.rules, i + 1, copy))
      /\ nextRuleID' = nextRuleID + 1
      /\ nextActionID' = nextActionID + Len(rule.actions)

DeleteRule(i) ==
  /\ up
  /\ EditRules(RemoveAt(config.rules, i))
  /\ UNCHANGED counterVars

MoveRule(i, direction) ==
  LET target == IF direction = "up" THEN i - 1 ELSE i + 1
  IN  /\ up /\ target \in DOMAIN config.rules
      /\ EditRules([config.rules EXCEPT ![i] = config.rules[target],
                                        ![target] = config.rules[i]])
      /\ UNCHANGED counterVars
-----------------------------------------------------------------------------
(* Saving, reloading, restarting *)

\* Mutant: the baseline moves although the file could not be written.
Save_IgnoresFailure ==
  /\ up
  /\ \E written \in BOOLEAN : file' = IF FileBacked /\ written THEN Content(config) ELSE file
  /\ baseline' = config
  /\ UNCHANGED <<config, applied, runtime, up>> /\ UNCHANGED counterVars
  /\ UpdateRuntimeFlags

\* The file is written beside the old one and renamed over it: a save that fails
\* or is cut short leaves the old file, and changes nothing.
Save ==
  /\ up
  /\ file' = IF FileBacked THEN Content(config) ELSE file
  /\ baseline' = config
  /\ UNCHANGED <<config, applied, runtime, up>> /\ UNCHANGED counterVars
  /\ UpdateRuntimeFlags

\* Reload keeps the runtime state and drops the identifiers: rules and actions
\* are numbered afresh.  A file that is refused changes nothing.
Reload ==
  /\ up
  /\ FileBacked => Loadable(file)
  /\ config' = IF FileBacked THEN Load(file, baseline) ELSE baseline
  /\ baseline' = config'
  /\ UNCHANGED <<file, applied, runtime, up>>
  /\ UpdateRuntimeFlags
  /\ ResetIDCounters

ClearLog ==
  /\ up
  /\ UNCHANGED <<config, baseline, file, applied, runtime, dirty, restartRequired, up>>
  /\ ResetIDCounters

\* The process dies at any moment and is started again with the file as it is.
Restart ==
  \E c \in {SeedConfig} \cup (IF Loadable(file) THEN {Load(file, SeedConfig)} ELSE {}) :
    /\ Boots(file, c)
    /\ config' = c /\ baseline' = c /\ applied' = c.hsms.conn
    /\ file' = IF FileBacked /\ file = NoFile THEN Content(c) ELSE file
    /\ runtime' = Starting /\ up' = TRUE
    /\ UpdateRuntimeFlags
    /\ ResetIDCounters

RefusesToStart ==
  /\ up /\ FileBacked /\ file \notin {NoFile, Unreadable} /\ ~Loadable(file)
  /\ up' = FALSE
  /\ UNCHANGED <<config, baseline, file, applied, runtime, dirty, restartRequired>>
  /\ UNCHANGED counterVars

EditFile(f) ==
  /\ FileBacked
  /\ file' = f
  /\ UNCHANGED <<config, baseline, applied, runtime, dirty, restartRequired, up>>
  /\ UNCHANGED counterVars
-----------------------------------------------------------------------------
(* The runtime state *)

\* setRuntimeLocked: stopping or recovering clears the last error.
SetRuntime(listening, state) ==
  /\ up
  /\ runtime' = [listening |-> listening, state |-> state,
                 error |-> IF ~listening \/ state \in {"LISTENING", "SELECTED"}
                           THEN NoError ELSE runtime.error]
  /\ UNCHANGED <<config, baseline, file, applied, up>> /\ UNCHANGED counterVars
  /\ UpdateRuntimeFlags

ToggleRuntime == SetRuntime(~runtime.listening, "NOT CONNECTED")

SetRuntimeError(e) ==
  /\ up
  /\ runtime' = [runtime EXCEPT !.error = e]
  /\ UNCHANGED <<config, baseline, file, applied, dirty, restartRequired, up>>
  /\ UNCHANGED counterVars

SetHSMSState(state) ==
  /\ up
  /\ runtime' = [runtime EXCEPT !.state = state]
  /\ UNCHANGED <<config, baseline, file, applied, dirty, restartRequired, up>>
  /\ UNCHANGED counterVars

\* Mutant: the flags are not refreshed.
RecordAppliedHSMS_StaleFlags(conn) ==
  /\ up
  /\ applied' = conn
  /\ UNCHANGED <<config, baseline, file, runtime, dirty, restartRequired, up>>
  /\ UNCHANGED counterVars

RecordAppliedHSMS(conn) ==
  /\ up
  /\ applied' = conn
  /\ UNCHANGED <<config, baseline, file, runtime, up>> /\ UNCHANGED counterVars
  /\ UpdateRuntimeFlags
-----------------------------------------------------------------------------
EditNext ==
  \/ \E c \in Conns, t \in Tunings : UpdateHSMS([conn |-> c, tuning |-> t])
  \/ \E d \in Devices : UpdateDevice(d)
  \/ NewRule
  \/ \E i \in DOMAIN config.rules :
       \/ \E head \in Heads \cup {config.rules[i].head},
             actions \in ActionEdits(config.rules[i].actions) :
            UpdateRule(i, head, actions)
       \/ DuplicateRule(i)
       \/ DeleteRule(i)
       \/ \E direction \in {"up", "down"} : MoveRule(i, direction)

FileNext ==
  \/ Save
  \/ Reload
  \/ Restart
  \/ RefusesToStart
  \/ \E f \in FileEdits : EditFile(f)

RuntimeNext ==
  \/ \E listening \in BOOLEAN, state \in Statuses : SetRuntime(listening, state)
  \/ ToggleRuntime
  \/ \E e \in Errors : SetRuntimeError(e)
  \/ \E state \in Statuses : SetHSMSState(state)
  \/ \E c \in Conns : RecordAppliedHSMS(c)

Next == EditNext \/ FileNext \/ RuntimeNext \/ ClearLog

Spec == Init /\ [][Next]_configVars
-----------------------------------------------------------------------------
(* Properties *)

\* Every variable keeps its shape, whatever file was loaded: the settings are those
\* an operator can enter, and a counter never falls to the 0 that no identifier has.
TypeOK ==
  /\ runtime.listening \in BOOLEAN /\ runtime.state \in Statuses \cup {"NOT CONNECTED"}
  /\ runtime.error \in Errors
  /\ applied \in Conns /\ dirty \in BOOLEAN /\ restartRequired \in BOOLEAN /\ up \in BOOLEAN
  /\ config.hsms \in [conn : Conns, tuning : Tunings] /\ config.device \in Devices
  /\ nextRuleID \in Nat \ {0} /\ nextActionID \in Nat \ {0}

\* The flags are never stale: after every call, Dirty says whether the working
\* configuration differs from the baseline, and RestartRequired whether a running
\* simulator's connection settings differ from those its transport was started
\* with.  Both are cached, and every method must remember to refresh them.
FlagsExact ==
  /\ dirty <=> ~Same(config, baseline)
  /\ restartRequired <=> runtime.listening /\ config.hsms.conn # applied

\* No two rules share an identifier, whatever was deleted, duplicated, reloaded
\* or cleared: the API addresses a rule by its identifier alone, and finds the
\* first one.
RuleIdsDistinct ==
  \A i, j \in DOMAIN config.rules : i # j => config.rules[i].id # config.rules[j].id

\* As long as nobody edits the file by hand, a configuration shown as clean is what
\* a restart of the program starts with: saving loses nothing, and loading what was
\* saved, or what was there before the first Save, changes nothing.
CleanMatchesFile ==
  FileBacked /\ up /\ ~dirty /\ file \notin FileEdits =>
    \/ Loadable(file) /\ Same(config, Load(file, SeedConfig))
    \/ file = Unreadable /\ Same(config, SeedConfig)
=============================================================================
