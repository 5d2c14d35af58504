# SECSIM: a verification project

SECSIM (`src/design/backend`, Go, with a React operator interface in
`src/design/frontend`) simulates a stocker that speaks SECS-II over HSMS.  This
directory holds TLA+ models of the backend and of the interface's copy of its
state, the TLC configurations that check them, and theorems about them checked
by TLAPS.  `PROJECT.json` lists the
components, the runs, the lines of code each definition stands for, the
hazards the properties are aimed at and the findings.

## 1. The system: components, state, operations

| Component | Code | State it keeps | Operations |
|---|---|---|---|
| HSMS transport | `hsms/session.go` | `Manager`: `started`, `listener`, `current`, `shutdownOnce`, `loopWG`; per session: connection, `done`, `writeCh` (16 frames), `selected`, one selection timer | `Start`, `Shutdown`, `Send`; accept or dial loop; one reader and one writer goroutine per session; T5, T6, T7, T8 |
| Frame and item codecs | `hsms/frame.go`, `items.go`, `message.go`, `sml_parser.go` | none | encode, decode, parse |
| Controller | `sim/controller.go` | `cancel`, `transport`, host-bootstrap position, under `mu` | `Start`, `Stop`, `Toggle`, `Inject`, the 25 ms scheduler loop, the transport callbacks |
| Host bootstrap | `sim/host_startup_profiles.go`, `controller.go` | position in the start-up script | begin at SELECTED, advance on each answer |
| Store: configuration | `store/store.go`, `config.go` | `config`, `baseline`, `appliedHSMS`, the `Dirty` and `RestartRequired` flags, the YAML file | rule editing, HSMS and device updates, `Save`, `Reload` |
| Store: runtime | `store/runtime.go`, `protocol.go`, `event_messages.go` | `messages`, `pending`, id counters | `ProcessInbound`, `RunScheduled`, `AppendProtocolMessage`, `ClearLog` |
| Subscriptions | `store/subscription.go`, `api/events.go` | one channel of 16 snapshots per subscriber | `Subscribe`, publish (drops when full), cancel |
| HTTP API | `api/handlers.go` | none of its own | one handler per store or controller operation |
| Operator interface | `frontend/src` | a copy of the last snapshot | optimistic edits, server-sent events |
| Probe and server commands | `cmd/` | none | wiring, a command-line probe |

### How they interact

The HTTP handlers call the store and the controller, each request on a
goroutine of its own.  `Controller.Start` makes a `Manager` with three
callbacks: `OnData` (`handleDataMessage`, which calls the store and returns the
answers), `OnStateChange` (`updateRuntimeState`, which writes the status into
the store) and `OnError`.  The scheduler loop asks the store for due actions
and sends them through whatever transport is current.  Every store operation
runs under one mutex and publishes a snapshot to the subscribers, which the
events endpoint relays to the browser.

### What is hard

* Five kinds of goroutines share a session without one lock: the reader, the
  writer, the selection timer, the shutdown, and callers of `Send`.
* The published status is written by whoever changed something last; the
  order of the writes is not the order of the changes.
* `Start` and `Stop` of the controller run outside its mutex for most of
  their length, and HTTP requests may run them at the same time.
* The store is atomic, its callers are not: they read a snapshot, act on it,
  and act again on what was returned.
* Ids are counted, and the counters are reset by `ClearLog` and `Reload`.
* Actions that fail stay in the queue and are tried, and logged, again.
* Snapshots are dropped when a subscriber is slow, and the browser shows
  whichever came last, from the stream or from an answer, with no version.
* The reader, the scheduler and the start-up script number their messages from
  one counter and log them at different moments from sending them.
* The network cuts frames anywhere and T8 runs only inside one.
* Four notations of the same item are read: wire, compact text, equipment log,
  and the expressions of old configuration files.

### What makes each component correct

* Transport: one live session; a truthful status; no data of its own before
  the select; shutdown that completes; no connection that stays half open.
* Controller: one transport at a time; a stopped simulator is stopped; the
  status belongs to the run that is current; every call returns.
* Bootstrap: each step is sent once, in order, and a stop leaves none behind.
* Store: unique ids; `Dirty` and `RestartRequired` mean what they say; a
  scheduled action is logged once, in order, or discarded; a configuration
  shown as clean is what a restart loads.
* Data path: nothing is sent that is not logged as sent, a message is answered
  once, requests in flight have system bytes of their own, the script finishes.
* Codecs: what arrives is what was sent, and a rule sends what it was made to.
* Subscriptions: in order, no snapshot twice, and every change arrives unless
  the channel was full at the end.
* Interface: an edit that failed is taken back; an edit never hits another rule.

## 2. The modules

### HsmsTransport, HsmsSS: the transport

`HsmsTransport` has one program counter per goroutine: `start` (the caller of
`Manager.Start`), `stop` (`shutdown`, run once by the watcher of the context or
by `Shutdown`), `loop` (`acceptLoop` or `activeLoop`, by the constant
`Active`), and per session `reader`, `writer`, `timer`, and `sender` for callers
of `Send` from elsewhere.  A step ends where the code takes or releases
`Manager.mu`, uses a channel, or touches the connection: between the check of
`current` and the installation another goroutine may run; inside
`installCurrentSession` none can.  A frame is handled by a list of effects
(`ControlSteps`: send, mark, publish, close, fail) performed one at a time in
the order of the code, because the order is what the properties are about.
The peer is free: it sends any frame of `PeerFrame`, stalls, or breaks the
connection.  `session.send` is a `select`: when the session is closed and there
is room, either case may be taken.  A session is a heap object: `Collect` makes
a dead one usable again, so one or two sessions stand for any number of
connections.

`HsmsSS` is what the user of a transport is promised: a link that is not
connected, connected or selected, of which there is one, and that never comes
up again once it is retired.  `ImplementsHsmsSS` maps the transport's current
session to that link.

### SimConfig: the configuration half of the store

`config`, `baseline`, `applied` (the connection part of `appliedHSMS`), the
cached `dirty` and `restartRequired`, the counters, and `file`, the YAML file as
its sections.  Each method of `Store` is one action, as each holds `Store.mu`
throughout; `UpdateRuntimeFlags` is a part of the actions whose methods call
`updateRuntimeFlagsLocked`, and of no other.  HSMS settings are split in what a
restart needs to apply (`conn`: mode, address, port) and the rest (`tuning`).
A rule is its identifier, its head (pattern, conditions, reply, as one value),
how often " Copy" was appended to its name, and its actions.  Identifiers are
numbers; that the code compares them as strings is modelled by `IdRank`, since
"action-10" sorts before "action-2"; the ranks are those of the strings for up to
two digits, and nothing that is proved depends on them.  The file may be absent, refused
(`Garbled`), unreadable, or leave sections out (`Kept`); `EditFile` is an
operator with a text editor and `Restart` a crash or a restart at any moment.
`Save` writes beside the file and renames, so a failed or interrupted save is
no step at all.

### SimRuntime: the runtime half of the store

Extends `SimConfig`: matching in rule order, the log, the queue of scheduled
actions sorted by due time and identifier, and `RunScheduled`.  The actions of
`SimConfig` happen in between with what they do to the log and the queue.
Callers read the clock before they ask for the lock, so that the time they pass
may be `Lag` behind.  `tickets`, `emitted` and `dropped` are history: which
action was scheduled, logged and discarded.

### Lifecycle: the controller

Threads are the HTTP requests in flight (`Callers`), and for every transport a
loop, the readers on their way out (`Leaver`), a closer (its `shutdown`) and a
scheduler.  A section under `Controller.mu` is one step and a store operation is
another: `updateRuntimeState` is `CallbackReads` and `CallbackSets`, and a Stop
may come between.  The transport is abstract here.  `Loop(t)` connects, reads
frames and handles them: in active mode the dial loop and the reader are one
goroutine in the code as well, and in passive mode the accept loop has nothing to
do beside a current session but turn connections away.  When the session ends
(`SessionEnds`) it is no longer current; an active loop then publishes the end
itself, while a passive reader becomes a thread of its own that publishes it
whenever it comes to it (`Leaves`), beside an accept loop that may have installed
and announced the next connection meanwhile, as in `session.go:217`-`230`.
`Exits` says how many readers may be on their way out at once, `Settings` which
kinds of settings the operator chooses from.
The start-up script is a number of steps of which some send nothing; the peer's
data message answers the current step or does not.  A transport that has ended
is recycled, so two stand for any number of runs.

### SecsItem, HsmsFrame, ItemCodec, SmlText, LegacyEvents: the codecs

Pure operators on bytes and tokens.  `SecsItem` has the items and messages,
`HsmsFrame` frames to bytes and back, `ItemCodec` items to bytes and back (with
the headers of one to three length bytes, and everything that can be wrong with
a body), `SmlText` the compact text the simulator writes, both texts it reads and
what the scheduler builds of an action whose body is a text (`Build`),
`LegacyEvents` the actions of the YAML file, with what stands in for a part that
is missing, and the expressions old files write events with.  A text is a
sequence of tokens: how characters make tokens is left out, except where digits,
labels, quotes or commas decide the value.  Eight-byte and floating numbers do
not exist in the code.

`EncodeItem` and `DecodeItem` are recursive in the code and are recursive functions
here, so that they can be proved about: `encode` over the depth of an item
(`MaxDepth`, a parameter), `decodeItems` over the items that may still begin, which
are never more than there are bytes.  `DecodeIsTheLoop` proves that the second bound
never shows.  The writers of texts (`compact`, `equipment`) and `ParseSMLItem` are
functions of the same kind: `ParseItems` is bounded by the tokens of the text, of which
every item takes one.  Only the parser of old event expressions (`LegacyEvents`) and
what writes them in `WirePath` are `RECURSIVE` operators, which TLC alone evaluates.

### FrameStream: frames on their way

The peer writes frames, the network delivers any prefix of what is left, the
reader (`ReadFrameWithInterByteTimeout`) reads what is there, up to what it
misses, and sets a deadline before each read but the first.  The session decodes
what is complete and logs it; a body that cannot be decoded costs its own
message.  What decodes a message is a parameter (`MessageOf`), so that the reader is
proved right for every codec; the run gives it `DecodeMessage`, and
`EncodedMessagesArrive` is the theorem for it.

### WirePath: texts on their way

Extends `FrameStream`, `ItemCodec` and `LegacyEvents`.  An operator may make an
action of the newest message, once, in any of the notations, and `Build` sends it.

### HostProfiles and DataPath: data messages

`HostProfiles` has both start-up scripts: the message of every step and the body
it waits for.  `DataPath` is a selected link with the reader, the scheduler, the
operator and the peer.  `handleDataMessage` is six steps (`Receive`,
`ProcessInbound`, `AnswersItself`, `AdvanceScript`, `NumberStep`,
`SendResponse`), cut where it takes another lock, since an edit, a stop or the
scheduler may come between any two.  Log and wire meet in `ledger`, which keeps of
every message how often the log shows it as sent less how often it is sent.  The
peer numbers its primaries and its events apart (`primaries`, `events`), so that
no two messages of its own share their system bytes.  A message's
text and its matching conditions are `SimRuntime`'s subject, selection that of
`HsmsTransport`; here rules match by stream and function.

### Subscriptions and OperatorScreen: the interface

`Subscriptions` is the abstract store, which only counts its changes, with one
bounded channel and one handler per event stream.  `OperatorScreen` extends it
with the operations on rules, the requests of the browser, which are handled and
answered in any order and may fail before or after they are handled, the edits
shown before they are stored, and the stream that breaks and is opened again.
`who` is history: the identity of a rule behind an identifier that may be used
again.  Every operation of its store is a step of `Subscriptions`, so that what
is proved of the streams is used in the proofs about the screen.

## 3. What is checked

| Run | Question | Result |
|---|---|---|
| `Transport_passive_sessions` | two connections at once, with selects, deselects, breaks, T7 and a shutdown: `OneLiveSession`, `Ownership`, `StatusLagsAsListening`, `ImplementsHsmsSS` | holds, 1.6 million states |
| `Transport_passive` | one connection after another, four kinds of frames, a sender beside the reader, a queue of one that fills: `TypeOK`, `DataFollowsSelect`, `ShutdownCompletes`, `NewSessionResolves`, `DeadSessionCleared` | holds, 208 000 states |
| `Transport_active` | active mode with reconnects, T5, T6, and a Stop that overtakes Start: `StatusTruthful`, `ShutdownCompletes`, `NewSessionResolves` | holds, 70 000 states |
| `Codec` | every type of item, nested lists, bodies no item has, control frames and impossible lengths, cut anywhere, T8 at any moment, and actions made of what arrived: `MessagesArrive`, `EchoIsFaithful`, `TimeoutOnlyInsideFrame`, `StalledFrameEnds` | holds, 251 000 states |
| `DataPath` | both scripts against equipment, with one message of the peer's own and one edit, wrong answer, broken link or stop at any step: `SentAsLogged`, `OneAnswer`, `OutstandingDistinct`, `ScriptFinishes` | holds, 619 000 states |
| `Screen` | the browser, its requests in any order, a stream that breaks: `StreamInOrder`, `NoPhantomEdit`, `EditHitsItsRule`, `ChangesArrive` | holds, 283 000 states |
| `Config` | every operation on the configuration, the file and the runtime state: `FlagsExact`, `RuleIdsDistinct`, `CleanMatchesFile`, `TypeOK` | holds, 1.0 million states |
| `Config_reload_reorders` | `CleanMatchesFile` with ten actions of equal delay | violated: see 5.1 |
| `Runtime` | the log and the queue through matches, ticks, stops, reloads, cleared logs and crashes: `MessageIdsDistinct`, `EmittedOnce`, `NoneLost`, `DiscardedIsGone`, `EmittedInOrder`, `QueueDrains` | holds, 84 000 states |
| `Runtime_poisoned` | `EmittedOnce` with an action that cannot be built | violated: see 5.2 |
| `Lifecycle` | one request at a time against everything else: `StoppedIsStopped`, `RunningIsShown`, `NoOverlap`, `BootstrapInOrder`, `CallsReturn`, `TypeOK` | holds, 358 000 states |
| `Lifecycle_overlap` | `NoOverlap` with two requests at a time | violated: see 5.3 |

Every property of a passing run has a mutant in its module, a definition named
after the one it replaces and the bug it has (`CanInstall_Unchecked`,
`Save_IgnoresFailure`, `Reserved_Peeked`), with which TLC finds it violated.

### Bounds, and why they are enough

* Sessions: two in passive mode, where an old and a new one overlap; one in
  active mode, where the next connection is dialed only after the last session
  is gone.  `Collect` makes the number of connections unbounded.  With two
  sessions the frames are limited to select and deselect; with one there are
  data and unsupported frames too, and in active mode the select's answers and
  a separate.  The frames left out end a session as a separate does or are
  answered as a select is, and neither depends on the other session.
* Queue capacity one in place of 16: what matters is whether it is full.
* One reply to a data message, one sender: a second adds no new order, since the
  queue is the only thing they share.
* `Codec`: two messages, because a frame read wrongly shows in the next one; a
  second message of two kinds, because the first has all kinds.  Every type is
  there with its extreme values, among the texts one of digits that no four-byte
  number holds, lists three deep, and the lengths at which the
  header grows in an assumption on longer texts.  `MaxDepth` is seven, above every
  list the instance writes.
* `DataPath`: both scripts to their end, one primary of the peer (a handshake or
  a command with a rule), one trouble, two links.  The counter wraps at 64 and
  stands three before it, so that it wraps while the script runs and no number
  comes round within a script, as with 2^32.
* `Screen`: two rules, two events (requests or changes by others) with all the
  orders of their handling, answers and failures, a channel of one in place of
  16, and a stream that breaks once.
* Two rules, one or two identifiers beyond the seed: an identifier is reused,
  if at all, after one deletion or one reload.  `MaxRuleID` and `MaxActionID`
  bound what is issued, `MaxCopies` the names that grow with every copy.
  `Config_reload_reorders` has ten actions because two digits are the point.
* Two scheduled actions, two messages, a clock of three: two matches whose
  actions interleave, and a late one.  `MaxMessageID` bounds the identifiers a
  failing tick wastes.
* Two transports, since one is recycled while the scheduler of the other is
  still leaving; a script of three steps, the second silent as in the conveyor
  profile.  One passive reader may be on its way out beside the next session
  (`Exits`), which ends when that reader is gone: a second one publishes the same
  LISTENING.  The settings are passive and active with a script: a link without a
  script is there too, as the operator may change the settings while it runs.  The
  proofs about `Lifecycle` are for any number of readers and all the settings.

### Fairness

The Go scheduler runs every goroutine that can run, and timers expire: weak
fairness of each goroutine's own steps, of the selection timers, of the read
deadline, of the scheduler's tick while the simulator runs and of the clock; of
the reader and the scheduler in `DataPath`; of every caller of `Lifecycle` with its callbacks, of
each loop, each reader on its way out, each closer and each scheduler; of the handler of an event stream
and of the controller between two of its calls in `OperatorScreen`.  A browser
opens a broken event stream again by itself (`EventSource`) and handles the
events that come.  Nothing is assumed of the operator or the network: no frame
need arrive, no write complete, no connection be made, no request begin or be
answered.  Of the peer only `ScriptFinishes` assumes anything: that a peer which
is owed an answer gives one in the end.  The code has no reply timeout, so that
without it the script may wait for ever.

`CHECK_DEADLOCK FALSE` stands where the system may come to rest: a transport
that has been shut down, a stopped simulator, a peer with nothing more to say,
an operator who does nothing.

## 4. What is proved

| Theorem | Statement |
|---|---|
| `TypeCorrect` | `Spec => []TypeOK`: the types, and no write queue above its capacity |
| `OwnershipInvariant` | `Spec => []Ownership` |
| `SingleSession` | `Spec => []OneLiveSession` |
| `TransportImplementsLink` | `Spec => ImplementsHsmsSS` |
| `ActiveStatusTruthful` | `Spec => [](Active => StatusTruthful)` |
| `StatusLags` | `Spec => []StatusLagsAsListening`, in either mode |
| `SelectComesFirst` | `Watched => (Spec => []DataFollowsSelect)` |
| `LifecycleTypes` | `Spec => []TypeOK`, of `Lifecycle` |
| `StopStops` | `Spec /\ []OneAtATime => []StoppedIsStopped` |
| `RunIsShown` | `Spec /\ []OneAtATime => []RunningIsShown` |
| `OneTransportLives` | `Spec /\ []OneAtATime => []NoOverlap` |
| `ScriptInOrder` | `Spec /\ []OneAtATime => []BootstrapInOrder` |
| `FlagsAlwaysExact` | `Spec => []FlagsExact` |
| `RuleIdsAlwaysDistinct` | `Spec => []RuleIdsDistinct` |
| `ConfigTypes` | `Spec => []TypeOK`, of `SimConfig` |
| `StoreImplementsConfig` | `StoreSpec => Spec`: the whole store implements its configuration half |
| `MessageIdsAlwaysDistinct` | `StoreSpec => []MessageIdsDistinct` |
| `NoneEverLost` | `StoreSpec => []NoneLost` |
| `AlwaysEmittedInOrder` | `StoreSpec => EmittedInOrder`, an action property |
| `OnceIfBuildable` | `StoreSpec /\ []AllBuildable => []EmittedOnce` |
| `GoneIfBuildable` | `StoreSpec /\ []AllBuildable => []DiscardedIsGone` |
| `BuildableByType` | when every body can be built and only the editor's action types exist, `StoreSpec => []AllBuildable` |
| `StreamsAreInOrder` | `StreamSpec => []StreamInOrder`, of `Subscriptions` by itself |
| `ScreenStreamsAreInOrder` | `Spec => []StreamInOrder`, of `OperatorScreen` |
| `NoPhantomEditStays` | `Spec => []NoPhantomEdit` |
| `EditsHitTheirRules` | `Spec => []EditHitsItsRule` |
| `LogIsKept` | `Spec => []SentAsLogged`, of `DataPath` |
| `RequestsDistinct` | `Spec /\ [][FreshNumber]_vars => []OutstandingDistinct` |
| `DistinctUntilItWraps` | `Spec /\ [][Grows]_vars => []OutstandingDistinct` |
| `AnsweredOnce` | `Spec /\ [][Grows]_vars => []OneAnswer` |
| `CleanIsWhatRestartLoads` | `MarksApart => (Spec /\ []ConfigSurvives => []CleanMatchesFile)` |
| `CleanUnlessAcrossTen` | `MarksApart => (Spec /\ []KindsKnown /\ []NoneAcrossTen => []CleanMatchesFile)` |
| `FrameRoundTrip` | a frame encoded and decoded is the frame, and its length field is its length |
| `BytesInOrder` | `StreamSpec => []StreamInv`, of `FrameStream`: what is read and what is not is what was written |
| `SilenceBetweenFrames` | `StreamSpec => []TimeoutOnlyInsideFrame` |
| `MessagesAllArrive` | `FaithfulCodec => (StreamSpec => []MessagesArrive)` |
| `ItemRoundTrip` | `DecodeItem(EncodeItem(item) \o tail)` is the item and the length of its bytes, for every item |
| `MessageRoundTrip` | a message is decoded from the bytes of its frame as it was |
| `EncodedMessagesArrive` | `PeerEncodes /\ SessionDecodes => (StreamSpec => []MessagesArrive)` |
| `DecodeStaysInside` | what `DecodeItem` takes is at least two bytes and no more than there are, for any bytes |
| `DecodeIsTheLoop` | `DecodeItem` satisfies the equations of the code's recursion, for any bytes |
| `TextRoundTrip` | `ParseSMLItem(Compact(item))` is the item, for every item |
| `EquipmentLogIsRead` | `PlainText(EquipmentLog(item)) =>` the item is what `ParseSMLItem` reads of its equipment log, with a final period or without |
| `CopyIsSent` | `CopiedFrom(action, m) =>` `Build` makes of the action a frame from whose bytes `m` is read |

They hold for every value of the constants that the assumptions
(`TransportAssumption`, `LifecycleAssumption`, `ConfigAssumption`,
`RuntimeAssumption`, `DataPathAssumption`, `SubscriptionsAssumption`,
`StreamsAssumption`, `ContentsAssumption`, `OutgoingAssumption`, `DepthAssumption`)
allow: any number of sessions and senders, any capacity,
either mode; any number of requests and transports and any script; any settings,
rules, actions, files and inbound messages; any rules, settings and messages of the
peer, any number of links and any width of the system bytes; any number of
streams and requests, and any room in the channels; any frames, cut anywhere, and
items of any depth.  `RuntimeAssumption` says that the demonstration
log has distinct identifiers of the store's own kind (`mock.go:107`-`205`).

Some hypotheses are not assumptions on constants, and each is there because the
code gives no more:

* `OneAtATime`: one request (Start, Stop, Toggle or Inject) is handled at a
  time.  Two at once break `NoOverlap` (5.3).
* `AllBuildable`: every waiting action can be turned into a message.  One that
  cannot breaks `EmittedOnce` (5.2), and with it `DiscardedIsGone`, as what was
  logged stays in the queue and may be discarded.  `BuildableByType` says when
  it holds.
* `FreshNumber`: when the counter of the system bytes moves, it does not come to
  a number that an unanswered request, or one the reader has in hand, still
  bears.  The code never looks (`nextSystemByte`, session.go:394), and after
  2^32 numbers it could come round to one.
* `Grows`: the counter has not wrapped.  `AnsweredOnce` needs it, because after a
  wrap a number of a finished exchange is used again on the same link and its
  second answer would be counted with the first.  `Grows` implies `FreshNumber`
  (`GrowsFresh`).
* `Watched`: the history `wire` keeps the select messages.  It is a constant's
  value, needed because the history of the runs is cut down to what they need.
* `ConfigSurvives`: every action has a type the loader knows, and the numbers it
  gives the actions of a rule are in order as strings.  The first fails when
  `UpdateRule` takes an unknown type, which nothing but the interface prevents
  (`store.go:253`): the file it is saved to is refused at the next start.  The
  second is finding 5.1, and for up to 99 actions it is `NoneAcrossTen`: no rule
  holds both the ninth and the tenth action of the configuration.
* `MarksApart`: the values that stand for a missing section and for the special
  files are no settings and no configurations.
* `FaithfulCodec`: what the session makes of each frame is what the peer meant.
  `PeerEncodes` and `SessionDecodes` imply it for the simulator's own codec: the
  peer encodes its messages as the simulator does, whatever it writes beside them
  is no message, and the session decodes with `DecodeMessage`.  The run also has a
  peer with longer headers than it needs.

*Transport.*  `OneLiveSession` is not inductive: nothing in it says where a
session that is being served comes from.  `Ownership` does: an open connection
that is served, or about to be, is `current` or the one shutdown took; a
connection in the loop's hands has no reader yet; once shutdown has taken, there
is no current session and none can be installed, because the context is done.
`current` is one value, and `took` is set in the step that clears `current`, so
two served sessions are impossible.  The refinement adds `LinkInv` (a session is
unselected until its reader runs): installing is `Connect`, marking is `Select`
or `Deselect`, closing the current session is `Drop`, shutdown's take is
`Retire`, and everything else leaves the link alone.

*Status.*  Three invariants prepare it.  `FreshInv`: a session that nobody
serves has nothing queued, in hand or to do, and a sender only sends on a session
that has been served.  `ViewInv`: until the context is done, `current` is exactly
the session that is installed.  `PromiseInv`: in the list of effects of a handler,
whoever sets the selected flag publishes that value next, and nothing else is
published.  Then `StatusInv` says that what is published is the resting state, or
the state of the current session, or about to become it, or the exit of a session
is still to come; in quiet states that is `StatusLagsAsListening`.  In active mode
one goroutine dials and serves, so that what is published is known at each of its
places (`ActiveInv`), and the resting state cannot be left over.

*Select before data.*  A frame is on the wire, in the writer's hand or in the
queue.  `Under` says that a select message is in one of the three, `Before` that
no data is further along than it, and `Leads` that everyone who may add data (a
handler, a sender) does so when the select is `Under`.  `selected` is set after
the Select.rsp is queued: swapping those two effects of the handler breaks
`Leads`.

*Controller.*  The invariant is stated of a caller `c` whose call is the only one
in progress (`Inv(c)`), and holds of every such caller (`AllInv`); when none is in
progress it holds of all, and whoever begins the next call takes it over
(`Alike`).  Its centre is the transport that is `Held`: the one on record, or the
one a Stop has taken off the record and waits for.  Every other transport is
`Free`: no loop, no socket, no session, so that overlap is impossible; of the held
one `Used` says how far it has come for the place of the call.  `StopInv` and
`ShowInv` say what the operator is shown at each place, including what a callback
has in hand (`says`, `saw`), since `updateRuntimeState` writes what it read
earlier.  `ExitInv` is about the readers on their way out: they belong to a passive
transport that is held and has been started, so that a Stop waits for them, they
publish nothing but LISTENING, and what they read before they write is that the
simulator runs.  Hence `Status`: at every place of the loop where nothing is about to
be published, the state shown is the link's, or in passive mode a LISTENING that
came late or is still to come.  `BootInv` says how much of the script is sent at each place of the loop.

*Flags.*  `FlagsExact` with the shape of `runtime`.  An operation either
refreshes the flags in its last conjunct, or leaves alone everything they depend
on; the proof says for each which of the two it is.

*Identifiers.*  `RuleIdsDistinct` is not inductive: that a new rule is distinct
needs the counter to be above every identifier in use, now and after a Reload
goes back to the baseline.  `IdsInv` is that (`Issued` of the rules and of the
baseline's rules) with the shapes of configuration and file.  The lemmas are
about sequences (appending, inserting, removing, swapping keep the identifiers
distinct and issued) and about `NextIdentifier` (it is above every identifier
of a finite set).

*Types of the configuration.*  Every way to a configuration is followed: the
seed, the file as a hand edit leaves it (`FileTyped`, kept sections), `Load`, the
editor, and the sorting of actions.  A delay is an integer, as the interface lets
through negative ones.  That a sorted sequence has the elements of the original
rests on `Place` being a bijection on the indices, proved from finite
cardinalities, with no induction.

*Queue and log.*  `StoreImplementsConfig` comes first: a step of the runtime half
is a step of `SimConfig` or leaves it alone, so that the identifiers and types
above hold in the whole store.  `LogInv`: the counter is above every identifier
of the log, after ClearLog and Reload too.  `QueueInv`: the queue holds different
tickets of those issued, each due when its ticket says, in the order of their due
times, and every ticket waits, was logged or was dropped.  A tick cuts the queue in
what is due and what is not (`Those`, an indexed filter on cardinalities of which
the lemmas say that it keeps elements and order), and what is due comes first, so
that `EmittedInOrder` holds of each tick even when it fails in the middle.  For
`EmittedOnce` what was logged must be gone from the queue, which is `OnceInv` and
needs `AllBuildable`.

*Data path.*  `ShapeInv` has the shapes of the queues, of the script and of what
the reader has in hand, which is nothing between two messages.  `NumberInv`: the
numbers of unanswered requests differ, and the number drawn by `NumberStep` for
the script, which waits behind the answers in the reader's hand (`AskedLast`), is
not among them; a number drawn meanwhile by the scheduler is a later one.
`WordInv` says of every number at how many of its places it can be: owed by the
peer, on its way from it, handled by the reader, asked by it, answered; and that it
was drawn by the simulator or belongs to the peer.  A message on its way has not
been answered, so that `AnswerInv` holds: an answer is the first of its number, or
comes after the acknowledgement of an event, from the same handling.  `LedgerInv`
balances the ledger: what is logged and not sent is covered by what the reader and
the scheduler still have to send and by the reply of the rule that has matched
(`Due`), which is logged by `ProcessInbound` and looked up later in the reader's
copy.  That the look-up finds the same rule needs distinct identifiers
(`RuleOfMatch`) and no edit between copy and match (`overtaken`).  The counts of
copies in a sequence rest on finite cardinalities, with no induction.

*Streams.*  `StreamInOrder` needs the shapes of channel and hand beside it
(`StreamInv`): a publication appends a version above every one that is out, a
subscription begins with the version of the moment and an empty channel, and
taking and delivering move the oldest along.

*Screen.*  `NoPhantomEdit` speaks of the moment when nothing is on its way;
`PhantomInv` says what must be when something is: while the screen differs from
its last snapshot, an edit or a load is among the requests or the answers, or a
load has failed.  `EditHitsItsRule` is not inductive.  `ScreenInv`
says of every snapshot there is (the store's, those in channels and hands, the
screen's and those of the answers) and of every request begun from one that it
`Fits`: each of its rules is older than the last count of the identifiers, or is
`Known`: its identifier is below the counter, and a rule of the store with that
identifier is that rule.  The streams' order is part of it, because what is
delivered and shown is one of those snapshots.

*File.*  `CleanMatchesFile` is not inductive: clean says that `config` and `baseline`
are the same, and nothing in it speaks of the file behind the baseline.  `FileInv`
does: what a restart would load is the baseline but for identifiers, unless the file
was edited by hand since; and the actions of the working configuration and of the
baseline are in the order the loader puts them in, so that loading what was saved
moves none of them.  The editor keeps that order, since it sorts the actions of a
rule by delay whenever it touches them; that the loader's sort moves nothing in a
sequence that is in order by delay and number is proved from `Place`, as above.

*Frames.*  `FrameRoundTrip` takes a frame whose parts fit their fields
(`WellFormed`: the stream has seven bits) and a length that fits 32 bits, and
follows each field through its bytes.  `StreamInv` relates peer, network and reader:
the bytes that are not yet in a returned frame (those the reader holds, those on the
network and those not yet sent) are the bytes of the frames that were written and
not yet returned, and what the reader holds is a part of the first of these.  From
that a frame is returned only when it is complete and is the next that was written.
`LogInv` counts the messages among the frames handled.  The deadline is set only
when the reader holds at least one byte, which is `SilenceBetweenFrames`.

*Items.*  tlapm knows nothing of a recursive function, so that each is first shown
to exist, as the union of its approximations up to every depth (`ItemsDefined`,
`EncodeDefined`, `DecodeItemsDefined`).  Induction is the least element of a set of
naturals (`Induction`), since the library's rule needs an operator for a parameter.
The round trip is by induction on the number of bytes (`Reads(n)`: any sequence of
items that encodes to at most n bytes is read back, whatever follows), because the
decoder reads an item's children and its successors by the same loop.  Numbers are
followed through two's complement by width (`NumberRoundTrip`), lengths through
headers of one to three bytes (`LengthRoundTrip`).  For bytes that no one encoded,
`DecodeStaysInside` bounds what an item takes, and since each item takes two bytes
at least, the items inside one have less room and need less (`AllSettled`,
`RoomIsEnough`): the bound that makes the model's recursion a function is no limit
the code does not have.

*Texts.*  Writer and parser go by tokens, so that the induction is on the number of
tokens an item may still begin with (`Parses(text, n)`, `LogParses(text, n)`): wherever
the text of a sequence of items stands in a longer one, these items are read and the
token behind them is next (`HasAt`).  `TextRoundTrip` needs no hypothesis: a text is
quoted and a byte is two hexadecimal digits (`ByteText`, `ScalarParsed`).  In an equipment
log bytes are decimal (`DecimalText`), a list ends with a bracket that an empty one does
not have, periods may follow, and each value has a label behind it, which `Unlabelled`
takes off (`UnlabelledIs`).  Not every text survives being written bare: the scanner
takes a `>` for the end of the scalar and everything after a quote for quoted
(`readAngleContent`), blanks at either end are trimmed, and a bracket at the beginning
makes all of it a label.  `PlainText` says that the log has no such text (`Loggable`:
printed characters other than these); an operator of the `Codec` run copies an
equipment log only when that is so.  `CopyIsSent` puts parser, `Build` and codec
together: an action whose body is either text of a message is sent as that message.

Left to TLC: liveness and everything under fairness (`ShutdownCompletes`,
`NewSessionResolves`, `DeadSessionCleared`, `CallsReturn`, `QueueDrains`,
`ChangesArrive`, `StalledFrameEnds`, `ScriptFinishes`); `EchoIsFaithful`, of which
`CopyIsSent` proves what concerns the simulator's text and equipment's and TLC the
whole, because the parser of old event expressions is a `RECURSIVE` operator, of which
tlapm proves nothing;
`CleanMatchesFile` without its hypotheses, which the code violates
(5.1); and `NoOverlap` and its neighbours with more than one request at a time,
which the code does not protect.

## 5. Findings and known limits

Findings, each shown by a run:

1. **Reload reorders actions** (`config.go:165`): equal delays are sorted by
   identifier as a string; from ten actions on a Save and a Reload change what
   the operator saved, and show it as clean.
2. **A poisoned queue** (`runtime.go:121`): an action that cannot be built stops
   every tick after the actions before it have been logged, and the queue is left
   as it was, so that they are logged again at every tick.
3. **Stop and Start overlap** (`controller.go:84`): Stop clears the record and
   then waits; a Start from another request does not wait for it.

Limits met while modelling.  The properties say what the code keeps in spite of them,
or leave the case out as said here:

* T7 is armed once per connection (`session.go:398`).  When it has run out while the
  session was selected and the peer then deselects, the session stays CONNECTED for
  ever, though `spec_in_go.md:187` has T7 close it.  `NewSessionResolves` speaks of
  the first selection.
* In passive mode the reader of an old session gives the session up
  (`session.go:220`) and publishes LISTENING afterwards (`:229`), with nothing
  between it and the accept loop, which may have announced the next connection: the
  status bar then says LISTENING until the new session changes its state, against
  `implementation_plan.md:164`.  `HsmsTransport` and `Lifecycle` both have that
  interleaving; `StatusLagsAsListening` and `RunningIsShown` allow it by name, and
  say that nothing else can be wrong with the status.
* `shutdown` runs once (`session.go:341`).  In passive mode, when it runs before Start
  has bound its listener, nothing closes the listener afterwards: the port stays
  taken, the accept loop waits, and `Shutdown` waits for it.  The passive runs have no
  such Stop (`StopRacesStart`); in active mode the same race does no harm.
* The last act of a Stop (`controller.go:96`) shows the simulator as stopped, although
  another request may have started it again: the new run goes on under NOT CONNECTED.
  A Start that fails does the same (`controller.go:70`).  What is checked and proved
  of the status in `Lifecycle` is for one request at a time.
* Data is handled and answered while a session is not selected
  (`session.go:256`).
* There is no reply timeout T3 (`spec_in_go.md:196`): a script whose answer does
  not come, or comes before the event it expects first, waits for ever.
* A message the simulator answers itself is matched against the rules as well
  (`controller.go:189`, against `spec_in_go.md:588`): the rule's reply is logged
  and never sent.  `SentAsLogged` is one-sided for this reason, and because what
  is logged may find the link down.
* A batch the scheduler has taken may go out through the transport of the next
  run, since Stop does not wait for the scheduler.
* A rule edited between `handleDataMessage`'s copy of the configuration and the
  match: the log shows one reply and the other is sent.
* System bytes that wrap reach zero, which means unassigned: that message is
  numbered once more.
* A stream above 127 loses its highest bit, and a length of 2^24 or more its
  highest byte.
* A text in an equipment log loses its outer spaces and a last bracket; it is
  taken to be a label.  A `>` in it ends the scalar early and a quote late
  (`sml_parser.go:154`): such a log is not read, or not as it was meant.  Bytes separated by commas inside a list of an old
  configuration file are taken apart by the list.
* A late answer replaces a newer snapshot on the screen; of two edits on their
  way the last to arrive wins; Reload and ClearLog let identifiers be used
  again, so that an edit begun before them may meet another rule.
* Importing rules creates and updates one after the other and takes the last
  rule of each answer for its own; another operator's new rule may come between.
* `conveyorReportDefinitions` and what is built from it is never sent.

## 6. What is not modelled

* Layout: the pretty text, labels, the wording of `LastError` outside
  `SimConfig`, formatted times.
* How characters make tokens in the texts that are read.
* The remote command's parameters beyond a choice of fields (`SimRuntime`).
* More than one request at a time in the properties of `Lifecycle` other than
  `NoOverlap`: the code has no protection there.
* HTTP routing and the decoding of requests, static files, banners and tabs of
  the interface, import and export of rules, the probe, the build scripts.

## 7. Plan

1. The parser of old event expressions as a recursive function, as `ParseSMLItem` is
   now, so that `EchoIsFaithful` can be proved for every item.
2. Import of rules beside another operator, once a run has room for it.
