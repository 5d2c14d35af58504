---------------------------- MODULE Subscriptions ----------------------------
(* Snapshots of the store on their way to a browser                          *)
(* (internal/store/subscription.go, internal/api/events.go). Under the lock  *)
(* of the store every operation changes it and offers a snapshot to the      *)
(* channel of each subscriber. The handler of an event stream subscribes,    *)
(* writes the snapshot it was given, and then what its channel holds.        *)
(* A snapshot is the rules it shows and its version, which the program does  *)
(* not have: it counts the changes of the store.                             *)
EXTENDS Sequences, Naturals

CONSTANTS
    Streams,    \* the requests for the event stream, each served once
    Cap,        \* snapshotSubscriberBuffer
    Contents    \* what a snapshot can show

ASSUME SubscriptionsAssumption == Cap \in Nat \ {0}

VARIABLES
    store,      \* the state of the store, which is the snapshot of the moment
    starting,   \* a change is made that is not published: its publication is to follow
    opened,     \* streams that have been asked for
    registered, \* subscribers
    channel,    \* the channel of each
    hand,       \* what the handler is writing and the browser has not received: at most one
    seen,       \* the version received last, 0 before the first
    lost        \* the newest snapshot has not been taken by the full channel

streams == <<opened, registered, channel, hand, seen, lost>>
streamVars == <<store, starting, streams>>

StreamInit ==
    /\ store \in [version : {1}, rules : Contents] /\ starting = FALSE
    /\ opened = {} /\ registered = {}
    /\ channel = [s \in Streams |-> <<>>] /\ hand = [s \in Streams |-> <<>>]
    /\ seen = [s \in Streams |-> 0] /\ lost = [s \in Streams |-> FALSE]

Snapshot(rules) == [version |-> store.version + 1, rules |-> rules]

-----------------------------------------------------------------------------
(* snapshotAndPublishLocked: a channel that is full does not take it. *)
Room(s) == Len(channel[s]) < Cap
Offer(rules) ==
    /\ channel' = [s \in Streams |-> IF s \in registered /\ Room(s) THEN Append(channel[s], Snapshot(rules))
                                     ELSE channel[s]]
    /\ lost' = [s \in Streams |-> IF s \in registered THEN ~Room(s) ELSE lost[s]]

Publish(rules) ==
    /\ store' = Snapshot(rules) /\ Offer(rules)
    /\ UNCHANGED <<opened, registered, hand, seen>>

(* RecordAppliedHSMS changes what a snapshot shows and publishes nothing; the*)
(* controller sets the runtime next, which does.                             *)
RecordApplied ==
    /\ ~starting /\ starting' = TRUE
    /\ store' = Snapshot(store.rules) /\ UNCHANGED streams
SetRuntime_Silent ==
    /\ starting /\ starting' = FALSE
    /\ store' = Snapshot(store.rules) /\ UNCHANGED streams
SetRuntime == starting /\ starting' = FALSE /\ Publish(store.rules)

-----------------------------------------------------------------------------
(* SubscribeSnapshots registers and takes the snapshot in one step. *)
Subscribe(s) ==
    /\ s \notin opened /\ opened' = opened \cup {s}
    /\ registered' = registered \cup {s} /\ hand' = [hand EXCEPT ![s] = <<store>>]
    /\ UNCHANGED <<store, starting, channel, seen, lost>>

(* The handler takes a snapshot when it has written the one before. *)
Take(s) ==
    /\ s \in registered /\ hand[s] = <<>> /\ channel[s] # <<>>
    /\ hand' = [hand EXCEPT ![s] = <<Head(channel[s])>>]
    /\ channel' = [channel EXCEPT ![s] = Tail(@)]
    /\ UNCHANGED <<store, starting, opened, registered, seen, lost>>

Deliver_ReadsStore(s) ==
    /\ hand[s] # <<>> /\ hand' = [hand EXCEPT ![s] = <<>>]
    /\ seen' = [seen EXCEPT ![s] = store.version]
    /\ UNCHANGED <<store, starting, opened, registered, channel, lost>>
Deliver(s) ==
    /\ hand[s] # <<>> /\ hand' = [hand EXCEPT ![s] = <<>>]
    /\ seen' = [seen EXCEPT ![s] = Head(hand[s]).version]
    /\ UNCHANGED <<store, starting, opened, registered, channel, lost>>

(* The handler of a stream that is gone returns: it unsubscribes, which      *)
(* closes the channel; what it holds is lost, and nothing is received again. *)
Unsubscribe(s) ==
    /\ s \in registered /\ registered' = registered \ {s}
    /\ channel' = [channel EXCEPT ![s] = <<>>] /\ hand' = [hand EXCEPT ![s] = <<>>]
    /\ seen' = [seen EXCEPT ![s] = 0] /\ lost' = [lost EXCEPT ![s] = FALSE]
    /\ UNCHANGED <<store, starting, opened>>

StreamNext ==
    \/ \E rules \in Contents : Publish(rules) /\ UNCHANGED starting
    \/ RecordApplied \/ SetRuntime
    \/ \E s \in Streams : Subscribe(s) \/ Take(s) \/ Deliver(s) \/ Unsubscribe(s)

StreamSpec == StreamInit /\ [][StreamNext]_streamVars

-----------------------------------------------------------------------------
(* On each stream the snapshots arrive in the order the store had them: the  *)
(* one a subscriber is given first is older than all that its channel holds, *)
(* and no snapshot arrives twice (events.go, subscription.go).               *)
Pipeline(s) == hand[s] \o channel[s]
InOrder(q, after) ==
    /\ \A i \in DOMAIN q : after < q[i].version /\ q[i].version <= store.version
    /\ \A i, j \in DOMAIN q : i < j => q[i].version < q[j].version
StreamInOrder == \A s \in Streams : InOrder(Pipeline(s), seen[s])
=============================================================================
