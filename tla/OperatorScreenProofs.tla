------------------------- MODULE OperatorScreenProofs ------------------------
(* What holds of the operator's screen for every number of streams, any      *)
(* capacity of a channel, any rules and any number of requests.              *)
EXTENDS OperatorScreen, SequenceTheorems, WellFoundedInduction, TLAPS

-----------------------------------------------------------------------------
(* The order of the snapshots on an event stream. The steps are proved for   *)
(* snapshots of any set R of rules, whatever else changes the store.         *)
Shot(R) == [version : Nat, rules : R]

(* What a handler writes, h, what its channel holds, c, the version n the    *)
(* subscriber has and the version v of the store.                            *)
Ordered(h, c, n, v) ==
    /\ n <= v
    /\ \A i \in DOMAIN h : n < h[i].version /\ h[i].version <= v
    /\ \A i \in DOMAIN c : n < c[i].version /\ c[i].version <= v
    /\ \A i, j \in DOMAIN c : i < j => c[i].version < c[j].version
    /\ \A i \in DOMAIN h, j \in DOMAIN c : h[i].version < c[j].version

StreamTypes(R) ==
    /\ store \in Shot(R) /\ store.version >= 1
    /\ channel \in [Streams -> Seq(Shot(R))]
    /\ hand \in [Streams -> Seq(Shot(R))] /\ \A s \in Streams : Len(hand[s]) <= 1
    /\ seen \in [Streams -> Nat]
    /\ registered \subseteq opened

StreamInv(R) ==
    /\ StreamTypes(R)
    /\ \A s \in Streams :
          /\ Ordered(hand[s], channel[s], seen[s], store.version)
          /\ s \notin registered => channel[s] = <<>>
          /\ s \notin opened => hand[s] = <<>> /\ seen[s] = 0

-----------------------------------------------------------------------------
(* What the order is kept by. *)
LEMMA Snapshots ==
    ASSUME NEW R, NEW c \in Seq(Shot(R))
    PROVE  /\ Len(c) \in Nat /\ DOMAIN c = 1 .. Len(c)
           /\ \A i \in DOMAIN c : c[i] \in Shot(R) /\ c[i].version \in Nat
<1>1. Len(c) \in Nat /\ DOMAIN c = 1 .. Len(c) /\ \A i \in 1 .. Len(c) : c[i] \in Shot(R)
  BY LenProperties, ElementOfSeq
<1>2. \A x \in Shot(R) : x.version \in Nat
  BY DEF Shot
<1> QED
  BY <1>1, <1>2

LEMMA OrderedLater ==
    ASSUME NEW R, NEW h \in Seq(Shot(R)), NEW c \in Seq(Shot(R)), NEW n \in Nat, NEW v \in Nat,
           Ordered(h, c, n, v)
    PROVE  Ordered(h, c, n, v + 1)
<1>1. (\A i \in DOMAIN h : h[i].version \in Nat) /\ \A i \in DOMAIN c : c[i].version \in Nat
  BY Snapshots
<1> QED
  BY <1>1 DEF Ordered

LEMMA OrderedAppend ==
    ASSUME NEW R, NEW h \in Seq(Shot(R)), NEW c \in Seq(Shot(R)), NEW n \in Nat, NEW v \in Nat,
           Ordered(h, c, n, v), NEW x \in Shot(R), x.version = v + 1
    PROVE  Ordered(h, Append(c, x), n, v + 1)
<1> DEFINE d == Append(c, x)
<1>1. /\ Len(c) \in Nat /\ DOMAIN c = 1 .. Len(c) /\ DOMAIN d = 1 .. Len(c) + 1
      /\ \A i \in 1 .. Len(c) : d[i] = c[i]
      /\ d[Len(c) + 1] = x
  BY AppendProperties, LenProperties
<1>2. (\A i \in DOMAIN h : h[i].version \in Nat) /\ \A i \in DOMAIN c : c[i].version \in Nat
  BY Snapshots
<1>3. Ordered(h, c, n, v + 1)
  BY OrderedLater
<1> HIDE DEF d
<1>4. \A i \in DOMAIN d : (i \in DOMAIN c /\ d[i] = c[i]) \/ (i = Len(c) + 1 /\ d[i].version = v + 1)
  BY <1>1
<1>5. \A i \in DOMAIN d : n < d[i].version /\ d[i].version <= v + 1
  BY <1>2, <1>3, <1>4 DEF Ordered
<1>6. \A i, j \in DOMAIN d : i < j => d[i].version < d[j].version
  <2> SUFFICES ASSUME NEW i \in DOMAIN d, NEW j \in DOMAIN d, i < j
               PROVE  d[i].version < d[j].version
    OBVIOUS
  <2>1. i \in DOMAIN c /\ d[i] = c[i]
    BY <1>1
  <2> QED
    BY <1>2, <1>4, <2>1 DEF Ordered
<1>7. \A i \in DOMAIN h, j \in DOMAIN d : h[i].version < d[j].version
  BY <1>2, <1>4 DEF Ordered
<1> QED
  BY <1>3, <1>5, <1>6, <1>7 DEF Ordered, d

LEMMA OrderedTake ==
    ASSUME NEW R, NEW c \in Seq(Shot(R)), NEW n \in Nat, NEW v \in Nat,
           Ordered(<<>>, c, n, v), c # <<>>
    PROVE  Ordered(<<Head(c)>>, Tail(c), n, v)
<1> DEFINE t == Tail(c)
           h == <<Head(c)>>
<1>1. /\ Len(c) \in Nat /\ Len(c) >= 1 /\ DOMAIN c = 1 .. Len(c) /\ h[1] = c[1] /\ DOMAIN h = {1}
      /\ DOMAIN t = 1 .. Len(c) - 1 /\ \A i \in 1 .. Len(c) - 1 : t[i] = c[i + 1]
  BY HeadTailProperties, LenProperties, EmptySeq
<1>2. \A i \in DOMAIN c : c[i].version \in Nat
  BY Snapshots
<1> HIDE DEF t, h
<1>3. \A i \in DOMAIN t : i + 1 \in DOMAIN c /\ t[i] = c[i + 1]
  BY <1>1
<1>4. \A i \in DOMAIN t : n < t[i].version /\ t[i].version <= v
  BY <1>3 DEF Ordered
<1>5. \A i, j \in DOMAIN t : i < j => t[i].version < t[j].version
  BY <1>1, <1>3 DEF Ordered
<1>6. \A i \in DOMAIN h, j \in DOMAIN t : h[i].version < t[j].version
  BY <1>1, <1>3 DEF Ordered
<1> QED
  BY <1>1, <1>4, <1>5, <1>6 DEF Ordered, t, h

LEMMA OrderedDeliver ==
    ASSUME NEW R, NEW h \in Seq(Shot(R)), NEW c \in Seq(Shot(R)), NEW n \in Nat, NEW v \in Nat,
           Ordered(h, c, n, v), h # <<>>
    PROVE  Head(h).version \in Nat /\ Ordered(<<>>, c, Head(h).version, v)
<1>1. Len(h) \in Nat /\ 1 \in DOMAIN h /\ Head(h) = h[1] /\ h[1] \in Shot(R)
  BY HeadTailProperties, LenProperties, EmptySeq, ElementOfSeq
<1>2. \A i \in DOMAIN c : c[i].version \in Nat
  BY Snapshots
<1> QED
  BY <1>1, <1>2 DEF Ordered, Shot

LEMMA OrderedPipeline ==
    ASSUME NEW R, NEW s \in Streams, StreamInv(R)
    PROVE  InOrder(Pipeline(s), seen[s])
<1> DEFINE h == hand[s]
           c == channel[s]
           q == h \o c
<1>1. h \in Seq(Shot(R)) /\ c \in Seq(Shot(R)) /\ Len(h) <= 1 /\ seen[s] \in Nat
  BY DEF StreamInv, StreamTypes
<1>2. Ordered(h, c, seen[s], store.version)
  BY DEF StreamInv
<1> HIDE DEF h, c
<1>3. /\ Len(h) \in {0, 1} /\ Len(c) \in Nat /\ DOMAIN h = 1 .. Len(h) /\ DOMAIN c = 1 .. Len(c)
      /\ DOMAIN q = 1 .. Len(h) + Len(c)
      /\ \A i \in 1 .. Len(h) + Len(c) : q[i] = IF i <= Len(h) THEN h[i] ELSE c[i - Len(h)]
  <2>1. q \in Seq(Shot(R)) /\ Len(q) = Len(h) + Len(c)
    BY <1>1, ConcatProperties
  <2>2. \A i \in 1 .. Len(h) + Len(c) : q[i] = IF i <= Len(h) THEN h[i] ELSE c[i - Len(h)]
    BY <1>1, ConcatProperties
  <2>3. DOMAIN q = 1 .. Len(q)
    BY <2>1, LenProperties
  <2>4. Len(h) \in Nat /\ Len(c) \in Nat /\ DOMAIN h = 1 .. Len(h) /\ DOMAIN c = 1 .. Len(c)
    BY <1>1, Snapshots
  <2> HIDE DEF q
  <2> QED
    BY <1>1, <2>1, <2>2, <2>3, <2>4
<1> HIDE DEF q
<1>4. \A i \in DOMAIN q : \/ i \in DOMAIN h /\ q[i] = h[i] /\ i = 1
                          \/ i - Len(h) \in DOMAIN c /\ q[i] = c[i - Len(h)] /\ i > Len(h)
  <2> SUFFICES ASSUME NEW i \in 1 .. Len(h) + Len(c)
               PROVE  \/ i \in DOMAIN h /\ q[i] = h[i] /\ i = 1
                      \/ i - Len(h) \in DOMAIN c /\ q[i] = c[i - Len(h)] /\ i > Len(h)
    BY <1>3
  <2>1. CASE i <= Len(h)
    BY <1>3, <2>1
  <2>2. CASE ~(i <= Len(h))
    BY <1>3, <2>2
  <2> QED
    BY <2>1, <2>2
<1>5. \A i \in DOMAIN q : seen[s] < q[i].version /\ q[i].version <= store.version
  BY <1>2, <1>4 DEF Ordered
<1>6. \A i, j \in DOMAIN q : i < j => q[i].version < q[j].version
  <2> SUFFICES ASSUME NEW i \in DOMAIN q, NEW j \in DOMAIN q, i < j
               PROVE  q[i].version < q[j].version
    OBVIOUS
  <2>1. j - Len(h) \in DOMAIN c /\ q[j] = c[j - Len(h)]
    BY <1>3, <1>4
  <2>2. CASE i \in DOMAIN h /\ q[i] = h[i]
    BY <1>2, <2>1, <2>2 DEF Ordered
  <2>3. CASE i - Len(h) \in DOMAIN c /\ q[i] = c[i - Len(h)]
    <3>1. i - Len(h) < j - Len(h)
      BY <1>3
    <3> QED
      BY <1>2, <2>1, <2>3, <3>1 DEF Ordered
  <2> QED
    BY <1>4, <2>2, <2>3
<1> QED
  BY <1>5, <1>6 DEF InOrder, Pipeline, q, h, c

-----------------------------------------------------------------------------
(* Every step keeps it. *)
LEMMA SnapshotTyped ==
    ASSUME NEW R, StreamInv(R), NEW rules \in R
    PROVE  /\ Snapshot(rules) \in Shot(R) /\ Snapshot(rules).version = store.version + 1
           /\ store.version \in Nat /\ store.rules \in R
BY DEF StreamInv, StreamTypes, Shot, Snapshot

LEMMA PublishOrdered ==
    ASSUME NEW R, StreamInv(R), NEW rules \in R, Publish(rules)
    PROVE  StreamInv(R)'
<1> DEFINE shot == Snapshot(rules)
<1>1. shot \in Shot(R) /\ shot.version = store.version + 1 /\ store.version \in Nat /\ store' = shot
  BY SnapshotTyped DEF Publish
<1>2. UNCHANGED <<opened, registered, hand, seen>>
  BY DEF Publish
<1> HIDE DEF shot
<1>3. ASSUME NEW s \in Streams
      PROVE  /\ channel[s] \in Seq(Shot(R)) /\ hand[s] \in Seq(Shot(R)) /\ seen[s] \in Nat
             /\ Ordered(hand[s], channel[s], seen[s], store.version)
  BY DEF StreamInv, StreamTypes
<1>4. ASSUME NEW s \in Streams
      PROVE  /\ channel'[s] = channel[s] \/ (s \in registered /\ channel'[s] = Append(channel[s], shot))
             /\ channel'[s] \in Seq(Shot(R))
  <2>1. channel'[s] = channel[s] \/ (s \in registered /\ channel'[s] = Append(channel[s], shot))
    BY DEF Publish, Offer, shot
  <2>2. Append(channel[s], shot) \in Seq(Shot(R))
    BY <1>1, <1>3, AppendProperties
  <2> QED
    BY <1>3, <2>1, <2>2
<1>5. StreamTypes(R)'
  <2>1. channel' = [s \in Streams |-> channel'[s]]
    BY DEF Publish, Offer
  <2>2. channel' \in [Streams -> Seq(Shot(R))]
    BY <1>4, <2>1
  <2>3. store'.version >= 1
    BY <1>1
  <2> QED
    BY <1>1, <1>2, <2>2, <2>3 DEF StreamInv, StreamTypes
<1>6. ASSUME NEW s \in Streams PROVE Ordered(hand[s], channel'[s], seen[s], store.version + 1)
  <2>1. Ordered(hand[s], channel[s], seen[s], store.version + 1)
    BY <1>1, <1>3, OrderedLater
  <2>2. Ordered(hand[s], Append(channel[s], shot), seen[s], store.version + 1)
    BY <1>1, <1>3, OrderedAppend
  <2> QED
    BY <1>4, <2>1, <2>2
<1> QED
  BY <1>1, <1>2, <1>4, <1>5, <1>6 DEF StreamInv

LEMMA RecordOrdered ==
    ASSUME NEW R, StreamInv(R), RecordApplied
    PROVE  StreamInv(R)'
<1>1. /\ store' \in Shot(R) /\ store'.version = store.version + 1 /\ store.version \in Nat
      /\ store.version >= 1
  BY SnapshotTyped DEF RecordApplied, StreamInv, StreamTypes, Shot, Snapshot
<1>2. UNCHANGED streams
  BY DEF RecordApplied
<1>3. ASSUME NEW s \in Streams PROVE Ordered(hand[s], channel[s], seen[s], store.version + 1)
  BY <1>1, OrderedLater DEF StreamInv, StreamTypes
<1> QED
  BY <1>1, <1>2, <1>3 DEF StreamInv, StreamTypes, streams

LEMMA SubscribeOrdered ==
    ASSUME NEW R, StreamInv(R), NEW s \in Streams, Subscribe(s)
    PROVE  StreamInv(R)'
<1>1. store \in Shot(R) /\ store.version \in Nat /\ store.version >= 1 /\ <<store>> \in Seq(Shot(R))
  BY DEF StreamInv, StreamTypes, Shot
<1>2. /\ hand' = [hand EXCEPT ![s] = <<store>>] /\ UNCHANGED <<store, channel, seen>>
      /\ opened' = opened \cup {s} /\ registered' = registered \cup {s}
      /\ s \notin opened
  BY DEF Subscribe
<1>3. StreamTypes(R)'
  BY <1>1, <1>2 DEF StreamInv, StreamTypes
<1>4. channel[s] = <<>> /\ seen[s] = 0
  BY <1>2 DEF StreamInv, StreamTypes
<1>5. Ordered(<<store>>, <<>>, 0, store.version)
  BY <1>1 DEF Ordered
<1>6. hand'[s] = <<store>> /\ \A t \in Streams \ {s} : hand'[t] = hand[t]
  BY <1>2 DEF StreamInv, StreamTypes
<1>7. ASSUME NEW t \in Streams PROVE Ordered(hand'[t], channel[t], seen[t], store.version)
  BY <1>4, <1>5, <1>6 DEF StreamInv
<1> QED
  BY <1>2, <1>3, <1>6, <1>7 DEF StreamInv

LEMMA TakeOrdered ==
    ASSUME NEW R, StreamInv(R), NEW s \in Streams, Take(s)
    PROVE  StreamInv(R)'
<1>1. /\ s \in registered /\ hand[s] = <<>> /\ channel[s] # <<>>
      /\ hand' = [hand EXCEPT ![s] = <<Head(channel[s])>>]
      /\ channel' = [channel EXCEPT ![s] = Tail(channel[s])]
      /\ UNCHANGED <<store, opened, registered, seen>>
  BY DEF Take
<1>2. /\ channel[s] \in Seq(Shot(R)) /\ seen[s] \in Nat /\ store.version \in Nat
      /\ Ordered(<<>>, channel[s], seen[s], store.version)
  BY <1>1 DEF StreamInv, StreamTypes, Shot
<1>3. Ordered(<<Head(channel[s])>>, Tail(channel[s]), seen[s], store.version)
  BY <1>1, <1>2, OrderedTake
<1>4. <<Head(channel[s])>> \in Seq(Shot(R)) /\ Tail(channel[s]) \in Seq(Shot(R))
  BY <1>1, <1>2, HeadTailProperties
<1>5. StreamTypes(R)'
  BY <1>1, <1>4 DEF StreamInv, StreamTypes
<1>6. /\ hand'[s] = <<Head(channel[s])>> /\ channel'[s] = Tail(channel[s])
      /\ \A t \in Streams \ {s} : hand'[t] = hand[t] /\ channel'[t] = channel[t]
  BY <1>1 DEF StreamInv, StreamTypes
<1>7. ASSUME NEW t \in Streams PROVE Ordered(hand'[t], channel'[t], seen[t], store.version)
  BY <1>3, <1>6 DEF StreamInv
<1>8. s \in opened
  BY <1>1 DEF StreamInv, StreamTypes
<1> QED
  BY <1>1, <1>5, <1>6, <1>7, <1>8 DEF StreamInv

LEMMA DeliverOrdered ==
    ASSUME NEW R, StreamInv(R), NEW s \in Streams, Deliver(s)
    PROVE  StreamInv(R)'
<1> DEFINE v == Head(hand[s]).version
<1>1. /\ hand[s] # <<>> /\ hand' = [hand EXCEPT ![s] = <<>>] /\ seen' = [seen EXCEPT ![s] = v]
      /\ UNCHANGED <<store, opened, registered, channel>>
  BY DEF Deliver
<1>2. /\ hand[s] \in Seq(Shot(R)) /\ channel[s] \in Seq(Shot(R)) /\ seen[s] \in Nat
      /\ store.version \in Nat /\ Ordered(hand[s], channel[s], seen[s], store.version)
  BY DEF StreamInv, StreamTypes, Shot
<1>3. v \in Nat /\ Ordered(<<>>, channel[s], v, store.version)
  BY <1>1, <1>2, OrderedDeliver
<1> HIDE DEF v
<1>4. StreamTypes(R)'
  BY <1>1, <1>3 DEF StreamInv, StreamTypes
<1>5. /\ hand'[s] = <<>> /\ seen'[s] = v
      /\ \A t \in Streams \ {s} : hand'[t] = hand[t] /\ seen'[t] = seen[t]
  BY <1>1 DEF StreamInv, StreamTypes
<1>6. ASSUME NEW t \in Streams PROVE Ordered(hand'[t], channel[t], seen'[t], store.version)
  BY <1>3, <1>5 DEF StreamInv
<1>7. s \in opened
  BY <1>1 DEF StreamInv
<1> QED
  BY <1>1, <1>4, <1>5, <1>6, <1>7 DEF StreamInv

LEMMA UnsubscribeOrdered ==
    ASSUME NEW R, StreamInv(R), NEW s \in Streams, Unsubscribe(s)
    PROVE  StreamInv(R)'
<1>1. /\ registered' = registered \ {s} /\ channel' = [channel EXCEPT ![s] = <<>>]
      /\ hand' = [hand EXCEPT ![s] = <<>>] /\ seen' = [seen EXCEPT ![s] = 0]
      /\ UNCHANGED <<store, opened>>
  BY DEF Unsubscribe
<1>2. StreamTypes(R)'
  BY <1>1 DEF StreamInv, StreamTypes
<1>3. /\ hand'[s] = <<>> /\ channel'[s] = <<>> /\ seen'[s] = 0
      /\ \A t \in Streams \ {s} : hand'[t] = hand[t] /\ channel'[t] = channel[t] /\ seen'[t] = seen[t]
  BY <1>1 DEF StreamInv, StreamTypes
<1>4. Ordered(<<>>, <<>>, 0, store.version)
  BY DEF StreamInv, StreamTypes, Shot, Ordered
<1>5. ASSUME NEW t \in Streams PROVE Ordered(hand'[t], channel'[t], seen'[t], store.version)
  BY <1>3, <1>4 DEF StreamInv
<1> QED
  BY <1>1, <1>2, <1>3, <1>5 DEF StreamInv

LEMMA StreamUnchanged ==
    ASSUME NEW R, StreamInv(R), UNCHANGED <<store, streams>>
    PROVE  StreamInv(R)'
BY DEF StreamInv, StreamTypes, streams

LEMMA StreamInitInv ==
    ASSUME NEW R, Contents \subseteq R, StreamInit
    PROVE  StreamInv(R)
<1>1. StreamTypes(R)
  BY DEF StreamInit, StreamTypes, Shot
<1>2. Ordered(<<>>, <<>>, 0, store.version)
  BY DEF StreamInit, Ordered
<1> QED
  BY <1>1, <1>2 DEF StreamInit, StreamInv

\* On every event stream the snapshots arrive in the order the store had them,
\* each at most once (subscription.go: SubscribeSnapshots, publishSnapshotLocked;
\* events.go), for any number of subscribers and any capacity of their channels.
THEOREM StreamsAreInOrder == StreamSpec => []StreamInOrder
<1>1. StreamInit => StreamInv(Contents)
  BY StreamInitInv
<1>2. StreamInv(Contents) /\ [StreamNext]_streamVars => StreamInv(Contents)'
  <2> SUFFICES ASSUME StreamInv(Contents), [StreamNext]_streamVars PROVE StreamInv(Contents)'
    OBVIOUS
  <2>1. ASSUME NEW rules \in Contents, Publish(rules) PROVE StreamInv(Contents)'
    BY <2>1, PublishOrdered
  <2>2. ASSUME SetRuntime PROVE StreamInv(Contents)'
    BY <2>2, PublishOrdered DEF SetRuntime, StreamInv, StreamTypes, Shot
  <2>3. CASE UNCHANGED streamVars
    BY <2>3, StreamUnchanged DEF streamVars
  <2> QED
    BY <2>1, <2>2, <2>3, RecordOrdered, SubscribeOrdered, TakeOrdered, DeliverOrdered, UnsubscribeOrdered
       DEF StreamNext
<1>3. StreamInv(Contents) => StreamInOrder
  BY OrderedPipeline DEF StreamInOrder
<1> QED
  BY <1>1, <1>2, <1>3, PTL DEF StreamSpec

-----------------------------------------------------------------------------
(* Edits that are only on the screen.  While the rules on the screen are not *)
(* those of the last snapshot, something is on its way that will replace     *)
(* them or report a failure: an edit, or the load that takes it back.        *)
Restores(r) == r.kind \in {"update", "load"}
PhantomInv ==
    \/ shown.rules = shown.snapshot.rules
    \/ loadFailed
    \/ \E r \in requests : Restores(r)
    \/ \E a \in answers : Restores(a.request)

LEMMA PhantomUnchanged ==
    ASSUME PhantomInv, UNCHANGED <<shown, loadFailed, requests, answers>>
    PROVE  PhantomInv'
BY DEF PhantomInv

LEMMA PhantomReplaced ==
    ASSUME NEW snapshot, Replace(snapshot)
    PROVE  PhantomInv'
BY DEF Replace, PhantomInv

(* A request that is handled, or fails, lives on in its answer. *)
LEMMA PhantomAnswered ==
    ASSUME PhantomInv, NEW r \in requests, NEW ok, NEW snapshot, Answered(r, ok, snapshot)
    PROVE  PhantomInv'
<1>1. answers' = answers \cup {[request |-> r, ok |-> ok, snapshot |-> snapshot]}
  BY DEF Answered
<1>2. UNCHANGED <<shown, loadFailed>> /\ requests' = requests \ {r}
  BY DEF Answered
<1>3. ASSUME NEW q \in requests, Restores(q) PROVE PhantomInv'
  <2>1. CASE q = r
    <3> DEFINE a == [request |-> r, ok |-> ok, snapshot |-> snapshot]
    <3>1. a \in answers' /\ Restores(a.request)
      BY <1>1, <1>3, <2>1
    <3> QED
      BY <3>1 DEF PhantomInv
  <2>2. CASE q # r
    BY <1>2, <1>3, <2>2 DEF PhantomInv
  <2> QED
    BY <2>1, <2>2
<1>4. ASSUME NEW a \in answers, Restores(a.request) PROVE PhantomInv'
  BY <1>1, <1>4 DEF PhantomInv
<1> QED
  BY <1>2, <1>3, <1>4 DEF PhantomInv

LEMMA PhantomSent ==
    ASSUME PhantomInv, NEW r, Send(r), UNCHANGED shown \/ Restores(r)
    PROVE  PhantomInv'
<1>1. UNCHANGED <<loadFailed, answers>> /\ requests' = requests \cup {r}
  BY DEF Send
<1> QED
  BY <1>1 DEF PhantomInv

LEMMA PhantomOperator ==
    ASSUME PhantomInv, OperatorNext
    PROVE  PhantomInv'
<1>1. ASSUME NEW kind \in Shortcuts, Press(kind) PROVE PhantomInv'
  BY <1>1, PhantomSent DEF Press
<1>2. ASSUME NEW k \in DOMAIN shown.rules, DeleteShown(k) PROVE PhantomInv'
  BY <1>2, PhantomSent DEF DeleteShown
<1>3. ASSUME NEW k \in DOMAIN shown.rules, NEW text \in Texts, ChangeShown(k, text) PROVE PhantomInv'
  <2>1. Restores(Request("update", shown.rules[k], text))
    BY DEF Restores, Request
  <2> QED
    BY <1>3, <2>1, PhantomSent DEF ChangeShown
<1> QED
  BY <1>1, <1>2, <1>3 DEF OperatorNext

LEMMA PhantomServer ==
    ASSUME PhantomInv, ServerNext
    PROVE  PhantomInv'
<1>1. ASSUME NEW r \in requests, Handle(r) PROVE PhantomInv'
  BY <1>1, PhantomAnswered DEF Handle
<1>2. ASSUME NEW r \in requests, Fail(r) PROVE PhantomInv'
  BY <1>2, PhantomAnswered DEF Fail
<1>3. ASSUME OthersChange \/ ControllerStarts PROVE PhantomInv'
  BY <1>3, PhantomUnchanged DEF OthersChange, ControllerStarts, browser
<1> QED
  BY <1>1, <1>2, <1>3 DEF ServerNext

(* A failed edit is followed by a load, a failed load is noted. *)
LEMMA PhantomFailure ==
    ASSUME PhantomInv, NEW a \in answers, OnFailure(a)
    PROVE  PhantomInv'
<1>1. UNCHANGED shown /\ answers' = answers \ {a}
  BY DEF OnFailure
<1>2. loadFailed' = (loadFailed \/ a.request.kind = "load") /\ \A r \in requests : r \in requests'
  BY DEF OnFailure
<1>3. CASE a.request.kind = "load"
  BY <1>2, <1>3 DEF PhantomInv
<1>4. CASE a.request.kind = "update"
  <2> DEFINE l == [Load EXCEPT !.n = a.request.n]
  <2>1. l \in requests' /\ Restores(l)
    BY <1>4 DEF OnFailure, TakenBack, Load, Restores
  <2> QED
    BY <2>1 DEF PhantomInv
<1>5. CASE ~Restores(a.request)
  <2>1. \A b \in answers : Restores(b.request) => b \in answers'
    BY <1>1, <1>5
  <2> QED
    BY <1>1, <1>2, <2>1 DEF PhantomInv
<1> QED
  BY <1>3, <1>4, <1>5 DEF Restores

LEMMA PhantomBrowser ==
    ASSUME PhantomInv, BrowserNext
    PROVE  PhantomInv'
BY PhantomReplaced, PhantomFailure DEF BrowserNext, OnAnswer

LEMMA PhantomStream ==
    ASSUME PhantomInv, NEW s \in Streams, OpenStream(s) \/ BreakStream(s) \/ StreamWorks(s)
    PROVE  PhantomInv'
BY PhantomReplaced, PhantomUnchanged DEF OpenStream, BreakStream, StreamWorks, OnMessage, HandlerTakes, browser

\* An edit on the screen that the store does not have lasts only while a request
\* is on its way, or when the load that was to take it back has failed too
\* (App.tsx: applyOptimistic, load), for any number of requests in any order.
THEOREM NoPhantomEditStays == Spec => []NoPhantomEdit
<1>1. Init => PhantomInv
  BY DEF Init, PhantomInv, NothingShown, NoSnapshot
<1>2. PhantomInv /\ [Next]_vars => PhantomInv'
  <2>1. ASSUME PhantomInv, UNCHANGED vars PROVE PhantomInv'
    BY <2>1, PhantomUnchanged DEF vars, browser
  <2>2. ASSUME PhantomInv, ControllerShows PROVE PhantomInv'
    BY <2>2, PhantomUnchanged DEF ControllerShows, browser
  <2> QED
    BY <2>1, <2>2, PhantomOperator, PhantomServer, PhantomBrowser, PhantomStream DEF Next
<1>3. PhantomInv => NoPhantomEdit
  BY DEF PhantomInv, NoPhantomEdit
<1> QED
  BY <1>1, <1>2, <1>3, PTL DEF Spec

-----------------------------------------------------------------------------
(* Types. *)
R == Seq(RuleType)
RequestType == [n : Nat, kind : Kinds, id : Nat, text : Texts \cup {""}, who : Nat, version : Nat]
AnswerType == [request : RequestType, ok : BOOLEAN, snapshot : Shot(R)]

StoreTypes == nextRuleID \in Nat /\ file \in R /\ born \in Nat /\ counted \in Nat
BrowserTypes ==
    /\ shown \in [snapshot : Shot(R), rules : R] /\ asked \in Nat
    /\ \A r \in requests : r \in RequestType /\ (r.kind = "update" => r.text \in Texts)
    /\ \A a \in answers : a \in AnswerType
ScreenTypes == StreamInv(R) /\ StoreTypes /\ BrowserTypes

(* What the operations of the store do to the rules: they stay, each with its*)
(* identifier, or one is added under the next identifier, or they are counted*)
(* anew.                                                                     *)
From(x, rules) == \E k \in DOMAIN rules : rules[k].id = x.id /\ rules[k].who = x.who
Kept ==
    /\ store'.version \in {store.version, store.version + 1}
    /\ \A k \in DOMAIN store'.rules : From(store'.rules[k], store.rules)
    /\ UNCHANGED <<nextRuleID, counted>>
Grown ==
    /\ store'.version = store.version + 1
    /\ \A k \in DOMAIN store'.rules :
          \/ From(store'.rules[k], store.rules)
          \/ store'.rules[k].id = nextRuleID /\ store'.rules[k].who = born + 1
    /\ nextRuleID' = nextRuleID + 1 /\ UNCHANGED counted
Recounted ==
    /\ store'.version = store.version + 1 /\ counted' = store'.version
    /\ \A k \in DOMAIN store'.rules : store'.rules[k].id < nextRuleID'
    /\ \A j, k \in DOMAIN store'.rules :
          store'.rules[j].id = store'.rules[k].id => store'.rules[j].who = store'.rules[k].who
StoreStep == StreamInv(R)' /\ StoreTypes' /\ (Kept \/ Grown \/ Recounted)

LEMMA RulesTyped ==
    ASSUME NEW rules \in R
    PROVE  /\ Len(rules) \in Nat /\ DOMAIN rules = 1 .. Len(rules)
           /\ \A k \in DOMAIN rules : /\ rules[k] \in RuleType
                                       /\ rules[k].id \in Nat /\ rules[k].who \in Nat /\ rules[k].text \in Texts
<1>1. /\ Len(rules) \in Nat /\ DOMAIN rules = 1 .. Len(rules)
      /\ \A k \in 1 .. Len(rules) : rules[k] \in RuleType
  BY LenProperties, ElementOfSeq DEF R
<1>2. \A x \in RuleType : x.id \in Nat /\ x.who \in Nat /\ x.text \in Texts
  BY DEF RuleType
<1> QED
  BY <1>1, <1>2

LEMMA StoreTyped ==
    ASSUME StreamInv(R)
    PROVE  store.rules \in R /\ store.version \in Nat /\ store \in Shot(R)
BY DEF StreamInv, StreamTypes, Shot

LEMMA PublishStep ==
    ASSUME StreamInv(R), NEW rules \in R, Publish(rules)
    PROVE  StreamInv(R)' /\ store'.version = store.version + 1 /\ store'.rules = rules
BY PublishOrdered DEF Publish, Snapshot

LEMMA NewRuleStep ==
    ASSUME StreamInv(R), StoreTypes, NewRule
    PROVE  StoreStep
<1> DEFINE old == store.rules
           x == Rule(nextRuleID, "new", born + 1)
           new == Append(old, x)
<1>1. x \in RuleType /\ x.id = nextRuleID /\ x.who = born + 1
  BY ContentsAssumption DEF StoreTypes, RuleType, Rule
<1>2. old \in R
  BY StoreTyped
<1> HIDE DEF old, x
<1>3. /\ new \in R /\ DOMAIN new = 1 .. Len(old) + 1 /\ DOMAIN old = 1 .. Len(old) /\ Len(old) \in Nat
      /\ \A k \in 1 .. Len(old) : new[k] = old[k]
      /\ new[Len(old) + 1] = x
  BY <1>1, <1>2, AppendProperties, LenProperties DEF R
<1> HIDE DEF new
<1>4. StreamInv(R)' /\ store'.version = store.version + 1 /\ store'.rules = new
  BY <1>3, PublishStep DEF NewRule, new, old, x
<1>5. \A k \in DOMAIN new : From(new[k], old) \/ (new[k].id = nextRuleID /\ new[k].who = born + 1)
  BY <1>1, <1>3 DEF From
<1>6. Grown
  BY <1>4, <1>5 DEF Grown, NewRule, old
<1>7. StoreTypes'
  BY DEF NewRule, StoreTypes
<1> QED
  BY <1>4, <1>6, <1>7 DEF StoreStep

LEMMA AtIsThere ==
    ASSUME NEW rules \in R, NEW id \in Ids(rules)
    PROVE  At(rules, id) \in DOMAIN rules /\ rules[At(rules, id)].id = id
BY DEF Ids, At

LEMMA UpdateRuleStep ==
    ASSUME StreamInv(R), StoreTypes, NEW id, NEW text \in Texts, UpdateRule(id, text)
    PROVE  StoreStep
<1> DEFINE old == store.rules
           i == At(old, id)
           new == Replaced(old, id, text)
<1>1. old \in R /\ i \in DOMAIN old
  BY StoreTyped, AtIsThere DEF UpdateRule
<1> HIDE DEF old, i
<1>2. new = [old EXCEPT ![i] = [old[i] EXCEPT !.text = text]]
  BY DEF Replaced, i
<1>3. i \in 1 .. Len(old) /\ old[i] \in RuleType /\ DOMAIN old = 1 .. Len(old)
  BY <1>1, RulesTyped
<1> DEFINE x == [old[i] EXCEPT !.text = text]
<1>4. x \in RuleType /\ x.id = old[i].id /\ x.who = old[i].who
  BY <1>3 DEF RuleType
<1> HIDE DEF x
<1>5. /\ new \in R /\ Len(new) = Len(old)
      /\ \A k \in 1 .. Len(old) : new[k] = IF k = i THEN x ELSE old[k]
  BY <1>1, <1>2, <1>3, <1>4, ExceptSeq DEF R, x
<1> HIDE DEF new
<1>6. DOMAIN new = 1 .. Len(old)
  BY <1>5, RulesTyped
<1>7. \A k \in DOMAIN new : From(new[k], old)
  BY <1>3, <1>4, <1>5, <1>6 DEF From
<1>8. StreamInv(R)' /\ store'.version = store.version + 1 /\ store'.rules = new
  BY <1>5, PublishStep DEF UpdateRule, new, old
<1>9. StoreTypes' /\ UNCHANGED <<nextRuleID, counted>>
  BY DEF UpdateRule, StoreTypes, hidden
<1> QED
  BY <1>7, <1>8, <1>9 DEF StoreStep, Kept, old

LEMMA RemoveFrom ==
    ASSUME NEW rules \in R, NEW i \in DOMAIN rules
    PROVE  /\ RemoveAt(rules, i) \in R
           /\ \A k \in DOMAIN RemoveAt(rules, i) : From(RemoveAt(rules, i)[k], rules)
<1> DEFINE a == SubSeq(rules, 1, i - 1)
           b == SubSeq(rules, i + 1, Len(rules))
           t == RemoveAt(rules, i)
<1>1. /\ Len(rules) \in Nat /\ i \in 1 .. Len(rules) /\ DOMAIN rules = 1 .. Len(rules)
      /\ \A k \in 1 .. Len(rules) : rules[k] \in RuleType
  BY RulesTyped
<1>2. a \in R /\ Len(a) = i - 1 /\ \A k \in 1 .. i - 1 : a[k] = rules[k]
  BY <1>1, SubSeqProperties DEF R
<1>3. b \in R /\ Len(b) = Len(rules) - i /\ \A k \in 1 .. Len(rules) - i : b[k] = rules[i + k]
  BY <1>1, SubSeqProperties DEF R
<1>4. t = a \o b
  BY DEF RemoveAt
<1> HIDE DEF a, b, t
<1>5. /\ t \in R /\ Len(t) = Len(a) + Len(b)
      /\ \A k \in 1 .. Len(a) + Len(b) : t[k] = IF k <= Len(a) THEN a[k] ELSE b[k - Len(a)]
  BY <1>2, <1>3, <1>4, ConcatProperties DEF R
<1>6. /\ DOMAIN t = 1 .. Len(rules) - 1
      /\ \A k \in 1 .. Len(rules) - 1 : t[k] = IF k <= i - 1 THEN a[k] ELSE b[k - (i - 1)]
  <2>1. Len(a) + Len(b) = Len(rules) - 1
    BY <1>1, <1>2, <1>3
  <2> QED
    BY <1>2, <1>5, <2>1, RulesTyped
<1>7. ASSUME NEW k \in 1 .. Len(rules) - 1
      PROVE  \E j \in DOMAIN rules : t[k] = rules[j]
  <2>1. CASE k <= i - 1
    BY <1>1, <1>2, <1>6, <2>1
  <2>2. CASE ~(k <= i - 1)
    <3>1. k - (i - 1) \in 1 .. Len(rules) - i /\ i + (k - (i - 1)) = k + 1
      BY <1>1, <2>2
    <3>2. t[k] = rules[k + 1] /\ k + 1 \in 1 .. Len(rules)
      BY <1>1, <1>3, <1>6, <2>2, <3>1
    <3> QED
      BY <1>1, <3>2
  <2> QED
    BY <2>1, <2>2
<1> QED
  BY <1>5, <1>6, <1>7 DEF From, t

LEMMA DeleteRuleStep ==
    ASSUME StreamInv(R), StoreTypes, NEW id, DeleteRule(id)
    PROVE  StoreStep
<1> DEFINE old == store.rules
           new == RemoveAt(old, At(old, id))
<1>1. old \in R /\ At(old, id) \in DOMAIN old
  BY StoreTyped, AtIsThere DEF DeleteRule
<1> HIDE DEF old
<1>2. new \in R /\ \A k \in DOMAIN new : From(new[k], old)
  BY <1>1, RemoveFrom
<1> HIDE DEF new
<1>3. StreamInv(R)' /\ store'.version = store.version + 1 /\ store'.rules = new
  BY <1>2, PublishStep DEF DeleteRule, new, old
<1>4. StoreTypes' /\ UNCHANGED <<nextRuleID, counted>>
  BY DEF DeleteRule, StoreTypes, hidden
<1> QED
  BY <1>2, <1>3, <1>4 DEF StoreStep, Kept, old

(* Steps that leave the rules as they are: a save, a message, the state of   *)
(* the link.                                                                 *)
LEMMA RulesKeptStep ==
    ASSUME StreamInv(R), StoreTypes, StreamInv(R)', store'.rules = store.rules,
           store'.version \in {store.version, store.version + 1},
           UNCHANGED <<nextRuleID, counted, born>>, file' \in {file, store.rules}
    PROVE  StoreStep
<1>1. StoreTypes'
  BY StoreTyped DEF StoreTypes
<1> QED
  BY <1>1 DEF StoreStep, Kept, From

LEMMA SaveStep ==
    ASSUME StreamInv(R), StoreTypes, Save \/ (Publish(store.rules) /\ UNCHANGED hidden)
    PROVE  StoreStep
<1>1. StreamInv(R)' /\ store'.version = store.version + 1 /\ store'.rules = store.rules
  BY StoreTyped, PublishStep DEF Save
<1> QED
  BY <1>1, RulesKeptStep DEF Save, hidden

LEMMA ReloadStep ==
    ASSUME StreamInv(R), StoreTypes, Reload
    PROVE  StoreStep
<1> DEFINE new == Numbered(file)
<1>1. /\ file \in R /\ Len(file) \in Nat /\ DOMAIN file = 1 .. Len(file)
      /\ \A k \in DOMAIN file : file[k] \in RuleType
  BY RulesTyped DEF StoreTypes
<1>2. DOMAIN new = DOMAIN file /\ \A k \in DOMAIN file : new[k] = [file[k] EXCEPT !.id = k]
  BY DEF Numbered
<1>3. \A k \in DOMAIN new : new[k].id = k /\ new[k] \in RuleType
  BY <1>1, <1>2 DEF RuleType
<1>4. new \in R
  <2>1. new = [k \in 1 .. Len(file) |-> [file[k] EXCEPT !.id = k]]
    BY <1>1 DEF Numbered
  <2>2. \A k \in 1 .. Len(file) : [file[k] EXCEPT !.id = k] \in RuleType
    BY <1>1, <1>2, <1>3
  <2> QED
    BY <1>1, <2>1, <2>2 DEF R
<1> HIDE DEF new
<1>5. StreamInv(R)' /\ store'.version = store.version + 1 /\ store'.rules = new
  BY <1>4, PublishStep DEF Reload, new
<1>6. nextRuleID' = Len(file) + 1 /\ counted' = store.version + 1 /\ UNCHANGED <<file, born>>
  BY DEF Reload
<1>7. StoreTypes'
  BY <1>1, <1>6, StoreTyped DEF StoreTypes
<1>8. Recounted
  <2>1. \A k \in DOMAIN new : new[k].id < nextRuleID'
    BY <1>1, <1>2, <1>3, <1>6 DEF new
  <2>2. \A j, k \in DOMAIN new : new[j].id = new[k].id => new[j].who = new[k].who
    BY <1>3
  <2> QED
    BY <1>5, <1>6, <2>1, <2>2 DEF Recounted
<1> QED
  BY <1>5, <1>7, <1>8 DEF StoreStep

LEMMA MaxOfBounded ==
    ASSUME NEW S \in SUBSET Nat, S # {}, NEW b \in Nat, \A i \in S : i < b
    PROVE  Max(S) \in S /\ \A i \in S : i <= Max(S)
<1> DEFINE T == {n \in Nat : \A i \in S : i <= n}
<1>1. T \subseteq Nat /\ T # {}
  <2>1. b \in T
    OBVIOUS
  <2> QED
    BY <2>1
<1>2. PICK m \in T : \A n \in T : ~(<<n, m>> \in OpToRel(<, Nat))
  <2> HIDE DEF T
  <2> QED
    BY <1>1, NatLessThanWellFounded, WFMin, Zenon
<1>3. \A n \in T : m <= n
  <2> SUFFICES ASSUME NEW n \in T PROVE m <= n
    OBVIOUS
  <2> HIDE DEF T
  <2>1. ~(n < m)
    BY <1>1, <1>2, Zenon DEF OpToRel
  <2> QED
    BY <1>1, <2>1
<1>4. m \in S
  <2>1. CASE m = 0
    <3>1. PICK i \in S : i <= m
      OBVIOUS
    <3> QED
      BY <2>1, <3>1
  <2>2. CASE m # 0
    <3>1. m - 1 \in Nat /\ ~(m <= m - 1)
      BY <2>2
    <3>2. m - 1 \notin T
      BY <1>3, <3>1
    <3>3. PICK i \in S : ~(i <= m - 1)
      BY <3>1, <3>2
    <3> QED
      BY <3>1, <3>3
  <2> QED
    BY <2>1, <2>2
<1>5. \A i \in S : m >= i
  OBVIOUS
<1>6. Max(S) \in S /\ \A i \in S : Max(S) >= i
  BY <1>4, <1>5 DEF Max
<1> QED
  BY <1>6

-----------------------------------------------------------------------------
(* Who a rule is. An identifier of the snapshot v belongs to the rule it was *)
(* read with, unless they have been counted anew since.                      *)
Known(id, who) ==
    /\ id < nextRuleID
    /\ \A k \in DOMAIN store.rules : store.rules[k].id = id => store.rules[k].who = who
Fits(v, id, who) == v <= store.version /\ (counted <= v => Known(id, who))
AllFit(v, rules) == v <= store.version /\ \A k \in DOMAIN rules : Fits(v, rules[k].id, rules[k].who)
ShotFits(x) == AllFit(x.version, x.rules)

StoreFits == counted <= store.version /\ ShotFits(store)
StreamFits ==
    \A s \in Streams :
       /\ \A k \in DOMAIN channel[s] : ShotFits(channel[s][k])
       /\ \A k \in DOMAIN hand[s] : ShotFits(hand[s][k])
BrowserFits ==
    /\ AllFit(shown.snapshot.version, shown.rules)
    /\ \A a \in answers : ShotFits(a.snapshot)
    /\ \A r \in requests : r.kind \in {"update", "delete"} => Fits(r.version, r.id, r.who)

LEMMA ClearLogStep ==
    ASSUME StreamInv(R), StoreTypes, StoreFits, ClearLog
    PROVE  StoreStep
<1> DEFINE old == store.rules
<1>1. old \in R /\ store.version \in Nat /\ counted <= store.version
  BY StoreTyped DEF StoreFits
<1>2. /\ StreamInv(R)' /\ store'.version = store.version + 1 /\ store'.rules = old
      /\ nextRuleID' = HighestId(old) + 1 /\ counted' = store.version + 1 /\ UNCHANGED <<file, born>>
  BY <1>1, PublishStep DEF ClearLog
<1>3. \A j, k \in DOMAIN old : /\ old[j].id < nextRuleID
                               /\ old[j].id = old[k].id => old[j].who = old[k].who
  BY <1>1 DEF StoreFits, ShotFits, AllFit, Fits, Known
<1> HIDE DEF old
<1>4. HighestId(old) \in Nat /\ \A k \in DOMAIN old : old[k].id <= HighestId(old)
  <2>1. CASE old = <<>>
    BY <2>1 DEF HighestId
  <2>2. CASE old # <<>>
    <3>1. Ids(old) \in SUBSET Nat /\ \A i \in Ids(old) : i < nextRuleID
      BY <1>1, <1>3, RulesTyped DEF Ids
    <3>2. Ids(old) # {}
      <4>1. 1 \in DOMAIN old
        BY <1>1, <2>2, EmptySeq, LenProperties DEF R
      <4> QED
        BY <4>1 DEF Ids
    <3>3. nextRuleID \in Nat
      BY DEF StoreTypes
    <3>4. Max(Ids(old)) \in Nat /\ \A i \in Ids(old) : i <= Max(Ids(old))
      BY <3>1, <3>2, <3>3, MaxOfBounded
    <3> QED
      BY <2>2, <3>4 DEF HighestId, Ids
  <2> QED
    BY <2>1, <2>2
<1>5. StoreTypes'
  BY <1>1, <1>2, <1>4 DEF StoreTypes
<1>6. \A k \in DOMAIN old : old[k].id < nextRuleID'
  BY <1>1, <1>2, <1>4, RulesTyped
<1> QED
  BY <1>2, <1>3, <1>5, <1>6 DEF StoreStep, Recounted

LEMMA DoStep ==
    ASSUME StreamInv(R), StoreTypes, StoreFits,
           NEW kind \in Kinds, NEW id, NEW text, kind = "update" => text \in Texts,
           Do(kind, id, text)
    PROVE  StoreStep
<1>1. CASE kind = "create"
  BY <1>1, NewRuleStep DEF Do
<1>2. CASE kind = "update"
  BY <1>2, UpdateRuleStep DEF Do
<1>3. CASE kind = "delete"
  BY <1>3, DeleteRuleStep DEF Do
<1>4. CASE kind = "save"
  BY <1>4, SaveStep DEF Do
<1>5. CASE kind = "reload"
  BY <1>5, ReloadStep DEF Do
<1>6. CASE kind = "clear"
  BY <1>6, ClearLogStep DEF Do
<1>7. CASE kind = "load"
  <2>1. UNCHANGED <<store, streams, hidden>>
    BY <1>7 DEF Do
  <2> QED
    BY <2>1, StreamUnchanged, RulesKeptStep DEF hidden
<1>8. CASE kind = "message"
  BY <1>8, SaveStep DEF Do
<1> QED
  BY <1>1, <1>2, <1>3, <1>4, <1>5, <1>6, <1>7, <1>8 DEF Kinds

(* What fits goes on fitting. *)
LEMMA StaysKnown ==
    ASSUME StreamInv(R), StoreTypes, StoreFits, StoreStep,
           NEW v \in Nat, NEW id \in Nat, NEW who, Fits(v, id, who)
    PROVE  Fits(v, id, who)'
<1>1. /\ store.version \in Nat /\ store.rules \in R /\ nextRuleID \in Nat /\ counted \in Nat
      /\ v <= store.version
  BY StoreTyped DEF StoreTypes, Fits
<1>2. CASE Kept
  BY <1>1, <1>2 DEF Kept, From, Fits, Known
<1>3. CASE Grown
  BY <1>1, <1>3 DEF Grown, From, Fits, Known
<1>4. CASE Recounted
  BY <1>1, <1>4 DEF Recounted, Fits
<1> QED
  BY <1>2, <1>3, <1>4 DEF StoreStep

LEMMA StoreStaysFit ==
    ASSUME StreamInv(R), StoreTypes, StoreFits, StoreStep
    PROVE  StoreFits'
<1>1. /\ store.version \in Nat /\ store.rules \in R /\ nextRuleID \in Nat /\ counted \in Nat
      /\ counted <= store.version
  BY StoreTyped DEF StoreTypes, StoreFits
<1>2. store'.version \in Nat /\ store'.rules \in R
  BY DEF StoreStep, StreamInv, StreamTypes, Shot
<1>3. /\ \A k \in DOMAIN store.rules : store.rules[k].id \in Nat
      /\ \A k \in DOMAIN store'.rules : store'.rules[k].id \in Nat
  BY <1>1, <1>2, RulesTyped
<1>4. \A j, k \in DOMAIN store.rules :
         /\ store.rules[j].id < nextRuleID
         /\ store.rules[j].id = store.rules[k].id => store.rules[j].who = store.rules[k].who
  BY <1>1 DEF StoreFits, ShotFits, AllFit, Fits, Known
<1>5. /\ counted' <= store'.version
      /\ \A j, k \in DOMAIN store'.rules :
         /\ store'.rules[j].id < nextRuleID'
         /\ store'.rules[j].id = store'.rules[k].id => store'.rules[j].who = store'.rules[k].who
  <2>1. CASE Kept
    BY <1>1, <1>3, <1>4, <2>1 DEF Kept, From
  <2>2. CASE Grown
    BY <1>1, <1>3, <1>4, <2>2 DEF Grown, From
  <2>3. CASE Recounted
    BY <1>2, <2>3 DEF Recounted
  <2> QED
    BY <2>1, <2>2, <2>3 DEF StoreStep
<1> QED
  BY <1>2, <1>5 DEF StoreFits, ShotFits, AllFit, Fits, Known

LEMMA AllStayFit ==
    ASSUME StreamInv(R), StoreTypes, StoreFits, StoreStep,
           NEW v \in Nat, NEW rules \in R, AllFit(v, rules)
    PROVE  AllFit(v, rules)'
<1>1. \A k \in DOMAIN rules : rules[k].id \in Nat
  BY RulesTyped
<1>2. \A k \in DOMAIN rules : Fits(v, rules[k].id, rules[k].who)'
  BY <1>1, StaysKnown DEF AllFit
<1>3. v <= store'.version
  BY StoreTyped DEF StoreStep, Kept, Grown, Recounted, AllFit
<1> QED
  BY <1>2, <1>3 DEF AllFit

(* What the channels hold after a change of the store: what they held, and   *)
(* the new snapshot.                                                         *)
Offered ==
    /\ UNCHANGED hand
    /\ \A s \in Streams : \A k \in DOMAIN channel'[s] :
          channel'[s][k] = store' \/ (k \in DOMAIN channel[s] /\ channel'[s][k] = channel[s][k])

LEMMA PublishOffers ==
    ASSUME StreamInv(R), NEW rules \in R, Publish(rules)
    PROVE  Offered
<1>1. store' = Snapshot(rules) /\ store' \in Shot(R)
  BY PublishStep, PublishOrdered DEF Publish, StreamInv, StreamTypes
<1> SUFFICES ASSUME NEW s \in Streams, NEW k \in DOMAIN channel'[s]
             PROVE  channel'[s][k] = store' \/ (k \in DOMAIN channel[s] /\ channel'[s][k] = channel[s][k])
  BY DEF Offered, Publish
<1> DEFINE c == channel[s]
           x == store'
<1>2. c \in Seq(Shot(R)) /\ (channel'[s] = c \/ channel'[s] = Append(c, x))
  BY <1>1 DEF Publish, Offer, StreamInv, StreamTypes
<1> HIDE DEF c, x
<1>3. CASE channel'[s] = Append(c, x)
  <2>1. /\ DOMAIN c = 1 .. Len(c) /\ Len(c) \in Nat /\ DOMAIN Append(c, x) = 1 .. Len(c) + 1
        /\ \A j \in 1 .. Len(c) : Append(c, x)[j] = c[j]
        /\ Append(c, x)[Len(c) + 1] = x
    BY <1>1, <1>2, AppendProperties, LenProperties DEF x
  <2> QED
    BY <1>3, <2>1 DEF c, x
<1> QED
  BY <1>2, <1>3 DEF c, x

LEMMA DoOffers ==
    ASSUME StreamInv(R), StoreTypes, StoreFits, StoreStep,
           NEW kind \in Kinds, NEW id, NEW text, Do(kind, id, text)
    PROVE  Offered
<1>1. Publish(store'.rules) \/ UNCHANGED <<store, streams>>
  <2>1. ASSUME NEW rules, Publish(rules) PROVE Publish(store'.rules)
    <3>1. store'.rules = rules
      BY <2>1 DEF Publish, Snapshot
    <3> QED
      BY <2>1, <3>1
  <2> QED
    BY <2>1 DEF Do, NewRule, UpdateRule, DeleteRule, Save, Reload, ClearLog, Kinds
<1>2. store'.rules \in R
  BY DEF StoreStep, StreamInv, StreamTypes, Shot
<1>3. CASE UNCHANGED <<store, streams>>
  BY <1>3 DEF Offered, streams
<1> QED
  BY <1>1, <1>2, <1>3, PublishOffers

LEMMA StreamShots ==
    ASSUME StreamInv(R), NEW s \in Streams
    PROVE  /\ \A k \in DOMAIN channel[s] : channel[s][k].version \in Nat /\ channel[s][k].rules \in R
           /\ \A k \in DOMAIN hand[s] : hand[s][k].version \in Nat /\ hand[s][k].rules \in R
<1>1. channel[s] \in Seq(Shot(R)) /\ hand[s] \in Seq(Shot(R))
  BY DEF StreamInv, StreamTypes
<1> QED
  BY <1>1, Snapshots DEF Shot

LEMMA StreamStaysFit ==
    ASSUME StreamInv(R), StoreTypes, StoreFits, StreamFits, StoreStep, Offered
    PROVE  StreamFits'
<1> SUFFICES ASSUME NEW s \in Streams
             PROVE  /\ (\A k \in DOMAIN channel[s] : ShotFits(channel[s][k]))'
                    /\ (\A k \in DOMAIN hand[s] : ShotFits(hand[s][k]))'
  BY DEF StreamFits
<1>1. ASSUME NEW k \in DOMAIN channel'[s] PROVE ShotFits(channel[s][k])'
  <2>1. CASE channel'[s][k] = store'
    <3>1. ShotFits(store)'
      BY StoreStaysFit DEF StoreFits
    <3> QED
      BY <2>1, <3>1 DEF ShotFits
  <2>2. CASE k \in DOMAIN channel[s] /\ channel'[s][k] = channel[s][k]
    <3>1. AllFit(channel[s][k].version, channel[s][k].rules)
      BY <2>2 DEF StreamFits, ShotFits
    <3> DEFINE v == channel[s][k].version
               rules == channel[s][k].rules
    <3>2. v \in Nat /\ rules \in R
      BY <2>2, StreamShots
    <3>3. v = channel'[s][k].version /\ rules = channel'[s][k].rules
      BY <2>2
    <3> QED
      BY <3>1, <3>2, <3>3, AllStayFit DEF ShotFits, AllFit, Fits, Known
  <2> QED
    BY <2>1, <2>2 DEF Offered
<1>2. ASSUME NEW k \in DOMAIN hand'[s] PROVE ShotFits(hand[s][k])'
  <2> DEFINE v == hand[s][k].version
             rules == hand[s][k].rules
  <2>1. hand' = hand /\ k \in DOMAIN hand[s]
    BY DEF Offered
  <2>2. v \in Nat /\ rules \in R /\ AllFit(v, rules)
    BY <2>1, StreamShots DEF StreamFits, ShotFits
  <2>3. v = hand'[s][k].version /\ rules = hand'[s][k].rules
    BY <2>1
  <2> QED
    BY <2>2, <2>3, AllStayFit DEF ShotFits, AllFit, Fits, Known
<1> QED
  BY <1>1, <1>2

-----------------------------------------------------------------------------
(* Every step keeps the types and what fits. *)
StoreInv  == StreamInv(R) /\ StoreTypes /\ StoreFits /\ StreamFits
ScreenInv == StoreInv /\ BrowserTypes /\ BrowserFits

LEMMA SameStoreFits ==
    ASSUME UNCHANGED <<store, nextRuleID, counted>>
    PROVE  /\ \A v, id, who : Fits(v, id, who) => Fits(v, id, who)'
           /\ \A v, rules : AllFit(v, rules) => AllFit(v, rules)'
           /\ \A x : ShotFits(x) => ShotFits(x)'
BY DEF ShotFits, AllFit, Fits, Known

LEMMA StoreInvStep ==
    ASSUME StoreInv, StoreStep, Offered
    PROVE  StoreInv'
BY StoreStaysFit, StreamStaysFit DEF StoreInv, StoreStep

LEMMA BrowserAfterStore ==
    ASSUME ScreenInv, StoreStep, UNCHANGED <<shown, asked>>, requests' \subseteq requests,
           \A a \in answers' : a \in answers \/ (a \in AnswerType /\ ShotFits(a.snapshot)')
    PROVE  BrowserTypes' /\ BrowserFits'
<1>1. BrowserTypes'
  BY DEF ScreenInv, BrowserTypes
<1>2. AllFit(shown.snapshot.version, shown.rules)'
  <2> DEFINE v == shown.snapshot.version
             rules == shown.rules
  <2>1. v \in Nat /\ rules \in R /\ AllFit(v, rules)
    BY DEF ScreenInv, BrowserTypes, BrowserFits, Shot
  <2>2. v = shown'.snapshot.version /\ rules = shown'.rules
    OBVIOUS
  <2> QED
    BY <2>1, <2>2, AllStayFit DEF ScreenInv, StoreInv, AllFit, Fits, Known
<1>3. ASSUME NEW a \in answers' PROVE ShotFits(a.snapshot)'
  <2>1. CASE a \in answers
    <3>1. a.snapshot.version \in Nat /\ a.snapshot.rules \in R
      BY <2>1 DEF ScreenInv, BrowserTypes, AnswerType, Shot
    <3>2. AllFit(a.snapshot.version, a.snapshot.rules)
      BY <2>1 DEF ScreenInv, BrowserFits, ShotFits
    <3> QED
      BY <3>1, <3>2, AllStayFit DEF ScreenInv, StoreInv, ShotFits
  <2> QED
    BY <1>3, <2>1
<1>4. ASSUME NEW r \in requests', r.kind \in {"update", "delete"} PROVE Fits(r.version, r.id, r.who)'
  <2>1. r \in requests /\ r.version \in Nat /\ r.id \in Nat
    BY <1>4 DEF ScreenInv, BrowserTypes, RequestType
  <2>2. Fits(r.version, r.id, r.who)
    BY <1>4, <2>1 DEF ScreenInv, BrowserFits
  <2> QED
    BY <2>1, <2>2, StaysKnown DEF ScreenInv, StoreInv
<1> QED
  BY <1>1, <1>2, <1>3, <1>4 DEF BrowserFits

LEMMA NoSnapshotFits ==
    ASSUME store'.version \in Nat
    PROVE  NoSnapshot \in Shot(R) /\ ShotFits(NoSnapshot)'
BY DEF NoSnapshot, Shot, R, ShotFits, AllFit

LEMMA AnswerFits ==
    ASSUME ScreenInv, StoreStep, NEW r \in requests,
           Answered(r, TRUE, store') \/ Answered(r, FALSE, NoSnapshot)
    PROVE  BrowserTypes' /\ BrowserFits'
<1>1. /\ store' \in Shot(R) /\ NoSnapshot \in Shot(R) /\ store'.version \in Nat
      /\ ShotFits(store)' /\ ShotFits(NoSnapshot)'
  <2>1. store' \in Shot(R) /\ store'.version \in Nat
    BY DEF StoreStep, StreamInv, StreamTypes, Shot
  <2>2. ShotFits(store)'
    BY StoreStaysFit DEF ScreenInv, StoreInv, StoreFits
  <2> QED
    BY <2>1, <2>2, NoSnapshotFits
<1>2. r \in RequestType
  BY DEF ScreenInv, BrowserTypes
<1> DEFINE a == [request |-> r, ok |-> TRUE, snapshot |-> store']
           f == [request |-> r, ok |-> FALSE, snapshot |-> NoSnapshot]
<1>3. a \in AnswerType /\ a.snapshot = store' /\ f \in AnswerType /\ f.snapshot = NoSnapshot
  BY <1>1, <1>2 DEF AnswerType
<1>4. /\ UNCHANGED <<shown, asked>> /\ requests' \subseteq requests
      /\ \A b \in answers' : b \in answers \/ b = a \/ b = f
  BY DEF Answered
<1> HIDE DEF a, f
<1>5. ASSUME NEW b \in answers' PROVE b \in answers \/ (b \in AnswerType /\ ShotFits(b.snapshot)')
  <2>1. CASE b = a
    BY <1>1, <1>3, <2>1 DEF ShotFits
  <2>2. CASE b = f
    BY <1>1, <1>3, <2>2 DEF ShotFits, NoSnapshot
  <2> QED
    BY <1>4, <2>1, <2>2
<1> QED
  BY <1>4, <1>5, BrowserAfterStore

LEMMA ServerKeeps ==
    ASSUME ScreenInv, ServerNext
    PROVE  ScreenInv'
<1>1. StreamInv(R) /\ StoreTypes /\ StoreFits
  BY DEF ScreenInv, StoreInv
<1>2. ASSUME NEW r \in requests, Handle(r) PROVE ScreenInv'
  <2>1. r.kind \in Kinds /\ (r.kind = "update" => r.text \in Texts)
    BY DEF ScreenInv, BrowserTypes, RequestType
  <2>2. StoreStep /\ Offered
    BY <1>1, <1>2, <2>1, DoStep, DoOffers DEF Handle
  <2> QED
    BY <1>2, <2>2, StoreInvStep, AnswerFits DEF Handle, ScreenInv
<1>3. ASSUME NEW r \in requests, Fail(r) PROVE ScreenInv'
  <2>1. StreamInv(R)' /\ UNCHANGED <<store, streams, hidden>>
    BY <1>1, <1>3, StreamUnchanged DEF Fail, streamVars
  <2>2. StoreStep /\ Offered
    BY <1>1, <2>1, RulesKeptStep DEF hidden, Offered, streams
  <2> QED
    BY <1>3, <2>2, StoreInvStep, AnswerFits DEF Fail, ScreenInv
<1>4. ASSUME OthersChange PROVE ScreenInv'
  <2>1. PICK kind \in OthersDo, id \in Ids(store.rules) \cup {0}, text \in Texts : Do(kind, id, text)
    BY <1>4 DEF OthersChange
  <2>2. StoreStep /\ Offered
    BY <1>1, <2>1, DoStep, DoOffers, ContentsAssumption
  <2> QED
    BY <1>4, <2>2, StoreInvStep, BrowserAfterStore DEF OthersChange, browser, ScreenInv
<1>5. ASSUME ControllerStarts PROVE ScreenInv'
  <2>1. StreamInv(R)' /\ store' = Snapshot(store.rules) /\ UNCHANGED <<streams, hidden>>
    BY <1>1, <1>5, RecordOrdered DEF ControllerStarts, RecordApplied
  <2>2. store'.rules = store.rules /\ store'.version = store.version + 1
    BY <2>1 DEF Snapshot
  <2>3. StoreStep /\ Offered
    BY <1>1, <2>1, <2>2, RulesKeptStep DEF hidden, Offered, streams
  <2> QED
    BY <1>5, <2>3, StoreInvStep, BrowserAfterStore DEF ControllerStarts, browser, ScreenInv
<1> QED
  BY <1>2, <1>3, <1>4, <1>5 DEF ServerNext

LEMMA ControllerShowsKeeps ==
    ASSUME ScreenInv, ControllerShows
    PROVE  ScreenInv'
<1>1. StreamInv(R) /\ StoreTypes /\ StoreFits /\ store.rules \in R
  BY StoreTyped DEF ScreenInv, StoreInv
<1>2. Publish(store.rules) /\ UNCHANGED <<hidden, browser>>
  BY DEF ControllerShows, SetRuntime
<1>3. StoreStep /\ Offered
  BY <1>1, <1>2, PublishStep, PublishOffers, RulesKeptStep DEF hidden
<1> QED
  BY <1>2, <1>3, StoreInvStep, BrowserAfterStore DEF browser, ScreenInv

LEMMA BrowserSame ==
    ASSUME ScreenInv, UNCHANGED <<store, nextRuleID, counted, shown, asked, requests, answers>>
    PROVE  BrowserTypes' /\ BrowserFits'
<1>1. BrowserTypes'
  BY DEF ScreenInv, BrowserTypes
<1> QED
  BY <1>1, SameStoreFits DEF ScreenInv, BrowserFits

LEMMA StoreInvSame ==
    ASSUME StoreInv, StreamInv(R)', UNCHANGED <<store, hidden>>, StreamFits'
    PROVE  StoreInv'
<1>1. StoreTypes'
  BY DEF StoreInv, StoreTypes, hidden
<1>2. StoreFits'
  BY SameStoreFits DEF StoreInv, StoreFits, hidden
<1> QED
  BY <1>1, <1>2 DEF StoreInv

(* A snapshot that fits is shown. *)
LEMMA ReplaceKeeps ==
    ASSUME ScreenInv, NEW x \in Shot(R), ShotFits(x), Replace(x),
           UNCHANGED <<store, nextRuleID, counted, asked, requests>>, answers' \subseteq answers
    PROVE  BrowserTypes' /\ BrowserFits'
<1>1. shown' = [snapshot |-> x, rules |-> x.rules]
  BY DEF Replace
<1>2. BrowserTypes'
  BY <1>1 DEF ScreenInv, BrowserTypes, Shot
<1>3. AllFit(shown.snapshot.version, shown.rules)'
  <2>1. AllFit(x.version, x.rules)'
    BY SameStoreFits DEF ShotFits
  <2>2. shown'.snapshot.version = x.version /\ shown'.rules = x.rules
    BY <1>1
  <2> QED
    BY <2>1, <2>2 DEF AllFit
<1> QED
  BY <1>2, <1>3, SameStoreFits DEF ScreenInv, BrowserFits

LEMMA OpenKeeps ==
    ASSUME ScreenInv, NEW s \in Streams, OpenStream(s)
    PROVE  ScreenInv'
<1>1. StreamInv(R) /\ StreamInv(R)'
  BY SubscribeOrdered DEF OpenStream, ScreenInv, StoreInv
<1>2. /\ UNCHANGED <<store, channel, hidden, shown, asked, requests, answers>>
      /\ hand' = [hand EXCEPT ![s] = <<store>>]
  BY DEF OpenStream, Subscribe
<1>3. ASSUME NEW t \in Streams, NEW k \in DOMAIN hand'[t] PROVE ShotFits(hand[t][k])'
  <2>1. hand'[t][k] = store \/ (k \in DOMAIN hand[t] /\ hand'[t][k] = hand[t][k])
    BY <1>1, <1>2 DEF StreamInv, StreamTypes
  <2>2. ShotFits(hand'[t][k])
    BY <2>1 DEF ScreenInv, StoreInv, StoreFits, StreamFits
  <2> QED
    BY <1>2, <2>2 DEF hidden, ShotFits, AllFit, Fits, Known
<1>4. StreamFits'
  BY <1>2, <1>3, SameStoreFits DEF ScreenInv, StoreInv, StreamFits, hidden
<1> QED
  BY <1>1, <1>2, <1>4, StoreInvSame, BrowserSame DEF ScreenInv, hidden

LEMMA BreakKeeps ==
    ASSUME ScreenInv, NEW s \in Streams, BreakStream(s)
    PROVE  ScreenInv'
<1>1. StreamInv(R) /\ StreamInv(R)'
  BY UnsubscribeOrdered DEF BreakStream, ScreenInv, StoreInv
<1>2. /\ UNCHANGED <<store, hidden, shown, asked, requests, answers>>
      /\ hand' = [hand EXCEPT ![s] = <<>>] /\ channel' = [channel EXCEPT ![s] = <<>>]
  BY DEF BreakStream, Unsubscribe
<1>3. StreamFits'
  <2>1. \A t \in Streams : /\ channel'[t] = channel[t] \/ channel'[t] = <<>>
                           /\ hand'[t] = hand[t] \/ hand'[t] = <<>>
    BY <1>1, <1>2 DEF StreamInv, StreamTypes
  <2> QED
    BY <1>2, <2>1, SameStoreFits DEF ScreenInv, StoreInv, StreamFits, hidden
<1> QED
  BY <1>1, <1>2, <1>3, StoreInvSame, BrowserSame DEF ScreenInv, hidden

LEMMA TakeKeeps ==
    ASSUME ScreenInv, NEW s \in Streams, HandlerTakes(s)
    PROVE  ScreenInv'
<1>1. StreamInv(R) /\ StreamInv(R)'
  BY TakeOrdered DEF HandlerTakes, ScreenInv, StoreInv
<1>2. /\ UNCHANGED <<store, hidden, shown, asked, requests, answers>> /\ channel[s] # <<>>
      /\ hand' = [hand EXCEPT ![s] = <<Head(channel[s])>>] /\ channel' = [channel EXCEPT ![s] = Tail(channel[s])]
  BY DEF HandlerTakes, Take, browser
<1> DEFINE c == channel[s]
<1>3. /\ c \in Seq(Shot(R)) /\ 1 \in DOMAIN c /\ Head(c) = c[1]
      /\ \A k \in DOMAIN Tail(c) : k + 1 \in DOMAIN c /\ Tail(c)[k] = c[k + 1]
  <2>1. c \in Seq(Shot(R)) /\ c # <<>>
    BY <1>1, <1>2 DEF StreamInv, StreamTypes
  <2> HIDE DEF c
  <2>2. /\ DOMAIN c = 1 .. Len(c) /\ Len(c) \in Nat \ {0} /\ Head(c) = c[1]
        /\ DOMAIN Tail(c) = 1 .. Len(c) - 1 /\ \A k \in 1 .. Len(c) - 1 : Tail(c)[k] = c[k + 1]
    BY <2>1, EmptySeq, LenProperties, HeadTailProperties
  <2> QED
    BY <2>1, <2>2
<1>4. \A k \in DOMAIN c : ShotFits(c[k])
  BY DEF ScreenInv, StoreInv, StreamFits
<1> HIDE DEF c
<1>5. ASSUME NEW t \in Streams, NEW k \in DOMAIN channel'[t] PROVE ShotFits(channel'[t][k])
  <2>1. CASE t = s
    <3>1. channel'[t] = Tail(c)
      BY <1>1, <1>2, <2>1 DEF c, StreamInv, StreamTypes
    <3> QED
      BY <1>3, <1>4, <3>1
  <2>2. CASE t # s
    BY <1>1, <1>2, <2>2 DEF ScreenInv, StoreInv, StreamFits, StreamInv, StreamTypes
  <2> QED
    BY <2>1, <2>2
<1>6. ASSUME NEW t \in Streams, NEW k \in DOMAIN hand'[t] PROVE ShotFits(hand'[t][k])
  <2>1. CASE t = s
    <3>1. hand'[t] = <<Head(c)>>
      BY <1>1, <1>2, <2>1 DEF c, StreamInv, StreamTypes
    <3> QED
      BY <1>3, <1>4, <3>1
  <2>2. CASE t # s
    BY <1>1, <1>2, <2>2 DEF ScreenInv, StoreInv, StreamFits, StreamInv, StreamTypes
  <2> QED
    BY <2>1, <2>2
<1>7. StreamFits'
  <2>1. ASSUME NEW t \in Streams, NEW k \in DOMAIN channel'[t] PROVE ShotFits(channel[t][k])'
    <3>1. ShotFits(channel'[t][k])
      BY <1>5
    <3> QED
      BY <1>2, <3>1 DEF hidden, ShotFits, AllFit, Fits, Known
  <2>2. ASSUME NEW t \in Streams, NEW k \in DOMAIN hand'[t] PROVE ShotFits(hand[t][k])'
    <3>1. ShotFits(hand'[t][k])
      BY <1>6
    <3> QED
      BY <1>2, <3>1 DEF hidden, ShotFits, AllFit, Fits, Known
  <2> QED
    BY <2>1, <2>2 DEF StreamFits
<1> QED
  BY <1>1, <1>2, <1>7, StoreInvSame, BrowserSame DEF ScreenInv, hidden

LEMMA MessageKeeps ==
    ASSUME ScreenInv, NEW s \in Streams, OnMessage(s)
    PROVE  ScreenInv'
<1>1. StreamInv(R) /\ StreamInv(R)'
  BY DeliverOrdered DEF OnMessage, ScreenInv, StoreInv
<1>2. /\ UNCHANGED <<store, channel, hidden, asked, requests, answers>> /\ hand[s] # <<>>
      /\ hand' = [hand EXCEPT ![s] = <<>>] /\ Replace(Head(hand[s]))
  BY DEF OnMessage, Deliver
<1> DEFINE h == hand[s]
<1>3. Head(h) \in Shot(R) /\ ShotFits(Head(h))
  <2>1. h \in Seq(Shot(R)) /\ h # <<>> /\ \A k \in DOMAIN h : ShotFits(h[k])
    BY <1>1, <1>2 DEF ScreenInv, StoreInv, StreamFits, StreamInv, StreamTypes
  <2> HIDE DEF h
  <2>2. 1 \in DOMAIN h /\ Head(h) = h[1] /\ h[1] \in Shot(R)
    BY <2>1, EmptySeq, LenProperties, HeadTailProperties, ElementOfSeq
  <2> QED
    BY <2>1, <2>2
<1>4. StreamFits'
  <2>1. \A t \in Streams : hand'[t] = hand[t] \/ hand'[t] = <<>>
    BY <1>1, <1>2 DEF StreamInv, StreamTypes
  <2> QED
    BY <1>2, <2>1, SameStoreFits DEF ScreenInv, StoreInv, StreamFits, hidden
<1>5. BrowserTypes' /\ BrowserFits'
  BY <1>2, <1>3, ReplaceKeeps DEF hidden
<1> QED
  BY <1>1, <1>2, <1>4, <1>5, StoreInvSame DEF ScreenInv

LEMMA Numbers ==
    ASSUME ScreenInv
    PROVE  asked + 1 \in Nat /\ shown.snapshot.version \in Nat
<1>1. asked \in Nat /\ shown.snapshot \in Shot(R)
  BY DEF ScreenInv, BrowserTypes
<1> QED
  BY <1>1 DEF Shot

(* A request of the operator that is about a rule on the screen. *)
LEMMA SendKeeps ==
    ASSUME ScreenInv, NEW kind \in Kinds, NEW rule, rule.id \in Nat, rule.who \in Nat,
           NEW text \in Texts \cup {""}, kind = "update" => text \in Texts,
           kind \in {"update", "delete"} => Fits(shown.snapshot.version, rule.id, rule.who),
           Send(Request(kind, rule, text)),
           shown' \in [snapshot : Shot(R), rules : R],
           AllFit(shown'.snapshot.version, shown'.rules)
    PROVE  ScreenInv'
<1> DEFINE r == Request(kind, rule, text)
<1>1. /\ UNCHANGED <<streamVars, hidden, answers>>
      /\ asked' = asked + 1 /\ requests' = requests \cup {r}
  BY DEF Send
<1>2. /\ r \in RequestType /\ r.kind = kind /\ r.text = text /\ r.id = rule.id /\ r.who = rule.who
      /\ r.version = shown.snapshot.version
  <2>1. asked + 1 \in Nat /\ shown.snapshot.version \in Nat
    BY Numbers
  <2>2. r = [n |-> asked + 1, kind |-> kind, id |-> rule.id, text |-> text, who |-> rule.who,
             version |-> shown.snapshot.version]
    BY DEF Request
  <2> HIDE DEF r
  <2> QED
    BY <2>1, <2>2 DEF RequestType
<1>3. StreamInv(R)' /\ StreamFits'
  <2>1. StreamInv(R)'
    BY <1>1, StreamUnchanged DEF ScreenInv, StoreInv, streamVars
  <2> QED
    BY <1>1, <2>1, SameStoreFits DEF ScreenInv, StoreInv, StreamFits, streamVars, streams, hidden
<1> HIDE DEF r
<1>4. BrowserTypes'
  <2>1. asked' \in Nat
    BY <1>1, Numbers
  <2>2. \A q \in requests' : q \in RequestType /\ (q.kind = "update" => q.text \in Texts)
    BY <1>1, <1>2 DEF ScreenInv, BrowserTypes
  <2>3. \A a \in answers' : a \in AnswerType
    BY <1>1 DEF ScreenInv, BrowserTypes
  <2> QED
    BY <2>1, <2>2, <2>3 DEF BrowserTypes
<1>5. AllFit(shown.snapshot.version, shown.rules)'
  BY <1>1 DEF streamVars, hidden, AllFit, Fits, Known
<1>6. ASSUME NEW q \in requests', q.kind \in {"update", "delete"} PROVE Fits(q.version, q.id, q.who)'
  <2>1. Fits(q.version, q.id, q.who)
    BY <1>1, <1>2, <1>6 DEF ScreenInv, BrowserFits
  <2> QED
    BY <1>1, <2>1, SameStoreFits DEF streamVars, hidden
<1>7. BrowserFits'
  BY <1>1, <1>5, <1>6, SameStoreFits DEF ScreenInv, BrowserFits, streamVars, hidden
<1> QED
  BY <1>1, <1>3, <1>4, <1>7, StoreInvSame DEF ScreenInv, streamVars

LEMMA OperatorKeeps ==
    ASSUME ScreenInv, OperatorNext
    PROVE  ScreenInv'
<1>1. /\ shown \in [snapshot : Shot(R), rules : R] /\ shown.rules \in R
      /\ AllFit(shown.snapshot.version, shown.rules)
  BY DEF ScreenInv, BrowserTypes, BrowserFits
<1>2. ASSUME NEW k \in DOMAIN shown.rules
      PROVE  /\ shown.rules[k].id \in Nat /\ shown.rules[k].who \in Nat
             /\ Fits(shown.snapshot.version, shown.rules[k].id, shown.rules[k].who)
  BY <1>1, RulesTyped DEF AllFit
<1>3. "update" \in Kinds /\ "delete" \in Kinds
  BY DEF Kinds
<1>4. ASSUME NEW kind \in Shortcuts, Press(kind) PROVE ScreenInv'
  <2> DEFINE x == Rule(0, "", 0)
  <2>1. x.id \in Nat /\ x.who \in Nat /\ "" \in Texts \cup {""}
    BY DEF Rule
  <2>2. kind \in Kinds \ {"update", "delete"} /\ Send(Request(kind, x, "")) /\ shown' = shown
    BY <1>4, ContentsAssumption DEF Press
  <2> HIDE DEF x
  <2> QED
    BY <1>1, <1>4, <2>1, <2>2, SendKeeps
<1>5. ASSUME NEW k \in DOMAIN shown.rules, DeleteShown(k) PROVE ScreenInv'
  <2>1. Send(Request("delete", shown.rules[k], "")) /\ shown' = shown
    BY <1>5 DEF DeleteShown
  <2> QED
    BY <1>1, <1>2, <1>3, <2>1, SendKeeps
<1>6. ASSUME NEW k \in DOMAIN shown.rules, NEW text \in Texts, ChangeShown(k, text) PROVE ScreenInv'
  <2> DEFINE old == shown.rules
             x == [old[k] EXCEPT !.text = text]
             new == [old EXCEPT ![k] = x]
  <2>1. /\ Send(Request("update", old[k], text))
        /\ shown' = [snapshot |-> shown.snapshot, rules |-> new]
    BY <1>1, <1>6 DEF ChangeShown
  <2>2. /\ x \in RuleType /\ x.id = old[k].id /\ x.who = old[k].who
        /\ k \in 1 .. Len(old) /\ DOMAIN old = 1 .. Len(old)
    BY <1>1, RulesTyped DEF RuleType
  <2>3. new \in R /\ DOMAIN new = DOMAIN old
    BY <1>1, <2>2, ExceptSeq DEF R
  <2>4. \A j \in DOMAIN old : new[j].id = old[j].id /\ new[j].who = old[j].who
    BY <2>2
  <2>5. AllFit(shown.snapshot.version, new)
    BY <1>1, <2>3, <2>4 DEF AllFit
  <2> HIDE DEF new
  <2>6. shown' \in [snapshot : Shot(R), rules : R] /\ AllFit(shown'.snapshot.version, shown'.rules)
    BY <1>1, <2>1, <2>3, <2>5
  <2> QED
    BY <1>2, <1>3, <2>1, <2>6, SendKeeps
<1> QED
  BY <1>4, <1>5, <1>6 DEF OperatorNext

LEMMA BrowserKeeps ==
    ASSUME ScreenInv, BrowserNext
    PROVE  ScreenInv'
<1>1. ASSUME UNCHANGED <<streamVars, hidden>> PROVE StoreInv'
  <2>1. StreamInv(R)'
    BY <1>1, StreamUnchanged DEF ScreenInv, StoreInv, streamVars
  <2>2. StreamFits'
    BY <1>1, SameStoreFits DEF ScreenInv, StoreInv, StreamFits, streamVars, streams, hidden
  <2> QED
    BY <1>1, <2>1, <2>2, StoreInvSame DEF ScreenInv, streamVars
<1>2. ASSUME NEW a \in answers, OnAnswer(a) PROVE ScreenInv'
  <2>1. a.snapshot \in Shot(R) /\ ShotFits(a.snapshot)
    BY DEF ScreenInv, BrowserTypes, BrowserFits, AnswerType
  <2> QED
    BY <1>1, <1>2, <2>1, ReplaceKeeps DEF OnAnswer, ScreenInv, streamVars, hidden
<1>3. ASSUME NEW a \in answers, OnFailure(a) PROVE ScreenInv'
  <2> DEFINE l == [Load EXCEPT !.n = a.request.n]
  <2>1. /\ UNCHANGED <<streamVars, hidden, shown, asked>>
        /\ answers' = answers \ {a} /\ requests' \subseteq requests \cup {l}
    BY <1>3 DEF OnFailure
  <2>2. l \in RequestType /\ l.kind = "load"
    BY DEF Load, RequestType, Kinds, ScreenInv, BrowserTypes, AnswerType
  <2> HIDE DEF l
  <2>3. BrowserTypes'
    BY <2>1, <2>2 DEF ScreenInv, BrowserTypes
  <2>4. BrowserFits'
    BY <2>1, <2>2, SameStoreFits DEF ScreenInv, BrowserFits, streamVars, hidden
  <2> QED
    BY <1>1, <2>1, <2>3, <2>4 DEF ScreenInv
<1> QED
  BY <1>2, <1>3 DEF BrowserNext

LEMMA ScreenInitInv ==
    ASSUME Init
    PROVE  ScreenInv
<1>1. Contents \subseteq R /\ \A rules \in Contents : \A k \in DOMAIN rules : rules[k].id = k
  BY ContentsAssumption DEF R
<1>2. StreamInv(R)
  BY <1>1, StreamInitInv DEF Init
<1> DEFINE rules == store.rules
<1>3. /\ rules \in R /\ Len(rules) \in Nat /\ DOMAIN rules = 1 .. Len(rules) /\ store.version = 1
      /\ \A k \in DOMAIN rules : rules[k].id = k
  BY <1>1, RulesTyped DEF Init, StreamInit
<1>4. nextRuleID = Len(rules) + 1 /\ file = rules /\ born = Len(rules) /\ counted = 0
  BY DEF Init
<1>5. StoreTypes
  BY <1>3, <1>4 DEF StoreTypes
<1>6. StoreFits
  BY <1>3, <1>4 DEF StoreFits, ShotFits, AllFit, Fits, Known
<1>7. StreamFits
  <2>1. \A s \in Streams : channel[s] = <<>> /\ hand[s] = <<>>
    BY DEF Init, StreamInit
  <2>2. DOMAIN <<>> = {}
    OBVIOUS
  <2> QED
    BY <2>1, <2>2, Zenon DEF StreamFits
<1>8. BrowserTypes
  <2>1. NothingShown \in [snapshot : Shot(R), rules : R]
    BY DEF NothingShown, NoSnapshot, Shot, R
  <2>2. Load \in RequestType /\ Load.kind = "load"
    BY DEF Load, RequestType, Kinds
  <2> QED
    BY <2>1, <2>2 DEF Init, BrowserTypes
<1>9. BrowserFits
  <2>1. AllFit(shown.snapshot.version, shown.rules)
    <3>1. shown.snapshot.version = 0 /\ shown.rules = <<>>
      BY DEF Init, NothingShown, NoSnapshot
    <3> QED
      BY <1>3, <3>1 DEF AllFit
  <2>2. answers = {} /\ \A r \in requests : r.kind = "load"
    <3>1. Load.kind = "load"
      BY DEF Load
    <3>2. answers = {} /\ requests = {Load}
      BY DEF Init
    <3> QED
      BY <3>1, <3>2
  <2> QED
    BY <2>1, <2>2 DEF BrowserFits
<1> QED
  BY <1>2, <1>5, <1>6, <1>7, <1>8, <1>9 DEF ScreenInv, StoreInv

LEMMA ScreenKeeps ==
    ASSUME ScreenInv, [Next]_vars
    PROVE  ScreenInv'
<1>1. ASSUME UNCHANGED vars PROVE ScreenInv'
  <2>1. StreamInv(R)'
    BY <1>1, StreamUnchanged DEF ScreenInv, StoreInv, vars, streamVars
  <2>2. StreamFits'
    BY <1>1, SameStoreFits DEF ScreenInv, StoreInv, StreamFits, vars, streamVars, streams, hidden
  <2> QED
    BY <1>1, <2>1, <2>2, StoreInvSame, BrowserSame DEF ScreenInv, vars, streamVars, hidden, browser
<1> QED
  BY <1>1, OperatorKeeps, ServerKeeps, BrowserKeeps, ControllerShowsKeeps, OpenKeeps, BreakKeeps,
     TakeKeeps, MessageKeeps DEF Next, StreamWorks

\* While the operator works on the screen and everybody else changes the store, the
\* snapshots still arrive on each stream in the order the store had them.
THEOREM ScreenStreamsAreInOrder == Spec => []StreamInOrder
<1>1. Init => ScreenInv
  BY ScreenInitInv
<1>2. ScreenInv /\ [Next]_vars => ScreenInv'
  BY ScreenKeeps
<1>3. ScreenInv => StreamInOrder
  BY OrderedPipeline DEF ScreenInv, StoreInv, StreamInOrder
<1> QED
  BY <1>1, <1>2, <1>3, PTL DEF Spec

\* An edit or a deletion that is on its way never meets another rule under the
\* identifier of its own until the identifiers are counted anew (store.go: NewRule,
\* nextRuleIDValue, resetIDCountersLocked; App.tsx), whatever was deleted, made or
\* saved since the screen it was made on, and however many requests overtake it.
THEOREM EditsHitTheirRules == Spec => []EditHitsItsRule
<1>1. Init => ScreenInv
  BY ScreenInitInv
<1>2. ScreenInv /\ [Next]_vars => ScreenInv'
  BY ScreenKeeps
<1>3. ScreenInv => EditHitsItsRule
  BY DEF ScreenInv, BrowserFits, EditHitsItsRule, Fits, Known
<1> QED
  BY <1>1, <1>2, <1>3, PTL DEF Spec
=============================================================================
