--------------------------- MODULE DataPathProofs ---------------------------
(***************************************************************************)
(* Proofs about DataPath, for every configuration, every peer and every    *)
(* number of messages.                                                     *)
(***************************************************************************)
EXTENDS DataPath, SequenceTheorems, FiniteSetTheorems, NaturalsInduction, WellFoundedInduction, TLAPS

-----------------------------------------------------------------------------
(***************************************************************************)
(* Sequences of messages.                                                  *)
(***************************************************************************)
LEMMA Lengths ==
    ASSUME NEW s, IsSequence(s)
    PROVE  /\ s \in Seq(ToSet(s)) /\ Len(s) \in Nat /\ DOMAIN s = 1..Len(s)
           /\ s = <<>> <=> Len(s) = 0
BY LenProperties, EmptySeq DEF IsSequence

LEMMA IsSequenceOf ==
    ASSUME NEW S, NEW s \in Seq(S)
    PROVE  IsSequence(s)
<1>1. Len(s) \in Nat /\ DOMAIN s = 1..Len(s) /\ s \in [1..Len(s) -> S]
  BY LenProperties
<1>2. s \in [1..Len(s) -> ToSet(s)]
  BY <1>1 DEF ToSet
<1> QED
  BY <1>1, <1>2, IsASeq DEF IsSequence

LEMMA MessageFields ==
    ASSUME NEW a, NEW b, NEW w \in BOOLEAN, NEW n, NEW c
    PROVE  IsMessage([stream |-> a, function |-> b, wbit |-> w, system |-> n, body |-> c])
BY DEF IsMessage

LEMMA Numbered ==
    ASSUME NEW m, IsMessage(m), NEW w
    PROVE  LET n == [m EXCEPT !.system = w]
           IN  /\ IsMessage(n) /\ n.system = w /\ n.wbit = m.wbit
               /\ n.stream = m.stream /\ n.function = m.function /\ n.body = m.body
               /\ Shown(n) = Shown(m) /\ Shown(m) = [m EXCEPT !.system = 0]
<1>1. ASSUME NEW a, NEW b, NEW c, NEW d, NEW e, NEW v
      PROVE  [[stream |-> a, function |-> b, wbit |-> c, system |-> d, body |-> e] EXCEPT !.system = v]
               = [stream |-> a, function |-> b, wbit |-> c, system |-> v, body |-> e]
  OBVIOUS
<1>2. PICK a, b, c, d, e :
        /\ m = [stream |-> a, function |-> b, wbit |-> c, system |-> d, body |-> e]
        /\ c \in BOOLEAN
  BY DEF IsMessage
<1>3. [m EXCEPT !.system = w] = [stream |-> a, function |-> b, wbit |-> c, system |-> w, body |-> e]
  BY <1>1, <1>2
<1>4. Shown(m) = [stream |-> a, function |-> b, wbit |-> c, system |-> 0, body |-> e]
  BY <1>1, <1>2 DEF Shown
<1>5. Shown([m EXCEPT !.system = w]) = Shown(m)
  BY <1>1, <1>3, <1>4 DEF Shown
<1>6. IsMessage([m EXCEPT !.system = w])
  BY <1>2, <1>3, MessageFields
<1> QED
  BY <1>2, <1>3, <1>5, <1>6 DEF Shown

LEMMA NoMessages == IsMessages(<<>>) /\ Len(<<>>) = 0 /\ DOMAIN <<>> = {}
<1>1. <<>> \in Seq({}) /\ Len(<<>>) = 0
  BY EmptySeq
<1>2. DOMAIN <<>> = {}
  BY <1>1, LenProperties
<1>3. IsSequence(<<>>)
  BY <1>1, IsSequenceOf
<1> QED
  BY <1>1, <1>2, <1>3 DEF IsMessages

LEMMA AppendMessage ==
    ASSUME NEW s, IsMessages(s), NEW m, IsMessage(m)
    PROVE  /\ IsMessages(Append(s, m))
           /\ Len(Append(s, m)) = Len(s) + 1
           /\ DOMAIN Append(s, m) = 1..Len(s) + 1
           /\ \A k \in DOMAIN s : Append(s, m)[k] = s[k]
           /\ Append(s, m)[Len(s) + 1] = m
<1>1. /\ Len(s) \in Nat /\ DOMAIN s = 1..Len(s) /\ s \in Seq(ToSet(s) \cup {m})
  <2>1. s \in Seq(ToSet(s))
    BY Lengths DEF IsMessages
  <2> QED
    BY <2>1, SeqMonotonic, Lengths DEF IsMessages
<1>2. Append(s, m) \in Seq(ToSet(s) \cup {m})
  BY <1>1, AppendProperties
<1>3. /\ Len(Append(s, m)) = Len(s) + 1
      /\ \A k \in DOMAIN s : Append(s, m)[k] = s[k]
      /\ Append(s, m)[Len(s) + 1] = m
  BY <1>1, AppendProperties
<1>4. DOMAIN Append(s, m) = 1..Len(s) + 1
  BY <1>2, <1>3, LenProperties
<1>5. ASSUME NEW k \in DOMAIN Append(s, m) PROVE IsMessage(Append(s, m)[k])
  <2>1. k = Len(s) + 1 \/ k \in DOMAIN s
    BY <1>1, <1>4
  <2> QED
    BY <1>3, <2>1 DEF IsMessages
<1> QED
  BY <1>2, <1>3, <1>4, <1>5, IsSequenceOf DEF IsMessages

LEMMA OneMessage ==
    ASSUME NEW m, IsMessage(m)
    PROVE  IsMessages(<<m>>) /\ Len(<<m>>) = 1 /\ DOMAIN <<m>> = {1} /\ <<m>>[1] = m
<1>1. <<m>> \in Seq({m}) /\ Len(<<m>>) = 1 /\ <<m>>[1] = m
  OBVIOUS
<1>2. DOMAIN <<m>> = {1}
  BY <1>1, LenProperties
<1> QED
  BY <1>1, <1>2, IsSequenceOf DEF IsMessages

LEMMA TailMessages ==
    ASSUME NEW s, IsMessages(s), s # <<>>
    PROVE  /\ IsMessages(Tail(s)) /\ Len(Tail(s)) = Len(s) - 1 /\ Len(s) \in Nat \ {0}
           /\ DOMAIN Tail(s) = 1..Len(s) - 1
           /\ \A k \in DOMAIN Tail(s) : k + 1 \in DOMAIN s /\ Tail(s)[k] = s[k + 1]
           /\ Head(s) = s[1] /\ 1 \in DOMAIN s /\ IsMessage(Head(s))
<1>1. /\ s \in Seq(ToSet(s)) /\ Len(s) \in Nat \ {0} /\ DOMAIN s = 1..Len(s)
  BY Lengths DEF IsMessages
<1>2. /\ Tail(s) \in Seq(ToSet(s)) /\ Len(Tail(s)) = Len(s) - 1
      /\ \A k \in 1..Len(Tail(s)) : Tail(s)[k] = s[k + 1]
      /\ Head(s) = s[1]
  BY <1>1, HeadTailProperties, EmptySeq
<1>3. DOMAIN Tail(s) = 1..Len(s) - 1
  BY <1>2, LenProperties
<1>4. \A k \in DOMAIN Tail(s) : k + 1 \in DOMAIN s /\ Tail(s)[k] = s[k + 1]
  BY <1>1, <1>2, <1>3
<1>5. IsMessages(Tail(s))
  <2>1. IsSequence(Tail(s))
    BY <1>2, IsSequenceOf
  <2> QED
    BY <1>4, <2>1 DEF IsMessages
<1>6. 1 \in DOMAIN s /\ IsMessage(Head(s))
  BY <1>1, <1>2 DEF IsMessages
<1> QED
  BY <1>1, <1>2, <1>3, <1>4, <1>5, <1>6

\* The messages of r are those of s and then those of t.
Joins(r, s, t) ==
    /\ Len(r) = Len(s) + Len(t) /\ DOMAIN r = 1..Len(s) + Len(t)
    /\ \A k \in DOMAIN s : r[k] = s[k]
    /\ \A k \in DOMAIN t : r[Len(s) + k] = t[k]

LEMMA JoinMessages ==
    ASSUME NEW s, IsMessages(s), NEW t, IsMessages(t)
    PROVE  IsMessages(s \o t) /\ Joins(s \o t, s, t)
<1>1. /\ Len(s) \in Nat /\ DOMAIN s = 1..Len(s) /\ s \in Seq(ToSet(s) \cup ToSet(t))
      /\ Len(t) \in Nat /\ DOMAIN t = 1..Len(t) /\ t \in Seq(ToSet(s) \cup ToSet(t))
  <2>1. s \in Seq(ToSet(s)) /\ t \in Seq(ToSet(t))
    BY Lengths DEF IsMessages
  <2> QED
    BY <2>1, SeqMonotonic, Lengths DEF IsMessages
<1>2. /\ s \o t \in Seq(ToSet(s) \cup ToSet(t)) /\ Len(s \o t) = Len(s) + Len(t)
      /\ \A i \in 1..Len(s) + Len(t) :
           (s \o t)[i] = IF i <= Len(s) THEN s[i] ELSE t[i - Len(s)]
  BY <1>1, ConcatProperties
<1>3. DOMAIN (s \o t) = 1..Len(s) + Len(t)
  BY <1>2, LenProperties
<1>4. \A k \in DOMAIN s : (s \o t)[k] = s[k]
  BY <1>1, <1>2
<1>5. \A k \in DOMAIN t : (s \o t)[Len(s) + k] = t[k]
  <2> SUFFICES ASSUME NEW k \in DOMAIN t PROVE (s \o t)[Len(s) + k] = t[k]
    OBVIOUS
  <2>1. /\ Len(s) + k \in 1..Len(s) + Len(t) /\ ~(Len(s) + k <= Len(s))
        /\ Len(s) + k - Len(s) = k
    BY <1>1
  <2> QED
    BY <1>2, <2>1
<1>6. ASSUME NEW k \in DOMAIN (s \o t) PROVE IsMessage((s \o t)[k])
  <2>1. CASE k <= Len(s)
    BY <1>1, <1>3, <1>4, <2>1 DEF IsMessages
  <2>2. CASE ~(k <= Len(s))
    <3>1. k - Len(s) \in DOMAIN t /\ k \in 1..Len(s) + Len(t)
      BY <1>1, <1>3, <2>2
    <3> QED
      BY <1>2, <2>2, <3>1 DEF IsMessages
  <2> QED
    BY <2>1, <2>2
<1> QED
  BY <1>2, <1>3, <1>4, <1>5, <1>6, IsSequenceOf DEF IsMessages, Joins

LEMMA PartOfMessages ==
    ASSUME NEW s, IsMessages(s), NEW a \in Nat \ {0}, NEW b \in Nat, b <= Len(s), a <= b + 1
    PROVE  /\ IsMessages(SubSeq(s, a, b)) /\ Len(SubSeq(s, a, b)) = b + 1 - a
           /\ DOMAIN SubSeq(s, a, b) = 1..b + 1 - a
           /\ \A k \in 1..b + 1 - a : SubSeq(s, a, b)[k] = s[a + k - 1] /\ a + k - 1 \in DOMAIN s
<1>1. s \in Seq(ToSet(s)) /\ Len(s) \in Nat /\ DOMAIN s = 1..Len(s)
  BY Lengths DEF IsMessages
<1>2. \A k \in 1..b + 1 - a : a + k - 1 \in DOMAIN s
  BY <1>1
<1>3. \A i \in a..b : s[i] \in ToSet(s)
  BY <1>1 DEF ToSet
<1>4. /\ SubSeq(s, a, b) \in Seq(ToSet(s)) /\ Len(SubSeq(s, a, b)) = b + 1 - a
      /\ \A k \in 1..b + 1 - a : SubSeq(s, a, b)[k] = s[a + k - 1]
  <2>1. a \in Int /\ b \in Int /\ b + 1 - a = b - a + 1
    OBVIOUS
  <2>2. /\ SubSeq(s, a, b) \in Seq(ToSet(s))
        /\ Len(SubSeq(s, a, b)) = IF a <= b THEN b - a + 1 ELSE 0
        /\ \A k \in 1..b - a + 1 : SubSeq(s, a, b)[k] = s[a + k - 1]
    BY <1>3, <2>1, SubSeqProperties
  <2> QED
    BY <2>1, <2>2
<1>5. DOMAIN SubSeq(s, a, b) = 1..b + 1 - a
  BY <1>4, LenProperties
<1> QED
  BY <1>2, <1>4, <1>5, IsSequenceOf DEF IsMessages

\* The place, in the part after i, of what was at k + 1.
LEMMA PlaceAfter ==
    ASSUME NEW l \in Nat, NEW i \in Nat \ {0}, NEW k \in 1..l - 1, ~(k < i)
    PROVE  /\ k - i + 1 \in 1..l - i
           /\ i - 1 + (k - i + 1) = k
           /\ i + 1 + (k - i + 1) - 1 = k + 1
OBVIOUS

LEMMA RemoveMessage ==
    ASSUME NEW s, IsMessages(s), NEW i \in DOMAIN s
    PROVE  /\ IsMessages(RemoveAt(s, i)) /\ Len(RemoveAt(s, i)) = Len(s) - 1
           /\ DOMAIN RemoveAt(s, i) = 1..Len(s) - 1
           /\ \A k \in 1..Len(s) - 1 : RemoveAt(s, i)[k] = IF k < i THEN s[k] ELSE s[k + 1]
<1>1. s \in Seq(ToSet(s)) /\ Len(s) \in Nat /\ DOMAIN s = 1..Len(s)
  BY Lengths DEF IsMessages
<1> DEFINE a == SubSeq(s, 1, i - 1)
           b == SubSeq(s, i + 1, Len(s))
<1>2. /\ i \in Nat \ {0} /\ i <= Len(s) /\ i - 1 \in Nat /\ i + 1 \in Nat \ {0}
      /\ i - 1 + 1 - 1 = i - 1 /\ Len(s) + 1 - (i + 1) = Len(s) - i
  BY <1>1
<1>3. /\ IsMessages(a) /\ Len(a) = i - 1 /\ DOMAIN a = 1..i - 1
      /\ \A k \in 1..i - 1 : a[k] = s[k]
  <2>1. \A k \in 1..i - 1 : 1 + k - 1 = k
    BY <1>2
  <2>2. /\ IsMessages(a) /\ Len(a) = i - 1 + 1 - 1 /\ DOMAIN a = 1..i - 1 + 1 - 1
        /\ \A k \in 1..i - 1 + 1 - 1 : a[k] = s[1 + k - 1]
    BY <1>1, <1>2, PartOfMessages
  <2> QED
    BY <1>2, <2>1, <2>2
<1>4. /\ IsMessages(b) /\ Len(b) = Len(s) - i /\ DOMAIN b = 1..Len(s) - i
      /\ \A k \in 1..Len(s) - i : b[k] = s[i + 1 + k - 1]
  <2>1. /\ IsMessages(b) /\ Len(b) = Len(s) + 1 - (i + 1) /\ DOMAIN b = 1..Len(s) + 1 - (i + 1)
        /\ \A k \in 1..Len(s) + 1 - (i + 1) : b[k] = s[i + 1 + k - 1]
    <3>1. Len(s) \in Nat /\ Len(s) <= Len(s) /\ i + 1 <= Len(s) + 1 /\ i + 1 \in Nat \ {0}
      BY <1>1, <1>2
    <3> QED
      BY <3>1, PartOfMessages
  <2> QED
    BY <1>2, <2>1
<1>5. RemoveAt(s, i) = a \o b
  BY DEF RemoveAt
<1> HIDE DEF a, b
<1>6. /\ IsMessages(a \o b) /\ Len(a \o b) = Len(s) - 1 /\ DOMAIN (a \o b) = 1..Len(s) - 1
      /\ \A k \in 1..i - 1 : (a \o b)[k] = s[k]
      /\ \A k \in 1..Len(s) - i : (a \o b)[i - 1 + k] = s[i + 1 + k - 1]
  <2>1. /\ IsMessages(a \o b) /\ Len(a \o b) = Len(a) + Len(b)
        /\ DOMAIN (a \o b) = 1..Len(a) + Len(b)
        /\ \A k \in DOMAIN a : (a \o b)[k] = a[k]
        /\ \A k \in DOMAIN b : (a \o b)[Len(a) + k] = b[k]
    <3>1. IsMessages(a \o b) /\ Joins(a \o b, a, b)
      BY <1>3, <1>4, JoinMessages
    <3> QED
      BY <3>1 DEF Joins
  <2>2. Len(a) + Len(b) = Len(s) - 1
    BY <1>1, <1>2, <1>3, <1>4
  <2>3. \A k \in 1..i - 1 : (a \o b)[k] = s[k]
    BY <1>3, <2>1
  <2>4. \A k \in 1..Len(s) - i : (a \o b)[i - 1 + k] = s[i + 1 + k - 1]
    BY <1>3, <1>4, <2>1
  <2> QED
    BY <2>1, <2>2, <2>3, <2>4
<1>7. ASSUME NEW k \in 1..Len(s) - 1
      PROVE  (a \o b)[k] = IF k < i THEN s[k] ELSE s[k + 1]
  <2>1. CASE k < i
    <3>1. k \in 1..i - 1
      BY <1>1, <1>2, <2>1
    <3> QED
      BY <1>6, <2>1, <3>1
  <2>2. CASE ~(k < i)
    <3> DEFINE j == k - i + 1
    <3>1. j \in 1..Len(s) - i /\ i - 1 + j = k /\ i + 1 + j - 1 = k + 1
      <4>1. Len(s) \in Nat /\ i \in Nat \ {0}
        BY <1>1, <1>2
      <4> QED
        BY <2>2, <4>1, PlaceAfter
    <3> HIDE DEF j
    <3>2. (a \o b)[i - 1 + j] = s[i + 1 + j - 1]
      BY <1>6, <3>1
    <3>3. (a \o b)[k] = s[k + 1]
      BY <3>1, <3>2
    <3> QED
      BY <2>2, <3>3
  <2> QED
    BY <2>1, <2>2
<1> QED
  BY <1>5, <1>6, <1>7

-----------------------------------------------------------------------------
(***************************************************************************)
(* The steps of the scripts send requests, or nothing.                     *)
(***************************************************************************)
Sends(step) == IsMessage(step.send) /\ step.send.wbit = TRUE

LEMMA StepSends ==
    ASSUME NEW a, NEW b, NEW c, NEW x, NEW y, NEW f
    PROVE  Sends(Step(Ask(a, b, c), x, y, f))
BY MessageFields DEF Sends, Step, Ask

LEMMA AckedSends ==
    ASSUME NEW a, NEW b, NEW c, NEW y
    PROVE  Sends(Acked(Ask(a, b, c), y))
BY StepSends DEF Acked

LEMMA EventSends ==
    ASSUME NEW a, NEW b, NEW c, NEW n
    PROVE  Sends(EventAfter(Ask(a, b, c), n))
BY StepSends DEF EventAfter

LEMMA ElevenSteps ==
    ASSUME NEW a, Sends(a), NEW b, Sends(b), NEW c, Sends(c), NEW d, Sends(d), NEW e, Sends(e),
           NEW f, Sends(f), NEW g, Sends(g), NEW i, Sends(i), NEW j, Sends(j), NEW l, Sends(l),
           NEW m, Sends(m)
    PROVE  LET s == <<a, b, c, d, e, f, g, i, j, l, m>>
           IN  IsSequence(s) /\ Len(s) = 11 /\ DOMAIN s = 1..11 /\ \A k \in 1..11 : Sends(s[k])
<1> DEFINE s == <<a, b, c, d, e, f, g, i, j, l, m>>
<1>1. s \in Seq({a, b, c, d, e, f, g, i, j, l, m}) /\ Len(s) = 11
  OBVIOUS
<1>2. DOMAIN s = 1..11
  BY <1>1, LenProperties
<1>3. \A k \in 1..11 : s[k] \in {a, b, c, d, e, f, g, i, j, l, m}
  BY <1>1, <1>2, ElementOfSeq
<1>4. IsSequence(s)
  BY <1>1, IsSequenceOf
<1> HIDE DEF s
<1>5. \A k \in 1..11 : Sends(s[k])
  BY <1>3
<1> QED
  BY <1>1, <1>2, <1>4, <1>5 DEF s

LEMMA ConveyorSends ==
    ASSUME NEW name
    PROVE  /\ IsSequence(Conveyor(name)) /\ Len(Conveyor(name)) = 18
           /\ \A k \in 1..18 : Sends(Conveyor(name)[k])
<1> DEFINE s == <<EventAfter(S1F17, 3), AckedAfter(1, 18), Acked(S2F31, 32), Acked(S2F15(name), 16),
                  Acked(S2F37, 38), Acked(S2F33, 34), Acked(S2F35, 36), Acked(S2F37, 38),
                  Acked(S5F3, 4), Step(S2F41("PAUSE"), 2, 42, Form("command", 0)),
                  EventAfter(Silent, 57)>>
           t == [k \in DOMAIN StatusSVIDs |->
                  Step(S1F3(StatusSVIDs[k]), 1, 4, Form("status", StatusSVIDs[k]))]
<1>1. IsSequence(s) /\ Len(s) = 11 /\ DOMAIN s = 1..11 /\ \A k \in 1..11 : Sends(s[k])
  <2>1. Sends(EventAfter(S1F17, 3)) /\ Sends(EventAfter(Silent, 57))
    BY EventSends DEF S1F17, Silent
  <2>2. Sends(AckedAfter(1, 18))
    BY StepSends DEF AckedAfter, Silent
  <2>3. Sends(Acked(S2F31, 32)) /\ Sends(Acked(S2F15(name), 16)) /\ Sends(Acked(S2F37, 38))
    BY AckedSends DEF S2F31, S2F15, S2F37
  <2>4. Sends(Acked(S2F33, 34)) /\ Sends(Acked(S2F35, 36)) /\ Sends(Acked(S5F3, 4))
    BY AckedSends DEF S2F33, S2F35, S5F3
  <2>5. Sends(Step(S2F41("PAUSE"), 2, 42, Form("command", 0)))
    BY StepSends DEF S2F41
  <2> QED
    BY <2>1, <2>2, <2>3, <2>4, <2>5, ElevenSteps
<1>2. IsSequence(t) /\ Len(t) = 7 /\ DOMAIN t = 1..7 /\ \A k \in 1..7 : Sends(t[k])
  <2>1. DOMAIN StatusSVIDs = 1..7
    BY DEF StatusSVIDs
  <2>2. ASSUME NEW k \in 1..7 PROVE Sends(t[k])
    BY <2>1, StepSends DEF S1F3
  <2>3. t \in [1..7 -> {t[k] : k \in 1..7}]
    BY <2>1
  <2>4. t \in Seq({t[k] : k \in 1..7}) /\ DOMAIN t = 1..7
    BY <2>1, <2>3, IsASeq
  <2>5. Len(t) = 7
    BY <2>4, LenProperties
  <2> QED
    BY <2>2, <2>4, <2>5, IsSequenceOf
<1>3. Conveyor(name) = s \o t
  BY DEF Conveyor
<1> HIDE DEF s, t
<1>4. s \in Seq(ToSet(s) \cup ToSet(t)) /\ t \in Seq(ToSet(s) \cup ToSet(t))
  BY <1>1, <1>2, SeqMonotonic DEF IsSequence
<1>5. /\ s \o t \in Seq(ToSet(s) \cup ToSet(t)) /\ Len(s \o t) = 18
      /\ \A k \in 1..18 : (s \o t)[k] = IF k <= 11 THEN s[k] ELSE t[k - 11]
  <2>1. /\ s \o t \in Seq(ToSet(s) \cup ToSet(t)) /\ Len(s \o t) = Len(s) + Len(t)
        /\ \A k \in 1..Len(s) + Len(t) :
             (s \o t)[k] = IF k <= Len(s) THEN s[k] ELSE t[k - Len(s)]
    BY <1>4, ConcatProperties
  <2>2. Len(s) = 11 /\ Len(t) = 7 /\ Len(s) + Len(t) = 18
    BY <1>1, <1>2
  <2> QED
    BY <2>1, <2>2
<1>6. ASSUME NEW k \in 1..18 PROVE Sends((s \o t)[k])
  <2>1. CASE k <= 11
    <3>1. k \in 1..11
      BY <2>1
    <3> QED
      BY <1>1, <1>5, <2>1, <3>1
  <2>2. CASE ~(k <= 11)
    <3>1. k - 11 \in 1..7
      BY <2>2
    <3> QED
      BY <1>2, <1>5, <2>2, <3>1
  <2> QED
    BY <2>1, <2>2
<1> QED
  BY <1>3, <1>5, <1>6, IsSequenceOf

LEMMA StockerSends ==
    /\ IsSequence(Stocker) /\ Len(Stocker) = 3
    /\ \A k \in 1..3 : Sends(Stocker[k])
<1> DEFINE a == Step(S1F13, 1, 14, Form("establish", 0))
           b == Acked(S1F17, 18)
           c == Acked(S2F31, 32)
<1>1. Sends(a) /\ Sends(b) /\ Sends(c)
  BY StepSends, AckedSends DEF S1F13, S1F17, S2F31
<1>2. Stocker = <<a, b, c>>
  BY DEF Stocker
<1> HIDE DEF a, b, c
<1>3. <<a, b, c>> \in Seq({a, b, c}) /\ Len(<<a, b, c>>) = 3
  OBVIOUS
<1>4. \A k \in 1..3 : <<a, b, c>>[k] \in {a, b, c}
  BY <1>3, ElementOfSeq
<1> QED
  BY <1>1, <1>2, <1>3, <1>4, IsSequenceOf

\* Every step of every script, whatever the equipment is called.
LEMMA StepsSend ==
    ASSUME NEW p, NEW name
    PROVE  /\ DOMAIN Steps(p, name) = 1..Len(Steps(p, "")) /\ Len(Steps(p, "")) \in Nat
           /\ Steps(p, name) # <<>> => 1 \in DOMAIN Steps(p, name)
           /\ \A k \in DOMAIN Steps(p, name) : Sends(Steps(p, name)[k])
<1> DEFINE s == Steps(p, name)
           z == Steps(p, "")
<1>1. \/ s = Stocker /\ z = Stocker
      \/ s = Conveyor(name) /\ z = Conveyor("")
      \/ s = <<>> /\ z = <<>>
  BY DEF Steps
<1>2. IsSequence(s) /\ IsSequence(z) /\ Len(s) = Len(z)
  BY <1>1, StockerSends, ConveyorSends, NoMessages DEF IsMessages
<1>3. \A k \in 1..Len(s) : Sends(s[k])
  <2>1. CASE s = Stocker
    BY <2>1, StockerSends
  <2>2. CASE s = Conveyor(name)
    BY <2>2, ConveyorSends
  <2>3. CASE s = <<>>
    BY <2>3, NoMessages
  <2> QED
    BY <1>1, <2>1, <2>2, <2>3
<1> HIDE DEF s, z
<1>4. Len(s) \in Nat /\ DOMAIN s = 1..Len(s) /\ (s = <<>> <=> Len(s) = 0)
  BY <1>2, Lengths
<1>5. s # <<>> => 1 \in DOMAIN s
  BY <1>4
<1> QED
  BY <1>2, <1>3, <1>4, <1>5 DEF s, z

-----------------------------------------------------------------------------
(***************************************************************************)
(* Rules, and what is made of them.                                        *)
(***************************************************************************)
LEMMA LeastNatural ==
    ASSUME NEW T \in SUBSET Nat, T # {}
    PROVE  \E m \in T : \A n \in T : m <= n
<1>1. PICK m \in T : \A n \in T : ~(<<n, m>> \in OpToRel(<, Nat))
  BY NatLessThanWellFounded, WFMin, Zenon
<1>2. ASSUME NEW n \in T PROVE m <= n
  <2>1. ~(n < m)
    BY <1>1, Zenon DEF OpToRel
  <2> QED
    BY <2>1
<1> QED
  BY <1>2

LEMMA MinIsIn ==
    ASSUME NEW S \in SUBSET Nat, S # {}
    PROVE  Min(S) \in S
<1>1. \E x \in S : \A y \in S : x <= y
  BY LeastNatural
<1> QED
  BY <1>1 DEF Min

LEMMA FirstMatchIs ==
    ASSUME NEW list \in RuleLists, NEW m
    PROVE  \/ FirstMatch(list, m) = NoRule
           \/ \E k \in DOMAIN list : FirstMatch(list, m) = list[k]
<1> DEFINE Hits == {k \in DOMAIN list : list[k].stream = m.stream /\ list[k].function = m.function}
<1>1. CASE Hits = {}
  BY <1>1 DEF FirstMatch
<1>2. CASE Hits # {}
  <2>1. IsSequence(list)
    BY DataPathAssumption DEF DataPathAssumption
  <2>2. Hits \in SUBSET Nat
    BY <2>1, Lengths
  <2>3. Min(Hits) \in Hits
    BY <1>2, <2>2, MinIsIn
  <2>4. FirstMatch(list, m) = list[Min(Hits)]
    BY <1>2 DEF FirstMatch
  <2> HIDE DEF Hits
  <2>5. Min(Hits) \in DOMAIN list
    BY <2>3 DEF Hits
  <2> QED
    BY <2>4, <2>5
<1> QED
  BY <1>1, <1>2

LEMMA RuleFacts ==
    ASSUME NEW list \in RuleLists, NEW m, FirstMatch(list, m) # NoRule
    PROVE  /\ IsMessages(FirstMatch(list, m).actions) /\ FirstMatch(list, m).id # 0
           /\ \E k \in DOMAIN list : FirstMatch(list, m) = list[k]
<1>1. PICK k \in DOMAIN list : FirstMatch(list, m) = list[k]
  BY FirstMatchIs
<1>2. list[k].id # 0 /\ IsMessages(list[k].actions)
  BY DataPathAssumption DEF DataPathAssumption
<1> QED
  BY <1>1, <1>2

\* Replies, answers and acknowledgements.
LEMMA AnswerIs ==
    ASSUME NEW m, NEW b
    PROVE  /\ IsMessage(Answer(m, b)) /\ Answer(m, b).wbit = FALSE
           /\ Answer(m, b).system = m.system /\ Answer(m, b).stream = m.stream
           /\ Answer(m, b).body = b
BY MessageFields DEF Answer

LEMMA ReplyIs ==
    ASSUME NEW rule, NEW m
    PROVE  /\ IsMessage(RuleReply(rule, m)) /\ RuleReply(rule, m).wbit = FALSE
           /\ RuleReply(rule, m).system = m.system
BY MessageFields DEF RuleReply

LEMMA AutoIs ==
    ASSUME NEW m
    PROVE  /\ IsMessage(AutoAnswer(m)) /\ AutoAnswer(m).wbit = FALSE
           /\ AutoAnswer(m).system = m.system
BY AnswerIs DEF AutoAnswer

LEMMA HostIs ==
    ASSUME NEW c, NEW m
    PROVE  \/ HostAnswers(c, m) = <<>>
           \/ /\ HostAnswers(c, m) = <<Answer(m, Ack)>>
              /\ m.stream = 6
BY DEF HostAnswers

-----------------------------------------------------------------------------
(***************************************************************************)
(* What the reader handles.                                                *)
(***************************************************************************)
Fields(m, s, r, i, q, a) == [message |-> m, settings |-> s, rules |-> r,
                             matched |-> i, responses |-> q, asks |-> a]
IsHand(x) ==
    /\ x = Fields(x.message, x.settings, x.rules, x.matched, x.responses, x.asks)
    /\ IsMessage(x.message) /\ IsMessages(x.responses) /\ Sends([send |-> x.asks])

LEMMA FieldsOf ==
    ASSUME NEW m, NEW s, NEW r, NEW i, NEW q, NEW a, NEW v
    PROVE  LET x == Fields(m, s, r, i, q, a)
           IN  /\ x.message = m /\ x.settings = s /\ x.rules = r
               /\ x.matched = i /\ x.responses = q /\ x.asks = a
               /\ [x EXCEPT !.message = v] = Fields(v, s, r, i, q, a)
               /\ [x EXCEPT !.matched = v] = Fields(m, s, r, v, q, a)
               /\ [x EXCEPT !.responses = v] = Fields(m, s, r, i, v, a)
               /\ [x EXCEPT !.asks = v] = Fields(m, s, r, i, q, v)
BY DEF Fields

LEMMA HandIs ==
    ASSUME NEW m, IsMessage(m), NEW s, NEW r, NEW i, NEW q, IsMessages(q),
           NEW a, IsMessage(a), a.wbit = TRUE
    PROVE  IsHand(Fields(m, s, r, i, q, a))
BY FieldsOf DEF IsHand, Sends

LEMMA HandParts ==
    ASSUME NEW x, IsHand(x)
    PROVE  /\ IsMessage(x.message) /\ IsMessages(x.responses)
           /\ IsMessage(x.asks) /\ x.asks.wbit = TRUE
BY DEF IsHand, Sends

SameFields(x, y) == x.message = y.message /\ x.settings = y.settings /\ x.rules = y.rules

LEMMA HandChanged ==
    ASSUME NEW x, IsHand(x), NEW v
    PROVE  /\ [x EXCEPT !.matched = v].matched = v
           /\ [x EXCEPT !.matched = v].responses = x.responses
           /\ [x EXCEPT !.matched = v].asks = x.asks
           /\ SameFields([x EXCEPT !.matched = v], x)
           /\ IsHand([x EXCEPT !.matched = v])
           /\ [x EXCEPT !.responses = v].matched = x.matched
           /\ [x EXCEPT !.responses = v].responses = v
           /\ [x EXCEPT !.responses = v].asks = x.asks
           /\ SameFields([x EXCEPT !.responses = v], x)
           /\ IsMessages(v) => IsHand([x EXCEPT !.responses = v])
           /\ [x EXCEPT !.asks = v].matched = x.matched
           /\ [x EXCEPT !.asks = v].responses = x.responses
           /\ [x EXCEPT !.asks = v].asks = v
           /\ SameFields([x EXCEPT !.asks = v], x)
           /\ IsMessage(v) /\ v.wbit = TRUE => IsHand([x EXCEPT !.asks = v])
<1>1. PICK m, s, r, i, q, a : x = Fields(m, s, r, i, q, a)
  BY DEF IsHand
<1>2. /\ x.message = m /\ x.settings = s /\ x.rules = r /\ x.matched = i /\ x.responses = q /\ x.asks = a
      /\ [x EXCEPT !.matched = v] = Fields(m, s, r, v, q, a)
      /\ [x EXCEPT !.responses = v] = Fields(m, s, r, i, v, a)
      /\ [x EXCEPT !.asks = v] = Fields(m, s, r, i, q, v)
  BY <1>1, FieldsOf
<1>3. IsMessage(m) /\ IsMessages(q) /\ IsMessage(a) /\ a.wbit = TRUE
  BY <1>2, HandParts
<1>4. /\ Fields(m, s, r, v, q, a).matched = v /\ Fields(m, s, r, v, q, a).responses = q
      /\ Fields(m, s, r, v, q, a).asks = a /\ SameFields(Fields(m, s, r, v, q, a), x)
      /\ IsHand(Fields(m, s, r, v, q, a))
  <2>1. /\ Fields(m, s, r, v, q, a).matched = v /\ Fields(m, s, r, v, q, a).responses = q /\ Fields(m, s, r, v, q, a).asks = a
        /\ Fields(m, s, r, v, q, a).message = m /\ Fields(m, s, r, v, q, a).settings = s /\ Fields(m, s, r, v, q, a).rules = r
    BY FieldsOf
  <2>2. IsHand(Fields(m, s, r, v, q, a))
    BY <1>3, HandIs
  <2> QED
    BY <1>2, <2>1, <2>2 DEF SameFields
<1>5. /\ Fields(m, s, r, i, v, a).matched = i /\ Fields(m, s, r, i, v, a).responses = v
      /\ Fields(m, s, r, i, v, a).asks = a /\ SameFields(Fields(m, s, r, i, v, a), x)
      /\ IsMessages(v) => IsHand(Fields(m, s, r, i, v, a))
  <2>1. /\ Fields(m, s, r, i, v, a).matched = i /\ Fields(m, s, r, i, v, a).responses = v /\ Fields(m, s, r, i, v, a).asks = a
        /\ Fields(m, s, r, i, v, a).message = m /\ Fields(m, s, r, i, v, a).settings = s /\ Fields(m, s, r, i, v, a).rules = r
    BY FieldsOf
  <2>2. IsMessages(v) => IsHand(Fields(m, s, r, i, v, a))
    BY <1>3, HandIs
  <2> QED
    BY <1>2, <2>1, <2>2 DEF SameFields
<1>6. /\ Fields(m, s, r, i, q, v).matched = i /\ Fields(m, s, r, i, q, v).responses = q
      /\ Fields(m, s, r, i, q, v).asks = v /\ SameFields(Fields(m, s, r, i, q, v), x)
      /\ IsMessage(v) /\ v.wbit = TRUE => IsHand(Fields(m, s, r, i, q, v))
  <2>1. /\ Fields(m, s, r, i, q, v).matched = i /\ Fields(m, s, r, i, q, v).responses = q /\ Fields(m, s, r, i, q, v).asks = v
        /\ Fields(m, s, r, i, q, v).message = m /\ Fields(m, s, r, i, q, v).settings = s /\ Fields(m, s, r, i, q, v).rules = r
    BY FieldsOf
  <2>2. IsMessage(v) /\ v.wbit = TRUE => IsHand(Fields(m, s, r, i, q, v))
    BY <1>3, HandIs
  <2> QED
    BY <1>2, <2>1, <2>2 DEF SameFields
<1> QED
  BY <1>2, <1>4, <1>5, <1>6

\* A message newly in hand.
LEMMA NewHand ==
    ASSUME NEW m, IsMessage(m), NEW s, NEW list
    PROVE  /\ IsHand(Handling(m, s, list)) /\ Handling(m, s, list).message = m
           /\ Handling(m, s, list).rules = list /\ Handling(m, s, list).settings = s
           /\ Handling(m, s, list).matched = 0
           /\ Handling(m, s, list).responses = <<>>
<1>1. Handling(m, s, list) = Fields(m, s, list, 0, <<>>, Silent)
  BY DEF Handling, Fields
<1>2. IsMessage(Silent) /\ Silent.wbit = TRUE
  BY MessageFields DEF Silent, Ask
<1> DEFINE F == Fields(m, s, list, 0, <<>>, Silent)
<1>3. F.message = m /\ F.settings = s /\ F.rules = list /\ F.matched = 0 /\ F.responses = <<>>
  BY FieldsOf
<1>4. IsHand(F)
  BY <1>2, HandIs, NoMessages
<1> QED
  BY <1>1, <1>3, <1>4

LEMMA EmptyHand ==
    /\ IsHand(Nothing) /\ Nothing.responses = <<>>
    /\ \A m : IsMessage(m) => /\ IsHand([Nothing EXCEPT !.message = m])
                              /\ [Nothing EXCEPT !.message = m].message = m
                              /\ [Nothing EXCEPT !.message = m].responses = <<>>
<1>1. IsMessage(Silent) /\ Silent.wbit = TRUE
  BY MessageFields DEF Silent, Ask
<1>2. Nothing = Fields(Silent, NoSettings, <<>>, 0, <<>>, Silent)
  BY DEF Nothing, Handling, Fields
<1>3. IsHand(Nothing) /\ Nothing.responses = <<>>
  BY <1>1, NewHand DEF Nothing
<1>4. ASSUME NEW m, IsMessage(m)
      PROVE  /\ IsHand([Nothing EXCEPT !.message = m])
             /\ [Nothing EXCEPT !.message = m].message = m
             /\ [Nothing EXCEPT !.message = m].responses = <<>>
  <2>1. [Nothing EXCEPT !.message = m] = Fields(m, NoSettings, <<>>, 0, <<>>, Silent)
    BY <1>2, FieldsOf
  <2> DEFINE F == Fields(m, NoSettings, <<>>, 0, <<>>, Silent)
  <2>2. F.message = m /\ F.responses = <<>>
    BY FieldsOf
  <2>3. IsHand(F)
    BY <1>1, <1>4, HandIs, NoMessages
  <2> QED
    BY <2>1, <2>2, <2>3
<1> QED
  BY <1>3, <1>4

-----------------------------------------------------------------------------
(***************************************************************************)
(* What the peer gives for a request: an answer, and an event before or    *)
(* after it, or none.                                                      *)
(***************************************************************************)
Given(m, s, w) ==
    \E a, e : /\ IsMessage(a) /\ a.system = m.system
              /\ IsMessage(e) /\ e.system = w
              /\ s \in {<<a>>, <<e, a>>, <<a, e>>}

LEMMA PairJoined ==
    ASSUME NEW x, NEW y
    PROVE  <<x>> \o <<y>> = <<x, y>>
<1> DEFINE S == {x, y}
           p == <<x>>
           q == <<y>>
           r == <<x, y>>
<1>1. p \in Seq(S) /\ q \in Seq(S) /\ r \in Seq(S)
  OBVIOUS
<1>2. Len(p) = 1 /\ Len(q) = 1 /\ Len(r) = 2 /\ p[1] = x /\ q[1] = y /\ r[1] = x /\ r[2] = y
  OBVIOUS
<1> HIDE DEF S, p, q, r
<1>3. /\ p \o q \in Seq(S) /\ Len(p \o q) = Len(p) + Len(q)
      /\ \A k \in 1..Len(p) + Len(q) : (p \o q)[k] = IF k <= Len(p) THEN p[k] ELSE q[k - Len(p)]
  BY <1>1, ConcatProperties
<1>4. Len(p \o q) = 2 /\ (p \o q)[1] = p[1] /\ (p \o q)[2] = q[1]
  BY <1>2, <1>3
<1>5. \A k \in 1..Len(r) : (p \o q)[k] = r[k]
  BY <1>2, <1>4
<1>6. p \o q = r
  BY <1>1, <1>2, <1>3, <1>4, <1>5, SeqEqual
<1> QED
  BY <1>6 DEF p, q, r

LEMMA AnswersGiven ==
    ASSUME NEW m
    PROVE  /\ Given(m, Answers(m), Words + 2 * events + 1)
           /\ Given(m, Reverse(Answers(m)), Words + 2 * events + 1)
           /\ \A b : Given(m, <<Answer(m, b)>>, Words + 2 * events + 1)
<1> DEFINE a == Answer(m, RightBody(m))
           w == Words + 2 * events + 1
<1>1. IsMessage(a) /\ a.system = m.system
  BY AnswerIs
<1>2. ASSUME NEW n PROVE IsMessage(Event(n)) /\ Event(n).system = w
  <2>1. IsMessage(Ask(6, 11, List(<<U4(0), U4(n), List(<<List(<<U4(1), Empty>>)>>)>>)))
    BY MessageFields DEF Ask
  <2> QED
    BY <2>1, Numbered DEF Event
<1>3. \/ Answers(m) = <<a>>
      \/ Answers(m) = <<Event(3)>> \o <<a>>
      \/ Answers(m) = <<a>> \o <<Event(57)>>
  BY DEF Answers
<1> HIDE DEF a, w
<1>4. ASSUME NEW x, NEW y PROVE <<x>> \o <<y>> = <<x, y>>
  BY PairJoined
<1>5. \/ Answers(m) = <<a>>
      \/ Answers(m) = <<Event(3), a>>
      \/ Answers(m) = <<a, Event(57)>>
  BY <1>3, <1>4
<1>6. ASSUME NEW x, NEW y PROVE Reverse(<<x, y>>) = <<y, x>>
  BY DEF Reverse
<1>7. ASSUME NEW x PROVE Reverse(<<x>>) = <<x>>
  BY DEF Reverse
<1>8. Given(m, Answers(m), w)
  BY <1>1, <1>2, <1>5 DEF Given
<1>9. Given(m, Reverse(Answers(m)), w)
  <2>1. \/ Reverse(Answers(m)) = <<a>>
        \/ Reverse(Answers(m)) = <<a, Event(3)>>
        \/ Reverse(Answers(m)) = <<Event(57), a>>
    BY <1>5, <1>6, <1>7
  <2> QED
    BY <1>1, <1>2, <2>1 DEF Given
<1>10. ASSUME NEW b PROVE Given(m, <<Answer(m, b)>>, w)
  BY <1>2, AnswerIs DEF Given
<1> QED
  BY <1>8, <1>9, <1>10 DEF w

-----------------------------------------------------------------------------
(***************************************************************************)
(* The shape of the state.                                                 *)
(***************************************************************************)
ScriptInv == script = [profile |-> script.profile, step |-> script.step] /\ script.step \in Nat
HandInv ==
    /\ IsHand(h)
    /\ pc \in {"selected", "reading", "dialing"} => h = Nothing
    /\ pc \notin {"advance", "number", "send"} => h.responses = <<>>
QueuesInv == IsMessages(pending) /\ IsMessages(batch) /\ IsMessages(inbox) /\ IsMessages(owed)
CountsInv == counter \in 0..Words - 1 /\ primaries \in Nat /\ events \in Nat
ShapeInv  == ScriptInv /\ HandInv /\ QueuesInv /\ CountsInv /\ rules \in RuleLists

LEMMA Remainder ==
    ASSUME NEW n \in Nat \ {0}, NEW a \in 0..n - 1
    PROVE  (a + 1) % n = IF a + 1 < n THEN a + 1 ELSE 0
<1>1. CASE a + 1 < n
  BY <1>1
<1>2. CASE ~(a + 1 < n)
  <2>1. a + 1 = n
    BY <1>2
  <2>2. n % n = 0
    OBVIOUS
  <2> QED
    BY <1>2, <2>1, <2>2
<1> QED
  BY <1>1, <1>2

LEMMA NextWordIs ==
    ASSUME CountsInv
    PROVE  /\ NextWord \in 0..Words - 1 /\ counter \in Nat
           /\ counter <= NextWord => NextWord = counter + 1
<1>1. Words \in Nat \ {0, 1}
  BY DataPathAssumption DEF DataPathAssumption
<1>2. NextWord = IF counter + 1 < Words THEN counter + 1 ELSE 0
  BY <1>1, Remainder DEF NextWord, CountsInv
<1> QED
  BY <1>1, <1>2 DEF CountsInv

\* What a frame queued on the link leaves as it is.
LEMMA TransmitKeeps ==
    ASSUME IsMessages(owed), NEW m, IsMessage(m), Transmit(m)
    PROVE  IsMessages(owed)'
<1>1. CASE m.wbit = TRUE
  <2>1. owed' = Append(owed, m)
    BY <1>1 DEF Transmit
  <2> QED
    BY <2>1, AppendMessage
<1>2. CASE m.wbit = FALSE
  BY <1>2 DEF Transmit
<1> QED
  BY <1>1, <1>2 DEF IsMessage

LEMMA ReaderBegins ==
    ASSUME ShapeInv, BeginScript \/ SendFirst \/ LogFirst
    PROVE  ShapeInv'
<1>1. CASE BeginScript
  <2>1. QueuesInv' /\ CountsInv' /\ (rules \in RuleLists)'
    BY <1>1 DEF BeginScript, ShapeInv, QueuesInv, CountsInv, store, config, wire, peer
  <2>2. CASE UNCHANGED <<script, h>> /\ pc' = "reading"
    <3>1. pc = "selected"
      BY <1>1 DEF BeginScript
    <3> QED
      BY <2>1, <2>2, <3>1 DEF ShapeInv, ScriptInv, HandInv
  <2>3. CASE ~(UNCHANGED <<script, h>> /\ pc' = "reading")
    <3> DEFINE steps == Steps(settings.profile, settings.name)
    <3>1. /\ steps # <<>> /\ script' = [profile |-> settings.profile, step |-> 1]
          /\ h' = [Nothing EXCEPT !.message = steps[1].send] /\ pc' = "first"
      BY <1>1, <2>3 DEF BeginScript
    <3>2. IsMessage(steps[1].send)
      BY <3>1, StepsSend DEF Sends
    <3> HIDE DEF steps
    <3>3. IsHand(h') /\ h'.responses = <<>>
      BY <3>1, <3>2, EmptyHand
    <3>4. ScriptInv'
      BY <3>1 DEF ScriptInv
    <3> QED
      BY <2>1, <3>1, <3>3, <3>4 DEF ShapeInv, HandInv
  <2> QED
    BY <2>2, <2>3
<1>2. CASE SendFirst
  <2>1. /\ pc = "first" /\ UNCHANGED <<rules, pending, batch, inbox, primaries, events>>
    BY <1>2 DEF SendFirst, store, config, peer
  <2>2. CASE running /\ link.up
    <3> DEFINE m == [h.message EXCEPT !.system = NextWord]
    <3>1. /\ Transmit(m) /\ counter' = NextWord /\ UNCHANGED script
          /\ h' = [Nothing EXCEPT !.message = m] /\ pc' = "sentFirst"
      BY <1>2, <2>2 DEF SendFirst
    <3>2. IsMessage(h.message) /\ IsMessages(owed)
      BY HandParts DEF ShapeInv, HandInv, QueuesInv
    <3>3. IsMessage(m)
      BY <3>2, Numbered
    <3> HIDE DEF m
    <3>4. QueuesInv'
      BY <2>1, <3>1, <3>2, <3>3, TransmitKeeps DEF QueuesInv, ShapeInv
    <3>5. IsHand(h') /\ h'.responses = <<>>
      BY <3>1, <3>3, EmptyHand
    <3>6. CountsInv'
      BY <2>1, <3>1, NextWordIs DEF CountsInv, ShapeInv
    <3> QED
      BY <2>1, <3>1, <3>4, <3>5, <3>6 DEF ShapeInv, ScriptInv, HandInv
  <2>3. CASE ~(running /\ link.up)
    <3>1. script' = NoScript /\ pc' = "reading" /\ h' = Nothing /\ UNCHANGED <<owed, counter>>
      BY <1>2, <2>3 DEF SendFirst, wire
    <3>2. ScriptInv'
      BY <3>1 DEF ScriptInv, NoScript
    <3> QED
      BY <2>1, <3>1, <3>2, EmptyHand DEF ShapeInv, HandInv, QueuesInv, CountsInv
  <2> QED
    BY <2>2, <2>3
<1>3. CASE LogFirst
  <2>1. /\ pc' = "reading" /\ h' = Nothing
        /\ UNCHANGED <<script, rules, pending, batch, inbox, primaries, events, owed, counter>>
    BY <1>3 DEF LogFirst, config, wire, peer
  <2> QED
    BY <2>1, EmptyHand DEF ShapeInv, ScriptInv, HandInv, QueuesInv, CountsInv
<1> QED
  BY <1>1, <1>2, <1>3

\* The first rule for a message, and the queue with its actions.
LEMMA Matched ==
    ASSUME ShapeInv, ProcessInbound
    PROVE  /\ IsMessages(pending) /\ IsMessages(pending')
           /\ h' = [h EXCEPT !.matched = FirstMatch(rules, h.message).id]
<1> DEFINE rule == FirstMatch(rules, h.message)
<1>1. IsMessages(pending) /\ rules \in RuleLists
  BY DEF ShapeInv, QueuesInv
<1>2. IF rule = NoRule THEN pending' = pending ELSE pending' = pending \o rule.actions
  BY DEF ProcessInbound
<1>3. rule # NoRule => IsMessages(rule.actions)
  BY <1>1, RuleFacts
<1> HIDE DEF rule
<1>4. IsMessages(pending')
  BY <1>1, <1>2, <1>3, JoinMessages
<1> QED
  BY <1>1, <1>4 DEF ProcessInbound, rule

-----------------------------------------------------------------------------
(***************************************************************************)
(* What the reader makes of a message: the acknowledgement for the script, *)
(* or none, and a reply.                                                   *)
(***************************************************************************)
Own(m, s) == s = <<>> \/ s = <<AutoAnswer(m)>> \/ (s = <<Answer(m, Ack)>> /\ m.stream = 6)

Alone(own)   == h' = [h EXCEPT !.responses = own] /\ pc' \in {"send", "advance"}
Dropped      == h' = Nothing /\ pc' = "reading"
Replied(own) == /\ h' = [h EXCEPT !.responses = Append(own, RuleReply(RuleOf(h.rules, h.matched), h.message))]
                /\ pc' = "advance" /\ h.matched # 0
                /\ own = <<>> \/ (own = <<Answer(h.message, Ack)>> /\ h.message.stream = 6)

LEMMA Answering ==
    ASSUME AnswersItself
    PROVE  \E own : /\ Logged(own) /\ Own(h.message, own)
                    /\ (Alone(own) \/ Dropped \/ Replied(own))
<1> DEFINE auto == IsAuto(h.settings, h.message)
           own  == IF auto THEN <<AutoAnswer(h.message)>> ELSE HostAnswers(h.settings, h.message)
           rule == RuleOf(h.rules, h.matched)
<1>1. /\ Logged(own)
      /\ IF auto THEN Alone(own)
         ELSE IF h.matched = 0 THEN Alone(own)
         ELSE IF rule = NoRule THEN Dropped
         ELSE /\ h' = [h EXCEPT !.responses = Append(own, RuleReply(rule, h.message))]
              /\ pc' = "advance"
  <2>1. /\ Logged(own)
        /\ IF auto THEN h' = [h EXCEPT !.responses = own] /\ pc' = "send"
           ELSE IF h.matched = 0 THEN h' = [h EXCEPT !.responses = own] /\ pc' = "advance"
           ELSE IF rule = NoRule THEN h' = Nothing /\ pc' = "reading"
           ELSE /\ h' = [h EXCEPT !.responses = Append(own, RuleReply(rule, h.message))]
                /\ pc' = "advance"
    BY Zenon DEF AnswersItself, AnswersAlone
  <2> HIDE DEF auto, own, rule
  <2> QED
    BY <2>1 DEF Alone, Dropped
<1>2. auto \/ own = <<>> \/ (own = <<Answer(h.message, Ack)>> /\ h.message.stream = 6)
  BY HostIs
<1>3. Own(h.message, own)
  BY <1>2 DEF Own
<1>4. Alone(own) \/ Dropped \/ Replied(own)
  <2>1. CASE auto
    BY <1>1, <2>1
  <2>2. CASE ~auto
    <3> HIDE DEF own, rule
    <3>1. CASE h.matched = 0
      BY <1>1, <2>2, <3>1
    <3>2. CASE h.matched # 0 /\ rule = NoRule
      BY <1>1, <2>2, <3>2
    <3>3. CASE h.matched # 0 /\ rule # NoRule
      BY <1>1, <1>2, <2>2, <3>3 DEF Replied, rule
    <3> QED
      BY <3>1, <3>2, <3>3
  <2> QED
    BY <2>1, <2>2
<1> HIDE DEF own
<1> QED
  BY <1>1, <1>3, <1>4

LEMMA OwnIs ==
    ASSUME NEW m, NEW s, Own(m, s)
    PROVE  /\ IsMessages(s) /\ Len(s) \in {0, 1}
           /\ \A k \in DOMAIN s : s[k].wbit = FALSE /\ s[k].system = m.system /\ k = 1
<1>1. CASE s = <<>>
  BY <1>1, NoMessages
<1>2. CASE s = <<AutoAnswer(m)>>
  <2> DEFINE a == AutoAnswer(m)
  <2>1. IsMessage(a) /\ a.wbit = FALSE /\ a.system = m.system
    BY AutoIs
  <2> HIDE DEF a
  <2> QED
    BY <1>2, <2>1, OneMessage DEF a
<1>3. CASE s = <<Answer(m, Ack)>>
  <2> DEFINE a == Answer(m, Ack)
  <2>1. IsMessage(a) /\ a.wbit = FALSE /\ a.system = m.system
    BY AnswerIs
  <2> HIDE DEF a
  <2> QED
    BY <1>3, <2>1, OneMessage DEF a
<1> QED
  BY <1>1, <1>2, <1>3 DEF Own

\* Of two steps of the script, the second exists.
LEMMA NextStepSends ==
    ASSUME ScriptInv, NextStep # NoScript, NEW name
    PROVE  /\ Sends(Steps(script.profile, name)[script.step + 1])
           /\ NextStep = [profile |-> script.profile, step |-> script.step + 1]
<1>1. script.step < Len(Steps(script.profile, "")) /\ NextStep = [script EXCEPT !.step = script.step + 1]
  BY DEF NextStep
<1>2. PICK p, n : script = [profile |-> p, step |-> n] /\ n \in Nat
  BY DEF ScriptInv
<1>3. NextStep = [profile |-> p, step |-> n + 1] /\ script.profile = p /\ script.step = n
  <2>1. ASSUME NEW r, r = [profile |-> p, step |-> n]
        PROVE  /\ [r EXCEPT !.step = r.step + 1] = [profile |-> p, step |-> n + 1]
               /\ r.profile = p /\ r.step = n
    BY <2>1
  <2>2. /\ [script EXCEPT !.step = script.step + 1] = [profile |-> p, step |-> n + 1]
        /\ script.profile = p /\ script.step = n
    BY <1>2, <2>1
  <2> QED
    BY <1>1, <2>2, Zenon
<1>4. n + 1 \in 1..Len(Steps(p, ""))
  <2> DEFINE l == Len(Steps(p, ""))
  <2>1. n < l
    BY <1>1, <1>3, Zenon
  <2>2. l \in Nat
    BY StepsSend
  <2>3. n \in Nat
    BY <1>2
  <2> HIDE DEF l
  <2>4. n + 1 \in 1..l
    BY <2>1, <2>2, <2>3
  <2> QED
    BY <2>4 DEF l
<1>5. Sends(Steps(p, name)[n + 1])
  BY <1>4, StepsSend
<1> QED
  BY <1>3, <1>5

\* The script goes on, or ends, or stays; a message is to be sent, or none.
LEMMA Advancing ==
    ASSUME ScriptInv, AdvanceScript
    PROVE  /\ (script' = script \/ script' = NextStep)
           /\ \/ h' = h /\ pc' = "send"
              \/ /\ pc' = "number"
                 /\ \E a : IsMessage(a) /\ a.wbit = TRUE /\ h' = [h EXCEPT !.asks = a]
<1> DEFINE step == Steps(script.profile, h.settings.name)[script.step + 1]
           asks == Advances /\ NextStep # NoScript /\ step.send # Silent
<1>1. /\ script' = IF Advances THEN NextStep ELSE script
      /\ pc' = IF asks THEN "number" ELSE "send"
      /\ h' = IF asks THEN [h EXCEPT !.asks = step.send] ELSE h
  BY DEF AdvanceScript
<1>2. asks => Sends(step)
  BY NextStepSends
<1> HIDE DEF step
<1> QED
  BY <1>1, <1>2 DEF Sends

LEMMA TwoMessages ==
    ASSUME NEW x, IsMessage(x), NEW y, IsMessage(y)
    PROVE  /\ IsMessages(<<x, y>>) /\ Len(<<x, y>>) = 2 /\ DOMAIN <<x, y>> = {1, 2}
           /\ <<x, y>>[1] = x /\ <<x, y>>[2] = y
<1>1. <<x, y>> \in Seq({x, y}) /\ Len(<<x, y>>) = 2 /\ <<x, y>>[1] = x /\ <<x, y>>[2] = y
  OBVIOUS
<1>2. DOMAIN <<x, y>> = {1, 2}
  OBVIOUS
<1> QED
  BY <1>1, <1>2, IsSequenceOf DEF IsMessages

LEMMA GivenIs ==
    ASSUME NEW m, NEW s, NEW w, Given(m, s, w)
    PROVE  /\ IsMessages(s) /\ Len(s) \in {1, 2}
           /\ \A k \in DOMAIN s : s[k].system \in {m.system, w}
           /\ w # m.system => \A j, k \in DOMAIN s : j # k => s[j].system # s[k].system
           /\ Len(s) = 1 => \A k \in DOMAIN s : s[k].system = m.system
<1>1. PICK a, e : /\ IsMessage(a) /\ a.system = m.system
                  /\ IsMessage(e) /\ e.system = w
                  /\ s \in {<<a>>, <<e, a>>, <<a, e>>}
  BY DEF Given
<1>2. CASE s = <<a>>
  BY <1>1, <1>2, OneMessage
<1>3. CASE s = <<e, a>>
  BY <1>1, <1>3, TwoMessages
<1>4. CASE s = <<a, e>>
  BY <1>1, <1>4, TwoMessages
<1> QED
  BY <1>1, <1>2, <1>3, <1>4

LEMMA Delivering ==
    ASSUME NEW k \in DOMAIN owed, PeerAnswers(k) \/ PeerMisanswers(k)
    PROVE  \E s : Given(owed[k], s, Words + 2 * events + 1) /\ Delivers(k, s)
<1>1. CASE PeerAnswers(k)
  BY <1>1, AnswersGiven DEF PeerAnswers
<1>2. CASE PeerMisanswers(k)
  BY <1>2, AnswersGiven DEF PeerMisanswers
<1> QED
  BY <1>1, <1>2

-----------------------------------------------------------------------------
LEMMA ReaderHandles ==
    ASSUME ShapeInv,
           Receive \/ ProcessInbound \/ AnswersItself \/ AdvanceScript \/ NumberStep \/ SendResponse
    PROVE  ShapeInv'
<1>1. CASE Receive
  <2>1. /\ inbox # <<>> /\ h' = Handling(Head(inbox), settings, rules)
        /\ inbox' = Tail(inbox) /\ pc' = "match"
        /\ UNCHANGED <<script, rules, pending, batch, primaries, events, owed, counter>>
    BY <1>1 DEF Receive, store, config, wire
  <2>2. IsMessages(inbox') /\ IsMessage(Head(inbox))
    BY <2>1, TailMessages DEF ShapeInv, QueuesInv
  <2>3. IsHand(h') /\ h'.responses = <<>>
    BY <2>1, <2>2, NewHand
  <2> QED
    BY <2>1, <2>2, <2>3 DEF ShapeInv, ScriptInv, HandInv, QueuesInv, CountsInv
<1>2. CASE ProcessInbound
  <2>1. /\ pc = "match" /\ pc' = "answer"
        /\ UNCHANGED <<script, rules, batch, inbox, primaries, events, owed, counter>>
    BY <1>2 DEF ProcessInbound, config, wire, peer
  <2>2. IsMessages(pending')
    BY <1>2, Matched
  <2>3. IsHand(h') /\ h'.responses = h.responses
    <3>1. IsHand(h)
      BY DEF ShapeInv, HandInv
    <3>2. h' = [h EXCEPT !.matched = FirstMatch(rules, h.message).id]
      BY <1>2, Matched
    <3> QED
      BY <3>1, <3>2, HandChanged
  <2> QED
    BY <2>1, <2>2, <2>3 DEF ShapeInv, ScriptInv, HandInv, QueuesInv, CountsInv
<1>3. CASE AnswersItself
  <2>1. UNCHANGED <<script, rules, pending, batch, inbox, primaries, events, owed, counter>>
    BY <1>3 DEF AnswersItself, config, wire, peer
  <2>2. PICK own : Own(h.message, own) /\ (Alone(own) \/ Dropped \/ Replied(own))
    BY <1>3, Answering
  <2>3. IsMessages(own) /\ IsHand(h)
    BY <2>2, OwnIs DEF ShapeInv, HandInv
  <2>4. HandInv'
    <3>1. CASE Alone(own)
      <4>1. IsHand(h') /\ pc' \in {"send", "advance"}
        BY <2>3, <3>1, HandChanged DEF Alone
      <4> QED
        BY <4>1 DEF HandInv
    <3>2. CASE Dropped
      BY <3>2, EmptyHand DEF HandInv, Dropped
    <3>3. CASE Replied(own)
      <4> DEFINE reply == RuleReply(RuleOf(h.rules, h.matched), h.message)
      <4>1. IsMessage(reply)
        BY ReplyIs
      <4>2. h' = [h EXCEPT !.responses = Append(own, reply)] /\ pc' = "advance"
        BY <3>3 DEF Replied
      <4> HIDE DEF reply
      <4>3. IsMessages(Append(own, reply))
        BY <2>3, <4>1, AppendMessage
      <4>4. IsHand(h')
        BY <2>3, <4>2, <4>3, HandChanged
      <4> QED
        BY <4>2, <4>4 DEF HandInv
    <3> QED
      BY <2>2, <3>1, <3>2, <3>3
  <2> QED
    BY <2>1, <2>4 DEF ShapeInv, ScriptInv, QueuesInv, CountsInv
<1>4. CASE AdvanceScript
  <2>1. UNCHANGED <<rules, pending, batch, inbox, primaries, events, owed, counter>>
    BY <1>4 DEF AdvanceScript, store, config, wire, peer
  <2>2. ScriptInv'
    <3>1. script' = script \/ script' = NextStep
      BY <1>4, Advancing DEF ShapeInv
    <3>2. CASE script' = script
      BY <3>2 DEF ShapeInv, ScriptInv
    <3>3. CASE script' = NextStep /\ NextStep = NoScript
      BY <3>3 DEF ScriptInv, NoScript
    <3>4. CASE script' = NextStep /\ NextStep # NoScript
      <4>1. NextStep = [profile |-> script.profile, step |-> script.step + 1]
        BY <3>4, NextStepSends DEF ShapeInv
      <4>2. script.step + 1 \in Nat
        BY DEF ShapeInv, ScriptInv
      <4>3. ASSUME NEW p, NEW n \in Nat, script' = [profile |-> p, step |-> n] PROVE ScriptInv'
        BY <4>3 DEF ScriptInv
      <4> QED
        BY <3>4, <4>1, <4>2, <4>3
    <3> QED
      BY <3>1, <3>2, <3>3, <3>4
  <2>3. HandInv'
    <3>1. IsHand(h) /\ ScriptInv
      BY DEF ShapeInv, HandInv
    <3>2. \/ h' = h /\ pc' = "send"
          \/ /\ pc' = "number"
             /\ \E a : IsMessage(a) /\ a.wbit = TRUE /\ h' = [h EXCEPT !.asks = a]
      BY <1>4, <3>1, Advancing
    <3>3. ASSUME NEW a, IsMessage(a) /\ a.wbit = TRUE, h' = [h EXCEPT !.asks = a]
          PROVE  IsHand(h')
      BY <3>1, <3>3, HandChanged
    <3>4. IsHand(h') /\ pc' \in {"send", "number"}
      BY <3>1, <3>2, <3>3
    <3> QED
      BY <3>4 DEF HandInv
  <2> QED
    BY <2>1, <2>2, <2>3 DEF ShapeInv, QueuesInv, CountsInv
<1>5. CASE NumberStep
  <2>1. UNCHANGED <<script, rules, pending, batch, inbox, primaries, events, owed>>
    BY <1>5 DEF NumberStep, store, config, wire, peer
  <2>2. CASE running
    <3> DEFINE m == [h.asks EXCEPT !.system = NextWord]
    <3>1. counter' = NextWord /\ h' = [h EXCEPT !.responses = Append(@, m)] /\ pc' = "send"
      BY <1>5, <2>2 DEF NumberStep, Reserved
    <3>2. IsHand(h) /\ IsMessages(h.responses) /\ IsMessage(h.asks)
      BY HandParts DEF ShapeInv, HandInv
    <3>3. IsMessage(m)
      BY <3>2, Numbered
    <3> HIDE DEF m
    <3>4. IsMessages(Append(h.responses, m))
      BY <3>2, <3>3, AppendMessage
    <3>5. IsHand(h')
      BY <3>1, <3>2, <3>4, HandChanged
    <3>6. CountsInv'
      BY <2>1, <3>1, NextWordIs DEF CountsInv, ShapeInv
    <3> QED
      BY <2>1, <3>1, <3>5, <3>6 DEF ShapeInv, ScriptInv, HandInv, QueuesInv
  <2>3. CASE ~running
    <3>1. pc' = "reading" /\ h' = Nothing /\ counter' = counter
      BY <1>5, <2>3 DEF NumberStep
    <3> QED
      BY <2>1, <3>1, EmptyHand DEF ShapeInv, ScriptInv, HandInv, QueuesInv, CountsInv
  <2> QED
    BY <2>2, <2>3
<1>6. CASE SendResponse
  <2>1. /\ pc = "send" /\ UNCHANGED <<script, rules, pending, batch, inbox, primaries, events, counter>>
    BY <1>6 DEF SendResponse, store, config, peer
  <2>2. CASE h.responses # <<>> /\ link.up
    <3> DEFINE m == Head(h.responses)
               n == IF m.system = 0 THEN [m EXCEPT !.system = h.message.system] ELSE m
    <3>1. Transmit(n) /\ h' = [h EXCEPT !.responses = Tail(@)] /\ pc' = pc
      BY <1>6, <2>2 DEF SendResponse
    <3>2. IsHand(h) /\ IsMessages(h.responses) /\ IsMessages(owed)
      BY HandParts DEF ShapeInv, HandInv, QueuesInv
    <3>3. IsMessage(m) /\ IsMessages(Tail(h.responses))
      BY <2>2, <3>2, TailMessages
    <3>4. IsMessage(n)
      BY <3>3, Numbered
    <3> HIDE DEF m, n
    <3>5. IsMessages(owed)'
      BY <3>1, <3>2, <3>4, TransmitKeeps
    <3>6. IsHand(h')
      BY <3>1, <3>2, <3>3, HandChanged
    <3> QED
      BY <2>1, <3>1, <3>5, <3>6 DEF ShapeInv, ScriptInv, HandInv, QueuesInv, CountsInv
  <2>3. CASE ~(h.responses # <<>> /\ link.up)
    <3>1. pc' = "reading" /\ h' = Nothing /\ owed' = owed
      BY <1>6, <2>3 DEF SendResponse, wire
    <3> QED
      BY <2>1, <3>1, EmptyHand DEF ShapeInv, ScriptInv, HandInv, QueuesInv, CountsInv
  <2> QED
    BY <2>2, <2>3
<1> QED
  BY <1>1, <1>2, <1>3, <1>4, <1>5, <1>6

LEMMA OthersStep ==
    ASSUME ShapeInv,
           \/ LeaveLink \/ Redial \/ (\E n \in 1..Len(pending) : RunScheduled(n)) \/ SendScheduled
           \/ OperatorNext \/ LinkBreaks \/ PeerNext
    PROVE  ShapeInv'
<1>1. CASE LeaveLink
  <2>1. /\ script' = NoScript /\ pc = "reading" /\ pc' = "dialing"
        /\ UNCHANGED <<h, rules, pending, batch, inbox, primaries, events, owed, counter>>
    BY <1>1 DEF LeaveLink, store, config, wire, peer
  <2>2. ScriptInv'
    BY <2>1 DEF ScriptInv, NoScript
  <2> QED
    BY <2>1, <2>2 DEF ShapeInv, HandInv, QueuesInv, CountsInv
<1>2. CASE Redial
  <2>1. /\ pc = "dialing" /\ pc' = "selected" /\ counter' = NextWord
        /\ UNCHANGED <<h, script, rules, pending, batch, inbox, primaries, events, owed>>
    BY <1>2 DEF Redial, store, config, peer
  <2>2. CountsInv'
    BY <2>1, NextWordIs DEF CountsInv, ShapeInv
  <2> QED
    BY <2>1, <2>2 DEF ShapeInv, ScriptInv, HandInv, QueuesInv
<1>3. CASE \E n \in 1..Len(pending) : RunScheduled(n)
  <2>1. PICK n \in 1..Len(pending) : RunScheduled(n)
    BY <1>3
  <2>2. /\ batch' = SubSeq(pending, 1, n) /\ pending' = SubSeq(pending, n + 1, Len(pending))
        /\ UNCHANGED <<pc, h, script, rules, inbox, primaries, events, owed, counter>>
    BY <2>1 DEF RunScheduled, config, wire, peer
  <2>3. IsMessages(batch') /\ IsMessages(pending')
    <3>1. IsMessages(pending) /\ Len(pending) \in Nat
      BY Lengths DEF ShapeInv, QueuesInv, IsMessages
    <3>2. n \in Nat /\ n <= Len(pending) /\ 1 <= n + 1 /\ n + 1 \in Nat \ {0} /\ n + 1 <= Len(pending) + 1
      BY <3>1
    <3>3. IsMessages(SubSeq(pending, 1, n))
      BY <3>1, <3>2, PartOfMessages
    <3>4. IsMessages(SubSeq(pending, n + 1, Len(pending)))
      BY <3>1, <3>2, PartOfMessages
    <3> QED
      BY <2>2, <3>3, <3>4
  <2> QED
    BY <2>2, <2>3 DEF ShapeInv, ScriptInv, HandInv, QueuesInv, CountsInv
<1>4. CASE SendScheduled
  <2>1. /\ batch # <<>> /\ batch' = Tail(batch)
        /\ UNCHANGED <<pc, h, script, rules, pending, inbox, primaries, events>>
    BY <1>4 DEF SendScheduled, store, config, peer
  <2>2. IsMessages(batch') /\ IsMessage(Head(batch)) /\ IsMessages(owed)
    BY <2>1, TailMessages DEF ShapeInv, QueuesInv
  <2>3. IsMessages(owed') /\ CountsInv'
    <3>1. CASE running /\ link.up
      <4> DEFINE m == [Head(batch) EXCEPT !.system = NextWord]
      <4>1. Transmit(m) /\ counter' = NextWord
        BY <1>4, <3>1 DEF SendScheduled
      <4>2. IsMessage(m)
        BY <2>2, Numbered
      <4> HIDE DEF m
      <4>3. IsMessages(owed)'
        BY <2>2, <4>1, <4>2, TransmitKeeps
      <4>4. CountsInv'
        BY <2>1, <4>1, NextWordIs DEF CountsInv, ShapeInv
      <4> QED
        BY <4>3, <4>4
    <3>2. CASE ~(running /\ link.up)
      <4>1. owed' = owed /\ counter' = counter
        BY <1>4, <3>2 DEF SendScheduled, wire
      <4> QED
        BY <2>1, <2>2, <4>1 DEF ShapeInv, CountsInv
    <3> QED
      BY <3>1, <3>2
  <2> QED
    BY <2>1, <2>2, <2>3 DEF ShapeInv, ScriptInv, HandInv, QueuesInv
<1>5. CASE OperatorNext
  <2>1. CASE \E s \in SettingsSet : EditSettings(s)
    <3>1. UNCHANGED <<pc, h, script, rules, pending, batch, inbox, primaries, events, owed, counter>>
      BY <2>1 DEF EditSettings, wire, peer
    <3> QED
      BY <3>1 DEF ShapeInv, ScriptInv, HandInv, QueuesInv, CountsInv
  <2>2. CASE \E list \in RuleLists : EditRules(list)
    <3>1. /\ rules' \in RuleLists
          /\ UNCHANGED <<pc, h, script, pending, batch, inbox, primaries, events, owed, counter>>
      BY <2>2 DEF EditRules, wire, peer
    <3> QED
      BY <3>1 DEF ShapeInv, ScriptInv, HandInv, QueuesInv, CountsInv
  <2>3. CASE Stop
    <3>1. /\ pending' = <<>> /\ inbox' = <<>> /\ owed' = <<>> /\ script' = NoScript
          /\ UNCHANGED <<pc, h, rules, batch, primaries, events, counter>>
      BY <2>3 DEF Stop, LoseLink, config
    <3>2. ScriptInv'
      BY <3>1 DEF ScriptInv, NoScript
    <3> QED
      BY <3>1, <3>2, NoMessages DEF ShapeInv, HandInv, QueuesInv, CountsInv
  <2> QED
    BY <1>5, <2>1, <2>2, <2>3 DEF OperatorNext
<1>6. CASE LinkBreaks
  <2>1. /\ inbox' = <<>> /\ owed' = <<>>
        /\ UNCHANGED <<pc, h, script, rules, pending, batch, primaries, events, counter>>
    BY <1>6 DEF LinkBreaks, LoseLink, store, config
  <2> QED
    BY <2>1, NoMessages DEF ShapeInv, ScriptInv, HandInv, QueuesInv, CountsInv
<1>7. CASE PeerNext
  <2>1. CASE \E m \in Primaries : PeerSends(m)
    <3>1. PICK m \in Primaries : PeerSends(m)
      BY <2>1
    <3> DEFINE n == [m EXCEPT !.system = Words + 2 * primaries]
    <3>2. /\ primaries' = primaries + 1 /\ inbox' = Append(inbox, n)
          /\ UNCHANGED <<pc, h, script, rules, pending, batch, events, owed, counter>>
      BY <3>1 DEF PeerSends, store, config, wire
    <3>3. IsMessage(n)
      BY DataPathAssumption, Numbered DEF DataPathAssumption
    <3> HIDE DEF n
    <3>4. IsMessages(inbox')
      BY <3>2, <3>3, AppendMessage DEF ShapeInv, QueuesInv
    <3> QED
      BY <3>2, <3>4 DEF ShapeInv, ScriptInv, HandInv, QueuesInv, CountsInv
  <2>2. CASE \E k \in DOMAIN owed : PeerAnswers(k) \/ PeerMisanswers(k)
    <3>1. PICK k \in DOMAIN owed : PeerAnswers(k) \/ PeerMisanswers(k)
      BY <2>2
    <3>2. PICK s : Given(owed[k], s, Words + 2 * events + 1) /\ Delivers(k, s)
      BY <3>1, Delivering
    <3>3. /\ owed' = RemoveAt(owed, k) /\ inbox' = inbox \o s /\ events' = events + Len(s) - 1
          /\ UNCHANGED <<pc, h, script, rules, pending, batch, primaries, counter>>
      BY <3>2 DEF Delivers, store, config
    <3>4. IsMessages(s) /\ Len(s) \in {1, 2}
      BY <3>2, GivenIs
    <3>5. IsMessages(owed') /\ IsMessages(inbox')
      <4>1. IsMessages(owed) /\ IsMessages(inbox)
        BY DEF ShapeInv, QueuesInv
      <4>2. IsMessages(RemoveAt(owed, k))
        BY <4>1, RemoveMessage
      <4>3. IsMessages(inbox \o s)
        BY <3>4, <4>1, JoinMessages
      <4> QED
        BY <3>3, <4>2, <4>3
    <3>6. events' \in Nat
      <4> DEFINE l == Len(s)
      <4>1. events' = events + l - 1 /\ l \in {1, 2} /\ events \in Nat
        BY <3>3, <3>4 DEF ShapeInv, CountsInv
      <4> HIDE DEF l
      <4> QED
        BY <4>1
    <3> QED
      BY <3>3, <3>5, <3>6 DEF ShapeInv, ScriptInv, HandInv, QueuesInv, CountsInv
  <2> QED
    BY <1>7, <2>1, <2>2 DEF PeerNext
<1> QED
  BY <1>1, <1>2, <1>3, <1>4, <1>5, <1>6, <1>7

LEMMA ShapeInit ==
    ASSUME Init
    PROVE  ShapeInv
<1>1. rules \in RuleLists /\ FirstWord \in 0..Words - 1
  BY DataPathAssumption DEF Init, DataPathAssumption
<1>2. ScriptInv
  BY DEF Init, ScriptInv, NoScript
<1> QED
  BY <1>1, <1>2, EmptyHand, NoMessages DEF Init, ShapeInv, HandInv, QueuesInv, CountsInv

LEMMA ShapeStep ==
    ASSUME ShapeInv, [Next]_vars
    PROVE  ShapeInv'
<1>1. CASE Next
  BY <1>1, ReaderBegins, ReaderHandles, OthersStep DEF Next, ReaderNext, SchedulerNext
<1>2. CASE UNCHANGED vars
  BY <1>2 DEF ShapeInv, ScriptInv, HandInv, QueuesInv, CountsInv, vars, store, config, wire, peer
<1> QED
  BY <1>1, <1>2

LEMMA ShapeAlways == Spec => []ShapeInv
BY ShapeInit, ShapeStep, PTL DEF Spec

-----------------------------------------------------------------------------
(***************************************************************************)
(* The numbers of a sequence of messages.                                  *)
(***************************************************************************)
Holds(s, w) == \E k \in DOMAIN s : s[k].system = w
Unique(s)   == \A j, k \in DOMAIN s : j # k => s[j].system # s[k].system

LEMMA NoNumbers == Unique(<<>>) /\ \A w : ~Holds(<<>>, w)
BY NoMessages DEF Unique, Holds

LEMMA NumbersAppend ==
    ASSUME NEW s, IsMessages(s), NEW m, IsMessage(m)
    PROVE  /\ \A w : Holds(Append(s, m), w) <=> Holds(s, w) \/ w = m.system
           /\ Unique(s) /\ ~Holds(s, m.system) => Unique(Append(s, m))
<1> DEFINE t == Append(s, m)
           l == Len(s)
<1>1. /\ l \in Nat /\ DOMAIN s = 1..l /\ DOMAIN t = 1..l + 1
      /\ \A k \in DOMAIN s : t[k] = s[k]
      /\ t[l + 1] = m
  BY Lengths, AppendMessage DEF IsMessages
<1> HIDE DEF t, l
<1>2. /\ \A k \in DOMAIN t : k = l + 1 \/ k \in DOMAIN s
      /\ \A k \in DOMAIN s : k \in DOMAIN t
      /\ l + 1 \in DOMAIN t
  BY <1>1
<1>3. ASSUME NEW w PROVE Holds(t, w) <=> Holds(s, w) \/ w = m.system
  BY <1>1, <1>2 DEF Holds
<1>4. ASSUME Unique(s), ~Holds(s, m.system) PROVE Unique(t)
  <2> SUFFICES ASSUME NEW j \in DOMAIN t, NEW k \in DOMAIN t, j # k
               PROVE  t[j].system # t[k].system
    BY DEF Unique
  <2>1. CASE j \in DOMAIN s /\ k \in DOMAIN s
    BY <1>1, <1>4, <2>1 DEF Unique
  <2>2. CASE j = l + 1 /\ k \in DOMAIN s
    BY <1>1, <1>4, <2>2 DEF Holds
  <2>3. CASE j \in DOMAIN s /\ k = l + 1
    BY <1>1, <1>4, <2>3 DEF Holds
  <2> QED
    BY <1>2, <2>1, <2>2, <2>3
<1> QED
  BY <1>3, <1>4 DEF t

LEMMA NumbersTail ==
    ASSUME NEW s, IsMessages(s), s # <<>>
    PROVE  /\ \A w : Holds(Tail(s), w) => Holds(s, w)
           /\ Holds(s, Head(s).system)
           /\ Unique(s) => Unique(Tail(s)) /\ ~Holds(Tail(s), Head(s).system)
<1> DEFINE t == Tail(s)
           l == Len(s)
<1>1. /\ l \in Nat \ {0} /\ DOMAIN t = 1..l - 1 /\ DOMAIN s = 1..l
      /\ \A k \in DOMAIN t : k + 1 \in DOMAIN s /\ t[k] = s[k + 1]
      /\ Head(s) = s[1] /\ 1 \in DOMAIN s
  BY Lengths, TailMessages DEF IsMessages
<1> HIDE DEF t, l
<1>2. \A k \in DOMAIN t : k + 1 # 1
  BY <1>1
<1>3. \A j, k \in DOMAIN t : j # k => j + 1 # k + 1
  BY <1>1
<1>4. ASSUME NEW w PROVE Holds(t, w) => Holds(s, w)
  BY <1>1 DEF Holds
<1>5. Holds(s, Head(s).system)
  BY <1>1 DEF Holds
<1>6. ASSUME Unique(s) PROVE Unique(t) /\ ~Holds(t, Head(s).system)
  <2>1. Unique(t)
    BY <1>1, <1>3, <1>6 DEF Unique
  <2>2. ~Holds(t, Head(s).system)
    BY <1>1, <1>2, <1>6 DEF Unique, Holds
  <2> QED
    BY <2>1, <2>2
<1> QED
  BY <1>4, <1>5, <1>6 DEF t

LEMMA NumbersRemove ==
    ASSUME NEW s, IsMessages(s), NEW i \in DOMAIN s
    PROVE  /\ \A w : Holds(RemoveAt(s, i), w) => Holds(s, w)
           /\ Unique(s) => Unique(RemoveAt(s, i)) /\ ~Holds(RemoveAt(s, i), s[i].system)
<1> DEFINE t == RemoveAt(s, i)
           l == Len(s)
           At(k) == IF k < i THEN k ELSE k + 1
<1>1. /\ l \in Nat /\ DOMAIN s = 1..l /\ DOMAIN t = 1..l - 1
      /\ \A k \in 1..l - 1 : t[k] = IF k < i THEN s[k] ELSE s[k + 1]
  BY Lengths, RemoveMessage DEF IsMessages
<1> HIDE DEF t, l
<1>2. \A k \in DOMAIN t : At(k) \in DOMAIN s /\ At(k) # i
  BY <1>1
<1>3. \A j, k \in DOMAIN t : j # k => At(j) # At(k)
  BY <1>1
<1>4. \A k \in DOMAIN t : t[k] = s[At(k)]
  BY <1>1
<1> HIDE DEF At
<1>5. ASSUME NEW w PROVE Holds(t, w) => Holds(s, w)
  BY <1>2, <1>4 DEF Holds
<1>6. ASSUME Unique(s) PROVE Unique(t) /\ ~Holds(t, s[i].system)
  <2>1. Unique(t)
    BY <1>2, <1>3, <1>4, <1>6 DEF Unique
  <2>2. ~Holds(t, s[i].system)
    BY <1>2, <1>4, <1>6 DEF Unique, Holds
  <2> QED
    BY <2>1, <2>2
<1> QED
  BY <1>5, <1>6 DEF t

LEMMA NumbersJoin ==
    ASSUME NEW s, IsMessages(s), NEW t, IsMessages(t)
    PROVE  /\ \A w : Holds(s \o t, w) <=> Holds(s, w) \/ Holds(t, w)
           /\ Unique(s) /\ Unique(t) /\ (\A w : ~(Holds(s, w) /\ Holds(t, w))) => Unique(s \o t)
<1> DEFINE r == s \o t
           l == Len(s)
           n == Len(t)
<1>1. Joins(r, s, t)
  BY JoinMessages
<1> HIDE DEF r
<1>2. l \in Nat /\ DOMAIN s = 1..l /\ n \in Nat /\ DOMAIN t = 1..n
  BY Lengths DEF IsMessages
<1>3. /\ DOMAIN r = 1..l + n
      /\ \A k \in DOMAIN s : r[k] = s[k]
      /\ \A k \in DOMAIN t : r[l + k] = t[k]
  BY <1>1 DEF Joins
<1> HIDE DEF l, n
<1>4. ASSUME NEW k \in DOMAIN r
      PROVE  \/ k \in DOMAIN s /\ r[k] = s[k]
             \/ k - l \in DOMAIN t /\ r[k] = t[k - l] /\ k \notin DOMAIN s
  <2>1. k \in DOMAIN s \/ (k - l \in DOMAIN t /\ l + (k - l) = k /\ k \notin DOMAIN s)
    BY <1>2, <1>3
  <2> QED
    BY <1>3, <2>1
<1>5. /\ \A k \in DOMAIN s : k \in DOMAIN r
      /\ \A k \in DOMAIN t : l + k \in DOMAIN r
      /\ \A j, k \in DOMAIN r : j # k => j - l # k - l
  BY <1>2, <1>3
<1>6. ASSUME NEW w PROVE Holds(r, w) <=> Holds(s, w) \/ Holds(t, w)
  <2>1. ASSUME Holds(r, w) PROVE Holds(s, w) \/ Holds(t, w)
    BY <1>4, <2>1 DEF Holds
  <2>2. ASSUME Holds(s, w) \/ Holds(t, w) PROVE Holds(r, w)
    BY <1>3, <1>5, <2>2 DEF Holds
  <2> QED
    BY <2>1, <2>2
<1>7. ASSUME Unique(s), Unique(t), \A w : ~(Holds(s, w) /\ Holds(t, w)) PROVE Unique(r)
  <2> SUFFICES ASSUME NEW j \in DOMAIN r, NEW k \in DOMAIN r, j # k
               PROVE  r[j].system # r[k].system
    BY DEF Unique
  <2>1. CASE j \in DOMAIN s /\ k \in DOMAIN s
    BY <1>3, <1>7, <2>1 DEF Unique
  <2>2. CASE j \notin DOMAIN s /\ k \notin DOMAIN s
    BY <1>4, <1>5, <1>7, <2>2 DEF Unique
  <2>3. CASE (j \in DOMAIN s) # (k \in DOMAIN s)
    <3>1. \/ Holds(s, r[j].system) /\ Holds(t, r[k].system)
          \/ Holds(t, r[j].system) /\ Holds(s, r[k].system)
      BY <1>4, <2>3 DEF Holds
    <3> QED
      BY <1>7, <3>1
  <2> QED
    BY <2>1, <2>2, <2>3
<1> QED
  BY <1>6, <1>7 DEF r

-----------------------------------------------------------------------------
(***************************************************************************)
(* Requests have numbers of their own as long as no number is drawn that a *)
(* request in flight bears: one that was sent and is not answered, or one  *)
(* the reader has still to send. A step of the script must not be numbered *)
(* zero besides, which stands for no number.                               *)
(***************************************************************************)
Asked(w) == \E k \in DOMAIN h.responses : h.responses[k].wbit = TRUE /\ h.responses[k].system = w
FreshNumber ==
    counter' # counter => /\ ~Holds(owed, counter') /\ ~Asked(counter')
                          /\ pc = "number" /\ pc' = "send" => counter' # 0

\* Of the answers to a message only the last can be a request, of the script.
AskedLast ==
    \A k \in DOMAIN h.responses :
        h.responses[k].wbit = TRUE => k = Len(h.responses) /\ pc = "send"
NumberInv == Unique(owed) /\ AskedLast /\ (\A w : Asked(w) => w # 0 /\ ~Holds(owed, w))

LEMMA NoneAsked ==
    ASSUME h.responses = <<>>
    PROVE  AskedLast /\ \A w : ~Asked(w)
BY NoMessages DEF AskedLast, Asked

\* The answers the reader has found itself are none of them requests.
LEMMA OwnNotAsked ==
    ASSUME ShapeInv, AnswersItself
    PROVE  \A k \in DOMAIN h'.responses : h'.responses[k].wbit = FALSE
<1>1. PICK own : Own(h.message, own) /\ (Alone(own) \/ Dropped \/ Replied(own))
  BY Answering
<1>2. /\ IsHand(h) /\ IsMessages(own) /\ \A k \in DOMAIN own : own[k].wbit = FALSE
  BY <1>1, OwnIs DEF ShapeInv, HandInv
<1>3. CASE Alone(own)
  <2>1. h'.responses = own
    BY <1>2, <1>3, HandChanged DEF Alone
  <2> QED
    BY <1>2, <2>1
<1>4. CASE Dropped
  <2>1. h'.responses = <<>>
    BY <1>4, EmptyHand DEF Dropped
  <2> QED
    BY <2>1, NoMessages
<1>5. CASE Replied(own)
  <2> DEFINE reply == RuleReply(RuleOf(h.rules, h.matched), h.message)
             r == Append(own, reply)
             l == Len(own)
  <2>1. IsMessage(reply) /\ reply.wbit = FALSE
    BY ReplyIs
  <2>2. h' = [h EXCEPT !.responses = Append(own, reply)]
    BY <1>5 DEF Replied
  <2> HIDE DEF reply
  <2>3. h'.responses = r
    BY <1>2, <2>2, HandChanged
  <2>4. /\ l \in Nat /\ DOMAIN own = 1..l /\ DOMAIN r = 1..l + 1
        /\ \A k \in DOMAIN own : r[k] = own[k]
        /\ r[l + 1] = reply
    BY <1>2, <2>1, Lengths, AppendMessage DEF IsMessages
  <2> HIDE DEF r, l
  <2>5. \A k \in DOMAIN r : k \in DOMAIN own \/ k = l + 1
    BY <2>4
  <2>6. \A k \in DOMAIN r : r[k].wbit = FALSE
    BY <1>2, <2>1, <2>4, <2>5
  <2> QED
    BY <2>3, <2>6
<1> QED
  BY <1>1, <1>3, <1>4, <1>5

LEMMA DrawnIsNew ==
    ASSUME ShapeInv
    PROVE  NextWord # counter
<1>1. Words \in Nat \ {0, 1}
  BY DataPathAssumption DEF DataPathAssumption
<1>2. NextWord = IF counter + 1 < Words THEN counter + 1 ELSE 0
  BY <1>1, Remainder DEF NextWord, ShapeInv, CountsInv
<1>3. counter \in 0..Words - 1
  BY DEF ShapeInv, CountsInv
<1> QED
  BY <1>1, <1>2, <1>3

\* What is drawn is sent, and its number is new.
LEMMA DrawnSent ==
    ASSUME ShapeInv, NumberInv, FreshNumber, counter' = NextWord,
           NEW m, IsMessage(m), Transmit([m EXCEPT !.system = NextWord])
    PROVE  /\ Unique(owed)'
           /\ \A w : Holds(owed, w)' => Holds(owed, w) \/ ~Asked(w)
<1> DEFINE n == [m EXCEPT !.system = NextWord]
<1>1. IsMessages(owed) /\ NextWord # counter
  BY DrawnIsNew DEF ShapeInv, QueuesInv
<1>2. IsMessage(n) /\ n.system = NextWord
  BY Numbered
<1>3. ~Holds(owed, NextWord) /\ ~Asked(NextWord)
  BY <1>1 DEF FreshNumber
<1>4. owed' = Append(owed, n) \/ owed' = owed
  BY <1>2 DEF Transmit
<1> HIDE DEF n
<1>5. Unique(owed') /\ \A w : Holds(owed', w) => Holds(owed, w) \/ w = NextWord
  BY <1>1, <1>2, <1>3, <1>4, NumbersAppend DEF NumberInv
<1> QED
  BY <1>3, <1>5

LEMMA NumberReader ==
    ASSUME ShapeInv, ShapeInv', NumberInv, FreshNumber, ReaderNext
    PROVE  NumberInv'
<1>1. CASE BeginScript \/ LogFirst \/ Receive \/ ProcessInbound \/ LeaveLink \/ Redial
  <2>1. owed' = owed /\ pc' \notin {"advance", "number", "send"}
    BY <1>1 DEF BeginScript, LogFirst, Receive, ProcessInbound, LeaveLink, Redial, wire
  <2>2. h'.responses = <<>>
    BY <2>1 DEF ShapeInv, HandInv
  <2> QED
    BY <2>1, <2>2, NoneAsked DEF NumberInv, AskedLast, Asked, Holds, Unique
<1>2. CASE SendFirst
  <2>1. pc' \notin {"advance", "number", "send"}
    BY <1>2 DEF SendFirst
  <2>2. h'.responses = <<>>
    BY <2>1 DEF ShapeInv, HandInv
  <2>3. Unique(owed)'
    <3>1. CASE running /\ link.up
      <4>1. Transmit([h.message EXCEPT !.system = NextWord]) /\ counter' = NextWord
        BY <1>2, <3>1 DEF SendFirst
      <4>2. IsMessage(h.message)
        BY HandParts DEF ShapeInv, HandInv
      <4> QED
        BY <4>1, <4>2, DrawnSent
    <3>2. CASE ~(running /\ link.up)
      BY <1>2, <3>2 DEF SendFirst, wire, NumberInv, Unique
    <3> QED
      BY <3>1, <3>2
  <2>4. AskedLast' /\ \A w : ~Asked(w)'
    BY <2>2, NoMessages DEF AskedLast, Asked
  <2> QED
    BY <2>3, <2>4 DEF NumberInv
<1>3. CASE AnswersItself
  <2>1. owed' = owed
    BY <1>3 DEF AnswersItself, wire
  <2>2. AskedLast' /\ \A w : ~Asked(w)'
    BY <1>3, OwnNotAsked DEF AskedLast, Asked
  <2> QED
    BY <2>1, <2>2 DEF NumberInv, Unique
<1>4. CASE AdvanceScript
  <2>1. owed' = owed /\ pc = "advance"
    BY <1>4 DEF AdvanceScript, wire
  <2>2. h'.responses = h.responses
    <3>1. ScriptInv /\ IsHand(h)
      BY DEF ShapeInv, HandInv
    <3>2. h' = h \/ \E a : h' = [h EXCEPT !.asks = a]
      BY <1>4, <3>1, Advancing
    <3>3. \A a : [h EXCEPT !.asks = a].responses = h.responses
      BY <3>1, HandChanged
    <3> QED
      BY <3>2, <3>3
  <2>3. AskedLast' /\ \A w : ~Asked(w)'
    BY <2>1, <2>2 DEF NumberInv, AskedLast, Asked
  <2> QED
    BY <2>1, <2>3 DEF NumberInv, Unique
<1>5. CASE NumberStep
  <2>1. owed' = owed /\ pc = "number"
    BY <1>5 DEF NumberStep, wire
  <2>2. CASE running
    <3> DEFINE m == [h.asks EXCEPT !.system = NextWord]
               r == Append(h.responses, m)
               l == Len(h.responses)
    <3>1. counter' = NextWord /\ h' = [h EXCEPT !.responses = r] /\ pc' = "send"
      BY <1>5, <2>2 DEF NumberStep, Reserved
    <3>2. IsHand(h) /\ IsMessages(h.responses) /\ IsMessage(h.asks)
      BY HandParts DEF ShapeInv, HandInv
    <3>3. IsMessage(m) /\ m.system = NextWord
      BY <3>2, Numbered
    <3>4. h'.responses = r
      BY <3>1, <3>2, HandChanged
    <3> HIDE DEF m
    <3>5. /\ l \in Nat /\ DOMAIN h.responses = 1..l /\ DOMAIN r = 1..l + 1 /\ Len(r) = l + 1
          /\ \A k \in DOMAIN h.responses : r[k] = h.responses[k]
          /\ r[l + 1] = m
      BY <3>2, <3>3, Lengths, AppendMessage DEF IsMessages
    <3> HIDE DEF r, l
    <3>6. \A k \in DOMAIN r : k \in DOMAIN h.responses \/ k = l + 1
      BY <3>5
    <3>7. \A k \in DOMAIN h.responses : h.responses[k].wbit # TRUE
      BY <2>1 DEF NumberInv, AskedLast
    <3>8. AskedLast'
      BY <3>1, <3>4, <3>5, <3>6, <3>7 DEF AskedLast
    <3>9. \A w : Asked(w)' => w = NextWord
      BY <3>3, <3>4, <3>5, <3>6, <3>7 DEF Asked
    <3>10. NextWord # 0 /\ ~Holds(owed, NextWord)
      <4>1. NextWord # counter
        BY DrawnIsNew
      <4> QED
        BY <2>1, <3>1, <4>1 DEF FreshNumber
    <3> QED
      BY <2>1, <3>8, <3>9, <3>10 DEF NumberInv, Unique, Holds
  <2>3. CASE ~running
    <3>1. h'.responses = <<>>
      BY <1>5, <2>3, EmptyHand DEF NumberStep
    <3>2. AskedLast' /\ \A w : ~Asked(w)'
      BY <3>1, NoMessages DEF AskedLast, Asked
    <3> QED
      BY <2>1, <3>2 DEF NumberInv, Unique
  <2> QED
    BY <2>2, <2>3
<1>6. CASE SendResponse
  <2>1. CASE h.responses # <<>> /\ link.up
    <3> DEFINE m == Head(h.responses)
               n == IF m.system = 0 THEN [m EXCEPT !.system = h.message.system] ELSE m
               r == Tail(h.responses)
               l == Len(h.responses)
    <3>1. Transmit(n) /\ h' = [h EXCEPT !.responses = r] /\ pc' = pc /\ pc = "send"
      BY <1>6, <2>1 DEF SendResponse
    <3>2. IsHand(h) /\ IsMessages(h.responses) /\ IsMessages(owed)
      BY HandParts DEF ShapeInv, HandInv, QueuesInv
    <3>3. h'.responses = r
      BY <3>1, <3>2, HandChanged
    <3>4. /\ l \in Nat \ {0} /\ DOMAIN r = 1..l - 1 /\ Len(r) = l - 1 /\ DOMAIN h.responses = 1..l
          /\ \A k \in DOMAIN r : k + 1 \in DOMAIN h.responses /\ r[k] = h.responses[k + 1]
          /\ m = h.responses[1] /\ 1 \in DOMAIN h.responses /\ IsMessage(m)
      BY <2>1, <3>2, TailMessages, Lengths DEF IsMessages
    <3> HIDE DEF m, r, l
    <3>5. \A k \in DOMAIN r : r[k].wbit = TRUE => k = l - 1
      <4>1. \A k \in DOMAIN h.responses : h.responses[k].wbit = TRUE => k = l
        BY DEF NumberInv, AskedLast, l
      <4>2. \A k \in DOMAIN r : k + 1 = l => k = l - 1
        BY <3>4
      <4> QED
        BY <3>4, <4>1, <4>2
    <3>6. AskedLast'
      BY <3>1, <3>3, <3>4, <3>5 DEF AskedLast
    <3>7. \A w : Asked(w)' => Asked(w)
      BY <3>3, <3>4 DEF Asked
    <3>8. CASE m.wbit = TRUE
      <4>1. Asked(m.system) /\ l = 1
        BY <3>4, <3>8 DEF Asked, NumberInv, AskedLast, l
      <4>2. n = m
        BY <4>1 DEF NumberInv
      <4>3. DOMAIN r = {}
        BY <3>4, <4>1
      <4>4. owed' = Append(owed, m)
        BY <3>1, <3>8, <4>2 DEF Transmit
      <4>5. Unique(owed')
        BY <3>2, <3>4, <4>1, <4>4, NumbersAppend DEF NumberInv
      <4>6. \A w : ~Asked(w)'
        BY <3>3, <4>3 DEF Asked
      <4> QED
        BY <3>6, <4>5, <4>6 DEF NumberInv
    <3>9. CASE m.wbit = FALSE
      <4>1. n.wbit = FALSE
        BY <3>4, <3>9, Numbered
      <4>2. owed' = owed
        BY <3>1, <4>1 DEF Transmit
      <4> QED
        BY <3>6, <3>7, <4>2 DEF NumberInv, Unique, Holds
    <3> QED
      BY <3>4, <3>8, <3>9 DEF IsMessage
  <2>2. CASE ~(h.responses # <<>> /\ link.up)
    <3>1. h'.responses = <<>> /\ owed' = owed
      BY <1>6, <2>2, EmptyHand DEF SendResponse, wire
    <3>2. AskedLast' /\ \A w : ~Asked(w)'
      BY <3>1, NoMessages DEF AskedLast, Asked
    <3> QED
      BY <3>1, <3>2 DEF NumberInv, Unique
  <2> QED
    BY <2>1, <2>2
<1> QED
  BY <1>1, <1>2, <1>3, <1>4, <1>5, <1>6 DEF ReaderNext

\* The reader has nothing to do with these.
LEMMA NumberOthers ==
    ASSUME ShapeInv, NumberInv, FreshNumber, SchedulerNext \/ OperatorNext \/ LinkBreaks \/ PeerNext
    PROVE  NumberInv'
<1>1. UNCHANGED <<pc, h>>
  BY DEF SchedulerNext, RunScheduled, SendScheduled, OperatorNext, EditSettings, EditRules, Stop,
         LinkBreaks, PeerNext, PeerSends, PeerAnswers, PeerMisanswers, Delivers
<1>2. AskedLast' /\ \A w : Asked(w)' => Asked(w)
  BY <1>1 DEF AskedLast, Asked, NumberInv
<1>3. IsMessages(owed)
  BY DEF ShapeInv, QueuesInv
<1>4. CASE SendScheduled /\ running /\ link.up
  <2>1. /\ Transmit([Head(batch) EXCEPT !.system = NextWord]) /\ counter' = NextWord
    BY <1>4 DEF SendScheduled
  <2>2. IsMessage(Head(batch))
    BY <1>4, TailMessages DEF ShapeInv, QueuesInv, SendScheduled
  <2>3. Unique(owed)' /\ \A w : Holds(owed, w)' => Holds(owed, w) \/ ~Asked(w)
    BY <2>1, <2>2, DrawnSent
  <2> QED
    BY <1>2, <2>3 DEF NumberInv
<1>5. CASE \/ (SendScheduled /\ ~(running /\ link.up)) \/ (\E n \in 1..Len(pending) : RunScheduled(n))
           \/ (\E s \in SettingsSet : EditSettings(s)) \/ (\E list \in RuleLists : EditRules(list))
           \/ (\E m \in Primaries : PeerSends(m))
  <2>1. owed' = owed
    BY <1>5 DEF SendScheduled, RunScheduled, EditSettings, EditRules, PeerSends, wire
  <2> QED
    BY <1>2, <2>1 DEF NumberInv, Unique, Holds
<1>6. CASE Stop \/ LinkBreaks
  <2>1. owed' = <<>>
    BY <1>6 DEF Stop, LinkBreaks, LoseLink
  <2> QED
    BY <1>2, <2>1, NoNumbers DEF NumberInv, Unique, Holds
<1>7. CASE \E k \in DOMAIN owed : PeerAnswers(k) \/ PeerMisanswers(k)
  <2>1. PICK k \in DOMAIN owed : owed' = RemoveAt(owed, k)
    BY <1>7, Delivering DEF Delivers
  <2>2. Unique(owed') /\ \A w : Holds(owed', w) => Holds(owed, w)
    BY <1>3, <2>1, NumbersRemove DEF NumberInv
  <2> QED
    BY <1>2, <2>2 DEF NumberInv
<1> QED
  BY <1>4, <1>5, <1>6, <1>7 DEF SchedulerNext, OperatorNext, PeerNext

(***************************************************************************)
(* Whatever the settings, the rules, the peer and the interleaving of the  *)
(* reader, the scheduler and the script, two requests that are not         *)
(* answered differ in their system bytes (nextSystemByte, sendMessage and  *)
(* advanceHostBootstrap of controller.go), as long as the counter does not *)
(* come round to a number that is still in flight.                         *)
(***************************************************************************)
THEOREM RequestsDistinct == Spec /\ [][FreshNumber]_vars => []OutstandingDistinct
<1>1. Init => NumberInv
  <2> SUFFICES ASSUME Init PROVE NumberInv
    OBVIOUS
  <2>1. h.responses = <<>> /\ owed = <<>>
    BY EmptyHand DEF Init
  <2> QED
    BY <2>1, NoneAsked, NoNumbers DEF NumberInv
<1>2. ASSUME ShapeInv, ShapeInv', NumberInv, [Next]_vars, [FreshNumber]_vars
      PROVE  NumberInv'
  <2>1. CASE Next /\ FreshNumber
    BY <1>2, <2>1, NumberReader, NumberOthers DEF Next
  <2>2. CASE UNCHANGED vars
    BY <1>2, <2>2 DEF NumberInv, AskedLast, Asked, Unique, Holds, vars, wire
  <2> QED
    BY <1>2, <2>1, <2>2
<1>3. NumberInv => OutstandingDistinct
  BY DEF NumberInv, Unique, OutstandingDistinct
<1> QED
  BY <1>1, <1>2, <1>3, ShapeAlways, PTL DEF Spec

-----------------------------------------------------------------------------
(***************************************************************************)
(* Before the counter of the system bytes wraps, every number is in one    *)
(* place at a time: it is owed an answer, on its way to the reader, handled *)
(* by it, to be asked by it, or answered.                                  *)
(***************************************************************************)
Grows == counter <= counter'

Busy == {"match", "answer", "advance", "number", "send"}
Handled(w)  == pc \in Busy /\ h.message.system = w
Answered(w) == w \in DOMAIN answers
Drawn(w)    == w \in 1..counter
Among(w, p, e) == \E i \in Nat : \/ (i < p /\ w = Words + 2 * i)
                                 \/ (i < e /\ w = Words + 2 * i + 1)
Theirs(w)   == Among(w, primaries, events)

WordIs(w) ==
    /\ Holds(owed, w) => Drawn(w) /\ ~Holds(inbox, w) /\ ~Handled(w) /\ ~Answered(w)
    /\ Asked(w) => Drawn(w) /\ ~Holds(inbox, w) /\ ~Handled(w) /\ ~Answered(w)
    /\ Holds(inbox, w) => (Drawn(w) \/ Theirs(w)) /\ ~Handled(w) /\ ~Answered(w)
    /\ Handled(w) => (Drawn(w) \/ Theirs(w)) /\ (Answered(w) => pc = "send")
    /\ Answered(w) => Drawn(w) \/ Theirs(w)
WordInv == Unique(inbox) /\ \A w : WordIs(w)

LEMMA KnownGrows ==
    ASSUME ShapeInv, ShapeInv', counter <= counter', primaries <= primaries', events <= events', NEW w
    PROVE  (Drawn(w) => Drawn(w)') /\ (Theirs(w) => Theirs(w)')
<1>1. Drawn(w) => Drawn(w)'
  BY DEF Drawn, ShapeInv, CountsInv
<1>2. Theirs(w) => Theirs(w)'
  BY DEF Theirs, Among, ShapeInv, CountsInv
<1> QED
  BY <1>1, <1>2

\* Nothing bears the next number of either side.
LEMMA NextIsNew ==
    ASSUME ShapeInv, WordInv,
           NEW w, \/ w = NextWord /\ counter <= NextWord
                  \/ w = Words + 2 * primaries
                  \/ w = Words + 2 * events + 1
    PROVE  /\ ~Drawn(w) /\ ~Theirs(w)
           /\ ~Holds(owed, w) /\ ~Holds(inbox, w) /\ ~Handled(w) /\ ~Asked(w) /\ ~Answered(w)
<1>1. /\ Words \in Nat /\ primaries \in Nat /\ events \in Nat /\ counter \in Nat /\ counter < Words
  BY DataPathAssumption DEF DataPathAssumption, ShapeInv, CountsInv
<1>2. ~Drawn(w) /\ ~Theirs(w)
  <2>1. CASE w = NextWord /\ counter <= NextWord
    <3>1. w = counter + 1 /\ w < Words
      BY <1>1, <2>1, NextWordIs DEF ShapeInv
    <3> QED
      BY <1>1, <3>1 DEF Drawn, Theirs, Among
  <2>2. CASE w = Words + 2 * primaries
    BY <1>1, <2>2 DEF Drawn, Theirs, Among
  <2>3. CASE w = Words + 2 * events + 1
    BY <1>1, <2>3 DEF Drawn, Theirs, Among
  <2> QED
    BY <2>1, <2>2, <2>3
<1>3. WordIs(w)
  BY DEF WordInv
<1> QED
  BY <1>2, <1>3 DEF WordIs

\* No number is drawn twice before the counter wraps.
LEMMA GrowsFresh ==
    ASSUME ShapeInv, WordInv, Grows, Next
    PROVE  FreshNumber
<1>1. counter' = counter \/ counter' = NextWord
  BY DEF Next, ReaderNext, SchedulerNext, OperatorNext, PeerNext, BeginScript, SendFirst, LogFirst,
         Receive, ProcessInbound, AnswersItself, AdvanceScript, NumberStep, SendResponse, LeaveLink,
         Redial, RunScheduled, SendScheduled, EditSettings, EditRules, Stop, LinkBreaks,
         PeerSends, PeerAnswers, PeerMisanswers, Delivers, Reserved
<1>2. CASE counter' = NextWord
  <2>1. counter <= NextWord
    BY <1>2 DEF Grows
  <2>2. ~Holds(owed, NextWord) /\ ~Asked(NextWord)
    BY <2>1, NextIsNew
  <2>3. NextWord # 0
    BY <2>1, NextWordIs DEF ShapeInv, CountsInv
  <2> QED
    BY <1>2, <2>2, <2>3 DEF FreshNumber
<1> QED
  BY <1>1, <1>2 DEF FreshNumber

\* A number that has gone from where it was, or stays there.
LEMMA WordKept ==
    ASSUME NEW w, WordIs(w), Drawn(w) => Drawn(w)', Theirs(w) => Theirs(w)',
           Holds(owed, w)' => Holds(owed, w), Holds(inbox, w)' => Holds(inbox, w),
           Handled(w)' => Handled(w), Asked(w)' => Asked(w), Answered(w)' => Answered(w),
           Handled(w)' /\ Answered(w)' => pc' = "send"
    PROVE  WordIs(w)'
BY DEF WordIs

LEMMA NoneHandled ==
    ASSUME ShapeInv, pc \notin Busy
    PROVE  \A w : ~Handled(w) /\ ~Asked(w)
<1>1. h.responses = <<>>
  BY DEF ShapeInv, HandInv, Busy
<1> QED
  BY <1>1, NoneAsked DEF Handled

LEMMA WithAnswerIs ==
    ASSUME NEW a, NEW m
    PROVE  /\ DOMAIN WithAnswer(a, m) = DOMAIN a \cup {m.system}
           /\ WithAnswer(a, m)[m.system] = Append(AnswersTo(a, m.system), m)
           /\ \A w \in DOMAIN a : w # m.system => WithAnswer(a, m)[w] = a[w]
           /\ AnswersTo(WithAnswer(a, m), m.system) = Append(AnswersTo(a, m.system), m)
           /\ \A w : w # m.system => AnswersTo(WithAnswer(a, m), w) = AnswersTo(a, w)
<1> DEFINE b == WithAnswer(a, m)
<1>1. /\ DOMAIN b = DOMAIN a \cup {m.system}
      /\ b[m.system] = Append(AnswersTo(a, m.system), m)
      /\ \A w \in DOMAIN a : w # m.system => b[w] = a[w]
  BY DEF WithAnswer
<1> HIDE DEF b
<1>2. /\ AnswersTo(b, m.system) = b[m.system]
      /\ \A w : w # m.system => AnswersTo(b, w) = AnswersTo(a, w)
  BY <1>1 DEF AnswersTo
<1> QED
  BY <1>1, <1>2 DEF b

\* A message sent under the next number.
LEMMA WordsDrawn ==
    ASSUME ShapeInv, ShapeInv', WordInv, Grows, counter' = NextWord,
           primaries' = primaries, events' = events, inbox' = inbox,
           NEW m, IsMessage(m), Transmit([m EXCEPT !.system = NextWord]),
           pc \in Busy => UNCHANGED <<pc, h>>, pc \notin Busy => pc' \notin Busy
    PROVE  WordInv'
<1> DEFINE n == [m EXCEPT !.system = NextWord]
<1>1. IsMessage(n) /\ n.system = NextWord /\ IsMessages(owed)
  BY Numbered DEF ShapeInv, QueuesInv
<1>2. \/ owed' = Append(owed, n) /\ answers' = answers
      \/ owed' = owed /\ answers' = WithAnswer(answers, n)
  BY <1>1 DEF Transmit
<1> HIDE DEF n
<1>3. \/ (\A w : Holds(owed, w)' => Holds(owed, w) \/ w = NextWord) /\ answers' = answers
      \/ owed' = owed /\ (\A w : Answered(w)' => Answered(w) \/ w = NextWord)
  <2>1. CASE owed' = Append(owed, n) /\ answers' = answers
    BY <1>1, <2>1, NumbersAppend
  <2>2. CASE owed' = owed /\ answers' = WithAnswer(answers, n)
    <3>1. DOMAIN WithAnswer(answers, n) = DOMAIN answers \cup {n.system}
      BY WithAnswerIs
    <3>2. \A w : w \in DOMAIN WithAnswer(answers, n) => w \in DOMAIN answers \/ w = NextWord
      BY <1>1, <3>1
    <3> QED
      BY <2>2, <3>2 DEF Answered
  <2> QED
    BY <1>2, <2>1, <2>2
<1>4. Unique(inbox)'
  BY DEF WordInv, Unique
<1>5. ASSUME NEW w PROVE WordIs(w)'
  <2>1. /\ Handled(w)' => Handled(w) /\ pc' = pc
        /\ Asked(w)' => Asked(w)
        /\ Holds(inbox, w)' => Holds(inbox, w)
    <3>1. CASE pc \in Busy
      BY <3>1 DEF Handled, Asked, Holds
    <3>2. CASE pc \notin Busy
      <4>1. h'.responses = <<>>
        BY <3>2 DEF ShapeInv, HandInv, Busy
      <4>2. ~Asked(w)'
        BY <4>1, NoMessages DEF Asked
      <4> QED
        BY <3>2, <4>2 DEF Handled, Holds
    <3> QED
      BY <3>1, <3>2
  <2>2. WordIs(w) /\ (Drawn(w) => Drawn(w)') /\ (Theirs(w) => Theirs(w)')
    <3>1. primaries <= primaries' /\ events <= events' /\ counter <= counter'
      BY DEF ShapeInv, CountsInv, Grows
    <3> QED
      BY <3>1, KnownGrows DEF WordInv
  <2>3. CASE w # NextWord
    <3>1. (Holds(owed, w)' => Holds(owed, w)) /\ (Answered(w)' => Answered(w))
      BY <1>3, <2>3 DEF Holds, Answered
    <3>2. Handled(w)' /\ Answered(w)' => pc' = "send"
      BY <2>1, <2>2, <3>1 DEF WordIs
    <3> QED
      BY <2>1, <2>2, <3>1, <3>2, WordKept
  <2>4. CASE w = NextWord
    <3>1. /\ ~Holds(owed, w) /\ ~Holds(inbox, w) /\ ~Handled(w) /\ ~Asked(w) /\ ~Answered(w)
      BY <2>4, NextIsNew DEF Grows
    <3>2. ~Holds(inbox, w)' /\ ~Handled(w)' /\ ~Asked(w)'
      BY <2>1, <3>1
    <3>3. ~(Holds(owed, w)' /\ Answered(w)')
      BY <1>3, <3>1 DEF Holds, Answered
    <3>4. Drawn(w)'
      <4>1. NextWord = counter + 1 /\ counter \in Nat
        BY NextWordIs DEF Grows, ShapeInv
      <4> QED
        BY <2>4, <4>1 DEF Drawn
    <3> QED
      BY <3>2, <3>3, <3>4 DEF WordIs
  <2> QED
    BY <2>3, <2>4
<1> QED
  BY <1>4, <1>5 DEF WordInv

\* An answer bears the number of the message it answers.
AnswerNumbers ==
    \A k \in DOMAIN h.responses :
        h.responses[k].wbit = FALSE => h.responses[k].system = h.message.system

LEMMA SameNumber ==
    ASSUME NEW m, IsMessage(m)
    PROVE  [m EXCEPT !.system = m.system] = m
<1>1. PICK a, b, c, d, e : m = [stream |-> a, function |-> b, wbit |-> c, system |-> d, body |-> e]
  BY DEF IsMessage
<1>2. ASSUME NEW x, x = [stream |-> a, function |-> b, wbit |-> c, system |-> d, body |-> e]
      PROVE  [x EXCEPT !.system = x.system] = x
  BY <1>2
<1> QED
  BY <1>1, <1>2

LEMMA WordsKept ==
    ASSUME ShapeInv, ShapeInv', WordInv, Grows, primaries <= primaries', events <= events',
           Unique(inbox)',
           \A w : /\ Holds(owed, w)' => Holds(owed, w)
                  /\ Holds(inbox, w)' => Holds(inbox, w)
                  /\ Handled(w)' => Handled(w)
                  /\ Asked(w)' => Asked(w)
                  /\ Answered(w)' => Answered(w)
                  /\ Handled(w)' /\ Answered(w)' => pc' = "send"
    PROVE  WordInv'
<1> SUFFICES ASSUME NEW w PROVE WordIs(w)'
  BY DEF WordInv
<1>1. WordIs(w) /\ (Drawn(w) => Drawn(w)') /\ (Theirs(w) => Theirs(w)')
  BY KnownGrows DEF WordInv, Grows
<1> QED
  BY <1>1, WordKept

LEMMA SameCounts ==
    ASSUME ShapeInv
    PROVE  primaries <= primaries /\ events <= events /\ counter <= counter
BY DEF ShapeInv, CountsInv

\* The reader keeps the message in hand until it is done with it.
LEMMA HandlingOne ==
    ASSUME ShapeInv,
           ProcessInbound \/ AnswersItself \/ AdvanceScript \/ NumberStep \/ SendResponse
    PROVE  /\ pc \in Busy /\ (pc' \notin Busy \/ h'.message = h.message)
<1>1. IsHand(h) /\ ScriptInv
  BY DEF ShapeInv, HandInv
<1>2. \A v : /\ [h EXCEPT !.matched = v].message = h.message
             /\ [h EXCEPT !.responses = v].message = h.message
             /\ [h EXCEPT !.asks = v].message = h.message
             /\ [h EXCEPT !.matched = v].responses = h.responses
             /\ [h EXCEPT !.asks = v].responses = h.responses
  BY <1>1, HandChanged DEF SameFields
<1>3. CASE ProcessInbound
  <2>1. pc = "match" /\ \E v : h' = [h EXCEPT !.matched = v]
    BY <1>3 DEF ProcessInbound
  <2> QED
    BY <1>2, <2>1 DEF Busy
<1>4. CASE AnswersItself
  <2>1. PICK own : Alone(own) \/ Dropped \/ Replied(own)
    BY <1>4, Answering
  <2>2. pc = "answer" /\ ((\E v : h' = [h EXCEPT !.responses = v]) \/ pc' = "reading")
    BY <1>4, <2>1 DEF AnswersItself, Alone, Dropped, Replied
  <2> QED
    BY <1>2, <1>4, <2>2 DEF Busy
<1>5. CASE AdvanceScript
  <2>1. pc = "advance"
    BY <1>5 DEF AdvanceScript
  <2>2. h' = h \/ \E v : h' = [h EXCEPT !.asks = v]
    BY <1>1, <1>5, Advancing
  <2> QED
    BY <1>2, <2>1, <2>2 DEF Busy
<1>6. CASE NumberStep
  <2>1. pc = "number" /\ ((\E v : h' = [h EXCEPT !.responses = v]) \/ pc' = "reading")
    BY <1>6 DEF NumberStep
  <2> QED
    BY <1>2, <1>6, <2>1 DEF Busy
<1>7. CASE SendResponse
  <2>1. pc = "send" /\ ((\E v : h' = [h EXCEPT !.responses = v]) \/ pc' = "reading")
    BY <1>7 DEF SendResponse
  <2> QED
    BY <1>2, <1>7, <2>1 DEF Busy
<1> QED
  BY <1>3, <1>4, <1>5, <1>6, <1>7

\* What a step of the script adds to the answers.
LEMMA StepAsked ==
    ASSUME ShapeInv, NumberInv, NumberStep, running
    PROVE  LET m == [h.asks EXCEPT !.system = NextWord]
           IN  /\ counter' = NextWord /\ pc' = "send" /\ IsMessage(m) /\ m.system = NextWord
               /\ m.wbit = TRUE /\ h'.responses = Append(h.responses, m)
               /\ \A w : Asked(w)' => w = NextWord
<1> DEFINE m == [h.asks EXCEPT !.system = NextWord]
           r == Append(h.responses, m)
           l == Len(h.responses)
<1>1. counter' = NextWord /\ h' = [h EXCEPT !.responses = r] /\ pc' = "send" /\ pc = "number"
  BY DEF NumberStep, Reserved
<1>2. IsHand(h) /\ IsMessages(h.responses) /\ IsMessage(h.asks) /\ h.asks.wbit = TRUE
  BY HandParts DEF ShapeInv, HandInv
<1>3. IsMessage(m) /\ m.system = NextWord /\ m.wbit = TRUE
  BY <1>2, Numbered
<1>4. h'.responses = r
  BY <1>1, <1>2, HandChanged
<1> HIDE DEF m
<1>5. /\ l \in Nat /\ DOMAIN h.responses = 1..l /\ DOMAIN r = 1..l + 1
      /\ \A k \in DOMAIN h.responses : r[k] = h.responses[k]
      /\ r[l + 1] = m
  BY <1>2, <1>3, Lengths, AppendMessage DEF IsMessages
<1>6. \A k \in DOMAIN h.responses : h.responses[k].wbit # TRUE
  BY <1>1 DEF NumberInv, AskedLast
<1> HIDE DEF r, l
<1>7. \A k \in DOMAIN r : k \in DOMAIN h.responses \/ k = l + 1
  BY <1>5
<1>8. \A w : Asked(w)' => w = NextWord
  BY <1>3, <1>4, <1>5, <1>6, <1>7 DEF Asked
<1> QED
  BY <1>1, <1>3, <1>4, <1>8 DEF m, r

\* What the reader sends: the request of the script, which is the last of the
\* answers, or an answer under the number of the message it answers.
LEMMA Responding ==
    ASSUME ShapeInv, NumberInv, AnswerNumbers, SendResponse, h.responses # <<>>, link.up
    PROVE  /\ pc = "send" /\ pc' = "send" /\ h'.responses = Tail(h.responses)
           /\ IsMessages(h.responses) /\ IsMessage(Head(h.responses))
           /\ \/ /\ Asked(Head(h.responses).system) /\ h'.responses = <<>>
                 /\ owed' = Append(owed, Head(h.responses)) /\ answers' = answers
              \/ /\ Head(h.responses).wbit = FALSE
                 /\ Head(h.responses).system = h.message.system
                 /\ owed' = owed /\ answers' = WithAnswer(answers, Head(h.responses))
<1> DEFINE m == Head(h.responses)
           n == IF m.system = 0 THEN [m EXCEPT !.system = h.message.system] ELSE m
           l == Len(h.responses)
<1>1. Transmit(n) /\ h' = [h EXCEPT !.responses = Tail(h.responses)] /\ pc' = pc /\ pc = "send"
  BY DEF SendResponse
<1>2. IsHand(h) /\ IsMessages(h.responses)
  BY HandParts DEF ShapeInv, HandInv
<1>3. h'.responses = Tail(h.responses)
  BY <1>1, <1>2, HandChanged
<1>4. /\ l \in Nat \ {0} /\ DOMAIN Tail(h.responses) = 1..l - 1 /\ Len(Tail(h.responses)) = l - 1
      /\ IsMessages(Tail(h.responses))
      /\ m = h.responses[1] /\ 1 \in DOMAIN h.responses /\ IsMessage(m)
  BY <1>2, TailMessages, Lengths DEF IsMessages
<1>5. CASE m.wbit = TRUE
  <2>1. Asked(m.system) /\ l = 1
    BY <1>4, <1>5 DEF Asked, NumberInv, AskedLast
  <2>2. n = m
    BY <2>1 DEF NumberInv
  <2>3. Tail(h.responses) = <<>>
    BY <1>4, <2>1, Lengths DEF IsMessages
  <2>4. owed' = Append(owed, m) /\ answers' = answers
    BY <1>1, <1>5, <2>2 DEF Transmit
  <2> QED
    BY <1>1, <1>2, <1>3, <1>4, <2>1, <2>3, <2>4
<1>6. CASE m.wbit = FALSE
  <2>1. m.system = h.message.system
    BY <1>4, <1>6 DEF AnswerNumbers
  <2>2. n = m
    BY <1>4, <2>1, SameNumber
  <2>3. owed' = owed /\ answers' = WithAnswer(answers, m)
    BY <1>1, <1>6, <2>2 DEF Transmit
  <2> QED
    BY <1>1, <1>2, <1>3, <1>4, <1>6, <2>1, <2>3
<1> QED
  BY <1>4, <1>5, <1>6 DEF IsMessage

LEMMA WordSends ==
    ASSUME ShapeInv, ShapeInv', NumberInv, NumberInv', AnswerNumbers, WordInv, Grows, SendResponse
    PROVE  WordInv'
<1>1. inbox' = inbox /\ primaries' = primaries /\ events' = events /\ counter' = counter /\ pc = "send"
  BY DEF SendResponse, peer
<1>2. primaries <= primaries' /\ events <= events' /\ Unique(inbox)'
  BY <1>1, SameCounts DEF WordInv, Unique
<1>3. pc \in Busy /\ (pc' \notin Busy \/ h'.message = h.message)
  BY HandlingOne
<1>4. CASE ~(h.responses # <<>> /\ link.up)
  <2>1. owed' = owed /\ answers' = answers /\ h' = Nothing /\ pc' = "reading"
    BY <1>4 DEF SendResponse, wire
  <2>2. h'.responses = <<>>
    BY <2>1, EmptyHand
  <2>3. \A w : ~Asked(w)'
    BY <2>2, NoMessages DEF Asked
  <2>4. ASSUME NEW w
        PROVE  /\ Holds(owed, w)' => Holds(owed, w)
               /\ Holds(inbox, w)' => Holds(inbox, w)
               /\ ~Handled(w)' /\ (Answered(w)' => Answered(w))
    BY <1>1, <2>1 DEF Holds, Handled, Answered, Busy
  <2> QED
    BY <1>2, <2>3, <2>4, WordsKept
<1>5. CASE h.responses # <<>> /\ link.up
  <2> DEFINE m == Head(h.responses)
  <2>1. /\ pc' = "send" /\ h'.responses = Tail(h.responses) /\ IsMessages(h.responses) /\ IsMessage(m)
        /\ \/ /\ Asked(m.system) /\ h'.responses = <<>>
              /\ owed' = Append(owed, m) /\ answers' = answers
           \/ /\ m.wbit = FALSE /\ m.system = h.message.system
              /\ owed' = owed /\ answers' = WithAnswer(answers, m)
    BY <1>5, Responding
  <2> HIDE DEF m
  <2>2. \A w : Handled(w)' => Handled(w)
    BY <1>3 DEF Handled
  <2>3. IsMessages(owed)
    BY DEF ShapeInv, QueuesInv
  <2>4. CASE /\ Asked(m.system) /\ h'.responses = <<>>
             /\ owed' = Append(owed, m) /\ answers' = answers
    <3>1. \A w : ~Asked(w)'
      BY <2>4, NoMessages DEF Asked
    <3>2. \A w : Holds(owed, w)' => Holds(owed, w) \/ w = m.system
      BY <2>1, <2>3, <2>4, NumbersAppend
    <3>3. ASSUME NEW w PROVE WordIs(w)'
      <4>1. /\ Holds(inbox, w)' => Holds(inbox, w)
            /\ Answered(w)' => Answered(w)
        BY <1>1, <2>4 DEF Holds, Answered
      <4>2. WordIs(w) /\ (Drawn(w) => Drawn(w)') /\ (Theirs(w) => Theirs(w)')
        BY <1>2, KnownGrows DEF WordInv, Grows
      <4> QED
        BY <2>1, <2>2, <2>4, <3>1, <3>2, <4>1, <4>2 DEF WordIs
    <3> QED
      BY <1>2, <3>3 DEF WordInv
  <2>5. CASE /\ m.wbit = FALSE /\ m.system = h.message.system
             /\ owed' = owed /\ answers' = WithAnswer(answers, m)
    <3>1. \A w : Answered(w)' => Answered(w) \/ w = m.system
      <4>1. DOMAIN WithAnswer(answers, m) = DOMAIN answers \cup {m.system}
        BY WithAnswerIs
      <4> QED
        BY <2>5, <4>1 DEF Answered
    <3>2. \A w : Asked(w)' => Asked(w)
      <4>1. h.responses # <<>>
        BY <1>5
      <4>2. \A k \in DOMAIN Tail(h.responses) : k + 1 \in DOMAIN h.responses /\ Tail(h.responses)[k] = h.responses[k + 1]
        BY <2>1, <4>1, TailMessages
      <4> QED
        BY <2>1, <4>2 DEF Asked
    <3>3. Handled(m.system)
      BY <1>3, <2>5 DEF Handled
    <3>4. ASSUME NEW w PROVE WordIs(w)'
      <4>1. /\ Holds(inbox, w)' => Holds(inbox, w)
            /\ Holds(owed, w)' => Holds(owed, w)
        BY <1>1, <2>5 DEF Holds
      <4>2. WordIs(w) /\ (Drawn(w) => Drawn(w)') /\ (Theirs(w) => Theirs(w)')
        BY <1>2, KnownGrows DEF WordInv, Grows
      <4> QED
        BY <2>1, <2>2, <3>1, <3>2, <3>3, <4>1, <4>2 DEF WordIs
    <3> QED
      BY <1>2, <3>4 DEF WordInv
  <2> QED
    BY <2>1, <2>4, <2>5
<1> QED
  BY <1>4, <1>5

LEMMA WordReader ==
    ASSUME ShapeInv, ShapeInv', NumberInv, NumberInv', AnswerNumbers, WordInv, Grows, ReaderNext
    PROVE  WordInv'
<1>1. /\ ~Receive => inbox' = inbox
      /\ primaries' = primaries /\ events' = events /\ IsMessages(inbox)
  BY DEF ReaderNext, BeginScript, SendFirst, LogFirst, Receive, ProcessInbound, AnswersItself,
         AdvanceScript, NumberStep, SendResponse, LeaveLink, Redial, peer, ShapeInv, QueuesInv
<1>2. primaries <= primaries' /\ events <= events'
  BY <1>1, SameCounts
<1>3. CASE BeginScript \/ LogFirst \/ LeaveLink \/ Redial
  <2>1. /\ pc' \notin Busy /\ owed' = owed /\ inbox' = inbox
        /\ answers' = answers \/ answers' = <<>>
    BY <1>3 DEF BeginScript, LogFirst, LeaveLink, Redial, wire, peer, Busy
  <2>2. h'.responses = <<>>
    BY <2>1 DEF ShapeInv, HandInv, Busy
  <2>3. \A w : ~Asked(w)'
    BY <2>2, NoMessages DEF Asked
  <2>4. \A w : Answered(w)' => Answered(w)
    BY <2>1, NoMessages DEF Answered
  <2>5. Unique(inbox)'
    BY <2>1 DEF WordInv, Unique
  <2>6. ASSUME NEW w
        PROVE  /\ Holds(owed, w)' => Holds(owed, w)
               /\ Holds(inbox, w)' => Holds(inbox, w)
               /\ ~Handled(w)'
    BY <2>1 DEF Holds, Handled
  <2> QED
    BY <1>2, <2>3, <2>4, <2>5, <2>6, WordsKept
<1>4. CASE SendFirst
  <2>1. pc \notin Busy /\ pc' \notin Busy
    BY <1>4 DEF SendFirst, Busy
  <2>2. CASE running /\ link.up
    <3>1. Transmit([h.message EXCEPT !.system = NextWord]) /\ counter' = NextWord
      BY <1>4, <2>2 DEF SendFirst
    <3>2. IsMessage(h.message)
      BY HandParts DEF ShapeInv, HandInv
    <3>3. inbox' = inbox
      BY <1>4 DEF SendFirst, peer
    <3> QED
      BY <1>1, <2>1, <3>1, <3>2, <3>3, WordsDrawn
  <2>3. CASE ~(running /\ link.up)
    <3>1. owed' = owed /\ inbox' = inbox /\ answers' = answers
      BY <1>4, <2>3 DEF SendFirst, wire, peer
    <3>2. h'.responses = <<>>
      BY <2>1 DEF ShapeInv, HandInv, Busy
    <3>3. \A w : ~Asked(w)'
      BY <3>2, NoMessages DEF Asked
    <3>4. Unique(inbox)'
      BY <3>1 DEF WordInv, Unique
    <3>5. ASSUME NEW w
          PROVE  /\ Holds(owed, w)' => Holds(owed, w)
                 /\ Holds(inbox, w)' => Holds(inbox, w)
                 /\ ~Handled(w)' /\ (Answered(w)' => Answered(w))
      BY <2>1, <3>1 DEF Holds, Handled, Answered
    <3> QED
      BY <1>2, <3>3, <3>4, <3>5, WordsKept
  <2> QED
    BY <2>2, <2>3
<1>5. CASE Receive
  <2>1. /\ inbox # <<>> /\ inbox' = Tail(inbox) /\ owed' = owed /\ answers' = answers
        /\ pc = "reading" /\ pc' = "match" /\ h' = Handling(Head(inbox), settings, rules)
    BY <1>5 DEF Receive, wire
  <2>2. IsMessage(Head(inbox))
    BY <1>1, <2>1, TailMessages
  <2>3. h'.message = Head(inbox)
    BY <2>1, <2>2, NewHand
  <2>4. h'.responses = <<>>
    BY <2>1 DEF ShapeInv, HandInv
  <2>5. \A w : ~Asked(w)'
    BY <2>4, NoMessages DEF Asked
  <2>6. /\ Unique(inbox') /\ ~Holds(inbox', Head(inbox).system)
        /\ Holds(inbox, Head(inbox).system) /\ \A w : Holds(inbox', w) => Holds(inbox, w)
    <3>1. Unique(Tail(inbox)) /\ ~Holds(Tail(inbox), Head(inbox).system)
      BY <1>1, <2>1, NumbersTail DEF WordInv
    <3>2. Holds(inbox, Head(inbox).system) /\ \A w : Holds(Tail(inbox), w) => Holds(inbox, w)
      BY <1>1, <2>1, NumbersTail
    <3> QED
      BY <2>1, <3>1, <3>2
  <2>7. ASSUME NEW w PROVE WordIs(w)'
    <3>1. /\ Holds(owed, w)' => Holds(owed, w)
          /\ Answered(w)' => Answered(w)
          /\ Handled(w)' <=> w = Head(inbox).system
      BY <2>1, <2>3 DEF Holds, Answered, Handled, Busy
    <3>2. WordIs(w) /\ (Drawn(w) => Drawn(w)') /\ (Theirs(w) => Theirs(w)')
      BY <1>2, KnownGrows DEF WordInv, Grows
    <3>3. CASE w = Head(inbox).system
      <4>1. Handled(w)' /\ ~Holds(inbox', w) /\ Holds(inbox, w)
        BY <2>6, <3>1, <3>3
      <4>2. ~Holds(owed, w)' /\ ~Answered(w)'
        BY <3>1, <3>2, <4>1 DEF WordIs
      <4>3. ~Asked(w)'
        BY <2>5
      <4> QED
        BY <3>2, <4>1, <4>2, <4>3 DEF WordIs
    <3>4. CASE w # Head(inbox).system
      BY <2>5, <2>6, <3>1, <3>2, <3>4 DEF WordIs
    <3> QED
      BY <3>3, <3>4
  <2> QED
    BY <2>6, <2>7 DEF WordInv
<1>6. CASE ProcessInbound \/ AnswersItself \/ AdvanceScript \/ (NumberStep /\ ~running)
  <2>1. /\ owed' = owed /\ inbox' = inbox /\ answers' = answers
        /\ pc \in {"match", "answer", "advance", "number"}
    BY <1>6 DEF ProcessInbound, AnswersItself, AdvanceScript, NumberStep, wire, peer
  <2>2. pc \in Busy /\ (pc' \notin Busy \/ h'.message = h.message)
    BY <1>6, HandlingOne
  <2>3. \A w : Asked(w)' => Asked(w)
    <3>1. CASE AnswersItself
      BY <3>1, OwnNotAsked DEF Asked
    <3>2. CASE NumberStep /\ ~running
      <4>1. h'.responses = <<>>
        BY <3>2, EmptyHand DEF NumberStep
      <4> QED
        BY <4>1, NoMessages DEF Asked
    <3>3. CASE ProcessInbound \/ AdvanceScript
      <4>1. h'.responses = <<>> \/ h'.responses = h.responses
        <5>1. IsHand(h) /\ ScriptInv
          BY DEF ShapeInv, HandInv
        <5>2. \/ h' = h \/ \E v : h' = [h EXCEPT !.matched = v] \/ h' = [h EXCEPT !.asks = v]
          BY <3>3, <5>1, Advancing DEF ProcessInbound
        <5>3. \A v : /\ [h EXCEPT !.matched = v].responses = h.responses
                     /\ [h EXCEPT !.asks = v].responses = h.responses
          BY <5>1, HandChanged
        <5> QED
          BY <5>2, <5>3
      <4> QED
        BY <4>1, NoMessages DEF Asked
    <3> QED
      BY <1>6, <3>1, <3>2, <3>3
  <2>4. Unique(inbox)'
    BY <2>1 DEF WordInv, Unique
  <2>5. ASSUME NEW w
        PROVE  /\ Holds(owed, w)' => Holds(owed, w)
               /\ Holds(inbox, w)' => Holds(inbox, w)
               /\ Handled(w)' => Handled(w)
               /\ Answered(w)' => Answered(w)
               /\ ~(Handled(w)' /\ Answered(w)')
    <3>1. /\ Holds(owed, w)' => Holds(owed, w)
          /\ Holds(inbox, w)' => Holds(inbox, w)
          /\ Handled(w)' => Handled(w)
          /\ Answered(w)' => Answered(w)
      BY <2>1, <2>2 DEF Holds, Handled, Answered
    <3> QED
      BY <2>1, <3>1 DEF WordInv, WordIs
  <2> QED
    BY <1>2, <2>3, <2>4, <2>5, WordsKept
<1>7. CASE NumberStep /\ running
  <2>1. owed' = owed /\ inbox' = inbox /\ answers' = answers
    BY <1>7 DEF NumberStep, wire, peer
  <2>2. counter' = NextWord /\ pc' = "send" /\ \A w : Asked(w)' => w = NextWord
    BY <1>7, StepAsked
  <2>3. pc \in Busy /\ (pc' \notin Busy \/ h'.message = h.message)
    BY <1>7, HandlingOne
  <2>4. Unique(inbox)'
    BY <2>1 DEF WordInv, Unique
  <2>5. ASSUME NEW w PROVE WordIs(w)'
    <3>1. /\ Holds(owed, w)' => Holds(owed, w)
          /\ Holds(inbox, w)' => Holds(inbox, w)
          /\ Handled(w)' => Handled(w)
          /\ Answered(w)' => Answered(w)
      BY <2>1, <2>3 DEF Holds, Handled, Answered
    <3>2. WordIs(w) /\ (Drawn(w) => Drawn(w)') /\ (Theirs(w) => Theirs(w)')
      BY <1>2, KnownGrows DEF WordInv, Grows
    <3>3. CASE w # NextWord
      <4>1. ~Asked(w)'
        BY <2>2, <3>3
      <4> QED
        BY <2>2, <3>1, <3>2, <4>1, WordKept
    <3>4. CASE w = NextWord
      <4>1. /\ ~Holds(owed, w) /\ ~Holds(inbox, w) /\ ~Handled(w) /\ ~Answered(w)
        BY <2>2, <3>4, NextIsNew DEF Grows
      <4>2. Drawn(w)'
        <5>1. NextWord = counter + 1 /\ counter \in Nat
          BY <2>2, NextWordIs DEF Grows, ShapeInv
        <5> QED
          BY <2>2, <3>4, <5>1 DEF Drawn
      <4> QED
        BY <3>1, <4>1, <4>2 DEF WordIs
    <3> QED
      BY <3>3, <3>4
  <2> QED
    BY <2>4, <2>5 DEF WordInv
<1>8. CASE SendResponse
  BY <1>1, <1>8, WordSends
<1> QED
  BY <1>3, <1>4, <1>5, <1>6, <1>7, <1>8 DEF ReaderNext

\* The peer's own message has a number of the peer's.
LEMMA WordPrimary ==
    ASSUME ShapeInv, ShapeInv', WordInv, Grows, NEW m \in Primaries, PeerSends(m)
    PROVE  WordInv'
<1> DEFINE u == Words + 2 * primaries
           n == [m EXCEPT !.system = u]
<1>1. /\ primaries' = primaries + 1 /\ events' = events /\ inbox' = Append(inbox, n)
      /\ UNCHANGED <<pc, h, owed, answers>>
  BY DEF PeerSends, wire
<1>2. IsMessage(n) /\ n.system = u /\ IsMessages(inbox)
  <2>1. IsMessage(m)
    BY DataPathAssumption DEF DataPathAssumption
  <2> HIDE DEF u
  <2> QED
    BY <2>1, Numbered DEF ShapeInv, QueuesInv
<1>3. /\ ~Drawn(u) /\ ~Theirs(u)
      /\ ~Holds(owed, u) /\ ~Holds(inbox, u) /\ ~Handled(u) /\ ~Asked(u) /\ ~Answered(u)
  BY NextIsNew
<1>4. Among(u, primaries', events') /\ primaries <= primaries' /\ events <= events'
  <2>1. primaries \in Nat /\ events \in Nat
    BY DEF ShapeInv, CountsInv
  <2> QED
    BY <1>1, <2>1 DEF Among
<1> HIDE DEF n
<1>5. Unique(inbox') /\ \A w : Holds(inbox', w) => Holds(inbox, w) \/ w = u
  BY <1>1, <1>2, <1>3, NumbersAppend DEF WordInv
<1>6. ASSUME NEW w PROVE WordIs(w)'
  <2>1. /\ Holds(owed, w)' => Holds(owed, w)
        /\ Handled(w)' => Handled(w) /\ pc' = pc
        /\ Asked(w)' => Asked(w)
        /\ Answered(w)' => Answered(w)
    BY <1>1 DEF Holds, Handled, Asked, Answered
  <2>2. WordIs(w) /\ (Drawn(w) => Drawn(w)') /\ (Theirs(w) => Theirs(w)')
    BY <1>4, KnownGrows DEF WordInv, Grows
  <2>3. CASE w = u
    <3>1. ~Holds(owed, w)' /\ ~Handled(w)' /\ ~Asked(w)' /\ ~Answered(w)'
      BY <1>3, <2>1, <2>3
    <3>2. Theirs(w)'
      <4>1. Among(w, primaries', events')
        BY <1>4, <2>3
      <4> QED
        BY <4>1 DEF Theirs
    <3> QED
      BY <3>1, <3>2 DEF WordIs
  <2>4. CASE w # u
    <3>1. Holds(inbox, w)' => Holds(inbox, w)
      BY <1>5, <2>4 DEF Holds
    <3>2. Handled(w)' /\ Answered(w)' => pc' = "send"
      BY <2>1, <2>2 DEF WordIs
    <3> QED
      BY <2>1, <2>2, <3>1, <3>2, WordKept
  <2> QED
    BY <2>3, <2>4
<1>7. Unique(inbox)'
  BY <1>5 DEF Unique
<1> QED
  BY <1>6, <1>7 DEF WordInv

\* What the peer gives for a request bears the request's number, and an event
\* a number of the peer's.
LEMMA WordDelivered ==
    ASSUME ShapeInv, ShapeInv', NumberInv, WordInv, Grows,
           NEW k \in DOMAIN owed, PeerAnswers(k) \/ PeerMisanswers(k)
    PROVE  WordInv'
<1> DEFINE u == Words + 2 * events + 1
           v == owed[k].system
<1>1. PICK s : Given(owed[k], s, u) /\ Delivers(k, s)
  BY Delivering
<1>2. /\ owed' = RemoveAt(owed, k) /\ inbox' = inbox \o s /\ events' = events + Len(s) - 1
      /\ UNCHANGED <<pc, h, answers, primaries>>
  BY <1>1 DEF Delivers
<1>3. /\ ~Drawn(u) /\ ~Theirs(u)
      /\ ~Holds(owed, u) /\ ~Holds(inbox, u) /\ ~Handled(u) /\ ~Asked(u) /\ ~Answered(u)
  BY NextIsNew
<1>4. /\ IsMessages(owed) /\ IsMessages(inbox) /\ Holds(owed, v) /\ u # v
  <2>1. Holds(owed, v)
    BY DEF Holds
  <2>2. u # v
    BY <1>3, <2>1, Zenon
  <2> QED
    BY <2>1, <2>2 DEF ShapeInv, QueuesInv
<1> HIDE DEF u, v
<1>5. /\ IsMessages(s) /\ Len(s) \in {1, 2}
      /\ \A j \in DOMAIN s : s[j].system \in {v, u}
      /\ Unique(s)
      /\ Len(s) = 1 => \A j \in DOMAIN s : s[j].system = v
  BY <1>1, <1>4, GivenIs DEF v, Unique
<1>6. \A w : /\ Holds(s, w) => w = u \/ w = v
             /\ Holds(s, w) /\ w = u => Len(s) = 2
  BY <1>4, <1>5 DEF Holds
<1>7. /\ ~Holds(inbox, v) /\ ~Handled(v) /\ ~Asked(v) /\ ~Answered(v) /\ Drawn(v)
  <2>1. WordIs(v)
    BY DEF WordInv
  <2> QED
    BY <1>4, <2>1 DEF WordIs, NumberInv
<1>8. /\ Unique(inbox') /\ \A w : Holds(inbox', w) => Holds(inbox, w) \/ Holds(s, w)
  <2>1. \A w : ~(Holds(inbox, w) /\ Holds(s, w))
    BY <1>3, <1>6, <1>7
  <2>2. Unique(inbox) /\ Unique(s)
    BY <1>5 DEF WordInv
  <2>3. Unique(inbox \o s) /\ \A w : Holds(inbox \o s, w) => Holds(inbox, w) \/ Holds(s, w)
    BY <1>4, <1>5, <2>1, <2>2, NumbersJoin
  <2> QED
    BY <1>2, <2>3
<1>9. /\ ~Holds(owed', v) /\ \A w : Holds(owed', w) => Holds(owed, w)
  <2>1. /\ ~Holds(RemoveAt(owed, k), v) /\ \A w : Holds(RemoveAt(owed, k), w) => Holds(owed, w)
    BY <1>4, NumbersRemove DEF NumberInv, v
  <2> QED
    BY <1>2, <2>1
<1>10. primaries <= primaries' /\ events <= events' /\ (Len(s) = 2 => Among(u, primaries', events'))
  <2> DEFINE l == Len(s)
  <2>1. /\ l \in {1, 2} /\ events' = events + l - 1 /\ primaries' = primaries
        /\ events \in Nat /\ primaries \in Nat
    BY <1>2, <1>5 DEF ShapeInv, CountsInv
  <2> HIDE DEF l
  <2>2. events <= events' /\ primaries <= primaries' /\ (l = 2 => events < events')
    BY <2>1
  <2>3. l = 2 => Among(u, primaries', events')
    BY <2>1, <2>2 DEF Among, u
  <2> QED
    BY <2>2, <2>3 DEF l
<1>11. ASSUME NEW w PROVE WordIs(w)'
  <2>1. /\ Holds(owed, w)' => Holds(owed, w) /\ w # v
        /\ Holds(inbox, w)' => Holds(inbox, w) \/ Holds(s, w)
        /\ Handled(w)' => Handled(w) /\ pc' = pc
        /\ Asked(w)' => Asked(w)
        /\ Answered(w)' => Answered(w)
    <3>1. /\ Holds(owed', w) => Holds(owed, w) /\ w # v
          /\ Holds(inbox', w) => Holds(inbox, w) \/ Holds(s, w)
      BY <1>8, <1>9
    <3> QED
      BY <1>2, <3>1 DEF Holds, Handled, Asked, Answered
  <2>2. WordIs(w) /\ (Drawn(w) => Drawn(w)') /\ (Theirs(w) => Theirs(w)')
    BY <1>10, KnownGrows DEF WordInv, Grows
  <2>3. CASE ~Holds(s, w)
    <3>1. Holds(inbox, w)' => Holds(inbox, w)
      BY <2>1, <2>3
    <3>2. Handled(w)' /\ Answered(w)' => pc' = "send"
      BY <2>1, <2>2 DEF WordIs
    <3> QED
      BY <2>1, <2>2, <3>1, <3>2, WordKept
  <2>4. CASE Holds(s, w)
    <3>1. /\ ~Handled(w) /\ ~Asked(w) /\ ~Answered(w) /\ (Holds(owed, w) => w = v)
      BY <1>3, <1>6, <1>7, <2>4
    <3>2. /\ ~Handled(w)' /\ ~Asked(w)' /\ ~Answered(w)' /\ ~Holds(owed, w)'
      BY <2>1, <3>1
    <3>3. Drawn(w)' \/ Theirs(w)'
      <4>1. CASE w = v
        BY <1>7, <2>2, <4>1
      <4>2. CASE w = u
        <5>1. Len(s) = 2
          BY <1>6, <2>4, <4>2
        <5>2. Among(w, primaries', events')
          BY <1>10, <4>2, <5>1
        <5> QED
          BY <5>2 DEF Theirs
      <4> QED
        BY <1>6, <2>4, <4>1, <4>2
    <3> QED
      BY <3>2, <3>3 DEF WordIs
  <2> QED
    BY <2>3, <2>4
<1>12. Unique(inbox)'
  BY <1>8 DEF Unique
<1> QED
  BY <1>11, <1>12 DEF WordInv

LEMMA WordOthers ==
    ASSUME ShapeInv, ShapeInv', NumberInv, WordInv, Grows,
           SchedulerNext \/ OperatorNext \/ LinkBreaks \/ PeerNext
    PROVE  WordInv'
<1>1. CASE SendScheduled /\ running /\ link.up
  <2>1. /\ Transmit([Head(batch) EXCEPT !.system = NextWord]) /\ counter' = NextWord
        /\ UNCHANGED <<pc, h, inbox, primaries, events>>
    BY <1>1 DEF SendScheduled, peer
  <2>2. IsMessage(Head(batch))
    BY <1>1, TailMessages DEF ShapeInv, QueuesInv, SendScheduled
  <2> QED
    BY <2>1, <2>2, WordsDrawn
<1>2. CASE \/ (SendScheduled /\ ~(running /\ link.up)) \/ (\E n \in 1..Len(pending) : RunScheduled(n))
           \/ OperatorNext \/ LinkBreaks
  <2>1. /\ UNCHANGED <<pc, h, answers, primaries, events>>
        /\ owed' = owed \/ owed' = <<>>
        /\ inbox' = inbox \/ inbox' = <<>>
    BY <1>2 DEF SendScheduled, RunScheduled, OperatorNext, EditSettings, EditRules, Stop, LinkBreaks,
                LoseLink, wire, peer
  <2>2. Unique(inbox)'
    <3>1. inbox' = inbox => Unique(inbox)'
      BY DEF WordInv, Unique
    <3>2. inbox' = <<>> => Unique(inbox)'
      BY NoMessages DEF Unique
    <3> QED
      BY <2>1, <3>1, <3>2
  <2>3. ASSUME NEW w
        PROVE  /\ Holds(owed, w)' => Holds(owed, w)
               /\ Holds(inbox, w)' => Holds(inbox, w)
               /\ Handled(w)' => Handled(w)
               /\ Asked(w)' => Asked(w)
               /\ Answered(w)' => Answered(w)
               /\ Handled(w)' /\ Answered(w)' => pc' = "send"
    <3>1. /\ Holds(owed, w)' => Holds(owed, w)
          /\ Holds(inbox, w)' => Holds(inbox, w)
      BY <2>1, NoMessages DEF Holds
    <3>2. /\ Handled(w)' => Handled(w) /\ pc' = pc
          /\ Asked(w)' => Asked(w)
          /\ Answered(w)' => Answered(w)
      BY <2>1 DEF Handled, Asked, Answered
    <3>3. WordIs(w)
      BY DEF WordInv
    <3> QED
      BY <3>1, <3>2, <3>3 DEF WordIs
  <2>4. primaries <= primaries' /\ events <= events'
    BY <2>1, SameCounts
  <2> QED
    BY <2>2, <2>3, <2>4, WordsKept
<1>3. CASE PeerNext
  BY <1>3, WordPrimary, WordDelivered DEF PeerNext
<1> QED
  BY <1>1, <1>2, <1>3 DEF SchedulerNext

-----------------------------------------------------------------------------
(***************************************************************************)
(* The answers to a message: what was sent and what the reader has still   *)
(* to send come to one, or to two with the acknowledgement of an event     *)
(* first.                                                                  *)
(***************************************************************************)
EventAck(m) == m.stream = 6 /\ m.body = Ack
GoodAnswers(a) == IsMessages(a) /\ (Len(a) = 1 \/ (Len(a) = 2 /\ EventAck(a[1])))
Fits(a, r) ==
    \A k \in DOMAIN r :
        r[k].wbit = FALSE =>
            \/ Len(a) + k = 1
            \/ Len(a) + k = 2 /\ EventAck(IF Len(a) = 1 THEN a[1] ELSE r[1])
AnswerInv ==
    /\ AnswerNumbers
    /\ \A w \in DOMAIN answers : GoodAnswers(answers[w])
    /\ Fits(AnswersTo(answers, h.message.system), h.responses)

LEMMA NothingToAnswer ==
    ASSUME h.responses = <<>>
    PROVE  AnswerNumbers /\ \A a : Fits(a, h.responses)
BY NoMessages DEF AnswerNumbers, Fits

\* A message sent under the next number answers nothing that was answered.
LEMMA DrawnAnswers ==
    ASSUME ShapeInv, WordInv, AnswerInv, Grows, counter' = NextWord,
           NEW m, IsMessage(m), Transmit([m EXCEPT !.system = NextWord])
    PROVE  /\ \A w \in DOMAIN answers' : GoodAnswers(answers'[w])
           /\ \A w : w # NextWord => AnswersTo(answers', w) = AnswersTo(answers, w)
<1> DEFINE n == [m EXCEPT !.system = NextWord]
<1>1. IsMessage(n) /\ n.system = NextWord
  BY Numbered
<1>2. answers' = answers \/ answers' = WithAnswer(answers, n)
  BY <1>1 DEF Transmit
<1> HIDE DEF n
<1>3. CASE answers' = answers
  BY <1>3 DEF AnswerInv
<1>4. CASE answers' = WithAnswer(answers, n)
  <2>1. NextWord \notin DOMAIN answers
    BY NextIsNew DEF Grows, Answered
  <2>2. AnswersTo(answers, NextWord) = <<>>
    BY <2>1 DEF AnswersTo
  <2> DEFINE b == WithAnswer(answers, n)
  <2>3. /\ DOMAIN b = DOMAIN answers \cup {n.system}
        /\ b[n.system] = Append(AnswersTo(answers, n.system), n)
        /\ \A w \in DOMAIN answers : w # n.system => b[w] = answers[w]
        /\ \A w : w # n.system => AnswersTo(b, w) = AnswersTo(answers, w)
    BY WithAnswerIs
  <2> HIDE DEF b
  <2>4. b[NextWord] = Append(<<>>, n)
    BY <1>1, <2>2, <2>3
  <2>5. GoodAnswers(b[NextWord])
    <3>1. IsMessages(Append(<<>>, n)) /\ Len(Append(<<>>, n)) = Len(<<>>) + 1 /\ Len(<<>>) = 0
      BY <1>1, AppendMessage, NoMessages
    <3> QED
      BY <2>4, <3>1 DEF GoodAnswers
  <2>6. ASSUME NEW w \in DOMAIN b PROVE GoodAnswers(b[w])
    <3>1. CASE w = NextWord
      BY <2>5, <3>1
    <3>2. CASE w # NextWord
      <4>1. w \in DOMAIN answers /\ b[w] = answers[w]
        BY <1>1, <2>3, <3>2
      <4> QED
        BY <4>1 DEF AnswerInv
    <3> QED
      BY <3>1, <3>2
  <2>7. \A w : w # NextWord => AnswersTo(b, w) = AnswersTo(answers, w)
    BY <1>1, <2>3
  <2> QED
    BY <1>4, <2>6, <2>7 DEF b
<1> QED
  BY <1>2, <1>3, <1>4

\* What the reader finds to answer.
LEMMA OwnFits ==
    ASSUME ShapeInv, AnswersItself
    PROVE  AnswerNumbers' /\ Fits(<<>>, h'.responses)
<1>1. PICK own : Own(h.message, own) /\ (Alone(own) \/ Dropped \/ Replied(own))
  BY Answering
<1>2. /\ IsHand(h) /\ IsMessages(own) /\ Len(own) \in {0, 1}
      /\ \A k \in DOMAIN own : own[k].wbit = FALSE /\ own[k].system = h.message.system /\ k = 1
  BY <1>1, OwnIs DEF ShapeInv, HandInv
<1>3. Len(<<>>) = 0
  BY NoMessages
<1>4. CASE Alone(own)
  <2>1. h'.responses = own /\ h'.message = h.message
    BY <1>2, <1>4, HandChanged DEF Alone, SameFields
  <2>2. Fits(<<>>, own)
    <3> SUFFICES ASSUME NEW k \in DOMAIN own PROVE Len(<<>>) + k = 1
      BY DEF Fits
    <3>1. k = 1
      BY <1>2
    <3> QED
      BY <1>3, <3>1
  <2> QED
    BY <1>2, <2>1, <2>2 DEF AnswerNumbers
<1>5. CASE Dropped
  <2>1. h'.responses = <<>>
    BY <1>5, EmptyHand DEF Dropped
  <2> QED
    BY <2>1, NoMessages DEF AnswerNumbers, Fits
<1>6. CASE Replied(own)
  <2> DEFINE reply == RuleReply(RuleOf(h.rules, h.matched), h.message)
             r == Append(own, reply)
             l == Len(own)
  <2>1. IsMessage(reply) /\ reply.wbit = FALSE /\ reply.system = h.message.system
    BY ReplyIs
  <2>2. h' = [h EXCEPT !.responses = Append(own, reply)]
    BY <1>6 DEF Replied
  <2>3. own = <<>> \/ (own = <<Answer(h.message, Ack)>> /\ h.message.stream = 6)
    BY <1>6 DEF Replied
  <2> HIDE DEF reply
  <2>4. h'.responses = r /\ h'.message = h.message
    BY <1>2, <2>2, HandChanged DEF SameFields
  <2>5. /\ l \in {0, 1} /\ DOMAIN own = 1..l /\ DOMAIN r = 1..l + 1
        /\ \A k \in DOMAIN own : r[k] = own[k]
        /\ r[l + 1] = reply
    BY <1>2, <2>1, Lengths, AppendMessage DEF IsMessages
  <2>6. l = 1 => EventAck(own[1])
    <3> DEFINE a == Answer(h.message, Ack)
    <3>1. a.stream = h.message.stream /\ a.body = Ack
      BY AnswerIs
    <3> HIDE DEF a
    <3>2. CASE own = <<a>>
      <4>1. own[1] = a
        BY <3>2
      <4>2. own # <<>>
        BY <3>2
      <4> QED
        BY <2>3, <3>1, <4>1, <4>2 DEF EventAck
    <3>3. CASE own = <<>>
      BY <1>3, <3>3
    <3> QED
      BY <2>3, <3>2, <3>3 DEF a
  <2> HIDE DEF r, l
  <2>7. ASSUME NEW k \in DOMAIN r
        PROVE  /\ r[k].system = h.message.system
               /\ k = 1 \/ (k = 2 /\ EventAck(r[1]))
    <3>1. k \in DOMAIN own \/ k = l + 1
      BY <2>5
    <3>2. CASE k \in DOMAIN own
      BY <1>2, <2>5, <3>2
    <3>3. CASE k = l + 1
      <4>1. r[k].system = h.message.system
        BY <2>1, <2>5, <3>3
      <4>2. CASE l = 0
        BY <3>3, <4>1, <4>2
      <4>3. CASE l = 1
        <5>1. 1 \in DOMAIN own
          BY <2>5, <4>3
        <5>2. r[1] = own[1] /\ EventAck(own[1])
          BY <2>5, <2>6, <4>3, <5>1
        <5>3. k = 2
          BY <3>3, <4>3
        <5> QED
          BY <4>1, <5>2, <5>3
      <4> QED
        BY <2>5, <4>2, <4>3
    <3> QED
      BY <3>1, <3>2, <3>3
  <2>8. Fits(<<>>, r)
    <3> SUFFICES ASSUME NEW k \in DOMAIN r
                 PROVE  \/ Len(<<>>) + k = 1
                        \/ Len(<<>>) + k = 2 /\ EventAck(IF Len(<<>>) = 1 THEN <<>>[1] ELSE r[1])
      BY DEF Fits
    <3>1. k = 1 \/ (k = 2 /\ EventAck(r[1]))
      BY <2>7
    <3> QED
      BY <1>3, <3>1
  <2> QED
    BY <2>4, <2>7, <2>8 DEF AnswerNumbers
<1> QED
  BY <1>1, <1>4, <1>5, <1>6

\* An answer that fits, sent, is a good answer, and the others fit after it.
LEMMA SentFits ==
    ASSUME NEW a, a = <<>> \/ GoodAnswers(a), NEW r, IsMessages(r), r # <<>>,
           Head(r).wbit = FALSE, Fits(a, r)
    PROVE  GoodAnswers(Append(a, Head(r))) /\ Fits(Append(a, Head(r)), Tail(r))
<1> DEFINE m == Head(r)
           b == Append(a, m)
           t == Tail(r)
           l == Len(a)
           n == Len(b)
<1>1. IsMessages(a)
  BY NoMessages DEF GoodAnswers
<1>2. /\ 1 \in DOMAIN r /\ m = r[1] /\ IsMessage(m) /\ DOMAIN t = 1..Len(r) - 1 /\ Len(r) \in Nat
      /\ \A k \in DOMAIN t : k + 1 \in DOMAIN r /\ t[k] = r[k + 1]
  BY TailMessages
<1> HIDE DEF m
<1>3. /\ l \in Nat /\ DOMAIN a = 1..l /\ IsMessages(b) /\ n = l + 1
      /\ \A k \in DOMAIN a : b[k] = a[k]
      /\ b[l + 1] = m
  BY <1>1, <1>2, Lengths, AppendMessage DEF IsMessages
<1> HIDE DEF b, t
<1>4. \A k \in DOMAIN r :
        r[k].wbit = FALSE => l + k = 1 \/ (l + k = 2 /\ EventAck(IF l = 1 THEN a[1] ELSE r[1]))
  BY DEF Fits
<1> HIDE DEF l, n
<1>5. l + 1 = 1 \/ (l + 1 = 2 /\ EventAck(IF l = 1 THEN a[1] ELSE r[1]))
  BY <1>2, <1>4 DEF m
<1>6. l = 0 \/ (l = 1 /\ EventAck(a[1]))
  BY <1>3, <1>5
<1>7. /\ l = 0 => n = 1 /\ b[1] = m
      /\ l = 1 => n = 2 /\ b[1] = a[1]
  BY <1>3
<1>8. GoodAnswers(b)
  BY <1>3, <1>6, <1>7 DEF GoodAnswers, n
<1>9. ASSUME NEW k \in DOMAIN t, t[k].wbit = FALSE
      PROVE  \/ n + k = 1
             \/ n + k = 2 /\ EventAck(IF n = 1 THEN b[1] ELSE t[1])
  <2>1. k \in Nat \ {0} /\ k + 1 \in DOMAIN r /\ r[k + 1].wbit = FALSE
    BY <1>2, <1>9
  <2>2. l + (k + 1) = 1 \/ (l + (k + 1) = 2 /\ EventAck(IF l = 1 THEN a[1] ELSE r[1]))
    BY <1>4, <2>1
  <2>3. l = 0 /\ k = 1
    BY <1>3, <2>1, <2>2
  <2>4. EventAck(r[1])
    BY <2>2, <2>3
  <2> QED
    BY <1>2, <1>7, <2>3, <2>4
<1>10. Fits(b, t)
  BY <1>9 DEF Fits, n
<1> QED
  BY <1>8, <1>10 DEF b, t, m

LEMMA AnswerReader ==
    ASSUME ShapeInv, ShapeInv', NumberInv, WordInv, AnswerInv, Grows, ReaderNext
    PROVE  AnswerInv'
<1>1. CASE BeginScript \/ LogFirst \/ Receive \/ ProcessInbound \/ LeaveLink \/ Redial
  <2>1. /\ answers' = answers \/ answers' = <<>>
        /\ pc' \notin {"advance", "number", "send"}
    BY <1>1 DEF BeginScript, LogFirst, Receive, ProcessInbound, LeaveLink, Redial, wire
  <2>2. h'.responses = <<>>
    BY <2>1 DEF ShapeInv, HandInv
  <2>3. AnswerNumbers' /\ Fits(AnswersTo(answers, h.message.system), h.responses)'
    BY <2>2, NoMessages DEF AnswerNumbers, Fits
  <2>4. (\A w \in DOMAIN answers : GoodAnswers(answers[w]))'
    BY <2>1, NoMessages DEF AnswerInv
  <2> QED
    BY <2>3, <2>4 DEF AnswerInv
<1>2. CASE SendFirst
  <2>1. pc' \notin {"advance", "number", "send"}
    BY <1>2 DEF SendFirst
  <2>2. h'.responses = <<>>
    BY <2>1 DEF ShapeInv, HandInv
  <2>3. AnswerNumbers' /\ Fits(AnswersTo(answers, h.message.system), h.responses)'
    BY <2>2, NoMessages DEF AnswerNumbers, Fits
  <2>4. \A w \in DOMAIN answers' : GoodAnswers(answers'[w])
    <3>1. CASE running /\ link.up
      <4>1. Transmit([h.message EXCEPT !.system = NextWord]) /\ counter' = NextWord
        BY <1>2, <3>1 DEF SendFirst
      <4>2. IsMessage(h.message)
        BY HandParts DEF ShapeInv, HandInv
      <4> QED
        BY <4>1, <4>2, DrawnAnswers
    <3>2. CASE ~(running /\ link.up)
      BY <1>2, <3>2 DEF SendFirst, wire, AnswerInv
    <3> QED
      BY <3>1, <3>2
  <2> QED
    BY <2>3, <2>4 DEF AnswerInv
<1>3. CASE AnswersItself
  <2>1. answers' = answers /\ pc = "answer"
    BY <1>3 DEF AnswersItself, wire
  <2>2. AnswerNumbers' /\ Fits(<<>>, h'.responses)
    BY <1>3, OwnFits
  <2>3. h'.responses = <<>> \/ h'.message = h.message
    <3>1. pc' \notin Busy \/ h'.message = h.message
      BY <1>3, HandlingOne
    <3> QED
      BY <3>1 DEF ShapeInv, HandInv, Busy
  <2>4. CASE h'.message = h.message
    <3> DEFINE w == h.message.system
    <3>1. Handled(w)
      BY <2>1 DEF Handled, Busy
    <3>2. ~Answered(w)
      BY <2>1, <3>1 DEF WordInv, WordIs
    <3>3. AnswersTo(answers', h'.message.system) = <<>>
      BY <2>1, <2>4, <3>2 DEF AnswersTo, Answered
    <3> QED
      BY <2>1, <2>2, <3>3 DEF AnswerInv
  <2>5. CASE h'.responses = <<>>
    <3>1. Fits(AnswersTo(answers, h.message.system), h.responses)'
      BY <2>5, NoMessages DEF Fits
    <3> QED
      BY <2>1, <2>2, <3>1 DEF AnswerInv
  <2> QED
    BY <2>3, <2>4, <2>5
<1>4. CASE AdvanceScript
  <2>1. answers' = answers
    BY <1>4 DEF AdvanceScript, wire
  <2>2. h'.message = h.message /\ h'.responses = h.responses
    <3>1. ScriptInv /\ IsHand(h)
      BY DEF ShapeInv, HandInv
    <3>2. h' = h \/ \E a : h' = [h EXCEPT !.asks = a]
      BY <1>4, <3>1, Advancing
    <3>3. \A a : [h EXCEPT !.asks = a].responses = h.responses /\ [h EXCEPT !.asks = a].message = h.message
      BY <3>1, HandChanged DEF SameFields
    <3> QED
      BY <3>2, <3>3
  <2> QED
    BY <2>1, <2>2 DEF AnswerInv, AnswerNumbers
<1>5. CASE NumberStep
  <2>1. answers' = answers
    BY <1>5 DEF NumberStep, wire
  <2>2. CASE running
    <3> DEFINE m == [h.asks EXCEPT !.system = NextWord]
               q == h.responses
               r == Append(q, m)
               l == Len(q)
               a == AnswersTo(answers, h.message.system)
    <3>1. h'.responses = r /\ IsMessage(m) /\ m.wbit = TRUE /\ pc' = "send"
      BY <1>5, <2>2, StepAsked
    <3>2. h'.message = h.message
      BY <1>5, <3>1, HandlingOne DEF Busy
    <3>3. IsMessages(q)
      BY HandParts DEF ShapeInv, HandInv
    <3> HIDE DEF m
    <3>4. /\ l \in Nat /\ DOMAIN q = 1..l /\ DOMAIN r = 1..l + 1
          /\ \A k \in DOMAIN q : r[k] = q[k]
          /\ r[l + 1] = m
      BY <3>1, <3>3, Lengths, AppendMessage DEF IsMessages
    <3>5. AnswerNumbers /\ Fits(a, q)
      BY DEF AnswerInv
    <3> HIDE DEF q, r, l, a
    <3>6. ASSUME NEW k \in DOMAIN r, r[k].wbit = FALSE
          PROVE  k \in DOMAIN q /\ r[k] = q[k] /\ r[1] = q[1]
      <4>1. k \in DOMAIN q
        BY <3>1, <3>4, <3>6
      <4>2. 1 \in DOMAIN q
        BY <3>4, <4>1
      <4> QED
        BY <3>4, <4>1, <4>2
    <3>7. Fits(a, r)
      BY <3>5, <3>6 DEF Fits
    <3>8. \A k \in DOMAIN r : r[k].wbit = FALSE => r[k].system = h.message.system
      BY <3>5, <3>6 DEF AnswerNumbers, q
    <3> QED
      BY <2>1, <3>1, <3>2, <3>7, <3>8 DEF AnswerInv, AnswerNumbers, a
  <2>3. CASE ~running
    <3>1. h'.responses = <<>>
      BY <1>5, <2>3, EmptyHand DEF NumberStep
    <3>2. AnswerNumbers' /\ Fits(AnswersTo(answers, h.message.system), h.responses)'
      BY <3>1, NoMessages DEF AnswerNumbers, Fits
    <3> QED
      BY <2>1, <3>2 DEF AnswerInv
  <2> QED
    BY <2>2, <2>3
<1>6. CASE SendResponse
  <2>1. CASE ~(h.responses # <<>> /\ link.up)
    <3>1. h'.responses = <<>> /\ answers' = answers
      BY <1>6, <2>1, EmptyHand DEF SendResponse, wire
    <3>2. AnswerNumbers' /\ Fits(AnswersTo(answers, h.message.system), h.responses)'
      BY <3>1, NoMessages DEF AnswerNumbers, Fits
    <3> QED
      BY <3>1, <3>2 DEF AnswerInv
  <2>2. CASE h.responses # <<>> /\ link.up
    <3> DEFINE m == Head(h.responses)
               w == h.message.system
               a == AnswersTo(answers, w)
               b == Append(a, m)
               t == Tail(h.responses)
    <3>1. /\ pc' = "send" /\ h'.responses = t /\ IsMessages(h.responses) /\ IsMessage(m)
          /\ \/ h'.responses = <<>> /\ answers' = answers
             \/ /\ m.wbit = FALSE /\ m.system = w
                /\ answers' = WithAnswer(answers, m)
      BY <1>6, <2>2, Responding DEF AnswerInv
    <3>2. h'.message = h.message
      BY <1>6, <3>1, HandlingOne DEF Busy
    <3>3. CASE h'.responses = <<>> /\ answers' = answers
      <4>1. AnswerNumbers' /\ Fits(AnswersTo(answers, h.message.system), h.responses)'
        BY <3>3, NoMessages DEF AnswerNumbers, Fits
      <4> QED
        BY <3>3, <4>1 DEF AnswerInv
    <3>4. CASE m.wbit = FALSE /\ m.system = w /\ answers' = WithAnswer(answers, m)
      <4>1. a = <<>> \/ GoodAnswers(a)
        BY DEF AnswerInv, AnswersTo
      <4>2. Fits(a, h.responses)
        BY DEF AnswerInv
      <4>3. GoodAnswers(b) /\ Fits(b, t)
        BY <2>2, <3>1, <3>4, <4>1, <4>2, SentFits
      <4> DEFINE c == WithAnswer(answers, m)
      <4> HIDE DEF m, w
      <4>4. /\ DOMAIN c = DOMAIN answers \cup {w} /\ c[w] = b
            /\ \A v \in DOMAIN answers : v # w => c[v] = answers[v]
            /\ AnswersTo(c, w) = b
        BY <3>4, WithAnswerIs
      <4> HIDE DEF b, c, t
      <4>5. \A v \in DOMAIN c : GoodAnswers(c[v])
        BY <4>3, <4>4 DEF AnswerInv
      <4>6. AnswerNumbers'
        <5>1. \A k \in DOMAIN t : k + 1 \in DOMAIN h.responses /\ t[k] = h.responses[k + 1]
          BY <2>2, <3>1, TailMessages DEF t
        <5>2. \A k \in DOMAIN t : t[k].wbit = FALSE => t[k].system = w
          BY <5>1 DEF AnswerInv, AnswerNumbers, w
        <5> QED
          BY <3>1, <3>2, <5>2 DEF AnswerNumbers, w
      <4>7. AnswersTo(answers', h'.message.system) = b
        BY <3>2, <3>4, <4>4 DEF c, w
      <4>8. Fits(AnswersTo(answers', h'.message.system), h'.responses)
        BY <3>1, <4>3, <4>7
      <4>9. \A v \in DOMAIN answers' : GoodAnswers(answers'[v])
        BY <3>4, <4>5 DEF c
      <4> QED
        BY <4>6, <4>8, <4>9 DEF AnswerInv
    <3> QED
      BY <3>1, <3>3, <3>4
  <2> QED
    BY <2>1, <2>2
<1> QED
  BY <1>1, <1>2, <1>3, <1>4, <1>5, <1>6 DEF ReaderNext

LEMMA AnswerOthers ==
    ASSUME ShapeInv, WordInv, AnswerInv, Grows, SchedulerNext \/ OperatorNext \/ LinkBreaks \/ PeerNext
    PROVE  AnswerInv'
<1>1. UNCHANGED <<pc, h>>
  BY DEF SchedulerNext, RunScheduled, SendScheduled, OperatorNext, EditSettings, EditRules, Stop,
         LinkBreaks, PeerNext, PeerSends, PeerAnswers, PeerMisanswers, Delivers
<1>2. CASE SendScheduled /\ running /\ link.up
  <2>1. /\ Transmit([Head(batch) EXCEPT !.system = NextWord]) /\ counter' = NextWord
    BY <1>2 DEF SendScheduled
  <2>2. IsMessage(Head(batch))
    BY <1>2, TailMessages DEF ShapeInv, QueuesInv, SendScheduled
  <2>3. /\ \A w \in DOMAIN answers' : GoodAnswers(answers'[w])
        /\ \A w : w # NextWord => AnswersTo(answers', w) = AnswersTo(answers, w)
    BY <2>1, <2>2, DrawnAnswers
  <2>4. Fits(AnswersTo(answers', h.message.system), h.responses)
    <3>1. CASE pc \in Busy
      <4>1. h.message.system # NextWord
        <5>1. Handled(h.message.system)
          BY <3>1 DEF Handled
        <5>2. ~Handled(NextWord)
          BY <2>1, NextIsNew DEF Grows
        <5> QED
          BY <5>1, <5>2
      <4> QED
        BY <2>3, <4>1 DEF AnswerInv
    <3>2. CASE pc \notin Busy
      <4>1. h.responses = <<>>
        BY <3>2 DEF ShapeInv, HandInv, Busy
      <4> QED
        BY <4>1, NothingToAnswer
    <3> QED
      BY <3>1, <3>2
  <2> QED
    BY <1>1, <2>3, <2>4 DEF AnswerInv, AnswerNumbers
<1>3. CASE ~(SendScheduled /\ running /\ link.up)
  <2>1. answers' = answers
    BY <1>3 DEF SchedulerNext, RunScheduled, SendScheduled, OperatorNext, EditSettings, EditRules, Stop,
         LinkBreaks, PeerNext, PeerSends, PeerAnswers, PeerMisanswers, Delivers, wire
  <2> QED
    BY <1>1, <2>1 DEF AnswerInv, AnswerNumbers
<1> QED
  BY <1>2, <1>3

PathInv == ShapeInv /\ NumberInv /\ WordInv /\ AnswerInv

LEMMA PathInit ==
    ASSUME Init
    PROVE  PathInv
<1>1. h.responses = <<>> /\ owed = <<>> /\ inbox = <<>> /\ answers = <<>> /\ pc \notin Busy
  BY EmptyHand DEF Init, Busy
<1>2. NumberInv
  BY <1>1, NoneAsked, NoNumbers DEF NumberInv
<1>3. WordInv
  <2>1. \A w : ~Asked(w)
    BY <1>1, NoneAsked
  <2>2. \A w : ~Handled(w) /\ ~Answered(w)
    BY <1>1, NoMessages DEF Handled, Answered
  <2> QED
    BY <1>1, <2>1, <2>2, NoNumbers DEF WordInv, WordIs
<1>4. AnswerInv
  BY <1>1, NothingToAnswer, NoMessages DEF AnswerInv
<1> QED
  BY <1>2, <1>3, <1>4, ShapeInit DEF PathInv

LEMMA PathStep ==
    ASSUME PathInv, [Next]_vars, [Grows]_vars
    PROVE  PathInv'
<1>1. ShapeInv /\ NumberInv /\ WordInv /\ AnswerInv /\ AnswerNumbers /\ ShapeInv'
  BY ShapeStep DEF PathInv, AnswerInv
<1>2. CASE Next /\ Grows
  <2>1. FreshNumber
    BY <1>1, <1>2, GrowsFresh
  <2>2. NumberInv'
    BY <1>1, <1>2, <2>1, NumberReader, NumberOthers DEF Next
  <2>3. WordInv'
    BY <1>1, <1>2, <2>2, WordReader, WordOthers DEF Next
  <2>4. AnswerInv'
    BY <1>1, <1>2, AnswerReader, AnswerOthers DEF Next
  <2> QED
    BY <1>1, <2>2, <2>3, <2>4 DEF PathInv
<1>3. CASE UNCHANGED vars
  <2>1. UNCHANGED <<pc, h, owed, inbox, answers, counter, primaries, events>>
    BY <1>3 DEF vars, wire, peer
  <2>2. NumberInv'
    BY <1>1, <2>1 DEF NumberInv, AskedLast, Asked, Unique, Holds
  <2>3. WordInv'
    BY <1>1, <2>1 DEF WordInv, WordIs, Unique, Holds, Handled, Asked, Answered, Drawn, Theirs
  <2>4. AnswerInv'
    BY <1>1, <2>1 DEF AnswerInv, AnswerNumbers
  <2> QED
    BY <1>1, <2>2, <2>3, <2>4 DEF PathInv
<1> QED
  BY <1>2, <1>3

(***************************************************************************)
(* A message of the peer is answered at most once on its link, or twice    *)
(* when the first answer acknowledges an event (handleDataMessage and      *)
(* sendResponses of controller.go), until the counter of the system bytes  *)
(* wraps: whatever the rules and the settings, whenever they are changed,  *)
(* and whatever is scheduled.                                              *)
(***************************************************************************)
THEOREM AnsweredOnce == Spec /\ [][Grows]_vars => []OneAnswer
<1>1. PathInv => OneAnswer
  <2> SUFFICES ASSUME PathInv, NEW w \in DOMAIN answers
               PROVE  \/ Len(answers[w]) = 1
                      \/ Len(answers[w]) = 2 /\ answers[w][1].stream = 6 /\ answers[w][1].body = Ack
    BY DEF OneAnswer
  <2>1. GoodAnswers(answers[w])
    BY DEF PathInv, AnswerInv
  <2> QED
    BY <2>1 DEF GoodAnswers, EventAck
<1> QED
  BY <1>1, PathInit, PathStep, PTL DEF Spec

\* Until it wraps, no number is drawn again.
THEOREM DistinctUntilItWraps == Spec /\ [][Grows]_vars => []OutstandingDistinct
<1>1. PathInv => OutstandingDistinct
  BY DEF PathInv, NumberInv, Unique, OutstandingDistinct
<1> QED
  BY <1>1, PathInit, PathStep, PTL DEF Spec

-----------------------------------------------------------------------------
(***************************************************************************)
(* Copies of a message in a sequence, and the ledger.                      *)
(***************************************************************************)
One(m, x) == IF Shown(m) = x THEN 1 ELSE 0
Places(s, x) == {k \in DOMAIN s : Shown(s[k]) = x}

LEMMA CopiesAre ==
    ASSUME NEW s, IsMessages(s), NEW x
    PROVE  /\ IsFiniteSet(Places(s, x)) /\ Places(s, x) \subseteq DOMAIN s
           /\ Copies(s, x) = Cardinality(Places(s, x)) /\ Copies(s, x) \in Nat
<1>1. Len(s) \in Nat /\ DOMAIN s = 1..Len(s)
  BY Lengths DEF IsMessages
<1>2. IsFiniteSet(DOMAIN s)
  <2>1. \A n \in Nat : IsFiniteSet(1..n)
    BY FS_Interval
  <2> QED
    BY <1>1, <2>1
<1>3. Places(s, x) \in SUBSET (DOMAIN s)
  BY DEF Places
<1>4. IsFiniteSet(Places(s, x))
  BY <1>2, <1>3, FS_Subset
<1>5. Copies(s, x) = Cardinality(Places(s, x))
  BY DEF Copies, Places
<1> QED
  BY <1>3, <1>4, <1>5, FS_CardinalityType

LEMMA CopiesNone == \A x : Copies(<<>>, x) = 0
<1> SUFFICES ASSUME NEW x PROVE Copies(<<>>, x) = 0
  OBVIOUS
<1>1. Places(<<>>, x) = {} /\ Copies(<<>>, x) = Cardinality(Places(<<>>, x))
  BY NoMessages, CopiesAre DEF Places
<1> QED
  BY <1>1, FS_EmptySet

LEMMA CopiesAppend ==
    ASSUME NEW s, IsMessages(s), NEW m, IsMessage(m), NEW x
    PROVE  Copies(Append(s, m), x) = Copies(s, x) + One(m, x)
<1> DEFINE t == Append(s, m)
           l == Len(s)
           S == Places(s, x)
           T == Places(t, x)
<1>1. /\ l \in Nat /\ DOMAIN s = 1..l /\ DOMAIN t = 1..l + 1 /\ IsMessages(t)
      /\ \A k \in DOMAIN s : t[k] = s[k]
      /\ t[l + 1] = m
  BY Lengths, AppendMessage DEF IsMessages
<1>2. /\ IsFiniteSet(S) /\ Copies(s, x) = Cardinality(S) /\ Copies(s, x) \in Nat
      /\ Copies(t, x) = Cardinality(T) /\ S \subseteq DOMAIN s
  BY <1>1, CopiesAre
<1> HIDE DEF t, l
<1>3. l + 1 \notin S
  BY <1>1, <1>2
<1>4. CASE Shown(m) = x
  <2>1. T = S \cup {l + 1}
    BY <1>1, <1>4 DEF Places
  <2> HIDE DEF S, T
  <2>2. Cardinality(T) = Cardinality(S) + 1
    BY <1>2, <1>3, <2>1, FS_AddElement
  <2> QED
    BY <1>2, <1>4, <2>2 DEF One, t
<1>5. CASE Shown(m) # x
  <2>1. T = S
    BY <1>1, <1>5 DEF Places
  <2> HIDE DEF S, T
  <2>2. Copies(t, x) = Copies(s, x)
    BY <1>2, <2>1
  <2> QED
    BY <1>2, <1>5, <2>2 DEF One, t
<1> QED
  BY <1>4, <1>5

LEMMA CopiesOne ==
    ASSUME NEW m, IsMessage(m), NEW x
    PROVE  Copies(<<m>>, x) = One(m, x)
<1>1. Append(<<>>, m) = <<m>>
  OBVIOUS
<1>2. Copies(Append(<<>>, m), x) = Copies(<<>>, x) + One(m, x)
  BY NoMessages, CopiesAppend
<1>3. One(m, x) \in {0, 1} /\ Copies(<<>>, x) = 0
  BY CopiesNone DEF One
<1> QED
  BY <1>1, <1>2, <1>3

LEMMA CopiesTail ==
    ASSUME NEW s, IsMessages(s), s # <<>>, NEW x
    PROVE  Copies(s, x) = Copies(Tail(s), x) + One(Head(s), x)
<1> DEFINE t == Tail(s)
           l == Len(s)
           S == Places(s, x)
           T == Places(t, x)
           R == S \ {1}
           f == [k \in T |-> k + 1]
<1>1. /\ l \in Nat \ {0} /\ DOMAIN s = 1..l /\ DOMAIN t = 1..l - 1 /\ IsMessages(t)
      /\ \A k \in DOMAIN t : k + 1 \in DOMAIN s /\ t[k] = s[k + 1]
      /\ Head(s) = s[1] /\ 1 \in DOMAIN s
  BY Lengths, TailMessages DEF IsMessages
<1>2. /\ IsFiniteSet(S) /\ Copies(s, x) = Cardinality(S) /\ Copies(s, x) \in Nat
      /\ IsFiniteSet(T) /\ Copies(t, x) = Cardinality(T) /\ Copies(t, x) \in Nat
      /\ S \subseteq DOMAIN s /\ T \subseteq DOMAIN t
  BY <1>1, CopiesAre
<1> HIDE DEF t, l
<1>3. Cardinality(R) = Cardinality(T)
  <2>1. \A k \in T : k + 1 \in R
    BY <1>1, <1>2 DEF Places
  <2>2. \A k \in R : k - 1 \in T /\ (k - 1) + 1 = k
    <3> SUFFICES ASSUME NEW k \in R PROVE k - 1 \in T /\ (k - 1) + 1 = k
      OBVIOUS
    <3>1. k \in 1..l /\ k # 1 /\ Shown(s[k]) = x
      BY <1>1, <1>2 DEF Places
    <3>2. k - 1 \in DOMAIN t /\ (k - 1) + 1 = k
      BY <1>1, <3>1
    <3>3. t[k - 1] = s[k]
      BY <1>1, <3>2
    <3> QED
      BY <3>1, <3>2, <3>3 DEF Places
  <2>3. \A j, k \in T : j + 1 = k + 1 => j = k
    BY <1>1, <1>2
  <2> HIDE DEF S, T, R
  <2>4. f \in [T -> R] /\ \A k \in T : f[k] = k + 1
    BY <2>1
  <2> HIDE DEF f
  <2>5. f \in Surjection(T, R)
    BY <2>2, <2>4 DEF Surjection
  <2>6. f \in Injection(T, R)
    <3>1. \A j, k \in T : f[j] = f[k] => j = k
      BY <2>3, <2>4
    <3> QED
      BY <2>4, <3>1 DEF Injection, IsInjective
  <2> QED
    BY <1>2, <2>5, <2>6, FS_Surjection
<1>4. 1 \in S <=> Shown(Head(s)) = x
  BY <1>1 DEF Places
<1>5. Cardinality(R) = IF 1 \in S THEN Cardinality(S) - 1 ELSE Cardinality(S)
  <2> HIDE DEF S
  <2> QED
    BY <1>2, FS_RemoveElement
<1> HIDE DEF S, T, R
<1> QED
  BY <1>2, <1>3, <1>4, <1>5 DEF One, t

\* What is booked adds up.
Kept(l) == \A x : Balance(l, x) \in Int

LEMMA BookedIs ==
    ASSUME NEW l, Kept(l), NEW s, IsMessages(s), NEW sign \in {1, -1}
    PROVE  /\ Kept(Booked(l, s, sign))
           /\ \A x : Balance(Booked(l, s, sign), x) = Balance(l, x) + sign * Copies(s, x)
<1> DEFINE Sum(x) == Balance(l, x) + sign * Copies(s, x)
           D == {y \in DOMAIN l \cup {Shown(s[k]) : k \in DOMAIN s} : Sum(y) # 0}
           b == Booked(l, s, sign)
<1>1. b = [x \in D |-> Sum(x)]
  BY DEF Booked
<1>2. ASSUME NEW x PROVE Balance(b, x) = Sum(x) /\ Sum(x) \in Int
  <2>1. Balance(l, x) \in Int /\ Copies(s, x) \in Nat /\ Copies(s, x) = Cardinality(Places(s, x))
    BY CopiesAre DEF Kept
  <2>2. Sum(x) \in Int
    BY <2>1
  <2>3. x \notin DOMAIN l \cup {Shown(s[k]) : k \in DOMAIN s} => Sum(x) = 0
    <3> SUFFICES ASSUME x \notin DOMAIN l, \A k \in DOMAIN s : Shown(s[k]) # x PROVE Sum(x) = 0
      OBVIOUS
    <3>1. Balance(l, x) = 0
      BY DEF Balance
    <3>2. Places(s, x) = {}
      BY DEF Places
    <3>3. Copies(s, x) = 0
      BY <2>1, <3>2, FS_EmptySet
    <3> QED
      BY <3>1, <3>3
  <2>4. x \in D <=> Sum(x) # 0
    BY <2>3
  <2> HIDE DEF D, Sum, b
  <2>5. DOMAIN b = D /\ (x \in D => b[x] = Sum(x))
    BY <1>1
  <2> QED
    BY <2>2, <2>4, <2>5 DEF Balance
<1> HIDE DEF b
<1> QED
  BY <1>2 DEF Kept, b

-----------------------------------------------------------------------------
(***************************************************************************)
(* The ledger: what the log shows as sent and is not sent yet is what the  *)
(* reader and the scheduler have still to send, and the reply of the rule  *)
(* that has matched. The first message of a script is sent before it is    *)
(* logged.                                                                 *)
(***************************************************************************)
First(x) == IF pc = "sentFirst" THEN One(h.message, x) ELSE 0
Due(x) == IF pc = "answer" /\ h.matched # 0
          THEN One(RuleReply(RuleOf(h.rules, h.matched), h.message), x) ELSE 0
Covered(x) ==
    Balance(ledger, x) + First(x) >= Copies(h.responses, x) + Copies(batch, x) + Due(x)
LedgerInv ==
    /\ Kept(ledger)
    /\ ~overtaken => (pc = "match" => h.rules = rules) /\ \A x : Covered(x)

LEMMA OneIs == \A m, x : One(m, x) \in {0, 1}
BY DEF One

LEMMA Amounts ==
    ASSUME ShapeInv, Kept(ledger), NEW x
    PROVE  /\ Balance(ledger, x) \in Int
           /\ Copies(h.responses, x) \in Nat /\ Copies(batch, x) \in Nat
           /\ First(x) \in {0, 1} /\ Due(x) \in {0, 1}
<1>1. IsMessages(h.responses) /\ IsMessages(batch)
  BY HandParts DEF ShapeInv, HandInv, QueuesInv
<1>2. Copies(h.responses, x) \in Nat /\ Copies(batch, x) \in Nat
  BY <1>1, CopiesAre
<1> QED
  BY <1>2, OneIs DEF Kept, First, Due

LEMMA LoggedIs ==
    ASSUME Kept(ledger), NEW s, IsMessages(s), Logged(s)
    PROVE  /\ Kept(ledger')
           /\ \A x : Balance(ledger', x) = Balance(ledger, x) + Copies(s, x)
<1>1. ledger' = Booked(ledger, s, 1)
  BY DEF Logged
<1>2. /\ Kept(Booked(ledger, s, 1))
      /\ \A x : Balance(Booked(ledger, s, 1), x) = Balance(ledger, x) + 1 * Copies(s, x)
  BY BookedIs
<1>3. \A x : Balance(Booked(ledger, s, 1), x) = Balance(ledger, x) + Copies(s, x)
  <2> SUFFICES ASSUME NEW x PROVE Balance(Booked(ledger, s, 1), x) = Balance(ledger, x) + Copies(s, x)
    OBVIOUS
  <2>1. Copies(s, x) \in Nat
    BY CopiesAre
  <2>2. 1 * Copies(s, x) = Copies(s, x)
    BY <2>1
  <2> QED
    BY <1>2, <2>2
<1> QED
  BY <1>1, <1>2, <1>3

LEMMA SentIs ==
    ASSUME Kept(ledger), NEW m, IsMessage(m), Transmit(m)
    PROVE  /\ Kept(ledger')
           /\ \A x : Balance(ledger', x) = Balance(ledger, x) - One(m, x)
<1>1. ledger' = Booked(ledger, <<m>>, -1) /\ IsMessages(<<m>>)
  BY OneMessage DEF Transmit
<1>2. /\ Kept(Booked(ledger, <<m>>, -1))
      /\ \A x : Balance(Booked(ledger, <<m>>, -1), x) = Balance(ledger, x) + (-1) * Copies(<<m>>, x)
  BY <1>1, BookedIs
<1>3. \A x : Balance(Booked(ledger, <<m>>, -1), x) = Balance(ledger, x) - One(m, x)
  <2> SUFFICES ASSUME NEW x
               PROVE  Balance(Booked(ledger, <<m>>, -1), x) = Balance(ledger, x) - One(m, x)
    OBVIOUS
  <2>1. Copies(<<m>>, x) = One(m, x) /\ One(m, x) \in {0, 1} /\ Balance(ledger, x) \in Int
    BY CopiesOne, OneIs DEF Kept
  <2>2. Balance(ledger, x) + (-1) * Copies(<<m>>, x) = Balance(ledger, x) - One(m, x)
    BY <2>1
  <2> QED
    BY <1>2, <2>2
<1> QED
  BY <1>1, <1>2, <1>3

\* The rule that has matched is the one with its identifier.
LEMMA RuleOfMatch ==
    ASSUME NEW list \in RuleLists, NEW m, FirstMatch(list, m) # NoRule
    PROVE  RuleOf(list, FirstMatch(list, m).id) = FirstMatch(list, m)
<1>1. PICK k \in DOMAIN list : FirstMatch(list, m) = list[k]
  BY RuleFacts
<1> DEFINE id == FirstMatch(list, m).id
           Hits == {j \in DOMAIN list : list[j].id = id}
<1>2. IsSequence(list) /\ \A i, j \in DOMAIN list : i # j => list[i].id # list[j].id
  BY DataPathAssumption DEF DataPathAssumption
<1>3. Hits = {k}
  BY <1>1, <1>2
<1>4. RuleOf(list, id) = list[Min(Hits)]
  BY <1>3 DEF RuleOf
<1>5. Min({k}) \in {k}
  <2>1. {k} \in SUBSET Nat
    BY <1>2, Lengths
  <2> QED
    BY <2>1, MinIsIn
<1> HIDE DEF Hits
<1>6. Min(Hits) = k
  BY <1>3, <1>5
<1> QED
  BY <1>1, <1>4, <1>6

\* Where nothing is logged and nothing is sent, nothing more is to be sent.
LEMMA CoveredKept ==
    ASSUME ShapeInv, ShapeInv', LedgerInv, UNCHANGED ledger,
           \A x : /\ First(x) <= First(x)' /\ Due(x)' <= Due(x)
                  /\ Copies(h'.responses, x) <= Copies(h.responses, x)
                  /\ Copies(batch', x) <= Copies(batch, x)
    PROVE  Kept(ledger)' /\ (~overtaken => \A x : Covered(x)')
<1>1. Kept(ledger) /\ Kept(ledger')
  BY DEF LedgerInv
<1>2. ASSUME ~overtaken, NEW x PROVE Covered(x)'
  <2>1. Covered(x)
    BY <1>2 DEF LedgerInv
  <2>2. /\ Balance(ledger, x) \in Int /\ Balance(ledger', x) = Balance(ledger, x)
        /\ Copies(h.responses, x) \in Nat /\ Copies(batch, x) \in Nat
        /\ First(x) \in {0, 1} /\ Due(x) \in {0, 1}
    BY <1>1, Amounts
  <2>3. /\ Copies(h'.responses, x) \in Nat /\ Copies(batch', x) \in Nat
    <3>1. IsMessages(h'.responses) /\ IsMessages(batch')
      BY HandParts DEF ShapeInv, HandInv, QueuesInv
    <3> QED
      BY <3>1, CopiesAre
  <2>4. First(x)' \in {0, 1} /\ Due(x)' \in {0, 1}
    BY OneIs DEF First, Due
  <2>5. Balance(ledger', x) + First(x)' >= Copies(h'.responses, x) + Copies(batch', x) + Due(x)'
    BY <2>1, <2>2, <2>3, <2>4 DEF Covered
  <2> QED
    BY <2>5 DEF Covered
<1> QED
  BY <1>1, <1>2 DEF Kept

LEMMA LedgerBegins ==
    ASSUME ShapeInv, ShapeInv', LedgerInv,
           BeginScript \/ SendFirst \/ LogFirst \/ Receive \/ LeaveLink \/ Redial
    PROVE  LedgerInv'
<1>1. /\ pc' \notin {"advance", "number", "send", "answer"} /\ batch' = batch
      /\ overtaken' = overtaken /\ rules' = rules
  BY DEF BeginScript, SendFirst, LogFirst, Receive, LeaveLink, Redial, store, config
<1>2. h'.responses = <<>>
  BY <1>1 DEF ShapeInv, HandInv
<1>3. \A x : /\ Copies(h'.responses, x) = 0 /\ Due(x)' = 0 /\ Copies(batch', x) = Copies(batch, x)
             /\ Due(x) \in {0, 1} /\ First(x) \in {0, 1} /\ First(x)' \in {0, 1}
             /\ Copies(h.responses, x) \in Nat /\ Copies(batch, x) \in Nat /\ Balance(ledger, x) \in Int
  <2>1. \A x : Copies(h'.responses, x) = 0
    BY <1>2, CopiesNone
  <2> QED
    BY <1>1, <2>1, Amounts, OneIs DEF LedgerInv, Due, First
<1>4. Kept(ledger)
  BY DEF LedgerInv
<1>5. CASE BeginScript \/ Receive \/ LeaveLink \/ Redial
  <2>1. ledger' = ledger /\ pc # "sentFirst"
    BY <1>5 DEF BeginScript, Receive, LeaveLink, Redial
  <2>2. pc' = "match" => h'.rules = rules
    <3>1. CASE Receive
      <4>1. h' = Handling(Head(inbox), settings, rules) /\ inbox # <<>>
        BY <3>1 DEF Receive
      <4>2. IsMessage(Head(inbox))
        BY <4>1, TailMessages DEF ShapeInv, QueuesInv
      <4> QED
        BY <4>1, <4>2, NewHand
    <3>2. CASE BeginScript \/ LeaveLink \/ Redial
      BY <3>2 DEF BeginScript, LeaveLink, Redial
    <3> QED
      BY <1>5, <3>1, <3>2
  <2>3. \A x : First(x) = 0
    BY <2>1 DEF First
  <2>4. Kept(ledger)' /\ (~overtaken => \A x : Covered(x)')
    BY <1>3, <2>1, <2>3, CoveredKept
  <2> QED
    BY <1>1, <2>2, <2>4 DEF LedgerInv
<1>6. CASE SendFirst /\ running /\ link.up
  <2> DEFINE m == [h.message EXCEPT !.system = NextWord]
  <2>1. /\ Transmit(m) /\ h' = [Nothing EXCEPT !.message = m] /\ pc' = "sentFirst" /\ pc = "first"
    BY <1>6 DEF SendFirst
  <2>2. IsMessage(m)
    <3>1. IsMessage(h.message)
      BY HandParts DEF ShapeInv, HandInv
    <3> QED
      BY <3>1, Numbered
  <2> HIDE DEF m
  <2>3. h'.message = m
    BY <2>1, <2>2, EmptyHand
  <2>4. Kept(ledger') /\ \A x : Balance(ledger', x) = Balance(ledger, x) - One(m, x)
    BY <1>4, <2>1, <2>2, SentIs
  <2>5. ASSUME ~overtaken, NEW x PROVE Covered(x)'
    <3>1. First(x) = 0 /\ First(x)' = One(m, x) /\ One(m, x) \in {0, 1}
      BY <2>1, <2>3, OneIs DEF First
    <3>2. Covered(x)
      BY <2>5 DEF LedgerInv
    <3>3. Balance(ledger', x) = Balance(ledger, x) - One(m, x)
      BY <2>4
    <3>4. Balance(ledger', x) + First(x)' >= Copies(h'.responses, x) + Copies(batch', x) + Due(x)'
      BY <1>3, <3>1, <3>2, <3>3 DEF Covered
    <3> QED
      BY <3>4 DEF Covered
  <2> QED
    BY <1>1, <2>1, <2>4, <2>5 DEF LedgerInv, Kept
<1>7. CASE SendFirst /\ ~(running /\ link.up)
  <2>1. ledger' = ledger /\ pc = "first" /\ pc' = "reading"
    BY <1>7 DEF SendFirst
  <2>2. \A x : First(x) = 0
    BY <2>1 DEF First
  <2>3. Kept(ledger)' /\ (~overtaken => \A x : Covered(x)')
    BY <1>3, <2>1, <2>2, CoveredKept
  <2> QED
    BY <1>1, <2>1, <2>3 DEF LedgerInv
<1>8. CASE LogFirst
  <2> DEFINE m == h.message
  <2>1. Logged(<<m>>) /\ pc = "sentFirst" /\ pc' = "reading"
    BY <1>8 DEF LogFirst
  <2>2. IsMessage(m) /\ IsMessages(<<m>>)
    <3>1. IsMessage(h.message)
      BY HandParts DEF ShapeInv, HandInv
    <3> QED
      BY <3>1, OneMessage
  <2>3. Kept(ledger') /\ \A x : Balance(ledger', x) = Balance(ledger, x) + Copies(<<m>>, x)
    BY <1>4, <2>1, <2>2, LoggedIs
  <2>4. ASSUME ~overtaken, NEW x PROVE Covered(x)'
    <3>1. First(x)' = 0 /\ First(x) = One(m, x) /\ One(m, x) \in {0, 1}
      BY <2>1, OneIs DEF First
    <3>2. Covered(x)
      BY <2>4 DEF LedgerInv
    <3>3. Balance(ledger', x) = Balance(ledger, x) + One(m, x)
      <4>1. Copies(<<m>>, x) = One(m, x)
        BY <2>2, CopiesOne
      <4> QED
        BY <2>3, <4>1
    <3>4. Balance(ledger', x) + First(x)' >= Copies(h'.responses, x) + Copies(batch', x) + Due(x)'
      BY <1>3, <3>1, <3>2, <3>3 DEF Covered
    <3> QED
      BY <3>4 DEF Covered
  <2> QED
    BY <1>1, <2>1, <2>3, <2>4 DEF LedgerInv, Kept
<1> QED
  BY <1>5, <1>6, <1>7, <1>8

LEMMA LedgerMatched ==
    ASSUME ShapeInv, ShapeInv', LedgerInv, ProcessInbound
    PROVE  LedgerInv'
<1> DEFINE m == h.message
           rule == FirstMatch(rules, m)
           reply == RuleReply(rule, m)
<1>1. /\ pc = "match" /\ pc' = "answer" /\ batch' = batch /\ overtaken' = overtaken /\ rules' = rules
      /\ h' = [h EXCEPT !.matched = rule.id]
      /\ rule = NoRule => ledger' = ledger
      /\ rule # NoRule => Logged(<<reply>>)
  BY DEF ProcessInbound, config
<1>2. /\ IsHand(h) /\ rules \in RuleLists /\ Kept(ledger) /\ h.responses = <<>>
  BY <1>1 DEF ShapeInv, HandInv, LedgerInv
<1>3. IsMessage(reply)
  BY ReplyIs
<1>4. /\ h'.message = m /\ h'.rules = h.rules /\ h'.matched = rule.id /\ h'.responses = <<>>
  BY <1>1, <1>2, HandChanged DEF SameFields
<1>5. ~overtaken /\ rule # NoRule => RuleReply(RuleOf(h.rules, rule.id), m) = reply
  <2> SUFFICES ASSUME ~overtaken, rule # NoRule PROVE RuleOf(h.rules, rule.id) = rule
    OBVIOUS
  <2>1. h.rules = rules
    BY <1>1 DEF LedgerInv
  <2> QED
    BY <1>2, <2>1, RuleOfMatch
<1>6. rule = NoRule => rule.id = 0
  BY DEF NoRule
<1> HIDE DEF m, rule, reply
<1>7. CASE rule = NoRule
  <2>1. ASSUME NEW x
        PROVE  /\ First(x) <= First(x)' /\ Due(x)' <= Due(x)
               /\ Copies(h'.responses, x) <= Copies(h.responses, x)
               /\ Copies(batch', x) <= Copies(batch, x)
    <3>1. First(x) = 0 /\ First(x)' = 0 /\ Due(x) = 0 /\ Due(x)' = 0
      BY <1>1, <1>4, <1>6, <1>7 DEF First, Due
    <3>2. Copies(<<>>, x) = 0 /\ Copies(batch, x) \in Nat
      BY <1>2, CopiesNone, Amounts
    <3> QED
      BY <1>1, <1>2, <1>4, <3>1, <3>2
  <2>2. Kept(ledger)' /\ (~overtaken => \A x : Covered(x)')
    BY <1>1, <1>7, <2>1, CoveredKept
  <2> QED
    BY <1>1, <2>2 DEF LedgerInv
<1>8. CASE rule # NoRule
  <2>1. Logged(<<reply>>) /\ IsMessages(<<reply>>)
    BY <1>1, <1>3, <1>8, OneMessage
  <2>2. Kept(ledger') /\ \A x : Balance(ledger', x) = Balance(ledger, x) + Copies(<<reply>>, x)
    BY <1>2, <2>1, LoggedIs
  <2>3. ASSUME ~overtaken, NEW x PROVE Covered(x)'
    <3>1. First(x)' = 0 /\ First(x) = 0 /\ Due(x) = 0
      BY <1>1 DEF First, Due
    <3>2. Due(x)' <= One(reply, x) /\ Due(x)' \in Nat
      <4>1. Due(x)' = 0 \/ Due(x)' = One(RuleReply(RuleOf(h.rules, rule.id), m), x)
        BY <1>4 DEF Due
      <4>2. One(reply, x) \in {0, 1}
        BY OneIs
      <4>3. RuleReply(RuleOf(h.rules, rule.id), m) = reply
        BY <1>5, <1>8, <2>3
      <4> QED
        BY <4>1, <4>2, <4>3
    <3>3. Covered(x)
      BY <2>3 DEF LedgerInv
    <3>4. Balance(ledger', x) = Balance(ledger, x) + One(reply, x) /\ One(reply, x) \in {0, 1}
      <4>1. Copies(<<reply>>, x) = One(reply, x)
        BY <1>3, CopiesOne
      <4> QED
        BY <2>2, <4>1, OneIs
    <3>5. /\ Copies(h'.responses, x) = 0 /\ Copies(h.responses, x) = 0
          /\ Copies(batch', x) = Copies(batch, x) /\ Copies(batch, x) \in Nat
          /\ Balance(ledger, x) \in Int
      BY <1>1, <1>2, <1>4, CopiesNone, Amounts
    <3>6. Balance(ledger', x) + First(x)' >= Copies(h'.responses, x) + Copies(batch', x) + Due(x)'
      BY <3>1, <3>2, <3>3, <3>4, <3>5 DEF Covered
    <3> QED
      BY <3>6 DEF Covered
  <2> QED
    BY <1>1, <2>2, <2>3 DEF LedgerInv, Kept
<1> QED
  BY <1>7, <1>8

LEMMA LedgerAnswers ==
    ASSUME ShapeInv, ShapeInv', LedgerInv, AnswersItself
    PROVE  LedgerInv'
<1>1. PICK own : /\ Logged(own) /\ Own(h.message, own)
                 /\ (Alone(own) \/ Dropped \/ Replied(own))
  BY Answering
<1>2. /\ pc = "answer" /\ pc' \in {"reading", "send", "advance"}
      /\ batch' = batch /\ overtaken' = overtaken /\ rules' = rules
  BY <1>1 DEF AnswersItself, config, Alone, Dropped, Replied
<1>3. /\ IsHand(h) /\ IsMessages(own) /\ Kept(ledger) /\ h.responses = <<>>
  BY <1>1, <1>2, OwnIs DEF ShapeInv, HandInv, LedgerInv
<1>4. Kept(ledger') /\ \A x : Balance(ledger', x) = Balance(ledger, x) + Copies(own, x)
  BY <1>1, <1>3, LoggedIs
<1>5. ASSUME NEW x PROVE Copies(h'.responses, x) <= Copies(own, x) + Due(x) /\ Copies(h'.responses, x) \in Nat
  <2>1. Copies(own, x) \in Nat /\ Due(x) \in {0, 1}
    BY <1>3, CopiesAre, Amounts
  <2>2. CASE Alone(own)
    <3>1. h'.responses = own
      BY <1>3, <2>2, HandChanged DEF Alone
    <3> QED
      BY <2>1, <3>1
  <2>3. CASE Dropped
    <3>1. h'.responses = <<>>
      BY <2>3, EmptyHand DEF Dropped
    <3> QED
      BY <2>1, <3>1, CopiesNone
  <2>4. CASE Replied(own)
    <3> DEFINE reply == RuleReply(RuleOf(h.rules, h.matched), h.message)
    <3>1. IsMessage(reply)
      BY ReplyIs
    <3>2. h' = [h EXCEPT !.responses = Append(own, reply)] /\ h.matched # 0
      BY <2>4 DEF Replied
    <3>3. Due(x) = One(reply, x)
      BY <1>2, <3>2 DEF Due
    <3> HIDE DEF reply
    <3>4. h'.responses = Append(own, reply)
      BY <1>3, <3>2, HandChanged
    <3>5. Copies(Append(own, reply), x) = Copies(own, x) + One(reply, x)
      BY <1>3, <3>1, CopiesAppend
    <3> QED
      BY <2>1, <3>3, <3>4, <3>5
  <2> QED
    BY <1>1, <2>2, <2>3, <2>4
<1>6. ASSUME ~overtaken, NEW x PROVE Covered(x)'
  <2>1. First(x)' = 0 /\ First(x) = 0 /\ Due(x)' = 0
    BY <1>2 DEF First, Due
  <2>2. Covered(x)
    BY <1>6 DEF LedgerInv
  <2>3. /\ Copies(h.responses, x) = 0 /\ Copies(batch', x) = Copies(batch, x) /\ Copies(batch, x) \in Nat
        /\ Balance(ledger, x) \in Int /\ Copies(own, x) \in Nat /\ Due(x) \in {0, 1}
        /\ Balance(ledger', x) = Balance(ledger, x) + Copies(own, x)
    BY <1>2, <1>3, <1>4, CopiesNone, CopiesAre, Amounts
  <2>4. Copies(h'.responses, x) <= Copies(own, x) + Due(x) /\ Copies(h'.responses, x) \in Nat
    BY <1>5
  <2>5. Balance(ledger', x) + First(x)' >= Copies(h'.responses, x) + Copies(batch', x) + Due(x)'
    BY <2>1, <2>2, <2>3, <2>4 DEF Covered
  <2> QED
    BY <2>5 DEF Covered
<1> QED
  BY <1>2, <1>4, <1>6 DEF LedgerInv, Kept

\* What is logged may be sent, and what is sent has been logged.
LEMMA CoveredLogged ==
    ASSUME ShapeInv, ShapeInv', LedgerInv, NEW s, IsMessages(s), Logged(s),
           \A x : /\ First(x) <= First(x)' /\ Due(x)' <= Due(x)
                  /\ Copies(h'.responses, x) + Copies(batch', x)
                     <= Copies(h.responses, x) + Copies(batch, x) + Copies(s, x)
    PROVE  Kept(ledger)' /\ (~overtaken => \A x : Covered(x)')
<1>1. Kept(ledger)
  BY DEF LedgerInv
<1>2. Kept(ledger') /\ \A x : Balance(ledger', x) = Balance(ledger, x) + Copies(s, x)
  BY <1>1, LoggedIs
<1>3. ASSUME ~overtaken, NEW x PROVE Covered(x)'
  <2>1. Covered(x)
    BY <1>3 DEF LedgerInv
  <2>2. /\ Balance(ledger, x) \in Int
        /\ Copies(h.responses, x) \in Nat /\ Copies(batch, x) \in Nat
        /\ First(x) \in {0, 1} /\ Due(x) \in {0, 1}
    BY <1>1, Amounts
  <2>3. Balance(ledger', x) = Balance(ledger, x) + Copies(s, x) /\ Copies(s, x) \in Nat
    BY <1>2, CopiesAre
  <2>4. Copies(h'.responses, x) \in Nat /\ Copies(batch', x) \in Nat
    <3>1. IsMessages(h'.responses) /\ IsMessages(batch')
      BY HandParts DEF ShapeInv, HandInv, QueuesInv
    <3> QED
      BY <3>1, CopiesAre
  <2>5. First(x)' \in {0, 1} /\ Due(x)' \in {0, 1}
    BY OneIs DEF First, Due
  <2>6. /\ First(x) <= First(x)' /\ Due(x)' <= Due(x)
        /\ Copies(h'.responses, x) + Copies(batch', x)
           <= Copies(h.responses, x) + Copies(batch, x) + Copies(s, x)
    OBVIOUS
  <2>7. Balance(ledger', x) + First(x)' >= Copies(h'.responses, x) + Copies(batch', x) + Due(x)'
    BY <2>1, <2>2, <2>3, <2>4, <2>5, <2>6 DEF Covered
  <2> QED
    BY <2>7 DEF Covered
<1> QED
  BY <1>2, <1>3 DEF Kept

LEMMA CoveredSent ==
    ASSUME ShapeInv, ShapeInv', LedgerInv, NEW m, IsMessage(m), Transmit(m),
           \A x : /\ First(x) <= First(x)' /\ Due(x)' <= Due(x)
                  /\ Copies(h'.responses, x) + Copies(batch', x) + One(m, x)
                     <= Copies(h.responses, x) + Copies(batch, x)
    PROVE  Kept(ledger)' /\ (~overtaken => \A x : Covered(x)')
<1>1. Kept(ledger)
  BY DEF LedgerInv
<1>2. Kept(ledger') /\ \A x : Balance(ledger', x) = Balance(ledger, x) - One(m, x)
  BY <1>1, SentIs
<1>3. ASSUME ~overtaken, NEW x PROVE Covered(x)'
  <2>1. Covered(x)
    BY <1>3 DEF LedgerInv
  <2>2. /\ Balance(ledger, x) \in Int
        /\ Copies(h.responses, x) \in Nat /\ Copies(batch, x) \in Nat
        /\ First(x) \in {0, 1} /\ Due(x) \in {0, 1}
    BY <1>1, Amounts
  <2>3. Balance(ledger', x) = Balance(ledger, x) - One(m, x) /\ One(m, x) \in {0, 1}
    BY <1>2, OneIs
  <2>4. Copies(h'.responses, x) \in Nat /\ Copies(batch', x) \in Nat
    <3>1. IsMessages(h'.responses) /\ IsMessages(batch')
      BY HandParts DEF ShapeInv, HandInv, QueuesInv
    <3> QED
      BY <3>1, CopiesAre
  <2>5. First(x)' \in {0, 1} /\ Due(x)' \in {0, 1}
    BY OneIs DEF First, Due
  <2>6. /\ First(x) <= First(x)' /\ Due(x)' <= Due(x)
        /\ Copies(h'.responses, x) + Copies(batch', x) + One(m, x)
           <= Copies(h.responses, x) + Copies(batch, x)
    OBVIOUS
  <2>7. Balance(ledger', x) + First(x)' >= Copies(h'.responses, x) + Copies(batch', x) + Due(x)'
    BY <2>1, <2>2, <2>3, <2>4, <2>5, <2>6 DEF Covered
  <2> QED
    BY <2>7 DEF Covered
<1> QED
  BY <1>2, <1>3 DEF Kept

LEMMA LedgerAdvances ==
    ASSUME ShapeInv, ShapeInv', LedgerInv, AdvanceScript
    PROVE  LedgerInv'
<1>1. /\ pc = "advance" /\ pc' \in {"number", "send"}
      /\ UNCHANGED <<ledger, batch, overtaken>>
  BY DEF AdvanceScript, store, config
<1>2. h' = h \/ \E a : h' = [h EXCEPT !.asks = a]
  BY Advancing DEF ShapeInv
<1>3. h'.responses = h.responses
  <2>1. \A a : [h EXCEPT !.asks = a].responses = h.responses
    BY HandChanged DEF ShapeInv, HandInv
  <2> QED
    BY <1>2, <2>1
<1>4. ASSUME NEW x
      PROVE  /\ First(x) <= First(x)' /\ Due(x)' <= Due(x)
             /\ Copies(h'.responses, x) <= Copies(h.responses, x)
             /\ Copies(batch', x) <= Copies(batch, x)
  <2>1. First(x) = 0 /\ First(x)' = 0 /\ Due(x) = 0 /\ Due(x)' = 0
    BY <1>1 DEF First, Due
  <2>2. Copies(h.responses, x) \in Nat /\ Copies(batch, x) \in Nat
    BY Amounts DEF LedgerInv
  <2> QED
    BY <1>1, <1>3, <2>1, <2>2
<1>5. Kept(ledger)' /\ (~overtaken => \A x : Covered(x)')
  BY <1>1, <1>4, CoveredKept
<1> QED
  BY <1>1, <1>5 DEF LedgerInv

LEMMA LedgerNumbers ==
    ASSUME ShapeInv, ShapeInv', LedgerInv, NumberStep
    PROVE  LedgerInv'
<1> DEFINE m == [h.asks EXCEPT !.system = NextWord]
<1>1. /\ pc = "number" /\ pc' \in {"send", "reading"}
      /\ batch' = batch /\ overtaken' = overtaken
  BY DEF NumberStep, store, config
<1>2. \A x : First(x) = 0 /\ First(x)' = 0 /\ Due(x) = 0 /\ Due(x)' = 0
  BY <1>1 DEF First, Due
<1>3. IsHand(h) /\ IsMessages(h.responses)
  BY HandParts DEF ShapeInv, HandInv
<1>4. \A x : Copies(h.responses, x) \in Nat /\ Copies(batch, x) \in Nat
  BY Amounts DEF LedgerInv
<1>5. CASE running
  <2>1. Logged(<<m>>) /\ h' = [h EXCEPT !.responses = Append(@, m)]
    BY <1>5 DEF NumberStep
  <2>2. IsMessage(m)
    BY <1>3, HandParts, Numbered
  <2> HIDE DEF m
  <2>3. IsMessages(<<m>>) /\ h'.responses = Append(h.responses, m)
    BY <1>3, <2>1, <2>2, OneMessage, HandChanged
  <2>4. ASSUME NEW x
        PROVE  /\ First(x) <= First(x)' /\ Due(x)' <= Due(x)
               /\ Copies(h'.responses, x) + Copies(batch', x)
                  <= Copies(h.responses, x) + Copies(batch, x) + Copies(<<m>>, x)
    <3>1. Copies(Append(h.responses, m), x) = Copies(h.responses, x) + One(m, x)
      BY <1>3, <2>2, CopiesAppend
    <3>2. Copies(<<m>>, x) = One(m, x) /\ One(m, x) \in {0, 1}
      BY <2>2, CopiesOne, OneIs
    <3> QED
      BY <1>1, <1>2, <1>4, <2>3, <3>1, <3>2
  <2>5. Kept(ledger)' /\ (~overtaken => \A x : Covered(x)')
    BY <2>1, <2>3, <2>4, CoveredLogged
  <2> QED
    BY <1>1, <2>5 DEF LedgerInv
<1>6. CASE ~running
  <2>1. h' = Nothing /\ ledger' = ledger
    BY <1>6 DEF NumberStep
  <2>2. \A x : Copies(h'.responses, x) = 0
    BY <2>1, EmptyHand, CopiesNone
  <2>3. \A x : /\ First(x) <= First(x)' /\ Due(x)' <= Due(x)
               /\ Copies(h'.responses, x) <= Copies(h.responses, x)
               /\ Copies(batch', x) <= Copies(batch, x)
    BY <1>1, <1>2, <1>4, <2>2
  <2>4. Kept(ledger)' /\ (~overtaken => \A x : Covered(x)')
    BY <2>1, <2>3, CoveredKept
  <2> QED
    BY <1>1, <2>4 DEF LedgerInv
<1> QED
  BY <1>5, <1>6

LEMMA LedgerSends ==
    ASSUME ShapeInv, ShapeInv', LedgerInv, SendResponse
    PROVE  LedgerInv'
<1>1. /\ pc = "send" /\ pc' \in {"send", "reading"}
      /\ batch' = batch /\ overtaken' = overtaken
  BY DEF SendResponse, store, config
<1>2. \A x : First(x) = 0 /\ First(x)' = 0 /\ Due(x) = 0 /\ Due(x)' = 0
  BY <1>1 DEF First, Due
<1>3. IsHand(h) /\ IsMessages(h.responses)
  BY HandParts DEF ShapeInv, HandInv
<1>4. \A x : Copies(h.responses, x) \in Nat /\ Copies(batch, x) \in Nat
  BY Amounts DEF LedgerInv
<1>5. CASE h.responses # <<>> /\ link.up
  <2> DEFINE m == Head(h.responses)
             n == IF m.system = 0 THEN [m EXCEPT !.system = h.message.system] ELSE m
             rest == Tail(h.responses)
  <2>1. Transmit(n) /\ h' = [h EXCEPT !.responses = rest]
    BY <1>5 DEF SendResponse
  <2>2. IsMessage(m) /\ IsMessages(rest)
    BY <1>3, <1>5, TailMessages
  <2>3. IsMessage(n) /\ Shown(n) = Shown(m)
    BY <2>2, Numbered
  <2>4. \A x : Copies(h.responses, x) = Copies(rest, x) + One(m, x)
    BY <1>3, <1>5, CopiesTail
  <2>5. \A x : Copies(rest, x) \in Nat
    BY <2>2, CopiesAre
  <2> HIDE DEF m, n, rest
  <2>6. h'.responses = rest
    BY <1>3, <2>1, HandChanged
  <2>7. \A x : One(n, x) = One(m, x) /\ One(m, x) \in {0, 1}
    BY <2>3, OneIs DEF One
  <2>8. \A x : /\ First(x) <= First(x)' /\ Due(x)' <= Due(x)
               /\ Copies(h'.responses, x) + Copies(batch', x) + One(n, x)
                  <= Copies(h.responses, x) + Copies(batch, x)
    BY <1>1, <1>2, <1>4, <2>4, <2>5, <2>6, <2>7
  <2>9. Kept(ledger)' /\ (~overtaken => \A x : Covered(x)')
    BY <2>1, <2>3, <2>8, CoveredSent
  <2> QED
    BY <1>1, <2>9 DEF LedgerInv
<1>6. CASE ~(h.responses # <<>> /\ link.up)
  <2>1. h' = Nothing /\ ledger' = ledger
    BY <1>6 DEF SendResponse
  <2>2. \A x : Copies(h'.responses, x) = 0
    BY <2>1, EmptyHand, CopiesNone
  <2>3. \A x : /\ First(x) <= First(x)' /\ Due(x)' <= Due(x)
               /\ Copies(h'.responses, x) <= Copies(h.responses, x)
               /\ Copies(batch', x) <= Copies(batch, x)
    BY <1>1, <1>2, <1>4, <2>2
  <2>4. Kept(ledger)' /\ (~overtaken => \A x : Covered(x)')
    BY <2>1, <2>3, CoveredKept
  <2> QED
    BY <1>1, <2>4 DEF LedgerInv
<1> QED
  BY <1>5, <1>6

\* The scheduler: the actions are logged together and sent one by one.
LEMMA LedgerSchedules ==
    ASSUME ShapeInv, ShapeInv', LedgerInv, SchedulerNext
    PROVE  LedgerInv'
<1>1. UNCHANGED <<pc, h, rules, overtaken>>
  BY DEF SchedulerNext, RunScheduled, SendScheduled, store, config
<1>2. \A x : /\ First(x)' = First(x) /\ Due(x)' = Due(x)
             /\ Copies(h'.responses, x) = Copies(h.responses, x)
  BY <1>1 DEF First, Due
<1>3. \A x : /\ Copies(h.responses, x) \in Nat /\ Copies(batch, x) \in Nat
             /\ First(x) \in {0, 1} /\ Due(x) \in {0, 1}
  BY Amounts DEF LedgerInv
<1>4. IsMessages(batch) /\ IsMessages(batch')
  BY DEF ShapeInv, QueuesInv
<1>5. CASE \E n \in 1..Len(pending) : RunScheduled(n)
  <2>1. batch = <<>> /\ Logged(batch')
    BY <1>5 DEF RunScheduled
  <2>2. \A x : Copies(batch, x) = 0 /\ Copies(batch', x) \in Nat
    BY <1>4, <2>1, CopiesNone, CopiesAre
  <2>3. \A x : /\ First(x) <= First(x)' /\ Due(x)' <= Due(x)
               /\ Copies(h'.responses, x) + Copies(batch', x)
                  <= Copies(h.responses, x) + Copies(batch, x) + Copies(batch', x)
    BY <1>2, <1>3, <2>2
  <2>4. Kept(ledger)' /\ (~overtaken => \A x : Covered(x)')
    BY <1>4, <2>1, <2>3, CoveredLogged
  <2> QED
    BY <1>1, <2>4 DEF LedgerInv
<1>6. CASE SendScheduled
  <2> DEFINE m == Head(batch)
             n == [m EXCEPT !.system = NextWord]
  <2>1. batch # <<>> /\ batch' = Tail(batch)
    BY <1>6 DEF SendScheduled
  <2>2. IsMessage(m)
    BY <1>4, <2>1, TailMessages
  <2>3. IsMessage(n) /\ Shown(n) = Shown(m)
    BY <2>2, Numbered
  <2>4. \A x : Copies(batch, x) = Copies(batch', x) + One(m, x)
    BY <1>4, <2>1, CopiesTail
  <2>5. \A x : Copies(batch', x) \in Nat
    BY <1>4, CopiesAre
  <2>6. CASE running /\ link.up
    <3>1. Transmit(n)
      BY <1>6, <2>6 DEF SendScheduled
    <3> HIDE DEF m, n
    <3>2. \A x : One(n, x) = One(m, x) /\ One(m, x) \in {0, 1}
      BY <2>3, OneIs DEF One
    <3>3. \A x : /\ First(x) <= First(x)' /\ Due(x)' <= Due(x)
                 /\ Copies(h'.responses, x) + Copies(batch', x) + One(n, x)
                    <= Copies(h.responses, x) + Copies(batch, x)
      BY <1>2, <1>3, <2>4, <2>5, <3>2
    <3>4. Kept(ledger)' /\ (~overtaken => \A x : Covered(x)')
      BY <2>3, <3>1, <3>3, CoveredSent
    <3> QED
      BY <1>1, <3>4 DEF LedgerInv
  <2>7. CASE ~(running /\ link.up)
    <3>1. ledger' = ledger
      BY <1>6, <2>7 DEF SendScheduled
    <3> HIDE DEF m, n
    <3>2. \A x : One(m, x) \in {0, 1}
      BY OneIs
    <3>3. \A x : /\ First(x) <= First(x)' /\ Due(x)' <= Due(x)
                 /\ Copies(h'.responses, x) <= Copies(h.responses, x)
                 /\ Copies(batch', x) <= Copies(batch, x)
      BY <1>2, <1>3, <2>4, <2>5, <3>2
    <3>4. Kept(ledger)' /\ (~overtaken => \A x : Covered(x)')
      BY <3>1, <3>3, CoveredKept
    <3> QED
      BY <1>1, <3>4 DEF LedgerInv
  <2> QED
    BY <2>6, <2>7
<1> QED
  BY <1>5, <1>6 DEF SchedulerNext

\* The operator, the link and the peer neither log nor send.
LEMMA LedgerOthers ==
    ASSUME ShapeInv, ShapeInv', LedgerInv, OperatorNext \/ LinkBreaks \/ PeerNext
    PROVE  LedgerInv'
<1>1. UNCHANGED <<pc, h, ledger, batch>>
  BY DEF OperatorNext, EditSettings, EditRules, Stop, LinkBreaks, PeerNext, PeerSends,
         PeerAnswers, PeerMisanswers, Delivers
<1>2. ~overtaken' => ~overtaken /\ (pc = "match" => rules' = rules)
  BY DEF OperatorNext, EditSettings, EditRules, Stop, LinkBreaks, PeerNext, PeerSends,
         PeerAnswers, PeerMisanswers, Delivers, store, config
<1>3. ASSUME NEW x
      PROVE  /\ First(x) <= First(x)' /\ Due(x)' <= Due(x)
             /\ Copies(h'.responses, x) <= Copies(h.responses, x)
             /\ Copies(batch', x) <= Copies(batch, x)
  <2>1. First(x)' = First(x) /\ Due(x)' = Due(x)
    BY <1>1 DEF First, Due
  <2>2. /\ Copies(h.responses, x) \in Nat /\ Copies(batch, x) \in Nat
        /\ First(x) \in {0, 1} /\ Due(x) \in {0, 1}
    BY Amounts DEF LedgerInv
  <2> QED
    BY <1>1, <2>1, <2>2
<1>4. Kept(ledger)' /\ (~overtaken => \A x : Covered(x)')
  BY <1>1, <1>3, CoveredKept
<1> QED
  BY <1>1, <1>2, <1>4 DEF LedgerInv

LEMMA LedgerInit ==
    ASSUME Init
    PROVE  LedgerInv
<1>1. ledger = <<>> /\ batch = <<>> /\ pc = "selected" /\ h.responses = <<>>
  BY EmptyHand DEF Init
<1>2. ASSUME NEW x PROVE Balance(ledger, x) = 0
  BY <1>1, NoMessages DEF Balance
<1>3. ASSUME NEW x PROVE Covered(x)
  <2>1. First(x) = 0 /\ Due(x) = 0
    BY <1>1 DEF First, Due
  <2>2. Copies(h.responses, x) = 0 /\ Copies(batch, x) = 0
    BY <1>1, CopiesNone
  <2> QED
    BY <1>2, <2>1, <2>2 DEF Covered
<1> QED
  BY <1>1, <1>2, <1>3 DEF LedgerInv, Kept

LEMMA LedgerStep ==
    ASSUME ShapeInv, ShapeInv', LedgerInv, [Next]_vars
    PROVE  LedgerInv'
<1>1. CASE ReaderNext
  BY <1>1, LedgerBegins, LedgerMatched, LedgerAnswers, LedgerAdvances, LedgerNumbers, LedgerSends
     DEF ReaderNext
<1>2. CASE SchedulerNext \/ OperatorNext \/ LinkBreaks \/ PeerNext
  BY <1>2, LedgerSchedules, LedgerOthers
<1>3. CASE UNCHANGED vars
  <2>1. UNCHANGED <<pc, h, ledger, batch, rules, overtaken>>
    BY <1>3 DEF vars, store, config
  <2> QED
    BY <2>1 DEF LedgerInv, Covered, First, Due, Kept
<1> QED
  BY <1>1, <1>2, <1>3 DEF Next

(***************************************************************************)
(* What is sent has been logged as sent, as often as it is sent: the reply *)
(* that ProcessInbound logs is the one that replyForResult finds in the    *)
(* reader's copy, RunScheduled logs the actions that sendScheduledMessages *)
(* sends, and what handleDataMessage logs is what runSession sends. Only   *)
(* sendStandaloneMessage sends before it logs, and between the two steps   *)
(* only its own message is missing. It holds without a hypothesis: the     *)
(* wrap of the counter, the operator and the peer do not come into it.     *)
(***************************************************************************)
THEOREM LogIsKept == Spec => []SentAsLogged
<1>1. ASSUME ShapeInv, LedgerInv PROVE SentAsLogged
  <2> SUFFICES ASSUME ~overtaken, NEW m \in DOMAIN ledger, ledger[m] < 0
               PROVE  pc = "sentFirst" /\ m = Shown(h.message)
    BY DEF SentAsLogged
  <2>1. Balance(ledger, m) = ledger[m]
    BY DEF Balance
  <2>2. /\ Balance(ledger, m) \in Int
        /\ Copies(h.responses, m) \in Nat /\ Copies(batch, m) \in Nat
        /\ First(m) \in {0, 1} /\ Due(m) \in {0, 1}
    BY <1>1, Amounts DEF LedgerInv
  <2>3. Balance(ledger, m) + First(m) >= Copies(h.responses, m) + Copies(batch, m) + Due(m)
    BY <1>1 DEF LedgerInv, Covered
  <2>4. First(m) = 1
    BY <2>1, <2>2, <2>3
  <2> QED
    BY <2>4 DEF First, One
<1> QED
  BY <1>1, LedgerInit, LedgerStep, ShapeAlways, PTL DEF Spec
=============================================================================
