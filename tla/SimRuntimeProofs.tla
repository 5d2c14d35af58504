-------------------------- MODULE SimRuntimeProofs --------------------------
(***************************************************************************)
(* Proofs about SimRuntime, for every rule set, message, bound and clock:  *)
(* message identifiers are distinct, no scheduled action vanishes, a tick  *)
(* logs in the order of the due times, and, as long as the waiting actions *)
(* can be built, nothing is logged twice or after it was discarded.  The   *)
(* queue is followed through the history: an action is known by its        *)
(* ticket, and the queue is always a sorted list of different tickets.     *)
(***************************************************************************)
EXTENDS SimRuntime, SimConfigProofs

\* An element of the queue.
Entry == [due : Int, rule : Generated, action : Action, ticket : Generated]

(***************************************************************************)
(* The queue is sorted by due time, and holds what it held.                *)
(***************************************************************************)
LEMMA QueueSorted ==
  ASSUME NEW s \in Seq(Entry)
  PROVE  \E at \in [DOMAIN s -> DOMAIN s] :
           /\ StableSort(s, DueBefore) = [k \in DOMAIN s |-> s[at[k]]]
           /\ \A i \in DOMAIN s : \E k \in DOMAIN s : at[k] = i
           /\ \A k, l \in DOMAIN s : at[k] = at[l] => k = l
           /\ \A k, l \in DOMAIN s : k <= l => s[at[k]].due <= s[at[l]].due
<1> DEFINE I == DOMAIN s
           d == [i \in I |-> s[i].due]
           r == [i \in I |-> IdRank(s[i].action.id)]
           B == SortBelow(I, d, r)
           NotAfter(i) == {j \in I : \/ DueBefore(s[j], s[i])
                                     \/ j <= i /\ ~DueBefore(s[i], s[j])}
           at == [k \in I |-> CHOOSE i \in I : Cardinality(NotAfter(i)) = k]
<1>1. Len(s) \in Nat /\ I = 1 .. Len(s) /\ \A i \in I : s[i] \in Entry
  BY LenProperties, ElementOfSeq
<1>2. /\ I \in SUBSET Int /\ IsFiniteSet(I)
      /\ Cardinality(I) = Len(s) /\ 1 .. Cardinality(I) = I
  BY <1>1, FS_Interval
<1>3. StableSort(s, DueBefore) = [k \in I |-> s[at[k]]]
  BY DEF StableSort
<1>4. d \in [I -> Int] /\ r \in [I -> Int]
  BY <1>1, IdRankType DEF Entry, Action
<1>5. TotalOrder(I, B)
  <2>1. I \in SUBSET Int
    BY <1>2
  <2> HIDE DEF I, d, r
  <2> QED
    BY <1>4, <2>1, SortOrder
<1>6. \A i, j \in I : DueBefore(s[i], s[j]) <=> KeyBefore(d, r, i, j)
  BY DEF DueBefore, KeyBefore
<1>7. \A i \in I : B[i] = NotAfter(i)
  BY <1>6 DEF SortBelow
<1>8. \A i \in I : d[i] = s[i].due
  OBVIOUS
<1> HIDE DEF I, d, r, NotAfter
<1>9. \A k \in I : \E i \in I : Cardinality(NotAfter(i)) = k
  <2> HIDE DEF B
  <2>1. \A k \in 1 .. Cardinality(I) : \E i \in I : Cardinality(B[i]) = k
    BY <1>2, <1>5, PlacesTaken
  <2> QED
    BY <1>2, <1>7, <2>1
<1>10. \A k \in I : at[k] \in I /\ Cardinality(NotAfter(at[k])) = k
  BY <1>9
<1>11. at \in [I -> I]
  BY <1>10
<1> HIDE DEF at
<1>12. InPlace(I, B, at)
  <2> HIDE DEF B
  <2> QED
    BY <1>2, <1>7, <1>10, <1>11 DEF InPlace
<1>13. \A k, l \in 1 .. Cardinality(I) : k <= l => d[at[k]] <= d[at[l]]
  BY <1>2, <1>4, <1>12, SortedPlaces
<1>14. /\ \A i \in I : \E k \in 1 .. Cardinality(I) : at[k] = i
       /\ \A k, l \in 1 .. Cardinality(I) : at[k] = at[l] => k = l
  <2> HIDE DEF B
  <2> QED
    BY <1>2, <1>5, <1>12, Places
<1>15. \A k, l \in I : k <= l => s[at[k]].due <= s[at[l]].due
  BY <1>2, <1>8, <1>11, <1>13
<1>16. /\ \A i \in I : \E k \in I : at[k] = i
       /\ \A k, l \in I : at[k] = at[l] => k = l
  BY <1>2, <1>14
<1> QED
  BY <1>3, <1>11, <1>15, <1>16 DEF I

(***************************************************************************)
(* The elements of a sequence at the places I, in their order.             *)
(***************************************************************************)
Upto(I) == [i \in I |-> {j \in I : j <= i}]

Picked(s, I) ==
  [k \in 1 .. Cardinality(I) |-> s[CHOOSE i \in I : Cardinality({j \in I : j <= i}) = k]]

LEMMA UptoOrder ==
  ASSUME NEW I \in SUBSET Int
  PROVE  TotalOrder(I, Upto(I))
<1>1. \A i, j \in I : j \in Upto(I)[i] <=> j <= i
  BY DEF Upto
<1>2. Upto(I) \in [I -> SUBSET I]
  BY DEF Upto
<1>3. \A i, j, k \in I : i <= j /\ j <= k => i <= k
  OBVIOUS
<1>4. \A i, j \in I : i <= i /\ (i <= j \/ j <= i) /\ (i <= j /\ j <= i => i = j)
  OBVIOUS
<1>5. \A i, j \in I : j \in Upto(I)[i] => Upto(I)[j] \subseteq Upto(I)[i]
  BY <1>1, <1>2, <1>3
<1> QED
  BY <1>1, <1>2, <1>4, <1>5 DEF TotalOrder

PickedAt(s, I, at) ==
  LET N == Cardinality(I)
  IN  /\ Picked(s, I) = [k \in 1 .. N |-> s[at[k]]]
      /\ \A i \in I : \E k \in 1 .. N : at[k] = i
      /\ \A k, l \in 1 .. N : k <= l <=> at[k] <= at[l]

LEMMA PickedInOrder ==
  ASSUME NEW s, NEW I, I \in SUBSET Int, IsFiniteSet(I)
  PROVE  \E at \in [1 .. Cardinality(I) -> I] : PickedAt(s, I, at)
<1> DEFINE N == Cardinality(I)
           B == Upto(I)
           Place(i) == Cardinality({j \in I : j <= i})
           at == [k \in 1 .. N |-> CHOOSE i \in I : Place(i) = k]
<1>1. TotalOrder(I, B)
  BY UptoOrder
<1>2. \A i \in I : Cardinality(B[i]) = Place(i)
  BY DEF Upto
<1>3. \A i, j \in I : j \in B[i] <=> j <= i
  BY DEF Upto
<1>4. Picked(s, I) = [k \in 1 .. N |-> s[at[k]]]
  BY DEF Picked
<1> HIDE DEF B, Place
<1>5. \A k \in 1 .. N : \E i \in I : Place(i) = k
  <2> SUFFICES ASSUME NEW k \in 1 .. N PROVE \E i \in I : Place(i) = k
    OBVIOUS
  <2>1. \E i \in I : Cardinality(B[i]) = k
    <3> HIDE DEF at
    <3>1. IsFiniteSet(I) /\ TotalOrder(I, B)
      BY <1>1
    <3> QED
      BY <3>1, PlacesTaken
  <2> QED
    BY <1>2, <2>1
<1>6. \A k \in 1 .. N : at[k] \in I /\ Place(at[k]) = k
  BY <1>5
<1>7. at \in [1 .. N -> I]
  BY <1>6
<1> HIDE DEF at
<1>8. InPlace(I, B, at)
  BY <1>2, <1>6, <1>7 DEF InPlace
<1>9. /\ \A i \in I : \E k \in 1 .. N : at[k] = i
      /\ \A k, l \in 1 .. N : k <= l <=> at[k] \in B[at[l]]
  BY <1>1, <1>8, Places
<1>10. \A k, l \in 1 .. N : k <= l <=> at[k] <= at[l]
  BY <1>3, <1>7, <1>9
<1> QED
  BY <1>4, <1>7, <1>9, <1>10 DEF PickedAt

LEMMA DueArePicked ==
  ASSUME NEW s, NEW now
  PROVE  /\ Those(s, LAMBDA p : p.due <= now) = Picked(s, {i \in DOMAIN s : s[i].due <= now})
         /\ Those(s, LAMBDA p : p.due > now) = Picked(s, {i \in DOMAIN s : s[i].due > now})
  BY DEF Those, Picked

(***************************************************************************)
(* The elements of a queue are Filed in t when they hold different tickets *)
(* of t, and fall due when t says.                                         *)
(***************************************************************************)
TicketsOf(q) == {q[k].ticket : k \in DOMAIN q}

Filed(q, t) ==
  /\ q \in Seq(Entry)
  /\ \A j, k \in DOMAIN q : j # k => q[j].ticket # q[k].ticket
  /\ \A k \in DOMAIN q : q[k].ticket \in DOMAIN t /\ q[k].due = t[q[k].ticket].due

InOrder(q) == \A j, k \in DOMAIN q : j <= k => q[j].due <= q[k].due

LEMMA SameLength ==
  ASSUME NEW m \in Nat, NEW n \in Nat, 1 .. m = 1 .. n
  PROVE  m = n
<1>1. CASE m < n
  <2>1. n \in 1 .. n /\ n \notin 1 .. m
    BY <1>1
  <2> QED
    BY <2>1
<1>2. CASE n < m
  <2>1. m \in 1 .. m /\ m \notin 1 .. n
    BY <1>2
  <2> QED
    BY <2>1
<1> QED
  BY <1>1, <1>2

LEMMA ConcatParts ==
  ASSUME NEW s, IsSequence(s), NEW t, IsSequence(t)
  PROVE  /\ IsSequence(s \o t) /\ Len(s \o t) = Len(s) + Len(t)
         /\ DOMAIN (s \o t) = 1 .. Len(s) + Len(t)
         /\ \A i \in 1 .. Len(s) : (s \o t)[i] = s[i]
         /\ \A j \in 1 .. Len(t) : (s \o t)[Len(s) + j] = t[j]
         /\ \A k \in DOMAIN (s \o t) :
              \/ k \in DOMAIN s /\ (s \o t)[k] = s[k]
              \/ \E j \in DOMAIN t : k = Len(s) + j /\ (s \o t)[k] = t[j]
<1> DEFINE r == s \o t
           S == ToSet(s) \cup ToSet(t)
<1>1. s \in Seq(S) /\ t \in Seq(S)
  BY SequenceIn DEF ToSet
<1> HIDE DEF S
<1>2. r \in Seq(S) /\ Len(r) = Len(s) + Len(t)
  BY <1>1, ConcatProperties
<1>3. \A i \in 1 .. Len(r) : r[i] = IF i <= Len(s) THEN s[i] ELSE t[i - Len(s)]
  BY <1>1, ConcatProperties
<1>4. DOMAIN r = 1 .. Len(r) /\ IsSequence(r)
  BY <1>2, LenProperties, SequenceOf
<1>5. Len(s) \in Nat /\ DOMAIN s = 1 .. Len(s) /\ Len(t) \in Nat /\ DOMAIN t = 1 .. Len(t)
  BY SequenceLength
<1> HIDE DEF r
<1>6. \A i \in 1 .. Len(s) : r[i] = s[i]
  BY <1>2, <1>3, <1>5
<1>7. \A j \in 1 .. Len(t) : r[Len(s) + j] = t[j]
  BY <1>2, <1>3, <1>5
<1>8. ASSUME NEW k \in DOMAIN r
      PROVE  \/ k \in DOMAIN s /\ r[k] = s[k]
             \/ \E j \in DOMAIN t : k = Len(s) + j /\ r[k] = t[j]
  <2>1. CASE k <= Len(s)
    BY <1>2, <1>4, <1>5, <1>6, <2>1
  <2>2. CASE ~(k <= Len(s))
    <3>1. k - Len(s) \in DOMAIN t /\ k = Len(s) + (k - Len(s))
      BY <1>2, <1>4, <1>5, <2>2
    <3> QED
      BY <1>5, <1>7, <3>1
  <2> QED
    BY <2>1, <2>2
<1> QED
  BY <1>2, <1>4, <1>6, <1>7, <1>8 DEF r

LEMMA FiledSorted ==
  ASSUME NEW q, NEW t, Filed(q, t)
  PROVE  LET s == StableSort(q, DueBefore)
         IN  Filed(s, t) /\ InOrder(s) /\ TicketsOf(s) = TicketsOf(q)
<1> DEFINE s == StableSort(q, DueBefore)
<1>1. PICK at \in [DOMAIN q -> DOMAIN q] :
        /\ s = [k \in DOMAIN q |-> q[at[k]]]
        /\ \A i \in DOMAIN q : \E k \in DOMAIN q : at[k] = i
        /\ \A k, l \in DOMAIN q : at[k] = at[l] => k = l
        /\ \A k, l \in DOMAIN q : k <= l => q[at[k]].due <= q[at[l]].due
  BY QueueSorted DEF Filed
<1> HIDE DEF s
<1>2. DOMAIN s = DOMAIN q /\ \A k \in DOMAIN q : s[k] = q[at[k]] /\ at[k] \in DOMAIN q
  BY <1>1
<1>3. s \in Seq(Entry)
  <2>1. Len(q) \in Nat /\ DOMAIN q = 1 .. Len(q) /\ \A k \in DOMAIN q : q[k] \in Entry
    BY LenProperties, ElementOfSeq DEF Filed
  <2>2. s \in [1 .. Len(q) -> Entry]
    BY <1>1, <2>1
  <2> QED
    BY <2>1, <2>2, IsASeq
<1>4. \A j, k \in DOMAIN s : j # k => s[j].ticket # s[k].ticket
  BY <1>1, <1>2 DEF Filed
<1>5. \A k \in DOMAIN s : s[k].ticket \in DOMAIN t /\ s[k].due = t[s[k].ticket].due
  BY <1>2 DEF Filed
<1>6. InOrder(s)
  BY <1>1, <1>2 DEF InOrder
<1>7. TicketsOf(s) = TicketsOf(q)
  BY <1>1, <1>2 DEF TicketsOf
<1> QED
  BY <1>3, <1>4, <1>5, <1>6, <1>7 DEF Filed, s

LEMMA FiledPicked ==
  ASSUME NEW q, NEW t, Filed(q, t), InOrder(q), NEW I, I \subseteq DOMAIN q
  PROVE  LET s == Picked(q, I)
         IN  /\ Filed(s, t) /\ InOrder(s)
             /\ TicketsOf(s) = {q[i].ticket : i \in I}
             /\ Cardinality(I) \in Nat /\ DOMAIN s = 1 .. Cardinality(I)
             /\ \A k \in DOMAIN s : \E i \in I : s[k] = q[i]
             /\ \A i \in I : \E k \in DOMAIN s : s[k] = q[i]
<1> DEFINE s == Picked(q, I)
           N == Cardinality(I)
<1>1. Len(q) \in Nat /\ DOMAIN q = 1 .. Len(q) /\ \A k \in DOMAIN q : q[k] \in Entry
  BY LenProperties, ElementOfSeq DEF Filed
<1>2. I \in SUBSET Int /\ IsFiniteSet(I)
  <2>1. 1 .. Len(q) \in SUBSET Int /\ IsFiniteSet(1 .. Len(q)) /\ I \subseteq 1 .. Len(q)
    BY <1>1, FS_Interval
  <2> QED
    BY <2>1, FS_Subset
<1>3. N \in Nat
  BY <1>2, FS_CardinalityType
<1>4. PICK at \in [1 .. Cardinality(I) -> I] : PickedAt(q, I, at)
  <2> HIDE DEF s, N
  <2> QED
    BY <1>2, PickedInOrder
<1>4a. /\ at \in [1 .. N -> I]
       /\ s = [k \in 1 .. N |-> q[at[k]]]
       /\ \A i \in I : \E k \in 1 .. N : at[k] = i
       /\ \A k, l \in 1 .. N : k <= l <=> at[k] <= at[l]
  BY <1>4 DEF PickedAt
<1> HIDE DEF s, N
<1>5. DOMAIN s = 1 .. N /\ \A k \in 1 .. N : s[k] = q[at[k]] /\ at[k] \in I /\ at[k] \in DOMAIN q
  BY <1>4a
<1>6. s \in Seq(Entry)
  <2>1. s \in [1 .. N -> Entry]
    BY <1>1, <1>4a, <1>5
  <2> QED
    BY <1>3, <2>1, IsASeq
<1>7. \A k, l \in 1 .. N : k # l => at[k] # at[l]
  BY <1>1, <1>3, <1>4a, <1>5
<1>8. \A j, k \in DOMAIN s : j # k => s[j].ticket # s[k].ticket
  BY <1>5, <1>7 DEF Filed
<1>9. \A k \in DOMAIN s : s[k].ticket \in DOMAIN t /\ s[k].due = t[s[k].ticket].due
  BY <1>5 DEF Filed
<1>10. InOrder(s)
  BY <1>4a, <1>5 DEF InOrder
<1>11. TicketsOf(s) = {q[i].ticket : i \in I}
  BY <1>4a, <1>5 DEF TicketsOf
<1>12. /\ \A k \in DOMAIN s : \E i \in I : s[k] = q[i]
       /\ \A i \in I : \E k \in DOMAIN s : s[k] = q[i]
  BY <1>4a, <1>5
<1> QED
  BY <1>3, <1>5, <1>6, <1>8, <1>9, <1>10, <1>11, <1>12 DEF Filed, s, N

LEMMA FiledExtended ==
  ASSUME NEW q, NEW t, Filed(q, t), IsSequence(t), NEW u, IsSequence(u),
         NEW a \in Seq(Entry), DOMAIN a = DOMAIN u,
         \A j \in DOMAIN a : a[j].ticket = Len(t) + j /\ a[j].due = u[j].due
  PROVE  /\ Filed(q \o a, t \o u)
         /\ TicketsOf(q \o a) = TicketsOf(q) \cup TicketsOf(a)
         /\ DOMAIN (t \o u) = DOMAIN t \cup TicketsOf(a)
         /\ IsSequence(t \o u)
<1> DEFINE r == q \o a
           v == t \o u
<1>1. /\ Len(q) \in Nat /\ DOMAIN q = 1 .. Len(q) /\ q \in Seq(Entry)
      /\ Len(a) \in Nat /\ DOMAIN a = 1 .. Len(a)
  BY LenProperties DEF Filed
<1>2. Len(t) \in Nat /\ DOMAIN t = 1 .. Len(t) /\ Len(u) \in Nat /\ DOMAIN u = 1 .. Len(u)
  BY SequenceLength
<1>3. Len(u) = Len(a)
  <2>1. 1 .. Len(u) = 1 .. Len(a)
    BY <1>1, <1>2
  <2> HIDE DEF r, v
  <2> QED
    BY <1>1, <1>2, <2>1, SameLength
<1>4. /\ DOMAIN r = 1 .. Len(q) + Len(a)
      /\ \A i \in 1 .. Len(q) : r[i] = q[i]
      /\ \A j \in 1 .. Len(a) : r[Len(q) + j] = a[j]
  BY <1>1, SequenceOf, ConcatParts
<1>4a. r \in Seq(Entry)
  BY <1>1, ConcatProperties
<1>5. /\ IsSequence(v) /\ DOMAIN v = 1 .. Len(t) + Len(u)
      /\ \A i \in 1 .. Len(t) : v[i] = t[i]
      /\ \A j \in 1 .. Len(u) : v[Len(t) + j] = u[j]
  BY ConcatParts
<1> HIDE DEF r, v
<1>6. \A k \in DOMAIN r : \/ k \in DOMAIN q /\ r[k] = q[k]
                          \/ \E j \in DOMAIN a : k = Len(q) + j /\ r[k] = a[j]
  <2> SUFFICES ASSUME NEW k \in DOMAIN r, k \notin DOMAIN q
               PROVE  \E j \in DOMAIN a : k = Len(q) + j /\ r[k] = a[j]
    BY <1>1, <1>4
  <2>1. k - Len(q) \in DOMAIN a /\ k = Len(q) + (k - Len(q))
    BY <1>1, <1>4
  <2> QED
    BY <1>1, <1>4, <2>1
<1>7. /\ \A k \in DOMAIN q : q[k].ticket \in 1 .. Len(t)
      /\ \A j \in DOMAIN a : a[j].ticket \in (Len(t) + 1) .. (Len(t) + Len(a))
  BY <1>1, <1>2 DEF Filed
<1>8. \A j, k \in DOMAIN r : j # k => r[j].ticket # r[k].ticket
  <2> SUFFICES ASSUME NEW j \in DOMAIN r, NEW k \in DOMAIN r, j # k
               PROVE  r[j].ticket # r[k].ticket
    OBVIOUS
  <2>1. CASE j \in DOMAIN q /\ k \in DOMAIN q
    BY <1>1, <1>4, <2>1 DEF Filed
  <2>2. CASE j \in DOMAIN q /\ k \notin DOMAIN q
    <3>1. r[j] = q[j] /\ q[j].ticket \in 1 .. Len(t)
      BY <1>1, <1>4, <1>7, <2>2
    <3>2. PICK kk \in DOMAIN a : r[k] = a[kk]
      BY <1>6, <2>2
    <3>3. a[kk].ticket \in (Len(t) + 1) .. (Len(t) + Len(a))
      BY <1>7
    <3> QED
      BY <1>2, <3>1, <3>2, <3>3
  <2>3. CASE j \notin DOMAIN q /\ k \in DOMAIN q
    <3>1. r[k] = q[k] /\ q[k].ticket \in 1 .. Len(t)
      BY <1>1, <1>4, <1>7, <2>3
    <3>2. PICK jj \in DOMAIN a : r[j] = a[jj]
      BY <1>6, <2>3
    <3>3. a[jj].ticket \in (Len(t) + 1) .. (Len(t) + Len(a))
      BY <1>7
    <3> QED
      BY <1>2, <3>1, <3>2, <3>3
  <2>4. CASE j \notin DOMAIN q /\ k \notin DOMAIN q
    <3>1. PICK jj \in DOMAIN a : j = Len(q) + jj /\ r[j] = a[jj]
      BY <1>6, <2>4
    <3>2. PICK kk \in DOMAIN a : k = Len(q) + kk /\ r[k] = a[kk]
      BY <1>6, <2>4
    <3>3. jj # kk /\ jj \in Int /\ kk \in Int
      BY <1>1, <3>1, <3>2
    <3>4. r[j].ticket = Len(t) + jj /\ r[k].ticket = Len(t) + kk
      BY <3>1, <3>2
    <3> QED
      BY <1>2, <3>3, <3>4
  <2> QED
    BY <2>1, <2>2, <2>3, <2>4
<1>9. ASSUME NEW k \in DOMAIN r
      PROVE  r[k].ticket \in DOMAIN v /\ r[k].due = v[r[k].ticket].due
  <2>1. CASE k \in DOMAIN q /\ r[k] = q[k]
    <3>1. q[k].ticket \in DOMAIN t /\ q[k].due = t[q[k].ticket].due
      BY <2>1 DEF Filed
    <3> QED
      BY <1>1, <1>2, <1>5, <2>1, <3>1
  <2>2. ASSUME NEW j \in DOMAIN a, r[k] = a[j]
        PROVE  r[k].ticket \in DOMAIN v /\ r[k].due = v[r[k].ticket].due
    <3>1. a[j].ticket = Len(t) + j /\ a[j].due = u[j].due /\ v[Len(t) + j] = u[j]
      BY <1>1, <1>3, <1>5
    <3>2. Len(t) + j \in DOMAIN v
      BY <1>1, <1>2, <1>3, <1>5
    <3> QED
      BY <2>2, <3>1, <3>2
  <2> QED
    BY <1>6, <2>1, <2>2
<1>10. TicketsOf(r) = TicketsOf(q) \cup TicketsOf(a)
  <2>1. TicketsOf(r) \subseteq TicketsOf(q) \cup TicketsOf(a)
    BY <1>6 DEF TicketsOf
  <2>2. TicketsOf(q) \subseteq TicketsOf(r)
    BY <1>1, <1>4 DEF TicketsOf
  <2>3. ASSUME NEW j \in DOMAIN a PROVE a[j].ticket \in TicketsOf(r)
    <3>1. Len(q) + j \in DOMAIN r /\ r[Len(q) + j] = a[j]
      BY <1>1, <1>4
    <3> QED
      BY <3>1, Zenon DEF TicketsOf
  <2>4. TicketsOf(a) \subseteq TicketsOf(r)
    BY <2>3 DEF TicketsOf
  <2> QED
    BY <2>1, <2>2, <2>4
<1>11. DOMAIN v = DOMAIN t \cup TicketsOf(a)
  <2>1. ASSUME NEW k \in DOMAIN v PROVE k \in DOMAIN t \cup TicketsOf(a)
    <3>1. CASE k \in 1 .. Len(t)
      BY <1>2, <3>1
    <3>2. CASE k \notin 1 .. Len(t)
      <4>1. k - Len(t) \in DOMAIN a /\ Len(t) + (k - Len(t)) = k
        BY <1>1, <1>2, <1>3, <1>5, <3>2
      <4>2. a[k - Len(t)].ticket = k
        BY <4>1
      <4> QED
        BY <4>1, <4>2, Zenon DEF TicketsOf
    <3> QED
      BY <3>1, <3>2
  <2>2. DOMAIN t \subseteq DOMAIN v
    BY <1>1, <1>2, <1>3, <1>5
  <2>3. TicketsOf(a) \subseteq DOMAIN v
    BY <1>1, <1>2, <1>3, <1>5, <1>7 DEF TicketsOf
  <2> QED
    BY <2>1, <2>2, <2>3
<1> QED
  BY <1>4a, <1>5, <1>8, <1>9, <1>10, <1>11 DEF Filed, r, v

(***************************************************************************)
(* The log: its identifiers are distinct and below the next one.           *)
(***************************************************************************)
LogInv == nextMessageID \in Generated /\ Issued(messages, nextMessageID)

LEMMA ConcatIssued ==
  ASSUME NEW s, NEW n \in Generated, Issued(s, n),
         NEW t, IsSequence(t), \A k \in DOMAIN t : t[k].id = n + k - 1,
         NEW m \in Nat, n + Len(t) <= m
  PROVE  m \in Generated /\ Issued(s \o t, m)
<1> DEFINE r == s \o t
<1>1. /\ Len(s) \in Nat /\ DOMAIN s = 1 .. Len(s)
      /\ Len(t) \in Nat /\ DOMAIN t = 1 .. Len(t)
  BY SequenceLength DEF Issued
<1>2. IsSequence(s) /\ IsSequence(r)
  BY ConcatParts DEF Issued
<1>3. \A k \in DOMAIN r : \/ k \in DOMAIN s /\ r[k] = s[k]
                          \/ \E j \in DOMAIN t : k = Len(s) + j /\ r[k] = t[j]
  BY ConcatParts DEF Issued
<1> HIDE DEF r
<1>4. \A k \in DOMAIN s : s[k].id \in Nat /\ 1 <= s[k].id /\ s[k].id < n
  BY DEF Issued, IdsBelow, Generated
<1>5. \A j \in DOMAIN t : j \in Nat /\ t[j].id \in Nat /\ n <= t[j].id /\ t[j].id < m
  BY <1>1 DEF Generated
<1>6. n \in Nat /\ 1 <= n /\ n <= m
  BY <1>1 DEF Generated
<1>7. IdsBelow(r, m)
  <2> SUFFICES ASSUME NEW k \in DOMAIN r PROVE r[k].id \in Generated /\ r[k].id < m
    BY DEF IdsBelow
  <2>1. CASE k \in DOMAIN s /\ r[k] = s[k]
    BY <1>4, <1>6, <2>1 DEF Generated
  <2>2. ASSUME NEW j \in DOMAIN t, r[k] = t[j] PROVE r[k].id \in Generated /\ r[k].id < m
    BY <1>5, <1>6, <2>2 DEF Generated
  <2> QED
    BY <1>3, <2>1, <2>2
<1>8. IdsDistinct(r)
  <2> SUFFICES ASSUME NEW i \in DOMAIN r, NEW k \in DOMAIN r, i # k
               PROVE  r[i].id # r[k].id
    BY DEF IdsDistinct
  <2>1. CASE i \in DOMAIN s /\ r[i] = s[i] /\ k \in DOMAIN s /\ r[k] = s[k]
    BY <2>1 DEF Issued, IdsDistinct
  <2>2. ASSUME NEW j \in DOMAIN t, r[k] = t[j], i \in DOMAIN s, r[i] = s[i]
        PROVE  r[i].id # r[k].id
    BY <1>4, <1>5, <1>6, <2>2
  <2>3. ASSUME NEW j \in DOMAIN t, r[i] = t[j], k \in DOMAIN s, r[k] = s[k]
        PROVE  r[i].id # r[k].id
    BY <1>4, <1>5, <1>6, <2>3
  <2>4. ASSUME NEW j \in DOMAIN t, i = Len(s) + j, r[i] = t[j],
               NEW l \in DOMAIN t, k = Len(s) + l, r[k] = t[l]
        PROVE  r[i].id # r[k].id
    <3>1. j # l /\ j \in Nat /\ l \in Nat
      BY <1>5, <2>4
    <3>2. r[i].id = n + j - 1 /\ r[k].id = n + l - 1
      BY <2>4
    <3> QED
      BY <1>6, <3>1, <3>2
  <2> QED
    BY <1>3, <2>1, <2>2, <2>3, <2>4
<1> QED
  BY <1>2, <1>6, <1>7, <1>8 DEF Issued, Generated, r

LEMMA MinIsLeast ==
  ASSUME NEW S \in SUBSET Nat, S # {}
  PROVE  Min(S) \in S /\ \A y \in S : Min(S) <= y
<1>1. \E x \in S : \A y \in S : x <= y
  BY LeastNatural
<1> QED
  BY <1>1 DEF Min

(***************************************************************************)
(* The store's steps are steps of its configuration half.                  *)
(***************************************************************************)
LEMMA StepOfHalf ==
  ASSUME [StoreNext]_vars
  PROVE  [Next]_configVars
<1>1. ASSUME NEW m \in Inbound, NEW at \in 0 .. clock, ProcessInbound(m, at)
      PROVE  UNCHANGED configVars
  BY <1>1 DEF ProcessInbound
<1>2. ASSUME NEW direction \in {"IN", "OUT"}, AppendProtocolMessage(direction)
      PROVE  UNCHANGED configVars
  BY <1>2 DEF AppendProtocolMessage
<1>3. ASSUME NEW now \in 0 .. clock, RunScheduled(now)
      PROVE  UNCHANGED configVars
  BY <1>3 DEF RunScheduled
<1>4. CASE Tick
  BY <1>4 DEF Tick
<1>5. CASE StopRuntime
  BY <1>5 DEF StopRuntime, Next, RuntimeNext
<1>6. CASE SetRunning
  BY <1>6 DEF SetRunning, Next, RuntimeNext
<1>7. CASE Toggle
  BY <1>7 DEF Toggle, Next, RuntimeNext
<1>8. CASE ReloadConfig
  BY <1>8 DEF ReloadConfig, Next, FileNext
<1>9. CASE ClearMessages
  BY <1>9 DEF ClearMessages, Next
<1>10. CASE RestartProcess
  BY <1>10 DEF RestartProcess, Next, FileNext
<1>11. CASE EditConfig
  BY <1>11 DEF EditConfig, Next, FileNext
<1>12. CASE NoteRuntime
  BY <1>12 DEF NoteRuntime, Next, RuntimeNext
<1>13. CASE UNCHANGED vars
  BY <1>13 DEF vars
<1> QED
  BY <1>1, <1>2, <1>3, <1>4, <1>5, <1>6, <1>7, <1>8, <1>9, <1>10, <1>11, <1>12, <1>13
     DEF StoreNext

\* Whatever the runtime half does, the configuration half behaves as it does alone.
THEOREM StoreImplementsConfig == StoreSpec => Spec
  BY StepOfHalf, PTL DEF StoreSpec, Spec, StoreInit

QueueInv ==
  /\ clock \in Nat /\ IsSequence(tickets) /\ IsSequence(emitted)
  /\ Filed(pending, tickets) /\ InOrder(pending)
  /\ NoneLost
  /\ dropped \cap TicketsOf(pending) = {}

queueVars == <<pending, clock, tickets, emitted, dropped>>

LEMMA EmptyQueue ==
  ASSUME NEW t
  PROVE  Filed(<<>>, t) /\ InOrder(<<>>) /\ TicketsOf(<<>>) = {}
<1>1. <<>> \in Seq(Entry) /\ DOMAIN <<>> = {}
  OBVIOUS
<1> QED
  BY <1>1 DEF Filed, InOrder, TicketsOf

LEMMA SameLog ==
  ASSUME LogInv, UNCHANGED <<messages, nextMessageID>>
  PROVE  LogInv'
  BY DEF LogInv, Issued, IdsDistinct, IdsBelow

LEMMA SameQueue ==
  ASSUME QueueInv, UNCHANGED queueVars
  PROVE  QueueInv'
  BY DEF QueueInv, queueVars, NoneLost, PendingTickets

LEMMA Queued == PendingTickets = TicketsOf(pending)
  BY DEF PendingTickets, TicketsOf

LEMMA DiscardKeepsQueue ==
  ASSUME QueueInv, Discard, UNCHANGED <<clock, tickets, emitted>>
  PROVE  QueueInv'
<1>1. pending' = <<>> /\ dropped' = dropped \cup PendingTickets
  BY DEF Discard
<1>2. (Filed(pending, tickets) /\ InOrder(pending) /\ TicketsOf(pending) = {})'
  BY <1>1, EmptyQueue
<1>3. (dropped \cap TicketsOf(pending) = {})'
  BY <1>2
<1>4. NoneLost'
  <2>1. PendingTickets' = {}
    BY <1>2 DEF PendingTickets, TicketsOf
  <2>2. DOMAIN tickets = PendingTickets \cup ToSet(emitted) \cup dropped
    BY DEF QueueInv, NoneLost
  <2> QED
    BY <1>1, <2>1, <2>2 DEF NoneLost
<1> QED
  BY <1>2, <1>3, <1>4 DEF QueueInv

LEMMA OneMore ==
  ASSUME LogInv, NEW direction, NEW rule, NEW evaluations,
         Append1(Record(nextMessageID, direction, rule, evaluations))
  PROVE  LogInv'
<1>1. Record(nextMessageID, direction, rule, evaluations).id = nextMessageID
  BY DEF Record
<1>2. nextMessageID \in Generated /\ Issued(messages, nextMessageID)
  BY DEF LogInv
<1>3. Issued(Append(messages, Record(nextMessageID, direction, rule, evaluations)),
             nextMessageID + 1)
  BY <1>1, <1>2, AppendIssued
<1>4. nextMessageID + 1 \in Generated
  BY <1>2 DEF Generated
<1> QED
  BY <1>3, <1>4 DEF LogInv, Append1

(***************************************************************************)
(* A matched message.                                                      *)
(***************************************************************************)
LEMMA FirstMatch ==
  ASSUME ShapeInv, NEW m, Matching(m) # {}
  PROVE  LET rule == config.rules[Min(Matching(m))]
         IN  rule.id \in Generated /\ rule.actions \in Seq(Action)
<1>1. IsSequence(config.rules) /\ Issued(config.rules, nextRuleID)
      /\ \A i \in DOMAIN config.rules : config.rules[i].actions \in Seq(Action)
  BY DEF ShapeInv, IdsInv, TypesInv, ConfigTyped, RulesTyped
<1>2. Matching(m) \subseteq DOMAIN config.rules
  BY DEF Matching, Candidates
<1>3. Matching(m) \in SUBSET Nat
  <2>1. DOMAIN config.rules \subseteq Nat
    BY <1>1, SequenceLength
  <2> QED
    BY <1>2, <2>1
<1>4. Min(Matching(m)) \in DOMAIN config.rules
  BY <1>2, <1>3, MinIsLeast
<1> QED
  BY <1>1, <1>4 DEF Issued, IdsBelow

LEMMA EntryIntro ==
  ASSUME NEW d \in Int, NEW r \in Generated, NEW x \in Action, NEW k \in Generated
  PROVE  [due |-> d, rule |-> r, action |-> x, ticket |-> k] \in Entry
  BY DEF Entry

LEMMA ScheduledFiled ==
  ASSUME QueueInv, NEW rule, rule.id \in Generated, rule.actions \in Seq(Action), NEW at \in Int
  PROVE  LET a == Scheduled(rule, at)
         IN  /\ a \in Seq(Entry)
             /\ \A j \in DOMAIN a : a[j].ticket = Len(tickets) + j
<1> DEFINE a == Scheduled(rule, at)
           acts == rule.actions
<1>1. Len(acts) \in Nat /\ DOMAIN acts = 1 .. Len(acts) /\ \A j \in DOMAIN acts : acts[j] \in Action
  BY LenProperties, ElementOfSeq
<1>2. Len(tickets) \in Nat
  BY SequenceLength DEF QueueInv
<1>3. DOMAIN a = DOMAIN acts
  BY DEF Scheduled
<1>4. \A j \in DOMAIN acts : a[j] = [due |-> at + acts[j].payload.delay, rule |-> rule.id,
                                     action |-> acts[j], ticket |-> Len(tickets) + j]
  BY DEF Scheduled
<1>5. a = [j \in DOMAIN acts |-> a[j]]
  BY DEF Scheduled
<1> HIDE DEF a, acts
<1>6. ASSUME NEW j \in DOMAIN acts PROVE a[j] \in Entry /\ a[j].ticket = Len(tickets) + j
  <2>1. acts[j] \in Action /\ acts[j].payload.delay \in Int /\ j \in Nat /\ 1 <= j
    BY <1>1 DEF Action, Payload
  <2>2. Len(tickets) + j \in Generated
    BY <1>2, <2>1 DEF Generated
  <2>3. at + acts[j].payload.delay \in Int
    BY <2>1
  <2>4. [due |-> at + acts[j].payload.delay, rule |-> rule.id, action |-> acts[j],
         ticket |-> Len(tickets) + j] \in Entry
    BY <2>1, <2>2, <2>3, EntryIntro
  <2> QED
    BY <1>4, <2>4
<1>7. a \in [1 .. Len(acts) -> Entry]
  BY <1>1, <1>3, <1>5, <1>6
<1>8. a \in Seq(Entry)
  BY <1>1, <1>7, IsASeq
<1> QED
  BY <1>3, <1>6, <1>8 DEF a

LEMMA MatchedKeepsInv ==
  ASSUME ShapeInv, LogInv, QueueInv, NEW m, NEW at \in Int, ProcessMatched(m, at),
         UNCHANGED <<clock, emitted, dropped>>
  PROVE  /\ LogInv' /\ QueueInv'
         /\ TicketsOf(pending') \cap DOMAIN tickets \subseteq TicketsOf(pending)
<1> DEFINE rule == config.rules[Min(Matching(m))]
           a == Scheduled(rule, at)
           u == [j \in DOMAIN a |-> [inbound |-> inbounds, due |-> a[j].due]]
           two == <<Record(nextMessageID, "IN", rule.id, Evaluations(m)),
                    Record(nextMessageID + 1, "OUT", rule.id, {})>>
<1>1. /\ Matching(m) # {}
      /\ messages' = messages \o two /\ nextMessageID' = nextMessageID + 2
      /\ pending' = StableSort(pending \o a, DueBefore)
      /\ tickets' = tickets \o u
  BY DEF ProcessMatched
<1>2. rule.id \in Generated /\ rule.actions \in Seq(Action)
  BY <1>1, FirstMatch
<1>3. LogInv'
  <2>1. two[1].id = nextMessageID /\ two[2].id = nextMessageID + 1
    BY DEF Record
  <2>2. IsSequence(two) /\ Len(two) = 2 /\ DOMAIN two = 1 .. 2
    <3>1. two = [i \in 1 .. 2 |-> two[i]]
      OBVIOUS
    <3> HIDE DEF two
    <3> QED
      BY <3>1, SequenceIntro, SequenceLength
  <2> HIDE DEF two, rule, a, u
  <2>3. nextMessageID \in Generated /\ Issued(messages, nextMessageID)
    BY DEF LogInv
  <2>4. \A k \in DOMAIN two : two[k].id = nextMessageID + k - 1
    BY <2>1, <2>2, <2>3 DEF Generated
  <2>5. nextMessageID + 2 \in Nat /\ nextMessageID + Len(two) <= nextMessageID + 2
    BY <2>2, <2>3 DEF Generated
  <2>6. nextMessageID + 2 \in Generated /\ Issued(messages \o two, nextMessageID + 2)
    BY <2>2, <2>3, <2>4, <2>5, ConcatIssued
  <2> QED
    BY <1>1, <2>6 DEF LogInv
<1> HIDE DEF two
<1>4. a \in Seq(Entry) /\ \A j \in DOMAIN a : a[j].ticket = Len(tickets) + j
  <2> HIDE DEF rule
  <2> QED
    BY <1>2, ScheduledFiled
<1> HIDE DEF a, rule
<1>5. IsSequence(u) /\ DOMAIN a = DOMAIN u /\ \A j \in DOMAIN a : a[j].due = u[j].due
  <2>1. Len(a) \in Nat /\ DOMAIN a = 1 .. Len(a)
    BY <1>4, LenProperties
  <2>2. u = [i \in 1 .. Len(a) |-> u[i]]
    BY <2>1
  <2>3. DOMAIN a = DOMAIN u /\ \A j \in DOMAIN a : a[j].due = u[j].due
    OBVIOUS
  <2> HIDE DEF u
  <2> QED
    BY <2>1, <2>2, <2>3, SequenceIntro
<1> HIDE DEF u
<1> DEFINE q == pending \o a
           t == tickets \o u
<1>6. /\ Filed(q, t) /\ TicketsOf(q) = TicketsOf(pending) \cup TicketsOf(a)
      /\ DOMAIN t = DOMAIN tickets \cup TicketsOf(a) /\ IsSequence(t)
  BY <1>4, <1>5, FiledExtended DEF QueueInv
<1> HIDE DEF q, t
<1>7. /\ Filed(pending', t) /\ InOrder(pending') /\ TicketsOf(pending') = TicketsOf(q)
  <2>1. pending' = StableSort(q, DueBefore)
    BY <1>1 DEF q
  <2> QED
    BY <1>6, <2>1, FiledSorted
<1>8. tickets' = t
  BY <1>1 DEF t
<1>9. DOMAIN tickets = TicketsOf(pending) \cup ToSet(emitted) \cup dropped
  BY Queued DEF QueueInv, NoneLost
<1>10. NoneLost'
  <2>1. PendingTickets' = TicketsOf(pending) \cup TicketsOf(a)
    BY <1>6, <1>7 DEF PendingTickets, TicketsOf
  <2> QED
    BY <1>6, <1>8, <1>9, <2>1 DEF NoneLost
<1>11. DOMAIN tickets \cap TicketsOf(a) = {}
  <2>1. \A j \in DOMAIN a : a[j].ticket \notin DOMAIN tickets
    <3>1. Len(tickets) \in Nat /\ DOMAIN tickets = 1 .. Len(tickets)
      BY SequenceLength DEF QueueInv
    <3>2. Len(a) \in Nat /\ DOMAIN a = 1 .. Len(a)
      BY <1>4, LenProperties
    <3> QED
      BY <1>4, <3>1, <3>2
  <2> QED
    BY <2>1 DEF TicketsOf
<1>12. TicketsOf(pending') = TicketsOf(pending) \cup TicketsOf(a)
  BY <1>6, <1>7
<1>13. (dropped \cap TicketsOf(pending) = {})'
  <2>1. dropped \subseteq DOMAIN tickets /\ dropped \cap TicketsOf(pending) = {}
    BY <1>9 DEF QueueInv
  <2> QED
    BY <1>11, <1>12, <2>1
<1>14. QueueInv'
  BY <1>6, <1>7, <1>8, <1>10, <1>13 DEF QueueInv
<1> QED
  BY <1>3, <1>11, <1>12, <1>14

(***************************************************************************)
(* A tick logs the first m of the due actions: all of them, which then     *)
(* leave the queue, or those before one that cannot be built.              *)
(***************************************************************************)
DueNow(now) == {i \in DOMAIN pending : pending[i].due <= now}
NotDue(now) == {i \in DOMAIN pending : pending[i].due > now}

Logs(due, m) ==
  \E w \in {0, 1} :
    /\ messages' = messages \o [k \in 1 .. m |->
         Record(nextMessageID + k - 1, "OUT", due[k].rule, {})]
    /\ nextMessageID' = nextMessageID + m + w

Emits(due, m) == emitted' = emitted \o [k \in 1 .. m |-> due[k].ticket]

LEMMA DueFiled ==
  ASSUME QueueInv, NEW now \in Int
  PROVE  LET due == Picked(pending, DueNow(now))
             rest == Picked(pending, NotDue(now))
             N == Cardinality(DueNow(now))
         IN  /\ N \in Nat /\ DOMAIN due = 1 .. N /\ due \in Seq(Entry) /\ Len(due) = N
             /\ Filed(due, tickets) /\ InOrder(due)
             /\ \A k \in 1 .. N : \E i \in DueNow(now) : due[k] = pending[i]
             /\ \A i \in DueNow(now) : \E k \in 1 .. N : due[k] = pending[i]
             /\ TicketsOf(due) = {pending[i].ticket : i \in DueNow(now)}
             /\ Filed(rest, tickets) /\ InOrder(rest)
             /\ \A k \in DOMAIN rest : \E i \in NotDue(now) : rest[k] = pending[i]
             /\ TicketsOf(rest) = {pending[i].ticket : i \in NotDue(now)}
<1> DEFINE due == Picked(pending, DueNow(now))
           rest == Picked(pending, NotDue(now))
           N == Cardinality(DueNow(now))
<1>1. DueNow(now) \subseteq DOMAIN pending /\ NotDue(now) \subseteq DOMAIN pending
  BY DEF DueNow, NotDue
<1>2. Filed(pending, tickets) /\ InOrder(pending)
  BY DEF QueueInv
<1>3. /\ N \in Nat /\ DOMAIN due = 1 .. N
      /\ Filed(due, tickets) /\ InOrder(due)
      /\ TicketsOf(due) = {pending[i].ticket : i \in DueNow(now)}
      /\ \A k \in DOMAIN due : \E i \in DueNow(now) : due[k] = pending[i]
      /\ \A i \in DueNow(now) : \E k \in DOMAIN due : due[k] = pending[i]
  BY <1>1, <1>2, FiledPicked
<1>4. /\ Filed(rest, tickets) /\ InOrder(rest)
      /\ TicketsOf(rest) = {pending[i].ticket : i \in NotDue(now)}
      /\ \A k \in DOMAIN rest : \E i \in NotDue(now) : rest[k] = pending[i]
  BY <1>1, <1>2, FiledPicked
<1> HIDE DEF due, rest, N
<1>5. due \in Seq(Entry) /\ Len(due) = N
  BY <1>3, LenProperties, SameLength DEF Filed
<1> QED
  BY <1>3, <1>4, <1>5 DEF due, rest, N

LEMMA TickShape ==
  ASSUME QueueInv, NEW now \in Int, RunScheduled(now)
  PROVE  LET due == Picked(pending, DueNow(now))
             N == Cardinality(DueNow(now))
         IN  /\ UNCHANGED <<clock, tickets, dropped>>
             /\ \E m \in 0 .. N :
                  /\ Logs(due, m) /\ Emits(due, m)
                  /\ \/ m = N /\ pending' = Picked(pending, NotDue(now))
                     \/ pending' = pending /\ \E k \in 1 .. N : ~Buildable(due[k])
<1> DEFINE due == Picked(pending, DueNow(now))
           rest == Picked(pending, NotDue(now))
           N == Cardinality(DueNow(now))
           broken == {k \in DOMAIN due : ~Buildable(due[k])}
           m == IF broken = {} THEN Len(due) ELSE Min(broken) - 1
           built == SubSeq(due, 1, m)
           w == IF broken # {} /\ due[Min(broken)].action.payload.kind = "send" THEN 1 ELSE 0
<1>1. /\ Those(pending, LAMBDA p : p.due <= now) = due
      /\ Those(pending, LAMBDA p : p.due > now) = rest
  BY DueArePicked DEF DueNow, NotDue
<1>2. N \in Nat /\ DOMAIN due = 1 .. N /\ due \in Seq(Entry) /\ Len(due) = N
  BY DueFiled
<1>3. /\ messages' = messages \o [k \in DOMAIN built |->
           Record(nextMessageID + k - 1, "OUT", built[k].rule, {})]
      /\ nextMessageID' = nextMessageID + Len(built) + w
      /\ pending' = IF broken = {} THEN rest ELSE pending
      /\ emitted' = emitted \o [k \in DOMAIN built |-> built[k].ticket]
      /\ UNCHANGED <<clock, tickets, dropped>>
  BY <1>1 DEF RunScheduled
<1>4. w \in {0, 1}
  OBVIOUS
<1> HIDE DEF due, rest, N, w
<1>5. m \in 0 .. N
  <2>1. CASE broken = {}
    BY <1>2, <2>1
  <2>2. CASE broken # {}
    <3>1. broken \in SUBSET Nat /\ broken \subseteq 1 .. N
      BY <1>2
    <3> HIDE DEF broken
    <3>2. Min(broken) \in 1 .. N
      BY <2>2, <3>1, MinIsLeast
    <3> QED
      BY <1>2, <2>2, <3>2
  <2> QED
    BY <2>1, <2>2
<1>6. broken = {} => m = N
  BY <1>2
<1>7. broken # {} => \E k \in 1 .. N : ~Buildable(due[k])
  BY <1>2
<1> HIDE DEF broken, m
<1>8. DOMAIN built = 1 .. m /\ Len(built) = m /\ \A k \in 1 .. m : built[k] = due[k]
  <2>1. 1 \in 1 .. Len(due) + 1 /\ m \in 1 - 1 .. Len(due)
    BY <1>2, <1>5
  <2>2. /\ built \in Seq(Entry) /\ Len(built) = m
        /\ \A k \in 1 .. m : built[k] = due[k]
    BY <1>2, <1>5, <2>1, SubSeqProperties
  <2> QED
    BY <2>2, LenProperties
<1> HIDE DEF built
<1>9. [k \in DOMAIN built |-> Record(nextMessageID + k - 1, "OUT", built[k].rule, {})]
        = [k \in 1 .. m |-> Record(nextMessageID + k - 1, "OUT", due[k].rule, {})]
  BY <1>8
<1>10. [k \in DOMAIN built |-> built[k].ticket] = [k \in 1 .. m |-> due[k].ticket]
  BY <1>8
<1>11. Logs(due, m) /\ Emits(due, m)
  BY <1>3, <1>4, <1>8, <1>9, <1>10 DEF Logs, Emits
<1>12. \/ m = N /\ pending' = rest
       \/ pending' = pending /\ \E k \in 1 .. N : ~Buildable(due[k])
  BY <1>3, <1>6, <1>7
<1> QED
  BY <1>3, <1>5, <1>11, <1>12 DEF due, N, rest

LEMMA LogsKeepsLog ==
  ASSUME LogInv, NEW due, NEW m \in Nat, Logs(due, m)
  PROVE  LogInv'
<1> DEFINE t == [k \in 1 .. m |-> Record(nextMessageID + k - 1, "OUT", due[k].rule, {})]
<1>1. PICK w \in {0, 1} : messages' = messages \o t /\ nextMessageID' = nextMessageID + m + w
  BY DEF Logs
<1>2. \A k \in 1 .. m : t[k].id = nextMessageID + k - 1
  BY DEF Record
<1>3. t = [k \in 1 .. m |-> t[k]] /\ DOMAIN t = 1 .. m
  OBVIOUS
<1> HIDE DEF t
<1>4. IsSequence(t) /\ Len(t) = m
  BY <1>3, SequenceIntro
<1>5. nextMessageID \in Generated /\ Issued(messages, nextMessageID)
  BY DEF LogInv
<1>6. nextMessageID + m + w \in Nat /\ nextMessageID + Len(t) <= nextMessageID + m + w
  BY <1>4, <1>5 DEF Generated
<1>7. nextMessageID + m + w \in Generated /\ Issued(messages \o t, nextMessageID + m + w)
  BY <1>2, <1>3, <1>4, <1>5, <1>6, ConcatIssued
<1> QED
  BY <1>1, <1>7 DEF LogInv

\* The tickets that a tick adds to the history.
LEMMA EmitsTickets ==
  ASSUME IsSequence(emitted), NEW due, NEW m \in Nat, Emits(due, m)
  PROVE  /\ IsSequence(emitted')
         /\ ToSet(emitted') = ToSet(emitted) \cup {due[k].ticket : k \in 1 .. m}
<1> DEFINE t == [k \in 1 .. m |-> due[k].ticket]
<1>1. emitted' = emitted \o t
  BY DEF Emits
<1>2. t = [k \in 1 .. m |-> t[k]] /\ DOMAIN t = 1 .. m /\ \A k \in 1 .. m : t[k] = due[k].ticket
  OBVIOUS
<1> HIDE DEF t
<1>3. IsSequence(t) /\ Len(t) = m
  BY <1>2, SequenceIntro
<1>4. Len(emitted) \in Nat /\ DOMAIN emitted = 1 .. Len(emitted)
  BY SequenceLength
<1>5. /\ IsSequence(emitted \o t)
      /\ DOMAIN (emitted \o t) = 1 .. Len(emitted) + Len(t)
      /\ \A i \in 1 .. Len(emitted) : (emitted \o t)[i] = emitted[i]
      /\ \A j \in 1 .. Len(t) : (emitted \o t)[Len(emitted) + j] = t[j]
      /\ \A k \in DOMAIN (emitted \o t) :
           \/ k \in DOMAIN emitted /\ (emitted \o t)[k] = emitted[k]
           \/ \E j \in DOMAIN t : k = Len(emitted) + j /\ (emitted \o t)[k] = t[j]
  <2>1. IsSequence(t)
    BY <1>3
  <2> QED
    BY <2>1, ConcatParts
<1> DEFINE r == emitted \o t
<1> HIDE DEF r
<1>6. /\ DOMAIN r = 1 .. Len(emitted) + m
      /\ \A i \in 1 .. Len(emitted) : r[i] = emitted[i]
      /\ \A j \in 1 .. m : r[Len(emitted) + j] = due[j].ticket
      /\ \A k \in DOMAIN r :
           \/ k \in DOMAIN emitted /\ r[k] = emitted[k]
           \/ \E j \in 1 .. m : r[k] = due[j].ticket
  BY <1>2, <1>3, <1>5 DEF r
<1>7. \A x \in ToSet(r) : x \in ToSet(emitted) \cup {due[k].ticket : k \in 1 .. m}
  BY <1>6 DEF ToSet
<1>8. ASSUME NEW i \in DOMAIN emitted PROVE emitted[i] \in ToSet(r)
  <2>1. i \in DOMAIN r /\ r[i] = emitted[i]
    BY <1>4, <1>6
  <2> QED
    BY <2>1 DEF ToSet
<1>9. ASSUME NEW j \in 1 .. m PROVE due[j].ticket \in ToSet(r)
  <2>1. Len(emitted) + j \in DOMAIN r /\ r[Len(emitted) + j] = due[j].ticket
    BY <1>4, <1>6
  <2> QED
    BY <2>1, Zenon DEF ToSet
<1>10. \A x \in ToSet(emitted) \cup {due[k].ticket : k \in 1 .. m} : x \in ToSet(r)
  BY <1>8, <1>9 DEF ToSet
<1> QED
  BY <1>1, <1>5, <1>7, <1>10 DEF r

LEMMA DueOrNot ==
  ASSUME QueueInv, NEW now \in Int
  PROVE  DOMAIN pending = DueNow(now) \cup NotDue(now)
<1>1. \A i \in DOMAIN pending : pending[i] \in Entry
  BY ElementOfSeq, LenProperties DEF QueueInv, Filed
<1>2. \A i \in DOMAIN pending : pending[i].due \in Int
  BY <1>1 DEF Entry
<1> QED
  BY <1>2 DEF DueNow, NotDue

LEMMA TickKeepsQueue ==
  ASSUME QueueInv, NEW now \in Int, RunScheduled(now)
  PROVE  QueueInv'
<1> DEFINE due == Picked(pending, DueNow(now))
           rest == Picked(pending, NotDue(now))
           N == Cardinality(DueNow(now))
<1>1. UNCHANGED <<clock, tickets, dropped>>
  BY TickShape
<1>2. PICK m \in 0 .. N :
        /\ Logs(due, m) /\ Emits(due, m)
        /\ \/ m = N /\ pending' = rest
           \/ pending' = pending /\ \E k \in 1 .. N : ~Buildable(due[k])
  BY TickShape
<1>3. /\ N \in Nat /\ DOMAIN due = 1 .. N
      /\ TicketsOf(due) = {pending[i].ticket : i \in DueNow(now)}
      /\ Filed(rest, tickets) /\ InOrder(rest)
      /\ TicketsOf(rest) = {pending[i].ticket : i \in NotDue(now)}
  BY DueFiled
<1> HIDE DEF due, rest, N
<1>4. m \in Nat /\ m <= N
  BY <1>2, <1>3
<1>5. IsSequence(emitted') /\ ToSet(emitted') = ToSet(emitted) \cup {due[k].ticket : k \in 1 .. m}
  BY <1>2, <1>4, EmitsTickets DEF QueueInv
<1>6. TicketsOf(pending) = TicketsOf(due) \cup TicketsOf(rest)
  BY <1>3, DueOrNot DEF TicketsOf
<1>7. {due[k].ticket : k \in 1 .. m} \subseteq TicketsOf(due)
  BY <1>3, <1>4 DEF TicketsOf
<1>8. DOMAIN tickets = TicketsOf(pending) \cup ToSet(emitted) \cup dropped
  BY Queued DEF QueueInv, NoneLost
<1>9. PendingTickets' = TicketsOf(pending')
  BY DEF PendingTickets, TicketsOf
<1>10. CASE m = N /\ pending' = rest
  <2>1. {due[k].ticket : k \in 1 .. m} = TicketsOf(due)
    BY <1>3, <1>10 DEF TicketsOf
  <2>2. NoneLost'
    BY <1>1, <1>5, <1>6, <1>8, <1>9, <1>10, <2>1 DEF NoneLost
  <2>3. (dropped \cap TicketsOf(pending) = {})'
    BY <1>1, <1>6, <1>10 DEF QueueInv
  <2>4. (Filed(pending, tickets) /\ InOrder(pending))'
    BY <1>1, <1>3, <1>10
  <2> QED
    BY <1>1, <1>5, <2>2, <2>3, <2>4 DEF QueueInv
<1>11. CASE pending' = pending
  <2>1. NoneLost'
    BY <1>1, <1>5, <1>6, <1>7, <1>8, <1>9, <1>11 DEF NoneLost
  <2>2. (dropped \cap TicketsOf(pending) = {})'
    BY <1>1, <1>11 DEF QueueInv
  <2>3. (Filed(pending, tickets) /\ InOrder(pending))'
    BY <1>1, <1>11 DEF QueueInv
  <2> QED
    BY <1>1, <1>5, <2>1, <2>2, <2>3 DEF QueueInv
<1> QED
  BY <1>2, <1>10, <1>11

(***************************************************************************)
(* The invariant of the store.                                             *)
(***************************************************************************)
StoreInv == ShapeInv /\ LogInv /\ QueueInv

LEMMA FreshLog ==
  ASSUME NEW s, IsSequence(s), NEW b \in Nat, Issued(s, b)
  PROVE  NextIdentifier(MessageIds(s)) \in Generated /\ Issued(s, NextIdentifier(MessageIds(s)))
  BY NextIdentifierIssued DEF MessageIds, RuleIds

LEMMA SeedLog ==
  /\ NextIdentifier(MessageIds(SeedMessages)) \in Generated
  /\ Issued(SeedMessages, NextIdentifier(MessageIds(SeedMessages)))
<1>1. /\ Len(SeedMessages) \in Nat /\ DOMAIN SeedMessages = 1 .. Len(SeedMessages)
      /\ IsFiniteSet(DOMAIN SeedMessages)
  <2>1. IsSequence(SeedMessages)
    BY RuntimeAssumption DEF RuntimeAssumption
  <2>2. Len(SeedMessages) \in Nat /\ DOMAIN SeedMessages = 1 .. Len(SeedMessages)
    BY <2>1, SequenceLength
  <2>3. \A n \in Nat : IsFiniteSet(1 .. n)
    BY FS_Interval
  <2> QED
    BY <2>2, <2>3
<1>2. IsFiniteSet(MessageIds(SeedMessages))
  <2> DEFINE D == DOMAIN SeedMessages
             f == [k \in D |-> SeedMessages[k].id]
  <2>1. DOMAIN f = D /\ IsFiniteSet(D)
    BY <1>1
  <2>2. {f[k] : k \in D} = MessageIds(SeedMessages)
    BY DEF MessageIds
  <2> HIDE DEF f, D
  <2>3. IsFiniteSet({f[k] : k \in D})
    BY <2>1, FiniteRange
  <2> QED
    BY <2>2, <2>3
<1>3. MessageIds(SeedMessages) \in SUBSET Int
  BY RuntimeAssumption DEF MessageIds, Generated
<1>4. /\ NextIdentifier(MessageIds(SeedMessages)) \in Generated
      /\ \A i \in MessageIds(SeedMessages) : i < NextIdentifier(MessageIds(SeedMessages))
  BY <1>2, <1>3, NextIdentifierOfFinite
<1> QED
  BY <1>4, RuntimeAssumption DEF Issued, IdsDistinct, IdsBelow, MessageIds

LEMMA EmptyLog ==
  NextIdentifier({}) \in Generated /\ Issued(<<>>, NextIdentifier({}))
<1>1. NextIdentifier({}) \in Generated
  BY FS_EmptySet, NextIdentifierOfFinite
<1>2. IsSequence(<<>>) /\ DOMAIN <<>> = {}
  BY DEF IsSequence, ToSet
<1> QED
  BY <1>1, <1>2 DEF Issued, IdsDistinct, IdsBelow

LEMMA InitStore == StoreInit => StoreInv
<1> SUFFICES ASSUME StoreInit PROVE StoreInv
  OBVIOUS
<1>1. ShapeInv
  BY InitIds, InitTyped DEF StoreInit, ShapeInv
<1>2. LogInv
  BY SeedLog DEF StoreInit, RuntimeInit, LogInv
<1>3. /\ pending = <<>> /\ clock = 0 /\ tickets = <<>> /\ emitted = <<>> /\ dropped = {}
  BY DEF StoreInit, RuntimeInit
<1>4. IsSequence(tickets) /\ IsSequence(emitted)
  BY <1>3, EmptyLog DEF Issued
<1>5. Filed(pending, tickets) /\ InOrder(pending) /\ TicketsOf(pending) = {}
  BY <1>3, EmptyQueue
<1>6. NoneLost
  BY <1>3 DEF NoneLost, PendingTickets, ToSet
<1> QED
  BY <1>1, <1>2, <1>3, <1>4, <1>5, <1>6 DEF StoreInv, QueueInv

LEMMA StoreKept == StoreInv /\ [StoreNext]_vars => StoreInv'
<1> SUFFICES ASSUME StoreInv, [StoreNext]_vars PROVE StoreInv'
  OBVIOUS
<1>0. ShapeInv /\ LogInv /\ QueueInv
  BY DEF StoreInv
<1>1. ShapeInv'
  BY <1>0, StepOfHalf, ShapeKept
<1> SUFFICES LogInv' /\ QueueInv'
  BY <1>1 DEF StoreInv
<1>2. clock \in Nat
  BY <1>0 DEF QueueInv
<1>3. ASSUME NEW m \in Inbound, NEW at \in 0 .. clock, ProcessInbound(m, at)
      PROVE  LogInv' /\ QueueInv'
  <2>1. at \in Int /\ UNCHANGED <<clock, emitted, dropped>>
    BY <1>2, <1>3 DEF ProcessInbound
  <2>2. CASE ProcessUnmatched(m)
    <3>1. Append1(Record(nextMessageID, "IN", NoRule, Evaluations(m)))
          /\ UNCHANGED <<pending, tickets>>
      BY <2>2 DEF ProcessUnmatched
    <3>2. LogInv'
      BY <1>0, <3>1, OneMore
    <3>3. UNCHANGED queueVars
      BY <2>1, <3>1 DEF queueVars
    <3> QED
      BY <1>0, <3>2, <3>3, SameQueue
  <2>3. CASE ProcessMatched(m, at)
    BY <1>0, <2>1, <2>3, MatchedKeepsInv
  <2> QED
    BY <1>3, <2>2, <2>3 DEF ProcessInbound
<1>4. ASSUME NEW direction \in {"IN", "OUT"}, AppendProtocolMessage(direction)
      PROVE  LogInv' /\ QueueInv'
  <2>1. Append1(Record(nextMessageID, direction, NoRule, {})) /\ UNCHANGED queueVars
    BY <1>4 DEF AppendProtocolMessage, queueVars
  <2>2. LogInv'
    BY <1>0, <2>1, OneMore
  <2> QED
    BY <1>0, <2>1, <2>2, SameQueue
<1>5. ASSUME NEW now \in 0 .. clock, RunScheduled(now)
      PROVE  LogInv' /\ QueueInv'
  <2>1. now \in Int
    BY <1>2
  <2>2. QueueInv'
    BY <1>0, <1>5, <2>1, TickKeepsQueue
  <2>3. Cardinality(DueNow(now)) \in Nat
    BY <1>0, <2>1, DueFiled
  <2>4. PICK m \in 0 .. Cardinality(DueNow(now)) : Logs(Picked(pending, DueNow(now)), m)
    BY <1>0, <1>5, <2>1, TickShape
  <2>5. m \in Nat
    BY <2>3
  <2> QED
    BY <1>0, <2>2, <2>4, <2>5, LogsKeepsLog
<1>6. CASE Tick
  <2>1. UNCHANGED <<messages, nextMessageID, pending, tickets, emitted, dropped>>
        /\ clock' = clock + 1
    BY <1>6 DEF Tick, logVars, historyVars
  <2>2. LogInv'
    BY <1>0, <2>1, SameLog
  <2>3. QueueInv'
    BY <1>0, <2>1 DEF QueueInv, NoneLost, PendingTickets
  <2> QED
    BY <2>2, <2>3
<1>7. CASE StopRuntime
  <2>1. Discard /\ UNCHANGED <<messages, nextMessageID, clock, tickets, emitted>>
    BY <1>7 DEF StopRuntime
  <2> QED
    BY <1>0, <2>1, DiscardKeepsQueue, SameLog
<1>8. CASE Toggle
  <2>1. UNCHANGED <<messages, nextMessageID, clock, tickets, emitted>>
        /\ (Discard \/ UNCHANGED <<pending, dropped>>)
    BY <1>8 DEF Toggle
  <2> QED
    BY <1>0, <2>1, DiscardKeepsQueue, SameLog, SameQueue DEF queueVars
<1>9. CASE ReloadConfig
  <2>1. Discard /\ UNCHANGED <<messages, clock, tickets, emitted>>
        /\ nextMessageID' = NextIdentifier(MessageIds(messages))
    BY <1>9 DEF ReloadConfig
  <2>2. nextMessageID \in Nat /\ Issued(messages, nextMessageID) /\ IsSequence(messages)
    BY <1>0 DEF LogInv, Generated, Issued
  <2>3. /\ NextIdentifier(MessageIds(messages)) \in Generated
        /\ Issued(messages, NextIdentifier(MessageIds(messages)))
    BY <2>2, FreshLog
  <2>4. LogInv'
    BY <2>1, <2>3 DEF LogInv
  <2> QED
    BY <1>0, <2>1, <2>4, DiscardKeepsQueue
<1>10. CASE ClearMessages
  <2>1. /\ messages' = <<>> /\ nextMessageID' = NextIdentifier({})
        /\ UNCHANGED queueVars
    BY <1>10 DEF ClearMessages, queueVars
  <2>2. LogInv'
    BY <2>1, EmptyLog DEF LogInv
  <2> QED
    BY <1>0, <2>1, <2>2, SameQueue
<1>11. CASE RestartProcess
  <2>1. Discard /\ UNCHANGED <<clock, tickets, emitted>>
        /\ messages' = SeedMessages
        /\ nextMessageID' = NextIdentifier(MessageIds(SeedMessages))
    BY <1>11 DEF RestartProcess
  <2>2. LogInv'
    BY <2>1, SeedLog DEF LogInv
  <2> QED
    BY <1>0, <2>1, <2>2, DiscardKeepsQueue
<1>12. CASE UNCHANGED runtimeVars
  <2>1. UNCHANGED queueVars /\ UNCHANGED <<messages, nextMessageID>>
    BY <1>12 DEF runtimeVars, queueVars
  <2> QED
    BY <1>0, <2>1, SameQueue, SameLog
<1>13. CASE SetRunning \/ EditConfig \/ NoteRuntime \/ UNCHANGED vars
  BY <1>12, <1>13 DEF SetRunning, EditConfig, NoteRuntime, vars
<1> QED
  BY <1>3, <1>4, <1>5, <1>6, <1>7, <1>8, <1>9, <1>10, <1>11, <1>13 DEF StoreNext

\* Whatever is logged, cleared, reloaded or restarted, in whatever order, no two
\* records of the log share an identifier.
THEOREM MessageIdsAlwaysDistinct == StoreSpec => []MessageIdsDistinct
<1>1. StoreInv => MessageIdsDistinct
  BY DEF StoreInv, LogInv, Issued, IdsDistinct, MessageIdsDistinct
<1> QED
  BY <1>1, InitStore, StoreKept, PTL DEF StoreSpec

\* No scheduled action vanishes: also when a tick fails in the middle of the queue.
THEOREM NoneEverLost == StoreSpec => []NoneLost
<1>1. StoreInv => NoneLost
  BY DEF StoreInv, QueueInv
<1> QED
  BY <1>1, InitStore, StoreKept, PTL DEF StoreSpec

(***************************************************************************)
(* The order in which a tick logs.                                         *)
(***************************************************************************)
InOrderStep ==
  LET new == SubSeq(emitted', Len(emitted) + 1, Len(emitted'))
  IN  \A k \in DOMAIN new :
        /\ \A j \in 1 .. k : Due(new[j]) <= Due(new[k])
        /\ \A p \in ToSet(pending') : p.ticket \in ToSet(new) \/ Due(new[k]) <= p.due

LEMMA NothingNew ==
  ASSUME IsSequence(emitted), UNCHANGED emitted
  PROVE  InOrderStep
<1> DEFINE new == SubSeq(emitted', Len(emitted) + 1, Len(emitted'))
<1>1. Len(emitted) \in Nat /\ emitted \in Seq(ToSet(emitted))
  BY SequenceLength DEF IsSequence
<1>2. DOMAIN new = {}
  <2>1. new = SubSeq(emitted, Len(emitted) + 1, Len(emitted))
    OBVIOUS
  <2>2. Len(new) = 0 /\ new \in Seq(ToSet(emitted))
    BY <1>1, <2>1, SubSeqProperties
  <2> QED
    BY <2>2, LenProperties
<1> HIDE DEF new
<1> QED
  BY <1>2 DEF InOrderStep, new

LEMMA TickInOrder ==
  ASSUME QueueInv, NEW now \in Int, RunScheduled(now)
  PROVE  InOrderStep
<1> DEFINE due == Picked(pending, DueNow(now))
           rest == Picked(pending, NotDue(now))
           N == Cardinality(DueNow(now))
           new == SubSeq(emitted', Len(emitted) + 1, Len(emitted'))
<1>1. PICK m \in 0 .. N :
        /\ Logs(due, m) /\ Emits(due, m)
        /\ \/ m = N /\ pending' = rest
           \/ pending' = pending /\ \E k \in 1 .. N : ~Buildable(due[k])
  BY TickShape
<1>2. /\ N \in Nat /\ DOMAIN due = 1 .. N
      /\ Filed(due, tickets) /\ InOrder(due)
      /\ \A k \in 1 .. N : \E i \in DueNow(now) : due[k] = pending[i]
      /\ \A i \in DueNow(now) : \E k \in 1 .. N : due[k] = pending[i]
      /\ \A k \in DOMAIN rest : \E i \in NotDue(now) : rest[k] = pending[i]
  BY DueFiled
<1> HIDE DEF due, rest, N
<1>3. m \in Nat /\ m <= N
  BY <1>1, <1>2
<1>4. DOMAIN new = 1 .. m /\ \A k \in 1 .. m : new[k] = due[k].ticket
  <2> DEFINE t == [k \in 1 .. m |-> due[k].ticket]
             S == ToSet(emitted')
  <2>1. emitted' = emitted \o t
    BY <1>1 DEF Emits
  <2>2. t = [k \in 1 .. m |-> t[k]] /\ \A k \in 1 .. m : t[k] = due[k].ticket
    OBVIOUS
  <2> HIDE DEF t
  <2>3. IsSequence(t) /\ Len(t) = m
    BY <1>3, <2>2, SequenceIntro
  <2>4. IsSequence(t) /\ IsSequence(emitted)
    BY <2>3 DEF QueueInv
  <2>5. /\ IsSequence(emitted \o t) /\ Len(emitted \o t) = Len(emitted) + Len(t)
        /\ \A j \in 1 .. Len(t) : (emitted \o t)[Len(emitted) + j] = t[j]
    BY <2>4, ConcatParts
  <2>6. /\ IsSequence(emitted') /\ Len(emitted') = Len(emitted) + m
        /\ \A j \in 1 .. m : (emitted')[Len(emitted) + j] = due[j].ticket
    BY <2>1, <2>2, <2>3, <2>5
  <2>7. Len(emitted) \in Nat /\ emitted' \in Seq(S)
    BY <2>4, <2>6, SequenceLength DEF IsSequence
  <2> HIDE DEF S
  <2>8. /\ new \in Seq(S) /\ Len(new) = m
        /\ \A k \in 1 .. m : new[k] = (emitted')[Len(emitted) + 1 + k - 1]
    BY <1>3, <2>6, <2>7, SubSeqProperties
  <2> HIDE DEF new
  <2>9. DOMAIN new = 1 .. m
    BY <2>8, LenProperties
  <2>10. \A k \in 1 .. m : Len(emitted) + 1 + k - 1 = Len(emitted) + k
    BY <2>7
  <2> QED
    BY <2>6, <2>8, <2>9, <2>10
<1> HIDE DEF new
<1>5. \A k \in 1 .. m : k \in 1 .. N /\ Due(new[k]) = due[k].due
  <2> SUFFICES ASSUME NEW k \in 1 .. m
               PROVE  k \in 1 .. N /\ Due(new[k]) = due[k].due
    OBVIOUS
  <2>1. k \in 1 .. N /\ k \in DOMAIN due
    BY <1>2, <1>3
  <2>2. due[k].due = tickets[due[k].ticket].due
    BY <1>2, <2>1 DEF Filed
  <2> QED
    BY <1>4, <2>1, <2>2 DEF Due
<1>6. \A k \in 1 .. m : \A j \in 1 .. k : j \in 1 .. m /\ due[j].due <= due[k].due
  BY <1>2, <1>3 DEF InOrder
<1>7. ASSUME NEW i \in DOMAIN pending, NEW k \in 1 .. m, pending[i].ticket \notin ToSet(new)
      PROVE  due[k].due <= pending[i].due
  <2>1. CASE i \in DueNow(now)
    <3>1. PICK l \in 1 .. N : due[l] = pending[i]
      BY <1>2, <2>1
    <3>2. l \notin 1 .. m
      BY <1>4, <1>7, <3>1 DEF ToSet
    <3>3. k \in DOMAIN due /\ l \in DOMAIN due /\ k <= l
      BY <1>2, <1>3, <3>2
    <3> QED
      BY <1>2, <3>1, <3>3 DEF InOrder
  <2>2. CASE i \in NotDue(now)
    <3>1. PICK h \in DueNow(now) : due[k] = pending[h]
      BY <1>2, <1>5
    <3>2. pending[i] \in Entry /\ pending[h] \in Entry
      BY <3>1, ElementOfSeq, LenProperties DEF QueueInv, Filed, DueNow
    <3>3. pending[h].due <= now /\ pending[i].due > now
      BY <2>2 DEF DueNow, NotDue
    <3> QED
      BY <3>1, <3>2, <3>3 DEF Entry
  <2> QED
    BY <2>1, <2>2, DueOrNot
<1>8. \A p \in ToSet(pending') : \E i \in DOMAIN pending : p = pending[i]
  <2>1. CASE pending' = rest
    BY <1>2, <2>1 DEF ToSet, NotDue
  <2>2. CASE pending' = pending
    BY <2>2 DEF ToSet
  <2> QED
    BY <1>1, <2>1, <2>2
<1> SUFFICES ASSUME NEW k \in DOMAIN new
             PROVE  /\ \A j \in 1 .. k : Due(new[j]) <= Due(new[k])
                    /\ \A p \in ToSet(pending') :
                         p.ticket \in ToSet(new) \/ Due(new[k]) <= p.due
  BY DEF InOrderStep, new
<1>9. k \in 1 .. m
  BY <1>4
<1>10. \A j \in 1 .. k : Due(new[j]) <= Due(new[k])
  BY <1>5, <1>6, <1>9
<1>11. ASSUME NEW p \in ToSet(pending'), p.ticket \notin ToSet(new)
       PROVE  Due(new[k]) <= p.due
  <2>1. PICK i \in DOMAIN pending : p = pending[i]
    BY <1>8
  <2>2. due[k].due <= pending[i].due
    BY <1>7, <1>9, <1>11, <2>1
  <2> QED
    BY <1>5, <1>9, <2>1, <2>2
<1> QED
  BY <1>10, <1>11

LEMMA OnlyTicksEmit ==
  ASSUME [StoreNext]_vars, \A now \in 0 .. clock : ~RunScheduled(now)
  PROVE  UNCHANGED emitted
<1>1. CASE UNCHANGED vars
  BY <1>1 DEF vars, runtimeVars
<1>2. CASE StoreNext
  BY <1>2 DEF StoreNext, ProcessInbound, AppendProtocolMessage, Tick, historyVars, StopRuntime,
     SetRunning, Toggle, ReloadConfig, ClearMessages, RestartProcess, EditConfig, NoteRuntime,
     runtimeVars
<1> QED
  BY <1>1, <1>2

\* A tick logs in the order of the due times and passes over nothing that is due
\* earlier, also when an action cannot be built.
THEOREM AlwaysEmittedInOrder == StoreSpec => EmittedInOrder
<1>1. StoreInv /\ [StoreNext]_vars => [InOrderStep]_vars
  <2> SUFFICES ASSUME StoreInv, [StoreNext]_vars PROVE InOrderStep
    OBVIOUS
  <2>1. QueueInv /\ clock \in Nat /\ IsSequence(emitted)
    BY DEF StoreInv, QueueInv
  <2>2. CASE \A now \in 0 .. clock : ~RunScheduled(now)
    BY <2>1, <2>2, OnlyTicksEmit, NothingNew
  <2>3. ASSUME NEW now \in 0 .. clock, RunScheduled(now) PROVE InOrderStep
    BY <2>1, <2>3, TickInOrder
  <2> QED
    BY <2>2, <2>3
<1> QED
  BY <1>1, InitStore, StoreKept, PTL DEF StoreSpec, EmittedInOrder, InOrderStep

(***************************************************************************)
(* Logged once.  A tick that fails logs the same actions again, so this    *)
(* holds as long as every waiting action can be built.                     *)
(***************************************************************************)
AllBuildable == \A k \in DOMAIN pending : Buildable(pending[k])

OnceInv ==
  /\ EmittedOnce
  /\ ToSet(emitted) \cap TicketsOf(pending) = {}
  /\ dropped \cap ToSet(emitted) = {}

LEMMA DiscardKeepsOnce ==
  ASSUME QueueInv, OnceInv, Discard, UNCHANGED emitted
  PROVE  OnceInv'
<1>1. TicketsOf(pending') = {} /\ dropped' = dropped \cup TicketsOf(pending)
  BY EmptyQueue, Queued DEF Discard
<1> QED
  BY <1>1 DEF OnceInv, EmittedOnce

LEMMA SameOnce ==
  ASSUME OnceInv, UNCHANGED <<pending, emitted, dropped>>
  PROVE  OnceInv'
  BY DEF OnceInv, EmittedOnce, TicketsOf

LEMMA TickKeepsOnce ==
  ASSUME QueueInv, OnceInv, AllBuildable, NEW now \in Int, RunScheduled(now)
  PROVE  OnceInv'
<1> DEFINE due == Picked(pending, DueNow(now))
           rest == Picked(pending, NotDue(now))
           N == Cardinality(DueNow(now))
<1>1. UNCHANGED <<clock, tickets, dropped>>
  BY TickShape
<1>2. PICK m \in 0 .. N :
        /\ Logs(due, m) /\ Emits(due, m)
        /\ \/ m = N /\ pending' = rest
           \/ pending' = pending /\ \E k \in 1 .. N : ~Buildable(due[k])
  BY TickShape
<1>3. /\ N \in Nat /\ DOMAIN due = 1 .. N
      /\ \A k \in 1 .. N : \E i \in DueNow(now) : due[k] = pending[i]
      /\ TicketsOf(due) = {pending[i].ticket : i \in DueNow(now)}
      /\ TicketsOf(rest) = {pending[i].ticket : i \in NotDue(now)}
      /\ Filed(due, tickets)
  BY DueFiled
<1> HIDE DEF due, rest, N
<1>4. \A k \in 1 .. N : Buildable(due[k])
  BY <1>3 DEF AllBuildable, DueNow
<1>5. m = N /\ m \in Nat /\ pending' = rest
  BY <1>2, <1>3, <1>4
<1>6. /\ IsSequence(emitted) /\ IsSequence(emitted')
      /\ ToSet(emitted') = ToSet(emitted) \cup {due[k].ticket : k \in 1 .. m}
  <2>1. IsSequence(emitted) /\ Emits(due, m) /\ m \in Nat
    BY <1>2, <1>5 DEF QueueInv
  <2> QED
    BY <2>1, EmitsTickets
<1>7. {due[k].ticket : k \in 1 .. m} = TicketsOf(due)
  BY <1>3, <1>5 DEF TicketsOf
<1>8. TicketsOf(due) \subseteq TicketsOf(pending) /\ TicketsOf(rest) \subseteq TicketsOf(pending)
  BY <1>3 DEF TicketsOf, DueNow, NotDue
<1>9. TicketsOf(due) \cap TicketsOf(rest) = {}
  <2>1. ASSUME NEW i \in DueNow(now), NEW j \in NotDue(now)
        PROVE  pending[i].ticket # pending[j].ticket
    <3>1. i \in DOMAIN pending /\ j \in DOMAIN pending /\ pending[i] \in Entry /\ pending[j] \in Entry
      BY ElementOfSeq, LenProperties DEF QueueInv, Filed, DueNow, NotDue
    <3>2. pending[i].due <= now /\ pending[j].due > now
      BY DEF DueNow, NotDue
    <3>3. i # j
      BY <3>1, <3>2 DEF Entry
    <3> QED
      BY <3>1, <3>3 DEF QueueInv, Filed
  <2> QED
    BY <1>3, <2>1
<1>10. EmittedOnce'
  <2> DEFINE t == [k \in 1 .. m |-> due[k].ticket]
             r == emitted \o t
  <2>1. emitted' = r
    BY <1>2 DEF Emits
  <2>2. t = [k \in 1 .. m |-> t[k]] /\ DOMAIN t = 1 .. m /\ \A k \in 1 .. m : t[k] = due[k].ticket
    OBVIOUS
  <2> HIDE DEF t
  <2>3. IsSequence(t)
    BY <1>5, <2>2, SequenceIntro
  <2>4. IsSequence(t) /\ IsSequence(emitted)
    BY <1>6, <2>3
  <2>5. \A k \in DOMAIN r : \/ k \in DOMAIN emitted /\ r[k] = emitted[k]
                            \/ \E j \in DOMAIN t : k = Len(emitted) + j /\ r[k] = t[j]
    BY <2>4, ConcatParts
  <2> HIDE DEF r
  <2>6. \A k \in DOMAIN t : t[k] \notin ToSet(emitted)
    <3>1. \A k \in DOMAIN t : t[k] \in TicketsOf(due)
      BY <1>7, <2>2
    <3> QED
      BY <1>8, <3>1 DEF OnceInv
  <2>7. \A k, l \in DOMAIN t : k # l => t[k] # t[l]
    BY <1>3, <1>5, <2>2 DEF Filed
  <2>8. \A k, l \in DOMAIN emitted : k # l => emitted[k] # emitted[l]
    BY DEF OnceInv, EmittedOnce
  <2>9. \A k \in DOMAIN emitted : emitted[k] \in ToSet(emitted)
    BY DEF ToSet
  <2>10. ASSUME NEW j \in DOMAIN r, NEW k \in DOMAIN r, j # k PROVE r[j] # r[k]
    <3>1. CASE j \in DOMAIN emitted /\ r[j] = emitted[j] /\ k \in DOMAIN emitted /\ r[k] = emitted[k]
      BY <2>8, <2>10, <3>1
    <3>2. ASSUME NEW l \in DOMAIN t, r[k] = t[l], j \in DOMAIN emitted, r[j] = emitted[j]
          PROVE  r[j] # r[k]
      BY <2>6, <2>9, <3>2
    <3>3. ASSUME NEW l \in DOMAIN t, r[j] = t[l], k \in DOMAIN emitted, r[k] = emitted[k]
          PROVE  r[j] # r[k]
      BY <2>6, <2>9, <3>3
    <3>4. ASSUME NEW h \in DOMAIN t, j = Len(emitted) + h, r[j] = t[h],
                 NEW l \in DOMAIN t, k = Len(emitted) + l, r[k] = t[l]
          PROVE  r[j] # r[k]
      <4>1. h # l
        BY <2>10, <3>4
      <4> QED
        BY <2>7, <3>4, <4>1
    <3> QED
      BY <2>5, <3>1, <3>2, <3>3, <3>4
  <2> QED
    BY <2>1, <2>10 DEF EmittedOnce
<1>11. ToSet(emitted') \cap TicketsOf(pending') = {}
  BY <1>5, <1>6, <1>7, <1>8, <1>9 DEF OnceInv
<1>12. dropped' \cap ToSet(emitted') = {}
  BY <1>1, <1>6, <1>7, <1>8 DEF OnceInv, QueueInv
<1> QED
  BY <1>10, <1>11, <1>12 DEF OnceInv, TicketsOf

LEMMA OnceKept == StoreInv /\ OnceInv /\ AllBuildable /\ [StoreNext]_vars => OnceInv'
<1> SUFFICES ASSUME StoreInv, OnceInv, AllBuildable, [StoreNext]_vars PROVE OnceInv'
  OBVIOUS
<1>1. ShapeInv /\ LogInv /\ QueueInv /\ clock \in Nat
  BY DEF StoreInv, QueueInv
<1>2. ASSUME NEW m \in Inbound, NEW at \in 0 .. clock, ProcessInbound(m, at)
      PROVE  OnceInv'
  <2>1. at \in Int /\ UNCHANGED <<clock, emitted, dropped>>
    BY <1>1, <1>2 DEF ProcessInbound
  <2>2. CASE ProcessUnmatched(m)
    BY <2>1, <2>2, SameOnce DEF ProcessUnmatched
  <2>3. CASE ProcessMatched(m, at)
    <3>1. TicketsOf(pending') \cap DOMAIN tickets \subseteq TicketsOf(pending)
      BY <1>1, <2>1, <2>3, MatchedKeepsInv
    <3>2. ToSet(emitted) \subseteq DOMAIN tickets
      BY <1>1 DEF QueueInv, NoneLost
    <3>3. ToSet(emitted) \cap TicketsOf(pending') = {}
      BY <3>1, <3>2 DEF OnceInv
    <3> QED
      BY <2>1, <3>3 DEF OnceInv, EmittedOnce
  <2> QED
    BY <1>2, <2>2, <2>3 DEF ProcessInbound
<1>3. ASSUME NEW direction \in {"IN", "OUT"}, AppendProtocolMessage(direction)
      PROVE  OnceInv'
  BY <1>3, SameOnce DEF AppendProtocolMessage
<1>4. ASSUME NEW now \in 0 .. clock, RunScheduled(now)
      PROVE  OnceInv'
  <2>1. now \in Int
    BY <1>1
  <2> QED
    BY <1>1, <1>4, <2>1, TickKeepsOnce
<1>5. CASE Tick
  BY <1>5, SameOnce DEF Tick, logVars, historyVars
<1>6. CASE StopRuntime \/ ReloadConfig \/ RestartProcess
  <2>1. Discard /\ UNCHANGED emitted
    BY <1>6 DEF StopRuntime, ReloadConfig, RestartProcess
  <2> QED
    BY <1>1, <2>1, DiscardKeepsOnce
<1>7. CASE Toggle
  <2>1. UNCHANGED emitted /\ (Discard \/ UNCHANGED <<pending, dropped>>)
    BY <1>7 DEF Toggle
  <2> QED
    BY <1>1, <2>1, DiscardKeepsOnce, SameOnce
<1>8. CASE ClearMessages
  BY <1>8, SameOnce DEF ClearMessages
<1>9. CASE SetRunning \/ EditConfig \/ NoteRuntime \/ UNCHANGED vars
  <2>1. UNCHANGED <<pending, emitted, dropped>>
    BY <1>9 DEF SetRunning, EditConfig, NoteRuntime, vars, runtimeVars
  <2> QED
    BY <2>1, SameOnce
<1> QED
  BY <1>2, <1>3, <1>4, <1>5, <1>6, <1>7, <1>8, <1>9 DEF StoreNext

LEMMA OnceAlways == StoreSpec /\ []AllBuildable => [](StoreInv /\ OnceInv)
<1>1. StoreInit => OnceInv
  BY DEF StoreInit, RuntimeInit, OnceInv, EmittedOnce, ToSet
<1> QED
  BY <1>1, InitStore, StoreKept, OnceKept, PTL DEF StoreSpec

\* As long as every waiting action can be built, each is logged at most once: however
\* ticks, matches, stops, reloads and restarts alternate.
THEOREM OnceIfBuildable == StoreSpec /\ []AllBuildable => []EmittedOnce
<1>1. OnceInv => EmittedOnce
  BY DEF OnceInv
<1> QED
  BY <1>1, OnceAlways, PTL

\* As long as every waiting action can be built, what a Stop, a Reload or a crash
\* discards was never logged and never will be.
THEOREM GoneIfBuildable == StoreSpec /\ []AllBuildable => []DiscardedIsGone
<1>1. StoreInv /\ OnceInv => DiscardedIsGone
  BY Queued DEF StoreInv, QueueInv, OnceInv, DiscardedIsGone
<1> QED
  BY <1>1, OnceAlways, PTL

\* With message bodies that can all be built and no action type but those the editor
\* offers, every waiting action can be built.
THEOREM BuildableByType ==
  Kinds = {"send", "event"} /\ Bodies = {"ok"} => (StoreSpec => []AllBuildable)
<1> SUFFICES ASSUME Kinds = {"send", "event"}, Bodies = {"ok"}
             PROVE  StoreSpec => []AllBuildable
  OBVIOUS
<1>1. StoreInv => AllBuildable
  <2> SUFFICES ASSUME StoreInv, NEW k \in DOMAIN pending PROVE Buildable(pending[k])
    BY DEF AllBuildable
  <2>1. pending[k] \in Entry
    BY ElementOfSeq, LenProperties DEF StoreInv, QueueInv, Filed
  <2>2. pending[k].action.payload \in Payload
    BY <2>1 DEF Entry, Action
  <2> QED
    BY <2>2 DEF Buildable, Payload
<1> QED
  BY <1>1, InitStore, StoreKept, PTL DEF StoreSpec
=============================================================================
