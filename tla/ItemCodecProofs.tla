--------------------------- MODULE ItemCodecProofs ---------------------------
(* What is decoded of an item that was encoded, and what is parsed of one    *)
(* that was written as a text, for every item: any depth of lists, any       *)
(* numbers, texts of any length three bytes can announce.                    *)
EXTENDS SmlText, HsmsFrameProofs, WellFoundedInduction

-----------------------------------------------------------------------------
(* Induction, as a fact about a set of naturals. *)
LEMMA Induction ==
    ASSUME NEW T \in SUBSET Nat, 0 \in T, \A n \in T : n + 1 \in T
    PROVE  \A n \in Nat : n \in T
<1> SUFFICES ASSUME Nat \ T # {} PROVE FALSE
  OBVIOUS
<1>1. PICK m \in Nat \ T : \A n \in Nat \ T : ~(<<n, m>> \in OpToRel(<, Nat))
  BY NatLessThanWellFounded, WFMin, Zenon
<1>2. m \in Nat /\ m \notin T /\ m # 0 /\ m - 1 \in Nat
  <2>1. m \in Nat /\ m \notin T
    OBVIOUS
  <2> QED
    BY <2>1
<1>3. CASE m - 1 \in T
  <2>1. (m - 1) + 1 \in T
    BY <1>3
  <2>2. (m - 1) + 1 = m
    BY <1>2
  <2> QED
    BY <1>2, <2>1, <2>2
<1>4. CASE m - 1 \notin T
  <2>1. m - 1 \in Nat \ T /\ m - 1 < m
    BY <1>2, <1>4
  <2>2. ~(<<m - 1, m>> \in OpToRel(<, Nat))
    BY <1>1, <2>1
  <2>3. m - 1 \in Nat /\ m \in Nat
    BY <1>1, <2>1
  <2> QED
    BY <2>1, <2>2, <2>3, Zenon DEF OpToRel
<1> QED
  BY <1>3, <1>4

-----------------------------------------------------------------------------
(* The recursive functions are what they say. *)
ItemsUpTo(f, n) ==
    f = [d \in 0 .. n |-> IF d = 0 THEN Scalars
                          ELSE Scalars \cup [type : {"L"}, items : Short(f[d - 1])]]

LEMMA ItemsDefined ==
    /\ \A d \in 0 .. MaxDepth :
          Items[d] = IF d = 0 THEN Scalars
                     ELSE Scalars \cup [type : {"L"}, items : Short(Items[d - 1])]
<1> DEFINE T == {n \in Nat : \E f : ItemsUpTo(f, n)}
<1>1. 0 \in T
  <2> DEFINE f == [d \in 0 .. 0 |-> Scalars]
  <2>1. \A d \in 0 .. 0 : d = 0
    OBVIOUS
  <2>2. f = [d \in 0 .. 0 |-> IF d = 0 THEN Scalars
                              ELSE Scalars \cup [type : {"L"}, items : Short(f[d - 1])]]
    BY <2>1
  <2> HIDE DEF f
  <2>3. ItemsUpTo(f, 0)
    BY <2>2 DEF ItemsUpTo
  <2> QED
    BY <2>3
<1>2. ASSUME NEW n \in T PROVE n + 1 \in T
  <2>1. PICK g : ItemsUpTo(g, n)
    OBVIOUS
  <2> DEFINE f == [d \in 0 .. n + 1 |->
                     IF d = 0 THEN Scalars
                     ELSE Scalars \cup [type : {"L"}, items : Short(g[d - 1])]]
  <2>2. \A d \in 0 .. n + 1 : d # 0 => d - 1 \in 0 .. n
    BY <1>2
  <2>3. \A d \in 0 .. n : f[d] = g[d]
    <3>1. \A d \in 0 .. n : d \in 0 .. n + 1
      BY <1>2
    <3> QED
      BY <2>1, <3>1 DEF ItemsUpTo
  <2>4. f = [d \in 0 .. n + 1 |-> IF d = 0 THEN Scalars
                              ELSE Scalars \cup [type : {"L"}, items : Short(f[d - 1])]]
    BY <2>2, <2>3
  <2> HIDE DEF f
  <2>5. ItemsUpTo(f, n + 1)
    BY <2>4 DEF ItemsUpTo
  <2> QED
    BY <1>2, <2>5
<1>3. MaxDepth \in T
  <2> HIDE DEF T
  <2>1. T \in SUBSET Nat
    BY DEF T
  <2> QED
    BY <1>1, <1>2, <2>1, Induction, DepthAssumption DEF DepthAssumption
<1>4. ItemsUpTo(Items, MaxDepth)
  <2>1. PICK g : ItemsUpTo(g, MaxDepth)
    BY <1>3
  <2> QED
    BY <2>1, Zenon DEF ItemsUpTo, Items
<1> QED
  BY <1>4 DEF ItemsUpTo

LEMMA ScalarIsNoList ==
    ASSUME NEW item \in Scalars
    PROVE  ~IsList(item)
BY DEF Scalars, IsList, Numbers, Numeric, Signed, Unsigned

LEMMA GroundItems ==
    /\ Items[0] = Scalars
    /\ \A i \in Items[0] : ~IsList(i)
<1>1. 0 \in 0 .. MaxDepth
  BY DepthAssumption DEF DepthAssumption
<1>2. Items[0] = Scalars
  BY <1>1, ItemsDefined
<1> QED
  BY <1>2, ScalarIsNoList

LEMMA ListOfItems ==
    ASSUME NEW d \in 0 .. MaxDepth, NEW item \in Items[d], IsList(item)
    PROVE  /\ d # 0 /\ d - 1 \in 0 .. MaxDepth
           /\ item = List(item.items)
           /\ item.items \in Seq(Items[d - 1]) /\ Len(item.items) \in Nat /\ Len(item.items) <= MaxLength
           /\ \A k \in DOMAIN item.items : item.items[k] \in Items[d - 1]
<1>1. item \notin Scalars
  BY ScalarIsNoList
<1>2. d # 0 /\ item \in [type : {"L"}, items : Short(Items[d - 1])]
  BY <1>1, ItemsDefined
<1>3. d - 1 \in 0 .. MaxDepth
  BY <1>2, DepthAssumption DEF DepthAssumption
<1>4. item = List(item.items) /\ item.items \in Short(Items[d - 1])
  BY <1>2 DEF List
<1>5. item.items \in Seq(Items[d - 1]) /\ Len(item.items) <= MaxLength
  BY <1>4 DEF Short
<1>6. Len(item.items) \in Nat /\ \A k \in DOMAIN item.items : item.items[k] \in Items[d - 1]
  BY <1>5, LenProperties, ElementOfSeq
<1> QED
  BY <1>2, <1>3, <1>4, <1>5, <1>6

LEMMA ScalarItem ==
    ASSUME NEW d \in 0 .. MaxDepth, NEW item \in Items[d], ~IsList(item)
    PROVE  item \in Scalars
<1>1. item \notin [type : {"L"}, items : Short(Items[d - 1])]
  BY DEF IsList
<1> QED
  BY <1>1, ItemsDefined

(* A function over the depth of items: of a list, what stands in front of it,*)
(* that of its items, joined, and what stands behind it, if it is closed; of *)
(* a scalar, its own.                                                        *)
DeepLevel(f, front, back, leaf, d) ==
    [item \in Items[d] |->
        IF IsList(item)
        THEN LET open == front[Len(item.items)]
                            \o FlattenSeq([k \in DOMAIN item.items |-> f[d - 1][item.items[k]]])
             IN  IF back = <<>> THEN open ELSE open \o back[item.items = <<>>]
        ELSE leaf[item]]
DeepUpTo(f, front, back, leaf, n) == f = [d \in 0 .. n |-> DeepLevel(f, front, back, leaf, d)]

LEMMA DeepLevelsAgree ==
    ASSUME NEW f, NEW g, NEW front, NEW back, NEW leaf, NEW d \in 0 .. MaxDepth, d # 0 => f[d - 1] = g[d - 1]
    PROVE  DeepLevel(f, front, back, leaf, d) = DeepLevel(g, front, back, leaf, d)
<1>1. CASE d = 0
  <2>1. \A i \in Items[d] : ~IsList(i)
    BY <1>1, GroundItems
  <2> QED
    BY <2>1 DEF DeepLevel
<1>2. CASE d # 0
  BY <1>2 DEF DeepLevel
<1> QED
  BY <1>1, <1>2

LEMMA DeepExists ==
    ASSUME NEW front, NEW back, NEW leaf
    PROVE  \E f : DeepUpTo(f, front, back, leaf, MaxDepth)
<1> DEFINE T == {n \in Nat : n <= MaxDepth => \E f : DeepUpTo(f, front, back, leaf, n)}
<1>1. 0 \in T
  <2> DEFINE f == [c \in 0 .. 0 |-> DeepLevel(<<>>, front, back, leaf, c)]
  <2>1. 0 \in 0 .. MaxDepth /\ \A c \in 0 .. 0 : c = 0
    BY DepthAssumption DEF DepthAssumption
  <2>2. f = [c \in 0 .. 0 |-> DeepLevel(<<>>, front, back, leaf, c)]
    OBVIOUS
  <2> HIDE DEF f
  <2>3. \A c \in 0 .. 0 : DeepLevel(<<>>, front, back, leaf, c) = DeepLevel(f, front, back, leaf, c)
    BY <2>1, DeepLevelsAgree
  <2>4. f = [c \in 0 .. 0 |-> DeepLevel(f, front, back, leaf, c)]
    BY <2>2, <2>3
  <2>5. DeepUpTo(f, front, back, leaf, 0)
    BY <2>4, Zenon DEF DeepUpTo
  <2> QED
    BY <2>5
<1>2. ASSUME NEW n \in T PROVE n + 1 \in T
  <2> SUFFICES ASSUME n + 1 <= MaxDepth PROVE \E f : DeepUpTo(f, front, back, leaf, n + 1)
    BY <1>2
  <2>1. PICK g : DeepUpTo(g, front, back, leaf, n)
    BY <1>2, DepthAssumption DEF DepthAssumption
  <2> DEFINE f == [c \in 0 .. n + 1 |-> DeepLevel(g, front, back, leaf, c)]
  <2>2. /\ \A c \in 0 .. n + 1 : c \in 0 .. MaxDepth /\ (c # 0 => c - 1 \in 0 .. n)
        /\ \A c \in 0 .. n : c \in 0 .. n + 1
    BY <1>2, DepthAssumption DEF DepthAssumption
  <2>3. \A c \in 0 .. n : f[c] = g[c]
    <3>1. ASSUME NEW c \in 0 .. n PROVE g[c] = DeepLevel(g, front, back, leaf, c)
      BY <2>1, Zenon DEF DeepUpTo
    <3> QED
      BY <2>2, <3>1
  <2>4. f = [c \in 0 .. n + 1 |-> DeepLevel(g, front, back, leaf, c)]
    OBVIOUS
  <2> HIDE DEF f
  <2>5. ASSUME NEW c \in 0 .. n + 1
        PROVE  DeepLevel(g, front, back, leaf, c) = DeepLevel(f, front, back, leaf, c)
    <3>1. c \in 0 .. MaxDepth /\ (c # 0 => g[c - 1] = f[c - 1])
      BY <2>2, <2>3
    <3> QED
      BY <3>1, DeepLevelsAgree
  <2>6. f = [c \in 0 .. n + 1 |-> DeepLevel(f, front, back, leaf, c)]
    BY <2>4, <2>5
  <2>7. DeepUpTo(f, front, back, leaf, n + 1)
    BY <2>6, Zenon DEF DeepUpTo
  <2> QED
    BY <2>7
<1> HIDE DEF T
<1>3. T \in SUBSET Nat
  BY DEF T
<1>4. MaxDepth \in T /\ MaxDepth \in Nat /\ MaxDepth <= MaxDepth
  BY <1>1, <1>2, <1>3, Induction, DepthAssumption DEF DepthAssumption
<1> QED
  BY <1>4 DEF T

LEMMA EncodeDefined ==
    ASSUME NEW x \in 0 .. MaxDepth, NEW y \in Items[x]
    PROVE  encode[x][y] =
              IF IsList(y)
              THEN Header("L", Len(y.items))
                      \o FlattenSeq([k \in DOMAIN y.items |-> encode[x - 1][y.items[k]]])
              ELSE EncodeScalar(y)
<1> DEFINE front == [n \in 0 .. MaxLength |-> Header("L", n)]
           leaf == [i \in Scalars |-> EncodeScalar(i)]
           Level(f, d) == [item \in Items[d] |->
                IF IsList(item)
                THEN Header("L", Len(item.items))
                        \o FlattenSeq([k \in DOMAIN item.items |-> f[d - 1][item.items[k]]])
                ELSE EncodeScalar(item)]
<1>1. ASSUME NEW d \in 0 .. MaxDepth, NEW item \in Items[d]
      PROVE  /\ IsList(item) => front[Len(item.items)] = Header("L", Len(item.items))
             /\ ~IsList(item) => leaf[item] = EncodeScalar(item)
  <2>1. IsList(item) => Len(item.items) \in 0 .. MaxLength
    BY ListOfItems
  <2> QED
    BY <2>1, ScalarItem
<1>2. PICK g : DeepUpTo(g, front, <<>>, leaf, MaxDepth)
  BY DeepExists
<1> HIDE DEF front, leaf
<1>3. \A d \in 0 .. MaxDepth : DeepLevel(g, front, <<>>, leaf, d) = Level(g, d)
  BY <1>1 DEF DeepLevel
<1>4. g = [d \in 0 .. MaxDepth |-> DeepLevel(g, front, <<>>, leaf, d)]
  BY <1>2, Zenon DEF DeepUpTo
<1> HIDE DEF Level
<1>5. g = [d \in 0 .. MaxDepth |-> Level(g, d)]
  BY <1>3, <1>4
<1>6. \E f : f = [d \in 0 .. MaxDepth |-> [item \in Items[d] |->
                IF IsList(item)
                THEN Header("L", Len(item.items))
                        \o FlattenSeq([k \in DOMAIN item.items |-> f[d - 1][item.items[k]]])
                ELSE EncodeScalar(item)]]
  BY <1>5, Zenon DEF Level
<1>7. encode = [d \in 0 .. MaxDepth |-> [item \in Items[d] |->
                IF IsList(item)
                THEN Header("L", Len(item.items))
                        \o FlattenSeq([k \in DOMAIN item.items |-> encode[d - 1][item.items[k]]])
                ELSE EncodeScalar(item)]]
  BY <1>6, Zenon DEF encode
<1>8. encode[x] = [item \in Items[x] |->
                IF IsList(item)
                THEN Header("L", Len(item.items))
                        \o FlattenSeq([k \in DOMAIN item.items |-> encode[x - 1][item.items[k]]])
                ELSE EncodeScalar(item)]
  BY <1>7, Zenon
<1> QED
  BY <1>8, Zenon

LEMMA CompactDefined ==
    ASSUME NEW x \in 0 .. MaxDepth, NEW y \in Items[x]
    PROVE  compact[x][y] =
              IF IsList(y)
              THEN <<ListOf(Len(y.items))>>
                      \o FlattenSeq([k \in DOMAIN y.items |-> compact[x - 1][y.items[k]]])
              ELSE <<CompactScalar(y)>>
<1> DEFINE front == [n \in 0 .. MaxLength |-> <<ListOf(n)>>]
           leaf == [i \in Scalars |-> <<CompactScalar(i)>>]
           Level(f, d) == [item \in Items[d] |->
                IF IsList(item)
                THEN <<ListOf(Len(item.items))>>
                        \o FlattenSeq([k \in DOMAIN item.items |-> f[d - 1][item.items[k]]])
                ELSE <<CompactScalar(item)>>]
<1>1. ASSUME NEW d \in 0 .. MaxDepth, NEW item \in Items[d]
      PROVE  /\ IsList(item) => front[Len(item.items)] = <<ListOf(Len(item.items))>>
             /\ ~IsList(item) => leaf[item] = <<CompactScalar(item)>>
  <2>1. IsList(item) => Len(item.items) \in 0 .. MaxLength
    BY ListOfItems
  <2> QED
    BY <2>1, ScalarItem
<1>2. PICK g : DeepUpTo(g, front, <<>>, leaf, MaxDepth)
  BY DeepExists
<1> HIDE DEF front, leaf
<1>3. \A d \in 0 .. MaxDepth : DeepLevel(g, front, <<>>, leaf, d) = Level(g, d)
  BY <1>1 DEF DeepLevel
<1>4. g = [d \in 0 .. MaxDepth |-> DeepLevel(g, front, <<>>, leaf, d)]
  BY <1>2, Zenon DEF DeepUpTo
<1> HIDE DEF Level
<1>5. g = [d \in 0 .. MaxDepth |-> Level(g, d)]
  BY <1>3, <1>4
<1>6. \E f : f = [d \in 0 .. MaxDepth |-> [item \in Items[d] |->
                IF IsList(item)
                THEN <<ListOf(Len(item.items))>>
                        \o FlattenSeq([k \in DOMAIN item.items |-> f[d - 1][item.items[k]]])
                ELSE <<CompactScalar(item)>>]]
  BY <1>5, Zenon DEF Level
<1>7. compact = [d \in 0 .. MaxDepth |-> [item \in Items[d] |->
                IF IsList(item)
                THEN <<ListOf(Len(item.items))>>
                        \o FlattenSeq([k \in DOMAIN item.items |-> compact[d - 1][item.items[k]]])
                ELSE <<CompactScalar(item)>>]]
  BY <1>6, Zenon DEF compact
<1>8. compact[x] = [item \in Items[x] |->
                IF IsList(item)
                THEN <<ListOf(Len(item.items))>>
                        \o FlattenSeq([k \in DOMAIN item.items |-> compact[x - 1][item.items[k]]])
                ELSE <<CompactScalar(item)>>]
  BY <1>7, Zenon
<1> QED
  BY <1>8, Zenon

LEMMA EquipmentDefined ==
    ASSUME NEW x \in 0 .. MaxDepth, NEW y \in Items[x]
    PROVE  equipment[x][y] =
              IF IsList(y)
              THEN <<LoggedList(Len(y.items))>>
                      \o FlattenSeq([k \in DOMAIN y.items |-> equipment[x - 1][y.items[k]]])
                      \o (IF y.items = <<>> THEN <<>> ELSE <<Closer>>)
              ELSE <<EquipmentScalar(y)>>
<1> DEFINE front == [n \in 0 .. MaxLength |-> <<LoggedList(n)>>]
           back == [empty \in BOOLEAN |-> IF empty THEN <<>> ELSE <<Closer>>]
           leaf == [i \in Scalars |-> <<EquipmentScalar(i)>>]
           Level(f, d) == [item \in Items[d] |->
                IF IsList(item)
                THEN <<LoggedList(Len(item.items))>>
                        \o FlattenSeq([k \in DOMAIN item.items |-> f[d - 1][item.items[k]]])
                        \o (IF item.items = <<>> THEN <<>> ELSE <<Closer>>)
                ELSE <<EquipmentScalar(item)>>]
<1>1. ASSUME NEW d \in 0 .. MaxDepth, NEW item \in Items[d]
      PROVE  /\ IsList(item) => front[Len(item.items)] = <<LoggedList(Len(item.items))>>
             /\ ~IsList(item) => leaf[item] = <<EquipmentScalar(item)>>
  <2>1. IsList(item) => Len(item.items) \in 0 .. MaxLength
    BY ListOfItems
  <2> QED
    BY <2>1, ScalarItem
<1>2. PICK g : DeepUpTo(g, front, back, leaf, MaxDepth)
  BY DeepExists
<1>3. back # <<>>
  <2>1. TRUE \in DOMAIN back /\ DOMAIN <<>> = {}
    OBVIOUS
  <2> QED
    BY <2>1, Zenon
<1>4. \A empty \in BOOLEAN : back[empty] = IF empty THEN <<>> ELSE <<Closer>>
  OBVIOUS
<1> HIDE DEF front, back, leaf
<1>5. ASSUME NEW d \in 0 .. MaxDepth PROVE DeepLevel(g, front, back, leaf, d) = Level(g, d)
  <2>1. DeepLevel(g, front, back, leaf, d) = [item \in Items[d] |->
            IF IsList(item)
            THEN front[Len(item.items)]
                    \o FlattenSeq([k \in DOMAIN item.items |-> g[d - 1][item.items[k]]])
                    \o back[item.items = <<>>]
            ELSE leaf[item]]
    BY <1>3 DEF DeepLevel
  <2>2. ASSUME NEW item \in Items[d]
        PROVE  back[item.items = <<>>] = IF item.items = <<>> THEN <<>> ELSE <<Closer>>
    BY <1>4
  <2> QED
    BY <1>1, <2>1, <2>2
<1>6. g = [d \in 0 .. MaxDepth |-> DeepLevel(g, front, back, leaf, d)]
  BY <1>2, Zenon DEF DeepUpTo
<1> HIDE DEF Level
<1>7. g = [d \in 0 .. MaxDepth |-> Level(g, d)]
  BY <1>5, <1>6
<1>8. \E f : f = [d \in 0 .. MaxDepth |-> [item \in Items[d] |->
                IF IsList(item)
                THEN <<LoggedList(Len(item.items))>>
                        \o FlattenSeq([k \in DOMAIN item.items |-> f[d - 1][item.items[k]]])
                        \o (IF item.items = <<>> THEN <<>> ELSE <<Closer>>)
                ELSE <<EquipmentScalar(item)>>]]
  BY <1>7, Zenon DEF Level
<1>9. equipment = [d \in 0 .. MaxDepth |-> [item \in Items[d] |->
                IF IsList(item)
                THEN <<LoggedList(Len(item.items))>>
                        \o FlattenSeq([k \in DOMAIN item.items |-> equipment[d - 1][item.items[k]]])
                        \o (IF item.items = <<>> THEN <<>> ELSE <<Closer>>)
                ELSE <<EquipmentScalar(item)>>]]
  BY <1>8, Zenon DEF equipment
<1>10. equipment[x] = [item \in Items[x] |->
                IF IsList(item)
                THEN <<LoggedList(Len(item.items))>>
                        \o FlattenSeq([k \in DOMAIN item.items |-> equipment[x - 1][item.items[k]]])
                        \o (IF item.items = <<>> THEN <<>> ELSE <<Closer>>)
                ELSE <<EquipmentScalar(item)>>]
  BY <1>9, Zenon
<1> QED
  BY <1>10, Zenon

-----------------------------------------------------------------------------
(* FlattenSeq puts the first sequence in front of what follows. *)
FlatUpTo(f, s, n) == f = [i \in 1 .. n |-> IF i = 1 THEN s[i] ELSE f[i - 1] \o s[i]]

LEMMA FlattenDefined ==
    ASSUME NEW s, Len(s) \in Nat \ {0}
    PROVE  \E f : FlatUpTo(f, s, Len(s)) /\ FlattenSeq(s) = f[Len(s)]
<1> DEFINE T == {n \in Nat : \E f : FlatUpTo(f, s, n)}
<1>1. 0 \in T
  <2> DEFINE f == [i \in 1 .. 0 |-> s[i]]
  <2>1. \A i \in 1 .. 0 : FALSE
    OBVIOUS
  <2>2. f = [i \in 1 .. 0 |-> IF i = 1 THEN s[i] ELSE f[i - 1] \o s[i]]
    BY <2>1
  <2> HIDE DEF f
  <2>3. FlatUpTo(f, s, 0)
    BY <2>2 DEF FlatUpTo
  <2> QED
    BY <2>3
<1>2. ASSUME NEW n \in T PROVE n + 1 \in T
  <2>1. PICK g : FlatUpTo(g, s, n)
    OBVIOUS
  <2> DEFINE f == [i \in 1 .. n + 1 |-> IF i = 1 THEN s[i] ELSE g[i - 1] \o s[i]]
  <2>2. \A i \in 1 .. n + 1 : i # 1 => i - 1 \in 1 .. n
    BY <1>2
  <2>3. \A i \in 1 .. n : f[i] = g[i]
    <3>1. \A i \in 1 .. n : i \in 1 .. n + 1
      BY <1>2
    <3> QED
      BY <2>1, <3>1, Zenon DEF FlatUpTo
  <2> DEFINE Next1(h, i) == IF i = 1 THEN s[i] ELSE h[i - 1] \o s[i]
  <2>4. ASSUME NEW i \in 1 .. n + 1 PROVE Next1(g, i) = Next1(f, i)
    <3>1. CASE i = 1
      BY <3>1
    <3>2. CASE i # 1
      <4>1. f[i - 1] = g[i - 1]
        BY <2>2, <2>3, <3>2
      <4> HIDE DEF f
      <4> QED
        BY <4>1
    <3> QED
      BY <3>1, <3>2
  <2>5. f = [i \in 1 .. n + 1 |-> Next1(f, i)]
    <3>1. f = [i \in 1 .. n + 1 |-> Next1(g, i)]
      BY Zenon
    <3> HIDE DEF f, Next1
    <3> QED
      BY <2>4, <3>1
  <2> HIDE DEF f
  <2>6. FlatUpTo(f, s, n + 1)
    BY <2>5, Zenon DEF FlatUpTo
  <2> QED
    BY <1>2, <2>6
<1>3. \E f : FlatUpTo(f, s, Len(s))
  <2> HIDE DEF T
  <2>1. T \in SUBSET Nat
    BY DEF T
  <2>2. Len(s) \in T
    BY <1>1, <1>2, <2>1, Induction
  <2> QED
    BY <2>2 DEF T
<1> HIDE DEF T
<1>4. \E f : f = [i \in 1 .. Len(s) |-> IF i = 1 THEN s[i] ELSE f[i - 1] \o s[i]]
  BY <1>3, Zenon DEF FlatUpTo
<1> DEFINE flat == CHOOSE f : f = [i \in 1 .. Len(s) |-> IF i = 1 THEN s[i] ELSE f[i - 1] \o s[i]]
<1>5. flat = [i \in 1 .. Len(s) |-> IF i = 1 THEN s[i] ELSE flat[i - 1] \o s[i]]
  BY <1>4, Zenon
<1>6. FlattenSeq(s) = flat[Len(s)]
  BY DEF FlattenSeq
<1> HIDE DEF flat
<1> QED
  BY <1>5, <1>6, Zenon DEF FlatUpTo

LEMMA FlattenNone == FlattenSeq(<<>>) = <<>>
BY EmptySeq DEF FlattenSeq

(* A sequence of sequences, joined up to its ith. *)
LEMMA FlatStep ==
    ASSUME NEW f, NEW s, NEW n \in Nat, FlatUpTo(f, s, n), NEW i \in 1 .. n
    PROVE  f[i] = IF i = 1 THEN s[1] ELSE f[i - 1] \o s[i]
<1>1. f[i] = IF i = 1 THEN s[i] ELSE f[i - 1] \o s[i]
  BY Zenon DEF FlatUpTo
<1> QED
  BY <1>1

LEMMA FlatElements ==
    ASSUME NEW S, NEW s \in Seq(Seq(S)), NEW f, FlatUpTo(f, s, Len(s))
    PROVE  \A i \in 1 .. Len(s) : f[i] \in Seq(S)
<1> DEFINE T == {n \in Nat : n \in 1 .. Len(s) => f[n] \in Seq(S)}
<1>0. Len(s) \in Nat /\ \A i \in 1 .. Len(s) : s[i] \in Seq(S)
  BY LenProperties, ElementOfSeq
<1>1. 0 \in T
  OBVIOUS
<1>2. ASSUME NEW n \in T PROVE n + 1 \in T
  <2> SUFFICES ASSUME n + 1 \in 1 .. Len(s) PROVE f[n + 1] \in Seq(S)
    BY <1>2
  <2>1. s[n + 1] \in Seq(S)
    BY <1>0
  <2>2. f[n + 1] = IF n + 1 = 1 THEN s[1] ELSE f[(n + 1) - 1] \o s[n + 1]
    BY <1>0, FlatStep
  <2>3. CASE n + 1 = 1
    BY <2>1, <2>2, <2>3
  <2>4. CASE n + 1 # 1
    <3>1. (n + 1) - 1 = n /\ n \in 1 .. Len(s)
      BY <1>0, <1>2, <2>4
    <3>2. f[n] \in Seq(S)
      BY <3>1
    <3>3. f[n] \o s[n + 1] \in Seq(S)
      BY <2>1, <3>2, ConcatProperties
    <3> QED
      BY <2>2, <2>4, <3>1, <3>3
  <2> QED
    BY <2>3, <2>4
<1> HIDE DEF T
<1>3. T \in SUBSET Nat
  BY DEF T
<1>4. \A n \in Nat : n \in T
  BY <1>1, <1>2, <1>3, Induction
<1> QED
  BY <1>0, <1>4 DEF T

LEMMA FlattenElements ==
    ASSUME NEW S, NEW s \in Seq(Seq(S))
    PROVE  FlattenSeq(s) \in Seq(S)
<1>1. Len(s) \in Nat
  BY LenProperties
<1>2. CASE Len(s) = 0
  <2>1. s = <<>>
    BY <1>2, EmptySeq
  <2> QED
    BY <2>1, FlattenNone, EmptySeq
<1>3. CASE Len(s) # 0
  <2>1. PICK f : FlatUpTo(f, s, Len(s)) /\ FlattenSeq(s) = f[Len(s)]
    BY <1>1, <1>3, FlattenDefined
  <2>2. f[Len(s)] \in Seq(S)
    BY <1>1, <1>3, <2>1, FlatElements
  <2> QED
    BY <2>1, <2>2
<1> QED
  BY <1>2, <1>3

LEMMA PutInFront ==
    ASSUME NEW S, NEW a \in S, NEW r \in Seq(S)
    PROVE  LET s == <<a>> \o r IN
           /\ s \in Seq(S) /\ Len(s) = Len(r) + 1 /\ s[1] = a
           /\ \A k \in 1 .. Len(r) : s[k + 1] = r[k]
<1> DEFINE o == <<a>>
           s == o \o r
<1>1. Len(r) \in Nat
  BY LenProperties
<1>2. o \in Seq(S) /\ Len(o) = 1 /\ o[1] = a
  OBVIOUS
<1> HIDE DEF o
<1>3. /\ s \in Seq(S) /\ Len(s) = Len(o) + Len(r)
      /\ \A i \in 1 .. Len(o) + Len(r) : s[i] = IF i <= Len(o) THEN o[i] ELSE r[i - Len(o)]
  BY <1>2, ConcatProperties
<1> HIDE DEF s
<1>4. s[1] = a
  BY <1>1, <1>2, <1>3
<1>5. ASSUME NEW k \in 1 .. Len(r) PROVE s[k + 1] = r[k]
  <2>1. k + 1 \in 1 .. 1 + Len(r) /\ ~(k + 1 <= 1) /\ (k + 1) - 1 = k
    BY <1>1
  <2> QED
    BY <1>2, <1>3, <2>1
<1>6. Len(s) = Len(r) + 1
  BY <1>1, <1>2, <1>3
<1> QED
  BY <1>3, <1>4, <1>5, <1>6 DEF s, o

LEMMA JoinedOne ==
    ASSUME NEW S, NEW a \in Seq(S)
    PROVE  a \o <<>> = a
OBVIOUS

LEMMA JoinedThree ==
    ASSUME NEW S, NEW a \in Seq(S), NEW b \in Seq(S), NEW c \in Seq(S)
    PROVE  (a \o b) \o c = a \o (b \o c)
BY ConcatAssociative

LEMMA FlattenFirst ==
    ASSUME NEW S, NEW a \in Seq(S), NEW r \in Seq(Seq(S))
    PROVE  FlattenSeq(<<a>> \o r) = a \o FlattenSeq(r)
<1> DEFINE s == <<a>> \o r
<1>1. /\ s \in Seq(Seq(S)) /\ Len(s) = Len(r) + 1 /\ s[1] = a
      /\ \A k \in 1 .. Len(r) : s[k + 1] = r[k]
  BY PutInFront
<1>0. \A b \in Seq(S), c \in Seq(S) : (a \o b) \o c = a \o (b \o c)
  BY JoinedThree
<1> HIDE DEF s
<1>2. Len(r) \in Nat /\ Len(s) \in Nat \ {0} /\ \A k \in 1 .. Len(r) : r[k] \in Seq(S)
  BY <1>1, Sizes
<1>3. PICK f : FlatUpTo(f, s, Len(s)) /\ FlattenSeq(s) = f[Len(s)]
  BY <1>2, FlattenDefined
<1>4. f[1] = a
  <2>1. 1 \in 1 .. Len(s)
    BY <1>2
  <2>2. f[1] = IF 1 = 1 THEN s[1] ELSE f[1 - 1] \o s[1]
    BY <1>2, <1>3, <2>1, FlatStep
  <2> QED
    BY <1>1, <2>2
<1>5. CASE Len(r) = 0
  <2>1. r = <<>> /\ Len(s) = 1
    BY <1>1, <1>5, Sizes
  <2>2. FlattenSeq(r) = <<>>
    BY <2>1, FlattenNone
  <2> QED
    BY <1>3, <1>4, <2>1, <2>2, JoinedOne DEF s
<1>6. CASE Len(r) # 0
  <2>1. PICK h : FlatUpTo(h, r, Len(r)) /\ FlattenSeq(r) = h[Len(r)]
    BY <1>2, <1>6, FlattenDefined
  <2>2. \A i \in 1 .. Len(r) : h[i] \in Seq(S)
    BY <2>1, FlatElements
  <2> DEFINE T == {n \in Nat : n \in 1 .. Len(r) => f[n + 1] = a \o h[n]}
  <2>3. 0 \in T
    OBVIOUS
  <2>4. ASSUME NEW n \in T PROVE n + 1 \in T
    <3> SUFFICES ASSUME n + 1 \in 1 .. Len(r) PROVE f[(n + 1) + 1] = a \o h[n + 1]
      BY <2>4
    <3> DEFINE m == n + 1
    <3>0. m \in Nat /\ m \in 1 .. Len(r) /\ m + 1 \in 1 .. Len(s) /\ (m + 1) - 1 = m /\ m + 1 # 1
      BY <1>1, <1>2, <2>4
    <3>01. m # 1 => m - 1 = n /\ n \in 1 .. Len(r)
      BY <1>2, <2>4
    <3> DEFINE l == m + 1
    <3> HIDE DEF m, l
    <3>02. l \in 1 .. Len(s) /\ l - 1 = m /\ l # 1 /\ s[l] = r[m]
      BY <1>1, <3>0 DEF l
    <3>1. f[l] = f[m] \o r[m]
      <4>1. FlatUpTo(f, s, Len(s)) /\ Len(s) \in Nat
        BY <1>2, <1>3
      <4>2. f[l] = IF l = 1 THEN s[1] ELSE f[l - 1] \o s[l]
        <5>1. l \in 1 .. Len(s)
          BY <3>02
        <5> QED
          BY <4>1, <5>1, FlatStep
      <4> QED
        BY <3>02, <4>2
    <3>2. h[m] = IF m = 1 THEN r[1] ELSE h[m - 1] \o r[m]
      BY <1>2, <2>1, <3>0, FlatStep
    <3>5. f[l] = a \o h[m]
      <4>1. CASE m = 1
        BY <1>4, <3>1, <3>2, <4>1
      <4>2. CASE m # 1
        <5>1. m - 1 = n /\ n \in 1 .. Len(r)
          BY <3>01, <4>2
        <5>2. f[m] = a \o h[n]
          <6>1. f[n + 1] = a \o h[n]
            BY <2>4, <5>1
          <6> QED
            BY <6>1 DEF m
        <5>3. h[n] \in Seq(S) /\ r[m] \in Seq(S)
          BY <1>2, <2>2, <3>0, <5>1
        <5>4. (a \o h[n]) \o r[m] = a \o (h[n] \o r[m])
          BY <1>0, <5>3
        <5>5. h[m] = h[n] \o r[m]
          BY <3>2, <4>2, <5>1
        <5> QED
          BY <3>1, <5>2, <5>4, <5>5
      <4> QED
        BY <4>1, <4>2
    <3> QED
      BY <3>5 DEF m, l
  <2> HIDE DEF T
  <2>5. T \in SUBSET Nat
    BY DEF T
  <2>6. \A n \in Nat : n \in T
    BY <2>3, <2>4, <2>5, Induction
  <2>7. Len(r) \in T /\ Len(r) \in 1 .. Len(r)
    BY <1>2, <1>6, <2>6
  <2>8. f[Len(r) + 1] = a \o h[Len(r)]
    BY <2>7 DEF T
  <2> QED
    BY <1>1, <1>3, <2>1, <2>8 DEF s
<1> QED
  BY <1>5, <1>6

-----------------------------------------------------------------------------
(* The sequences a function gives for the members of another, joined. *)
Mapped(f, s) == [k \in DOMAIN s |-> f[s[k]]]
MapAll(f, s) == FlattenSeq(Mapped(f, s))

LEMMA FirstAndOthers ==
    ASSUME NEW S, NEW s \in Seq(S), s # <<>>
    PROVE  LET r == Tail(s) IN
           /\ s[1] \in S /\ r \in Seq(S) /\ Len(r) = Len(s) - 1
           /\ \A k \in 1 .. Len(s) - 1 : r[k] = s[k + 1]
           /\ s = <<s[1]>> \o r
<1> DEFINE r == Tail(s)
           x == s[1]
           q == <<x>> \o r
<1>1. Len(s) \in Nat /\ Len(s) # 0 /\ x \in S
  BY Sizes
<1>2. r \in Seq(S) /\ Len(r) = Len(s) - 1 /\ \A k \in 1 .. Len(s) - 1 : r[k] = s[k + 1]
  BY HeadTailProperties
<1>3. s[1] = x
  OBVIOUS
<1> HIDE DEF r, x
<1>4. q \in Seq(S) /\ Len(q) = Len(r) + 1 /\ q[1] = x /\ \A k \in 1 .. Len(r) : q[k + 1] = r[k]
  BY <1>1, <1>2, PutInFront
<1> HIDE DEF q
<1>5. Len(q) = Len(s)
  BY <1>1, <1>2, <1>4
<1>6. ASSUME NEW k \in 1 .. Len(s) PROVE s[k] = q[k]
  <2>1. CASE k = 1
    BY <1>3, <1>4, <2>1
  <2>2. CASE k # 1
    <3>1. k - 1 \in 1 .. Len(s) - 1 /\ (k - 1) + 1 = k
      BY <1>1, <2>2
    <3>2. q[(k - 1) + 1] = r[k - 1] /\ r[k - 1] = s[(k - 1) + 1]
      BY <1>2, <1>4, <3>1
    <3> QED
      BY <3>1, <3>2
  <2> QED
    BY <2>1, <2>2
<1>7. s = q
  BY <1>4, <1>5, <1>6, SeqEqual
<1> QED
  BY <1>1, <1>2, <1>7 DEF q, r, x

LEMMA MapElements ==
    ASSUME NEW S, NEW f, NEW s \in Seq(S)
    PROVE  Len(Mapped(f, s)) = Len(s) /\ \A k \in 1 .. Len(s) : Mapped(f, s)[k] = f[s[k]]
<1> DEFINE e == Mapped(f, s)
           T == {f[s[k]] : k \in 1 .. Len(s)}
<1>1. Len(s) \in Nat /\ DOMAIN s = 1 .. Len(s)
  BY Sizes
<1>2. e = [k \in 1 .. Len(s) |-> f[s[k]]]
  BY <1>1 DEF Mapped
<1>3. \A k \in 1 .. Len(s) : f[s[k]] \in T
  OBVIOUS
<1> HIDE DEF e, T
<1>4. e \in Seq(T)
  BY <1>1, <1>2, <1>3, IsASeq
<1>5. Len(e) \in Nat /\ DOMAIN e = 1 .. Len(e)
  BY <1>4, Sizes
<1>6. DOMAIN e = 1 .. Len(s)
  BY <1>2
<1>7. Len(e) = Len(s)
  <2>1. \A n \in Nat, m \in Nat : 1 .. n = 1 .. m => n = m
    OBVIOUS
  <2>2. 1 .. Len(e) = 1 .. Len(s)
    BY <1>5, <1>6
  <2> QED
    BY <1>1, <1>5, <2>1, <2>2
<1> QED
  BY <1>2, <1>7 DEF e

LEMMA MapTyped ==
    ASSUME NEW S, NEW T, NEW f, \A x \in S : f[x] \in Seq(T), NEW s \in Seq(S)
    PROVE  /\ Mapped(f, s) \in Seq(Seq(T))
           /\ MapAll(f, s) \in Seq(T) /\ Len(MapAll(f, s)) \in Nat
<1> DEFINE e == Mapped(f, s)
<1>1. Len(s) \in Nat /\ DOMAIN s = 1 .. Len(s) /\ \A k \in 1 .. Len(s) : s[k] \in S
  BY Sizes
<1>2. \A k \in 1 .. Len(s) : f[s[k]] \in Seq(T)
  BY <1>1
<1>3. e = [k \in 1 .. Len(s) |-> f[s[k]]]
  BY <1>1 DEF Mapped
<1> HIDE DEF e
<1>4. e \in [1 .. Len(s) -> Seq(T)]
  BY <1>2, <1>3
<1>5. e \in Seq(Seq(T))
  BY <1>1, <1>4, IsASeq
<1>6. FlattenSeq(e) \in Seq(T)
  BY <1>5, FlattenElements
<1>7. Len(FlattenSeq(e)) \in Nat
  BY <1>6, Sizes
<1> QED
  BY <1>3, <1>5, <1>6, <1>7 DEF MapAll, e

LEMMA MapNone ==
    ASSUME NEW f
    PROVE  MapAll(f, <<>>) = <<>>
<1>1. [k \in DOMAIN <<>> |-> f[<<>>[k]]] = <<>>
  OBVIOUS
<1> QED
  BY <1>1, FlattenNone DEF MapAll, Mapped

LEMMA MapFirst ==
    ASSUME NEW S, NEW T, NEW f, \A x \in S : f[x] \in Seq(T), NEW s \in Seq(S), s # <<>>
    PROVE  MapAll(f, s) = f[s[1]] \o MapAll(f, Tail(s))
<1> DEFINE r == Tail(s)
           all == Mapped(f, s)
           others == Mapped(f, r)
           first == f[s[1]]
           q == <<first>> \o others
<1>1. /\ s[1] \in S /\ r \in Seq(S) /\ Len(r) = Len(s) - 1
      /\ \A k \in 1 .. Len(s) - 1 : r[k] = s[k + 1]
  BY FirstAndOthers
<1> HIDE DEF r
<1>2. Len(s) \in Nat /\ Len(s) # 0
  BY Sizes
<1>0. ASSUME NEW z \in Seq(S)
      PROVE  /\ Mapped(f, z) \in Seq(Seq(T)) /\ Len(Mapped(f, z)) = Len(z)
             /\ \A k \in 1 .. Len(z) : Mapped(f, z)[k] = f[z[k]]
  <2>1. \A x \in S : f[x] \in Seq(T)
    OBVIOUS
  <2>2. Mapped(f, z) \in Seq(Seq(T))
    BY <2>1, MapTyped
  <2> QED
    BY <2>2, MapElements
<1>3. all \in Seq(Seq(T)) /\ Len(all) = Len(s) /\ \A k \in 1 .. Len(s) : all[k] = f[s[k]]
  BY <1>0
<1>4. others \in Seq(Seq(T)) /\ Len(others) = Len(r) /\ \A k \in 1 .. Len(r) : others[k] = f[r[k]]
  BY <1>0, <1>1
<1>5. first \in Seq(T) /\ all[1] = first
  BY <1>1, <1>2, <1>3
<1> HIDE DEF all, others, first
<1>6. q \in Seq(Seq(T)) /\ Len(q) = Len(others) + 1 /\ q[1] = first
      /\ \A k \in 1 .. Len(others) : q[k + 1] = others[k]
  BY <1>4, <1>5, PutInFront
<1>7. FlattenSeq(q) = first \o FlattenSeq(others)
  BY <1>4, <1>5, FlattenFirst
<1> HIDE DEF q
<1>8. Len(q) = Len(all)
  BY <1>1, <1>2, <1>3, <1>4, <1>6
<1>9. ASSUME NEW k \in 1 .. Len(all) PROVE all[k] = q[k]
  <2>1. CASE k = 1
    BY <1>5, <1>6, <2>1
  <2>2. CASE k # 1
    <3> DEFINE j == k - 1
    <3>1. j \in 1 .. Len(s) - 1 /\ j + 1 = k /\ k \in 1 .. Len(s)
      BY <1>2, <1>3, <2>2
    <3> HIDE DEF j
    <3>2. q[j + 1] = others[j] /\ others[j] = f[r[j]] /\ r[j] = s[j + 1]
      BY <1>1, <1>4, <1>6, <3>1
    <3>3. all[k] = f[s[k]]
      BY <1>3, <3>1
    <3> QED
      BY <3>1, <3>2, <3>3
  <2> QED
    BY <2>1, <2>2
<1>10. all = q
  BY <1>3, <1>6, <1>8, <1>9, SeqEqual
<1> QED
  BY <1>7, <1>10 DEF MapAll, all, others, first, r

-----------------------------------------------------------------------------
(* Numbers and lengths as bytes. *)
LEMMA LowByte ==
    ASSUME NEW n \in Int
    PROVE  /\ n % 256 \in Byte /\ n \div 256 \in Int /\ n = (n \div 256) * 256 + (n % 256)
           /\ n \in Byte => n % 256 = n
BY SMTT(30) DEF Byte

LEMMA ByteIsLow ==
    ASSUME NEW n \in Byte
    PROVE  n % 256 = n
BY SMT DEF Byte

LEMMA HigherBytes ==
    ASSUME NEW n \in Int
    PROVE  n \div 65536 = (n \div 256) \div 256 /\ n \div 16777216 = ((n \div 256) \div 256) \div 256
BY SMTT(30)

LEMMA LastOfFour ==
    ASSUME NEW a \in Byte, NEW b \in Byte, NEW c \in Byte, NEW d \in Byte
    PROVE  /\ SubSeq(<<a, b, c, d>>, 4, 4) = <<d>>
           /\ SubSeq(<<a, b, c, d>>, 3, 4) = <<c, d>>
           /\ SubSeq(<<a, b, c, d>>, 2, 4) = <<b, c, d>>
           /\ SubSeq(<<a, b, c, d>>, 1, 4) = <<a, b, c, d>>
<1> DEFINE q == <<a, b, c, d>>
<1>1. q \in Seq(Byte) /\ Len(q) = 4 /\ q[1] = a /\ q[2] = b /\ q[3] = c /\ q[4] = d
  OBVIOUS
<1>2. ASSUME NEW m \in 0 .. 3
      PROVE  LET e == SubSeq(q, m + 1, 4) IN
             e \in Seq(Byte) /\ Len(e) = 4 - m /\ \A k \in 1 .. 4 - m : e[k] = q[m + k]
  <2>1. m \in Nat /\ m <= Len(q)
    BY <1>1
  <2> HIDE DEF q
  <2>2. LET e == SubSeq(q, m + 1, Len(q)) IN
        e \in Seq(Byte) /\ Len(e) = Len(q) - m /\ \A k \in 1 .. Len(q) - m : e[k] = q[m + k]
    BY <1>1, <2>1, Dropped
  <2> QED
    BY <1>1, <2>2
<1> HIDE DEF q
<1>3. SubSeq(q, 4, 4) = <<d>>
  <2>1. LET e == SubSeq(q, 3 + 1, 4) IN
        e \in Seq(Byte) /\ Len(e) = 4 - 3 /\ \A k \in 1 .. 4 - 3 : e[k] = q[3 + k]
    BY <1>2
  <2> DEFINE e == SubSeq(q, 4, 4)
  <2>2. e \in Seq(Byte) /\ Len(e) = 1 /\ e[1] = d
    BY <1>1, <2>1
  <2> HIDE DEF e
  <2>3. e = <<d>>
    BY <2>2
  <2> QED
    BY <2>3 DEF e
<1>4. SubSeq(q, 3, 4) = <<c, d>>
  <2>1. LET e == SubSeq(q, 2 + 1, 4) IN
        e \in Seq(Byte) /\ Len(e) = 4 - 2 /\ \A k \in 1 .. 4 - 2 : e[k] = q[2 + k]
    BY <1>2
  <2> DEFINE e == SubSeq(q, 3, 4)
  <2>2. e \in Seq(Byte) /\ Len(e) = 2 /\ e[1] = c /\ e[2] = d
    BY <1>1, <2>1
  <2> HIDE DEF e
  <2>3. e = <<c, d>>
    BY <2>2
  <2> QED
    BY <2>3 DEF e
<1>5. SubSeq(q, 2, 4) = <<b, c, d>>
  <2>1. LET e == SubSeq(q, 1 + 1, 4) IN
        e \in Seq(Byte) /\ Len(e) = 4 - 1 /\ \A k \in 1 .. 4 - 1 : e[k] = q[1 + k]
    BY <1>2
  <2> DEFINE e == SubSeq(q, 2, 4)
  <2>2. e \in Seq(Byte) /\ Len(e) = 3 /\ e[1] = b /\ e[2] = c /\ e[3] = d
    BY <1>1, <2>1
  <2> HIDE DEF e
  <2>3. e = <<b, c, d>>
    BY <2>2
  <2> QED
    BY <2>3 DEF e
<1>6. SubSeq(q, 1, 4) = q
  BY <1>1, SubSeqFull
<1> QED
  BY <1>3, <1>4, <1>5, <1>6 DEF q

LEMMA BigEndianIs ==
    ASSUME NEW n \in Int
    PROVE  /\ BigEndian(n, 1) = <<n % 256>>
           /\ BigEndian(n, 2) = <<(n \div 256) % 256, n % 256>>
           /\ BigEndian(n, 3) = <<(n \div 65536) % 256, (n \div 256) % 256, n % 256>>
           /\ BigEndian(n, 4) = Bytes4(n)
<1> DEFINE a == (n \div 16777216) % 256
           b == (n \div 65536) % 256
           c == (n \div 256) % 256
           d == n % 256
<1>1. a \in Byte /\ b \in Byte /\ c \in Byte /\ d \in Byte
  <2>1. n \div 256 \in Int /\ n \div 65536 \in Int /\ n \div 16777216 \in Int
    BY SMT
  <2> QED
    BY <2>1, LowByte, SMT
<1>2. Bytes4(n) = <<a, b, c, d>>
  BY SMT DEF Bytes4
<1> HIDE DEF a, b, c, d
<1>3. /\ BigEndian(n, 1) = SubSeq(<<a, b, c, d>>, 4, 4)
      /\ BigEndian(n, 2) = SubSeq(<<a, b, c, d>>, 3, 4)
      /\ BigEndian(n, 3) = SubSeq(<<a, b, c, d>>, 2, 4)
      /\ BigEndian(n, 4) = SubSeq(<<a, b, c, d>>, 1, 4)
  BY <1>2, SMT DEF BigEndian
<1>4. /\ BigEndian(n, 1) = <<d>> /\ BigEndian(n, 2) = <<c, d>>
      /\ BigEndian(n, 3) = <<b, c, d>> /\ BigEndian(n, 4) = <<a, b, c, d>>
  BY <1>1, <1>3, LastOfFour
<1> QED
  BY <1>2, <1>4 DEF b, c, d

LengthIsKept(n) ==
    LET e == EncodeLength(n) IN
    e \in Seq(Byte) /\ Len(e) \in {1, 2, 3} /\ FromBytes(e, FALSE) = n

LEMMA LengthKept ==
    ASSUME NEW n \in Nat, n <= MaxLength
    PROVE  LengthIsKept(n)
<1> DEFINE e == EncodeLength(n)
           n1 == n \div 256
           n2 == n1 \div 256
<1>1. /\ n1 \in Int /\ n2 \in Int /\ n \div 65536 = n2
      /\ n % 256 \in Byte /\ n1 % 256 \in Byte /\ n2 % 256 \in Byte
      /\ n = n1 * 256 + (n % 256) /\ n1 = n2 * 256 + (n1 % 256)
  <2>1. n1 \in Int /\ n % 256 \in Byte /\ n = n1 * 256 + (n % 256)
    BY LowByte
  <2>2. n2 \in Int /\ n1 % 256 \in Byte /\ n1 = n2 * 256 + (n1 % 256)
    BY <2>1, LowByte
  <2>3. n2 % 256 \in Byte
    BY <2>2, LowByte
  <2> QED
    BY <2>1, <2>2, <2>3, HigherBytes
<1> HIDE DEF n1, n2
<1>2. CASE n <= 255
  <2>1. e = <<n % 256>>
    BY <1>2, BigEndianIs DEF EncodeLength
  <2>2. n % 256 = n
    BY <1>2, LowByte DEF Byte
  <2> HIDE DEF e
  <2>3. Len(e) = 1 /\ e[1] = n /\ e \in Seq(Byte)
    BY <1>1, <2>1, <2>2
  <2>4. FromBytes(e, FALSE) = n
    BY <2>3 DEF FromBytes
  <2> QED
    BY <2>3, <2>4 DEF e, LengthIsKept
<1>3. CASE ~(n <= 255) /\ n <= 65535
  <2>1. e = <<(n \div 256) % 256, n % 256>>
    BY <1>3, BigEndianIs DEF EncodeLength
  <2> HIDE DEF e
  <2>2. e = <<n1 % 256, n % 256>>
    BY <2>1 DEF n1
  <2>3. n1 % 256 = n1
    <3>1. n1 \in Byte
      BY <1>1, <1>3 DEF Byte
    <3> QED
      BY <3>1, ByteIsLow
  <2>4. Len(e) = 2 /\ e[1] = n1 % 256 /\ e[2] = n % 256 /\ e \in Seq(Byte)
    BY <1>1, <2>2
  <2>5. FromBytes(e, FALSE) = Word2(e[1], e[2])
    BY <2>4 DEF FromBytes
  <2>6. Word2(e[1], e[2]) = n
    BY <1>1, <2>3, <2>4 DEF Word2
  <2> QED
    BY <2>4, <2>5, <2>6 DEF e, LengthIsKept
<1>4. CASE ~(n <= 65535)
  <2>1. e = <<(n \div 65536) % 256, (n \div 256) % 256, n % 256>>
    <3>1. ~(n <= 255)
      BY <1>4
    <3> QED
      BY <1>4, <3>1, BigEndianIs DEF EncodeLength
  <2> HIDE DEF e
  <2>2. e = <<n2 % 256, n1 % 256, n % 256>>
    BY <1>1, <2>1 DEF n1
  <2>3. n2 % 256 = n2
    <3>1. n2 \in Byte
      BY <1>1 DEF Byte, MaxLength
    <3> QED
      BY <3>1, ByteIsLow
  <2>4. Len(e) = 3 /\ e[1] = n2 % 256 /\ e[2] = n1 % 256 /\ e[3] = n % 256 /\ e \in Seq(Byte)
    BY <1>1, <2>2
  <2>5. FromBytes(e, FALSE) = Word2(Word2(e[1], e[2]), e[3])
    BY <2>4 DEF FromBytes
  <2>6. Word2(e[1], e[2]) = n1
    BY <1>1, <2>3, <2>4 DEF Word2
  <2>7. Word2(n1, e[3]) = n
    BY <1>1, <2>4 DEF Word2
  <2> QED
    BY <2>4, <2>5, <2>6, <2>7 DEF e, LengthIsKept
<1>5. n <= 255 \/ (~(n <= 255) /\ n <= 65535) \/ ~(n <= 65535)
  OBVIOUS
<1> QED
  BY <1>2, <1>3, <1>4, <1>5

LEMMA LengthRoundTrip ==
    ASSUME NEW n \in Nat, n <= MaxLength
    PROVE  LET e == EncodeLength(n) IN
           e \in Seq(Byte) /\ Len(e) \in {1, 2, 3} /\ FromBytes(e, FALSE) = n
BY LengthKept DEF LengthIsKept

(* A byte read as the highest of a number is the one that was written. *)
HighOf(b, signed) == IF signed /\ b >= 128 THEN b - 256 ELSE b

LEMMA HighRoundTrip ==
    ASSUME NEW h \in Int, NEW signed \in BOOLEAN,
           h \in IF signed THEN -128 .. 127 ELSE Byte
    PROVE  HighOf(h % 256, signed) = h
<1>1. CASE signed
  <2>1. h >= -128 /\ h <= 127
    BY <1>1
  <2>2. CASE h < 0
    <3>1. h % 256 = h + 256
      BY <2>1, <2>2, SMTT(30)
    <3> QED
      BY <1>1, <2>1, <3>1 DEF HighOf
  <2>3. CASE ~(h < 0)
    <3>1. h % 256 = h
      BY <2>1, <2>3, SMTT(30)
    <3> QED
      BY <1>1, <2>1, <3>1 DEF HighOf
  <2> QED
    BY <2>2, <2>3
<1>2. CASE ~signed
  <2>1. h % 256 = h
    BY <1>2, LowByte
  <2> QED
    BY <1>2, <2>1 DEF HighOf
<1> QED
  BY <1>1, <1>2

LEMMA FromBytesIs ==
    ASSUME NEW b, NEW signed \in BOOLEAN
    PROVE  /\ Len(b) = 1 => FromBytes(b, signed) = HighOf(b[1], signed)
           /\ Len(b) = 2 => FromBytes(b, signed) = Word2(HighOf(b[1], signed), b[2])
           /\ Len(b) = 4 => FromBytes(b, signed) = Word4(HighOf(b[1], signed), b[2], b[3], b[4])
BY DEF FromBytes, HighOf

LEMMA WidthIs ==
    ASSUME NEW t \in Numeric
    PROVE  Width(t) \in {1, 2, 4} /\ Unit(t) = IF Width(t) = 1 THEN 1 ELSE IF Width(t) = 2 THEN 256 ELSE 16777216
BY DEF Width, Unit

LEMMA NumberRoundTrip ==
    ASSUME NEW i \in Numbers
    PROVE  LET e == BigEndian(i.value, Width(i.type)) IN
           /\ e \in Seq(Byte) /\ Len(e) = Width(i.type)
           /\ FromBytes(e, i.type \in Signed) = i.value
<1> DEFINE t == i.type
           v == i.value
           e == BigEndian(v, Width(t))
           signed == (t \in Signed)
           h == v \div Unit(t)
<1>1. /\ i \in [type : Numeric, value : Int] /\ t \in Numeric /\ v \in Int /\ signed \in BOOLEAN
      /\ h \in IF signed THEN -128 .. 127 ELSE Byte
  BY DEF Numbers
<1>2. Width(t) \in {1, 2, 4} /\ Unit(t) = IF Width(t) = 1 THEN 1 ELSE IF Width(t) = 2 THEN 256 ELSE 16777216
  BY <1>1, WidthIs
<1> HIDE DEF t, v, signed
<1>3. CASE Width(t) = 1
  <2>1. h = v
    BY <1>1, <1>2, <1>3
  <2>2. HighOf(v % 256, signed) = v
    BY <1>1, <2>1, HighRoundTrip
  <2>3. e = <<v % 256>> /\ v % 256 \in Byte
    BY <1>1, <1>3, BigEndianIs, LowByte
  <2> HIDE DEF e
  <2>4. e \in Seq(Byte) /\ Len(e) = 1 /\ e[1] = v % 256
    BY <2>3
  <2>5. FromBytes(e, signed) = v
    BY <1>1, <2>2, <2>4, FromBytesIs
  <2> QED
    BY <1>3, <2>4, <2>5 DEF e, v, t, signed
<1>4. CASE Width(t) = 2
  <2>1. h = v \div 256
    BY <1>1, <1>2, <1>4
  <2>2. h \in Int /\ h % 256 \in Byte /\ v % 256 \in Byte /\ v = h * 256 + (v % 256)
    <3>1. v \div 256 \in Int /\ v % 256 \in Byte /\ v = (v \div 256) * 256 + (v % 256)
      BY <1>1, LowByte
    <3> HIDE DEF h
    <3> QED
      BY <2>1, <3>1, LowByte
  <2>3. HighOf(h % 256, signed) = h
    <3> HIDE DEF h
    <3> QED
      BY <1>1, <2>2, HighRoundTrip
  <2>4. e = <<(v \div 256) % 256, v % 256>>
    BY <1>1, <1>4, BigEndianIs
  <2> HIDE DEF e
  <2>5. e = <<h % 256, v % 256>>
    BY <2>1, <2>4
  <2> HIDE DEF h
  <2>6. e \in Seq(Byte) /\ Len(e) = 2 /\ e[1] = h % 256 /\ e[2] = v % 256
    BY <2>2, <2>5
  <2>7. FromBytes(e, signed) = Word2(HighOf(e[1], signed), e[2])
    BY <1>1, <2>6, FromBytesIs
  <2>8. Word2(h, e[2]) = v
    BY <2>2, <2>6 DEF Word2
  <2> QED
    BY <1>4, <2>3, <2>6, <2>7, <2>8 DEF e, v, t, signed
<1>5. CASE Width(t) = 4
  <2> DEFINE v1 == v \div 256
             v2 == v1 \div 256
             v3 == v2 \div 256
  <2>1. h = v \div 16777216
    BY <1>1, <1>2, <1>5
  <2>2. /\ v1 \in Int /\ v2 \in Int /\ v3 \in Int
        /\ v % 256 \in Byte /\ v1 % 256 \in Byte /\ v2 % 256 \in Byte /\ v3 % 256 \in Byte
        /\ v = v1 * 256 + (v % 256) /\ v1 = v2 * 256 + (v1 % 256) /\ v2 = v3 * 256 + (v2 % 256)
    <3>1. v1 \in Int /\ v % 256 \in Byte /\ v = v1 * 256 + (v % 256)
      BY <1>1, LowByte
    <3>2. v2 \in Int /\ v1 % 256 \in Byte /\ v1 = v2 * 256 + (v1 % 256)
      BY <3>1, LowByte
    <3>3. v3 \in Int /\ v2 % 256 \in Byte /\ v2 = v3 * 256 + (v2 % 256)
      BY <3>2, LowByte
    <3>4. v3 % 256 \in Byte
      BY <3>3, LowByte
    <3> QED
      BY <3>1, <3>2, <3>3, <3>4
  <2>3. v \div 65536 = v2 /\ v \div 16777216 = v3
    BY <1>1, HigherBytes
  <2>4. h = v3
    BY <2>1, <2>3
  <2>5. HighOf(v3 % 256, signed) = v3
    <3> HIDE DEF h, v3
    <3> QED
      BY <1>1, <2>2, <2>4, HighRoundTrip
  <2>6. e = <<v3 % 256, v2 % 256, v1 % 256, v % 256>>
    <3>1. e = Bytes4(v)
      BY <1>1, <1>5, BigEndianIs
    <3> HIDE DEF e, v2, v3
    <3> QED
      BY <2>3, <3>1 DEF Bytes4
  <2> HIDE DEF e, h, v1, v2, v3
  <2>7. e \in Seq(Byte) /\ Len(e) = 4 /\ e[1] = v3 % 256 /\ e[2] = v2 % 256 /\ e[3] = v1 % 256 /\ e[4] = v % 256
    BY <2>2, <2>6
  <2>8. FromBytes(e, signed) = Word4(HighOf(e[1], signed), e[2], e[3], e[4])
    BY <1>1, <2>7, FromBytesIs
  <2>9. Word4(v3, e[2], e[3], e[4]) = v
    <3>1. Word4(v3, e[2], e[3], e[4]) = v3 * 16777216 + (v2 % 256) * 65536 + (v1 % 256) * 256 + (v % 256)
      BY <2>7 DEF Word4
    <3> QED
      BY <1>1, <2>2, <3>1 DEF Byte
  <2> QED
    BY <1>5, <2>5, <2>7, <2>8, <2>9 DEF e, v, t, signed
<1> QED
  BY <1>2, <1>3, <1>4, <1>5

-----------------------------------------------------------------------------
(* A header is read as it was written. *)
Kinds == {"L", "B", "BOOLEAN", "A", "I1", "I2", "I4", "U1", "U2", "U4"}

LEMMA TypeRoundTrip ==
    ASSUME NEW t \in Kinds
    PROVE  TypeOf(Format[t]) = t
<1>1. DOMAIN Format = Kinds
  BY DEF Format, Kinds
<1>2. \A u \in Kinds : Format[u] = Format[t] => u = t
  BY DEF Format, Kinds
<1>3. \A u : u \in DOMAIN Format /\ Format[u] = Format[t] <=> u = t
  BY <1>1, <1>2
<1>4. (CHOOSE u \in DOMAIN Format : Format[u] = Format[t]) = t
  BY <1>3
<1> QED
  BY <1>1, <1>4 DEF TypeOf

LEMMA FormatByte ==
    ASSUME NEW t \in Kinds, NEW w \in {1, 2, 3}
    PROVE  /\ Format[t] + w \in Byte /\ (Format[t] + w) % 4 = w
           /\ (Format[t] + w) - w = Format[t]
<1>1. \E k \in Nat : Format[t] = 4 * k /\ k <= 44
  <2>1. /\ 0 = 4 * 0 /\ 32 = 4 * 8 /\ 36 = 4 * 9 /\ 64 = 4 * 16 /\ 100 = 4 * 25
        /\ 104 = 4 * 26 /\ 112 = 4 * 28 /\ 164 = 4 * 41 /\ 168 = 4 * 42 /\ 176 = 4 * 44
    OBVIOUS
  <2>2. Format[t] \in {0, 32, 36, 64, 100, 104, 112, 164, 168, 176}
    BY DEF Format, Kinds
  <2> QED
    BY <2>1, <2>2
<1>2. PICK k \in Nat : Format[t] = 4 * k /\ k <= 44
  BY <1>1
<1> DEFINE c == Format[t]
<1>3. c = 4 * k
  BY <1>2
<1> HIDE DEF c
<1>4. (c + w) % 4 = w
  BY <1>2, <1>3, SMTT(30)
<1>5. c + w \in Byte /\ (c + w) - w = c
  BY <1>2, <1>3 DEF Byte
<1> QED
  BY <1>4, <1>5 DEF c

LEMMA HeaderBytesOf ==
    ASSUME NEW t \in Kinds, NEW n \in Nat, n <= MaxLength
    PROVE  LET h == Header(t, n)
               w == Len(EncodeLength(n))
           IN  /\ h \in Seq(Byte) /\ Len(h) = 1 + w /\ w \in {1, 2, 3}
               /\ h[1] = Format[t] + w
               /\ \A k \in 1 .. w : h[k + 1] = EncodeLength(n)[k]
<1> DEFINE e == EncodeLength(n)
<1>1. e \in Seq(Byte) /\ Len(e) \in {1, 2, 3}
  BY LengthRoundTrip
<1>2. Format[t] + Len(e) \in Byte
  BY <1>1, FormatByte
<1>3. Header(t, n) = <<Format[t] + Len(e)>> \o e
  BY DEF Header
<1> HIDE DEF e
<1> DEFINE c == Format[t] + Len(e)
<1> HIDE DEF c
<1>4. LET s == <<c>> \o e IN
      s \in Seq(Byte) /\ Len(s) = Len(e) + 1 /\ s[1] = c /\ \A k \in 1 .. Len(e) : s[k + 1] = e[k]
  BY <1>1, <1>2, PutInFront DEF c
<1>5. Len(e) + 1 = 1 + Len(e)
  BY <1>1
<1> QED
  BY <1>1, <1>3, <1>4, <1>5 DEF c, e

LEMMA HeaderRead ==
    ASSUME NEW t \in Kinds, NEW n \in Nat, n <= MaxLength, NEW rest \in Seq(Byte)
    PROVE  LET h    == Header(t, n)
               data == h \o rest
               w    == data[1] % 4
           IN  /\ h \in Seq(Byte) /\ Len(h) \in Nat /\ Len(h) >= 2 /\ Len(h) = 1 + w
               /\ data \in Seq(Byte) /\ Len(data) = Len(h) + Len(rest) /\ Len(rest) \in Nat
               /\ w \in {1, 2, 3} /\ TypeOf(data[1] - w) = t
               /\ FromBytes(SubSeq(data, 2, 1 + w), FALSE) = n
               /\ From(data, 2 + w) = rest
<1> DEFINE h    == Header(t, n)
           data == h \o rest
           e    == EncodeLength(n)
           w    == Len(e)
           sub  == SubSeq(data, 2, 1 + w)
<1>1. /\ h \in Seq(Byte) /\ Len(h) = 1 + w /\ w \in {1, 2, 3}
      /\ h[1] = Format[t] + w /\ \A k \in 1 .. w : h[k + 1] = e[k]
  BY HeaderBytesOf
<1>2. e \in Seq(Byte) /\ FromBytes(e, FALSE) = n
  BY LengthRoundTrip
<1>3. TypeOf(Format[t]) = t
  BY TypeRoundTrip
<1>4. (Format[t] + w) % 4 = w /\ (Format[t] + w) - w = Format[t]
  BY <1>1, FormatByte
<1> HIDE DEF h, e
<1>5. Len(rest) \in Nat
  BY Sizes
<1>6. /\ data \in Seq(Byte) /\ Len(data) = Len(h) + Len(rest)
      /\ \A j \in 1 .. Len(h) : data[j] = h[j]
      /\ From(data, Len(h) + 1) = rest
  BY <1>1, Pieces2
<1> HIDE DEF data
<1>7. data[1] = Format[t] + w
  <2>1. 1 \in 1 .. Len(h)
    BY <1>1
  <2> QED
    BY <1>1, <1>6, <2>1
<1>8. data[1] % 4 = w /\ TypeOf(data[1] - w) = t
  BY <1>3, <1>4, <1>7
<1>9. sub = e
  <2>1. /\ 2 \in Nat /\ 1 + w \in Nat /\ \A i \in 2 .. 1 + w : data[i] \in Byte
    <3>1. \A i \in 1 .. Len(data) : data[i] \in Byte
      BY <1>6, Sizes
    <3>2. \A i \in 2 .. 1 + w : i \in 1 .. Len(data)
      BY <1>1, <1>5, <1>6
    <3> QED
      BY <1>1, <3>1, <3>2
  <2>2. sub \in Seq(Byte) /\ Len(sub) = w /\ \A k \in 1 .. w : sub[k] = data[k + 1]
    <3>1. 2 <= 1 + w + 1 /\ (1 + w) - 2 + 1 = w
      BY <1>1
    <3>2. sub \in Seq(Byte) /\ Len(sub) = (IF 2 <= 1 + w THEN (1 + w) - 2 + 1 ELSE 0)
          /\ \A i \in 1 .. (1 + w) - 2 + 1 : sub[i] = data[2 + i - 1]
      BY <1>1, <2>1, SubSeqProperties
    <3> HIDE DEF sub
    <3>3. Len(sub) = w
      BY <1>1, <3>1, <3>2
    <3>4. ASSUME NEW k \in 1 .. w PROVE sub[k] = data[k + 1]
      <4>1. 2 + k - 1 = k + 1 /\ k \in 1 .. (1 + w) - 2 + 1
        BY <1>1
      <4> QED
        BY <3>2, <4>1
    <3> QED
      BY <3>2, <3>3, <3>4
  <2> HIDE DEF sub
  <2>3. ASSUME NEW k \in 1 .. w PROVE sub[k] = e[k]
    <3>1. k + 1 \in 1 .. Len(h)
      BY <1>1
    <3> QED
      BY <1>1, <1>6, <2>2, <3>1
  <2> QED
    BY <1>1, <1>2, <2>2, <2>3, SeqEqual
<1>10. From(data, 2 + w) = rest
  <2>1. Len(h) + 1 = 2 + w
    BY <1>1
  <2> QED
    BY <1>6, <2>1
<1> HIDE DEF w
<1>11. Len(h) \in Nat /\ Len(h) >= 2
  <2>1. w \in {1, 2, 3} /\ Len(h) = 1 + w
    BY <1>1
  <2> QED
    BY <2>1
<1> QED
  BY <1>1, <1>2, <1>5, <1>6, <1>8, <1>9, <1>10, <1>11 DEF h, data

LEMMA ItemAtHeader ==
    ASSUME NEW t \in Kinds, NEW n \in Nat, n <= MaxLength, NEW rest \in Seq(Byte), NEW children
    PROVE  LET u == Len(Header(t, n)) IN
           ItemAt(Header(t, n) \o rest, children) =
              IF t = "L"
              THEN IF children[rest][n].ok
                   THEN Decoded(List(children[rest][n].items), u + children[rest][n].used)
                   ELSE Refused
              ELSE IF Len(rest) < n THEN Refused
              ELSE DecodeScalar(t, SubSeq(rest, 1, n), u + n)
<1> DEFINE h == Header(t, n)
           data == h \o rest
           w == data[1] % 4
<1>1. /\ Len(h) \in Nat /\ Len(h) >= 2 /\ Len(h) = 1 + w
      /\ data \in Seq(Byte) /\ Len(data) = Len(h) + Len(rest) /\ Len(rest) \in Nat
      /\ w \in {1, 2, 3} /\ TypeOf(data[1] - w) = t
      /\ FromBytes(SubSeq(data, 2, 1 + w), FALSE) = n
      /\ From(data, 2 + w) = rest
  BY HeaderRead
<1> HIDE DEF h, data
<1>2. Len(data) >= 2 /\ Len(data) >= 1 + w /\ w # 0
  BY <1>1
<1>3. /\ ~(Len(data) < 2) /\ ~(w = 0 \/ Len(data) < 1 + w)
  BY <1>1, <1>2
<1>4. ItemAt(data, children) =
        CASE t = "L" -> IF children[rest][n].ok
                        THEN Decoded(List(children[rest][n].items), 1 + w + children[rest][n].used)
                        ELSE Refused
          [] t # "L" /\ Len(rest) < n -> Refused
          [] t # "L" /\ Len(rest) >= n -> DecodeScalar(t, SubSeq(rest, 1, n), 1 + w + n)
  BY <1>1, <1>2, <1>3 DEF ItemAt
<1>5. CASE t = "L"
  BY <1>1, <1>4, <1>5 DEF h, data
<1>6. CASE t # "L" /\ Len(rest) < n
  BY <1>4, <1>6 DEF h, data
<1>7. CASE t # "L" /\ ~(Len(rest) < n)
  <2>1. Len(rest) >= n
    BY <1>1, <1>7
  <2> QED
    BY <1>1, <1>4, <1>7, <2>1 DEF h, data
<1> QED
  BY <1>5, <1>6, <1>7

LEMMA FrontPiece ==
    ASSUME NEW p \in Seq(Byte), NEW tail \in Seq(Byte)
    PROVE  SubSeq(p \o tail, 1, Len(p)) = p
<1> DEFINE q == p \o tail
           s == SubSeq(q, 1, Len(p))
<1>1. /\ q \in Seq(Byte) /\ Len(q) = Len(p) + Len(tail) /\ \A j \in 1 .. Len(p) : q[j] = p[j]
      /\ Len(p) \in Nat /\ Len(tail) \in Nat
  BY Pieces2, Sizes
<1> HIDE DEF q
<1>2. s \in Seq(Byte) /\ Len(s) = Len(p) /\ \A k \in 1 .. Len(p) : s[k] = q[k]
  <2>1. \A i \in 1 .. Len(p) : q[i] \in Byte
    BY <1>1, Sizes
  <2>2. /\ s \in Seq(Byte) /\ Len(s) = (IF 1 <= Len(p) THEN Len(p) - 1 + 1 ELSE 0)
        /\ \A i \in 1 .. Len(p) - 1 + 1 : s[i] = q[1 + i - 1]
    BY <1>1, <2>1, SubSeqProperties
  <2> HIDE DEF s
  <2>3. Len(s) = Len(p)
    BY <1>1, <2>2
  <2>4. ASSUME NEW k \in 1 .. Len(p) PROVE s[k] = q[k]
    <3>1. k \in 1 .. Len(p) - 1 + 1 /\ 1 + k - 1 = k
      BY <1>1
    <3> QED
      BY <2>2, <3>1
  <2> QED
    BY <2>2, <2>3, <2>4
<1> HIDE DEF s
<1>3. \A k \in 1 .. Len(p) : s[k] = p[k]
  BY <1>1, <1>2
<1>4. s = p
  BY <1>2, <1>3, SeqEqual
<1> QED
  BY <1>4 DEF s, q

LEMMA PayloadRead ==
    ASSUME NEW t \in Kinds, t # "L", NEW p \in Seq(Byte), Len(p) <= MaxLength,
           NEW tail \in Seq(Byte), NEW children
    PROVE  LET b == Header(t, Len(p)) \o p IN
           /\ b \in Seq(Byte) /\ Len(b) \in Nat /\ Len(b) >= 2
           /\ ItemAt(b \o tail, children) = DecodeScalar(t, p, Len(b))
<1> DEFINE h == Header(t, Len(p))
           b == h \o p
           rest == p \o tail
<1>1. Len(p) \in Nat /\ rest \in Seq(Byte) /\ Len(rest) = Len(p) + Len(tail) /\ Len(tail) \in Nat
  BY Pieces2, Sizes
<1>2. h \in Seq(Byte) /\ Len(h) \in Nat /\ Len(h) >= 2
  BY <1>1, HeaderRead
<1>3. SubSeq(rest, 1, Len(p)) = p
  BY FrontPiece
<1>4. ItemAt(h \o rest, children) =
         IF Len(rest) < Len(p) THEN Refused
         ELSE DecodeScalar(t, SubSeq(rest, 1, Len(p)), Len(h) + Len(p))
  <2> HIDE DEF rest
  <2> QED
    BY <1>1, ItemAtHeader
<1> HIDE DEF h
<1>5. b \in Seq(Byte) /\ Len(b) = Len(h) + Len(p)
  BY <1>2, Pieces2
<1>6. b \o tail = h \o rest
  BY <1>2, Regrouped
<1> HIDE DEF b, rest
<1>7. ~(Len(rest) < Len(p))
  BY <1>1
<1>8. Len(b) \in Nat /\ Len(b) >= 2
  BY <1>1, <1>2, <1>5
<1>9. ItemAt(b \o tail, children) = DecodeScalar(t, p, Len(b))
  BY <1>3, <1>4, <1>5, <1>6, <1>7
<1> QED
  BY <1>5, <1>8, <1>9 DEF b, h

(* Every scalar is read as it was written, whatever comes after it. *)
LEMMA ScalarRead ==
    ASSUME NEW item \in Scalars, NEW tail \in Seq(Byte), NEW children
    PROVE  LET b == EncodeScalar(item) IN
           /\ b \in Seq(Byte) /\ Len(b) \in Nat /\ Len(b) >= 2
           /\ ItemAt(b \o tail, children) = Decoded(item, Len(b))
<1> DEFINE b == EncodeScalar(item)
           Holds(t, p) == /\ b = Header(t, Len(p)) \o p
                          /\ t \in Kinds /\ t # "L" /\ p \in Seq(Byte) /\ Len(p) <= MaxLength
                          /\ \A used : DecodeScalar(t, p, used) = Decoded(item, used)
<1>1. ASSUME NEW t, NEW p, Holds(t, p)
      PROVE  /\ b \in Seq(Byte) /\ Len(b) \in Nat /\ Len(b) >= 2
             /\ ItemAt(b \o tail, children) = Decoded(item, Len(b))
  <2> HIDE DEF b
  <2>1. LET c == Header(t, Len(p)) \o p IN
        /\ c \in Seq(Byte) /\ Len(c) \in Nat /\ Len(c) >= 2
        /\ ItemAt(c \o tail, children) = DecodeScalar(t, p, Len(c))
    BY <1>1, PayloadRead
  <2> QED
    BY <1>1, <2>1
<1>2. CASE item \in [type : {"B"}, bytes : Short(Byte)]
  <2>1. /\ item.type = "B" /\ item = Binary(item.bytes) /\ item.bytes \in Seq(Byte)
        /\ Len(item.bytes) <= MaxLength
    BY <1>2 DEF Short, Binary
  <2>2. \A used : DecodeScalar("B", item.bytes, used) = Decoded(item, used)
    BY <2>1 DEF DecodeScalar, Numeric, Signed, Unsigned
  <2>3. b = Header("B", Len(item.bytes)) \o item.bytes
    BY <2>1 DEF EncodeScalar
  <2>4. Holds("B", item.bytes)
    BY <2>1, <2>2, <2>3 DEF Kinds
  <2> QED
    BY <1>1, <2>4
<1>3. CASE item \in [type : {"A"}, text : Short(Byte)]
  <2>1. /\ item.type = "A" /\ item = ASCII(item.text) /\ item.text \in Seq(Byte)
        /\ Len(item.text) <= MaxLength
    BY <1>3 DEF Short, ASCII
  <2>2. \A used : DecodeScalar("A", item.text, used) = Decoded(item, used)
    BY <2>1 DEF DecodeScalar, Numeric, Signed, Unsigned
  <2>3. b = Header("A", Len(item.text)) \o item.text
    BY <2>1 DEF EncodeScalar
  <2>4. Holds("A", item.text)
    BY <2>1, <2>2, <2>3 DEF Kinds
  <2> QED
    BY <1>1, <2>4
<1>4. CASE item \in [type : {"BOOLEAN"}, bool : BOOLEAN]
  <2> DEFINE p == <<IF item.bool THEN 1 ELSE 0>>
  <2>1. item.type = "BOOLEAN" /\ item = Boolean(item.bool) /\ item.bool \in BOOLEAN
    BY <1>4 DEF Boolean
  <2>2. p \in Seq(Byte) /\ Len(p) = 1 /\ (p[1] # 0) = item.bool
    BY <2>1 DEF Byte
  <2>3. b = Header("BOOLEAN", 1) \o p
    BY <2>1 DEF EncodeScalar
  <2> HIDE DEF p
  <2>4. \A used : DecodeScalar("BOOLEAN", p, used) = Decoded(Boolean(p[1] # 0), used)
    BY <2>2 DEF DecodeScalar, Numeric, Signed, Unsigned
  <2>5. Boolean(p[1] # 0) = item
    BY <2>1, <2>2
  <2>6. Holds("BOOLEAN", p)
    BY <2>2, <2>3, <2>4, <2>5 DEF Kinds, MaxLength
  <2> QED
    BY <1>1, <2>6
<1>5. CASE item \in Numbers
  <2> DEFINE t == item.type
             p == BigEndian(item.value, Width(t))
  <2>1. t \in Numeric /\ item = Number(t, item.value)
    BY <1>5 DEF Numbers, Number
  <2>2. p \in Seq(Byte) /\ Len(p) = Width(t) /\ FromBytes(p, t \in Signed) = item.value
    BY <1>5, NumberRoundTrip
  <2>3. t \notin {"L", "B", "A", "BOOLEAN"} /\ t \in Kinds
    BY <2>1 DEF Numeric, Signed, Unsigned, Kinds
  <2>4. b = Header(t, Width(t)) \o p
    BY <2>3 DEF EncodeScalar
  <2> HIDE DEF p, t
  <2>5. Width(t) <= MaxLength
    BY <2>1, WidthIs DEF MaxLength
  <2>6. \A used : DecodeScalar(t, p, used) = Decoded(Number(t, FromBytes(p, t \in Signed)), used)
    BY <2>1, <2>2, <2>3 DEF DecodeScalar
  <2>7. Holds(t, p)
    BY <2>1, <2>2, <2>3, <2>4, <2>5, <2>6
  <2> QED
    BY <1>1, <2>7
<1> QED
  BY <1>2, <1>3, <1>4, <1>5 DEF Scalars

-----------------------------------------------------------------------------
(* The decoder's recursion. *)
DecodeLevel(f, i) ==
    [data \in Seq(Byte) |-> [n \in Nat |->
        IF n = 0 THEN DecodedItems(<<>>, 0)
        ELSE IF i = 0 THEN Refused
        ELSE FirstItems(data, n, f[i - 1])]]
DecodeUpTo(f, n) == f = [i \in 0 .. n |-> DecodeLevel(f, i)]

LEMMA LevelOf ==
    ASSUME NEW f, NEW g, NEW i, i # 0 => f[i - 1] = g[i - 1]
    PROVE  DecodeLevel(f, i) = DecodeLevel(g, i)
<1>1. CASE i = 0
  BY <1>1 DEF DecodeLevel
<1>2. CASE i # 0
  BY <1>2 DEF DecodeLevel
<1> QED
  BY <1>1, <1>2

LEMMA DecodeUpToExists ==
    \A n \in Nat : \E f : DecodeUpTo(f, n)
<1> DEFINE T == {n \in Nat : \E f : DecodeUpTo(f, n)}
<1>1. 0 \in T
  <2> DEFINE f == [i \in 0 .. 0 |-> DecodeLevel(<<>>, i)]
  <2>1. \A i \in 0 .. 0 : i = 0
    OBVIOUS
  <2>2. ASSUME NEW i \in 0 .. 0 PROVE DecodeLevel(<<>>, i) = DecodeLevel(f, i)
    <3> HIDE DEF f
    <3> QED
      BY <2>1, LevelOf
  <2>3. f = [i \in 0 .. 0 |-> DecodeLevel(f, i)]
    BY <2>2, Zenon
  <2> HIDE DEF f
  <2>4. DecodeUpTo(f, 0)
    BY <2>3 DEF DecodeUpTo
  <2> QED
    BY <2>4
<1>2. ASSUME NEW n \in T PROVE n + 1 \in T
  <2>1. PICK g : DecodeUpTo(g, n)
    OBVIOUS
  <2> DEFINE f == [i \in 0 .. n + 1 |-> DecodeLevel(g, i)]
  <2>2. \A i \in 0 .. n + 1 : i # 0 => i - 1 \in 0 .. n
    BY <1>2
  <2>3. \A i \in 0 .. n : f[i] = g[i]
    <3>1. \A i \in 0 .. n : i \in 0 .. n + 1
      BY <1>2
    <3> QED
      BY <2>1, <3>1, Zenon DEF DecodeUpTo
  <2>4. ASSUME NEW i \in 0 .. n + 1 PROVE DecodeLevel(g, i) = DecodeLevel(f, i)
    <3>1. i # 0 => f[i - 1] = g[i - 1]
      BY <2>2, <2>3
    <3> HIDE DEF f
    <3> QED
      BY <3>1, LevelOf
  <2>5. f = [i \in 0 .. n + 1 |-> DecodeLevel(f, i)]
    BY <2>4, Zenon
  <2> HIDE DEF f
  <2>6. DecodeUpTo(f, n + 1)
    BY <2>5 DEF DecodeUpTo
  <2> QED
    BY <1>2, <2>6
<1> HIDE DEF T
<1>3. T \in SUBSET Nat
  BY DEF T
<1>4. \A n \in Nat : n \in T
  BY <1>1, <1>2, <1>3, Induction
<1> QED
  BY <1>4 DEF T

LEMMA DecodeUpToAgree ==
    ASSUME NEW i \in Nat, NEW m \in Nat, NEW k \in Nat, i <= m, i <= k,
           NEW f, NEW g, DecodeUpTo(f, m), DecodeUpTo(g, k)
    PROVE  f[i] = g[i]
<1> DEFINE T == {j \in Nat : j <= i => f[j] = g[j]}
<1>1. \A j \in Nat : j <= i => f[j] = DecodeLevel(f, j) /\ g[j] = DecodeLevel(g, j)
  <2>1. \A j \in Nat : j <= i => j \in 0 .. m /\ j \in 0 .. k
    OBVIOUS
  <2>2. \A j \in 0 .. m : f[j] = DecodeLevel(f, j)
    BY Zenon DEF DecodeUpTo
  <2>3. \A j \in 0 .. k : g[j] = DecodeLevel(g, j)
    BY Zenon DEF DecodeUpTo
  <2> QED
    BY <2>1, <2>2, <2>3
<1>2. 0 \in T
  <2>1. DecodeLevel(f, 0) = DecodeLevel(g, 0)
    BY LevelOf
  <2> QED
    BY <1>1, <2>1
<1>3. ASSUME NEW j \in T PROVE j + 1 \in T
  <2> SUFFICES ASSUME j + 1 <= i PROVE f[j + 1] = g[j + 1]
    BY <1>3
  <2>1. f[j] = g[j] /\ (j + 1) - 1 = j /\ j + 1 \in Nat
    BY <1>3
  <2>2. DecodeLevel(f, j + 1) = DecodeLevel(g, j + 1)
    BY <2>1, LevelOf
  <2> QED
    BY <1>1, <2>1, <2>2
<1> HIDE DEF T
<1>4. T \in SUBSET Nat
  BY DEF T
<1>5. \A j \in Nat : j \in T
  BY <1>2, <1>3, <1>4, Induction
<1>6. i \in T
  BY <1>5
<1> QED
  BY <1>6 DEF T

LEMMA DecodeItemsDefined ==
    ASSUME NEW room \in Nat, NEW bytes \in Seq(Byte), NEW k \in Nat
    PROVE  decodeItems[room][bytes][k] =
              IF k = 0 THEN DecodedItems(<<>>, 0)
              ELSE IF room = 0 THEN Refused
              ELSE FirstItems(bytes, k, decodeItems[room - 1])
<1> DEFINE upTo(n) == CHOOSE g : DecodeUpTo(g, n)
           f == [n \in Nat |-> upTo(n)[n]]
<1>1. \A n \in Nat : DecodeUpTo(upTo(n), n)
  BY DecodeUpToExists, Zenon
<1> HIDE DEF upTo
<1>2. ASSUME NEW n \in Nat PROVE f[n] = DecodeLevel(f, n)
  <2>1. upTo(n)[n] = DecodeLevel(upTo(n), n)
    <3>1. n \in 0 .. n
      OBVIOUS
    <3>2. DecodeUpTo(upTo(n), n)
      BY <1>1
    <3> QED
      BY <3>1, <3>2, Zenon DEF DecodeUpTo
  <2>2. n # 0 => f[n - 1] = upTo(n)[n - 1]
    <3> SUFFICES ASSUME n # 0 PROVE f[n - 1] = upTo(n)[n - 1]
      OBVIOUS
    <3> DEFINE m == n - 1
    <3>1. m \in Nat /\ m <= m /\ m <= n
      OBVIOUS
    <3>2. DecodeUpTo(upTo(m), m) /\ DecodeUpTo(upTo(n), n)
      BY <1>1, <3>1
    <3> HIDE DEF m
    <3>3. upTo(m)[m] = upTo(n)[m]
      BY <3>1, <3>2, DecodeUpToAgree
    <3> QED
      BY <3>1, <3>3 DEF m
  <2> HIDE DEF f
  <2>3. DecodeLevel(f, n) = DecodeLevel(upTo(n), n)
    BY <2>2, LevelOf
  <2> QED
    BY <2>1, <2>3 DEF f
<1>3. f = [n \in Nat |-> DecodeLevel(f, n)]
  BY <1>2, Zenon
<1> HIDE DEF f
<1>4. \E g : g = [n \in Nat |->
        [data \in Seq(Byte) |-> [c \in Nat |->
            IF c = 0 THEN DecodedItems(<<>>, 0)
            ELSE IF n = 0 THEN Refused
            ELSE FirstItems(data, c, g[n - 1])]]]
  BY <1>3, Zenon DEF DecodeLevel
<1>5. decodeItems = [n \in Nat |->
        [data \in Seq(Byte) |-> [c \in Nat |->
            IF c = 0 THEN DecodedItems(<<>>, 0)
            ELSE IF n = 0 THEN Refused
            ELSE FirstItems(data, c, decodeItems[n - 1])]]]
  BY <1>4, Zenon DEF decodeItems
<1>6. decodeItems[room] =
        [data \in Seq(Byte) |-> [c \in Nat |->
            IF c = 0 THEN DecodedItems(<<>>, 0)
            ELSE IF room = 0 THEN Refused
            ELSE FirstItems(data, c, decodeItems[room - 1])]]
  BY <1>5, Zenon
<1> QED
  BY <1>6

-----------------------------------------------------------------------------
(* Items beside each other. *)
EncodeAll(d, s) == MapAll(encode[d], s)

LEMMA ScalarOrList ==
    ASSUME NEW d \in 0 .. MaxDepth, NEW item \in Items[d], ~IsList(item)
    PROVE  item \in Scalars /\ encode[d][item] = EncodeScalar(item)
BY ScalarItem, EncodeDefined

LEMMA ListEncoded ==
    ASSUME NEW d \in 0 .. MaxDepth, NEW item \in Items[d], IsList(item)
    PROVE  encode[d][item] = Header("L", Len(item.items)) \o EncodeAll(d - 1, item.items)
BY EncodeDefined DEF EncodeAll, MapAll, Mapped

BytesTyped(d) == \A item \in Items[d] :
    encode[d][item] \in Seq(Byte) /\ Len(encode[d][item]) \in Nat /\ Len(encode[d][item]) >= 2

LEMMA AllTyped ==
    ASSUME NEW d \in 0 .. MaxDepth, BytesTyped(d), NEW s \in Seq(Items[d])
    PROVE  EncodeAll(d, s) \in Seq(Byte) /\ Len(EncodeAll(d, s)) \in Nat
<1>1. \A x \in Items[d] : encode[d][x] \in Seq(Byte)
  BY DEF BytesTyped
<1>2. MapAll(encode[d], s) \in Seq(Byte) /\ Len(MapAll(encode[d], s)) \in Nat
  BY <1>1, MapTyped
<1> QED
  BY <1>2 DEF EncodeAll

LEMMA JoinedTyped ==
    ASSUME NEW h \in Seq(Byte), NEW b \in Seq(Byte), Len(h) >= 2
    PROVE  h \o b \in Seq(Byte) /\ Len(h \o b) \in Nat /\ Len(h \o b) >= 2
<1>1. h \o b \in Seq(Byte) /\ Len(h \o b) = Len(h) + Len(b) /\ Len(h) \in Nat /\ Len(b) \in Nat
  BY Pieces2, Sizes
<1> QED
  BY <1>1

LEMMA EncodeTyped ==
    ASSUME NEW d \in 0 .. MaxDepth
    PROVE  BytesTyped(d)
<1> DEFINE T == {c \in Nat : c <= MaxDepth => BytesTyped(c)}
<1>1. ASSUME NEW c \in 0 .. MaxDepth, NEW item \in Items[c], ~IsList(item)
      PROVE  encode[c][item] \in Seq(Byte) /\ Len(encode[c][item]) \in Nat /\ Len(encode[c][item]) >= 2
  <2>1. item \in Scalars /\ encode[c][item] = EncodeScalar(item)
    BY <1>1, ScalarOrList
  <2>2. <<>> \in Seq(Byte)
    OBVIOUS
  <2>3. LET b == EncodeScalar(item) IN b \in Seq(Byte) /\ Len(b) \in Nat /\ Len(b) >= 2
    BY <2>1, <2>2, ScalarRead
  <2> QED
    BY <2>1, <2>3
<1>2. 0 \in T
  <2>1. 0 \in 0 .. MaxDepth
    BY DepthAssumption DEF DepthAssumption
  <2>2. BytesTyped(0)
    BY <1>1, <2>1, GroundItems DEF BytesTyped
  <2> QED
    BY <2>2
<1>3. ASSUME NEW c \in T PROVE c + 1 \in T
  <2> SUFFICES ASSUME c + 1 <= MaxDepth PROVE BytesTyped(c + 1)
    BY <1>3
  <2>1. /\ c \in Nat /\ c \in 0 .. MaxDepth /\ c + 1 \in 0 .. MaxDepth /\ (c + 1) - 1 = c /\ BytesTyped(c)
    BY <1>3, DepthAssumption DEF DepthAssumption
  <2> DEFINE d1 == c + 1
  <2> HIDE DEF d1
  <2>2. d1 \in 0 .. MaxDepth /\ d1 - 1 = c
    BY <2>1 DEF d1
  <2>3. ASSUME NEW item \in Items[d1], IsList(item)
        PROVE  encode[d1][item] \in Seq(Byte) /\ Len(encode[d1][item]) \in Nat /\ Len(encode[d1][item]) >= 2
    <3>1. item.items \in Seq(Items[c]) /\ Len(item.items) \in Nat /\ Len(item.items) <= MaxLength
      BY <2>2, <2>3, ListOfItems
    <3>2. EncodeAll(c, item.items) \in Seq(Byte)
      BY <2>1, <3>1, AllTyped
    <3>3. "L" \in Kinds /\ <<>> \in Seq(Byte)
      BY DEF Kinds
    <3>4. Header("L", Len(item.items)) \in Seq(Byte) /\ Len(Header("L", Len(item.items))) >= 2
      BY <3>1, <3>3, HeaderRead
    <3>5. encode[d1][item] = Header("L", Len(item.items)) \o EncodeAll(c, item.items)
      BY <2>2, <2>3, ListEncoded
    <3> QED
      BY <3>2, <3>4, <3>5, JoinedTyped
  <2>4. BytesTyped(d1)
    BY <1>1, <2>2, <2>3 DEF BytesTyped
  <2> QED
    BY <2>4 DEF d1
<1> HIDE DEF T
<1>4. T \in SUBSET Nat
  BY DEF T
<1>5. \A c \in Nat : c \in T
  BY <1>2, <1>3, <1>4, Induction
<1>6. d \in Nat /\ d <= MaxDepth
  BY DepthAssumption DEF DepthAssumption
<1>7. d \in T
  BY <1>5, <1>6
<1> QED
  BY <1>6, <1>7 DEF T

LEMMA EncodeNone ==
    ASSUME NEW d
    PROVE  EncodeAll(d, <<>>) = <<>>
BY MapNone DEF EncodeAll

LEMMA EncodeFirst ==
    ASSUME NEW d \in 0 .. MaxDepth, NEW s \in Seq(Items[d]), s # <<>>
    PROVE  LET r == Tail(s) IN
           /\ s[1] \in Items[d] /\ r \in Seq(Items[d]) /\ Len(r) = Len(s) - 1 /\ s = <<s[1]>> \o r
           /\ EncodeAll(d, s) = encode[d][s[1]] \o EncodeAll(d, r)
<1>1. \A x \in Items[d] : encode[d][x] \in Seq(Byte)
  BY EncodeTyped DEF BytesTyped
<1>2. MapAll(encode[d], s) = encode[d][s[1]] \o MapAll(encode[d], Tail(s))
  BY <1>1, MapFirst
<1> QED
  BY <1>2, FirstAndOthers DEF EncodeAll

-----------------------------------------------------------------------------
(* The round trip, by induction on the room: what n bytes hold is read with  *)
(* room for n items, whatever comes after it.                                *)
Reads(n) ==
    \A d \in 0 .. MaxDepth : \A s \in Seq(Items[d]) : \A tail \in Seq(Byte) :
        Len(EncodeAll(d, s)) <= n =>
            decodeItems[n][EncodeAll(d, s) \o tail][Len(s)] = DecodedItems(s, Len(EncodeAll(d, s)))

LEMMA ItemRead ==
    ASSUME NEW n \in Nat, Reads(n), NEW d \in 0 .. MaxDepth, NEW item \in Items[d],
           Len(encode[d][item]) <= n + 1, NEW tail \in Seq(Byte)
    PROVE  ItemAt(encode[d][item] \o tail, decodeItems[n]) = Decoded(item, Len(encode[d][item]))
<1> DEFINE b == encode[d][item]
<1>1. CASE ~IsList(item)
  <2>1. item \in Scalars /\ b = EncodeScalar(item)
    BY <1>1, ScalarOrList
  <2>2. ItemAt(EncodeScalar(item) \o tail, decodeItems[n]) = Decoded(item, Len(EncodeScalar(item)))
    BY <2>1, ScalarRead
  <2> QED
    BY <2>1, <2>2
<1>2. CASE IsList(item)
  <2> DEFINE s == item.items
             c == d - 1
             h == Header("L", Len(s))
             all == EncodeAll(c, s)
             rest == all \o tail
  <2>1. /\ c \in 0 .. MaxDepth /\ s \in Seq(Items[c]) /\ Len(s) \in Nat /\ Len(s) <= MaxLength
        /\ item = List(s)
    BY <1>2, ListOfItems
  <2>2. b = h \o all
    BY <1>2, ListEncoded
  <2>3. all \in Seq(Byte) /\ Len(all) \in Nat
    <3> HIDE DEF c, s
    <3> QED
      BY <2>1, EncodeTyped, AllTyped
  <2> HIDE DEF b, c, s, all
  <2>4. rest \in Seq(Byte) /\ Len(rest) \in Nat
    BY <2>3, Pieces2, Sizes
  <2>5. "L" \in Kinds
    BY DEF Kinds
  <2>6. h \in Seq(Byte) /\ Len(h) \in Nat /\ Len(h) >= 2
    BY <2>1, <2>4, <2>5, HeaderRead
  <2>7. Len(b) = Len(h) + Len(all)
    BY <2>2, <2>3, <2>6, Pieces2
  <2>8. Len(all) <= n
    <3>1. Len(b) <= n + 1
      BY DEF b
    <3> HIDE DEF h
    <3> QED
      BY <2>3, <2>6, <2>7, <3>1
  <2>9. decodeItems[n][rest][Len(s)] = DecodedItems(s, Len(all))
    <3>1. Len(EncodeAll(c, s)) <= n
      BY <2>8 DEF all
    <3>2. decodeItems[n][EncodeAll(c, s) \o tail][Len(s)] = DecodedItems(s, Len(EncodeAll(c, s)))
      BY <2>1, <3>1 DEF Reads
    <3> QED
      BY <3>2 DEF all
  <2> HIDE DEF rest
  <2>10. LET r == decodeItems[n][rest][Len(s)] IN
         r.ok /\ r.items = s /\ r.used = Len(all)
    BY <2>9 DEF DecodedItems
  <2>11. ItemAt(h \o rest, decodeItems[n]) =
            IF decodeItems[n][rest][Len(s)].ok
            THEN Decoded(List(decodeItems[n][rest][Len(s)].items),
                         Len(h) + decodeItems[n][rest][Len(s)].used)
            ELSE Refused
    BY <2>1, <2>4, <2>5, ItemAtHeader
  <2> HIDE DEF h
  <2>12. ItemAt(h \o rest, decodeItems[n]) = Decoded(item, Len(b))
    BY <2>1, <2>7, <2>10, <2>11
  <2>13. b \o tail = h \o rest
    BY <2>2, <2>3, <2>6, Regrouped DEF rest
  <2> QED
    BY <2>12, <2>13 DEF b
<1> QED
  BY <1>1, <1>2

LEMMA ReadsNone ==
    ASSUME NEW n \in Nat, NEW d, NEW tail \in Seq(Byte)
    PROVE  decodeItems[n][EncodeAll(d, <<>>) \o tail][Len(<<>>)]
              = DecodedItems(<<>>, Len(EncodeAll(d, <<>>)))
<1>1. EncodeAll(d, <<>>) = <<>> /\ Len(<<>>) = 0 /\ <<>> \in Seq(Byte)
  BY EncodeNone
<1>2. <<>> \o tail \in Seq(Byte)
  BY <1>1, Pieces2
<1>3. decodeItems[n][<<>> \o tail][0] = DecodedItems(<<>>, 0)
  BY <1>2, DecodeItemsDefined
<1> QED
  BY <1>1, <1>3

LEMMA ReadsOneMore ==
    ASSUME NEW n \in Nat, Reads(n), NEW d \in 0 .. MaxDepth, NEW s \in Seq(Items[d]), s # <<>>,
           NEW tail \in Seq(Byte), Len(EncodeAll(d, s)) <= n + 1
    PROVE  decodeItems[n + 1][EncodeAll(d, s) \o tail][Len(s)] = DecodedItems(s, Len(EncodeAll(d, s)))
<1> DEFINE r == Tail(s)
           i == s[1]
           b == encode[d][i]
           all == EncodeAll(d, s)
           others == EncodeAll(d, r)
           rest == others \o tail
           data == all \o tail
<1>1. /\ i \in Items[d] /\ r \in Seq(Items[d]) /\ Len(r) = Len(s) - 1 /\ s = <<i>> \o r
      /\ all = b \o others
  BY EncodeFirst
<1> HIDE DEF r, i
<1>2. /\ b \in Seq(Byte) /\ Len(b) \in Nat /\ Len(b) >= 2
      /\ others \in Seq(Byte) /\ Len(others) \in Nat
  <2>1. BytesTyped(d)
    BY EncodeTyped
  <2>2. b \in Seq(Byte) /\ Len(b) \in Nat /\ Len(b) >= 2
    BY <1>1, <2>1 DEF BytesTyped
  <2>3. others \in Seq(Byte) /\ Len(others) \in Nat
    BY <1>1, <2>1, AllTyped
  <2> QED
    BY <2>2, <2>3
<1>3. Len(all) <= n + 1
  OBVIOUS
<1>4. /\ Len(others) <= n =>
            decodeItems[n][others \o tail][Len(r)] = DecodedItems(r, Len(others))
  BY <1>1 DEF Reads
<1>5. Len(b) <= n + 1 =>
         \A t \in Seq(Byte) : ItemAt(b \o t, decodeItems[n]) = Decoded(i, Len(b))
  BY <1>1, ItemRead
<1>6. Len(s) \in Nat /\ Len(s) # 0
  BY Sizes
<1> HIDE DEF b, others, all
<1>7. rest \in Seq(Byte)
  BY <1>2, Pieces2
<1>8. data = b \o rest /\ data \in Seq(Byte) /\ From(data, Len(b) + 1) = rest
  <2>1. (b \o others) \o tail = b \o (others \o tail)
    BY <1>2, Regrouped
  <2>2. data = b \o rest
    BY <1>1, <2>1
  <2> HIDE DEF rest, data
  <2> QED
    BY <1>2, <1>7, <2>2, Pieces2
<1>9. Len(all) = Len(b) + Len(others)
  BY <1>1, <1>2, Pieces2
<1>10. Len(others) <= n /\ Len(b) <= n + 1
  BY <1>2, <1>3, <1>9
<1> HIDE DEF rest, data
<1>11. ItemAt(data, decodeItems[n]) = Decoded(i, Len(b))
  BY <1>5, <1>7, <1>8, <1>10
<1>12. decodeItems[n][rest][Len(s) - 1] = DecodedItems(r, Len(others))
  BY <1>1, <1>4, <1>10 DEF rest
<1>13. FirstItems(data, Len(s), decodeItems[n]) = DecodedItems(s, Len(all))
  <2> DEFINE child == ItemAt(data, decodeItems[n])
             after == decodeItems[n][From(data, 1 + NextChild(child))][Len(s) - 1]
  <2>1. child.ok /\ child.item = i /\ NextChild(child) = Len(b)
    BY <1>11 DEF Decoded, NextChild
  <2> HIDE DEF child
  <2>2. 1 + NextChild(child) = Len(b) + 1
    BY <1>2, <2>1
  <2>3. after = DecodedItems(r, Len(others))
    BY <1>8, <1>12, <2>2
  <2> HIDE DEF after
  <2>4. after.ok /\ after.items = r /\ after.used = Len(others)
    BY <2>3 DEF DecodedItems
  <2>5. FirstItems(data, Len(s), decodeItems[n]) =
           IF child.ok /\ after.ok
           THEN DecodedItems(<<child.item>> \o after.items, NextChild(child) + after.used)
           ELSE Refused
    BY DEF FirstItems, child, after
  <2> QED
    BY <1>1, <1>9, <2>1, <2>4, <2>5
<1>14. decodeItems[n + 1][data][Len(s)] = FirstItems(data, Len(s), decodeItems[n])
  <2> DEFINE m == n + 1
  <2>1. m \in Nat /\ m # 0 /\ m - 1 = n
    OBVIOUS
  <2> HIDE DEF m
  <2>2. decodeItems[m][data][Len(s)] =
              IF Len(s) = 0 THEN DecodedItems(<<>>, 0)
              ELSE IF m = 0 THEN Refused
              ELSE FirstItems(data, Len(s), decodeItems[m - 1])
    BY <1>6, <1>8, <2>1, DecodeItemsDefined
  <2> QED
    BY <1>6, <2>1, <2>2 DEF m
<1> QED
  BY <1>13, <1>14 DEF data, all

LEMMA ReadsAlways ==
    \A n \in Nat : Reads(n)
<1> DEFINE T == {n \in Nat : Reads(n)}
<1>1. 0 \in T
  <2> SUFFICES ASSUME NEW d \in 0 .. MaxDepth, NEW s \in Seq(Items[d]), NEW tail \in Seq(Byte),
                      Len(EncodeAll(d, s)) <= 0
               PROVE  decodeItems[0][EncodeAll(d, s) \o tail][Len(s)]
                         = DecodedItems(s, Len(EncodeAll(d, s)))
    BY DEF Reads
  <2>1. CASE s = <<>>
    BY <2>1, ReadsNone
  <2>2. CASE s # <<>>
    <3> DEFINE b == encode[d][s[1]]
               others == EncodeAll(d, Tail(s))
    <3>1. /\ s[1] \in Items[d] /\ Tail(s) \in Seq(Items[d]) /\ EncodeAll(d, s) = b \o others
      BY <2>2, EncodeFirst
    <3>2. BytesTyped(d)
      BY EncodeTyped
    <3>3. b \in Seq(Byte) /\ Len(b) \in Nat /\ Len(b) >= 2
      BY <3>1, <3>2 DEF BytesTyped
    <3>4. others \in Seq(Byte) /\ Len(others) \in Nat
      BY <3>1, <3>2, AllTyped
    <3> HIDE DEF b, others
    <3>5. Len(EncodeAll(d, s)) = Len(b) + Len(others)
      BY <3>1, <3>3, <3>4, Pieces2
    <3> QED
      BY <3>3, <3>4, <3>5
  <2> QED
    BY <2>1, <2>2
<1>2. ASSUME NEW n \in T PROVE n + 1 \in T
  <2>1. n \in Nat /\ n + 1 \in Nat /\ Reads(n)
    BY <1>2
  <2>2. ASSUME NEW d \in 0 .. MaxDepth, NEW s \in Seq(Items[d]), NEW tail \in Seq(Byte),
               Len(EncodeAll(d, s)) <= n + 1
        PROVE  decodeItems[n + 1][EncodeAll(d, s) \o tail][Len(s)]
                  = DecodedItems(s, Len(EncodeAll(d, s)))
    <3>1. CASE s = <<>>
      BY <2>1, <3>1, ReadsNone
    <3>2. CASE s # <<>>
      BY <2>1, <2>2, <3>2, ReadsOneMore
    <3> QED
      BY <3>1, <3>2
  <2>3. Reads(n + 1)
    BY <2>2 DEF Reads
  <2> QED
    BY <2>1, <2>3
<1> HIDE DEF T
<1>3. T \in SUBSET Nat
  BY DEF T
<1>4. \A n \in Nat : n \in T
  BY <1>1, <1>2, <1>3, Induction
<1> QED
  BY <1>4 DEF T

\* Every item is decoded as it was encoded, and takes exactly the bytes it was encoded
\* in, whatever comes after them: any number of its type, any text or list a length
\* of three bytes can announce, lists of any depth (items.go: EncodeItem, DecodeItem).
THEOREM ItemRoundTrip ==
    ASSUME NEW item \in Item, NEW tail \in Seq(Byte)
    PROVE  DecodeItem(EncodeItem(item) \o tail) = Decoded(item, Len(EncodeItem(item)))
<1> DEFINE b == EncodeItem(item)
           data == b \o tail
           n == Len(data)
<1>1. MaxDepth \in 0 .. MaxDepth /\ item \in Items[MaxDepth] /\ b = encode[MaxDepth][item]
  BY DepthAssumption DEF DepthAssumption, Item, EncodeItem
<1>2. BytesTyped(MaxDepth)
  BY <1>1, EncodeTyped
<1>3. b \in Seq(Byte) /\ Len(b) \in Nat
  BY <1>1, <1>2 DEF BytesTyped
<1> HIDE DEF b
<1>4. n = Len(b) + Len(tail) /\ Len(tail) \in Nat
  BY <1>3, Pieces2, Sizes
<1>5. n \in Nat /\ Len(b) <= n + 1
  BY <1>3, <1>4
<1> HIDE DEF n
<1>6. Reads(n)
  BY <1>5, ReadsAlways
<1>7. ItemAt(encode[MaxDepth][item] \o tail, decodeItems[n]) = Decoded(item, Len(encode[MaxDepth][item]))
  <2>1. Len(encode[MaxDepth][item]) <= n + 1
    BY <1>1, <1>5
  <2> QED
    BY <1>1, <1>5, <1>6, <2>1, ItemRead
<1>8. ItemAt(data, decodeItems[n]) = Decoded(item, Len(b))
  BY <1>1, <1>7
<1> QED
  BY <1>8 DEF DecodeItem, b, n

-----------------------------------------------------------------------------
(* Messages: with a body or without, whose frame has a length that fits.     *)
BodyBytes(m) == IF m.body = NoBody THEN <<>> ELSE EncodeItem(m.body)
Messages == [session : Word16, stream : 0 .. 127, function : Byte, wbit : BOOLEAN,
             system : Word32, body : {NoBody} \cup Item]
Sendable == {m \in Messages : HeaderLength + Len(BodyBytes(m)) \in Word32}

LEMMA ItemBytes ==
    ASSUME NEW item \in Item
    PROVE  EncodeItem(item) \in Seq(Byte) /\ Len(EncodeItem(item)) \in Nat /\ EncodeItem(item) # <<>>
<1>1. MaxDepth \in 0 .. MaxDepth /\ item \in Items[MaxDepth] /\ EncodeItem(item) = encode[MaxDepth][item]
  BY DepthAssumption DEF DepthAssumption, Item, EncodeItem
<1>2. BytesTyped(MaxDepth)
  BY <1>1, EncodeTyped
<1>3. EncodeItem(item) \in Seq(Byte) /\ Len(EncodeItem(item)) \in Nat /\ Len(EncodeItem(item)) >= 2
  BY <1>1, <1>2 DEF BytesTyped
<1>4. Len(<<>>) = 0
  OBVIOUS
<1> QED
  BY <1>3, <1>4

LEMMA MessageFrame ==
    ASSUME NEW m \in Messages
    PROVE  LET f == EncodeMessage(m) IN
           /\ f \in Frame /\ WellFormed(f) /\ f.stype = DataSType /\ f.body = BodyBytes(m)
           /\ f.session = m.session /\ f.stream = m.stream /\ f.function = m.function
           /\ f.wbit = m.wbit /\ f.system = m.system
<1> DEFINE f == EncodeMessage(m)
           b == BodyBytes(m)
<1>1. /\ m.session \in Word16 /\ m.stream \in 0 .. 127 /\ m.function \in Byte /\ m.wbit \in BOOLEAN
      /\ m.system \in Word32 /\ m.body \in {NoBody} \cup Item
  BY DEF Messages
<1>2. b \in Seq(Byte)
  <2>1. CASE m.body = NoBody
    BY <2>1 DEF BodyBytes
  <2>2. CASE m.body # NoBody
    BY <1>1, <2>2, ItemBytes DEF BodyBytes
  <2> QED
    BY <2>1, <2>2
<1>3. f = DataFrame(m.session, m.system, m.stream, m.function, m.wbit, b)
  BY DEF EncodeMessage, BodyBytes
<1> HIDE DEF b
<1>4. /\ f.stype = DataSType /\ f.body = b /\ f.session = m.session /\ f.stream = m.stream
      /\ f.function = m.function /\ f.wbit = m.wbit /\ f.system = m.system /\ f.code = 0
  BY <1>3 DEF DataFrame
<1>5. 0 \in Byte
  BY DEF Byte
<1>6. f \in Frame
  BY <1>1, <1>2, <1>3, <1>5 DEF DataFrame, Frame, DataSType
<1>7. WellFormed(f)
  BY <1>4 DEF WellFormed
<1> QED
  BY <1>4, <1>6, <1>7 DEF b

LEMMA MessageDecoded ==
    ASSUME NEW m \in Messages
    PROVE  DecodeMessage(EncodeMessage(m)) = [ok |-> TRUE, message |-> m]
<1> DEFINE f == EncodeMessage(m)
<1>1. /\ f.stype = DataSType /\ f.body = BodyBytes(m)
      /\ f.session = m.session /\ f.stream = m.stream /\ f.function = m.function
      /\ f.wbit = m.wbit /\ f.system = m.system
  BY MessageFrame
<1> HIDE DEF f
<1>2. m = Message(m.session, m.stream, m.function, m.wbit, m.system, m.body)
  BY DEF Messages, Message
<1>3. m.body \in {NoBody} \cup Item
  BY DEF Messages
<1>4. CASE m.body = NoBody
  <2>1. f.body = <<>>
    BY <1>1, <1>4 DEF BodyBytes
  <2>2. DecodeMessage(f) = [ok |-> TRUE,
            message |-> Message(f.session, f.stream, f.function, f.wbit, f.system, NoBody)]
    BY <1>1, <2>1 DEF DecodeMessage
  <2> QED
    BY <1>1, <1>2, <1>4, <2>2 DEF f
<1>5. CASE m.body # NoBody
  <2> DEFINE b == EncodeItem(m.body)
  <2>1. b \in Seq(Byte) /\ b # <<>>
    BY <1>3, <1>5, ItemBytes
  <2>2. f.body = b
    BY <1>1, <1>5 DEF BodyBytes
  <2>3. DecodeItem(b) = Decoded(m.body, Len(b))
    <3>1. <<>> \in Seq(Byte) /\ b \o <<>> = b
      BY <2>1, JoinedOne
    <3>2. DecodeItem(b \o <<>>) = Decoded(m.body, Len(b))
      BY <1>3, <1>5, <3>1, ItemRoundTrip
    <3> QED
      BY <3>1, <3>2
  <2> HIDE DEF b
  <2>4. LET body == DecodeItem(f.body) IN body.ok /\ body.used = Len(f.body) /\ body.item = m.body
    BY <2>2, <2>3 DEF Decoded
  <2>5. DecodeMessage(f) = [ok |-> TRUE,
            message |-> Message(f.session, f.stream, f.function, f.wbit, f.system, m.body)]
    BY <1>1, <2>1, <2>2, <2>4 DEF DecodeMessage
  <2> QED
    BY <1>1, <1>2, <2>5 DEF f
<1> QED
  BY <1>4, <1>5

\* A message goes into the bytes of a frame and comes out of them as it was: session,
\* stream, function, W bit, system bytes and body (message.go: EncodeMessage,
\* DecodeMessage; frame.go: WriteFrame, decodeFrame), for every body the length of a
\* frame has room for.
THEOREM MessageRoundTrip ==
    ASSUME NEW m \in Sendable
    PROVE  LET b == EncodeFrame(EncodeMessage(m)) IN
           /\ IsWritten(b)
           /\ DecodeMessage(DecodeFrame(From(b, 5))) = [ok |-> TRUE, message |-> m]
<1> DEFINE f == EncodeMessage(m)
<1>1. m \in Messages /\ HeaderLength + Len(BodyBytes(m)) \in Word32
  BY DEF Sendable
<1>2. f \in Frame /\ WellFormed(f) /\ f.body = BodyBytes(m)
  BY <1>1, MessageFrame
<1>3. DecodeMessage(f) = [ok |-> TRUE, message |-> m]
  BY <1>1, MessageDecoded
<1> HIDE DEF f
<1>4. LET b == EncodeFrame(f) IN IsWritten(b) /\ DecodeFrame(From(b, 5)) = f
  BY <1>1, <1>2, FrameRoundTrip
<1> QED
  BY <1>3, <1>4 DEF f

(* A peer that encodes its messages as the simulator does, and may also write*)
(* what is no message; and the session that decodes them.                    *)
Encoded(o) == o.message \in Sendable /\ o.bytes = EncodeFrame(EncodeMessage(o.message))
NoMessage(o) ==
    /\ o.message = Refused
    /\ Len(o.bytes) >= 4 + HeaderLength => ~DecodeMessage(DecodeFrame(From(o.bytes, 5))).ok
PeerEncodes == \A o \in Outgoing : Encoded(o) \/ NoMessage(o)
SessionDecodes == \A f : MessageOf(f) = DecodeMessage(f)

LEMMA DecodeAnswers ==
    ASSUME NEW f
    PROVE  DecodeMessage(f).ok \in BOOLEAN
<1> DEFINE body == DecodeItem(f.body)
<1>1. CASE f.stype # DataSType
  BY <1>1 DEF DecodeMessage, Refused
<1>2. CASE f.stype = DataSType /\ f.body = <<>>
  BY <1>2 DEF DecodeMessage
<1>3. CASE f.stype = DataSType /\ f.body # <<>> /\ body.ok /\ body.used = Len(f.body)
  BY <1>3 DEF DecodeMessage
<1>4. CASE f.stype = DataSType /\ f.body # <<>> /\ ~(body.ok /\ body.used = Len(f.body))
  BY <1>4 DEF DecodeMessage, Refused
<1> QED
  BY <1>1, <1>2, <1>3, <1>4

LEMMA CodecIsFaithful ==
    ASSUME PeerEncodes, SessionDecodes
    PROVE  FaithfulCodec
<1> SUFFICES ASSUME NEW o \in Outgoing, Len(o.bytes) >= 4 + HeaderLength
             PROVE  LET d == MessageOf(DecodeFrame(From(o.bytes, 5)))
                    IN  d.ok = (o.message # Refused) /\ (d.ok => d.message = o.message)
  BY DEF FaithfulCodec
<1> DEFINE f == DecodeFrame(From(o.bytes, 5))
           d == DecodeMessage(f)
<1>1. MessageOf(f) = d
  BY DEF SessionDecodes
<1>2. CASE Encoded(o)
  <2>1. o.message \in Sendable /\ o.bytes = EncodeFrame(EncodeMessage(o.message))
    BY <1>2 DEF Encoded
  <2>2. d = [ok |-> TRUE, message |-> o.message]
    BY <2>1, MessageRoundTrip
  <2>3. o.message # Refused
    <3>1. DOMAIN o.message = {"session", "stream", "function", "wbit", "system", "body"}
      BY <2>1 DEF Sendable, Messages
    <3>2. DOMAIN Refused = {"ok"}
      BY DEF Refused
    <3>3. "session" \notin DOMAIN Refused
      BY <3>2
    <3> QED
      BY <3>1, <3>3
  <2>4. d.ok = TRUE /\ d.message = o.message
    BY <2>2
  <2> HIDE DEF d, f
  <2> QED
    BY <1>1, <2>3, <2>4 DEF f
<1>3. CASE NoMessage(o)
  <2>1. o.message = Refused /\ ~d.ok
    BY <1>3 DEF NoMessage
  <2>2. d.ok \in BOOLEAN
    BY DecodeAnswers
  <2> HIDE DEF d, f
  <2>3. d.ok = FALSE
    BY <2>1, <2>2
  <2> QED
    BY <1>1, <2>1, <2>3 DEF f
<1> QED
  BY <1>2, <1>3 DEF PeerEncodes

\* With the simulator's own codec the log shows exactly the messages a peer encodes,
\* in their order, wherever the network cuts the bytes and whatever else the peer
\* writes that is no message (frame.go, items.go, message.go, session.go).
THEOREM EncodedMessagesArrive ==
    PeerEncodes /\ SessionDecodes => (StreamSpec => []MessagesArrive)
<1>1. PeerEncodes /\ SessionDecodes => FaithfulCodec
  BY CodecIsFaithful
<1> QED
  BY <1>1, MessagesAllArrive

-----------------------------------------------------------------------------
(* The decoder on bytes of any kind.                                         *)
LEMMA LowBits ==
    ASSUME NEW b \in Byte
    PROVE  b % 4 \in {0, 1, 2, 3}
<1>1. b \in Int /\ b >= 0
  BY DEF Byte
<1> QED
  BY <1>1

LEMMA BytesAreNaturals == \A b \in Byte : b \in Nat
BY DEF Byte

LEMMA WordsAreNaturals ==
    ASSUME NEW a \in Nat, NEW b \in Nat
    PROVE  Word2(a, b) \in Nat
BY DEF Word2

(* The parts of an item's header. *)
LEMMA HeaderParts ==
    ASSUME NEW data \in Seq(Byte), Len(data) >= 2, data[1] % 4 # 0, Len(data) >= 1 + (data[1] % 4)
    PROVE  LET w    == data[1] % 4
               rest == From(data, 2 + w)
           IN  /\ w \in 1 .. 3 /\ FromBytes(SubSeq(data, 2, 1 + w), FALSE) \in Nat
               /\ rest \in Seq(Byte) /\ Len(rest) = Len(data) - (1 + w) /\ Len(rest) \in Nat
<1> DEFINE w    == data[1] % 4
           sub  == SubSeq(data, 2, 1 + w)
           rest == From(data, 2 + w)
<1>1. Len(data) \in Nat /\ \A i \in 1 .. Len(data) : data[i] \in Byte
  BY Sizes
<1>2. data[1] \in Byte
  <2>1. 1 \in 1 .. Len(data)
    BY <1>1
  <2> QED
    BY <1>1, <2>1
<1>3. w \in {1, 2, 3}
  <2>1. w \in {0, 1, 2, 3} /\ w # 0
    BY <1>2, LowBits
  <2> HIDE DEF w
  <2> QED
    BY <2>1
<1>4. Len(data) >= 1 + w
  BY Zenon
<1> HIDE DEF w
<1>5. sub \in Seq(Byte) /\ Len(sub) = w
  <2>1. 2 \in Nat /\ 1 + w \in Nat /\ 2 <= 1 + w /\ (1 + w) - 2 + 1 = w
    BY <1>3
  <2>2. \A i \in 2 .. 1 + w : data[i] \in Byte
    <3>1. \A i \in 2 .. 1 + w : i \in 1 .. Len(data)
      BY <1>1, <1>3, <1>4
    <3> QED
      BY <1>1, <3>1
  <2>3. sub \in Seq(Byte) /\ Len(sub) = (IF 2 <= 1 + w THEN (1 + w) - 2 + 1 ELSE 0)
    BY <2>1, <2>2, SubSeqProperties
  <2> HIDE DEF sub
  <2> QED
    BY <2>1, <2>3
<1>6. FromBytes(sub, FALSE) \in Nat
  <2> HIDE DEF sub
  <2>1. \A i \in 1 .. Len(sub) : sub[i] \in Nat
    BY <1>5, Sizes, BytesAreNaturals
  <2>2. CASE w = 1
    <3>1. FromBytes(sub, FALSE) = sub[1] /\ 1 \in 1 .. Len(sub)
      BY <1>5, <2>2 DEF FromBytes
    <3> QED
      BY <2>1, <3>1
  <2>3. CASE w = 2
    <3>1. FromBytes(sub, FALSE) = Word2(sub[1], sub[2]) /\ 1 \in 1 .. Len(sub) /\ 2 \in 1 .. Len(sub)
      BY <1>5, <2>3 DEF FromBytes
    <3> QED
      BY <2>1, <3>1, WordsAreNaturals
  <2>4. CASE w = 3
    <3>1. /\ FromBytes(sub, FALSE) = Word2(Word2(sub[1], sub[2]), sub[3])
          /\ 1 \in 1 .. Len(sub) /\ 2 \in 1 .. Len(sub) /\ 3 \in 1 .. Len(sub)
      BY <1>5, <2>4 DEF FromBytes
    <3>2. Word2(sub[1], sub[2]) \in Nat
      BY <2>1, <3>1, WordsAreNaturals
    <3> QED
      BY <2>1, <3>1, <3>2, WordsAreNaturals
  <2> QED
    BY <1>3, <2>2, <2>3, <2>4
<1>7. rest \in Seq(Byte) /\ Len(rest) = Len(data) - (1 + w) /\ Len(rest) \in Nat
  <2> DEFINE n == 1 + w
  <2>1. n \in Nat /\ n <= Len(data) /\ 2 + w = n + 1
    BY <1>3, <1>4
  <2> HIDE DEF n
  <2>2. From(data, n + 1) \in Seq(Byte) /\ Len(From(data, n + 1)) = Len(data) - n
    BY <2>1, Dropped DEF From
  <2>3. Len(data) - n \in Nat
    BY <1>1, <2>1
  <2> QED
    BY <2>1, <2>2, <2>3 DEF n
<1>8. w \in 1 .. 3
  BY <1>3
<1> HIDE DEF sub, rest
<1> QED
  BY <1>6, <1>7, <1>8, Zenon DEF w, sub, rest

(* The item of some bytes by the parts of its header.                        *)
LEMMA ItemAtParts ==
    ASSUME NEW data \in Seq(Byte), NEW children
    PROVE  LET w      == data[1] % 4
               t      == TypeOf(data[1] - w)
               length == FromBytes(SubSeq(data, 2, 1 + w), FALSE)
               rest   == From(data, 2 + w)
               list   == children[rest][length]
           IN  ItemAt(data, children) =
                  IF Len(data) < 2 \/ w = 0 \/ Len(data) < 1 + w THEN Refused
                  ELSE IF t = "L"
                  THEN IF list.ok THEN Decoded(List(list.items), 1 + w + list.used) ELSE Refused
                  ELSE IF Len(rest) < length THEN Refused
                  ELSE DecodeScalar(t, SubSeq(rest, 1, length), 1 + w + length)
<1> DEFINE w      == data[1] % 4
           t      == TypeOf(data[1] - w)
           length == FromBytes(SubSeq(data, 2, 1 + w), FALSE)
           rest   == From(data, 2 + w)
           list   == children[rest][length]
           scalar == DecodeScalar(t, SubSeq(rest, 1, length), 1 + w + length)
           inner  == CASE t = "L" -> IF list.ok THEN Decoded(List(list.items), 1 + w + list.used) ELSE Refused
                       [] t # "L" /\ Len(rest) < length -> Refused
                       [] t # "L" /\ Len(rest) >= length -> scalar
<1>0. ItemAt(data, children) =
        CASE Len(data) < 2 -> Refused
          [] Len(data) >= 2 /\ (w = 0 \/ Len(data) < 1 + w) -> Refused
          [] Len(data) >= 2 /\ w # 0 /\ Len(data) >= 1 + w -> inner
  BY DEF ItemAt
<1>1. Len(data) \in Nat
  BY Sizes
<1>2. CASE Len(data) < 2
  <2>1. ~(Len(data) >= 2)
    BY <1>1, <1>2
  <2> HIDE DEF inner, w, t, rest, length
  <2> QED
    BY <1>0, <1>2, <2>1
<1>3. CASE Len(data) >= 2 /\ (w = 0 \/ Len(data) < 1 + w)
  <2>1. ~(Len(data) < 2) /\ ~(w # 0 /\ Len(data) >= 1 + w)
    <3>1. data[1] \in Byte
      <4>1. 1 \in 1 .. Len(data)
        BY <1>1, <1>3
      <4> QED
        BY <4>1, Sizes
    <3>2. w \in {0, 1, 2, 3}
      BY <3>1, LowBits
    <3> HIDE DEF w
    <3> QED
      BY <1>1, <1>3, <3>2
  <2> HIDE DEF inner, w, t, rest, length
  <2> QED
    BY <1>0, <1>3, <2>1 DEF w
<1>4. CASE Len(data) >= 2 /\ w # 0 /\ ~(Len(data) < 1 + w)
  <2>1. data[1] \in Byte
    <3>1. 1 \in 1 .. Len(data)
      BY <1>1, <1>4
    <3> QED
      BY <3>1, Sizes
  <2>2. w \in {0, 1, 2, 3}
    BY <2>1, LowBits
  <2> HIDE DEF w
  <2>3. Len(data) >= 1 + w /\ ~(Len(data) < 2)
    BY <1>1, <1>4, <2>2
  <2>4. length \in Nat /\ Len(rest) \in Nat
    <3>1. Len(data) >= 2 /\ data[1] % 4 # 0 /\ Len(data) >= 1 + (data[1] % 4)
      BY <1>1, <1>4, <2>3 DEF w
    <3> HIDE DEF length, rest
    <3> QED
      BY <3>1, HeaderParts DEF w, length, rest
  <2> HIDE DEF inner, t, rest, length
  <2>5. ItemAt(data, children) = inner
    BY <1>0, <1>4, <2>3
  <2>6. ~(Len(rest) < length) <=> Len(rest) >= length
    BY <2>4
  <2>7. inner = IF t = "L"
                THEN IF list.ok THEN Decoded(List(list.items), 1 + w + list.used) ELSE Refused
                ELSE IF Len(rest) < length THEN Refused
                ELSE scalar
    <3>1. CASE t = "L"
      BY <3>1 DEF inner
    <3>2. CASE t # "L" /\ Len(rest) < length
      BY <2>6, <3>2 DEF inner
    <3>3. CASE t # "L" /\ ~(Len(rest) < length)
      BY <2>6, <3>3 DEF inner
    <3> QED
      BY <3>1, <3>2, <3>3
  <2> HIDE DEF list, scalar
  <2> QED
    BY <1>4, <2>3, <2>5, <2>7 DEF w, t, rest, length, list, scalar
<1>5. Len(data) < 2 \/ Len(data) >= 2
  BY <1>1
<1> QED
  BY <1>2, <1>3, <1>4, <1>5, Zenon

(* A scalar takes the bytes its header announces.                            *)
LEMMA ScalarAnswers ==
    ASSUME NEW t, NEW p, NEW used
    PROVE  \/ DecodeScalar(t, p, used) = Refused
           \/ \E i : DecodeScalar(t, p, used) = Decoded(i, used)
<1>1. CASE t = "B"
  BY <1>1 DEF DecodeScalar, Numeric, Signed, Unsigned
<1>2. CASE t = "A"
  BY <1>2 DEF DecodeScalar, Numeric, Signed, Unsigned
<1>3. CASE t = "BOOLEAN" /\ Len(p) = 1
  BY <1>3 DEF DecodeScalar, Numeric, Signed, Unsigned
<1>4. CASE t \in Numeric /\ Len(p) = Width(t)
  <2>1. t # "B" /\ t # "A" /\ t # "BOOLEAN"
    BY <1>4 DEF Numeric, Signed, Unsigned
  <2> QED
    BY <1>4, <2>1 DEF DecodeScalar
<1>5. CASE /\ t # "B" /\ t # "A" /\ ~(t = "BOOLEAN" /\ Len(p) = 1)
           /\ ~(t \in Numeric /\ Len(p) = Width(t))
  BY <1>5 DEF DecodeScalar
<1> QED
  BY <1>1, <1>2, <1>3, <1>4, <1>5

(* Items read with some room stay inside the bytes they are read from.       *)
EndsInside(answer, data) ==
    \/ answer.ok = FALSE
    \/ answer.ok = TRUE /\ answer.used \in Nat /\ answer.used <= Len(data)
StaysInside(room) ==
    \A data \in Seq(Byte), n \in Nat : EndsInside(decodeItems[room][data][n], data)

LEMMA ItemStaysInside ==
    ASSUME NEW room \in Nat, StaysInside(room), NEW data \in Seq(Byte)
    PROVE  LET item == ItemAt(data, decodeItems[room])
           IN  EndsInside(item, data) /\ (item.ok => item.used >= 2)
<1> DEFINE w      == data[1] % 4
           t      == TypeOf(data[1] - w)
           length == FromBytes(SubSeq(data, 2, 1 + w), FALSE)
           rest   == From(data, 2 + w)
           list   == decodeItems[room][rest][length]
           item   == ItemAt(data, decodeItems[room])
           scalar == DecodeScalar(t, SubSeq(rest, 1, length), 1 + w + length)
<1>1. item = IF Len(data) < 2 \/ w = 0 \/ Len(data) < 1 + w THEN Refused
             ELSE IF t = "L"
             THEN IF list.ok THEN Decoded(List(list.items), 1 + w + list.used) ELSE Refused
             ELSE IF Len(rest) < length THEN Refused
             ELSE scalar
  BY ItemAtParts
<1>2. Len(data) \in Nat
  BY Sizes
<1>3. CASE item = Refused
  <2> HIDE DEF item
  <2>1. item.ok = FALSE
    BY <1>3 DEF Refused
  <2> QED
    BY <2>1 DEF EndsInside, item
<1>4. CASE item # Refused
  <2>1. Len(data) >= 2 /\ data[1] % 4 # 0 /\ Len(data) >= 1 + (data[1] % 4)
    <3>1. ~(Len(data) < 2) /\ w # 0 /\ ~(Len(data) < 1 + w)
      <4> HIDE DEF item, list, scalar, t, rest, length
      <4> QED
        BY <1>1, <1>4
    <3>2. data[1] \in Byte
      <4>1. 1 \in 1 .. Len(data)
        BY <1>2, <3>1
      <4> QED
        BY <4>1, Sizes
    <3>3. w \in {0, 1, 2, 3}
      BY <3>2, LowBits
    <3>4. Len(data) >= 2 /\ w # 0 /\ Len(data) >= 1 + w
      <4> HIDE DEF w
      <4> QED
        BY <1>2, <3>1, <3>3
    <3> QED
      BY <3>4, Zenon DEF w
  <2>2. /\ w \in 1 .. 3 /\ length \in Nat
        /\ rest \in Seq(Byte) /\ Len(rest) = Len(data) - (1 + w) /\ Len(rest) \in Nat
    BY <2>1, HeaderParts
  <2>3. EndsInside(list, rest)
    <3> HIDE DEF length, rest
    <3> QED
      BY <2>2 DEF StaysInside
  <2>4. ~(Len(data) < 2 \/ w = 0 \/ Len(data) < 1 + w)
    <3>1. Len(data) >= 2 /\ Len(data) >= 1 + w /\ w \in 1 .. 3
      BY <2>1, <2>2, Zenon DEF w
    <3> HIDE DEF w
    <3> QED
      BY <1>2, <3>1
  <2> HIDE DEF w, length, rest, t
  <2>5. CASE t = "L"
    <3> HIDE DEF list, scalar, item
    <3>1. list.ok /\ item = Decoded(List(list.items), 1 + w + list.used)
      BY <1>1, <1>4, <2>4, <2>5
    <3>2. list.used \in Nat /\ list.used <= Len(rest)
      BY <2>3, <3>1 DEF EndsInside
    <3>3. item.ok = TRUE /\ item.used = 1 + w + list.used
      BY <3>1 DEF Decoded
    <3>4. item.used \in Nat /\ item.used <= Len(data) /\ item.used >= 2
      BY <1>2, <2>2, <3>2, <3>3
    <3> QED
      BY <3>3, <3>4 DEF EndsInside, item
  <2>6. CASE t # "L"
    <3> HIDE DEF list, item
    <3>1. ~(Len(rest) < length) /\ item = scalar
      <4> HIDE DEF scalar
      <4> QED
        BY <1>1, <1>4, <2>4, <2>6
    <3>2. PICK i : scalar = Decoded(i, 1 + w + length)
      BY <1>4, <3>1, ScalarAnswers
    <3> HIDE DEF scalar
    <3>3. item.ok = TRUE /\ item.used = 1 + w + length
      BY <3>1, <3>2 DEF Decoded
    <3>4. item.used \in Nat /\ item.used <= Len(data) /\ item.used >= 2
      BY <1>2, <2>2, <3>1, <3>3
    <3> QED
      BY <3>3, <3>4 DEF EndsInside, item
  <2> QED
    BY <2>5, <2>6
<1> QED
  BY <1>3, <1>4

(* Where the bytes go on after an item. *)
LEMMA AfterItem ==
    ASSUME NEW data \in Seq(Byte), NEW used \in Nat, used <= Len(data)
    PROVE  LET rest == From(data, 1 + used)
           IN  rest \in Seq(Byte) /\ Len(rest) = Len(data) - used /\ Len(rest) \in Nat
<1>1. Len(data) \in Nat
  BY Sizes
<1>2. From(data, used + 1) \in Seq(Byte) /\ Len(From(data, used + 1)) = Len(data) - used
  BY Dropped DEF From
<1>3. 1 + used = used + 1 /\ Len(data) - used \in Nat
  BY <1>1
<1> QED
  BY <1>2, <1>3

LEMMA AllStayInside ==
    \A room \in Nat : StaysInside(room)
<1> DEFINE T == {room \in Nat : StaysInside(room)}
<1>0. \A data \in Seq(Byte) : EndsInside(DecodedItems(<<>>, 0), data)
  <2> SUFFICES ASSUME NEW data \in Seq(Byte) PROVE EndsInside(DecodedItems(<<>>, 0), data)
    OBVIOUS
  <2>1. Len(data) \in Nat
    BY Sizes
  <2> QED
    BY <2>1 DEF EndsInside, DecodedItems
<1>00. \A data : EndsInside(Refused, data)
  BY DEF EndsInside, Refused
<1>1. 0 \in T
  <2> SUFFICES ASSUME NEW data \in Seq(Byte), NEW n \in Nat
               PROVE  EndsInside(decodeItems[0][data][n], data)
    BY DEF StaysInside
  <2>1. decodeItems[0][data][n] = IF n = 0 THEN DecodedItems(<<>>, 0) ELSE Refused
    BY DecodeItemsDefined
  <2> QED
    BY <1>0, <1>00, <2>1
<1>2. ASSUME NEW room \in T PROVE room + 1 \in T
  <2> DEFINE more == room + 1
  <2>1. room \in Nat /\ StaysInside(room) /\ more \in Nat /\ more # 0 /\ more - 1 = room
    OBVIOUS
  <2> HIDE DEF more
  <2> SUFFICES ASSUME NEW data \in Seq(Byte), NEW n \in Nat
               PROVE  EndsInside(decodeItems[more][data][n], data)
    BY <2>1 DEF StaysInside, more
  <2>2. decodeItems[more][data][n] =
           IF n = 0 THEN DecodedItems(<<>>, 0)
           ELSE IF more = 0 THEN Refused
           ELSE FirstItems(data, n, decodeItems[more - 1])
    BY <2>1, DecodeItemsDefined
  <2>3. CASE n = 0
    BY <1>0, <2>2, <2>3
  <2>4. CASE n # 0
    <3> DEFINE child == ItemAt(data, decodeItems[room])
               rest  == From(data, 1 + NextChild(child))
               after == decodeItems[room][rest][n - 1]
               all   == FirstItems(data, n, decodeItems[room])
    <3>1. decodeItems[more][data][n] = all
      BY <2>1, <2>2, <2>4
    <3>2. all = IF child.ok /\ after.ok
                THEN DecodedItems(<<child.item>> \o after.items, NextChild(child) + after.used)
                ELSE Refused
      BY DEF FirstItems
    <3>3. EndsInside(child, data)
      BY <2>1, ItemStaysInside
    <3> HIDE DEF all, child
    <3>4. CASE child.ok /\ after.ok
      <4>1. child.used \in Nat /\ child.used <= Len(data) /\ NextChild(child) = child.used
        BY <3>3, <3>4 DEF EndsInside, NextChild
      <4>2. rest \in Seq(Byte) /\ Len(rest) = Len(data) - child.used
        BY <4>1, AfterItem
      <4>3. n - 1 \in Nat /\ Len(data) \in Nat
        BY <2>4, Sizes
      <4> HIDE DEF rest
      <4>4. EndsInside(after, rest)
        BY <2>1, <4>2, <4>3 DEF StaysInside
      <4> HIDE DEF after
      <4>5. after.used \in Nat /\ after.used <= Len(rest)
        BY <3>4, <4>4 DEF EndsInside
      <4>6. all.ok = TRUE /\ all.used = child.used + after.used
        BY <3>2, <3>4, <4>1 DEF DecodedItems
      <4>7. all.used \in Nat /\ all.used <= Len(data)
        BY <4>1, <4>2, <4>3, <4>5, <4>6
      <4> QED
        BY <3>1, <4>6, <4>7 DEF EndsInside
    <3>5. CASE ~(child.ok /\ after.ok)
      BY <1>00, <3>1, <3>2, <3>5
    <3> QED
      BY <3>4, <3>5
  <2> QED
    BY <2>3, <2>4
<1> HIDE DEF T
<1>3. T \in SUBSET Nat
  BY DEF T
<1>4. \A room \in Nat : room \in T
  BY <1>1, <1>2, <1>3, Induction
<1> QED
  BY <1>4 DEF T

\* A decoded item ends inside the bytes it was decoded from, for bytes of any kind,
\* and takes two of them at least: the slice data[consumed:] of the list loop
\* (items.go: DecodeItem) never starts behind the data, and each child moves it on.
THEOREM DecodeStaysInside ==
    ASSUME NEW data \in Seq(Byte), DecodeItem(data).ok
    PROVE  DecodeItem(data).used \in 2 .. Len(data)
<1>1. Len(data) \in Nat
  BY Sizes
<1> DEFINE item == DecodeItem(data)
<1>2. EndsInside(item, data) /\ (item.ok => item.used >= 2)
  BY <1>1, AllStayInside, ItemStaysInside DEF DecodeItem
<1> HIDE DEF item
<1>3. item.ok
  BY DEF item
<1>4. item.used \in 2 .. Len(data)
  BY <1>1, <1>2, <1>3 DEF EndsInside
<1> QED
  BY <1>4 DEF item

(* Room for one item more changes nothing of what as many items as bytes are. *)
Settled(room) ==
    \A data \in Seq(Byte), n \in Nat :
        Len(data) <= room => decodeItems[room + 1][data][n] = decodeItems[room][data][n]

LEMMA ItemIsSettled ==
    ASSUME NEW room \in Nat, Settled(room), NEW data \in Seq(Byte), Len(data) <= room + 2
    PROVE  ItemAt(data, decodeItems[room + 1]) = ItemAt(data, decodeItems[room])
<1> DEFINE w      == data[1] % 4
           t      == TypeOf(data[1] - w)
           length == FromBytes(SubSeq(data, 2, 1 + w), FALSE)
           rest   == From(data, 2 + w)
           scalar == DecodeScalar(t, SubSeq(rest, 1, length), 1 + w + length)
           read(list) ==
              IF Len(data) < 2 \/ w = 0 \/ Len(data) < 1 + w THEN Refused
              ELSE IF t = "L"
              THEN IF list.ok THEN Decoded(List(list.items), 1 + w + list.used) ELSE Refused
              ELSE IF Len(rest) < length THEN Refused
              ELSE scalar
<1>1. \A children : ItemAt(data, children) = read(children[rest][length])
  BY ItemAtParts
<1>2. Len(data) \in Nat
  BY Sizes
<1>3. CASE Len(data) < 2 \/ w = 0 \/ Len(data) < 1 + w
  <2>1. \A list : read(list) = Refused
    <3> HIDE DEF w, t, length, rest, scalar
    <3> QED
      BY <1>3
  <2> HIDE DEF read, rest, length
  <2> QED
    BY <1>1, <2>1
<1>4. CASE ~(Len(data) < 2 \/ w = 0 \/ Len(data) < 1 + w)
  <2>1. data[1] \in Byte
    <3>1. 1 \in 1 .. Len(data)
      BY <1>2, <1>4
    <3> QED
      BY <3>1, Sizes
  <2>2. w \in {0, 1, 2, 3}
    BY <2>1, LowBits
  <2>3. Len(data) >= 2 /\ data[1] % 4 # 0 /\ Len(data) >= 1 + (data[1] % 4)
    <3>1. Len(data) >= 2 /\ w # 0 /\ Len(data) >= 1 + w
      <4> HIDE DEF w
      <4> QED
        BY <1>2, <1>4, <2>2
    <3> QED
      BY <3>1, Zenon DEF w
  <2>4. /\ w \in 1 .. 3 /\ length \in Nat
        /\ rest \in Seq(Byte) /\ Len(rest) = Len(data) - (1 + w) /\ Len(rest) \in Nat
    BY <2>3, HeaderParts
  <2> HIDE DEF w, length, rest, read
  <2>5. Len(rest) <= room
    <3>1. Len(data) <= room + 2
      OBVIOUS
    <3> QED
      BY <1>2, <2>4, <3>1
  <2>6. decodeItems[room + 1][rest][length] = decodeItems[room][rest][length]
    BY <2>4, <2>5 DEF Settled
  <2> QED
    BY <1>1, <2>6
<1> QED
  BY <1>3, <1>4

LEMMA AllSettled ==
    \A room \in Nat : Settled(room)
<1> DEFINE T == {room \in Nat : Settled(room)}
<1>1. 0 \in T
  <2> SUFFICES ASSUME NEW data \in Seq(Byte), NEW n \in Nat, Len(data) <= 0
               PROVE  decodeItems[0 + 1][data][n] = decodeItems[0][data][n]
    BY DEF Settled
  <2> DEFINE one == 0 + 1
  <2>1. one \in Nat /\ one # 0 /\ one - 1 = 0
    OBVIOUS
  <2> HIDE DEF one
  <2>2. decodeItems[one][data][n] =
           IF n = 0 THEN DecodedItems(<<>>, 0)
           ELSE IF one = 0 THEN Refused
           ELSE FirstItems(data, n, decodeItems[one - 1])
    BY <2>1, DecodeItemsDefined
  <2>3. decodeItems[0][data][n] = IF n = 0 THEN DecodedItems(<<>>, 0) ELSE Refused
    BY DecodeItemsDefined
  <2>4. CASE n = 0
    BY <2>2, <2>3, <2>4 DEF one
  <2>5. CASE n # 0
    <3> DEFINE child == ItemAt(data, decodeItems[0])
    <3>1. child = Refused
      <4>1. Len(data) < 2
        BY Sizes
      <4> QED
        BY <4>1, ItemAtParts
    <3> HIDE DEF child
    <3>2. child.ok = FALSE
      BY <3>1 DEF Refused
    <3>3. FirstItems(data, n, decodeItems[0]) = Refused
      BY <3>2 DEF FirstItems, child
    <3> QED
      BY <2>1, <2>2, <2>3, <2>5, <3>3 DEF one
  <2> QED
    BY <2>4, <2>5
<1>2. ASSUME NEW room \in T PROVE room + 1 \in T
  <2> DEFINE next == room + 1
             more == next + 1
  <2>1. room \in Nat /\ Settled(room) /\ next \in Nat /\ next # 0 /\ next - 1 = room
        /\ more \in Nat /\ more # 0 /\ more - 1 = next /\ next + 1 = more
    OBVIOUS
  <2> SUFFICES ASSUME NEW data \in Seq(Byte), NEW n \in Nat, Len(data) <= next
               PROVE  decodeItems[more][data][n] = decodeItems[next][data][n]
    BY <2>1 DEF Settled
  <2>2. Len(data) \in Nat /\ Len(data) <= room + 1 /\ Len(data) <= room + 2
    BY <2>1, Sizes
  <2>3. ItemAt(data, decodeItems[next]) = ItemAt(data, decodeItems[room])
    BY <2>1, <2>2, ItemIsSettled
  <2> HIDE DEF more
  <2>4. decodeItems[more][data][n] =
           IF n = 0 THEN DecodedItems(<<>>, 0)
           ELSE IF more = 0 THEN Refused
           ELSE FirstItems(data, n, decodeItems[more - 1])
    BY <2>1, DecodeItemsDefined
  <2>50. \A b \in Seq(Byte), k \in Nat :
            Len(b) <= room => decodeItems[next][b][k] = decodeItems[room][b][k]
    BY <2>1 DEF Settled
  <2> HIDE DEF next
  <2>5. decodeItems[next][data][n] =
           IF n = 0 THEN DecodedItems(<<>>, 0)
           ELSE IF next = 0 THEN Refused
           ELSE FirstItems(data, n, decodeItems[next - 1])
    BY <2>1, DecodeItemsDefined
  <2>6. CASE n = 0
    BY <2>4, <2>5, <2>6
  <2>7. CASE n # 0
    <3> DEFINE child == ItemAt(data, decodeItems[room])
               rest  == From(data, 1 + NextChild(child))
               all(children) ==
                  IF child.ok /\ children[rest][n - 1].ok
                  THEN DecodedItems(<<child.item>> \o children[rest][n - 1].items,
                                    NextChild(child) + children[rest][n - 1].used)
                  ELSE Refused
    <3>1. FirstItems(data, n, decodeItems[next]) = all(decodeItems[next])
      BY <2>3 DEF FirstItems
    <3>2. FirstItems(data, n, decodeItems[room]) = all(decodeItems[room])
      BY DEF FirstItems
    <3>3. StaysInside(room)
      BY <2>1, AllStayInside
    <3>4. EndsInside(child, data) /\ (child.ok => child.used >= 2)
      BY <2>1, <3>3, ItemStaysInside
    <3> HIDE DEF child
    <3>5. all(decodeItems[next]) = all(decodeItems[room])
      <4>1. CASE child.ok
        <5>1. child.used \in Nat /\ child.used <= Len(data) /\ child.used >= 2
              /\ NextChild(child) = child.used
          BY <3>4, <4>1 DEF EndsInside, NextChild
        <5>2. rest \in Seq(Byte) /\ Len(rest) = Len(data) - child.used
          BY <5>1, AfterItem
        <5>3. n - 1 \in Nat
          BY <2>7
        <5> HIDE DEF rest
        <5>4. Len(rest) <= room
          BY <2>1, <2>2, <5>1, <5>2
        <5>5. decodeItems[next][rest][n - 1] = decodeItems[room][rest][n - 1]
          BY <2>50, <5>2, <5>3, <5>4
        <5> QED
          BY <5>5
      <4>2. CASE ~child.ok
        BY <4>2
      <4> QED
        BY <4>1, <4>2
    <3> QED
      BY <2>1, <2>4, <2>5, <2>7, <3>1, <3>2, <3>5
  <2> QED
    BY <2>6, <2>7
<1> HIDE DEF T
<1>3. T \in SUBSET Nat
  BY DEF T
<1>4. \A room \in Nat : room \in T
  BY <1>1, <1>2, <1>3, Induction
<1> QED
  BY <1>4 DEF T

LEMMA RoomIsEnough ==
    ASSUME NEW data \in Seq(Byte), NEW n \in Nat, NEW room \in Nat, Len(data) <= room
    PROVE  decodeItems[room][data][n] = decodeItems[Len(data)][data][n]
<1> DEFINE size == Len(data)
           same(k) == decodeItems[size + k][data][n] = decodeItems[size][data][n]
           T == {k \in Nat : same(k)}
<1>1. size \in Nat
  BY Sizes
<1>2. size <= room
  OBVIOUS
<1> HIDE DEF size
<1>3. 0 \in T
  <2>1. size + 0 = size
    BY <1>1
  <2> QED
    BY <2>1
<1>4. ASSUME NEW k \in T PROVE k + 1 \in T
  <2> DEFINE now == size + k
  <2>1. k \in Nat /\ now \in Nat /\ size <= now /\ k + 1 \in Nat /\ size + (k + 1) = now + 1
    BY <1>1
  <2>2. decodeItems[now][data][n] = decodeItems[size][data][n]
    OBVIOUS
  <2> HIDE DEF now
  <2>3. decodeItems[now + 1][data][n] = decodeItems[now][data][n]
    BY <2>1, AllSettled DEF Settled, size
  <2> QED
    BY <2>1, <2>2, <2>3
<1> HIDE DEF T
<1>5. T \in SUBSET Nat
  BY DEF T
<1>6. \A k \in Nat : k \in T
  BY <1>3, <1>4, <1>5, Induction
<1> DEFINE k == room - size
<1>7. k \in Nat /\ size + k = room
  BY <1>1, <1>2
<1> HIDE DEF k
<1>8. same(k)
  BY <1>6, <1>7 DEF T
<1> QED
  BY <1>7, <1>8 DEF size

(* The first n items of some bytes, by the bytes alone. *)
ReadItems(data, n) == decodeItems[Len(data)][data][n]

\* The decoder of the model is the recursion of the code (items.go: DecodeItem): the
\* items of a list are read by a loop that decodes one item of the bytes and goes on
\* behind it, and the bound the model gives the recursion to be defined never ends it.
THEOREM DecodeIsTheLoop ==
    ASSUME NEW data \in Seq(Byte)
    PROVE  /\ DecodeItem(data) = ItemAt(data, [b \in Seq(Byte) |-> [n \in Nat |-> ReadItems(b, n)]])
           /\ \A n \in Nat : ReadItems(data, n) =
                LET child == DecodeItem(data)
                    after == ReadItems(From(data, 1 + child.used), n - 1)
                IN  IF n = 0 THEN DecodedItems(<<>>, 0)
                    ELSE IF child.ok /\ after.ok
                    THEN DecodedItems(<<child.item>> \o after.items, child.used + after.used)
                    ELSE Refused
<1> DEFINE size == Len(data)
<1>1. size \in Nat
  BY Sizes
<1>2. DecodeItem(data) = ItemAt(data, [b \in Seq(Byte) |-> [n \in Nat |-> ReadItems(b, n)]])
  <2> DEFINE children == [b \in Seq(Byte) |-> [n \in Nat |-> ReadItems(b, n)]]
             w      == data[1] % 4
             t      == TypeOf(data[1] - w)
             length == FromBytes(SubSeq(data, 2, 1 + w), FALSE)
             rest   == From(data, 2 + w)
             scalar == DecodeScalar(t, SubSeq(rest, 1, length), 1 + w + length)
             read(list) ==
                IF Len(data) < 2 \/ w = 0 \/ Len(data) < 1 + w THEN Refused
                ELSE IF t = "L"
                THEN IF list.ok THEN Decoded(List(list.items), 1 + w + list.used) ELSE Refused
                ELSE IF Len(rest) < length THEN Refused
                ELSE scalar
  <2>1. \A c : ItemAt(data, c) = read(c[rest][length])
    BY ItemAtParts
  <2>2. CASE Len(data) < 2 \/ w = 0 \/ Len(data) < 1 + w
    <3>1. \A list : read(list) = Refused
      <4> HIDE DEF w, t, length, rest, scalar
      <4> QED
        BY <2>2
    <3> HIDE DEF read, rest, length, children
    <3> QED
      BY <2>1, <3>1 DEF DecodeItem, children
  <2>3. CASE ~(Len(data) < 2 \/ w = 0 \/ Len(data) < 1 + w)
    <3>1. data[1] \in Byte
      <4>1. 1 \in 1 .. Len(data)
        BY <1>1, <2>3
      <4> QED
        BY <4>1, Sizes
    <3>2. w \in {0, 1, 2, 3}
      BY <3>1, LowBits
    <3>3. Len(data) >= 2 /\ data[1] % 4 # 0 /\ Len(data) >= 1 + (data[1] % 4)
      <4>1. Len(data) >= 2 /\ w # 0 /\ Len(data) >= 1 + w
        <5> HIDE DEF w
        <5> QED
          BY <1>1, <2>3, <3>2
      <4> QED
        BY <4>1, Zenon DEF w
    <3>4. /\ w \in 1 .. 3 /\ length \in Nat
          /\ rest \in Seq(Byte) /\ Len(rest) = Len(data) - (1 + w) /\ Len(rest) \in Nat
      BY <3>3, HeaderParts
    <3> HIDE DEF w, length, rest, read
    <3>5. Len(rest) <= size
      BY <1>1, <3>4
    <3>6. decodeItems[size][rest][length] = ReadItems(rest, length)
      BY <1>1, <3>4, <3>5, RoomIsEnough DEF ReadItems
    <3>7. children[rest][length] = ReadItems(rest, length)
      BY <3>4
    <3> HIDE DEF children
    <3>8. ItemAt(data, decodeItems[size]) = ItemAt(data, children)
      BY <2>1, <3>6, <3>7
    <3> QED
      BY <3>8 DEF DecodeItem, children
  <2> QED
    BY <2>2, <2>3
<1>3. ASSUME NEW n \in Nat
      PROVE  ReadItems(data, n) =
                LET child == DecodeItem(data)
                    after == ReadItems(From(data, 1 + child.used), n - 1)
                IN  IF n = 0 THEN DecodedItems(<<>>, 0)
                    ELSE IF child.ok /\ after.ok
                    THEN DecodedItems(<<child.item>> \o after.items, child.used + after.used)
                    ELSE Refused
  <2> DEFINE child == DecodeItem(data)
             rest  == From(data, 1 + child.used)
             after == ReadItems(rest, n - 1)
  <2>1. decodeItems[size][data][n] =
           IF n = 0 THEN DecodedItems(<<>>, 0)
           ELSE IF size = 0 THEN Refused
           ELSE FirstItems(data, n, decodeItems[size - 1])
    BY <1>1, DecodeItemsDefined
  <2>2. ReadItems(data, n) = decodeItems[size][data][n]
    BY DEF ReadItems
  <2>3. CASE n = 0
    BY <2>1, <2>2, <2>3
  <2>4. CASE n # 0 /\ size = 0
    <3>1. child = Refused
      <4>1. Len(data) < 2
        BY <2>4
      <4> QED
        BY <4>1, ItemAtParts DEF DecodeItem
    <3> HIDE DEF child
    <3>2. child.ok = FALSE
      BY <3>1 DEF Refused
    <3> HIDE DEF size, rest, after
    <3> QED
      BY <2>1, <2>2, <2>4, <3>2 DEF child
  <2>5. CASE n # 0 /\ size # 0
    <3> DEFINE room == size - 1
    <3>1. room \in Nat /\ room + 1 = size /\ size <= room + 2
      BY <1>1, <2>5
    <3> HIDE DEF room
    <3>2. ItemAt(data, decodeItems[room + 1]) = ItemAt(data, decodeItems[room])
      BY <3>1, AllSettled, ItemIsSettled
    <3>3. child = ItemAt(data, decodeItems[room])
      BY <3>1, <3>2 DEF DecodeItem
    <3>4. ReadItems(data, n) = FirstItems(data, n, decodeItems[room])
      BY <2>1, <2>2, <2>5 DEF room
    <3> DEFINE inRoom == decodeItems[room][rest][n - 1]
    <3>5. FirstItems(data, n, decodeItems[room]) =
             IF child.ok /\ inRoom.ok
             THEN DecodedItems(<<child.item>> \o inRoom.items, child.used + inRoom.used)
             ELSE Refused
      BY <3>3 DEF FirstItems, NextChild
    <3>6. CASE child.ok
      <4>1. child.used \in 2 .. Len(data)
        BY <3>6, DecodeStaysInside
      <4> HIDE DEF child
      <4>2. rest \in Seq(Byte) /\ Len(rest) = Len(data) - child.used /\ Len(rest) \in Nat
        BY <1>1, <4>1, AfterItem
      <4>3. n - 1 \in Nat
        <5> HIDE DEF size, rest, after, inRoom
        <5>1. n \in Nat /\ n # 0
          BY <2>5
        <5> QED
          BY <5>1
      <4> HIDE DEF rest
      <4>4. Len(rest) <= room
        BY <1>1, <3>1, <4>1, <4>2
      <4>5. inRoom = after
        BY <3>1, <4>2, <4>3, <4>4, RoomIsEnough DEF ReadItems
      <4> HIDE DEF inRoom, after
      <4> QED
        BY <2>5, <3>4, <3>5, <3>6, <4>5 DEF child, rest, after
    <3>7. CASE ~child.ok
      <4> HIDE DEF child, inRoom
      <4> QED
        BY <2>5, <3>4, <3>5, <3>7 DEF child
    <3> QED
      BY <3>6, <3>7
  <2> QED
    BY <2>3, <2>4, <2>5
<1> QED
  BY <1>2, <1>3

-----------------------------------------------------------------------------
(* Scalars as the simulator writes them. *)
LEMMA FewDigits ==
    ASSUME NEW base \in Nat, NEW q \in Seq(Nat), NEW len \in 1 .. 3, Len(q) = len
    PROVE  InBase(base, q) =
              IF len = 1 THEN q[1]
              ELSE IF len = 2 THEN (base * q[1]) + q[2]
              ELSE (base * ((base * q[1]) + q[2])) + q[3]
<1> DEFINE one == q[1]
           two == (base * one) + q[2]
           three == (base * two) + q[3]
           f == [n \in 0 .. len |-> IF n = 0 THEN 0 ELSE IF n = 1 THEN one
                                       ELSE IF n = 2 THEN two ELSE three]
<1>1. one \in Nat /\ \A k \in 1 .. len : q[k] \in Nat
  BY Sizes
<1>2. (base * 0) + one = one
  BY <1>1
<1>3. f[0] = 0 /\ f[1] = one /\ (len >= 2 => f[2] = two) /\ (len >= 3 => f[3] = three)
  OBVIOUS
<1>4. ASSUME NEW n \in 0 .. len PROVE f[n] = IF n = 0 THEN 0 ELSE (base * f[n - 1]) + q[n]
  <2> HIDE DEF f
  <2>1. n = 0 \/ n = 1 \/ (n = 2 /\ len >= 2) \/ (n = 3 /\ len >= 3)
    <3> HIDE DEF three, two, one
    <3> QED
      OBVIOUS
  <2>2. CASE n = 0
    BY <1>3, <2>2
  <2>3. CASE n = 1
    <3>1. f[n - 1] = 0 /\ f[n] = one /\ n # 0
      BY <1>3, <2>3
    <3>2. q[n] = one
      BY <2>3
    <3> QED
      BY <1>2, <3>1, <3>2
  <2>4. CASE n = 2 /\ len >= 2
    <3>1. f[n - 1] = one /\ f[n] = two /\ n # 0 /\ q[n] = q[2]
      BY <1>3, <2>4
    <3> QED
      BY <3>1
  <2>5. CASE n = 3 /\ len >= 3
    <3>1. f[n - 1] = two /\ f[n] = three /\ n # 0 /\ q[n] = q[3]
      BY <1>3, <2>5
    <3> HIDE DEF two
    <3> QED
      BY <3>1
  <2> QED
    BY <2>1, <2>2, <2>3, <2>4, <2>5
<1>5. f = [n \in 0 .. len |-> IF n = 0 THEN 0 ELSE (base * f[n - 1]) + q[n]]
  BY <1>4
<1> HIDE DEF f
<1>6. \E g : g = [n \in 0 .. len |-> IF n = 0 THEN 0 ELSE (base * g[n - 1]) + q[n]]
  BY <1>5, Zenon
<1> DEFINE first == CHOOSE g : g = [n \in 0 .. len |-> IF n = 0 THEN 0 ELSE (base * g[n - 1]) + q[n]]
<1>7. first = [n \in 0 .. len |-> IF n = 0 THEN 0 ELSE (base * first[n - 1]) + q[n]]
  BY <1>6, Zenon
<1>8. InBase(base, q) = first[len]
  BY Zenon DEF InBase
<1> HIDE DEF first
<1>9. first[0] = 0 /\ first[1] = one
  <2>1. 0 \in 0 .. len /\ 1 \in 0 .. len
    OBVIOUS
  <2>2. first[0] = 0 /\ first[1] = (base * first[0]) + q[1]
    BY <1>7, <2>1
  <2> QED
    BY <1>2, <2>2
<1>10. len >= 2 => first[2] = two
  <2>1. len >= 2 => first[2] = (base * first[1]) + q[2]
    BY <1>7
  <2> QED
    BY <1>9, <2>1
<1>11. len >= 3 => first[3] = three
  <2>1. len >= 3 => first[3] = (base * first[2]) + q[3]
    BY <1>7
  <2> QED
    BY <1>10, <2>1
<1>12. len = 1 \/ len = 2 \/ len = 3
  OBVIOUS
<1> HIDE DEF one, two, three
<1>13. InBase(base, q) = IF len = 1 THEN one ELSE IF len = 2 THEN two ELSE three
  BY <1>8, <1>9, <1>10, <1>11, <1>12
<1> QED
  BY <1>13 DEF one, two, three

LEMMA ByteText ==
    ASSUME NEW b \in Byte
    PROVE  ByteValue(FALSE, Numeral(TRUE, <<b \div 16, b % 16>>)) = b
<1> DEFINE high == b \div 16
           low == b % 16
<1>1. high \in Nat /\ low \in Nat /\ (16 * high) + low = b
  BY SMT DEF Byte
<1> HIDE DEF high, low
<1> DEFINE q == <<high, low>>
<1>2. q \in Seq(Nat) /\ Len(q) = 2 /\ q[1] = high /\ q[2] = low
  BY <1>1
<1> HIDE DEF q
<1>3. 16 \in Nat
  OBVIOUS
<1>4. InBase(16, q) = (16 * q[1]) + q[2]
  <2>1. 2 \in 1 .. 3 /\ 2 # 1
    OBVIOUS
  <2> QED
    BY <1>2, <1>3, <2>1, FewDigits
<1>5. InBase(16, q) = b
  BY <1>1, <1>2, <1>4
<1> QED
  BY <1>5 DEF ByteValue, Numeral, q, high, low

LEMMA ScalarParsed ==
    ASSUME NEW item \in Scalars
    PROVE  CompactScalar(item).tok = "scalar" /\ ParseScalar(CompactScalar(item)) = Read(item)
<1>1. CASE item \in [type : {"B"}, bytes : Short(Byte)]
  <2> DEFINE v == [k \in DOMAIN item.bytes |->
                     Numeral(TRUE, <<item.bytes[k] \div 16, item.bytes[k] % 16>>)]
             bytes == [k \in DOMAIN v |-> ByteValue(FALSE, v[k])]
  <2>1. item.type = "B" /\ item = Binary(item.bytes) /\ item.bytes \in Seq(Byte)
    BY <1>1 DEF Short, Binary
  <2>2. CompactScalar(item) = Scalar("B", v)
    BY <2>1 DEF CompactScalar
  <2>3. DOMAIN item.bytes = 1 .. Len(item.bytes) /\ \A k \in DOMAIN item.bytes : item.bytes[k] \in Byte
    BY <2>1, Sizes
  <2>4. \A k \in DOMAIN item.bytes : ByteValue(FALSE, v[k]) = item.bytes[k]
    BY <2>3, ByteText
  <2>5. DOMAIN v = DOMAIN item.bytes
    OBVIOUS
  <2> HIDE DEF v
  <2>6. bytes = [k \in DOMAIN item.bytes |-> item.bytes[k]]
    BY <2>4, <2>5
  <2>7. bytes = item.bytes
    <3>1. item.bytes = [k \in DOMAIN item.bytes |-> item.bytes[k]]
      BY <2>1
    <3> QED
      BY <2>6, <3>1
  <2>8. \A k \in DOMAIN v : item.bytes[k] < 256
    <3>1. \A b \in Byte : b < 256
      BY DEF Byte
    <3>2. ASSUME NEW k \in DOMAIN v PROVE item.bytes[k] \in Byte
      BY <2>3, <2>5
    <3> QED
      BY <3>1, <3>2
  <2>9. ParseScalar(Scalar("B", v)) =
          IF \A k \in DOMAIN v : bytes[k] < 256 THEN Read(Binary(bytes)) ELSE Refused
    BY DEF ParseScalar, Scalar, TypeNamed, Numeric, Signed, Unsigned
  <2> HIDE DEF bytes
  <2> QED
    BY <2>1, <2>2, <2>7, <2>8, <2>9 DEF Scalar
<1>2. CASE item \in [type : {"A"}, text : Short(Byte)]
  <2>1. item.type = "A" /\ item = ASCII(item.text)
    BY <1>2 DEF ASCII
  <2>2. CompactScalar(item) = Scalar("A", Written(TRUE, item.text))
    BY <2>1 DEF CompactScalar
  <2>3. ParseScalar(Scalar("A", Written(TRUE, item.text))) = Read(ASCII(item.text))
    BY DEF ParseScalar, Scalar, TypeNamed, TextOf, Written, Numeric, Signed, Unsigned
  <2> QED
    BY <2>1, <2>2, <2>3 DEF Scalar
<1>3. CASE item \in [type : {"BOOLEAN"}, bool : BOOLEAN]
  <2> DEFINE v == IF item.bool THEN "TRUE" ELSE "FALSE"
  <2>1. item.type = "BOOLEAN" /\ item = Boolean(item.bool) /\ item.bool \in BOOLEAN
    BY <1>3 DEF Boolean
  <2>2. CompactScalar(item) = Scalar("BOOLEAN", v)
    BY <2>1 DEF CompactScalar
  <2>3. (v \in Truths(FALSE, TRUE)) = item.bool /\ \E b \in BOOLEAN : v \in Truths(FALSE, b)
    BY <2>1 DEF Truths
  <2> HIDE DEF v
  <2>4. ParseScalar(Scalar("BOOLEAN", v)) =
          IF \E b \in BOOLEAN : v \in Truths(FALSE, b)
          THEN Read(Boolean(v \in Truths(FALSE, TRUE))) ELSE Refused
    BY DEF ParseScalar, Scalar, TypeNamed, Numeric, Signed, Unsigned
  <2>5. Boolean(v \in Truths(FALSE, TRUE)) = item
    BY <2>1, <2>3, Zenon
  <2>6. ParseScalar(Scalar("BOOLEAN", v)) = Read(item)
    BY <2>3, <2>4, <2>5, Zenon
  <2> QED
    BY <2>2, <2>6 DEF Scalar
<1>4. CASE item \in Numbers
  <2>1. item.type \in Numeric /\ item = Number(item.type, item.value)
    BY <1>4 DEF Numbers, Number
  <2>2. CompactScalar(item) = Scalar(item.type, item.value)
    BY <2>1 DEF CompactScalar, Numeric, Signed, Unsigned
  <2>3. Fits(item.type, item.value)
    BY <1>4, <2>1 DEF Fits
  <2>4. TypeNamed(item.type) = item.type
    BY <2>1 DEF TypeNamed, Numeric, Signed, Unsigned
  <2>5. ParseScalar(Scalar(item.type, item.value)) =
          IF Fits(item.type, item.value) THEN Read(Number(item.type, item.value)) ELSE Refused
    BY <2>1, <2>4 DEF ParseScalar, Scalar, Numeric, Signed, Unsigned
  <2> QED
    BY <2>1, <2>2, <2>3, <2>5 DEF Scalar
<1> QED
  BY <1>1, <1>2, <1>3, <1>4 DEF Scalars

-----------------------------------------------------------------------------
(* Texts beside each other. *)
Tokens == {ListOf(n) : n \in 0 .. MaxLength} \cup {CompactScalar(i) : i \in Scalars}
TextAll(d, s) == MapAll(compact[d], s)
TextTyped(d) == \A item \in Items[d] :
    compact[d][item] \in Seq(Tokens) /\ Len(compact[d][item]) \in Nat /\ Len(compact[d][item]) >= 1

LEMMA OneToken ==
    ASSUME NEW S, NEW x \in S
    PROVE  <<x>> \in Seq(S) /\ Len(<<x>>) = 1 /\ <<x>>[1] = x
OBVIOUS

LEMMA TextAllTyped ==
    ASSUME NEW d \in 0 .. MaxDepth, TextTyped(d), NEW s \in Seq(Items[d])
    PROVE  TextAll(d, s) \in Seq(Tokens) /\ Len(TextAll(d, s)) \in Nat
<1>1. \A x \in Items[d] : compact[d][x] \in Seq(Tokens)
  BY DEF TextTyped
<1>2. MapAll(compact[d], s) \in Seq(Tokens) /\ Len(MapAll(compact[d], s)) \in Nat
  BY <1>1, MapTyped
<1> QED
  BY <1>2 DEF TextAll

LEMMA ScalarCompacted ==
    ASSUME NEW d \in 0 .. MaxDepth, NEW item \in Items[d], ~IsList(item)
    PROVE  item \in Scalars /\ compact[d][item] = <<CompactScalar(item)>> /\ CompactScalar(item) \in Tokens
BY ScalarItem, CompactDefined DEF Tokens

LEMMA ListCompacted ==
    ASSUME NEW d \in 0 .. MaxDepth, NEW item \in Items[d], IsList(item)
    PROVE  /\ compact[d][item] = <<ListOf(Len(item.items))>> \o TextAll(d - 1, item.items)
           /\ ListOf(Len(item.items)) \in Tokens
<1>1. compact[d][item] = <<ListOf(Len(item.items))>> \o TextAll(d - 1, item.items)
  BY CompactDefined DEF TextAll, MapAll, Mapped
<1>2. Len(item.items) \in 0 .. MaxLength
  BY ListOfItems
<1> QED
  BY <1>1, <1>2 DEF Tokens

LEMMA CompactTyped ==
    ASSUME NEW d \in 0 .. MaxDepth
    PROVE  TextTyped(d)
<1> DEFINE T == {c \in Nat : c <= MaxDepth => TextTyped(c)}
<1>1. ASSUME NEW c \in 0 .. MaxDepth, NEW item \in Items[c], ~IsList(item)
      PROVE  compact[c][item] \in Seq(Tokens) /\ Len(compact[c][item]) \in Nat /\ Len(compact[c][item]) >= 1
  <2>1. compact[c][item] = <<CompactScalar(item)>> /\ CompactScalar(item) \in Tokens
    BY <1>1, ScalarCompacted
  <2>2. <<CompactScalar(item)>> \in Seq(Tokens) /\ Len(<<CompactScalar(item)>>) = 1
    BY <2>1, OneToken
  <2> QED
    BY <2>1, <2>2
<1>2. 0 \in T
  <2>1. 0 \in 0 .. MaxDepth
    BY DepthAssumption DEF DepthAssumption
  <2>2. TextTyped(0)
    BY <1>1, <2>1, GroundItems DEF TextTyped
  <2> QED
    BY <2>2
<1>3. ASSUME NEW c \in T PROVE c + 1 \in T
  <2> SUFFICES ASSUME c + 1 <= MaxDepth PROVE TextTyped(c + 1)
    BY <1>3
  <2>1. /\ c \in Nat /\ c \in 0 .. MaxDepth /\ c + 1 \in 0 .. MaxDepth /\ (c + 1) - 1 = c /\ TextTyped(c)
    BY <1>3, DepthAssumption DEF DepthAssumption
  <2> DEFINE d1 == c + 1
  <2> HIDE DEF d1
  <2>2. d1 \in 0 .. MaxDepth /\ d1 - 1 = c
    BY <2>1 DEF d1
  <2>3. ASSUME NEW item \in Items[d1], IsList(item)
        PROVE  compact[d1][item] \in Seq(Tokens) /\ Len(compact[d1][item]) \in Nat /\ Len(compact[d1][item]) >= 1
    <3> DEFINE x == ListOf(Len(item.items))
               o == <<x>>
               all == TextAll(c, item.items)
    <3>1. item.items \in Seq(Items[c])
      BY <2>2, <2>3, ListOfItems
    <3>2. all \in Seq(Tokens)
      BY <2>1, <3>1, TextAllTyped
    <3>3. compact[d1][item] = o \o all /\ x \in Tokens
      BY <2>2, <2>3, ListCompacted
    <3> HIDE DEF x, all
    <3>4. o \in Seq(Tokens) /\ Len(o) = 1
      BY <3>3, OneToken
    <3> HIDE DEF o
    <3>5. o \o all \in Seq(Tokens) /\ Len(o \o all) = Len(o) + Len(all) /\ Len(all) \in Nat
      BY <3>2, <3>4, Pieces2, Sizes
    <3> QED
      BY <3>3, <3>4, <3>5
  <2>4. TextTyped(d1)
    BY <1>1, <2>2, <2>3 DEF TextTyped
  <2> QED
    BY <2>4 DEF d1
<1> HIDE DEF T
<1>4. T \in SUBSET Nat
  BY DEF T
<1>5. \A c \in Nat : c \in T
  BY <1>2, <1>3, <1>4, Induction
<1>6. d \in Nat /\ d <= MaxDepth
  BY DepthAssumption DEF DepthAssumption
<1>7. d \in T
  BY <1>5, <1>6
<1> QED
  BY <1>6, <1>7 DEF T

LEMMA TextNone ==
    ASSUME NEW d
    PROVE  TextAll(d, <<>>) = <<>>
BY MapNone DEF TextAll

LEMMA TextFirst ==
    ASSUME NEW d \in 0 .. MaxDepth, NEW s \in Seq(Items[d]), s # <<>>
    PROVE  LET r == Tail(s) IN
           /\ s[1] \in Items[d] /\ r \in Seq(Items[d]) /\ Len(r) = Len(s) - 1 /\ s = <<s[1]>> \o r
           /\ TextAll(d, s) = compact[d][s[1]] \o TextAll(d, r)
<1>1. \A x \in Items[d] : compact[d][x] \in Seq(Tokens)
  BY CompactTyped DEF TextTyped
<1>2. MapAll(compact[d], s) = compact[d][s[1]] \o MapAll(compact[d], Tail(s))
  BY <1>1, MapFirst
<1> QED
  BY <1>2, FirstAndOthers DEF TextAll

(* What stands at a place of a text. *)
HasAt(text, at, piece) ==
    /\ at \in Nat \ {0} /\ at + Len(piece) <= Len(text) + 1
    /\ \A k \in 1 .. Len(piece) : text[(at + k) - 1] = piece[k]

LEMMA HasParts ==
    ASSUME NEW S, NEW a \in Seq(S), NEW b \in Seq(S), NEW text, Len(text) \in Nat, NEW at,
           HasAt(text, at, a \o b)
    PROVE  HasAt(text, at, a) /\ HasAt(text, at + Len(a), b)
<1> DEFINE c == a \o b
<1>1. /\ Len(a) \in Nat /\ Len(b) \in Nat /\ Len(c) = Len(a) + Len(b)
      /\ \A i \in 1 .. Len(a) + Len(b) : c[i] = IF i <= Len(a) THEN a[i] ELSE b[i - Len(a)]
  BY Sizes, ConcatProperties
<1> HIDE DEF c
<1>2. /\ at \in Nat \ {0} /\ at + Len(c) <= Len(text) + 1
      /\ \A k \in 1 .. Len(c) : text[(at + k) - 1] = c[k]
  BY DEF HasAt, c
<1>3. \A k \in 1 .. Len(a) : text[(at + k) - 1] = a[k]
  BY <1>1, <1>2
<1>4. ASSUME NEW k \in 1 .. Len(b) PROVE text[((at + Len(a)) + k) - 1] = b[k]
  <2> DEFINE i == Len(a) + k
  <2>1. i \in 1 .. Len(c) /\ ~(i <= Len(a)) /\ i - Len(a) = k /\ (at + i) - 1 = ((at + Len(a)) + k) - 1
    BY <1>1, <1>2
  <2> HIDE DEF i
  <2>2. text[(at + i) - 1] = c[i] /\ c[i] = b[i - Len(a)]
    BY <1>1, <1>2, <2>1
  <2> QED
    BY <2>1, <2>2
<1> QED
  BY <1>1, <1>2, <1>3, <1>4 DEF HasAt

-----------------------------------------------------------------------------
(* The parser's recursion. *)
ParseLevel(text, f, i) ==
    [at \in Nat |-> [n \in Nat |->
        IF n = 0 THEN ParsedItems(<<>>, at)
        ELSE IF i = 0 THEN Refused
        ELSE ItemsFrom(text, at, n, f[i - 1])]]
ParseUpTo(text, f, n) == f = [i \in 0 .. n |-> ParseLevel(text, f, i)]

LEMMA ParseLevelsAgree ==
    ASSUME NEW text, NEW f, NEW g, NEW i, i # 0 => f[i - 1] = g[i - 1]
    PROVE  ParseLevel(text, f, i) = ParseLevel(text, g, i)
<1>1. CASE i = 0
  BY <1>1 DEF ParseLevel
<1>2. CASE i # 0
  BY <1>2 DEF ParseLevel
<1> QED
  BY <1>1, <1>2

LEMMA ParseUpToExists ==
    ASSUME NEW text
    PROVE  \A n \in Nat : \E f : ParseUpTo(text, f, n)
<1> DEFINE T == {n \in Nat : \E f : ParseUpTo(text, f, n)}
<1>1. 0 \in T
  <2> DEFINE f == [i \in 0 .. 0 |-> ParseLevel(text, <<>>, i)]
  <2>1. \A i \in 0 .. 0 : i = 0
    OBVIOUS
  <2>2. ASSUME NEW i \in 0 .. 0 PROVE ParseLevel(text, <<>>, i) = ParseLevel(text, f, i)
    <3> HIDE DEF f
    <3> QED
      BY <2>1, ParseLevelsAgree
  <2>3. f = [i \in 0 .. 0 |-> ParseLevel(text, f, i)]
    BY <2>2, Zenon
  <2> HIDE DEF f
  <2>4. ParseUpTo(text, f, 0)
    BY <2>3 DEF ParseUpTo
  <2> QED
    BY <2>4
<1>2. ASSUME NEW n \in T PROVE n + 1 \in T
  <2>1. PICK g : ParseUpTo(text, g, n)
    OBVIOUS
  <2> DEFINE f == [i \in 0 .. n + 1 |-> ParseLevel(text, g, i)]
  <2>2. \A i \in 0 .. n + 1 : i # 0 => i - 1 \in 0 .. n
    BY <1>2
  <2>3. \A i \in 0 .. n : f[i] = g[i]
    <3>1. \A i \in 0 .. n : i \in 0 .. n + 1
      BY <1>2
    <3> QED
      BY <2>1, <3>1, Zenon DEF ParseUpTo
  <2>4. ASSUME NEW i \in 0 .. n + 1 PROVE ParseLevel(text, g, i) = ParseLevel(text, f, i)
    <3>1. i # 0 => f[i - 1] = g[i - 1]
      BY <2>2, <2>3
    <3> HIDE DEF f
    <3> QED
      BY <3>1, ParseLevelsAgree
  <2>5. f = [i \in 0 .. n + 1 |-> ParseLevel(text, f, i)]
    BY <2>4, Zenon
  <2> HIDE DEF f
  <2>6. ParseUpTo(text, f, n + 1)
    BY <2>5 DEF ParseUpTo
  <2> QED
    BY <1>2, <2>6
<1> HIDE DEF T
<1>3. T \in SUBSET Nat
  BY DEF T
<1>4. \A n \in Nat : n \in T
  BY <1>1, <1>2, <1>3, Induction
<1> QED
  BY <1>4 DEF T

LEMMA ParseItemsDefined ==
    ASSUME NEW text, Len(text) \in Nat, NEW room \in 0 .. Len(text), NEW place \in Nat, NEW k \in Nat
    PROVE  ParseItems(text)[room][place][k] =
              IF k = 0 THEN ParsedItems(<<>>, place)
              ELSE IF room = 0 THEN Refused
              ELSE ItemsFrom(text, place, k, ParseItems(text)[room - 1])
<1>1. \E g : ParseUpTo(text, g, Len(text))
  BY ParseUpToExists
<1>2. \E g : g = [i \in 0 .. Len(text) |-> [at \in Nat |-> [n \in Nat |->
        IF n = 0 THEN ParsedItems(<<>>, at)
        ELSE IF i = 0 THEN Refused
        ELSE ItemsFrom(text, at, n, g[i - 1])]]]
  BY <1>1, Zenon DEF ParseUpTo, ParseLevel
<1>3. ParseItems(text) = [i \in 0 .. Len(text) |-> [at \in Nat |-> [n \in Nat |->
        IF n = 0 THEN ParsedItems(<<>>, at)
        ELSE IF i = 0 THEN Refused
        ELSE ItemsFrom(text, at, n, ParseItems(text)[i - 1])]]]
  BY <1>2, Zenon DEF ParseItems
<1>4. ParseItems(text)[room] = [at \in Nat |-> [n \in Nat |->
        IF n = 0 THEN ParsedItems(<<>>, at)
        ELSE IF room = 0 THEN Refused
        ELSE ItemsFrom(text, at, n, ParseItems(text)[room - 1])]]
  BY <1>3, Zenon
<1> QED
  BY <1>4

-----------------------------------------------------------------------------
(* What is written anywhere in a text is read there, with room for as many   *)
(* items as it has tokens.                                                   *)
Parses(text, n) ==
    \A d \in 0 .. MaxDepth : \A s \in Seq(Items[d]) : \A at \in Nat \ {0} :
        Len(TextAll(d, s)) <= n /\ HasAt(text, at, TextAll(d, s)) =>
            ParseItems(text)[n][at][Len(s)] = ParsedItems(s, at + Len(TextAll(d, s)))

LEMMA ItemParsed ==
    ASSUME NEW text, Len(text) \in Nat, NEW n \in 0 .. Len(text), Parses(text, n),
           NEW d \in 0 .. MaxDepth, NEW item \in Items[d], Len(compact[d][item]) <= n + 1,
           NEW at, HasAt(text, at, compact[d][item])
    PROVE  ItemFrom(text, at, ParseItems(text)[n]) = Parsed(item, at + Len(compact[d][item]))
<1> DEFINE piece == compact[d][item]
           children == ParseItems(text)[n]
<1>0. HasAt(text, at, piece) /\ Len(piece) <= n + 1
  OBVIOUS
<1>1. CASE ~IsList(item)
  <2> DEFINE x == CompactScalar(item)
  <2>1. item \in Scalars /\ piece = <<x>>
    BY <1>1, ScalarCompacted
  <2>2. x.tok = "scalar" /\ ParseScalar(x) = Read(item)
    BY <2>1, ScalarParsed
  <2> HIDE DEF piece, x
  <2>3. Len(piece) = 1 /\ piece[1] = x
    BY <2>1
  <2>4. text[at] = x /\ at <= Len(text) /\ at \in Nat \ {0}
    <3>1. at \in Nat \ {0} /\ at + 1 <= Len(text) + 1 /\ text[(at + 1) - 1] = piece[1]
      BY <1>0, <2>3 DEF HasAt
    <3>2. (at + 1) - 1 = at /\ at <= Len(text)
      BY <3>1
    <3> QED
      BY <2>3, <3>1, <3>2
  <2> HIDE DEF children
  <2>5. ItemFrom(text, at, children) = Parsed(item, at + 1)
    <3> DEFINE scalar == ParseScalar(text[at])
    <3>1. scalar.ok /\ scalar.item = item
      BY <2>2, <2>4 DEF Read
    <3>2. TokenAt(text, at, "scalar") /\ ~TokenAt(text, at, "L:") /\ ~TokenAt(text, at, "<L,")
      BY <2>2, <2>4 DEF TokenAt
    <3>3. ItemFrom(text, at, children) = IF scalar.ok THEN Parsed(scalar.item, at + 1) ELSE Refused
      BY <3>2 DEF ItemFrom
    <3> HIDE DEF scalar
    <3> QED
      BY <3>1, <3>3
  <2> QED
    BY <2>3, <2>5 DEF children, piece
<1>2. CASE IsList(item)
  <2> DEFINE s == item.items
             c == d - 1
             x == ListOf(Len(s))
             o == <<x>>
             all == TextAll(c, s)
  <2>1. c \in 0 .. MaxDepth /\ s \in Seq(Items[c]) /\ Len(s) \in Nat /\ item = List(s)
    BY <1>2, ListOfItems
  <2>2. piece = o \o all /\ x \in Tokens
    BY <1>2, ListCompacted
  <2>3. x.tok = "L:" /\ x.n = Len(s)
    BY DEF ListOf
  <2>4. all \in Seq(Tokens) /\ Len(all) \in Nat
    <3> HIDE DEF c, s
    <3> QED
      BY <2>1, CompactTyped, TextAllTyped
  <2> HIDE DEF piece, c, s, x, all
  <2>5. o \in Seq(Tokens) /\ Len(o) = 1 /\ o[1] = x
    BY <2>2, OneToken
  <2> HIDE DEF o
  <2>6. Len(piece) = 1 + Len(all)
    <3>1. Len(o \o all) = Len(o) + Len(all)
      BY <2>4, <2>5, Pieces2
    <3> QED
      BY <2>2, <2>5, <3>1
  <2>7. HasAt(text, at, o) /\ HasAt(text, at + Len(o), all)
    BY <1>0, <2>2, <2>4, <2>5, HasParts
  <2>8. text[at] = x /\ at <= Len(text) /\ at \in Nat \ {0}
    <3>1. at \in Nat \ {0} /\ at + 1 <= Len(text) + 1 /\ text[(at + 1) - 1] = o[1]
      BY <2>5, <2>7 DEF HasAt
    <3>2. (at + 1) - 1 = at /\ at <= Len(text)
      BY <3>1
    <3> QED
      BY <2>5, <3>1, <3>2
  <2>9. children[at + 1][Len(s)] = ParsedItems(s, (at + 1) + Len(all))
    <3> DEFINE b == at + 1
    <3>1. b \in Nat \ {0} /\ HasAt(text, b, all)
      BY <2>5, <2>7, <2>8
    <3>2. Len(all) <= n
      BY <1>0, <2>4, <2>6
    <3> HIDE DEF b, children
    <3>3. children[b][Len(s)] = ParsedItems(s, b + Len(all))
      BY <2>1, <3>1, <3>2 DEF Parses, all, children
    <3> QED
      BY <3>3 DEF b
  <2> HIDE DEF children
  <2>10. LET list == children[at + 1][Len(s)] IN
         list.ok /\ list.items = s /\ list.next = (at + 1) + Len(all)
    BY <2>9 DEF ParsedItems
  <2>11. ItemFrom(text, at, children) = Parsed(List(s), (at + 1) + Len(all))
    BY <2>3, <2>8, <2>10 DEF ItemFrom, TokenAt
  <2>12. (at + 1) + Len(all) = at + Len(piece)
    BY <2>4, <2>6, <2>8
  <2> QED
    BY <2>1, <2>11, <2>12 DEF children, piece
<1> QED
  BY <1>1, <1>2

LEMMA ParsesNone ==
    ASSUME NEW text, Len(text) \in Nat, NEW n \in 0 .. Len(text), NEW d, NEW at \in Nat \ {0}
    PROVE  ParseItems(text)[n][at][Len(<<>>)] = ParsedItems(<<>>, at + Len(TextAll(d, <<>>)))
<1>1. TextAll(d, <<>>) = <<>> /\ Len(<<>>) = 0 /\ at + 0 = at
  BY TextNone
<1>2. ParseItems(text)[n][at][0] = ParsedItems(<<>>, at)
  BY ParseItemsDefined
<1> QED
  BY <1>1, <1>2

LEMMA ParsesOneMore ==
    ASSUME NEW text, Len(text) \in Nat, NEW n \in 0 .. Len(text), Parses(text, n), n + 1 <= Len(text),
           NEW d \in 0 .. MaxDepth, NEW s \in Seq(Items[d]), s # <<>>, NEW at \in Nat \ {0},
           Len(TextAll(d, s)) <= n + 1, HasAt(text, at, TextAll(d, s))
    PROVE  ParseItems(text)[n + 1][at][Len(s)] = ParsedItems(s, at + Len(TextAll(d, s)))
<1> DEFINE r == Tail(s)
           i == s[1]
           b == compact[d][i]
           all == TextAll(d, s)
           others == TextAll(d, r)
           children == ParseItems(text)[n]
           next == at + Len(b)
<1>1. /\ i \in Items[d] /\ r \in Seq(Items[d]) /\ Len(r) = Len(s) - 1 /\ s = <<i>> \o r
      /\ all = b \o others
  BY TextFirst
<1> HIDE DEF r, i
<1>2. b \in Seq(Tokens) /\ Len(b) \in Nat /\ Len(b) >= 1
  BY <1>1, CompactTyped DEF TextTyped
<1>3. others \in Seq(Tokens) /\ Len(others) \in Nat
  BY <1>1, CompactTyped, TextAllTyped
<1>4. Len(all) <= n + 1 /\ HasAt(text, at, all)
  OBVIOUS
<1>5. /\ Len(others) <= n /\ HasAt(text, next, others) /\ next \in Nat \ {0} =>
            children[next][Len(r)] = ParsedItems(r, next + Len(others))
  BY <1>1 DEF Parses
<1>6. Len(b) <= n + 1 /\ HasAt(text, at, b) => ItemFrom(text, at, children) = Parsed(i, next)
  BY <1>1, ItemParsed
<1>7. Len(s) \in Nat /\ Len(s) # 0
  BY Sizes
<1> HIDE DEF b, others, all, children
<1>8. Len(all) = Len(b) + Len(others)
  BY <1>1, <1>2, <1>3, Pieces2
<1>9. Len(others) <= n /\ Len(b) <= n + 1 /\ next \in Nat \ {0} /\ next + Len(others) = at + Len(all)
  BY <1>2, <1>3, <1>4, <1>8
<1>10. HasAt(text, at, b) /\ HasAt(text, next, others)
  BY <1>1, <1>2, <1>3, <1>4, HasParts
<1> HIDE DEF next
<1>11. ItemFrom(text, at, children) = Parsed(i, next)
  BY <1>6, <1>9, <1>10
<1>12. children[next][Len(s) - 1] = ParsedItems(r, at + Len(all))
  BY <1>1, <1>5, <1>9, <1>10
<1>13. ItemsFrom(text, at, Len(s), children) = ParsedItems(s, at + Len(all))
  <2> DEFINE child == ItemFrom(text, at, children)
             after == children[child.next][Len(s) - 1]
  <2>1. child.ok /\ child.item = i /\ child.next = next
    BY <1>11 DEF Parsed
  <2> HIDE DEF child
  <2>2. after.ok /\ after.items = r /\ after.next = at + Len(all)
    BY <1>12, <2>1 DEF ParsedItems
  <2> HIDE DEF after
  <2>3. ItemsFrom(text, at, Len(s), children) =
          IF child.ok /\ after.ok THEN ParsedItems(<<child.item>> \o after.items, after.next) ELSE Refused
    BY DEF ItemsFrom, child, after
  <2> QED
    BY <1>1, <2>1, <2>2, <2>3
<1>14. ParseItems(text)[n + 1][at][Len(s)] = ItemsFrom(text, at, Len(s), children)
  <2> DEFINE m == n + 1
  <2>1. m \in 0 .. Len(text) /\ m # 0 /\ m - 1 = n
    OBVIOUS
  <2> HIDE DEF m
  <2>2. ParseItems(text)[m][at][Len(s)] =
              IF Len(s) = 0 THEN ParsedItems(<<>>, at)
              ELSE IF m = 0 THEN Refused
              ELSE ItemsFrom(text, at, Len(s), ParseItems(text)[m - 1])
    BY <1>7, <2>1, ParseItemsDefined
  <2> QED
    BY <1>7, <2>1, <2>2 DEF m, children
<1> QED
  BY <1>13, <1>14 DEF all

LEMMA ParsesAlways ==
    ASSUME NEW text, Len(text) \in Nat
    PROVE  \A n \in 0 .. Len(text) : Parses(text, n)
<1> DEFINE T == {n \in Nat : n <= Len(text) => Parses(text, n)}
<1>1. 0 \in T
  <2> SUFFICES ASSUME NEW d \in 0 .. MaxDepth, NEW s \in Seq(Items[d]), NEW at \in Nat \ {0},
                      Len(TextAll(d, s)) <= 0
               PROVE  ParseItems(text)[0][at][Len(s)] = ParsedItems(s, at + Len(TextAll(d, s)))
    BY DEF Parses
  <2>0. 0 \in 0 .. Len(text)
    OBVIOUS
  <2>1. CASE s = <<>>
    BY <2>0, <2>1, ParsesNone
  <2>2. CASE s # <<>>
    <3> DEFINE b == compact[d][s[1]]
               others == TextAll(d, Tail(s))
    <3>1. s[1] \in Items[d] /\ Tail(s) \in Seq(Items[d]) /\ TextAll(d, s) = b \o others
      BY <2>2, TextFirst
    <3>2. TextTyped(d)
      BY CompactTyped
    <3>3. b \in Seq(Tokens) /\ Len(b) \in Nat /\ Len(b) >= 1
      BY <3>1, <3>2 DEF TextTyped
    <3>4. others \in Seq(Tokens) /\ Len(others) \in Nat
      BY <3>1, <3>2, TextAllTyped
    <3> HIDE DEF b, others
    <3>5. Len(TextAll(d, s)) = Len(b) + Len(others)
      BY <3>1, <3>3, <3>4, Pieces2
    <3> QED
      BY <3>3, <3>4, <3>5
  <2> QED
    BY <2>1, <2>2
<1>2. ASSUME NEW n \in T PROVE n + 1 \in T
  <2> SUFFICES ASSUME n + 1 <= Len(text) PROVE Parses(text, n + 1)
    BY <1>2
  <2>1. n \in 0 .. Len(text) /\ n + 1 \in 0 .. Len(text) /\ Parses(text, n)
    BY <1>2
  <2>2. ASSUME NEW d \in 0 .. MaxDepth, NEW s \in Seq(Items[d]), NEW at \in Nat \ {0},
               Len(TextAll(d, s)) <= n + 1, HasAt(text, at, TextAll(d, s))
        PROVE  ParseItems(text)[n + 1][at][Len(s)] = ParsedItems(s, at + Len(TextAll(d, s)))
    <3>1. CASE s = <<>>
      BY <2>1, <3>1, ParsesNone
    <3>2. CASE s # <<>>
      BY <2>1, <2>2, <3>2, ParsesOneMore
    <3> QED
      BY <3>1, <3>2
  <2> QED
    BY <2>2 DEF Parses
<1> HIDE DEF T
<1>3. T \in SUBSET Nat
  BY DEF T
<1>4. \A n \in Nat : n \in T
  BY <1>1, <1>2, <1>3, Induction
<1>5. ASSUME NEW n \in 0 .. Len(text) PROVE Parses(text, n)
  <2>1. n \in T /\ n <= Len(text)
    BY <1>4
  <2> QED
    BY <2>1 DEF T
<1> QED
  BY <1>5

\* Every item is parsed from its own text as it was: bytes with any digits, texts of
\* any characters, numbers of the ends of their ranges, lists of any depth and of no
\* items at all (items.go: Compact; sml_parser.go: ParseSMLItem).
THEOREM TextRoundTrip ==
    ASSUME NEW item \in Item
    PROVE  ParseSMLItem(Compact(item)) = Read(item)
<1> DEFINE text == compact[MaxDepth][item]
<1>1. MaxDepth \in 0 .. MaxDepth /\ item \in Items[MaxDepth]
  BY DepthAssumption DEF DepthAssumption, Item
<1>2. text \in Seq(Tokens) /\ Len(text) \in Nat /\ Len(text) >= 1
  BY <1>1, CompactTyped DEF TextTyped
<1>3. Compact(item) = text
  BY DEF Compact
<1>4. HasAt(text, 1, text)
  <2> HIDE DEF text
  <2>1. \A k \in 1 .. Len(text) : (1 + k) - 1 = k
    BY <1>2
  <2>2. 1 + Len(text) <= Len(text) + 1
    BY <1>2
  <2> QED
    BY <1>2, <2>1, <2>2 DEF HasAt
<1>5. ItemFrom(text, 1, ParseItems(text)[Len(text)]) = Parsed(item, 1 + Len(text))
  <2>1. Parses(text, Len(text)) /\ Len(text) \in 0 .. Len(text) /\ Len(text) <= Len(text) + 1
    <3> HIDE DEF text
    <3> QED
      BY <1>2, ParsesAlways
  <2> QED
    BY <1>1, <1>2, <1>4, <2>1, ItemParsed
<1> HIDE DEF text
<1>6. LET parsed == ParseItem(text, 1) IN
      parsed.ok /\ parsed.item = item /\ parsed.next = Len(text) + 1
  BY <1>2, <1>5 DEF ParseItem, Parsed
<1>7. PastPeriods(text, Len(text) + 1) > Len(text)
  <2>1. {k \in (Len(text) + 1) .. Len(text) : text[k] # Period} = {}
    BY <1>2
  <2>2. PastPeriods(text, Len(text) + 1) = Len(text) + 1
    BY <2>1 DEF PastPeriods
  <2> QED
    BY <1>2, <2>2
<1>8. ParseSMLItem(text) = Read(item)
  BY <1>6, <1>7 DEF ParseSMLItem
<1> QED
  BY <1>3, <1>8

-----------------------------------------------------------------------------
(* Scalars as equipment logs them. *)
LEMMA DecimalText ==
    ASSUME NEW b \in Byte
    PROVE  ByteValue(TRUE, Numeral(FALSE, DecimalByte(b))) = b
<1> DEFINE q == DecimalByte(b)
<1>1. b \in Nat /\ b < 256
  BY DEF Byte
<1>2. InBase(10, q) = b /\ ~HexDigits(q)
  <2>1. CASE b < 10
    <3>1. q = <<b>>
      BY <1>1, <2>1 DEF DecimalByte
    <3> HIDE DEF q
    <3>2. q \in Seq(Nat) /\ Len(q) = 1 /\ q[1] = b /\ DOMAIN q = 1 .. 1
      BY <1>1, <3>1
    <3>3. 1 \in 1 .. 3 /\ 10 \in Nat
      OBVIOUS
    <3>4. InBase(10, q) = q[1]
      BY <3>2, <3>3, FewDigits
    <3>5. ~HexDigits(q)
      BY <1>1, <2>1, <3>2 DEF HexDigits
    <3> QED
      BY <3>2, <3>4, <3>5
  <2>2. CASE 10 <= b /\ b < 100
    <3> DEFINE high == b \div 10
               low == b % 10
    <3>1. high \in 0 .. 9 /\ low \in 0 .. 9 /\ (10 * high) + low = b
      BY <1>1, <2>2, SMT
    <3>2. q = <<high, low>>
      BY <1>1, <2>2 DEF DecimalByte
    <3> HIDE DEF q, high, low
    <3>3. q \in Seq(Nat) /\ Len(q) = 2 /\ q[1] = high /\ q[2] = low /\ DOMAIN q = 1 .. 2
      BY <3>1, <3>2
    <3>4. 2 \in 1 .. 3 /\ 10 \in Nat /\ 2 # 1
      OBVIOUS
    <3>5. InBase(10, q) = (10 * q[1]) + q[2]
      BY <3>3, <3>4, FewDigits
    <3>6. ~HexDigits(q)
      BY <3>1, <3>3 DEF HexDigits
    <3> QED
      BY <3>1, <3>3, <3>5, <3>6
  <2>3. CASE 100 <= b
    <3> DEFINE high == b \div 100
               mid == (b \div 10) % 10
               low == b % 10
    <3>1. high \in 0 .. 9 /\ mid \in 0 .. 9 /\ low \in 0 .. 9 /\ (10 * ((10 * high) + mid)) + low = b
      BY <1>1, <2>3, SMT
    <3>2. q = <<high, mid, low>>
      BY <1>1, <2>3 DEF DecimalByte
    <3> HIDE DEF q, high, mid, low
    <3>3. /\ q \in Seq(Nat) /\ Len(q) = 3 /\ q[1] = high /\ q[2] = mid /\ q[3] = low
          /\ DOMAIN q = 1 .. 3
      BY <3>1, <3>2
    <3>4. 3 \in 1 .. 3 /\ 10 \in Nat /\ 3 # 1 /\ 3 # 2
      OBVIOUS
    <3>5. InBase(10, q) = (10 * ((10 * q[1]) + q[2])) + q[3]
      BY <3>3, <3>4, FewDigits
    <3>6. ~HexDigits(q)
      BY <3>1, <3>3 DEF HexDigits
    <3> QED
      BY <3>1, <3>3, <3>5, <3>6
  <2> QED
    BY <1>1, <2>1, <2>2, <2>3
<1> HIDE DEF q
<1> QED
  BY <1>2 DEF ByteValue, Numeral, q

(* Texts that survive being logged bare: the parser drops the blanks around a*)
(* text, and what stands in brackets is a label.                             *)

LEMMA MinIs ==
    ASSUME NEW S, NEW m \in S, S \subseteq Nat, \A y \in S : m <= y
    PROVE  Min(S) = m
<1>1. \A x \in S : (\A y \in S : x <= y) => x = m
  BY SMT
<1> QED
  BY <1>1 DEF Min

LEMMA MaxIs ==
    ASSUME NEW S, NEW m \in S, S \subseteq Nat, \A y \in S : m >= y
    PROVE  Max(S) = m
<1>1. \A x \in S : (\A y \in S : x >= y) => x = m
  BY SMT
<1> QED
  BY <1>1 DEF Max

LEMMA TrimmedIs ==
    ASSUME NEW c \in Seq(Byte), c # <<>>, c[1] # Space, c[Len(c)] # Space
    PROVE  Trimmed(c) = c
<1> DEFINE inner == {k \in DOMAIN c : c[k] # Space}
<1>1. Len(c) \in Nat /\ Len(c) # 0 /\ DOMAIN c = 1 .. Len(c)
  BY Sizes
<1>2. 1 \in inner /\ Len(c) \in inner /\ inner \subseteq Nat /\ \A y \in inner : 1 <= y /\ Len(c) >= y
  BY <1>1
<1>3. Trimmed(c) = IF inner = {} THEN <<>> ELSE SubSeq(c, Min(inner), Max(inner))
  BY DEF Trimmed
<1> HIDE DEF inner
<1>4. Min(inner) = 1 /\ Max(inner) = Len(c)
  BY <1>2, MinIs, MaxIs
<1>5. SubSeq(c, 1, Len(c)) = c
  BY SubSeqFull
<1> QED
  BY <1>2, <1>3, <1>4, <1>5

LEMMA JoinedIs ==
    ASSUME NEW a \in Seq(Byte), NEW b \in Seq(Byte)
    PROVE  LET c == a \o b IN
           /\ c \in Seq(Byte) /\ Len(c) = Len(a) + Len(b)
           /\ \A i \in 1 .. Len(a) + Len(b) : c[i] = IF i <= Len(a) THEN a[i] ELSE b[i - Len(a)]
BY ConcatProperties

LEMMA UnlabelledIs ==
    ASSUME NEW c \in Seq(Byte), c # <<>>, Loggable(c)
    PROVE  Unlabelled(c \o <<Space>> \o Label) = c
<1> DEFINE tail == <<Space, Open, 88, Shut>>
           all == c \o tail
           last == Len(all)
           from == {k \in 1 .. (last - 1) : all[k] = Space /\ all[k + 1] = Open}
<1>1. /\ Len(c) \in Nat /\ Len(c) # 0 /\ c[1] # Space /\ c[1] # Open /\ c[Len(c)] # Space
      /\ \A k \in 1 .. Len(c) : c[k] \in Byte
  BY Sizes DEF Loggable
<1>2. c \o <<Space>> \o Label = all
  <2> DEFINE a == <<Space>>
             b == Label
  <2>1. /\ a \in Seq(Byte) /\ Len(a) = 1 /\ a[1] = Space
        /\ b \in Seq(Byte) /\ Len(b) = 3 /\ b[1] = Open /\ b[2] = 88 /\ b[3] = Shut
    BY DEF Space, Label, Open, Shut, Byte
  <2>3. /\ tail \in Seq(Byte) /\ Len(tail) = 4
        /\ tail[1] = Space /\ tail[2] = Open /\ tail[3] = 88 /\ tail[4] = Shut
    BY DEF Space, Open, Shut, Byte
  <2>4. a \o b = tail
    <3> DEFINE ab == a \o b
    <3> HIDE DEF a, b, tail
    <3>1. /\ ab \in Seq(Byte) /\ Len(ab) = Len(a) + Len(b)
          /\ \A i \in 1 .. Len(a) + Len(b) : ab[i] = IF i <= Len(a) THEN a[i] ELSE b[i - Len(a)]
      BY <2>1, JoinedIs
    <3> HIDE DEF ab
    <3>2. Len(ab) = 4 /\ ab[1] = Space /\ ab[2] = Open /\ ab[3] = 88 /\ ab[4] = Shut
      BY <2>1, <3>1
    <3>3. \A i \in 1 .. 4 : i = 1 \/ i = 2 \/ i = 3 \/ i = 4
      OBVIOUS
    <3>4. \A i \in 1 .. Len(ab) : ab[i] = tail[i]
      BY <2>3, <3>2, <3>3
    <3>5. ab = tail
      <4>1. ab \in Seq(Byte) /\ tail \in Seq(Byte) /\ Len(ab) = Len(tail)
        BY <2>3, <3>1, <3>2
      <4> QED
        BY <3>4, <4>1, SeqEqual
    <3> QED
      BY <3>5 DEF ab
  <2> HIDE DEF a, b, tail
  <2>2. (c \o a) \o b = c \o (a \o b)
    BY <2>1, Regrouped
  <2> QED
    BY <2>2, <2>4 DEF a, b
<1>3. tail \in Seq(Byte) /\ Len(tail) = 4 /\ tail[1] = Space /\ tail[2] = Open /\ tail[3] = 88 /\ tail[4] = Shut
  BY DEF Space, Open, Shut, Byte
<1> HIDE DEF tail
<1>4. /\ all \in Seq(Byte) /\ last = Len(c) + 4
      /\ \A i \in 1 .. Len(c) + 4 : all[i] = IF i <= Len(c) THEN c[i] ELSE tail[i - Len(c)]
  <2>1. /\ all \in Seq(Byte) /\ Len(all) = Len(c) + Len(tail)
        /\ \A i \in 1 .. Len(c) + Len(tail) : all[i] = IF i <= Len(c) THEN c[i] ELSE tail[i - Len(c)]
    BY <1>3, JoinedIs
  <2> HIDE DEF all
  <2> QED
    BY <1>3, <2>1
<1> DEFINE n == Len(c)
<1> HIDE DEF all
<1>5. /\ all[1] = c[1]
      /\ all[n + 1] = Space /\ all[n + 2] = Open /\ all[n + 3] = 88 /\ all[n + 4] = Shut
  <2>1. /\ 1 \in 1 .. n + 4 /\ 1 <= n
        /\ n + 1 \in 1 .. n + 4 /\ ~(n + 1 <= n) /\ (n + 1) - n = 1
        /\ n + 2 \in 1 .. n + 4 /\ ~(n + 2 <= n) /\ (n + 2) - n = 2
        /\ n + 3 \in 1 .. n + 4 /\ ~(n + 3 <= n) /\ (n + 3) - n = 3
        /\ n + 4 \in 1 .. n + 4 /\ ~(n + 4 <= n) /\ (n + 4) - n = 4
    BY <1>1
  <2> QED
    BY <1>3, <1>4, <2>1
<1>6. Trimmed(all) = all
  <2>1. all # <<>>
    BY <1>1, <1>4, Sizes
  <2>2. all[1] # Space /\ all[Len(all)] # Space
    BY <1>1, <1>4, <1>5 DEF Space, Shut
  <2> QED
    BY <1>4, <2>1, <2>2, TrimmedIs
<1>7. Max(from) = n + 1
  <2>1. n + 1 \in from
    BY <1>1, <1>4, <1>5
  <2>2. ASSUME NEW k \in from PROVE n + 1 >= k
    <3>1. k \in 1 .. (last - 1) /\ all[k] = Space
      OBVIOUS
    <3>2. k = n + 2 \/ k = n + 3 \/ n + 1 >= k
      BY <1>1, <1>4, <3>1
    <3> QED
      BY <1>5, <3>1, <3>2 DEF Space, Open
  <2>3. from \subseteq Nat
    OBVIOUS
  <2> HIDE DEF from
  <2> QED
    BY <2>1, <2>2, <2>3, MaxIs
<1>8. n + 1 \in from
  BY <1>1, <1>4, <1>5
<1>9. SubSeq(all, 1, n) = c
  <2>1. SubSeq(c \o tail, 1, Len(c)) = c
    BY <1>3, FrontPiece
  <2> QED
    BY <2>1 DEF all
<1>10. Trimmed(c) = c
  BY <1>1, TrimmedIs
<1>11. all # <<>> /\ all[last] = Shut /\ all[1] # Open
  <2>1. all # <<>>
    BY <1>1, <1>4, Sizes
  <2> QED
    BY <1>1, <1>4, <1>5, <2>1
<1>12. Unlabelled(all) = IF from = {} THEN all ELSE Trimmed(SubSeq(all, 1, Max(from) - 1))
  BY <1>6, <1>11 DEF Unlabelled
<1> HIDE DEF from
<1>13. Max(from) - 1 = n
  BY <1>1, <1>7
<1> QED
  BY <1>2, <1>8, <1>9, <1>10, <1>12, <1>13

LEMMA LabelAlone == Unlabelled(Label) = <<>>
<1>1. /\ Label \in Seq(Byte) /\ Len(Label) = 3 /\ Label[1] = Open /\ Label[3] = Shut /\ Label # <<>>
  BY DEF Label, Open, Shut, Byte
<1>2. Trimmed(Label) = Label
  <2>1. Label[1] # Space /\ Label[Len(Label)] # Space
    BY <1>1 DEF Open, Shut, Space
  <2> QED
    BY <1>1, <2>1, TrimmedIs
<1> QED
  BY <1>1, <1>2 DEF Unlabelled

LEMMA ScalarLogged ==
    ASSUME NEW item \in Scalars, item.type = "A" => Loggable(item.text)
    PROVE  EquipmentScalar(item).tok = "scalar" /\ ParseScalar(EquipmentScalar(item)) = Read(item)
<1>1. CASE item \in [type : {"B"}, bytes : Short(Byte)]
  <2> DEFINE v == [k \in DOMAIN item.bytes |-> Numeral(FALSE, DecimalByte(item.bytes[k]))]
             bytes == [k \in DOMAIN v |-> ByteValue(TRUE, v[k])]
  <2>1. item.type = "B" /\ item = Binary(item.bytes) /\ item.bytes \in Seq(Byte)
    BY <1>1 DEF Short, Binary
  <2>2. EquipmentScalar(item) = LoggedScalar("B", v)
    BY <2>1 DEF EquipmentScalar
  <2>3. DOMAIN item.bytes = 1 .. Len(item.bytes) /\ \A k \in DOMAIN item.bytes : item.bytes[k] \in Byte
    BY <2>1, Sizes
  <2>4. \A k \in DOMAIN item.bytes : ByteValue(TRUE, v[k]) = item.bytes[k]
    BY <2>3, DecimalText
  <2>5. DOMAIN v = DOMAIN item.bytes
    OBVIOUS
  <2> HIDE DEF v
  <2>6. bytes = [k \in DOMAIN item.bytes |-> item.bytes[k]]
    BY <2>4, <2>5
  <2>7. bytes = item.bytes
    <3>1. item.bytes = [k \in DOMAIN item.bytes |-> item.bytes[k]]
      BY <2>1
    <3> QED
      BY <2>6, <3>1
  <2>8. \A k \in DOMAIN v : item.bytes[k] < 256
    <3>1. \A b \in Byte : b < 256
      BY DEF Byte
    <3>2. ASSUME NEW k \in DOMAIN v PROVE item.bytes[k] \in Byte
      BY <2>3, <2>5
    <3> QED
      BY <3>1, <3>2
  <2>9. ParseScalar(LoggedScalar("B", v)) =
          IF \A k \in DOMAIN v : bytes[k] < 256 THEN Read(Binary(bytes)) ELSE Refused
    BY DEF ParseScalar, LoggedScalar, TypeNamed, Numeric, Signed, Unsigned
  <2> HIDE DEF bytes
  <2> QED
    BY <2>1, <2>2, <2>7, <2>8, <2>9 DEF LoggedScalar
<1>2. CASE item \in [type : {"A"}, text : Short(Byte)]
  <2> DEFINE c == item.text
             bare == IF c = <<>> THEN Label ELSE c \o <<Space>> \o Label
  <2>1. item.type = "A" /\ item = ASCII(c) /\ c \in Seq(Byte) /\ Loggable(c)
    BY <1>2 DEF ASCII, Short
  <2>2. EquipmentScalar(item) = LoggedScalar("A", Written(FALSE, bare))
    BY <2>1 DEF EquipmentScalar
  <2> HIDE DEF c
  <2>3. Unlabelled(bare) = c
    BY <2>1, LabelAlone, UnlabelledIs
  <2> HIDE DEF bare
  <2>4. ParseScalar(LoggedScalar("A", Written(FALSE, bare))) = Read(ASCII(Unlabelled(bare)))
    BY DEF ParseScalar, LoggedScalar, TypeNamed, TextOf, Written, Numeric, Signed, Unsigned
  <2> QED
    BY <2>1, <2>2, <2>3, <2>4 DEF LoggedScalar
<1>3. CASE item \in [type : {"BOOLEAN"}, bool : BOOLEAN]
  <2> DEFINE v == IF item.bool THEN "T" ELSE "F"
  <2>1. item.type = "BOOLEAN" /\ item = Boolean(item.bool) /\ item.bool \in BOOLEAN
    BY <1>3 DEF Boolean
  <2>2. EquipmentScalar(item) = LoggedScalar("BOOLEAN", v)
    BY <2>1 DEF EquipmentScalar
  <2>3. (v \in Truths(TRUE, TRUE)) = item.bool /\ \E b \in BOOLEAN : v \in Truths(TRUE, b)
    BY <2>1 DEF Truths
  <2> HIDE DEF v
  <2>4. ParseScalar(LoggedScalar("BOOLEAN", v)) =
          IF \E b \in BOOLEAN : v \in Truths(TRUE, b)
          THEN Read(Boolean(v \in Truths(TRUE, TRUE))) ELSE Refused
    BY DEF ParseScalar, LoggedScalar, TypeNamed, Numeric, Signed, Unsigned
  <2>5. Boolean(v \in Truths(TRUE, TRUE)) = item
    BY <2>1, <2>3, Zenon
  <2>6. ParseScalar(LoggedScalar("BOOLEAN", v)) = Read(item)
    BY <2>3, <2>4, <2>5, Zenon
  <2> QED
    BY <2>2, <2>6 DEF LoggedScalar
<1>4. CASE item \in Numbers
  <2>1. item.type \in Numeric /\ item = Number(item.type, item.value)
    BY <1>4 DEF Numbers, Number
  <2>2. EquipmentScalar(item) = LoggedScalar(item.type, item.value)
    BY <2>1 DEF EquipmentScalar, Numeric, Signed, Unsigned
  <2>3. Fits(item.type, item.value)
    BY <1>4, <2>1 DEF Fits
  <2>4. TypeNamed(item.type) = item.type
    BY <2>1 DEF TypeNamed, Numeric, Signed, Unsigned
  <2>5. ParseScalar(LoggedScalar(item.type, item.value)) =
          IF Fits(item.type, item.value) THEN Read(Number(item.type, item.value)) ELSE Refused
    BY <2>1, <2>4 DEF ParseScalar, LoggedScalar, Numeric, Signed, Unsigned
  <2> QED
    BY <2>1, <2>2, <2>3, <2>5 DEF LoggedScalar
<1> QED
  BY <1>1, <1>2, <1>3, <1>4 DEF Scalars

-----------------------------------------------------------------------------
(* Logs beside each other. *)
LogTokens == {LoggedList(n) : n \in 0 .. MaxLength} \cup {EquipmentScalar(i) : i \in Scalars} \cup {Closer}
LogAll(d, s) == MapAll(equipment[d], s)
LogTyped(d) == \A item \in Items[d] :
    equipment[d][item] \in Seq(LogTokens) /\ Len(equipment[d][item]) \in Nat /\ Len(equipment[d][item]) >= 1

LEMMA LoggedTag ==
    ASSUME NEW i
    PROVE  EquipmentScalar(i).tok = "scalar"
<1>1. \A t, v : LoggedScalar(t, v).tok = "scalar"
  BY DEF LoggedScalar
<1>2. \E t, v : EquipmentScalar(i) = LoggedScalar(t, v)
  <2>1. CASE i.type = "B"
    BY <2>1 DEF EquipmentScalar
  <2>2. CASE i.type = "A"
    BY <2>2 DEF EquipmentScalar
  <2>3. CASE i.type = "BOOLEAN"
    BY <2>3 DEF EquipmentScalar
  <2>4. CASE i.type \notin {"B", "A", "BOOLEAN"}
    BY <2>4 DEF EquipmentScalar
  <2> QED
    BY <2>1, <2>2, <2>3, <2>4
<1> QED
  BY <1>1, <1>2

LEMMA NoPeriod ==
    ASSUME NEW x \in LogTokens
    PROVE  x # Period
<1>1. CASE x \in {LoggedList(n) : n \in 0 .. MaxLength} \cup {Closer}
  <2>1. x.tok = "<L," \/ x.tok = ">"
    <3>1. Closer.tok = ">" /\ \A n : LoggedList(n).tok = "<L,"
      BY DEF LoggedList, Closer
    <3>2. x = Closer \/ \E n : x = LoggedList(n)
      BY <1>1
    <3> QED
      BY <3>1, <3>2
  <2>2. Period.tok = "."
    BY DEF Period
  <2> QED
    BY <2>1, <2>2
<1>2. CASE x \in {EquipmentScalar(i) : i \in Scalars}
  <2>1. x.tok = "scalar"
    BY <1>2, LoggedTag
  <2>2. Period.tok = "."
    BY DEF Period
  <2> QED
    BY <2>1, <2>2
<1> QED
  BY <1>1, <1>2 DEF LogTokens

LEMMA LogAllTyped ==
    ASSUME NEW d \in 0 .. MaxDepth, LogTyped(d), NEW s \in Seq(Items[d])
    PROVE  LogAll(d, s) \in Seq(LogTokens) /\ Len(LogAll(d, s)) \in Nat
<1>1. \A x \in Items[d] : equipment[d][x] \in Seq(LogTokens)
  BY DEF LogTyped
<1>2. MapAll(equipment[d], s) \in Seq(LogTokens) /\ Len(MapAll(equipment[d], s)) \in Nat
  BY <1>1, MapTyped
<1> QED
  BY <1>2 DEF LogAll

LEMMA ScalarOfLog ==
    ASSUME NEW d \in 0 .. MaxDepth, NEW item \in Items[d], ~IsList(item)
    PROVE  /\ item \in Scalars /\ equipment[d][item] = <<EquipmentScalar(item)>>
           /\ EquipmentScalar(item) \in LogTokens
BY ScalarItem, EquipmentDefined DEF LogTokens

ClosedWith(s) == IF s = <<>> THEN <<>> ELSE <<Closer>>

LEMMA ListOfLog ==
    ASSUME NEW d \in 0 .. MaxDepth, NEW item \in Items[d], IsList(item)
    PROVE  /\ equipment[d][item] = (<<LoggedList(Len(item.items))>> \o LogAll(d - 1, item.items))
                                      \o ClosedWith(item.items)
           /\ LoggedList(Len(item.items)) \in LogTokens
<1>1. equipment[d][item] = (<<LoggedList(Len(item.items))>> \o LogAll(d - 1, item.items))
                              \o ClosedWith(item.items)
  BY EquipmentDefined DEF LogAll, MapAll, Mapped, ClosedWith
<1>2. Len(item.items) \in 0 .. MaxLength
  BY ListOfItems
<1> QED
  BY <1>1, <1>2 DEF LogTokens

LEMMA ClosedTyped ==
    ASSUME NEW s
    PROVE  ClosedWith(s) \in Seq(LogTokens) /\ Len(ClosedWith(s)) = IF s = <<>> THEN 0 ELSE 1
<1>1. Closer \in LogTokens
  BY DEF LogTokens
<1>2. <<Closer>> \in Seq(LogTokens) /\ Len(<<Closer>>) = 1
  BY <1>1, OneToken
<1>3. <<>> \in Seq(LogTokens) /\ Len(<<>>) = 0
  OBVIOUS
<1> QED
  BY <1>2, <1>3 DEF ClosedWith

LEMMA ListLogTyped ==
    ASSUME NEW x \in LogTokens, NEW all \in Seq(LogTokens), NEW s
    PROVE  LET piece == (<<x>> \o all) \o ClosedWith(s) IN
           /\ piece \in Seq(LogTokens)
           /\ Len(all) \in Nat /\ Len(piece) = (1 + Len(all)) + (IF s = <<>> THEN 0 ELSE 1)
<1> DEFINE o == <<x>>
           front == o \o all
           back == ClosedWith(s)
<1>1. o \in Seq(LogTokens) /\ Len(o) = 1
  BY OneToken
<1> HIDE DEF o
<1>2. front \in Seq(LogTokens) /\ Len(front) = Len(o) + Len(all) /\ Len(all) \in Nat
  BY <1>1, Pieces2, Sizes
<1>3. back \in Seq(LogTokens) /\ Len(back) = IF s = <<>> THEN 0 ELSE 1
  BY ClosedTyped
<1> HIDE DEF front, back
<1>4. front \o back \in Seq(LogTokens) /\ Len(front \o back) = Len(front) + Len(back)
  BY <1>2, <1>3, Pieces2
<1>5. Len(front \o back) = (1 + Len(all)) + (IF s = <<>> THEN 0 ELSE 1)
  BY <1>1, <1>2, <1>3, <1>4
<1> QED
  BY <1>2, <1>4, <1>5 DEF o, front, back

LEMMA EquipmentTyped ==
    ASSUME NEW d \in 0 .. MaxDepth
    PROVE  LogTyped(d)
<1> DEFINE T == {c \in Nat : c <= MaxDepth => LogTyped(c)}
<1>1. ASSUME NEW c \in 0 .. MaxDepth, NEW item \in Items[c], ~IsList(item)
      PROVE  equipment[c][item] \in Seq(LogTokens) /\ Len(equipment[c][item]) \in Nat /\ Len(equipment[c][item]) >= 1
  <2>1. equipment[c][item] = <<EquipmentScalar(item)>> /\ EquipmentScalar(item) \in LogTokens
    BY <1>1, ScalarOfLog
  <2>2. <<EquipmentScalar(item)>> \in Seq(LogTokens) /\ Len(<<EquipmentScalar(item)>>) = 1
    BY <2>1, OneToken
  <2> QED
    BY <2>1, <2>2
<1>2. 0 \in T
  <2>1. 0 \in 0 .. MaxDepth
    BY DepthAssumption DEF DepthAssumption
  <2>2. LogTyped(0)
    BY <1>1, <2>1, GroundItems DEF LogTyped
  <2> QED
    BY <2>2
<1>3. ASSUME NEW c \in T PROVE c + 1 \in T
  <2> SUFFICES ASSUME c + 1 <= MaxDepth PROVE LogTyped(c + 1)
    BY <1>3
  <2>1. /\ c \in Nat /\ c \in 0 .. MaxDepth /\ c + 1 \in 0 .. MaxDepth /\ (c + 1) - 1 = c /\ LogTyped(c)
    BY <1>3, DepthAssumption DEF DepthAssumption
  <2> DEFINE d1 == c + 1
  <2> HIDE DEF d1
  <2>2. d1 \in 0 .. MaxDepth /\ d1 - 1 = c
    BY <2>1 DEF d1
  <2>3. ASSUME NEW item \in Items[d1], IsList(item)
        PROVE  equipment[d1][item] \in Seq(LogTokens) /\ Len(equipment[d1][item]) \in Nat /\ Len(equipment[d1][item]) >= 1
    <3> DEFINE x == LoggedList(Len(item.items))
               all == LogAll(c, item.items)
               piece == (<<x>> \o all) \o ClosedWith(item.items)
    <3>1. item.items \in Seq(Items[c])
      BY <2>2, <2>3, ListOfItems
    <3>2. all \in Seq(LogTokens)
      BY <2>1, <3>1, LogAllTyped
    <3>3. equipment[d1][item] = piece /\ x \in LogTokens
      BY <2>2, <2>3, ListOfLog
    <3> HIDE DEF x, all
    <3>4. /\ piece \in Seq(LogTokens)
          /\ Len(all) \in Nat /\ Len(piece) = (1 + Len(all)) + (IF item.items = <<>> THEN 0 ELSE 1)
      BY <3>2, <3>3, ListLogTyped
    <3> HIDE DEF piece
    <3> QED
      BY <3>3, <3>4
  <2>4. LogTyped(d1)
    BY <1>1, <2>2, <2>3 DEF LogTyped
  <2> QED
    BY <2>4 DEF d1
<1> HIDE DEF T
<1>4. T \in SUBSET Nat
  BY DEF T
<1>5. \A c \in Nat : c \in T
  BY <1>2, <1>3, <1>4, Induction
<1>6. d \in Nat /\ d <= MaxDepth
  BY DepthAssumption DEF DepthAssumption
<1>7. d \in T
  BY <1>5, <1>6
<1> QED
  BY <1>6, <1>7 DEF T

LEMMA LogFirst ==
    ASSUME NEW d \in 0 .. MaxDepth, NEW s \in Seq(Items[d]), s # <<>>
    PROVE  LET r == Tail(s) IN
           /\ s[1] \in Items[d] /\ r \in Seq(Items[d]) /\ Len(r) = Len(s) - 1 /\ s = <<s[1]>> \o r
           /\ LogAll(d, s) = equipment[d][s[1]] \o LogAll(d, r)
<1>1. \A x \in Items[d] : equipment[d][x] \in Seq(LogTokens)
  BY EquipmentTyped DEF LogTyped
<1>2. MapAll(equipment[d], s) = equipment[d][s[1]] \o MapAll(equipment[d], Tail(s))
  BY <1>1, MapFirst
<1> QED
  BY <1>2, FirstAndOthers DEF LogAll

-----------------------------------------------------------------------------
(* A log is read anywhere in a text whose bare texts survive; the period that*)
(* may follow a list is taken with it.                                       *)
BareTexts(text) == \A k \in 1 .. Len(text) : \A c \in Seq(Byte) :
    text[k] = EquipmentScalar(ASCII(c)) => Loggable(c)

LEMMA BareTextIs ==
    ASSUME NEW c \in Seq(Byte)
    PROVE  /\ EquipmentScalar(ASCII(c)).tok = "scalar" /\ EquipmentScalar(ASCII(c)).type = "A"
           /\ BareText(EquipmentScalar(ASCII(c))) = c
<1> DEFINE chars == IF c = <<>> THEN Label ELSE c \o <<Space>> \o Label
           token == EquipmentScalar(ASCII(c))
<1>1. token = LoggedScalar("A", Written(FALSE, chars))
  <2>1. ASCII(c).type = "A" /\ ASCII(c).text = c
    BY DEF ASCII
  <2> QED
    BY <2>1, Zenon DEF EquipmentScalar
<1> HIDE DEF token, chars
<1>2. token.tok = "scalar" /\ token.type = "A" /\ token.value.chars = chars
  BY <1>1 DEF LoggedScalar, Written
<1>3. Len(Label) = 3
  BY DEF Label
<1>4. BareText(token) = SubSeq(chars, 1, Len(chars) - Len(Label) - 1)
  BY <1>2 DEF BareText
<1>5. SubSeq(chars, 1, Len(chars) - Len(Label) - 1) = c
  <2>1. CASE c = <<>>
    <3>1. chars = Label /\ Len(chars) - Len(Label) - 1 = -1
      BY <1>3, <2>1 DEF chars
    <3> QED
      BY <2>1, <3>1 DEF Label
  <2>2. CASE c # <<>>
    <3>1. chars = c \o <<Space>> \o Label
      BY <2>2 DEF chars
    <3> DEFINE blank == <<Space>>
               front == c \o blank
    <3>2. /\ c \in Seq(Byte) /\ Len(c) \in Nat /\ blank \in Seq(Byte) /\ Len(blank) = 1
          /\ Label \in Seq(Byte)
      BY DEF Space, Label, Open, Shut, Byte
    <3> HIDE DEF blank
    <3>3. /\ front \in Seq(Byte) /\ Len(front) = Len(c) + 1
          /\ \A i \in 1 .. Len(c) + Len(blank) : front[i] = IF i <= Len(c) THEN c[i] ELSE blank[i - Len(c)]
      BY <3>2, JoinedIs
    <3>4. chars = front \o Label
      BY <3>1 DEF blank
    <3> HIDE DEF front
    <3>5. /\ chars \in Seq(Byte) /\ Len(chars) = Len(c) + 4
          /\ \A i \in 1 .. Len(front) + Len(Label) :
                chars[i] = IF i <= Len(front) THEN front[i] ELSE Label[i - Len(front)]
      <4> DEFINE all == front \o Label
      <4>1. /\ all \in Seq(Byte) /\ Len(all) = Len(front) + Len(Label)
            /\ \A i \in 1 .. Len(front) + Len(Label) :
                  all[i] = IF i <= Len(front) THEN front[i] ELSE Label[i - Len(front)]
        BY <3>2, <3>3, JoinedIs
      <4>2. Len(front) + Len(Label) = Len(c) + 4
        BY <1>3, <3>2, <3>3
      <4> HIDE DEF all
      <4>3. chars = all
        BY <3>4 DEF all
      <4> QED
        BY <4>1, <4>2, <4>3
    <3>6. \A i \in 1 .. Len(c) : chars[i] = c[i]
      BY <1>3, <3>2, <3>3, <3>5
    <3> DEFINE part == SubSeq(chars, 1, Len(c))
    <3>7. Len(chars) - Len(Label) - 1 = Len(c)
      BY <1>3, <3>2, <3>5
    <3>8. part \in Seq(Byte) /\ Len(part) = Len(c) /\ \A i \in 1 .. Len(c) : part[i] = chars[i]
      BY <3>2, <3>5
    <3> HIDE DEF part
    <3>9. part = c
      BY <3>2, <3>6, <3>8, SeqEqual
    <3> QED
      BY <3>7, <3>9 DEF part
  <2> QED
    BY <2>1, <2>2
<1>6. BareText(token) = c
  BY <1>4, <1>5
<1> QED
  BY <1>2, <1>6 DEF token

LEMMA PlainTextIsBare ==
    ASSUME NEW T, NEW text \in Seq(T), PlainText(text)
    PROVE  BareTexts(text)
<1> SUFFICES ASSUME NEW k \in 1 .. Len(text), NEW c \in Seq(Byte), text[k] = EquipmentScalar(ASCII(c))
             PROVE  Loggable(c)
  BY DEF BareTexts
<1>1. k \in DOMAIN text
  OBVIOUS
<1> QED
  BY <1>1, BareTextIs DEF PlainText
Follows(text, at) == at <= Len(text) /\ text[at] # Period

LEMMA NoPeriodsAt ==
    ASSUME NEW text, Len(text) \in Nat, NEW at \in Nat, Follows(text, at)
    PROVE  PastPeriods(text, at) = at
<1> DEFINE others == {k \in at .. Len(text) : text[k] # Period}
<1>1. at \in others /\ others \subseteq Nat /\ \A y \in others : at <= y
  BY DEF Follows
<1>2. PastPeriods(text, at) = IF others = {} THEN Len(text) + 1 ELSE Min(others)
  BY DEF PastPeriods
<1> HIDE DEF others
<1>3. Min(others) = at
  BY <1>1, MinIs
<1> QED
  BY <1>1, <1>2, <1>3

LogParses(text, n) ==
    \A d \in 0 .. MaxDepth : \A s \in Seq(Items[d]) : \A at \in Nat \ {0} :
        Len(LogAll(d, s)) <= n /\ HasAt(text, at, LogAll(d, s)) /\ Follows(text, at + Len(LogAll(d, s))) =>
            ParseItems(text)[n][at][Len(s)] = ParsedItems(s, at + Len(LogAll(d, s)))

LEMMA OneAt ==
    ASSUME NEW text, NEW at, NEW piece, Len(piece) = 1, HasAt(text, at, piece)
    PROVE  text[at] = piece[1] /\ at \in Nat \ {0} /\ (Len(text) \in Nat => at <= Len(text))
<1>1. at \in Nat \ {0} /\ at + 1 <= Len(text) + 1 /\ text[(at + 1) - 1] = piece[1]
  BY DEF HasAt
<1>2. (at + 1) - 1 = at /\ (Len(text) \in Nat => at <= Len(text))
  BY <1>1
<1> QED
  BY <1>1, <1>2

LogItemRead(text, n, at, item, piece) ==
    LET end == at + Len(piece)
        p   == ItemFrom(text, at, ParseItems(text)[n])
    IN  p.ok /\ p.item = item /\ (p.next = end \/ p.next = PastPeriods(text, end))

LEMMA LogItemParsed ==
    ASSUME NEW text, Len(text) \in Nat, BareTexts(text), NEW n \in 0 .. Len(text), LogParses(text, n),
           NEW d \in 0 .. MaxDepth, NEW item \in Items[d], Len(equipment[d][item]) <= n + 1,
           NEW at, HasAt(text, at, equipment[d][item])
    PROVE  LogItemRead(text, n, at, item, equipment[d][item])
<1> DEFINE piece == equipment[d][item]
           children == ParseItems(text)[n]
           end == at + Len(piece)
           p == ItemFrom(text, at, children)
<1>0. HasAt(text, at, piece) /\ Len(piece) <= n + 1
  OBVIOUS
<1>1. CASE ~IsList(item)
  <2> DEFINE x == EquipmentScalar(item)
             scalar == ParseScalar(text[at])
  <2>1. item \in Scalars /\ piece = <<x>>
    BY <1>1, ScalarOfLog
  <2> HIDE DEF piece, x, children
  <2>2. Len(piece) = 1 /\ piece[1] = x
    BY <2>1
  <2>3. text[at] = x /\ at <= Len(text) /\ at \in Nat \ {0}
    BY <1>0, <2>2, OneAt
  <2>4. item.type = "A" => Loggable(item.text)
    <3> SUFFICES ASSUME item.type = "A" PROVE Loggable(item.text)
      OBVIOUS
    <3>1. item = ASCII(item.text) /\ item.text \in Seq(Byte)
      BY <2>1 DEF Scalars, Short, ASCII, Numbers, Numeric, Signed, Unsigned
    <3>2. text[at] = EquipmentScalar(ASCII(item.text))
      BY <2>3, <3>1 DEF x
    <3>3. at \in 1 .. Len(text)
      BY <2>3
    <3> QED
      BY <3>1, <3>2, <3>3 DEF BareTexts
  <2>5. x.tok = "scalar" /\ ParseScalar(x) = Read(item)
    BY <2>1, <2>4, ScalarLogged DEF x
  <2>6. scalar.ok /\ scalar.item = item
    BY <2>3, <2>5 DEF Read
  <2>7. TokenAt(text, at, "scalar") /\ ~TokenAt(text, at, "L:") /\ ~TokenAt(text, at, "<L,")
    BY <2>3, <2>5 DEF TokenAt
  <2>8. p = IF scalar.ok THEN Parsed(scalar.item, at + 1) ELSE Refused
    BY <2>7 DEF ItemFrom
  <2> HIDE DEF scalar, p
  <2>9. p.ok /\ p.item = item /\ p.next = end
    BY <2>2, <2>6, <2>8 DEF Parsed
  <2> QED
    BY <2>9 DEF LogItemRead, p, children, piece
<1>2. CASE IsList(item)
  <2> DEFINE s == item.items
             c == d - 1
             x == LoggedList(Len(s))
             o == <<x>>
             all == LogAll(c, s)
             back == ClosedWith(s)
             list == children[at + 1][Len(s)]
  <2>1. c \in 0 .. MaxDepth /\ s \in Seq(Items[c]) /\ Len(s) \in Nat /\ item = List(s)
    BY <1>2, ListOfItems
  <2>2. piece = (o \o all) \o back /\ x \in LogTokens
    BY <1>2, ListOfLog
  <2>3. x.tok = "<L," /\ x.n = Len(s)
    BY DEF LoggedList
  <2>4. all \in Seq(LogTokens) /\ Len(all) \in Nat
    <3> HIDE DEF c, s
    <3> QED
      BY <2>1, EquipmentTyped, LogAllTyped
  <2>5. s = <<>> <=> Len(s) = 0
    BY <2>1, Sizes
  <2>6. back \in Seq(LogTokens) /\ Len(back) = (IF s = <<>> THEN 0 ELSE 1) /\ (s # <<>> => back = <<Closer>>)
    BY ClosedTyped DEF ClosedWith
  <2>7. Len(piece) = (1 + Len(all)) + (IF s = <<>> THEN 0 ELSE 1)
    <3> HIDE DEF x, all, s
    <3> QED
      BY <2>2, <2>4, ListLogTyped
  <2>8. s = <<>> => all = <<>>
    BY MapNone DEF LogAll
  <2> HIDE DEF piece, c, s, x, all, back
  <2>9. o \in Seq(LogTokens) /\ Len(o) = 1 /\ o[1] = x
    BY <2>2, OneToken
  <2> HIDE DEF o
  <2>10. o \o all \in Seq(LogTokens) /\ Len(o \o all) = 1 + Len(all)
    <3>1. o \o all \in Seq(LogTokens) /\ Len(o \o all) = Len(o) + Len(all)
      BY <2>4, <2>9, Pieces2
    <3> QED
      BY <2>9, <3>1
  <2>11. HasAt(text, at, o \o all) /\ HasAt(text, at + Len(o \o all), back)
    BY <1>0, <2>2, <2>6, <2>10, HasParts
  <2>12. HasAt(text, at, o) /\ HasAt(text, at + Len(o), all)
    BY <2>4, <2>9, <2>11, HasParts
  <2>13. text[at] = x /\ at <= Len(text) /\ at \in Nat \ {0}
    BY <2>9, <2>12, OneAt
  <2> DEFINE b == at + 1
             q == b + Len(all)
  <2>14. b \in Nat \ {0} /\ q \in Nat \ {0} /\ HasAt(text, b, all) /\ HasAt(text, q, back)
    <3>1. at + Len(o) = at + 1 /\ at + Len(o \o all) = (at + 1) + Len(all)
      BY <2>4, <2>9, <2>10, <2>13
    <3> QED
      BY <2>4, <2>11, <2>12, <2>13, <3>1
  <2>15. list.ok /\ list.items = s /\ list.next = q
    <3> HIDE DEF b
    <3>1. CASE s = <<>>
      <4>1. ParseItems(text)[n][b][0] = ParsedItems(<<>>, b)
        BY <2>14, ParseItemsDefined
      <4>2. Len(s) = 0 /\ q = b
        BY <2>5, <2>8, <2>14, <3>1
      <4>3. ParseItems(text)[n][b][Len(s)] = ParsedItems(s, q)
        BY <3>1, <4>1, <4>2
      <4> QED
        BY <4>3 DEF ParsedItems, b, children
    <3>2. CASE s # <<>>
      <4>1. Len(all) <= n
        BY <1>0, <2>4, <2>7, <3>2
      <4>2. Follows(text, q)
        <5> HIDE DEF q
        <5>1. back = <<Closer>>
          BY <2>6, <3>2
        <5>2. Len(back) = 1 /\ back[1] = Closer
          BY <5>1
        <5>3. text[q] = Closer /\ q <= Len(text)
          BY <2>14, <5>2, OneAt
        <5>4. Closer \in LogTokens
          BY DEF LogTokens
        <5> QED
          BY <5>3, <5>4, NoPeriod DEF Follows
      <4>3. ParseItems(text)[n][b][Len(s)] = ParsedItems(s, q)
        BY <2>1, <2>14, <4>1, <4>2 DEF LogParses, all
      <4> QED
        BY <4>3 DEF ParsedItems, b, children
    <3> QED
      BY <3>1, <3>2
  <2> HIDE DEF children
  <2>16. TokenAt(text, at, "<L,") /\ ~TokenAt(text, at, "L:") /\ ~TokenAt(text, at, "scalar")
    BY <2>3, <2>13 DEF TokenAt
  <2>17. text[at].n = Len(s)
    BY <2>3, <2>13
  <2>18. p = IF list.ok
             THEN Parsed(List(list.items), IF Len(s) = 0 THEN at + 1 ELSE PastCloser(text, list.next))
             ELSE Refused
    <3>1. p = LET inner == children[at + 1][text[at].n] IN
              IF inner.ok
              THEN Parsed(List(inner.items), IF text[at].n = 0 THEN at + 1 ELSE PastCloser(text, inner.next))
              ELSE Refused
      BY <2>16 DEF ItemFrom
    <3> QED
      BY <2>17, <3>1
  <2> HIDE DEF list
  <2>19. p = Parsed(item, IF Len(s) = 0 THEN at + 1 ELSE PastCloser(text, q))
    BY <2>1, <2>15, <2>18
  <2> HIDE DEF p
  <2>20. p.ok /\ p.item = item /\ p.next = IF Len(s) = 0 THEN at + 1 ELSE PastCloser(text, q)
    BY <2>19 DEF Parsed
  <2>21. CASE s = <<>>
    <3>1. Len(s) = 0 /\ Len(piece) = 1
      BY <2>5, <2>7, <2>8, <2>21
    <3> QED
      BY <2>20, <3>1 DEF LogItemRead, p, children, piece
  <2>22. CASE s # <<>>
    <3>1. back = <<Closer>>
      BY <2>6, <2>22
    <3>2. Len(back) = 1 /\ back[1] = Closer
      BY <3>1
    <3>3. q + 1 = end
      BY <2>4, <2>7, <2>13, <2>22
    <3> HIDE DEF q
    <3>4. text[q] = Closer /\ q <= Len(text)
      BY <2>14, <3>2, OneAt
    <3>5. TokenAt(text, q, ">")
      BY <3>4 DEF TokenAt, Closer
    <3>6. PastCloser(text, q) = PastPeriods(text, q + 1)
      BY <3>5 DEF PastCloser
    <3>7. p.next = PastPeriods(text, end)
      BY <2>5, <2>20, <2>22, <3>3, <3>6
    <3> QED
      BY <2>20, <3>7 DEF LogItemRead, p, children, piece
  <2> QED
    BY <2>21, <2>22
<1> QED
  BY <1>1, <1>2

LEMMA LogParsesNone ==
    ASSUME NEW text, Len(text) \in Nat, NEW n \in 0 .. Len(text), NEW d, NEW at \in Nat \ {0}
    PROVE  ParseItems(text)[n][at][Len(<<>>)] = ParsedItems(<<>>, at + Len(LogAll(d, <<>>)))
<1>1. LogAll(d, <<>>) = <<>> /\ Len(<<>>) = 0 /\ at + 0 = at
  BY MapNone DEF LogAll
<1>2. ParseItems(text)[n][at][0] = ParsedItems(<<>>, at)
  BY ParseItemsDefined
<1> QED
  BY <1>1, <1>2

LEMMA LogParsesOneMore ==
    ASSUME NEW text, Len(text) \in Nat, BareTexts(text), NEW n \in 0 .. Len(text), LogParses(text, n),
           n + 1 <= Len(text),
           NEW d \in 0 .. MaxDepth, NEW s \in Seq(Items[d]), s # <<>>, NEW at \in Nat \ {0},
           Len(LogAll(d, s)) <= n + 1, HasAt(text, at, LogAll(d, s)), Follows(text, at + Len(LogAll(d, s)))
    PROVE  ParseItems(text)[n + 1][at][Len(s)] = ParsedItems(s, at + Len(LogAll(d, s)))
<1> DEFINE r == Tail(s)
           i == s[1]
           b == equipment[d][i]
           all == LogAll(d, s)
           others == LogAll(d, r)
           children == ParseItems(text)[n]
           next == at + Len(b)
           child == ItemFrom(text, at, children)
<1>1. /\ i \in Items[d] /\ r \in Seq(Items[d]) /\ Len(r) = Len(s) - 1 /\ s = <<i>> \o r
      /\ all = b \o others
  BY LogFirst
<1> HIDE DEF r, i
<1>2. b \in Seq(LogTokens) /\ Len(b) \in Nat /\ Len(b) >= 1
  BY <1>1, EquipmentTyped DEF LogTyped
<1>3. others \in Seq(LogTokens) /\ Len(others) \in Nat
  BY <1>1, EquipmentTyped, LogAllTyped
<1>4. Len(all) <= n + 1 /\ HasAt(text, at, all) /\ Follows(text, at + Len(all))
  OBVIOUS
<1>5. /\ Len(others) <= n /\ HasAt(text, next, others) /\ next \in Nat \ {0}
            /\ Follows(text, next + Len(others)) =>
            children[next][Len(r)] = ParsedItems(r, next + Len(others))
  BY <1>1 DEF LogParses
<1>6. Len(b) <= n + 1 /\ HasAt(text, at, b) =>
            child.ok /\ child.item = i /\ (child.next = next \/ child.next = PastPeriods(text, next))
  <2>1. \A j \in Items[d] : Len(equipment[d][j]) <= n + 1 /\ HasAt(text, at, equipment[d][j]) =>
           LogItemRead(text, n, at, j, equipment[d][j])
    BY LogItemParsed
  <2>2. Len(b) <= n + 1 /\ HasAt(text, at, b) => LogItemRead(text, n, at, i, b)
    BY <1>1, <2>1
  <2> QED
    BY <2>2 DEF LogItemRead
<1>7. Len(s) \in Nat /\ Len(s) # 0
  BY Sizes
<1> HIDE DEF b, others, all, children
<1>8. Len(all) = Len(b) + Len(others)
  BY <1>1, <1>2, <1>3, Pieces2
<1>9. Len(others) <= n /\ Len(b) <= n + 1 /\ next \in Nat \ {0} /\ next + Len(others) = at + Len(all)
  BY <1>2, <1>3, <1>4, <1>8
<1>10. HasAt(text, at, b) /\ HasAt(text, next, others)
  BY <1>1, <1>2, <1>3, <1>4, HasParts
<1> HIDE DEF next, child
<1>11. Follows(text, next)
  <2>1. CASE Len(others) = 0
    <3>1. next + Len(others) = next
      BY <1>9, <2>1
    <3> QED
      BY <1>4, <1>9, <3>1
  <2>2. CASE Len(others) # 0
    <3>1. 1 \in 1 .. Len(others) /\ (next + 1) - 1 = next
      BY <1>3, <1>9, <2>2
    <3>2. text[next] = others[1]
      BY <1>10, <3>1 DEF HasAt
    <3>3. others[1] \in LogTokens
      BY <1>3, <3>1, Sizes
    <3>4. next + Len(others) <= Len(text) + 1
      BY <1>10 DEF HasAt
    <3>5. next <= Len(text)
      BY <1>3, <1>9, <2>2, <3>4
    <3> QED
      BY <3>2, <3>3, <3>5, NoPeriod DEF Follows
  <2> QED
    BY <2>1, <2>2
<1>12. PastPeriods(text, next) = next
  BY <1>9, <1>11, NoPeriodsAt
<1>13. child.ok /\ child.item = i /\ child.next = next
  BY <1>6, <1>9, <1>10, <1>12
<1>14. children[next][Len(s) - 1] = ParsedItems(r, at + Len(all))
  BY <1>1, <1>4, <1>5, <1>9, <1>10
<1>15. ItemsFrom(text, at, Len(s), children) = ParsedItems(s, at + Len(all))
  <2> DEFINE after == children[child.next][Len(s) - 1]
  <2>1. after.ok /\ after.items = r /\ after.next = at + Len(all)
    BY <1>13, <1>14 DEF ParsedItems
  <2> HIDE DEF after
  <2>2. ItemsFrom(text, at, Len(s), children) =
          IF child.ok /\ after.ok THEN ParsedItems(<<child.item>> \o after.items, after.next) ELSE Refused
    BY DEF ItemsFrom, child, after
  <2> QED
    BY <1>1, <1>13, <2>1, <2>2
<1>16. ParseItems(text)[n + 1][at][Len(s)] = ItemsFrom(text, at, Len(s), children)
  <2> DEFINE m == n + 1
  <2>1. m \in 0 .. Len(text) /\ m # 0 /\ m - 1 = n
    OBVIOUS
  <2> HIDE DEF m
  <2>2. ParseItems(text)[m][at][Len(s)] =
              IF Len(s) = 0 THEN ParsedItems(<<>>, at)
              ELSE IF m = 0 THEN Refused
              ELSE ItemsFrom(text, at, Len(s), ParseItems(text)[m - 1])
    BY <1>7, <2>1, ParseItemsDefined
  <2> QED
    BY <1>7, <2>1, <2>2 DEF m, children
<1> QED
  BY <1>15, <1>16 DEF all

LEMMA LogParsesAlways ==
    ASSUME NEW text, Len(text) \in Nat, BareTexts(text)
    PROVE  \A n \in 0 .. Len(text) : LogParses(text, n)
<1> DEFINE T == {n \in Nat : n <= Len(text) => LogParses(text, n)}
<1>1. 0 \in T
  <2> SUFFICES ASSUME NEW d \in 0 .. MaxDepth, NEW s \in Seq(Items[d]), NEW at \in Nat \ {0},
                      Len(LogAll(d, s)) <= 0
               PROVE  ParseItems(text)[0][at][Len(s)] = ParsedItems(s, at + Len(LogAll(d, s)))
    BY DEF LogParses
  <2>0. 0 \in 0 .. Len(text)
    OBVIOUS
  <2>1. CASE s = <<>>
    BY <2>0, <2>1, LogParsesNone
  <2>2. CASE s # <<>>
    <3> DEFINE b == equipment[d][s[1]]
               others == LogAll(d, Tail(s))
    <3>1. s[1] \in Items[d] /\ Tail(s) \in Seq(Items[d]) /\ LogAll(d, s) = b \o others
      BY <2>2, LogFirst
    <3>2. LogTyped(d)
      BY EquipmentTyped
    <3>3. b \in Seq(LogTokens) /\ Len(b) \in Nat /\ Len(b) >= 1
      BY <3>1, <3>2 DEF LogTyped
    <3>4. others \in Seq(LogTokens) /\ Len(others) \in Nat
      BY <3>1, <3>2, LogAllTyped
    <3> HIDE DEF b, others
    <3>5. Len(LogAll(d, s)) = Len(b) + Len(others)
      BY <3>1, <3>3, <3>4, Pieces2
    <3> QED
      BY <3>3, <3>4, <3>5
  <2> QED
    BY <2>1, <2>2
<1>2. ASSUME NEW n \in T PROVE n + 1 \in T
  <2> SUFFICES ASSUME n + 1 <= Len(text) PROVE LogParses(text, n + 1)
    BY <1>2
  <2>1. n \in 0 .. Len(text) /\ n + 1 \in 0 .. Len(text) /\ LogParses(text, n)
    BY <1>2
  <2>2. ASSUME NEW d \in 0 .. MaxDepth, NEW s \in Seq(Items[d]), NEW at \in Nat \ {0},
               Len(LogAll(d, s)) <= n + 1, HasAt(text, at, LogAll(d, s)),
               Follows(text, at + Len(LogAll(d, s)))
        PROVE  ParseItems(text)[n + 1][at][Len(s)] = ParsedItems(s, at + Len(LogAll(d, s)))
    <3>1. CASE s = <<>>
      BY <2>1, <3>1, LogParsesNone
    <3>2. CASE s # <<>>
      BY <2>1, <2>2, <3>2, LogParsesOneMore
    <3> QED
      BY <3>1, <3>2
  <2> QED
    BY <2>2 DEF LogParses
<1> HIDE DEF T
<1>3. T \in SUBSET Nat
  BY DEF T
<1>4. \A n \in Nat : n \in T
  BY <1>1, <1>2, <1>3, Induction
<1>5. ASSUME NEW n \in 0 .. Len(text) PROVE LogParses(text, n)
  <2>1. n \in T /\ n <= Len(text)
    BY <1>4
  <2> QED
    BY <2>1 DEF T
<1> QED
  BY <1>5

\* An item is parsed from the log of a piece of equipment as it was, with the period
\* that ends the message or without it, when its texts are ones that such a log can
\* hold: a quote or a ">" in a bare text moves its end, the blanks around it are taken
\* away, and what stands in brackets is taken for a label (sml_parser.go: ParseSMLItem,
\* readAngleContent, parseLoggedToken).
THEOREM EquipmentLogIsRead ==
    ASSUME NEW item \in Item, NEW tail \in {<<>>, <<Period>>}, PlainText(EquipmentLog(item))
    PROVE  ParseSMLItem(EquipmentLog(item) \o tail) = Read(item)
<1> DEFINE piece == equipment[MaxDepth][item]
           text == piece \o tail
           end == 1 + Len(piece)
           p == ItemFrom(text, 1, ParseItems(text)[Len(text)])
<1>1. MaxDepth \in 0 .. MaxDepth /\ item \in Items[MaxDepth]
  BY DepthAssumption DEF DepthAssumption, Item
<1>2. piece \in Seq(LogTokens) /\ Len(piece) \in Nat /\ Len(piece) >= 1
  BY <1>1, EquipmentTyped DEF LogTyped
<1>3. EquipmentLog(item) = piece /\ BareTexts(piece)
  <2>1. EquipmentLog(item) = piece
    BY DEF EquipmentLog
  <2> HIDE DEF piece
  <2> QED
    BY <1>2, <2>1, PlainTextIsBare
<1>4. tail = <<>> \/ (Len(tail) = 1 /\ tail[1] = Period)
  OBVIOUS
<1> DEFINE S == LogTokens \cup {Period}
<1>5. piece \in Seq(S) /\ tail \in Seq(S) /\ Len(tail) \in Nat
  <2> HIDE DEF piece
  <2>1. piece \in Seq(S)
    BY <1>2
  <2>2. tail \in Seq(S)
    <3>1. <<>> \in Seq(S)
      OBVIOUS
    <3>2. <<Period>> \in Seq(S)
      <4>1. Period \in S
        OBVIOUS
      <4> HIDE DEF S
      <4> QED
        BY <4>1, OneToken
    <3> QED
      BY <3>1, <3>2
  <2>3. Len(tail) \in Nat
    OBVIOUS
  <2> QED
    BY <2>1, <2>2, <2>3
<1> HIDE DEF piece, S
<1>6. /\ text \in Seq(S) /\ Len(text) = Len(piece) + Len(tail)
      /\ \A i \in 1 .. Len(piece) + Len(tail) :
            text[i] = IF i <= Len(piece) THEN piece[i] ELSE tail[i - Len(piece)]
  BY <1>5, ConcatProperties
<1> HIDE DEF text
<1>7. Len(text) \in Nat /\ Len(piece) <= Len(text)
  BY <1>2, <1>5, <1>6
<1>8. HasAt(text, 1, piece)
  <2>1. \A k \in 1 .. Len(piece) : (1 + k) - 1 = k /\ k \in 1 .. Len(piece) + Len(tail) /\ k <= Len(piece)
    BY <1>2, <1>5
  <2>2. \A k \in 1 .. Len(piece) : text[(1 + k) - 1] = piece[k]
    BY <1>6, <2>1
  <2>3. 1 + Len(piece) <= Len(text) + 1
    BY <1>2, <1>7
  <2> QED
    BY <2>2, <2>3 DEF HasAt
<1>9. \A k \in 1 .. Len(text) : k <= Len(piece) \/ (Len(tail) = 1 /\ k = Len(piece) + 1 /\ text[k] = Period)
  <2> SUFFICES ASSUME NEW k \in 1 .. Len(text), ~(k <= Len(piece))
               PROVE  Len(tail) = 1 /\ k = Len(piece) + 1 /\ text[k] = Period
    OBVIOUS
  <2>1. Len(tail) = 1 /\ tail[1] = Period
    <3>1. Len(tail) # 0
      BY <1>2, <1>5, <1>6
    <3>2. tail # <<>>
      BY <3>1
    <3> QED
      BY <1>4, <3>2
  <2>2. k = Len(piece) + 1 /\ k - Len(piece) = 1 /\ k \in 1 .. Len(piece) + Len(tail)
    BY <1>2, <1>6, <2>1
  <2>3. text[k] = tail[k - Len(piece)]
    BY <1>6, <2>2
  <2> QED
    BY <2>1, <2>2, <2>3
<1>10. BareTexts(text)
  <2> SUFFICES ASSUME NEW k \in 1 .. Len(text), NEW c \in Seq(Byte), text[k] = EquipmentScalar(ASCII(c))
               PROVE  Loggable(c)
    BY DEF BareTexts
  <2>1. text[k] # Period
    <3>1. text[k].tok = "scalar"
      BY LoggedTag
    <3>2. Period.tok = "."
      BY DEF Period
    <3> QED
      BY <3>1, <3>2
  <2>2. k <= Len(piece)
    BY <1>9, <2>1
  <2>3. text[k] = piece[k] /\ k \in 1 .. Len(piece)
    BY <1>2, <1>5, <1>6, <2>2
  <2> QED
    BY <1>3, <2>3 DEF BareTexts
<1>11. p.ok /\ p.item = item /\ (p.next = end \/ p.next = PastPeriods(text, end))
  <2>1. LogParses(text, Len(text)) /\ Len(text) \in 0 .. Len(text)
    BY <1>7, <1>10, LogParsesAlways
  <2>2. Len(piece) <= Len(text) + 1
    BY <1>2, <1>7
  <2>3. LogItemRead(text, Len(text), 1, item, piece)
    BY <1>1, <1>7, <1>8, <1>10, <2>1, <2>2, LogItemParsed DEF piece
  <2> QED
    BY <2>3 DEF LogItemRead
<1>12. PastPeriods(text, end) = Len(text) + 1
  <2>1. {k \in end .. Len(text) : text[k] # Period} = {}
    <3>1. ASSUME NEW k \in end .. Len(text) PROVE text[k] = Period
      <4>1. k \in 1 .. Len(text) /\ ~(k <= Len(piece))
        BY <1>2, <1>7
      <4> QED
        BY <1>9, <4>1
    <3> QED
      BY <3>1
  <2> QED
    BY <2>1 DEF PastPeriods
<1>13. PastPeriods(text, Len(text) + 1) = Len(text) + 1
  <2>1. {k \in (Len(text) + 1) .. Len(text) : text[k] # Period} = {}
    BY <1>7
  <2> QED
    BY <2>1 DEF PastPeriods
<1>14. ParseItem(text, 1) = p
  BY DEF ParseItem
<1> HIDE DEF p, end
<1>15. PastPeriods(text, p.next) > Len(text)
  BY <1>7, <1>11, <1>12, <1>13
<1>16. ParseSMLItem(text) = Read(item)
  BY <1>11, <1>14, <1>15 DEF ParseSMLItem
<1> QED
  BY <1>3, <1>16 DEF text

-----------------------------------------------------------------------------
(* What an operator may copy of a message into an action of a rule: the text *)
(* the simulator shows, or the log of the equipment, with a period or not.   *)
CopiedFrom(action, m) ==
    /\ action.ok = TRUE /\ action.stream = m.stream /\ action.function = m.function /\ action.wbit = m.wbit
    /\ \/ m.body = NoBody /\ action.body = <<>>
       \/ m.body # NoBody /\ action.body = Compact(m.body)
       \/ /\ m.body # NoBody /\ PlainText(EquipmentLog(m.body))
          /\ \E tail \in {<<>>, <<Period>>} : action.body = EquipmentLog(m.body) \o tail

LEMMA CopiedIsRead ==
    ASSUME NEW action, NEW item \in Item,
           \/ action.body = Compact(item)
           \/ /\ PlainText(EquipmentLog(item))
              /\ \E tail \in {<<>>, <<Period>>} : action.body = EquipmentLog(item) \o tail
    PROVE  action.body # <<>> /\ ParseSMLItem(action.body) = Read(item)
<1>1. MaxDepth \in 0 .. MaxDepth /\ item \in Items[MaxDepth]
  BY DepthAssumption DEF DepthAssumption, Item
<1>2. CASE action.body = Compact(item)
  <2>1. Len(compact[MaxDepth][item]) >= 1
    BY <1>1, CompactTyped DEF TextTyped
  <2>2. Compact(item) # <<>>
    BY <2>1 DEF Compact
  <2> QED
    BY <1>2, <2>2, TextRoundTrip
<1>3. CASE /\ PlainText(EquipmentLog(item))
           /\ \E tail \in {<<>>, <<Period>>} : action.body = EquipmentLog(item) \o tail
  <2>1. PICK tail \in {<<>>, <<Period>>} : action.body = EquipmentLog(item) \o tail
    BY <1>3
  <2>2. ParseSMLItem(EquipmentLog(item) \o tail) = Read(item)
    BY <1>3, EquipmentLogIsRead
  <2> DEFINE piece == equipment[MaxDepth][item]
  <2>3. piece \in Seq(LogTokens) /\ Len(piece) \in Nat /\ Len(piece) >= 1
    BY <1>1, EquipmentTyped DEF LogTyped
  <2>4. EquipmentLog(item) = piece
    BY DEF EquipmentLog
  <2> HIDE DEF piece
  <2>5. piece \o tail # <<>>
    <3>1. CASE tail = <<>>
      BY <2>3, <3>1
    <3>2. CASE tail = <<Period>>
      BY <2>3, <3>2
    <3> QED
      BY <3>1, <3>2
  <2> QED
    BY <2>1, <2>2, <2>4, <2>5
<1> QED
  BY <1>2, <1>3

LEMMA BuiltIs ==
    ASSUME NEW m \in Sendable, m.system = 0, NEW action, CopiedFrom(action, m)
    PROVE  Build(m.session, action) = [ok |-> TRUE, frame |-> EncodeMessage(m)]
<1> DEFINE parsed == ParseSMLItem(action.body)
           as(body) == Message(m.session, action.stream, action.function, action.wbit, 0, body)
<1>1. m \in Messages
  BY DEF Sendable
<1>2. action.ok = TRUE /\ as(m.body) = m
  BY <1>1 DEF CopiedFrom, Messages, Message
<1>3. CASE m.body = NoBody
  <2>1. action.body = <<>>
    BY <1>3 DEF CopiedFrom
  <2>2. Build(m.session, action) = [ok |-> TRUE, frame |-> EncodeMessage(as(NoBody))]
    BY <1>2, <2>1, Zenon DEF Build
  <2> HIDE DEF as
  <2> QED
    BY <1>2, <1>3, <2>2
<1>4. CASE m.body # NoBody
  <2>1. m.body \in Item
    BY <1>1, <1>4 DEF Messages
  <2>2. action.body # <<>> /\ parsed = Read(m.body)
    BY <1>4, <2>1, CopiedIsRead DEF CopiedFrom
  <2>3. parsed.ok = TRUE /\ parsed.item = m.body
    BY <2>2 DEF Read
  <2>4. Build(m.session, action) = [ok |-> TRUE, frame |-> EncodeMessage(as(parsed.item))]
    BY <1>2, <2>2, <2>3, Zenon DEF Build
  <2> HIDE DEF as, parsed
  <2> QED
    BY <1>2, <2>3, <2>4
<1> QED
  BY <1>3, <1>4

\* A rule sends what an operator copied into it: the peer reads from the bytes of the
\* frame the message that was copied, under the same stream, function and W bit
\* (event_messages.go: buildScheduledSendMessage; sml_parser.go; items.go; frame.go),
\* from the simulator's text always and from equipment's log where it has bare texts
\* only.
THEOREM CopyIsSent ==
    ASSUME NEW m \in Sendable, m.system = 0, NEW action, CopiedFrom(action, m)
    PROVE  LET built == Build(m.session, action)
               b     == EncodeFrame(built.frame)
           IN  /\ built.ok
               /\ IsWritten(b)
               /\ DecodeMessage(DecodeFrame(From(b, 5))) = [ok |-> TRUE, message |-> m]
<1> DEFINE built == Build(m.session, action)
           f == EncodeMessage(m)
<1>1. built = [ok |-> TRUE, frame |-> f]
  BY BuiltIs
<1> HIDE DEF built
<1>2. LET b == EncodeFrame(f) IN
      IsWritten(b) /\ DecodeMessage(DecodeFrame(From(b, 5))) = [ok |-> TRUE, message |-> m]
  BY MessageRoundTrip
<1> HIDE DEF f
<1>3. built.ok = TRUE /\ built.frame = f
  BY <1>1
<1> QED
  BY <1>2, <1>3 DEF built
=============================================================================
